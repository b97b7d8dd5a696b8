----------------------------- MODULE SocketRead ----------------------------
(***************************************************************************)
(* read_socket_non_block (src/stream/SocketStream.cpp), one call of it, on *)
(* a stream that goes on arriving between two recvs.  Bytes are numbered   *)
(* by their place in the stream; 0 is the '\0' of a blank buffer.  The      *)
(* socket does not block, so a recv does not wait and no signal interrupts *)
(* it: EINTR does not come.                                                *)
(***************************************************************************)
EXTENDS Integers

CONSTANTS
  Size,   (* the buffer's size, 4096 in the code                           *)
  Total   (* bound: bytes the client sends                                 *)

ASSUME SocketReadAssumption == Size \in Nat \ {0} /\ Total \in Nat

VARIABLES
  arrived,         (* bytes the kernel has received                        *)
  fin,             (* the client has closed                                *)
  socket,          (* "open", "reset" by the client, or "gone": another    *)
                   (* task has closed the descriptor                       *)
  taken,           (* bytes recv has returned                              *)
  buffer,          (* the memory at ptr                                    *)
  ret,             (* what the last recv returned                          *)
  cur_bytes_read,
  recvs,           (* history: recvs that returned data                    *)
  progress,        (* of the call: "test", "recv", "done", "aborted"       *)
  result,          (* what it returned                                     *)
  closed,          (* the call has closed the socket                       *)
  left             (* history: bytes unread when the call returned         *)

loopVars == <<ret, cur_bytes_read, recvs, taken, buffer>>
readVars == <<arrived, fin, socket, loopVars, progress, result, closed, left>>

(* The type of every variable. *)
ReadTypeOK ==
  /\ arrived \in 0 .. Total
  /\ fin \in BOOLEAN
  /\ socket \in {"open", "reset", "gone"}
  /\ taken \in 0 .. arrived
  /\ buffer \in [0 .. Size - 1 -> 0 .. Total]
  /\ ret \in 0 .. Size
  /\ cur_bytes_read \in 0 .. Size
  /\ recvs \in 0 .. Total
  /\ progress \in {"test", "recv", "done", "aborted"}
  /\ result \in 0 .. Size
  /\ closed \in BOOLEAN
  /\ left \in 0 .. Total

(* Anything may have arrived before the task gets to its call. *)
ReadInit ==
  /\ arrived \in 0 .. Total
  /\ fin \in BOOLEAN
  /\ socket = "open"
  /\ taken = 0
  /\ buffer = [i \in 0 .. Size - 1 |-> 0]
  /\ ret = 0 /\ cur_bytes_read = 0 /\ recvs = 0
  /\ progress = "test" /\ result = 0 /\ closed = FALSE /\ left = 0

(***************************************************************************)
(* The client, and what another task may do to the descriptor meanwhile.   *)
(***************************************************************************)
Arrive ==
  /\ ~fin /\ socket # "reset"
  /\ \E n \in 1 .. Total - arrived : arrived' = arrived + n
  /\ UNCHANGED <<fin, socket, loopVars, progress, result, closed, left>>

CloseByClient ==
  /\ ~fin /\ socket # "reset"
  /\ fin' = TRUE
  /\ UNCHANGED <<arrived, socket, loopVars, progress, result, closed, left>>

Break ==
  /\ socket = "open" /\ progress # "done"
  /\ \/ ~fin /\ socket' = "reset"
     \/ socket' = "gone"
  /\ UNCHANGED <<arrived, fin, loopVars, progress, result, closed, left>>

(***************************************************************************)
(* The call.                                                               *)
(***************************************************************************)
Returns(value) ==
  /\ progress' = "done"
  /\ result' = value
  /\ left' = arrived - taken

(* Seeded faults: the loop does not stop at a full buffer, or also after a *)
(* recv that returned less than it was asked for.                          *)
Endless_Full == FALSE
Short_Full == Size - ret = 0 \/ recvs > 0

(* The last recv filled a buffer asked for in full. *)
Full == Size - ret = 0

TestFull ==
  /\ progress = "test"
  /\ IF Full THEN Returns(cur_bytes_read) ELSE progress' = "recv" /\ UNCHANGED <<result, left>>
  /\ UNCHANGED <<arrived, fin, socket, loopVars, closed>>

Unread == arrived - taken

(* What a recv of up to Size - ret bytes returns, of what there is. *)
Got == IF Unread <= Size - ret THEN Unread ELSE Size - ret

(* Seeded fault: every recv writes to the start of the buffer. *)
Zero_Offset == 0

(* Where a recv writes, from ptr on. *)
Offset == ret

(* Seeded fault: the counts are summed up, with ret left as it is. *)
Summed_Count == cur_bytes_read + Got

(* cur_bytes_read after a recv: it is set to its count, not increased. *)
Count == Got

RecvData ==
  /\ progress = "recv" /\ socket # "gone" /\ Got > 0
  /\ buffer' = [i \in DOMAIN buffer |->
                  IF i \in Offset .. Offset + Got - 1 THEN taken + (i - Offset) + 1
                  ELSE buffer[i]]
  /\ taken' = taken + Got
  /\ ret' = Got /\ cur_bytes_read' = Count
  /\ recvs' = recvs + 1
  /\ progress' = "test"
  /\ UNCHANGED <<arrived, fin, socket, result, closed, left>>

(* 0: the end of the stream, or a recv that asked for nothing. *)
RecvEnd ==
  /\ progress = "recv" /\ socket # "gone" /\ Got = 0
  /\ fin \/ Size - ret = 0
  /\ closed' = TRUE
  /\ Returns(0)
  /\ UNCHANGED <<arrived, fin, socket, loopVars>>

(* EAGAIN: nothing to read now. *)
RecvAgain ==
  /\ progress = "recv" /\ socket = "open" /\ Got = 0
  /\ ~fin /\ Size - ret > 0
  /\ Returns(cur_bytes_read)
  /\ UNCHANGED <<arrived, fin, socket, loopVars, closed>>

(* Any other error ends the process: the descriptor is gone, or the        *)
(* connection is reset and what came before has been read.                 *)
RecvFatal ==
  /\ progress = "recv"
  /\ socket = "gone" \/ (socket = "reset" /\ Unread = 0)
  /\ progress' = "aborted"
  /\ UNCHANGED <<arrived, fin, socket, loopVars, result, closed, left>>

CallStep == TestFull \/ RecvData \/ RecvEnd \/ RecvAgain \/ RecvFatal

ReadNext == Arrive \/ CloseByClient \/ Break \/ CallStep

ReadSpec == ReadInit /\ [][ReadNext]_readVars

-----------------------------------------------------------------------------
(* Edge-triggered reading has to leave the socket empty.  It does, unless  *)
(* the first recv fills the buffer: a later one asks for less than Size,   *)
(* so the test of line 19 cannot end the loop any more.                    *)
EmptyUnlessFilledAtOnce ==
  progress = "done" => left = 0 \/ (recvs = 1 /\ result = Size)

(* The bytes of the first two recvs follow each other in the buffer; it    *)
(* takes a third to write over the second, at the offset of line 25.       *)
TwoRecvsInOrder ==
  recvs <= 2 => \A i \in 0 .. taken - 1 : i < Size /\ buffer[i] = i + 1

(* The socket is closed only after the client has closed: no recv asks for *)
(* 0 bytes and takes the answer for the end of the stream.                 *)
ClosesOnlyAtEnd == closed => fin /\ left = 0

=============================================================================
