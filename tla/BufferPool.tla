----------------------------- MODULE BufferPool ----------------------------
(***************************************************************************)
(* What the server's I/O memory promises the worker threads: a thread that *)
(* asks for a buffer is given a free one, keeps it to itself until it      *)
(* returns it, and every free buffer is blank.  IOMemory implements it;    *)
(* Reactor uses it in place of the slots and their locks.                  *)
(***************************************************************************)
EXTENDS Naturals

CONSTANTS
  Workers,  (* the threads that use buffers                                *)
  Slots,    (* the buffers                                                 *)
  NoSlot,   (* not a buffer: what a thread without one holds               *)
  Data      (* what can be stored in a buffer                              *)

VARIABLES
  holds,    (* the buffer each worker holds                                *)
  content   (* the data each buffer holds                                  *)

vars == <<holds, content>>

Blank == {}

TypeOK ==
  /\ holds \in [Workers -> Slots \cup {NoSlot}]
  /\ content \in [Slots -> SUBSET Data]

Init ==
  /\ holds = [w \in Workers |-> NoSlot]
  /\ content = [i \in Slots |-> Blank]

Free(i) == \A w \in Workers : holds[w] # i

Acquire(w) ==
  /\ holds[w] = NoSlot
  /\ \E i \in Slots : Free(i) /\ holds' = [holds EXCEPT ![w] = i]
  /\ UNCHANGED content

(* What is written may lie over what was there. *)
Write(w, D) ==
  /\ holds[w] # NoSlot
  /\ content' = [content EXCEPT ![holds[w]] = D]
  /\ UNCHANGED holds

Wipe(w) ==
  /\ holds[w] # NoSlot
  /\ content' = [content EXCEPT ![holds[w]] = Blank]
  /\ UNCHANGED holds

Release(w) ==
  /\ holds[w] # NoSlot
  /\ content[holds[w]] = Blank
  /\ holds' = [holds EXCEPT ![w] = NoSlot]
  /\ UNCHANGED content

Next ==
  \E w \in Workers :
    \/ Acquire(w)
    \/ \E D \in SUBSET Data : Write(w, D)
    \/ Wipe(w)
    \/ Release(w)

Spec == Init /\ [][Next]_vars
=============================================================================
