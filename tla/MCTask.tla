------------------------------- MODULE MCTask ------------------------------
(***************************************************************************)
(* The two halves of a task, one after the other: the call that fills the  *)
(* buffer, and ParseHttpMsg, which is called when that has read something  *)
(* (HttpServer.cpp:98-106).  SocketRead numbers its bytes, and             *)
(* HttpRequest's have a meaning, so that the parser is given any of its    *)
(* messages, whatever the call has read; what the call leaves behind is    *)
(* its frame, which is gone when it has returned.                          *)
(*                                                                         *)
(* Messages for HttpRequest: every kind of request line without headers,   *)
(* and a plain one with up to two headers of every kind, each with and     *)
(* without a body.                                                         *)
(***************************************************************************)
EXTENDS SocketRead, HttpRequest

VARIABLE half   (* "read" or "parse"                                       *)

ReadHalf == half = "read" /\ ReadNext /\ UNCHANGED <<vars, half>>

ReadReturned ==
  /\ half = "read" /\ progress = "done" /\ result > 0
  /\ half' = "parse"
  /\ arrived' = 0 /\ fin' = FALSE /\ socket' = "open" /\ taken' = 0 /\ recvs' = 0
  /\ buffer' = [i \in 0 .. Size - 1 |-> 0] /\ ret' = 0 /\ cur_bytes_read' = 0
  /\ progress' = "test" /\ result' = 0 /\ closed' = FALSE /\ left' = 0
  /\ UNCHANGED vars

ParseHalf == half = "parse" /\ Next /\ UNCHANGED <<readVars, half>>

TaskInit == ReadInit /\ Init /\ half = "read"

TaskSpec ==
  /\ TaskInit
  /\ [][ReadHalf \/ ReadReturned \/ ParseHalf]_<<readVars, vars, half>>

Char(c) == [kind |-> "char", value |-> c]
Byte(b) == [kind |-> "byte", value |-> b]
Code(c) == [kind |-> "code", value |-> c]

(* GET /  HTTP/1.1 *)
Plain == [method |-> <<1001>>, gap |-> <<SP>>, path |-> <<47>>, fragment |-> <<>>,
          version |-> <<1011>>, rest |-> <<>>]

RequestLines ==
  { Plain,
    [Plain EXCEPT !.gap = <<SP, TAB, SP>>],
    [Plain EXCEPT !.gap = <<TAB>>, !.path = <<>>],
    [Plain EXCEPT !.path = <<>>],
    [Plain EXCEPT !.path = <<>>, !.fragment = <<35, 97>>],
    [Plain EXCEPT !.fragment = <<35, 97, 35>>],
    [Plain EXCEPT !.method = <<1031>>],
    [Plain EXCEPT !.version = <<1032>>],
    [Plain EXCEPT !.rest = <<SP>>],
    [Plain EXCEPT !.rest = <<SP, 97>>],
    [Plain EXCEPT !.path = <<47, 97, 97, 97, 97>>],
    [Plain EXCEPT !.path = <<47, 97, 97, 97, 97, 97>>],
    [Plain EXCEPT !.path = <<47, 97, 97, 97, 97, 97, 97>>],
    [Plain EXCEPT !.path = <<47, 97, 97, 97, 97, 97, 97, 97>>] }

Header(k, items) == [key |-> <<k>>, colon |-> <<58>>, gap |-> <<SP>>, items |-> items]

MCHeaders ==
  { Header(1041, <<>>),
    Header(1041, <<Char(97)>>),
    Header(1042, <<Char(97), Char(58), Char(SP)>>),
    Header(1042, <<Byte(37), Char(52), Char(49)>>),
    Header(1042, <<Code(8364)>>),
    Header(1043, <<Code(233)>>),
    Header(1043, <<Code(55357)>>),
    Header(1043, <<Char(37), Char(52)>>),
    Header(1043, <<Char(37), Char(117), Char(48), Char(48), Char(48)>>),
    Header(1021, <<Byte(SP)>>),
    Header(1022, <<Char(37)>>),
    [Header(1044, <<Code(127)>>) EXCEPT !.gap = <<>>],
    [Header(1044, <<>>) EXCEPT !.colon = <<>>],
    Header(1044, [i \in 1 .. 7 |-> Char(97)]),
    Header(1044, [i \in 1 .. 8 |-> Char(97)]),
    Header(1044, [i \in 1 .. 9 |-> Char(97)]) }

MCMessages ==
  { [method |-> l.method, gap |-> l.gap, path |-> l.path, fragment |-> l.fragment,
     version |-> l.version, rest |-> l.rest, headers |-> hs, body |-> b] :
      l \in RequestLines, hs \in {<<>>}, b \in {<<>>, <<CR, LF, 97>>} }
  \cup
  { [method |-> Plain.method, gap |-> Plain.gap, path |-> Plain.path,
     fragment |-> <<>>, version |-> Plain.version, rest |-> <<>>,
     headers |-> hs, body |-> b] :
      hs \in UNION {[1 .. n -> MCHeaders] : n \in 1 .. 2}, b \in {<<>>, <<97>>} }
=============================================================================
