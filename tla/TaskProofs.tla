----------------------------- MODULE TaskProofs -----------------------------
(***************************************************************************)
(* What the two halves of a task guarantee, for every size of its buffers: *)
(* the call that fills the buffer from the socket, and ParseHttpMsg, which *)
(* takes the request in it apart.                                          *)
(***************************************************************************)
EXTENDS SocketRead, HttpRequest, ListLemmas

-----------------------------------------------------------------------------
(***************************************************************************)
(* read_socket_non_block.                                                  *)
(***************************************************************************)
(* ret is 0 before the first recv only, and a recv after the first cannot  *)
(* fill the buffer.                                                        *)
CountersFollowRecvs ==
  /\ recvs = 0 => ret = 0 /\ taken = 0
  /\ recvs >= 1 => ret > 0
  /\ recvs = 1 => ret = taken
  /\ recvs >= 2 => ret < Size
  /\ progress # "done" => cur_bytes_read = ret
  /\ progress = "recv" => ret < Size

(* The call has not touched the socket's state before it returns. *)
NothingBeforeReturn ==
  /\ progress # "done" => ~closed
  /\ recvs <= taken

CallInv ==
  /\ ReadTypeOK
  /\ CountersFollowRecvs
  /\ NothingBeforeReturn
  /\ EmptyUnlessFilledAtOnce
  /\ TwoRecvsInOrder
  /\ ClosesOnlyAtEnd

-----------------------------------------------------------------------------
LEMMA InitCallInv == ReadInit => CallInv
<1> SUFFICES ASSUME ReadInit PROVE CallInv
  OBVIOUS
<1>1. Size \in Nat \ {0} /\ Total \in Nat
  BY SocketReadAssumption
<1>2. buffer \in [0 .. Size - 1 -> 0 .. Total]
  BY <1>1 DEF ReadInit
<1>3. ReadTypeOK
  <2>1. arrived \in 0 .. Total /\ taken \in 0 .. arrived
    BY <1>1 DEF ReadInit
  <2>2. /\ ret \in 0 .. Size /\ cur_bytes_read \in 0 .. Size /\ result \in 0 .. Size
        /\ recvs \in 0 .. Total /\ left \in 0 .. Total
    BY <1>1 DEF ReadInit
  <2>3. /\ fin \in BOOLEAN /\ closed \in BOOLEAN /\ socket \in {"open", "reset", "gone"}
        /\ progress \in {"test", "recv", "done", "aborted"}
    BY DEF ReadInit
  <2> QED
    BY <1>2, <2>1, <2>2, <2>3 DEF ReadTypeOK
<1> QED
  BY <1>1, <1>3
  DEF ReadInit, CallInv, CountersFollowRecvs, NothingBeforeReturn, EmptyUnlessFilledAtOnce,
      TwoRecvsInOrder, ClosesOnlyAtEnd

LEMMA RecvDataStep == CallInv /\ RecvData => CallInv'
<1> SUFFICES ASSUME CallInv, RecvData PROVE CallInv'
  OBVIOUS
<1> USE SocketReadAssumption
<1>1. /\ Size \in Nat /\ Total \in Nat /\ arrived \in Nat /\ taken \in Nat /\ ret \in Nat
      /\ taken <= arrived /\ arrived <= Total /\ recvs \in Nat /\ recvs <= taken
      /\ ret < Size /\ progress = "recv" /\ ~closed
  BY DEF CallInv, ReadTypeOK, RecvData, Offset, Count, CountersFollowRecvs, NothingBeforeReturn
<1>2. Got \in Nat /\ Got > 0 /\ Got <= Size - ret /\ Got <= arrived - taken
  BY <1>1 DEF RecvData, Offset, Count, Got, Unread
<1>3. /\ taken' = taken + Got /\ ret' = Got /\ cur_bytes_read' = Got
      /\ recvs' = recvs + 1 /\ progress' = "test"
      /\ UNCHANGED <<arrived, fin, socket, result, closed, left>>
  BY DEF RecvData, Offset, Count
<1>4. buffer' = [i \in 0 .. Size - 1 |->
                   IF i \in ret .. ret + Got - 1 THEN taken + (i - ret) + 1 ELSE buffer[i]]
  BY DEF RecvData, Offset, Count, CallInv, ReadTypeOK
<1>5. ReadTypeOK'
  <2>1. buffer' \in [0 .. Size - 1 -> 0 .. Total]
    BY <1>1, <1>2, <1>4 DEF CallInv, ReadTypeOK
  <2> QED
    BY <1>1, <1>2, <1>3, <2>1 DEF CallInv, ReadTypeOK
<1>6. CountersFollowRecvs' /\ NothingBeforeReturn'
  BY <1>1, <1>2, <1>3 DEF CallInv, CountersFollowRecvs, NothingBeforeReturn
<1>7. EmptyUnlessFilledAtOnce' /\ ClosesOnlyAtEnd'
  BY <1>1, <1>3 DEF EmptyUnlessFilledAtOnce, ClosesOnlyAtEnd
<1>8. TwoRecvsInOrder'
  <2>1. SUFFICES ASSUME recvs' <= 2, NEW i \in 0 .. taken' - 1
                 PROVE  i < Size /\ buffer'[i] = i + 1
    BY DEF TwoRecvsInOrder
  (* With at most one recv before, ret is what was taken. *)
  <2>2. recvs <= 1 /\ ret = taken
    BY <1>1, <1>3, <2>1 DEF CallInv, CountersFollowRecvs
  <2>3. i \in 0 .. Size - 1
    BY <1>1, <1>2, <1>3, <2>1, <2>2
  <2>4. CASE i < taken
    <3>1. buffer[i] = i + 1
      BY <1>1, <2>1, <2>2, <2>4 DEF CallInv, TwoRecvsInOrder
    <3> QED
      BY <1>1, <1>4, <2>2, <2>3, <2>4, <3>1
  <2>5. CASE i >= taken
    BY <1>1, <1>2, <1>3, <1>4, <2>1, <2>2, <2>3, <2>5
  <2> QED
    BY <1>1, <2>3, <2>4, <2>5
<1> QED
  BY <1>5, <1>6, <1>7, <1>8 DEF CallInv

LEMMA StepCallInv == CallInv /\ [ReadNext]_readVars => CallInv'
<1> SUFFICES ASSUME CallInv, [ReadNext]_readVars PROVE CallInv'
  OBVIOUS
<1> USE SocketReadAssumption
        DEF CallInv, ReadTypeOK, CountersFollowRecvs, NothingBeforeReturn,
            EmptyUnlessFilledAtOnce, TwoRecvsInOrder, ClosesOnlyAtEnd, loopVars
<1>1. CASE Arrive
  BY <1>1 DEF Arrive
<1>2. CASE CloseByClient
  BY <1>2 DEF CloseByClient
<1>3. CASE TestFull
  <2>1. CASE Size - ret = 0
    BY <1>3, <2>1 DEF TestFull, Full, Returns
  <2>2. CASE Size - ret # 0
    BY <1>3, <2>2 DEF TestFull, Full
  <2> QED
    BY <2>1, <2>2
<1>4. CASE RecvData
  BY <1>4, RecvDataStep
<1>5. CASE RecvEnd
  BY <1>5 DEF RecvEnd, Returns, Got, Unread
<1>6. CASE RecvAgain
  BY <1>6 DEF RecvAgain, Returns, Got, Unread
<1>7. CASE RecvFatal
  BY <1>7 DEF RecvFatal
<1>8. CASE Break
  BY <1>8 DEF Break
<1>9. CASE UNCHANGED readVars
  BY <1>9 DEF readVars
<1> QED
  BY <1>1, <1>2, <1>3, <1>4, <1>5, <1>6, <1>7, <1>8, <1>9 DEF ReadNext, CallStep

(* For every buffer and stream, each variable keeps its type: in           *)
(* particular, every recv writes within the buffer.                        *)
THEOREM CallTypeCorrect == ReadSpec => []ReadTypeOK
<1>1. CallInv => ReadTypeOK
  BY DEF CallInv
<1> QED
  BY InitCallInv, StepCallInv, <1>1, PTL DEF ReadSpec

(* For every buffer and stream, a call leaves bytes unread only if its     *)
(* first recv filled the buffer (SocketStream.cpp:18-45).                  *)
THEOREM CallEmptiesSocket == ReadSpec => []EmptyUnlessFilledAtOnce
<1>1. CallInv => EmptyUnlessFilledAtOnce
  BY DEF CallInv
<1> QED
  BY InitCallInv, StepCallInv, <1>1, PTL DEF ReadSpec

(* For every buffer and stream, the bytes of the first two recvs stand in  *)
(* the buffer in the order in which they arrived.                          *)
THEOREM FirstTwoRecvsInOrder == ReadSpec => []TwoRecvsInOrder
<1>1. CallInv => TwoRecvsInOrder
  BY DEF CallInv
<1> QED
  BY InitCallInv, StepCallInv, <1>1, PTL DEF ReadSpec

(* For every buffer and stream, the socket is closed at the end of the     *)
(* stream only.                                                            *)
THEOREM ClosesAtEnd == ReadSpec => []ClosesOnlyAtEnd
<1>1. CallInv => ClosesOnlyAtEnd
  BY DEF CallInv
<1> QED
  BY InitCallInv, StepCallInv, <1>1, PTL DEF ReadSpec

-----------------------------------------------------------------------------
(***************************************************************************)
(* ParseHttpMsg: the helpers on strings.                                   *)
(***************************************************************************)
LEMMA BeforeAndAfter ==
  ASSUME NEW s \in Seq(Nat), NEW c \in Nat, NEW p \in 1 .. Len(s), s[p] = c,
         \A i \in 1 .. p - 1 : s[i] # c
  PROVE  /\ Contains(s, c)
         /\ Before(s, c) = SubSeq(s, 1, p - 1) /\ After(s, c) = SubSeq(s, p + 1, Len(s))
<1> DEFINE I == {i \in 1 .. Len(s) : s[i] = c}
<1>1. Len(s) \in Nat
  BY LenProperties
<1>2. p \in I /\ I \subseteq Nat /\ \A i \in I : p <= i
  BY <1>1
<1>3. I # {} /\ Min(I) = p
  <2> HIDE DEF I
  <2>1. Min(I) \in I /\ \A i \in I : Min(I) <= i
    BY <1>2, MinOfNaturals
  <2>2. Min(I) <= p /\ p <= Min(I) /\ Min(I) \in Nat /\ p \in Nat
    BY <1>2, <2>1
  <2> QED
    BY <1>2, <2>2
<1>4. Before(s, c) = SubSeq(s, 1, Min(I) - 1) /\ After(s, c) = SubSeq(s, Min(I) + 1, Len(s))
  BY <1>3 DEF Before, After, SelectInSeq
<1>5. Contains(s, c)
  BY DEF Contains
<1> QED
  BY <1>3, <1>4, <1>5

LEMMA CStringEndsAt ==
  ASSUME NEW s \in Seq(Nat), NEW p \in Nat, p < Len(s), s[p + 1] = NUL,
         \A i \in 1 .. p : s[i] # NUL
  PROVE  Terminated(s) /\ CString(s) = SubSeq(s, 1, p)
<1>1. p + 1 \in 1 .. Len(s) /\ (p + 1) - 1 = p /\ NUL \in Nat
  BY LenProperties DEF NUL
<1>2. Contains(s, NUL) /\ Before(s, NUL) = SubSeq(s, 1, (p + 1) - 1)
  BY <1>1, BeforeAndAfter
<1> QED
  BY <1>1, <1>2 DEF Terminated, CString, Before

LEMMA NotTerminated ==
  ASSUME NEW s, \A i \in 1 .. Len(s) : s[i] # NUL
  PROVE  ~Terminated(s)
BY DEF Terminated, Contains

LEMMA GreatestNatural ==
  ASSUME NEW n \in Nat, NEW I \in SUBSET (0 .. n), I # {}
  PROVE  Max(I) \in I /\ \A i \in I : i <= Max(I)
<1> DEFINE J == {n - i : i \in I}
<1>1. J \in SUBSET Nat /\ J # {}
  <2>1. \A i \in I : n - i \in Nat
    OBVIOUS
  <2> QED
    BY <2>1
<1>2. Min(J) \in J /\ \A j \in J : Min(J) <= j
  <2> HIDE DEF J
  <2> QED
    BY <1>1, MinOfNaturals
<1>3. PICK x \in I : Min(J) = n - x
  BY <1>2
<1>4. \A i \in I : i <= x
  <2> SUFFICES ASSUME NEW i \in I PROVE i <= x
    OBVIOUS
  <2>1. n - i \in J
    OBVIOUS
  <2> HIDE DEF J
  <2>2. n - x <= n - i
    BY <1>2, <1>3, <2>1
  <2> QED
    BY <2>2
<1> QED
  BY <1>4 DEF Max

(* A word with blanks around it. *)
LEMMA TrimmedWord ==
  ASSUME NEW s \in Seq(Nat), NEW u \in 1 .. Len(s), NEW v \in u .. Len(s),
         s[u] \notin Blank, s[v] \notin Blank,
         \A i \in 1 .. u - 1 : s[i] \in Blank, \A i \in v + 1 .. Len(s) : s[i] \in Blank
  PROVE  /\ TrimRight(s) = SubSeq(s, 1, v)
         /\ TrimLeft(TrimRight(s)) = SubSeq(s, u, v)
         /\ v = Len(s) => TrimRight(s) = s
<1>1. Len(s) \in Nat /\ \A i \in 1 .. Len(s) : s[i] \in Nat
  BY LenProperties, ElementOfSeq
<1>2. u \in Solid(s) /\ v \in Solid(s) /\ Solid(s) \subseteq u .. v
  BY <1>1 DEF Solid
<1>3. Max(Solid(s)) = v
  <2>1. Solid(s) \in SUBSET (0 .. v) /\ v \in Nat /\ Solid(s) # {}
    BY <1>1, <1>2
  <2>2. Max(Solid(s)) \in Solid(s) /\ \A i \in Solid(s) : i <= Max(Solid(s))
    BY <2>1, GreatestNatural
  <2> QED
    BY <1>2, <2>2
<1>4. TrimRight(s) = SubSeq(s, 1, v)
  BY <1>2, <1>3 DEF TrimRight
<1> DEFINE t == SubSeq(s, 1, v)
<1>5. /\ t \in Seq(Nat) /\ Len(t) = v /\ \A i \in 1 .. v : t[i] = s[i]
  <2>1. \A i \in 1 .. v : s[i] \in Nat
    BY <1>1
  <2>2. /\ t \in Seq(Nat) /\ Len(t) = IF 1 <= v THEN v - 1 + 1 ELSE 0
        /\ \A i \in 1 .. v - 1 + 1 : t[i] = s[1 + i - 1]
    BY <2>1, SubSeqProperties
  <2> QED
    BY <2>2
<1>6. v = Len(s) => t = s
  BY SubSeqFull
<1> HIDE DEF t
<1>7. u \in Solid(t) /\ Solid(t) \subseteq u .. v
  BY <1>1, <1>5 DEF Solid
<1>8. Min(Solid(t)) = u
  <2>1. Min(Solid(t)) \in Solid(t) /\ \A i \in Solid(t) : Min(Solid(t)) <= i
    BY <1>7, MinOfNaturals
  <2> QED
    BY <1>7, <2>1
<1>9. TrimLeft(t) = SubSeq(t, u, v)
  BY <1>5, <1>7, <1>8 DEF TrimLeft
<1>10. SubSeq(t, u, v) = SubSeq(s, u, v)
  <2>1. /\ SubSeq(t, u, v) \in Seq(Nat) /\ SubSeq(s, u, v) \in Seq(Nat)
        /\ Len(SubSeq(t, u, v)) = v - u + 1 /\ Len(SubSeq(s, u, v)) = v - u + 1
        /\ \A i \in 1 .. v - u + 1 : SubSeq(t, u, v)[i] = t[u + i - 1]
        /\ \A i \in 1 .. v - u + 1 : SubSeq(s, u, v)[i] = s[u + i - 1]
    <3>1. \A i \in u .. v : s[i] \in Nat /\ t[i] \in Nat
      BY <1>1, <1>5
    <3> QED
      BY <3>1, SubSeqProperties
  <2>2. \A i \in 1 .. v - u + 1 : SubSeq(t, u, v)[i] = SubSeq(s, u, v)[i]
    BY <1>5, <2>1
  <2> QED
    BY <2>1, <2>2, SeqEqual
<1> QED
  BY <1>4, <1>6, <1>9, <1>10 DEF t

LEMMA TrimmedBlanks ==
  ASSUME NEW s \in Seq(Nat), \A i \in 1 .. Len(s) : s[i] \in Blank
  PROVE  TrimLeft(TrimRight(s)) = <<>>
<1>1. Solid(s) = {}
  BY DEF Solid
<1>2. TrimRight(s) = <<>>
  BY <1>1 DEF TrimRight
<1>3. Solid(<<>>) = {}
  BY EmptySeq DEF Solid
<1> QED
  BY <1>2, <1>3 DEF TrimLeft

LEMMA ThreeTexts == \A x, y, z \in Seq(Nat) : x \o (y \o z) = (x \o y) \o z
BY ConcatAssociative, SMTT(30)

LEMMA TwoCharacters ==
  ASSUME NEW x \in Nat, NEW y \in Nat
  PROVE  <<x>> \o <<y>> = <<x, y>>
<1> DEFINE s == <<x>> \o <<y>>
           t == <<x, y>>
<1>1. /\ <<x>> \in Seq(Nat) /\ Len(<<x>>) = 1 /\ <<x>>[1] = x
      /\ <<y>> \in Seq(Nat) /\ Len(<<y>>) = 1 /\ <<y>>[1] = y
  OBVIOUS
<1>2. s \in Seq(Nat) /\ Len(s) = 2 /\ s[1] = x /\ s[2] = y
  BY <1>1, ConcatProperties
<1>3. t \in Seq(Nat) /\ Len(t) = 2 /\ t[1] = x /\ t[2] = y
  OBVIOUS
<1> HIDE DEF s, t
<1>4. \A i \in 1 .. 2 : i = 1 \/ i = 2
  OBVIOUS
<1>5. \A i \in 1 .. Len(s) : s[i] = t[i]
  BY <1>2, <1>3, <1>4
<1>6. s = t
  BY <1>2, <1>3, <1>5, SeqEqual
<1> QED
  BY <1>6 DEF s, t

-----------------------------------------------------------------------------
(***************************************************************************)
(* ParseHttpMsg: what the items of a value look like.                      *)
(***************************************************************************)
HexDigit(d) == IF d < 10 THEN 48 + d ELSE 55 + d

LEMMA HexDigitValue ==
  ASSUME NEW d \in 0 .. 15
  PROVE  /\ HexDigit(d) \in Nat /\ HexDigit(d) \in DOMAIN Digits
         /\ HexDigit(d) # 117 /\ Digits[HexDigit(d)] = d
<1>1. DOMAIN Digits = (48 .. 57) \cup (65 .. 70) \cup (97 .. 102)
  BY DEF Digits
<1>2. CASE d < 10
  <2>1. HexDigit(d) = 48 + d /\ 48 + d \in 48 .. 57
    BY <1>2 DEF HexDigit
  <2>2. Digits[48 + d] = (48 + d) - 48
    BY <2>1 DEF Digits
  <2> QED
    BY <1>1, <2>1, <2>2
<1>3. CASE d >= 10
  <2>1. HexDigit(d) = 55 + d /\ 55 + d \in 65 .. 70
    BY <1>3 DEF HexDigit
  <2>2. Digits[55 + d] = (55 + d) - 55
    BY <2>1 DEF Digits
  <2> QED
    BY <1>1, <2>1, <2>2
<1> QED
  BY <1>2, <1>3

(* The digit that is the i-th from the end. *)
DigitOf(v, i) == (v \div <<1, 16, 256, 4096>>[i]) % 16

LEMMA DigitOfType ==
  ASSUME NEW v \in Nat
  PROVE  /\ DigitOf(v, 1) \in 0 .. 15 /\ DigitOf(v, 2) \in 0 .. 15
         /\ DigitOf(v, 3) \in 0 .. 15 /\ DigitOf(v, 4) \in 0 .. 15
BY DEF DigitOf

LEMMA HexDigitsOf ==
  ASSUME NEW v
  PROVE  /\ Hex(v, 2) = [i \in 1 .. 2 |-> HexDigit(DigitOf(v, 2 - i + 1))]
         /\ Hex(v, 4) = [i \in 1 .. 4 |-> HexDigit(DigitOf(v, 4 - i + 1))]
BY DEF Hex, HexDigit, DigitOf

LEMMA HexText ==
  ASSUME NEW v \in Nat
  PROVE  /\ Hex(v, 2) \in Seq(Nat) /\ Len(Hex(v, 2)) = 2
         /\ Hex(v, 2)[1] = HexDigit(DigitOf(v, 2)) /\ Hex(v, 2)[2] = HexDigit(DigitOf(v, 1))
         /\ Hex(v, 4) \in Seq(Nat) /\ Len(Hex(v, 4)) = 4
         /\ Hex(v, 4)[1] = HexDigit(DigitOf(v, 4))
         /\ Hex(v, 4)[2] = HexDigit(DigitOf(v, 3))
         /\ Hex(v, 4)[3] = HexDigit(DigitOf(v, 2))
         /\ Hex(v, 4)[4] = HexDigit(DigitOf(v, 1))
<1> DEFINE b == Hex(v, 2)
           c == Hex(v, 4)
           digit(i) == HexDigit(DigitOf(v, i))
<1>1. /\ b = [i \in 1 .. 2 |-> b[i]]
      /\ b[1] = digit(2) /\ b[2] = digit(1)
      /\ c = [i \in 1 .. 4 |-> c[i]]
      /\ c[1] = digit(4) /\ c[2] = digit(3) /\ c[3] = digit(2) /\ c[4] = digit(1)
  BY HexDigitsOf
<1>2. /\ digit(1) \in Nat /\ digit(2) \in Nat /\ digit(3) \in Nat /\ digit(4) \in Nat
  BY DigitOfType, HexDigitValue
<1> HIDE DEF b, c, digit
<1>4. b \in [1 .. 2 -> Nat] /\ c \in [1 .. 4 -> Nat]
  BY <1>1, <1>2
<1>5. b \in Seq(Nat) /\ Len(b) = 2
  BY <1>4, 2 \in Nat, FunctionIsSeq
<1>6. c \in Seq(Nat) /\ Len(c) = 4
  BY <1>4, 4 \in Nat, FunctionIsSeq
<1> QED
  BY <1>1, <1>5, <1>6 DEF b, c, digit

LEMMA ItemFields ==
  ASSUME NEW item \in ItemTypes
  PROVE  /\ item.kind \in {"char", "byte", "code"} /\ item.value \in Nat
         /\ item.kind = "byte" => item.value \in 0 .. 255
         /\ item.kind = "code" => item.value \in Codes
BY DEF ItemTypes, Codes

LEMMA ItemTextType ==
  ASSUME NEW item \in ItemTypes
  PROVE  ItemText(item) \in Seq(Nat)
<1>1. <<37>> \in Seq(Nat) /\ <<37, 117>> \in Seq(Nat)
  OBVIOUS
<1>2. CASE item.kind = "char"
  <2>1. item.value \in Nat
    BY ItemFields
  <2> QED
    BY <1>2, <2>1 DEF ItemText
<1>3. CASE item.kind = "byte"
  <2>1. item.value \in Nat
    BY ItemFields
  <2>2. Hex(item.value, 2) \in Seq(Nat)
    BY <2>1, HexText
  <2>3. ItemText(item) = <<37>> \o Hex(item.value, 2)
    BY <1>3 DEF ItemText
  <2> QED
    BY <1>1, <2>2, <2>3, ConcatProperties
<1>4. CASE item.kind = "code"
  <2>1. item.value \in Nat
    BY ItemFields
  <2>2. Hex(item.value, 4) \in Seq(Nat)
    BY <2>1, HexText
  <2>3. ItemText(item) = <<37, 117>> \o Hex(item.value, 4)
    BY <1>4 DEF ItemText
  <2> QED
    BY <1>1, <2>2, <2>3, ConcatProperties
<1>5. item.kind \in {"char", "byte", "code"}
  BY ItemFields
<1> QED
  BY <1>2, <1>3, <1>4, <1>5

ItemTexts(items) == [i \in DOMAIN items |-> ItemText(items[i])]

LEMMA ItemTextsType ==
  ASSUME NEW items \in Seq(ItemTypes)
  PROVE  /\ ItemTexts(items) \in Seq(Seq(Nat)) /\ Len(ItemTexts(items)) = Len(items)
         /\ Each(ItemText, items) = Glued(ItemTexts(items))[Len(items)]
         /\ Each(ItemText, items) \in Seq(Nat)
<1> DEFINE t == ItemTexts(items)
           X == Seq(Nat)
<1>1. Len(items) \in Nat /\ DOMAIN items = 1 .. Len(items)
  BY LenProperties
<1>2. t \in [1 .. Len(items) -> X]
  <2>1. \A i \in 1 .. Len(items) : items[i] \in ItemTypes
    BY ElementOfSeq
  <2> QED
    BY <1>1, <2>1, ItemTextType DEF ItemTexts
<1>3. Each(ItemText, items) = FlattenSeq(t)
  BY DEF Each, ItemTexts
<1> HIDE DEF t, X
<1>4. t \in Seq(X)
  BY <1>1, <1>2, SeqDef
<1>5. Len(t) = Len(items)
  BY <1>1, <1>2, <1>4, LenProperties
<1>6. FlattenSeq(t) = Glued(t)[Len(t)] /\ FlattenSeq(t) \in Seq(Nat)
  BY <1>4, FlattenSeqIsGlued DEF X
<1> QED
  BY <1>3, <1>4, <1>5, <1>6 DEF t, X

-----------------------------------------------------------------------------
(***************************************************************************)
(* ParseHttpMsg: where the lines of a message stand in its text.           *)
(***************************************************************************)
LEMMA CharsAreNaturals ==
  /\ \A excluded : Chars(excluded) \subseteq Seq(Nat)
  /\ Seq(Blank) \subseteq Seq(Nat)
<1>1. ASSUME NEW excluded, NEW s \in Chars(excluded) PROVE s \in Seq(Nat)
  BY <1>1, SeqMonotonic DEF Chars
<1>2. Blank \subseteq Nat
  BY DEF Blank, SP, TAB
<1>3. ASSUME NEW s \in Seq(Blank) PROVE s \in Seq(Nat)
  BY <1>2, <1>3, SeqMonotonic
<1> QED
  BY <1>1, <1>3

LEMMA CRLFText == CRLF \in Seq(Nat \ {NUL}) /\ Len(CRLF) = 2 /\ CRLF[1] = CR /\ CRLF[2] = LF
<1>1. CR \in Nat \ {NUL} /\ LF \in Nat \ {NUL}
  BY DEF CR, LF, NUL
<1> QED
  BY <1>1 DEF CRLF

LEMMA MessageParts ==
  ASSUME NEW m \in Messages
  PROVE  /\ m.method \in Seq(Nat) /\ m.version \in Seq(Nat) /\ m.path \in Seq(Nat)
         /\ m.fragment \in Seq(Nat) /\ m.gap \in Seq(Nat) /\ m.rest \in Seq(Nat)
         /\ StartLine(m) \in Seq(Nat) /\ StartLine(m) # <<>>
<1>1. /\ m.method \in Seq(Nat) /\ m.version \in Seq(Nat) /\ m.path \in Seq(Nat)
      /\ m.fragment \in Seq(Nat) /\ m.gap \in Seq(Nat) /\ m.rest \in Seq(Nat) /\ m.method # <<>>
  BY MessagesAssumption, CharsAreNaturals DEF StartLineMeansItself
<1> DEFINE a == m.method
           b == m.gap
           c == m.path
           d == m.fragment
           e == m.version
           f == m.rest
<1>2. StartLine(m) = a \o b \o c \o d \o b \o e \o f
  BY DEF StartLine
<1> HIDE DEF a, b, c, d, e, f
<1>3. /\ a \in Seq(Nat) /\ b \in Seq(Nat) /\ c \in Seq(Nat) /\ d \in Seq(Nat)
      /\ e \in Seq(Nat) /\ f \in Seq(Nat) /\ a # <<>>
  BY <1>1 DEF a, b, c, d, e, f
<1>4. \A x, y \in Seq(Nat) : x \o y \in Seq(Nat) /\ (x # <<>> => x \o y # <<>>)
  BY ConcatProperties, ConcatEqualIffEmpty
<1>5. a \o b \in Seq(Nat) /\ a \o b # <<>>
  BY <1>3, <1>4
<1>6. a \o b \o c \in Seq(Nat) /\ a \o b \o c # <<>>
  BY <1>3, <1>4, <1>5
<1>7. a \o b \o c \o d \in Seq(Nat) /\ a \o b \o c \o d # <<>>
  BY <1>3, <1>4, <1>6
<1>8. a \o b \o c \o d \o b \in Seq(Nat) /\ a \o b \o c \o d \o b # <<>>
  BY <1>3, <1>4, <1>7
<1>9. a \o b \o c \o d \o b \o e \in Seq(Nat) /\ a \o b \o c \o d \o b \o e # <<>>
  BY <1>3, <1>4, <1>8
<1>10. a \o b \o c \o d \o b \o e \o f \in Seq(Nat) /\ a \o b \o c \o d \o b \o e \o f # <<>>
  BY <1>3, <1>4, <1>9
<1> QED
  BY <1>1, <1>2, <1>10

LEMMA HeaderParts ==
  ASSUME NEW h \in HeaderTypes
  PROVE  /\ h.key \in Chars({58}) /\ h.colon \in {<<>>, <<58>>} /\ h.gap \in Seq(Blank)
         /\ h.items \in Seq(ItemTypes)
         /\ h.key \in Seq(Nat) /\ h.colon \in Seq(Nat) /\ h.gap \in Seq(Nat)
         /\ Each(ItemText, h.items) \in Seq(Nat)
         /\ HeaderLine(h) \in Seq(Nat)
<1>1. /\ h.key \in Chars({58}) /\ h.colon \in {<<>>, <<58>>} /\ h.gap \in Seq(Blank)
      /\ h.items \in Seq(ItemTypes)
  BY DEF HeaderTypes
<1>2. <<>> \in Seq(Nat) /\ <<58>> \in Seq(Nat)
  OBVIOUS
<1>3. h.key \in Seq(Nat) /\ h.colon \in Seq(Nat) /\ h.gap \in Seq(Nat)
  BY <1>1, <1>2, CharsAreNaturals
<1> DEFINE a == h.key
           b == h.colon
           c == h.gap
           d == Each(ItemText, h.items)
<1>4. d \in Seq(Nat)
  BY <1>1, ItemTextsType
<1>5. HeaderLine(h) = a \o b \o c \o d
  BY DEF HeaderLine
<1>6. a \in Seq(Nat) /\ b \in Seq(Nat) /\ c \in Seq(Nat)
  BY <1>3
<1> HIDE DEF a, b, c, d
<1>7. \A x, y \in Seq(Nat) : x \o y \in Seq(Nat)
  BY ConcatProperties
<1>8. a \o b \in Seq(Nat)
  BY <1>6, <1>7
<1>9. a \o b \o c \in Seq(Nat)
  BY <1>6, <1>7, <1>8
<1>10. a \o b \o c \o d \in Seq(Nat)
  BY <1>4, <1>7, <1>9
<1> QED
  BY <1>1, <1>3, <1>4, <1>5, <1>10 DEF d

LEMMA NoNULWithin ==
  ASSUME NEW s \in Seq(Nat), ~Contains(s, NUL)
  PROVE  s \in Seq(Nat \ {NUL})
<1>1. Len(s) \in Nat /\ s \in [1 .. Len(s) -> Nat]
  BY LenProperties
<1>2. \A i \in 1 .. Len(s) : s[i] # NUL
  BY DEF Contains
<1>3. s \in [1 .. Len(s) -> Nat \ {NUL}]
  BY <1>1, <1>2
<1> QED
  BY <1>1, <1>3, FunctionIsSeq

LEMMA MessageLines ==
  ASSUME NEW m \in Messages
  PROVE  /\ Len(m.headers) \in Nat /\ DOMAIN m.headers = 1 .. Len(m.headers)
         /\ LinesOf(m) \in Seq(Seq(Nat \ {NUL})) /\ Len(LinesOf(m)) = Len(m.headers) + 1
         /\ DOMAIN LinesOf(m) = 1 .. Len(m.headers) + 1
         /\ LinesOf(m)[1] = StartLine(m)
         /\ \A i \in 1 .. Len(m.headers) :
              /\ m.headers[i] \in HeaderTypes /\ HeaderMeansItself(m.headers[i])
              /\ LinesOf(m)[i + 1] = HeaderLine(m.headers[i])
         /\ \A i \in 1 .. Len(m.headers) + 1 :
              /\ LinesOf(m)[i] # <<>>
              /\ \A k \in 1 .. Len(LinesOf(m)[i]) - 1 :
                   ~(LinesOf(m)[i][k] = CR /\ LinesOf(m)[i][k + 1] = LF)
<1> DEFINE n == Len(m.headers)
           L == LinesOf(m)
           X == Seq(Nat)
           Y == Seq(Nat \ {NUL})
           first == <<StartLine(m)>>
           others == [i \in DOMAIN m.headers |-> HeaderLine(m.headers[i])]
<1>1. n \in Nat /\ DOMAIN m.headers = 1 .. n /\ \A i \in 1 .. n : m.headers[i] \in HeaderTypes
  BY MessagesAssumption, LenProperties, ElementOfSeq
<1>2. \A i \in 1 .. n : HeaderMeansItself(m.headers[i])
  BY <1>1, MessagesAssumption
<1>3. \A i \in 1 .. n : HeaderLine(m.headers[i]) \in X /\ HeaderLine(m.headers[i]) # <<>>
  BY <1>1, <1>2, HeaderParts DEF HeaderMeansItself
<1>4. StartLine(m) \in X /\ StartLine(m) # <<>>
  BY MessageParts
<1>5. L = first \o others
  BY DEF LinesOf
<1> HIDE DEF X
<1>6. first \in Seq(X) /\ Len(first) = 1 /\ first[1] = StartLine(m)
  BY <1>4
<1>7. others \in Seq(X) /\ Len(others) = n /\ \A i \in 1 .. n : others[i] = HeaderLine(m.headers[i])
  <2>1. others \in [1 .. n -> X]
    BY <1>1, <1>3
  <2>2. \A i \in 1 .. n : others[i] = HeaderLine(m.headers[i])
    BY <1>1
  <2> HIDE DEF others, n
  <2> QED
    BY <1>1, <2>1, <2>2, FunctionIsSeq
<1> HIDE DEF first, others
<1>8. /\ first \o others \in Seq(X) /\ Len(first \o others) = 1 + n
      /\ (first \o others)[1] = first[1]
      /\ \A i \in 1 .. n : (first \o others)[1 + i] = others[i]
  <2>1. /\ first \o others \in Seq(X) /\ Len(first \o others) = Len(first) + Len(others)
        /\ \A k \in 1 .. Len(first) : (first \o others)[k] = first[k]
        /\ \A k \in 1 .. Len(others) : (first \o others)[Len(first) + k] = others[k]
    BY <1>6, <1>7, ConcatPlaces
  <2> QED
    BY <1>6, <1>7, <2>1
<1>9. /\ L \in Seq(X) /\ Len(L) = n + 1 /\ L[1] = StartLine(m)
      /\ \A i \in 1 .. n : L[i + 1] = HeaderLine(m.headers[i])
  <2>1. \A i \in 1 .. n : 1 + i = i + 1
    BY <1>1
  <2> HIDE DEF L, n
  <2> QED
    BY <1>1, <1>5, <1>6, <1>7, <1>8, <2>1
<1> HIDE DEF L, n
<1>10. DOMAIN L = 1 .. n + 1
  BY <1>9, LenProperties
<1>11. \A i \in 1 .. n + 1 :
         /\ ~Contains(L[i], NUL)
         /\ \A k \in 1 .. Len(L[i]) - 1 : ~(L[i][k] = CR /\ L[i][k + 1] = LF)
  BY <1>10, MessagesAssumption DEF L
<1>12. \A i \in 1 .. n + 1 : L[i] \in X /\ L[i] # <<>>
  <2> SUFFICES ASSUME NEW i \in 1 .. n + 1 PROVE L[i] \in X /\ L[i] # <<>>
    OBVIOUS
  <2>1. CASE i = 1
    BY <1>4, <1>9, <2>1
  <2>2. CASE i # 1
    <3>1. i - 1 \in 1 .. n /\ (i - 1) + 1 = i
      BY <1>1, <2>2
    <3>2. L[(i - 1) + 1] = HeaderLine(m.headers[i - 1])
      BY <1>9, <3>1
    <3> QED
      BY <1>3, <3>1, <3>2
  <2> QED
    BY <2>1, <2>2
<1>13. \A i \in 1 .. n + 1 : L[i] \in Y
  BY <1>11, <1>12, NoNULWithin DEF X
<1> HIDE DEF Y
<1>14. L \in Seq(Y)
  <2>1. L \in [1 .. n + 1 -> Y]
    BY <1>1, <1>9, <1>13, LenProperties
  <2> QED
    BY <1>1, <2>1, n + 1 \in Nat, FunctionIsSeq
<1> QED
  BY <1>1, <1>2, <1>9, <1>10, <1>11, <1>12, <1>14 DEF n, L, Y

LEMMA EndedPlaces ==
  ASSUME NEW S, NEW s \in Seq(S), NEW e \in Seq(S), Len(e) = 2
  PROVE  /\ s \o e \in Seq(S) /\ Len(s) \in Nat /\ Len(s \o e) = Len(s) + 2
         /\ \A k \in 1 .. Len(s) : (s \o e)[k] = s[k]
         /\ (s \o e)[Len(s) + 1] = e[1] /\ (s \o e)[Len(s) + 2] = e[2]
<1>1. /\ s \o e \in Seq(S) /\ Len(s) \in Nat /\ Len(s \o e) = Len(s) + Len(e)
      /\ \A k \in 1 .. Len(s) : (s \o e)[k] = s[k]
      /\ \A k \in 1 .. Len(e) : (s \o e)[Len(s) + k] = e[k]
  BY ConcatPlaces
<1>2. 1 \in 1 .. Len(e) /\ 2 \in 1 .. Len(e)
  OBVIOUS
<1> QED
  BY <1>1, <1>2

LEMMA WithCRLF ==
  ASSUME NEW s \in Seq(Nat \ {NUL})
  PROVE  /\ s \o CRLF \in Seq(Nat \ {NUL}) /\ Len(s) \in Nat /\ Len(s \o CRLF) = Len(s) + 2
         /\ \A k \in 1 .. Len(s) : (s \o CRLF)[k] = s[k]
         /\ (s \o CRLF)[Len(s) + 1] = CR /\ (s \o CRLF)[Len(s) + 2] = LF
<1> DEFINE S == Nat \ {NUL}
           e == CRLF
<1>1. e \in Seq(S) /\ Len(e) = 2 /\ e[1] = CR /\ e[2] = LF /\ s \in Seq(S)
  BY CRLFText
<1> HIDE DEF S, e
<1>2. /\ s \o e \in Seq(S) /\ Len(s) \in Nat /\ Len(s \o e) = Len(s) + 2
      /\ \A k \in 1 .. Len(s) : (s \o e)[k] = s[k]
      /\ (s \o e)[Len(s) + 1] = e[1] /\ (s \o e)[Len(s) + 2] = e[2]
  BY <1>1, EndedPlaces
<1> QED
  BY <1>1, <1>2 DEF S, e

Ended(m) == [i \in DOMAIN LinesOf(m) |-> LinesOf(m)[i] \o CRLF]

(* How much text the first j lines take. *)
Start(m, j) == Len(Glued(Ended(m))[j])

(* The line after the first j: the empty one after all of them. *)
LineAt(m, j) == IF j < Len(LinesOf(m)) THEN LinesOf(m)[j + 1] ELSE <<>>

LEMMA EndedLines ==
  ASSUME NEW m \in Messages
  PROVE  /\ Ended(m) \in Seq(Seq(Nat \ {NUL})) /\ Len(Ended(m)) = Len(LinesOf(m))
         /\ HeadText(m) = FlattenSeq(Ended(m)) \o CRLF
         /\ \A i \in 1 .. Len(LinesOf(m)) : Ended(m)[i] = LinesOf(m)[i] \o CRLF
<1> DEFINE L == LinesOf(m)
           E == Ended(m)
           Y == Seq(Nat \ {NUL})
<1>1. Len(L) \in Nat /\ DOMAIN L = 1 .. Len(L) /\ \A i \in 1 .. Len(L) : L[i] \in Y
  BY MessageLines, ElementOfSeqSeq
<1>2. \A x \in Y : x \o CRLF \in Y
  BY CRLFText, ConcatProperties
<1>3. \A i \in 1 .. Len(L) : E[i] = L[i] \o CRLF
  BY <1>1 DEF Ended
<1>4. E \in [1 .. Len(L) -> Y]
  <2> HIDE DEF Y
  <2> QED
    BY <1>1, <1>2 DEF Ended
<1>5. HeadText(m) = FlattenSeq(E) \o CRLF
  BY DEF HeadText, Each, Ended
<1> HIDE DEF E, Y, L
<1>6. E \in Seq(Y) /\ Len(E) = Len(L)
  BY <1>1, <1>4, FunctionIsSeq
<1> QED
  BY <1>3, <1>5, <1>6 DEF E, L, Y

LEMMA TextPlaces ==
  ASSUME NEW m \in Messages
  PROVE  /\ Len(LinesOf(m)) \in Nat \ {0}
         /\ Text(m) \in Seq(Nat \ {NUL}) /\ Len(Text(m)) \in Nat
         /\ Len(HeadText(m)) \in Nat
         /\ Len(HeadText(m)) = Start(m, Len(LinesOf(m))) + 2
         /\ Len(HeadText(m)) <= Len(Text(m))
         /\ Start(m, 0) = 0
         /\ \A j \in 0 .. Len(LinesOf(m)) :
              /\ Start(m, j) \in Nat /\ Start(m, j) <= Start(m, Len(LinesOf(m)))
              /\ \A k \in 1 .. Start(m, j) : Text(m)[k] = Glued(Ended(m))[j][k]
         /\ Text(m)[Start(m, Len(LinesOf(m))) + 1] = CR
         /\ Text(m)[Start(m, Len(LinesOf(m))) + 2] = LF
<1> DEFINE S == Nat \ {NUL}
           g == Glued(Ended(m))
           n == Len(LinesOf(m))
           head == g[n] \o CRLF
           text == head \o m.body
<1>1. n \in Nat \ {0}
  BY MessageLines
<1>2. Ended(m) \in Seq(Seq(S)) /\ Len(Ended(m)) = n
  BY EndedLines
<1>3. HeadText(m) = head
  BY <1>2, EndedLines, FlattenSeqIsGlued
<1>4. Text(m) = text
  BY <1>3 DEF Text
<1>5. m.body \in Seq(S)
  BY MessagesAssumption DEF Chars
<1>6. CRLF \in Seq(S) /\ Len(CRLF) = 2 /\ CRLF[1] = CR /\ CRLF[2] = LF
  BY CRLFText
<1>7. g[0] = <<>>
  BY <1>2, GluedStep
<1>8. \A j \in 0 .. n : /\ g[j] \in Seq(S) /\ Len(g[j]) \in Nat /\ Len(g[j]) <= Len(g[n])
                        /\ \A k \in 1 .. Len(g[j]) : g[n][k] = g[j][k]
  <2>1. n \in 0 .. Len(Ended(m))
    BY <1>1, <1>2
  <2> QED
    BY <1>1, <1>2, <2>1, GluedPlaces, ZenonT(30)
<1>9. \A j : Start(m, j) = Len(g[j])
  BY DEF Start
<1> HIDE DEF S, g, n
<1>10. /\ head \in Seq(S) /\ Len(head) = Len(g[n]) + 2
       /\ \A k \in 1 .. Len(g[n]) : head[k] = g[n][k]
       /\ head[Len(g[n]) + 1] = CR /\ head[Len(g[n]) + 2] = LF
       /\ Len(g[n]) \in Nat
  <2>1. g[n] \in Seq(S)
    BY <1>1, <1>8
  <2> QED
    BY <2>1, WithCRLF DEF S
<1> HIDE DEF head
<1>11. /\ text \in Seq(S) /\ Len(text) \in Nat /\ Len(head) \in Nat /\ Len(head) <= Len(text)
       /\ \A k \in 1 .. Len(head) : text[k] = head[k]
  <2>1. /\ text \in Seq(S) /\ Len(text) = Len(head) + Len(m.body)
        /\ Len(head) \in Nat /\ Len(m.body) \in Nat
        /\ \A k \in 1 .. Len(head) : text[k] = head[k]
    BY <1>5, <1>10, ConcatPlaces, ZenonT(30)
  <2> HIDE DEF text
  <2> QED
    BY <2>1
<1> HIDE DEF text
<1>12. \A j \in 0 .. n : \A k \in 1 .. Len(g[j]) : text[k] = g[j][k]
  <2> SUFFICES ASSUME NEW j \in 0 .. n, NEW k \in 1 .. Len(g[j]) PROVE text[k] = g[j][k]
    OBVIOUS
  <2>1. /\ Len(g[j]) \in Nat /\ Len(g[j]) <= Len(g[n]) /\ Len(g[n]) \in Nat
        /\ g[n][k] = g[j][k]
    BY <1>8, <1>10
  <2>2. k \in 1 .. Len(g[n]) /\ k \in 1 .. Len(head)
    BY <1>10, <2>1
  <2> QED
    BY <1>10, <1>11, <2>1, <2>2
<1>13. text[Len(g[n]) + 1] = CR /\ text[Len(g[n]) + 2] = LF
  <2>1. Len(g[n]) + 1 \in 1 .. Len(head) /\ Len(g[n]) + 2 \in 1 .. Len(head)
    BY <1>10
  <2> QED
    BY <1>10, <1>11, <2>1
<1>14. Len(g[0]) = 0
  BY <1>7, EmptySeq
<1>15. n \in Nat \ {0} /\ text \in Seq(Nat \ {NUL}) /\ Len(text) \in Nat
  BY <1>1, <1>11 DEF S
<1>16. Len(HeadText(m)) \in Nat /\ Len(HeadText(m)) = Len(g[n]) + 2 /\ Len(HeadText(m)) <= Len(text)
  BY <1>3, <1>10, <1>11
<1>17. \A j \in 0 .. n : /\ Len(g[j]) \in Nat /\ Len(g[j]) <= Len(g[n])
                         /\ \A k \in 1 .. Len(g[j]) : text[k] = g[j][k]
  BY <1>8, <1>12
<1> QED
  BY <1>4, <1>9, <1>13, <1>14, <1>15, <1>16, <1>17 DEF n, g

(* The line after the first j, with its CR LF, stands behind them. *)
LEMMA LinePlaces ==
  ASSUME NEW m \in Messages, NEW j \in 0 .. Len(LinesOf(m))
  PROVE  /\ LineAt(m, j) \in Seq(Nat \ {NUL}) /\ Len(LineAt(m, j)) \in Nat
         /\ Start(m, j) \in Nat
         /\ Start(m, j) + Len(LineAt(m, j)) + 2 <= Len(HeadText(m))
         /\ j < Len(LinesOf(m)) =>
              /\ LineAt(m, j) # <<>> /\ Len(LineAt(m, j)) > 0
              /\ Start(m, j + 1) = Start(m, j) + Len(LineAt(m, j)) + 2
         /\ j = Len(LinesOf(m)) => Len(LineAt(m, j)) = 0
         /\ \A k \in 1 .. Len(LineAt(m, j)) : Text(m)[Start(m, j) + k] = LineAt(m, j)[k]
         /\ Text(m)[Start(m, j) + Len(LineAt(m, j)) + 1] = CR
         /\ Text(m)[Start(m, j) + Len(LineAt(m, j)) + 2] = LF
         /\ \A k \in 1 .. Len(LineAt(m, j)) - 1 :
              ~(LineAt(m, j)[k] = CR /\ LineAt(m, j)[k + 1] = LF)
<1> DEFINE n == Len(LinesOf(m))
           l == LineAt(m, j)
           g == Glued(Ended(m))
<1>1. n \in Nat \ {0} /\ Start(m, j) \in Nat /\ Len(HeadText(m)) = Start(m, n) + 2
  BY TextPlaces
<1>2. CASE j = n
  <2>1. l = <<>> /\ Len(l) = 0 /\ l \in Seq(Nat \ {NUL})
    BY <1>2, EmptySeq DEF LineAt
  <2>2. Text(m)[Start(m, j) + 1] = CR /\ Text(m)[Start(m, j) + 2] = LF
    BY <1>2, TextPlaces
  <2> HIDE DEF l
  <2> QED
    BY <1>1, <1>2, <2>1, <2>2 DEF l
<1>3. CASE j < n
  <2> DEFINE i == j + 1
             s == Start(m, j)
             t == Text(m)
  <2>1. i \in 1 .. n /\ i \in 0 .. n /\ i - 1 = j
    BY <1>1, <1>3
  <2>2. l = LinesOf(m)[i]
    BY <1>3 DEF LineAt
  <2>3. /\ l \in Seq(Nat \ {NUL}) /\ l # <<>> /\ Len(l) \in Nat
        /\ \A k \in 1 .. Len(l) - 1 : ~(l[k] = CR /\ l[k + 1] = LF)
    <3>1. LinesOf(m) \in Seq(Seq(Nat \ {NUL})) /\ n = Len(m.headers) + 1
      BY MessageLines
    <3>2. l \in Seq(Nat \ {NUL})
      BY <2>1, <2>2, <3>1, ElementOfSeqSeq
    <3> QED
      BY <2>1, <2>2, <3>1, <3>2, MessageLines, LenProperties
  <2>4. Len(l) > 0
    BY <2>3, EmptySeq
  <2>5. /\ Ended(m) \in Seq(Seq(Nat \ {NUL})) /\ Len(Ended(m)) = n /\ Ended(m)[i] = l \o CRLF
    BY <2>1, <2>2, EndedLines
  <2>6. /\ Len(l \o CRLF) = Len(l) + 2
        /\ \A k \in 1 .. Len(l) : (l \o CRLF)[k] = l[k]
        /\ (l \o CRLF)[Len(l) + 1] = CR /\ (l \o CRLF)[Len(l) + 2] = LF
    BY <2>3, WithCRLF
  <2>7. /\ Len(g[i]) = Len(g[j]) + Len(Ended(m)[i])
        /\ \A k \in 1 .. Len(Ended(m)[i]) : g[i][Len(g[j]) + k] = Ended(m)[i][k]
    <3>1. i \in 1 .. Len(Ended(m))
      BY <2>1, <2>5
    <3>2. /\ Len(g[i]) = Len(g[i - 1]) + Len(Ended(m)[i])
          /\ \A k \in 1 .. Len(Ended(m)[i]) : g[i][Len(g[i - 1]) + k] = Ended(m)[i][k]
      BY <2>5, <3>1, GluedNext, ZenonT(30)
    <3> QED
      BY <2>1, <3>2
  <2>8. Start(m, i) = s + Len(l) + 2 /\ \A k \in 1 .. Len(l) + 2 : g[i][s + k] = (l \o CRLF)[k]
    <3>1. Start(m, i) = Len(g[i]) /\ s = Len(g[j])
      BY DEF Start
    <3>4. s \in Nat /\ Len(l) \in Nat
      BY <1>1, <2>3
    <3> HIDE DEF g, i, s, l
    <3>2. Start(m, i) = s + (Len(l) + 2)
      BY <2>5, <2>6, <2>7, <3>1
    <3>3. \A k \in 1 .. Len(l) + 2 : g[i][s + k] = (l \o CRLF)[k]
      BY <2>5, <2>6, <2>7, <3>1
    <3>5. s + (Len(l) + 2) = s + Len(l) + 2
      BY <3>4
    <3> QED
      BY <3>2, <3>3, <3>5
  <2>9. /\ Start(m, i) \in Nat /\ Start(m, i) <= Start(m, n) /\ Start(m, n) \in Nat
        /\ \A k \in 1 .. Start(m, i) : t[k] = g[i][k]
    BY <1>1, <2>1, TextPlaces
  <2>10. s \in Nat
    BY <1>1
  <2> HIDE DEF s, t, g, i, l, n
  <2>11. \A k \in 1 .. Len(l) + 2 : t[s + k] = (l \o CRLF)[k]
    <3>1. \A k \in 1 .. Len(l) + 2 : s + k \in 1 .. Start(m, i)
      BY <2>3, <2>8, <2>9, <2>10
    <3> QED
      BY <2>8, <2>9, <3>1
  <2>12. /\ \A k \in 1 .. Len(l) : t[s + k] = l[k]
         /\ t[s + (Len(l) + 1)] = CR /\ t[s + (Len(l) + 2)] = LF
    <3>1. \A k \in 1 .. Len(l) : k \in 1 .. Len(l) + 2
      BY <2>3
    <3>2. Len(l) + 1 \in 1 .. Len(l) + 2 /\ Len(l) + 2 \in 1 .. Len(l) + 2
      BY <2>3
    <3> QED
      BY <2>6, <2>11, <3>1, <3>2
  <2>13. s + (Len(l) + 1) = s + Len(l) + 1 /\ s + (Len(l) + 2) = s + Len(l) + 2
    BY <2>3, <2>10
  <2>14. s + Len(l) + 2 <= Len(HeadText(m))
    BY <1>1, <2>8, <2>9 DEF n
  <2>15. t[s + Len(l) + 1] = CR /\ t[s + Len(l) + 2] = LF
    BY <2>12, <2>13
  <2>16. j # n
    BY <1>1, <1>3 DEF n
  <2> QED
    BY <1>1, <2>3, <2>4, <2>8, <2>12, <2>14, <2>15, <2>16 DEF s, t, i, l, n
<1> QED
  BY <1>1, <1>2, <1>3

-----------------------------------------------------------------------------
(***************************************************************************)
(* ParseHttpMsg: getline.                                                  *)
(***************************************************************************)
(* The buffer holds the bytes received, and nothing of an earlier request. *)
BufferHolds ==
  /\ message \in Messages
  /\ received \in 0 .. BufSize /\ received <= Len(Text(message))
  /\ memory \in Seq(Nat) /\ Len(memory) = BufSize
  /\ \A i \in 1 .. BufSize :
       memory[i] = IF i <= received THEN Text(message)[i] ELSE NUL

(* The line reader stands behind the first j lines, all of them received. *)
AtLine(j) ==
  /\ j \in 0 .. Len(LinesOf(message))
  /\ m_stream_offset = Start(message, j) /\ Start(message, j) <= received

CurrentLine(j) == LineAt(message, j)
Whole(j) == Start(message, j) + Len(CurrentLine(j)) + 2 <= received

LEMMA EndsProperties ==
  ASSUME Ends # {}
  PROVE  /\ Min(Ends) \in 0 .. LineSize - 1
         /\ m_stream_offset + Min(Ends) + 2 <= BufSize
         /\ memory[m_stream_offset + Min(Ends) + 1] = CR
         /\ memory[m_stream_offset + Min(Ends) + 2] = LF
         /\ \A k \in Ends : Min(Ends) <= k
<1>1. Ends \subseteq Nat
  BY DEF Ends
<1>2. Min(Ends) \in Ends /\ \A k \in Ends : Min(Ends) <= k
  BY <1>1, MinOfNaturals
<1> QED
  BY <1>2 DEF Ends

(* What is at the line reader's place. *)
LEMMA BufferAtLine ==
  ASSUME BufferHolds, NEW j, AtLine(j)
  PROVE  /\ CurrentLine(j) \in Seq(Nat \ {NUL}) /\ Len(CurrentLine(j)) \in Nat
         /\ m_stream_offset \in Nat /\ received \in Nat
         /\ \A k \in 1 .. Len(CurrentLine(j)) : m_stream_offset + k <= received =>
              memory[m_stream_offset + k] = CurrentLine(j)[k]
         /\ m_stream_offset + Len(CurrentLine(j)) + 1 <= received =>
              memory[m_stream_offset + Len(CurrentLine(j)) + 1] = CR
         /\ m_stream_offset + Len(CurrentLine(j)) + 2 <= received =>
              memory[m_stream_offset + Len(CurrentLine(j)) + 2] = LF
<1> DEFINE l == CurrentLine(j)
           o == m_stream_offset
           t == Text(message)
<1>1. /\ l \in Seq(Nat \ {NUL}) /\ Len(l) \in Nat /\ o \in Nat
      /\ \A k \in 1 .. Len(l) : t[o + k] = l[k]
      /\ t[o + Len(l) + 1] = CR /\ t[o + Len(l) + 2] = LF
  BY LinePlaces DEF BufferHolds, AtLine, CurrentLine
<1>2. /\ received \in Nat /\ received <= BufSize /\ BufSize \in Nat
      /\ \A i \in 1 .. BufSize : i <= received => memory[i] = t[i]
  BY SizesAssumption DEF BufferHolds
<1> HIDE DEF l, o, t
<1>3. \A i \in Nat : i >= 1 /\ i <= received => memory[i] = t[i]
  BY <1>2
<1>4. \A k \in 1 .. Len(l) : o + k \in Nat /\ o + k >= 1
  BY <1>1
<1>5. /\ o + Len(l) + 1 \in Nat /\ o + Len(l) + 1 >= 1
      /\ o + Len(l) + 2 \in Nat /\ o + Len(l) + 2 >= 1
  BY <1>1
<1> QED
  BY <1>1, <1>2, <1>3, <1>4, <1>5 DEF l, o

(* No CR LF is in sight before the end of the line. *)
LEMMA NoEarlierEnd ==
  ASSUME BufferHolds, NEW j, AtLine(j), NEW k \in Nat, m_stream_offset + k + 2 <= BufSize,
         memory[m_stream_offset + k + 1] = CR, memory[m_stream_offset + k + 2] = LF
  PROVE  k >= Len(CurrentLine(j)) /\ m_stream_offset + k + 2 <= received
<1> DEFINE l == CurrentLine(j)
           o == m_stream_offset
<1>1. /\ Len(l) \in Nat /\ o \in Nat /\ received \in Nat
      /\ \A i \in 1 .. Len(l) : o + i <= received => memory[o + i] = l[i]
      /\ o + Len(l) + 1 <= received => memory[o + Len(l) + 1] = CR
  BY BufferAtLine
<1>2. \A i \in 1 .. Len(l) - 1 : ~(l[i] = CR /\ l[i + 1] = LF)
  BY LinePlaces DEF BufferHolds, AtLine, CurrentLine
<1>3. o + k + 2 <= received
  <2>1. o + k + 2 \in 1 .. BufSize
    BY <1>1, SizesAssumption
  <2>2. memory[o + k + 2] # NUL
    BY DEF LF, NUL
  <2> QED
    BY <2>1, <2>2 DEF BufferHolds
<1>4. CR # LF
  BY DEF CR, LF
<1> HIDE DEF l
<1>5. ASSUME k < Len(l) PROVE FALSE
  <2>1. k + 1 \in 1 .. Len(l) /\ o + (k + 1) <= received /\ o + (k + 1) = o + k + 1
    BY <1>1, <1>3, <1>5
  <2>2. l[k + 1] = CR
    BY <1>1, <2>1
  <2>3. CASE k + 1 = Len(l)
    <3>1. o + Len(l) + 1 = o + k + 2
      BY <1>1, <2>3
    <3> QED
      BY <1>1, <1>3, <1>4, <3>1
  <2>4. CASE k + 1 # Len(l)
    <3>1. k + 2 \in 1 .. Len(l) /\ o + (k + 2) = o + k + 2 /\ k + 1 \in 1 .. Len(l) - 1
          /\ (k + 1) + 1 = k + 2
      BY <1>1, <1>5, <2>4
    <3>2. l[k + 2] = LF
      BY <1>1, <1>3, <3>1
    <3> QED
      BY <1>2, <2>2, <3>1, <3>2
  <2> QED
    BY <2>3, <2>4
<1> QED
  BY <1>1, <1>3, <1>5 DEF l

LEMMA CutLineHasNoEnd ==
  ASSUME BufferHolds, NEW j, AtLine(j), ~Whole(j)
  PROVE  Ends = {}
<1> SUFFICES ASSUME Ends # {} PROVE FALSE
  OBVIOUS
<1>1. Min(Ends) >= Len(CurrentLine(j)) /\ m_stream_offset + Min(Ends) + 2 <= received
  <2>1. Min(Ends) \in Nat
    BY EndsProperties, SizesAssumption
  <2> QED
    BY <2>1, EndsProperties, NoEarlierEnd
<1>2. Min(Ends) \in Nat /\ Len(CurrentLine(j)) \in Nat /\ m_stream_offset \in Nat /\ received \in Nat
  BY EndsProperties, SizesAssumption, BufferAtLine
<1>3. m_stream_offset = Start(message, j)
  BY DEF AtLine
<1> QED
  BY <1>1, <1>2, <1>3 DEF Whole

LEMMA WholeLineEnds ==
  ASSUME BufferHolds, NEW j, AtLine(j), Whole(j)
  PROVE  /\ Len(CurrentLine(j)) < LineSize =>
              /\ Ends # {} /\ Copied = Len(CurrentLine(j)) /\ LineBytes = Len(CurrentLine(j))
              /\ m_stream_offset + Len(CurrentLine(j)) + 2 <= BufSize
         /\ Len(CurrentLine(j)) >= LineSize => Ends = {}
<1> DEFINE n == Len(CurrentLine(j))
           o == m_stream_offset
<1>1. /\ n \in Nat /\ o \in Nat /\ received \in Nat /\ received <= BufSize /\ BufSize \in Nat
      /\ LineSize \in Nat /\ o + n + 2 <= received
  BY BufferAtLine, SizesAssumption DEF BufferHolds, Whole, AtLine
<1>2. memory[o + n + 1] = CR /\ memory[o + n + 2] = LF
  BY <1>1, BufferAtLine
<1>3. ASSUME Ends # {} PROVE n <= Min(Ends) /\ Min(Ends) \in 0 .. LineSize - 1
  <2>1. Min(Ends) \in Nat
    BY <1>3, EndsProperties, SizesAssumption
  <2>2. Min(Ends) >= n
    BY <1>3, <2>1, EndsProperties, NoEarlierEnd
  <2> QED
    BY <1>1, <1>3, <2>1, <2>2, EndsProperties
<1> HIDE DEF n
<1>4. CASE n < LineSize
  <2>1. n \in Ends
    BY <1>1, <1>2, <1>4 DEF Ends
  <2>2. Min(Ends) = n
    BY <1>1, <1>3, <2>1, EndsProperties
  <2> QED
    BY <1>1, <1>4, <2>1, <2>2 DEF Copied, LineBytes, n
<1>5. CASE n >= LineSize
  BY <1>1, <1>3, <1>5 DEF n
<1> QED
  BY <1>1, <1>4, <1>5 DEF n

(* Unless it oversteps a buffer, line_memory keeps its size. *)
LEMMA NewLineType ==
  ASSUME memory \in Seq(Nat), Len(memory) = BufSize,
         line_memory \in Seq(Nat), Len(line_memory) = LineSize,
         m_stream_offset \in Nat, ~LineOverrun
  PROVE  /\ NewLine \in Seq(Nat) /\ Len(NewLine) = LineSize
         /\ NewOffset \in 0 .. BufSize /\ LineBytes \in Nat
<1> USE SizesAssumption
<1> DEFINE o == m_stream_offset
           e == IF Ends = {} THEN <<>> ELSE CRLF
           a == SubSeq(memory, o + 1, o + Copied)
           b == a \o e
           c == SubSeq(line_memory, Len(b) + 1, LineSize)
<1>1. /\ Copied \in Nat /\ LineBytes \in Nat /\ o + Copied <= BufSize
      /\ Ends # {} => o + Copied + 2 <= BufSize /\ Copied + 2 <= LineSize
      /\ Ends = {} => Copied = LineSize
  <2>1. CASE Ends = {}
    <3>1. Copied = LineSize /\ LineBytes = 0
      BY <2>1 DEF Copied, LineBytes
    <3>2. ~(o + LineSize > BufSize)
      BY <2>1 DEF LineOverrun
    <3> QED
      BY <2>1, <3>1, <3>2
  <2>2. CASE Ends # {}
    <3>1. Copied = Min(Ends) /\ LineBytes = Min(Ends) /\ ~(Copied + 2 > LineSize)
      BY <2>2 DEF Copied, LineBytes, LineOverrun
    <3>2. Min(Ends) \in Nat /\ o + Min(Ends) + 2 <= BufSize
      BY <2>2, EndsProperties
    <3> HIDE DEF o
    <3>3. o \in Nat
      BY DEF o
    <3> QED
      BY <2>2, <3>1, <3>2, <3>3
  <2> QED
    BY <2>1, <2>2
<1>2. NewOffset \in 0 .. BufSize
  BY <1>1 DEF NewOffset
<1>3. e \in Seq(Nat) /\ Len(e) = IF Ends = {} THEN 0 ELSE 2
  BY CRLFText, EmptySeq, SeqMonotonic
<1>4. a \in Seq(Nat) /\ Len(a) = Copied
  <2>1. \A i \in o + 1 .. o + Copied : memory[i] \in Nat
    BY <1>1, ElementOfSeq
  <2>2. a \in Seq(Nat) /\ Len(a) = IF o + 1 <= o + Copied THEN o + Copied - (o + 1) + 1 ELSE 0
    BY <1>1, <2>1, SubSeqProperties
  <2> QED
    BY <1>1, <2>2
<1>5. NewLine = b \o c
  BY DEF NewLine
<1> HIDE DEF a, e
<1>6. b \in Seq(Nat) /\ Len(b) = IF Ends = {} THEN LineSize ELSE Copied + 2
  <2>1. b \in Seq(Nat) /\ Len(b) = Len(a) + Len(e)
    BY <1>3, <1>4, ConcatProperties
  <2> HIDE DEF b
  <2> QED
    BY <1>1, <1>3, <1>4, <2>1, SMTT(30)
<1> HIDE DEF b
<1>7. c \in Seq(Nat) /\ Len(c) = LineSize - Len(b)
  <2>1. Len(b) \in Nat /\ Len(b) <= LineSize
    BY <1>1, <1>6
  <2>2. \A i \in Len(b) + 1 .. LineSize : line_memory[i] \in Nat
    BY <2>1, ElementOfSeq
  <2>3. c \in Seq(Nat) /\ Len(c) = IF Len(b) + 1 <= LineSize THEN LineSize - (Len(b) + 1) + 1 ELSE 0
    BY <2>1, <2>2, SubSeqProperties
  <2> QED
    BY <2>1, <2>3
<1> HIDE DEF c
<1>8. b \o c \in Seq(Nat) /\ Len(b \o c) = Len(b) + Len(c)
  BY <1>6, <1>7, ConcatProperties
<1> QED
  BY <1>1, <1>2, <1>5, <1>6, <1>7, <1>8

LEMMA BlanksProperties ==
  ASSUME NEW n \in Nat
  PROVE  Blanks(n) \in Seq(Nat) /\ Len(Blanks(n)) = n /\ \A i \in 1 .. n : Blanks(n)[i] = NUL
<1>1. Blanks(n) \in [1 .. n -> Nat] /\ \A i \in 1 .. n : Blanks(n)[i] = NUL
  BY DEF Blanks, NUL
<1> QED
  BY <1>1, FunctionIsSeq

(* What getline copies, when it does not overstep a buffer. *)
LEMMA NewLineStarts ==
  ASSUME memory \in Seq(Nat), Len(memory) = BufSize, m_stream_offset \in Nat, ~LineOverrun,
         line_memory \in Seq(Nat), Len(line_memory) = LineSize
  PROVE  /\ Copied \in Nat /\ Copied <= LineSize /\ m_stream_offset + Copied <= BufSize
         /\ \A i \in 1 .. Copied : NewLine[i] = memory[m_stream_offset + i]
         /\ Ends = {} => Copied = LineSize
         /\ Ends # {} => /\ Copied + 2 <= LineSize
                         /\ NewLine[Copied + 1] = CR /\ NewLine[Copied + 2] = LF
                         /\ \A i \in Copied + 3 .. LineSize : NewLine[i] = line_memory[i]
<1> USE SizesAssumption
<1> DEFINE o == m_stream_offset
           e == IF Ends = {} THEN <<>> ELSE CRLF
           a == SubSeq(memory, o + 1, o + Copied)
           b == a \o e
           c == SubSeq(line_memory, Len(b) + 1, LineSize)
<1>1. /\ Copied \in Nat /\ o + Copied <= BufSize /\ Copied <= LineSize
      /\ Ends # {} => Copied + 2 <= LineSize
      /\ Ends = {} => Copied = LineSize
  <2>1. CASE Ends = {}
    <3>1. Copied = LineSize
      BY <2>1 DEF Copied
    <3>2. ~(o + LineSize > BufSize)
      BY <2>1 DEF LineOverrun
    <3> QED
      BY <2>1, <3>1, <3>2
  <2>2. CASE Ends # {}
    <3>1. Copied = Min(Ends) /\ ~(Copied + 2 > LineSize)
      BY <2>2 DEF Copied, LineOverrun
    <3>2. Min(Ends) \in Nat /\ o + Min(Ends) + 2 <= BufSize
      BY <2>2, EndsProperties
    <3> HIDE DEF o
    <3>3. o \in Nat
      BY DEF o
    <3> QED
      BY <2>2, <3>1, <3>2, <3>3
  <2> QED
    BY <2>1, <2>2
<1>2. /\ e \in Seq(Nat) /\ Len(e) = IF Ends = {} THEN 0 ELSE 2
      /\ Ends # {} => e[1] = CR /\ e[2] = LF
  BY CRLFText, EmptySeq, SeqMonotonic
<1>3. a \in Seq(Nat) /\ Len(a) = Copied /\ \A i \in 1 .. Copied : a[i] = memory[o + i]
  <2>1. \A i \in o + 1 .. o + Copied : memory[i] \in Nat
    BY <1>1, ElementOfSeq
  <2>2. /\ a \in Seq(Nat) /\ Len(a) = IF o + 1 <= o + Copied THEN o + Copied - (o + 1) + 1 ELSE 0
        /\ \A i \in 1 .. o + Copied - (o + 1) + 1 : a[i] = memory[o + 1 + i - 1]
    BY <1>1, <2>1, SubSeqProperties
  <2> HIDE DEF a
  <2>3. o + Copied - (o + 1) + 1 = Copied /\ \A i \in 1 .. Copied : o + 1 + i - 1 = o + i
    BY <1>1
  <2> QED
    BY <1>1, <2>2, <2>3
<1>4. NewLine = b \o c
  BY DEF NewLine
<1> HIDE DEF a, e
<1>5. /\ b \in Seq(Nat) /\ Len(b) = Copied + Len(e)
      /\ \A i \in 1 .. Copied : b[i] = a[i]
      /\ Ends # {} => b[Copied + 1] = CR /\ b[Copied + 2] = LF
  <2>1. /\ b \in Seq(Nat) /\ Len(b) = Len(a) + Len(e)
        /\ \A k \in 1 .. Len(a) : b[k] = a[k]
        /\ \A k \in 1 .. Len(e) : b[Len(a) + k] = e[k]
    <3>1. a \in Seq(Nat) /\ e \in Seq(Nat)
      BY <1>2, <1>3
    <3> QED
      BY <3>1, ConcatPlaces
  <2> HIDE DEF b
  <2>2. Ends # {} => 1 \in 1 .. Len(e) /\ 2 \in 1 .. Len(e)
    BY <1>2
  <2> QED
    BY <1>2, <1>3, <2>1, <2>2
<1> HIDE DEF b
<1>6. Len(b) \in Nat /\ Len(b) <= LineSize /\ Len(b) = IF Ends = {} THEN Copied ELSE Copied + 2
  BY <1>1, <1>2, <1>5
<1>7. /\ c \in Seq(Nat)
      /\ \A i \in 1 .. LineSize - Len(b) : c[i] = line_memory[Len(b) + i]
      /\ Len(c) = LineSize - Len(b)
  <2>1. Len(b) \in Nat /\ Len(b) <= LineSize /\ LineSize \in Nat /\ LineSize <= Len(line_memory)
    BY <1>6
  <2>2. line_memory \in Seq(Nat)
    OBVIOUS
  <2> QED
    BY <2>1, <2>2, SubSeqPlaces, SMTT(30)
<1> HIDE DEF c
<1>8. /\ \A k \in 1 .. Len(b) : (b \o c)[k] = b[k]
      /\ \A k \in 1 .. Len(c) : (b \o c)[Len(b) + k] = c[k]
  <2>1. b \in Seq(Nat) /\ c \in Seq(Nat)
    BY <1>5, <1>7
  <2> QED
    BY <2>1, ConcatPlaces
<1>9. \A i \in 1 .. Copied : NewLine[i] = memory[o + i]
  <2>1. \A i \in 1 .. Copied : i \in 1 .. Len(b)
    BY <1>1, <1>6
  <2> QED
    BY <1>3, <1>4, <1>5, <1>8, <2>1
<1>10. ASSUME Ends # {}
       PROVE  /\ NewLine[Copied + 1] = CR /\ NewLine[Copied + 2] = LF
              /\ \A i \in Copied + 3 .. LineSize : NewLine[i] = line_memory[i]
  <2>1. Copied + 1 \in 1 .. Len(b) /\ Copied + 2 \in 1 .. Len(b)
    BY <1>1, <1>6, <1>10
  <2>2. ASSUME NEW i \in Copied + 3 .. LineSize PROVE NewLine[i] = line_memory[i]
    <3>1. i - Len(b) \in 1 .. Len(c) /\ Len(b) + (i - Len(b)) = i
      <4> DEFINE p == Len(b)
                 q == Len(c)
      <4>1. p = Copied + 2 /\ q = LineSize - p /\ p \in Nat
        BY <1>6, <1>7, <1>10
      <4> HIDE DEF p, q
      <4>2. i - p \in 1 .. q /\ p + (i - p) = i
        BY <1>1, <4>1
      <4> QED
        BY <4>2 DEF p, q
    <3> QED
      BY <1>4, <1>7, <1>8, <3>1
  <2> QED
    BY <1>4, <1>5, <1>8, <1>10, <2>1, <2>2
<1> QED
  BY <1>1, <1>9, <1>10

LEMMA FittingLine ==
  ASSUME BufferHolds, NEW j, AtLine(j), Whole(j), Fits(CurrentLine(j)),
         line_memory = Blanks(LineSize)
  PROVE  /\ ~LineOverrun /\ Terminated(NewLine)
         /\ CString(NewLine) = CurrentLine(j) \o CRLF
         /\ LineBytes = Len(CurrentLine(j))
         /\ NewOffset = Start(message, j) + Len(CurrentLine(j)) + 2
<1> USE SizesAssumption
<1> DEFINE l == CurrentLine(j)
           n == Len(l)
           o == m_stream_offset
           s == NewLine
<1>1. n \in Nat /\ o \in Nat /\ n + 3 <= LineSize /\ o = Start(message, j) /\ o + n + 2 <= received
      /\ received \in Nat /\ l \in Seq(Nat \ {NUL})
  BY BufferAtLine DEF Fits, AtLine, Whole
<1>2. Ends # {} /\ Copied = n /\ LineBytes = n
  <2>1. n < LineSize
    BY <1>1
  <2> QED
    BY <2>1, WholeLineEnds
<1>3. ~LineOverrun
  BY <1>1, <1>2 DEF LineOverrun
<1>4. NewOffset = o + n + 2
  BY <1>2 DEF NewOffset
<1>5. memory \in Seq(Nat) /\ Len(memory) = BufSize
  BY DEF BufferHolds
<1>6. /\ line_memory \in Seq(Nat) /\ Len(line_memory) = LineSize
      /\ \A i \in 1 .. LineSize : line_memory[i] = NUL
  BY BlanksProperties
<1>7. s \in Seq(Nat) /\ Len(s) = LineSize
  BY <1>1, <1>3, <1>5, <1>6, NewLineType
<1>8. /\ \A i \in 1 .. n : s[i] = memory[o + i]
      /\ s[n + 1] = CR /\ s[n + 2] = LF
      /\ \A i \in n + 3 .. LineSize : s[i] = line_memory[i]
  BY <1>1, <1>2, <1>3, <1>5, <1>6, NewLineStarts
<1>9. \A i \in 1 .. n : s[i] = l[i] /\ l[i] # NUL
  <2>1. \A i \in 1 .. n : o + i <= received
    BY <1>1
  <2>2. \A i \in 1 .. n : memory[o + i] = l[i]
    BY <2>1, BufferAtLine
  <2>3. \A i \in 1 .. n : l[i] \in Nat \ {NUL}
    BY <1>1, ElementOfSeq
  <2> QED
    BY <1>8, <2>2, <2>3
<1> HIDE DEF s, n, o
<1>10. Terminated(s) /\ CString(s) = SubSeq(s, 1, n + 2)
  <2>1. n + 2 \in Nat /\ n + 2 < Len(s)
    BY <1>1, <1>7
  <2>2. s[(n + 2) + 1] = NUL
    <3>1. (n + 2) + 1 \in n + 3 .. LineSize /\ (n + 2) + 1 \in 1 .. LineSize
      BY <1>1
    <3> QED
      BY <1>6, <1>8, <3>1
  <2>3. \A i \in 1 .. n + 2 : s[i] # NUL
    <3>1. CR # NUL /\ LF # NUL
      BY DEF CR, LF, NUL
    <3>2. \A i \in 1 .. n + 2 : i \in 1 .. n \/ i = n + 1 \/ i = n + 2
      BY <1>1
    <3> QED
      BY <1>8, <1>9, <3>1, <3>2
  <2> QED
    BY <1>7, <2>1, <2>2, <2>3, CStringEndsAt
<1> DEFINE x == SubSeq(s, 1, n + 2)
           y == l \o CRLF
<1>11. /\ x \in Seq(Nat) /\ Len(x) = n + 2 /\ \A i \in 1 .. n + 2 : x[i] = s[i]
  <2>1. \A i \in 1 .. n + 2 : s[i] \in Nat
    BY <1>1, <1>7, ElementOfSeq
  <2>2. /\ x \in Seq(Nat) /\ Len(x) = IF 1 <= n + 2 THEN n + 2 - 1 + 1 ELSE 0
        /\ \A i \in 1 .. n + 2 - 1 + 1 : x[i] = s[1 + i - 1]
    BY <1>1, <2>1, SubSeqProperties
  <2> HIDE DEF x
  <2>3. n + 2 - 1 + 1 = n + 2 /\ 1 <= n + 2 /\ \A i \in 1 .. n + 2 : 1 + i - 1 = i
    BY <1>1
  <2> QED
    BY <2>2, <2>3
<1>12. /\ y \in Seq(Nat) /\ Len(y) = n + 2 /\ \A i \in 1 .. n : y[i] = l[i]
       /\ y[n + 1] = CR /\ y[n + 2] = LF
  BY <1>1, WithCRLF, SeqMonotonic DEF n
<1>13. x = y
  <2> HIDE DEF x, y, l
  <2>1. \A i \in 1 .. n + 2 : i \in 1 .. n \/ i = n + 1 \/ i = n + 2
    BY <1>1
  <2>2. \A i \in 1 .. n + 2 : x[i] = y[i]
    BY <1>8, <1>9, <1>11, <1>12, <2>1
  <2> QED
    BY <1>11, <1>12, <2>2, SeqEqual
<1> QED
  BY <1>1, <1>2, <1>3, <1>4, <1>10, <1>13 DEF s, n, o

(* A line that does not fit oversteps line_memory, or fills it. *)
LEMMA UnfitLine ==
  ASSUME BufferHolds, NEW j, AtLine(j), Whole(j), ~Fits(CurrentLine(j)),
         line_memory \in Seq(Nat), Len(line_memory) = LineSize
  PROVE  LineOverrun \/ ~Terminated(NewLine)
<1> USE SizesAssumption
<1> SUFFICES ASSUME ~LineOverrun PROVE ~Terminated(NewLine)
  OBVIOUS
<1> DEFINE l == CurrentLine(j)
           n == Len(l)
           o == m_stream_offset
           s == NewLine
<1>1. /\ n \in Nat /\ o \in Nat /\ ~(n + 3 <= LineSize) /\ o + n + 2 <= received
      /\ received \in Nat /\ l \in Seq(Nat \ {NUL})
  BY BufferAtLine DEF Fits, AtLine, Whole
<1>2. memory \in Seq(Nat) /\ Len(memory) = BufSize
  BY DEF BufferHolds
<1>3. s \in Seq(Nat) /\ Len(s) = LineSize
  BY <1>1, <1>2, NewLineType
<1>4. /\ Copied \in Nat /\ Copied <= LineSize
      /\ \A i \in 1 .. Copied : s[i] = memory[o + i]
      /\ Ends = {} => Copied = LineSize
      /\ Ends # {} => Copied + 2 <= LineSize /\ s[Copied + 1] = CR /\ s[Copied + 2] = LF
  BY <1>1, <1>2, NewLineStarts
<1>5. \A i \in 1 .. n : memory[o + i] # NUL
  <2>1. \A i \in 1 .. n : o + i <= received
    BY <1>1
  <2>2. \A i \in 1 .. n : memory[o + i] = l[i]
    BY <2>1, BufferAtLine
  <2>3. \A i \in 1 .. n : l[i] \in Nat \ {NUL}
    BY <1>1, ElementOfSeq
  <2> QED
    BY <2>2, <2>3
<1>6. n < LineSize => Ends # {} /\ Copied = n
  BY WholeLineEnds
<1> HIDE DEF s, n, o
<1>7. CASE n < LineSize
  <2>1. n + 2 = LineSize
    BY <1>1, <1>4, <1>6, <1>7
  <2>2. CR # NUL /\ LF # NUL
    BY DEF CR, LF, NUL
  <2>3. \A i \in 1 .. LineSize : i \in 1 .. n \/ i = n + 1 \/ i = n + 2
    BY <1>1, <2>1
  <2>4. \A i \in 1 .. LineSize : s[i] # NUL
    BY <1>4, <1>5, <1>6, <1>7, <2>2, <2>3
  <2> QED
    BY <1>3, <2>4, NotTerminated DEF s
<1>8. CASE n >= LineSize
  <2>1. Ends = {}
    BY <1>8, WholeLineEnds DEF n
  <2>2. \A i \in 1 .. LineSize : i \in 1 .. n
    BY <1>1, <1>8
  <2>3. \A i \in 1 .. LineSize : s[i] # NUL
    BY <1>4, <1>5, <2>1, <2>2
  <2> QED
    BY <1>3, <2>3, NotTerminated DEF s
<1> QED
  BY <1>1, <1>7, <1>8

(* A request line that was cut does not look like a whole one; if it fills *)
(* line_memory, it would not have fitted.                                  *)
LEMMA CutRequestLine ==
  ASSUME BufferHolds, NEW j, AtLine(j), ~Whole(j), m_stream_offset = 0, ~LineOverrun,
         line_memory \in Seq(Nat), Len(line_memory) = LineSize
  PROVE  /\ Terminated(NewLine) => ~IsSuffix(CRLF, CString(NewLine))
         /\ ~Terminated(NewLine) => ~Fits(CurrentLine(j))
<1> USE SizesAssumption
<1> DEFINE n == Len(CurrentLine(j))
           s == NewLine
<1>1. /\ n \in Nat /\ received \in Nat /\ received < n + 2
      /\ memory \in Seq(Nat) /\ Len(memory) = BufSize /\ m_stream_offset \in Nat
  BY BufferAtLine DEF BufferHolds, AtLine, Whole
<1>2. Ends = {}
  BY CutLineHasNoEnd
<1>3. s \in Seq(Nat) /\ Len(s) = LineSize
  BY <1>1, NewLineType
<1>4. /\ LineSize <= BufSize /\ \A i \in 1 .. LineSize : s[i] = memory[i]
  <2>1. /\ Copied = LineSize /\ 0 + Copied <= BufSize
        /\ \A i \in 1 .. Copied : s[i] = memory[0 + i]
    BY <1>1, <1>2, NewLineStarts
  <2> HIDE DEF s
  <2>2. \A i \in 1 .. LineSize : 0 + i = i
    OBVIOUS
  <2> QED
    BY <2>1, <2>2
<1>5. \A i \in 1 .. BufSize : memory[i] = NUL <=> i > received
  <2>1. Text(message) \in Seq(Nat \ {NUL}) /\ Len(Text(message)) \in Nat
    BY TextPlaces DEF BufferHolds
  <2>2. \A i \in 1 .. Len(Text(message)) : Text(message)[i] # NUL
    BY <2>1, ElementOfSeq
  <2>3. \A i \in 1 .. BufSize : i <= received => i \in 1 .. Len(Text(message))
    BY <1>1, <2>1 DEF BufferHolds
  <2>4. ASSUME NEW i \in 1 .. BufSize PROVE memory[i] = NUL <=> i > received
    <3>1. memory[i] = IF i <= received THEN Text(message)[i] ELSE NUL
      BY DEF BufferHolds
    <3>2. i <= received => Text(message)[i] # NUL
      BY <2>2, <2>3
    <3> QED
      BY <1>1, <3>1, <3>2
  <2> QED
    BY <2>4
<1>6. CASE received < LineSize
  <2> DEFINE x == SubSeq(s, 1, received)
  <2> HIDE DEF s
  <2>1. Terminated(s) /\ CString(s) = x
    <3>1. received < Len(s) /\ received \in Nat
      BY <1>1, <1>3, <1>6
    <3>2. s[received + 1] = NUL /\ \A i \in 1 .. received : s[i] # NUL
      BY <1>1, <1>4, <1>5, <1>6
    <3> QED
      BY <1>3, <3>1, <3>2, CStringEndsAt
  <2>2. /\ x \in Seq(Nat) /\ Len(x) = received /\ \A i \in 1 .. received : x[i] = s[i]
    <3>1. /\ SubSeq(s, 0 + 1, received) \in Seq(Nat)
          /\ Len(SubSeq(s, 0 + 1, received)) = received - 0
          /\ \A i \in 1 .. received - 0 : SubSeq(s, 0 + 1, received)[i] = s[0 + i]
      BY <1>1, <1>3, <1>6, 0 \in Nat, SubSeqPlaces
    <3>2. 0 + 1 = 1 /\ received - 0 = received /\ \A i \in 1 .. received : 0 + i = i
      BY <1>1
    <3> QED
      BY <3>1, <3>2
  <2> HIDE DEF x
  <2>3. ASSUME IsSuffix(CRLF, x) PROVE FALSE
    <3>1. CR \in Nat /\ LF \in Nat /\ CRLF = <<CR, LF>>
      BY DEF CR, LF, CRLF
    <3>2. received >= 2 /\ x[received - 1] = CR /\ x[received] = LF
      BY <2>2, <2>3, <3>1, PairIsSuffix
    <3>3. memory[received - 1] = CR /\ memory[received] = LF
      <4>1. received - 1 \in 1 .. received /\ received \in 1 .. received
        BY <1>1, <3>2
      <4>2. received - 1 \in 1 .. LineSize /\ received \in 1 .. LineSize
        BY <1>1, <1>6, <3>2
      <4> QED
        BY <1>4, <2>2, <3>2, <4>1, <4>2
    <3> DEFINE k == received - 2
    <3>4. /\ k \in Nat /\ m_stream_offset + k + 1 = received - 1
          /\ m_stream_offset + k + 2 = received /\ received <= BufSize
      BY <1>1, <1>4, <1>6, <3>2
    <3> HIDE DEF k
    <3>5. k >= Len(CurrentLine(j))
      BY <3>3, <3>4, NoEarlierEnd
    <3> QED
      BY <1>1, <3>4, <3>5
  <2> QED
    BY <2>1, <2>3 DEF s
<1>7. CASE received >= LineSize
  <2>1. \A i \in 1 .. LineSize : s[i] # NUL
    BY <1>1, <1>4, <1>5, <1>7
  <2>2. ~Terminated(s)
    BY <1>3, <2>1, NotTerminated
  <2>3. ~(n + 3 <= LineSize)
    BY <1>1, <1>7
  <2> QED
    BY <2>2, <2>3 DEF Fits
<1> QED
  BY <1>1, <1>6, <1>7

(* strlen of the buffer is what was received, if that leaves room. *)
LEMMA BufferEnds ==
  ASSUME BufferHolds
  PROVE  /\ Terminated(memory) => received < BufSize
         /\ received < BufSize => Terminated(memory) /\ SumBytes = received
<1>1. /\ received \in Nat /\ received <= BufSize /\ BufSize \in Nat
      /\ memory \in Seq(Nat) /\ Len(memory) = BufSize
  BY SizesAssumption DEF BufferHolds
<1>2. \A i \in 1 .. BufSize : memory[i] = NUL <=> i > received
  <2>1. Text(message) \in Seq(Nat \ {NUL}) /\ Len(Text(message)) \in Nat
    BY TextPlaces DEF BufferHolds
  <2>2. \A i \in 1 .. Len(Text(message)) : Text(message)[i] # NUL
    BY <2>1, ElementOfSeq
  <2>3. \A i \in 1 .. BufSize : i <= received => i \in 1 .. Len(Text(message))
    BY <1>1, <2>1 DEF BufferHolds
  <2> QED
    BY <1>1, <2>2, <2>3 DEF BufferHolds
<1>3. ASSUME received < BufSize PROVE Terminated(memory) /\ SumBytes = received
  <2>1. memory[received + 1] = NUL /\ \A i \in 1 .. received : memory[i] # NUL
    BY <1>1, <1>2, <1>3
  <2>2. Terminated(memory) /\ CString(memory) = SubSeq(memory, 1, received)
    BY <1>1, <1>3, <2>1, CStringEndsAt
  <2>3. Len(SubSeq(memory, 0 + 1, received)) = received - 0
    BY <1>1, 0 \in Nat, SubSeqPlaces
  <2> QED
    BY <1>1, <2>2, <2>3 DEF SumBytes
<1>4. ASSUME received >= BufSize PROVE ~Terminated(memory)
  BY <1>1, <1>2, <1>4, NotTerminated
<1> QED
  BY <1>1, <1>3, <1>4

-----------------------------------------------------------------------------
(***************************************************************************)
(* ParseHttpMsg: decode_url turns what a client wrote into what it meant.  *)
(***************************************************************************)
AllHex(s, i, n) == i + n - 1 <= Len(s) /\ \A j \in i .. i + n - 1 : s[j] \in DOMAIN Digits

LEMMA HexAtValue ==
  ASSUME NEW s \in Seq(Nat), NEW i \in Nat, i >= 1, NEW n \in Nat, AllHex(s, i, n)
  PROVE  \E v \in [0 .. n -> Nat] :
           /\ v[0] = 0 /\ HexAt(s, i, n) = v[n]
           /\ \A k \in 1 .. n : v[k] = v[k - 1] * 16 + Digits[s[i + k - 1]]
<1> DEFINE d == [k \in 1 .. n |-> Digits[s[i + k - 1]]]
           step == [p \in (1 .. n) \X Nat |-> p[2] * 16 + d[p[1]]]
           val == CHOOSE g : g = [k \in 0 .. n |-> IF k = 0 THEN 0
                                                   ELSE g[k - 1] * 16 + Digits[s[i + k - 1]]]
<1>1. \A c \in DOMAIN Digits : Digits[c] \in Nat
  <2>1. DOMAIN Digits = (48 .. 57) \cup (65 .. 70) \cup (97 .. 102)
    BY DEF Digits
  <2> SUFFICES ASSUME NEW c \in DOMAIN Digits PROVE Digits[c] \in Nat
    OBVIOUS
  <2>2. Digits[c] = IF c <= 57 THEN c - 48 ELSE IF c <= 70 THEN c - 55 ELSE c - 87
    BY <2>1 DEF Digits
  <2>3. c \in 48 .. 57 \/ c \in 65 .. 70 \/ c \in 97 .. 102
    BY <2>1
  <2> DEFINE d0 == Digits[c]
  <2>4. d0 = IF c <= 57 THEN c - 48 ELSE IF c <= 70 THEN c - 55 ELSE c - 87
    BY <2>2
  <2> HIDE DEF d0
  <2>5. ASSUME c \in 48 .. 57 PROVE d0 \in Nat
    BY <2>4, <2>5
  <2>6. ASSUME c \in 65 .. 70 PROVE d0 \in Nat
    BY <2>4, <2>6
  <2>7. ASSUME c \in 97 .. 102 PROVE d0 \in Nat
    BY <2>4, <2>7
  <2> QED
    BY <2>3, <2>5, <2>6, <2>7 DEF d0
<1>2. d \in [1 .. n -> Nat]
  <2>1. \A k \in 1 .. n : i + k - 1 \in i .. i + n - 1
    OBVIOUS
  <2>2. \A k \in 1 .. n : Digits[s[i + k - 1]] \in Nat
    BY <1>1, <2>1 DEF AllHex
  <2> QED
    BY <2>2
<1>3. \A k \in 1 .. n : d[k] = Digits[s[i + k - 1]]
  OBVIOUS
<1>4. HexAt(s, i, n) = val[n]
  BY DEF HexAt, AllHex
<1> HIDE DEF d
<1>5. step \in [(1 .. n) \X Nat -> Nat]
  BY <1>2
<1>6. PICK v \in [0 .. n -> Nat] : Recursion(v, n, 0, step)
  <2> HIDE DEF step
  <2> QED
    BY <1>5, 0 \in Nat, RecursionExists
<1>7. v[0] = 0
  <2>1. 0 \in 0 .. n
    OBVIOUS
  <2> HIDE DEF step
  <2> QED
    BY <1>6, <2>1 DEF Recursion
<1>8. \A k \in 1 .. n : v[k] = v[k - 1] * 16 + Digits[s[i + k - 1]]
  <2> SUFFICES ASSUME NEW k \in 1 .. n PROVE v[k] = v[k - 1] * 16 + Digits[s[i + k - 1]]
    OBVIOUS
  <2>1. k \in 0 .. n /\ k # 0 /\ k - 1 \in 0 .. n
    OBVIOUS
  <2>2. v[k] = step[<<k, v[k - 1]>>]
    <3> HIDE DEF step
    <3> QED
      BY <1>6, <2>1 DEF Recursion
  <2>3. v[k - 1] \in Nat
    BY <1>6, <2>1
  <2> QED
    BY <1>3, <2>2, <2>3
<1>9. v = [k \in 0 .. n |-> IF k = 0 THEN 0 ELSE v[k - 1] * 16 + Digits[s[i + k - 1]]]
  <2>1. \A k \in 0 .. n : k # 0 => k \in 1 .. n
    OBVIOUS
  <2>2. \A k \in 0 .. n : v[k] = IF k = 0 THEN 0 ELSE v[k - 1] * 16 + Digits[s[i + k - 1]]
    BY <1>7, <1>8, <2>1
  <2> QED
    BY <1>6, <2>2
<1>10. val = [k \in 0 .. n |-> IF k = 0 THEN 0 ELSE val[k - 1] * 16 + Digits[s[i + k - 1]]]
  BY <1>9
<1> HIDE DEF val
<1> DEFINE D == {k \in 0 .. n : val[k] = v[k]}
<1>11. 0 .. n \subseteq D
  <2>1. 0 \in D
    BY <1>7, <1>10
  <2>2. ASSUME NEW k \in 1 .. n, k - 1 \in D PROVE k \in D
    <3>1. k \in 0 .. n /\ k # 0
      OBVIOUS
    <3>2. val[k] = val[k - 1] * 16 + Digits[s[i + k - 1]]
      BY <1>10, <3>1
    <3> QED
      BY <1>8, <2>2, <3>1, <3>2
  <2> HIDE DEF D
  <2> QED
    BY <2>1, <2>2, IntervalInduction
<1>12. val[n] = v[n]
  BY <1>11
<1> QED
  BY <1>4, <1>6, <1>7, <1>8, <1>12

LEMMA HexAtBounds ==
  ASSUME NEW s \in Seq(Nat), NEW i \in Nat, i >= 1, NEW n \in Nat, HexAt(s, i, n) # -1
  PROVE  i + n - 1 <= Len(s) /\ HexAt(s, i, n) \in Nat
<1>1. AllHex(s, i, n)
  BY DEF HexAt, AllHex
<1>2. PICK v \in [0 .. n -> Nat] : HexAt(s, i, n) = v[n]
  BY <1>1, HexAtValue
<1> QED
  BY <1>1, <1>2 DEF AllHex

(* What decode_url does at a place, if f says what it makes of the rest. *)
DecodeStep(s, f, i) ==
  IF i > Len(s) THEN <<>>
  ELSE IF s[i] = 37 /\ i < Len(s) /\ s[i + 1] = 117 /\ HexAt(s, i + 2, 4) # -1
  THEN Utf8(HexAt(s, i + 2, 4)) \o f[i + 6]
  ELSE IF s[i] = 37 /\ i < Len(s) /\ HexAt(s, i + 1, 2) # -1
  THEN <<HexAt(s, i + 1, 2)>> \o f[i + 3]
  ELSE <<s[i]>> \o f[i + 1]

LEMMA Utf8Type == ASSUME NEW v \in Nat PROVE Utf8(v) \in Seq(Nat)
<1>1. CASE v < 128
  BY <1>1 DEF Utf8
<1>2. CASE v \in 128 .. 2047
  <2>1. Utf8(v) = <<192 + ((v \div 64) % 32), 128 + (v % 64)>>
    <3>1. ~(v < 128) /\ v >= 128 /\ v <= 2047 /\ v \notin Surrogates
      BY <1>2 DEF Surrogates
    <3>2. v \in 128 .. 2047
      BY <1>2
    <3> DEFINE two == <<192 + ((v \div 64) % 32), 128 + (v % 64)>>
               three == <<224 + ((v \div 4096) % 16), 128 + ((v \div 64) % 64), 128 + (v % 64)>>
    <3>3. Utf8(v) = CASE v < 128 -> <<v>> [] v \in 128 .. 2047 -> two
                      [] v \in Surrogates -> <<>> [] OTHER -> three
      BY DEF Utf8
    <3> HIDE DEF two, three
    <3>4. Utf8(v) = two
      BY <3>1, <3>2, <3>3
    <3> QED
      BY <3>4 DEF two
  <2>2. 192 + ((v \div 64) % 32) \in Nat /\ 128 + (v % 64) \in Nat
    OBVIOUS
  <2> QED
    BY <2>1, <2>2
<1>3. CASE v > 2047 /\ v \in Surrogates
  BY <1>3 DEF Utf8
<1>4. CASE v > 2047 /\ v \notin Surrogates
  <2>1. Utf8(v) = <<224 + ((v \div 4096) % 16), 128 + ((v \div 64) % 64), 128 + (v % 64)>>
    BY <1>4 DEF Utf8
  <2>2. /\ 224 + ((v \div 4096) % 16) \in Nat /\ 128 + ((v \div 64) % 64) \in Nat
        /\ 128 + (v % 64) \in Nat
    OBVIOUS
  <2> QED
    BY <2>1, <2>2
<1> QED
  BY <1>1, <1>2, <1>3, <1>4

LEMMA DecodeStepLooksAhead ==
  ASSUME NEW s \in Seq(Nat), NEW i \in 1 .. Len(s) + 1, NEW f,
         \A k \in i + 1 .. Len(s) + 1 : f[k] \in Seq(Nat)
  PROVE  /\ DecodeStep(s, f, i) \in Seq(Nat)
         /\ \A g : (\A k \in i + 1 .. Len(s) + 1 : g[k] = f[k])
                     => DecodeStep(s, g, i) = DecodeStep(s, f, i)
<1> DEFINE same(g) == \A k \in i + 1 .. Len(s) + 1 : g[k] = f[k]
<1>1. Len(s) \in Nat /\ i \in Nat /\ i >= 1
  BY LenProperties
<1>2. CASE i > Len(s)
  BY <1>2, EmptySeq DEF DecodeStep
<1>3. CASE i <= Len(s) /\ s[i] = 37 /\ i < Len(s) /\ s[i + 1] = 117 /\ HexAt(s, i + 2, 4) # -1
  <2>1. \A h : DecodeStep(s, h, i) = Utf8(HexAt(s, i + 2, 4)) \o h[i + 6]
    <3>1. ~(i > Len(s))
      BY <1>1, <1>3
    <3> QED
      BY <1>3, <3>1, Zenon DEF DecodeStep
  <2>2. i + 2 + 4 - 1 <= Len(s) /\ HexAt(s, i + 2, 4) \in Nat
    <3>1. i + 2 \in Nat /\ i + 2 >= 1 /\ 4 \in Nat
      BY <1>1
    <3> QED
      BY <1>3, <3>1, HexAtBounds
  <2>3. i + 6 \in i + 1 .. Len(s) + 1
    BY <1>1, <2>2
  <2>4. Utf8(HexAt(s, i + 2, 4)) \in Seq(Nat) /\ f[i + 6] \in Seq(Nat)
    BY <2>2, <2>3, Utf8Type
  <2>5. Utf8(HexAt(s, i + 2, 4)) \o f[i + 6] \in Seq(Nat)
    BY <2>4, ConcatProperties
  <2> QED
    BY <2>1, <2>3, <2>5
<1>4. CASE /\ i <= Len(s) /\ ~(s[i] = 37 /\ i < Len(s) /\ s[i + 1] = 117 /\ HexAt(s, i + 2, 4) # -1)
           /\ s[i] = 37 /\ i < Len(s) /\ HexAt(s, i + 1, 2) # -1
  <2>1. \A h : DecodeStep(s, h, i) = <<HexAt(s, i + 1, 2)>> \o h[i + 3]
    <3>1. ~(i > Len(s))
      BY <1>1, <1>4
    <3> QED
      BY <1>4, <3>1, Zenon DEF DecodeStep
  <2>2. i + 1 + 2 - 1 <= Len(s) /\ HexAt(s, i + 1, 2) \in Nat
    <3>1. i + 1 \in Nat /\ i + 1 >= 1 /\ 2 \in Nat
      BY <1>1
    <3> QED
      BY <1>4, <3>1, HexAtBounds
  <2>3. i + 3 \in i + 1 .. Len(s) + 1
    BY <1>1, <2>2
  <2>4. <<HexAt(s, i + 1, 2)>> \in Seq(Nat) /\ f[i + 3] \in Seq(Nat)
    BY <2>2, <2>3
  <2>5. <<HexAt(s, i + 1, 2)>> \o f[i + 3] \in Seq(Nat)
    BY <2>4, ConcatProperties
  <2> QED
    BY <2>1, <2>3, <2>5
<1>5. CASE /\ i <= Len(s) /\ ~(s[i] = 37 /\ i < Len(s) /\ s[i + 1] = 117 /\ HexAt(s, i + 2, 4) # -1)
           /\ ~(s[i] = 37 /\ i < Len(s) /\ HexAt(s, i + 1, 2) # -1)
  <2>1. \A h : DecodeStep(s, h, i) = <<s[i]>> \o h[i + 1]
    <3>1. ~(i > Len(s))
      BY <1>1, <1>5
    <3> QED
      BY <1>5, <3>1, Zenon DEF DecodeStep
  <2>2. i \in 1 .. Len(s) /\ i + 1 \in i + 1 .. Len(s) + 1
    BY <1>1, <1>5
  <2>3. <<s[i]>> \in Seq(Nat) /\ f[i + 1] \in Seq(Nat)
    BY <2>2, ElementOfSeq
  <2>4. <<s[i]>> \o f[i + 1] \in Seq(Nat)
    BY <2>3, ConcatProperties
  <2> QED
    BY <2>1, <2>2, <2>4
<1> QED
  BY <1>1, <1>2, <1>3, <1>4, <1>5

LEMMA DecodeUrlSteps ==
  ASSUME NEW s \in Seq(Nat)
  PROVE  \E f \in [1 .. Len(s) + 1 -> Seq(Nat)] :
           /\ DecodeUrl(s) = f[1]
           /\ \A i \in 1 .. Len(s) + 1 : f[i] = DecodeStep(s, f, i)
<1> DEFINE n == Len(s)
           X == Seq(Nat)
           from == CHOOSE g : g = [i \in 1 .. n + 1 |-> DecodeStep(s, g, i)]
           Good(a, f) == f \in [a .. n + 1 -> X] /\ \A i \in a .. n + 1 : f[i] = DecodeStep(s, f, i)
           D == {k \in 0 .. n : \E f : Good(n + 1 - k, f)}
<1>1. n \in Nat
  BY LenProperties
<1>2. DecodeUrl(s) = from[1]
  BY DEF DecodeUrl, DecodeStep
<1> HIDE DEF n, X
<1>3. ASSUME NEW a \in 1 .. n + 1, NEW f, \A i \in a + 1 .. n + 1 : f[i] \in X /\ f[i] = DecodeStep(s, f, i)
      PROVE  \E g : Good(a, g)
  <2> DEFINE g == [i \in a .. n + 1 |-> IF i = a THEN DecodeStep(s, f, a) ELSE f[i]]
  <2>1. \A i \in a + 1 .. n + 1 : g[i] = f[i]
    BY <1>1
  <2>2. g[a] = DecodeStep(s, f, a)
    BY <1>1
  <2>3. DecodeStep(s, f, a) \in X /\ DecodeStep(s, g, a) = DecodeStep(s, f, a)
    <3> HIDE DEF g
    <3> QED
      BY <1>3, <2>1, DecodeStepLooksAhead DEF n, X
  <2>4. ASSUME NEW i \in a + 1 .. n + 1 PROVE DecodeStep(s, g, i) = DecodeStep(s, f, i)
    <3>1. /\ i \in 1 .. n + 1
          /\ \A k \in i + 1 .. n + 1 : k \in a + 1 .. n + 1
      BY <1>1
    <3> HIDE DEF g
    <3> QED
      BY <1>3, <2>1, <3>1, DecodeStepLooksAhead DEF n, X
  <2>5. \A i \in a .. n + 1 : i = a \/ i \in a + 1 .. n + 1
    BY <1>1
  <2>6. g \in [a .. n + 1 -> X]
    BY <1>3, <2>3, <2>5
  <2> HIDE DEF g
  <2>7. \A i \in a .. n + 1 : g[i] = DecodeStep(s, g, i)
    BY <1>3, <2>1, <2>2, <2>3, <2>4, <2>5
  <2> QED
    BY <2>6, <2>7
<1>4. 0 .. n \subseteq D
  <2>1. 0 \in D
    <3>1. n + 1 \in 1 .. n + 1 /\ n + 1 - 0 = n + 1 /\ (n + 1) + 1 .. n + 1 = {}
      BY <1>1
    <3>2. \E g : Good(n + 1, g)
      <4>1. \A i \in (n + 1) + 1 .. n + 1 : FALSE
        BY <3>1
      <4> HIDE DEF Good
      <4> QED
        BY <1>3, <3>1, <4>1
    <3> HIDE DEF Good
    <3> QED
      BY <1>1, <3>1, <3>2
  <2>2. ASSUME NEW k \in 1 .. n, k - 1 \in D PROVE k \in D
    <3> DEFINE a == n + 1 - k
    <3>1. a \in 1 .. n + 1 /\ n + 1 - (k - 1) = a + 1 /\ k \in 0 .. n
      BY <1>1
    <3>2. PICK f : Good(a + 1, f)
      <4> HIDE DEF Good, a
      <4> QED
        BY <2>2, <3>1
    <3>3. \A i \in a + 1 .. n + 1 : f[i] \in X /\ f[i] = DecodeStep(s, f, i)
      BY <3>2
    <3> HIDE DEF Good, a
    <3>4. \E g : Good(a, g)
      BY <1>3, <3>1, <3>3
    <3> QED
      BY <3>1, <3>4 DEF a
  <2> HIDE DEF D
  <2> QED
    BY <1>1, <2>1, <2>2, IntervalInduction
<1>5. PICK f : Good(1, f)
  <2>1. n \in D /\ n + 1 - n = 1
    BY <1>1, <1>4
  <2> HIDE DEF Good
  <2> QED
    BY <2>1
<1>6. f = [i \in 1 .. n + 1 |-> DecodeStep(s, f, i)]
  BY <1>5
<1>7. from = [i \in 1 .. n + 1 |-> DecodeStep(s, from, i)]
  BY <1>6
<1> HIDE DEF from
<1>8. \A i \in 1 .. n + 1 : from[i] = DecodeStep(s, from, i)
  BY <1>7
<1> DEFINE E == {k \in 0 .. n : \A i \in n + 1 - k .. n + 1 : from[i] \in X}
<1>9. 0 .. n \subseteq E
  <2>1. 0 \in E
    <3>1. n + 1 \in 1 .. n + 1 /\ \A k \in (n + 1) + 1 .. n + 1 : from[k] \in X
      BY <1>1
    <3>2. from[n + 1] \in X
      BY <1>8, <3>1, DecodeStepLooksAhead DEF n, X
    <3>3. n + 1 - 0 .. n + 1 = {n + 1}
      BY <1>1
    <3> QED
      BY <1>1, <3>2, <3>3
  <2>2. ASSUME NEW k \in 1 .. n, k - 1 \in E PROVE k \in E
    <3> DEFINE a == n + 1 - k
    <3>1. a \in 1 .. n + 1 /\ n + 1 - (k - 1) = a + 1 /\ k \in 0 .. n
      BY <1>1
    <3>2. \A i \in a + 1 .. n + 1 : from[i] \in X
      BY <2>2, <3>1
    <3> HIDE DEF a
    <3>3. from[a] \in X
      BY <1>8, <3>1, <3>2, DecodeStepLooksAhead DEF n, X
    <3>4. \A i \in a .. n + 1 : i = a \/ i \in a + 1 .. n + 1
      BY <3>1
    <3>5. \A i \in a .. n + 1 : from[i] \in X
      BY <3>2, <3>3, <3>4
    <3> QED
      BY <3>1, <3>5 DEF a
  <2> HIDE DEF E
  <2> QED
    BY <1>1, <2>1, <2>2, IntervalInduction
<1>10. from \in [1 .. n + 1 -> X]
  <2>1. n \in E /\ n + 1 - n = 1
    BY <1>1, <1>9
  <2>2. \A i \in 1 .. n + 1 : from[i] \in X
    BY <2>1
  <2> QED
    BY <1>7, <2>2
<1> QED
  BY <1>2, <1>8, <1>10 DEF n, X

LEMMA DigitsOfByte ==
  ASSUME NEW v \in 0 .. 255
  PROVE  DigitOf(v, 2) * 16 + DigitOf(v, 1) = v
<1>1. DigitOf(v, 2) = (v \div 16) % 16 /\ DigitOf(v, 1) = (v \div 1) % 16
  BY DEF DigitOf
<1>2. ((v \div 16) % 16) * 16 + ((v \div 1) % 16) = v
  OBVIOUS
<1> QED
  BY <1>1, <1>2

LEMMA DigitsOfCode ==
  ASSUME NEW v \in Codes
  PROVE  /\ v \in Nat
         /\ ((DigitOf(v, 4) * 16 + DigitOf(v, 3)) * 16 + DigitOf(v, 2)) * 16 + DigitOf(v, 1) = v
<1>1. /\ DigitOf(v, 4) = (v \div 4096) % 16 /\ DigitOf(v, 3) = (v \div 256) % 16
      /\ DigitOf(v, 2) = (v \div 16) % 16 /\ DigitOf(v, 1) = (v \div 1) % 16
  BY DEF DigitOf
<1>2. v \in Nat
  BY DEF Codes
<1>3. ((((v \div 4096) % 16) * 16 + ((v \div 256) % 16)) * 16 + ((v \div 16) % 16)) * 16
        + ((v \div 1) % 16) = v
  BY DEF Codes
<1> QED
  BY <1>1, <1>2, <1>3

LEMMA Utf8IsRight ==
  ASSUME NEW v \in Codes, v \notin Surrogates
  PROVE  Utf8(v) = Utf8Bytes(v)
<1>1. v \in Nat /\ v \div 4096 < 16
  BY DEF Codes
<1> DEFINE lead == <<0, 192, 224>>
           weights == <<1, 64, 4096>>
           bytes(n) == [i \in 1 .. n |-> IF i = 1 THEN lead[n] + v \div weights[n]
                                         ELSE 128 + ((v \div weights[n - i + 1]) % 64)]
           two == <<192 + ((v \div 64) % 32), 128 + (v % 64)>>
           three == <<224 + ((v \div 4096) % 16), 128 + ((v \div 64) % 64), 128 + (v % 64)>>
<1>2. Utf8(v) = CASE v < 128 -> <<v>> [] v \in 128 .. 2047 -> two
                  [] v \in Surrogates -> <<>> [] OTHER -> three
  BY DEF Utf8
<1> DEFINE size == CASE v < 128 -> 1 [] v \in 128 .. 2047 -> 2 [] OTHER -> 3
<1>3. Utf8Bytes(v) = bytes(size)
  BY DEF Utf8Bytes
<1>4. bytes(1) = <<v>>
  <2>1. 0 + v \div 1 = v
    BY <1>1
  <2> QED
    BY <2>1
<1>5. v < 2048 => bytes(2) = two
  <2>1. /\ v < 2048 => v \div 64 = (v \div 64) % 32
        /\ (v \div 1) % 64 = v % 64
    BY <1>1
  <2>2. bytes(2) = <<192 + v \div 64, 128 + ((v \div 1) % 64)>>
    OBVIOUS
  <2> QED
    BY <2>1, <2>2
<1>6. bytes(3) = three
  <2>1. v \div 4096 = (v \div 4096) % 16 /\ (v \div 1) % 64 = v % 64
    BY <1>1
  <2>2. bytes(3) = <<224 + v \div 4096, 128 + ((v \div 64) % 64), 128 + ((v \div 1) % 64)>>
    OBVIOUS
  <2> QED
    BY <2>1, <2>2
<1> HIDE DEF bytes, two, three
<1>7. ASSUME v < 128
      PROVE  Utf8(v) = Utf8Bytes(v)
  <2>1. v \notin 128 .. 2047
    BY <1>1, <1>7
  <2>2. Utf8(v) = <<v>> /\ Utf8Bytes(v) = bytes(1)
    BY <1>2, <1>3, <1>7, <2>1
  <2> QED
    BY <1>4, <2>2
<1>8. ASSUME ~(v < 128), v <= 2047
      PROVE  Utf8(v) = Utf8Bytes(v)
  <2>1. v \in 128 .. 2047 /\ v < 2048
    BY <1>1, <1>8
  <2>2. Utf8(v) = two
    <3>1. ~(v < 128) /\ v \in 128 .. 2047 /\ v \notin Surrogates
      BY <1>8, <2>1
    <3> HIDE DEF bytes
    <3> QED
      BY <1>2, <3>1
  <2>3. Utf8Bytes(v) = bytes(2)
    <3>1. size = 2
      BY <1>8, <2>1
    <3> HIDE DEF size
    <3> QED
      BY <1>3, <3>1
  <2> QED
    BY <1>5, <2>1, <2>2, <2>3
<1>9. ASSUME ~(v < 128), ~(v <= 2047)
      PROVE  Utf8(v) = Utf8Bytes(v)
  <2>1. v \notin 128 .. 2047
    BY <1>1, <1>9
  <2>2. Utf8(v) = three /\ Utf8Bytes(v) = bytes(3)
    BY <1>2, <1>3, <1>9, <2>1
  <2> QED
    BY <1>6, <2>2
<1> QED
  BY <1>7, <1>8, <1>9

LEMMA ItemBytesType ==
  ASSUME NEW item \in ItemTypes
  PROVE  /\ ItemBytes(item) \in Seq(Nat)
         /\ item.kind \in {"char", "byte"} => ItemBytes(item) = <<item.value>>
         /\ item.kind = "code" => ItemBytes(item) = Utf8(item.value)
<1>1. /\ item.kind \in {"char", "byte", "code"} /\ item.value \in Nat
      /\ item.kind = "code" => item.value \in Codes
  BY ItemFields
<1>2. CASE item.kind \in {"char", "byte"}
  <2>1. ItemBytes(item) = <<item.value>> /\ item.kind # "code"
    BY <1>2 DEF ItemBytes
  <2> QED
    BY <1>1, <1>2, <2>1
<1>3. CASE item.kind = "code"
  <2>1. ItemBytes(item) = IF item.value \in Surrogates THEN <<>> ELSE Utf8Bytes(item.value)
    BY <1>3 DEF ItemBytes
  <2>2. item.value \in Surrogates => Utf8(item.value) = <<>>
    <3> SUFFICES ASSUME item.value \in Surrogates PROVE Utf8(item.value) = <<>>
      OBVIOUS
    <3> DEFINE v == item.value
               two == <<192 + ((v \div 64) % 32), 128 + (v % 64)>>
               three == <<224 + ((v \div 4096) % 16), 128 + ((v \div 64) % 64), 128 + (v % 64)>>
    <3>1. Utf8(v) = CASE v < 128 -> <<v>> [] v \in 128 .. 2047 -> two
                      [] v \in Surrogates -> <<>> [] OTHER -> three
      BY DEF Utf8
    <3>2. v \in Nat /\ v \in Surrogates
      BY <1>1
    <3> HIDE DEF two, three, v
    <3>3. ~(v < 128) /\ v \notin 128 .. 2047
      BY <3>2, SMTT(30) DEF Surrogates
    <3>4. Utf8(v) = <<>>
      BY <3>1, <3>2, <3>3
    <3> QED
      BY <3>4 DEF v
  <2>3. ItemBytes(item) = Utf8(item.value)
    BY <1>1, <1>3, <2>1, <2>2, Utf8IsRight
  <2> QED
    BY <1>1, <1>3, <2>3, Utf8Type
<1> QED
  BY <1>1, <1>2, <1>3

LEMMA HexDigitAt ==
  ASSUME NEW s \in Seq(Nat), NEW p \in Nat, p >= 1, NEW v \in Nat
  PROVE  /\ (/\ p + 1 <= Len(s) /\ s[p] = HexDigit(DigitOf(v, 2))
             /\ s[p + 1] = HexDigit(DigitOf(v, 1)) /\ v \in 0 .. 255)
              => HexAt(s, p, 2) = v /\ s[p] # 117
         /\ (/\ p + 3 <= Len(s) /\ s[p] = HexDigit(DigitOf(v, 4))
             /\ s[p + 1] = HexDigit(DigitOf(v, 3)) /\ s[p + 2] = HexDigit(DigitOf(v, 2))
             /\ s[p + 3] = HexDigit(DigitOf(v, 1)) /\ v \in Codes)
              => HexAt(s, p, 4) = v
<1> DEFINE d(i) == DigitOf(v, i)
<1>1. d(1) \in 0 .. 15 /\ d(2) \in 0 .. 15 /\ d(3) \in 0 .. 15 /\ d(4) \in 0 .. 15
  BY DigitOfType
<1>2. \A i \in 1 .. 4 : /\ HexDigit(d(i)) \in DOMAIN Digits /\ HexDigit(d(i)) # 117
                        /\ Digits[HexDigit(d(i))] = d(i)
  <2>1. \A i \in 1 .. 4 : d(i) \in 0 .. 15
    BY <1>1
  <2> HIDE DEF d
  <2> QED
    BY <2>1, HexDigitValue
<1>3. Len(s) \in Nat
  BY LenProperties
<1> HIDE DEF d
<1>4. ASSUME p + 1 <= Len(s), s[p] = HexDigit(d(2)), s[p + 1] = HexDigit(d(1)), v \in 0 .. 255
      PROVE  HexAt(s, p, 2) = v /\ s[p] # 117
  <2>1. s[p] \in DOMAIN Digits /\ s[p + 1] \in DOMAIN Digits /\ Digits[s[p]] = d(2)
        /\ Digits[s[p + 1]] = d(1) /\ s[p] # 117
    BY <1>2, <1>4
  <2>2. \A j \in p .. p + 2 - 1 : j = p \/ j = p + 1
    OBVIOUS
  <2>3. AllHex(s, p, 2)
    BY <1>3, <1>4, <2>1, <2>2 DEF AllHex
  <2>4. PICK x \in [0 .. 2 -> Nat] :
          /\ x[0] = 0 /\ HexAt(s, p, 2) = x[2]
          /\ \A k \in 1 .. 2 : x[k] = x[k - 1] * 16 + Digits[s[p + k - 1]]
    BY <2>3, 2 \in Nat, HexAtValue
  <2>5. x[1] = 0 * 16 + d(2) /\ x[2] = x[1] * 16 + d(1)
    <3>1. /\ x[1] = x[1 - 1] * 16 + Digits[s[p + 1 - 1]]
          /\ x[2] = x[2 - 1] * 16 + Digits[s[p + 2 - 1]]
      BY <2>4
    <3>2. 1 - 1 = 0 /\ 2 - 1 = 1 /\ p + 1 - 1 = p /\ p + 2 - 1 = p + 1
      OBVIOUS
    <3> QED
      BY <2>1, <2>4, <3>1, <3>2
  <2>6. d(2) * 16 + d(1) = v
    BY <1>4, DigitsOfByte DEF d
  <2>7. x[2] = v
    BY <1>1, <2>5, <2>6
  <2> QED
    BY <2>1, <2>4, <2>7
<1>5. ASSUME p + 3 <= Len(s), s[p] = HexDigit(d(4)), s[p + 1] = HexDigit(d(3)),
             s[p + 2] = HexDigit(d(2)), s[p + 3] = HexDigit(d(1)), v \in Codes
      PROVE  HexAt(s, p, 4) = v
  <2>1. /\ s[p] \in DOMAIN Digits /\ s[p + 1] \in DOMAIN Digits
        /\ s[p + 2] \in DOMAIN Digits /\ s[p + 3] \in DOMAIN Digits
        /\ Digits[s[p]] = d(4) /\ Digits[s[p + 1]] = d(3)
        /\ Digits[s[p + 2]] = d(2) /\ Digits[s[p + 3]] = d(1)
    BY <1>2, <1>5
  <2>2. \A j \in p .. p + 4 - 1 : j = p \/ j = p + 1 \/ j = p + 2 \/ j = p + 3
    OBVIOUS
  <2>3. AllHex(s, p, 4)
    <3>1. p + 4 - 1 <= Len(s)
      BY <1>3, <1>5
    <3> QED
      BY <2>1, <2>2, <3>1 DEF AllHex
  <2>4. PICK x \in [0 .. 4 -> Nat] :
          /\ x[0] = 0 /\ HexAt(s, p, 4) = x[4]
          /\ \A k \in 1 .. 4 : x[k] = x[k - 1] * 16 + Digits[s[p + k - 1]]
    BY <2>3, 4 \in Nat, HexAtValue
  <2>5. /\ x[1] = 0 * 16 + d(4) /\ x[2] = x[1] * 16 + d(3)
        /\ x[3] = x[2] * 16 + d(2) /\ x[4] = x[3] * 16 + d(1)
    <3>1. /\ x[1] = x[1 - 1] * 16 + Digits[s[p + 1 - 1]]
          /\ x[2] = x[2 - 1] * 16 + Digits[s[p + 2 - 1]]
          /\ x[3] = x[3 - 1] * 16 + Digits[s[p + 3 - 1]]
          /\ x[4] = x[4 - 1] * 16 + Digits[s[p + 4 - 1]]
      BY <2>4
    <3>2. /\ 1 - 1 = 0 /\ 2 - 1 = 1 /\ 3 - 1 = 2 /\ 4 - 1 = 3
          /\ p + 1 - 1 = p /\ p + 2 - 1 = p + 1 /\ p + 3 - 1 = p + 2 /\ p + 4 - 1 = p + 3
      OBVIOUS
    <3> QED
      BY <2>1, <2>4, <3>1, <3>2
  <2>6. ((d(4) * 16 + d(3)) * 16 + d(2)) * 16 + d(1) = v
    BY <1>5, DigitsOfCode DEF d
  <2>7. x[4] = v
    <3>1. x[1] = d(4)
      <4>1. \A e \in 0 .. 15 : 0 * 16 + e = e
        OBVIOUS
      <4> QED
        BY <1>1, <2>5, <4>1, Zenon
    <3>2. x[2] = d(4) * 16 + d(3)
      BY <2>5, <3>1
    <3>3. x[3] = (d(4) * 16 + d(3)) * 16 + d(2)
      BY <2>5, <3>2
    <3> QED
      BY <2>5, <2>6, <3>3
  <2> QED
    BY <2>4, <2>7
<1> QED
  BY <1>4, <1>5 DEF d

(* What decode_url makes of an item's text, with a byte behind it. *)
LEMMA ItemDecodes ==
  ASSUME NEW item \in ItemTypes, NEW s \in Seq(Nat), NEW f, NEW p \in Nat, p >= 1,
         p + Len(ItemText(item)) <= Len(s),
         \A k \in 1 .. Len(ItemText(item)) : s[p + k - 1] = ItemText(item)[k],
         item.kind = "char" /\ item.value = 37 =>
           HexAt(s, p + 1, 2) = -1 /\ ~(s[p + 1] = 117 /\ HexAt(s, p + 2, 4) # -1)
  PROVE  DecodeStep(s, f, p) = ItemBytes(item) \o f[p + Len(ItemText(item))]
<1> DEFINE v == item.value
           t == ItemText(item)
<1>1. /\ item.kind \in {"char", "byte", "code"} /\ v \in Nat
      /\ item.kind = "byte" => v \in 0 .. 255
      /\ item.kind = "code" => v \in Codes
  BY ItemFields
<1>2. Len(s) \in Nat
  BY LenProperties
<1>3. \A k \in 1 .. Len(t) : s[p + k - 1] = t[k]
  OBVIOUS
<1>4. CASE item.kind = "char"
  <2>1. t = <<v>>
    BY <1>4 DEF ItemText
  <2>2. Len(t) = 1 /\ t[1] = v
    BY <2>1
  <2>3. s[p] = v /\ ~(p > Len(s))
    <3>1. s[p + 1 - 1] = t[1]
      <4>1. 1 \in 1 .. Len(t)
        BY <2>2
      <4> QED
        BY <1>3, <4>1
    <3>2. p + 1 - 1 = p
      OBVIOUS
    <3>3. ~(p > Len(s))
      BY <1>2, <2>2
    <3> QED
      BY <2>2, <3>1, <3>2, <3>3
  <2>4. ItemBytes(item) = <<v>>
    BY <1>4, ItemBytesType
  <2>5. v = 37 => HexAt(s, p + 1, 2) = -1 /\ ~(s[p + 1] = 117 /\ HexAt(s, p + 2, 4) # -1)
    BY <1>4
  <2> HIDE DEF v, t
  <2>6. DecodeStep(s, f, p) = <<v>> \o f[p + 1]
    BY <2>3, <2>5, Zenon DEF DecodeStep
  <2> QED
    BY <2>2, <2>4, <2>6 DEF t
<1>5. CASE item.kind = "byte"
  <2> DEFINE h == Hex(v, 2)
  <2>1. t = <<37>> \o h
    BY <1>5 DEF ItemText
  <2>2. h \in Seq(Nat) /\ Len(h) = 2 /\ h[1] = HexDigit(DigitOf(v, 2)) /\ h[2] = HexDigit(DigitOf(v, 1))
    BY <1>1, HexText
  <2> HIDE DEF h
  <2>3. Len(t) = 3 /\ t[1] = 37 /\ t[2] = h[1] /\ t[3] = h[2]
    <3> DEFINE a == <<37>>
    <3>1. a \in Seq(Nat) /\ Len(a) = 1 /\ a[1] = 37 /\ t = a \o h
      BY <2>1
    <3> HIDE DEF v, t, a
    <3>2. /\ Len(t) = Len(a) + Len(h)
          /\ \A k \in 1 .. Len(a) : t[k] = a[k]
          /\ \A k \in 1 .. Len(h) : t[Len(a) + k] = h[k]
      <4>1. /\ Len(a \o h) = Len(a) + Len(h)
            /\ \A k \in 1 .. Len(a) : (a \o h)[k] = a[k]
            /\ \A k \in 1 .. Len(h) : (a \o h)[Len(a) + k] = h[k]
        <5>1. a \in Seq(Nat) /\ h \in Seq(Nat)
          BY <2>2, <3>1
        <5> QED
          BY <5>1, ConcatPlaces
      <4>2. t = a \o h
        BY <3>1
      <4> QED
        BY <4>1, <4>2, Zenon
    <3>3. 1 \in 1 .. Len(a) /\ 1 \in 1 .. Len(h) /\ 2 \in 1 .. Len(h)
      BY <2>2, <3>1
    <3>4. t[1] = a[1] /\ t[Len(a) + 1] = h[1] /\ t[Len(a) + 2] = h[2]
      BY <3>2, <3>3
    <3>5. Len(a) + 1 = 2 /\ Len(a) + 2 = 3
      BY <3>1
    <3>6. Len(t) = 3
      BY <2>2, <3>1, <3>2
    <3> QED
      BY <3>1, <3>4, <3>5, <3>6
  <2>4. s[p] = 37 /\ s[p + 1] = h[1] /\ s[p + 2] = h[2]
    <3> HIDE DEF v, t
    <3>1. p + 1 - 1 = p /\ p + 2 - 1 = p + 1 /\ p + 3 - 1 = p + 2
      OBVIOUS
    <3>2. 1 \in 1 .. Len(t) /\ 2 \in 1 .. Len(t) /\ 3 \in 1 .. Len(t)
      BY <2>3
    <3>3. s[p + 1 - 1] = t[1] /\ s[p + 2 - 1] = t[2] /\ s[p + 3 - 1] = t[3]
      BY <1>3, <3>2
    <3> QED
      BY <2>3, <3>1, <3>3
  <2>5. p + 3 <= Len(s)
    BY <2>3
  <2>6. HexAt(s, p + 1, 2) = v /\ s[p + 1] # 117
    <3>1. /\ p + 1 \in Nat /\ p + 1 >= 1 /\ (p + 1) + 1 <= Len(s)
          /\ (p + 1) + 1 = p + 2
      BY <1>2, <2>5
    <3> HIDE DEF v
    <3>2. v \in Nat /\ v \in 0 .. 255
      BY <1>1, <1>5
    <3>3. s[p + 1] = HexDigit(DigitOf(v, 2)) /\ s[(p + 1) + 1] = HexDigit(DigitOf(v, 1))
      BY <2>2, <2>4, <3>1
    <3> QED
      BY <3>1, <3>2, <3>3, HexDigitAt
  <2>7. v # -1 /\ p < Len(s) /\ ~(p > Len(s))
    BY <1>1, <1>2, <2>5
  <2>8. ItemBytes(item) = <<v>>
    BY <1>5, ItemBytesType
  <2> HIDE DEF v, t
  <2>9. DecodeStep(s, f, p) = <<v>> \o f[p + 3]
    BY <2>4, <2>6, <2>7, Zenon DEF DecodeStep
  <2> QED
    BY <2>3, <2>8, <2>9 DEF t
<1>6. CASE item.kind = "code"
  <2> DEFINE h == Hex(v, 4)
  <2>1. t = <<37, 117>> \o h
    BY <1>6 DEF ItemText
  <2>2. h \in Seq(Nat) /\ Len(h) = 4 /\ h[1] = HexDigit(DigitOf(v, 4)) /\ h[2] = HexDigit(DigitOf(v, 3))
        /\ h[3] = HexDigit(DigitOf(v, 2)) /\ h[4] = HexDigit(DigitOf(v, 1))
    BY <1>1, HexText
  <2> HIDE DEF h
  <2>3. Len(t) = 6 /\ t[1] = 37 /\ t[2] = 117 /\ t[3] = h[1] /\ t[4] = h[2] /\ t[5] = h[3] /\ t[6] = h[4]
    <3> DEFINE a == <<37, 117>>
    <3>1. a \in Seq(Nat) /\ Len(a) = 2 /\ a[1] = 37 /\ a[2] = 117 /\ t = a \o h
      BY <2>1
    <3> HIDE DEF v, t, a
    <3>2. /\ Len(t) = Len(a) + Len(h)
          /\ \A k \in 1 .. Len(a) : t[k] = a[k]
          /\ \A k \in 1 .. Len(h) : t[Len(a) + k] = h[k]
      <4>1. /\ Len(a \o h) = Len(a) + Len(h)
            /\ \A k \in 1 .. Len(a) : (a \o h)[k] = a[k]
            /\ \A k \in 1 .. Len(h) : (a \o h)[Len(a) + k] = h[k]
        <5>1. a \in Seq(Nat) /\ h \in Seq(Nat)
          BY <2>2, <3>1
        <5> QED
          BY <5>1, ConcatPlaces
      <4>2. t = a \o h
        BY <3>1
      <4> QED
        BY <4>1, <4>2, Zenon
    <3>3. /\ 1 \in 1 .. Len(a) /\ 2 \in 1 .. Len(a)
          /\ 1 \in 1 .. Len(h) /\ 2 \in 1 .. Len(h) /\ 3 \in 1 .. Len(h) /\ 4 \in 1 .. Len(h)
      BY <2>2, <3>1
    <3>4. /\ t[1] = a[1] /\ t[2] = a[2] /\ t[Len(a) + 1] = h[1] /\ t[Len(a) + 2] = h[2]
          /\ t[Len(a) + 3] = h[3] /\ t[Len(a) + 4] = h[4]
      BY <3>2, <3>3
    <3>5. Len(a) + 1 = 3 /\ Len(a) + 2 = 4 /\ Len(a) + 3 = 5 /\ Len(a) + 4 = 6
      BY <3>1
    <3>6. Len(t) = 6
      BY <2>2, <3>1, <3>2
    <3> QED
      BY <3>1, <3>4, <3>5, <3>6
  <2>4. s[p] = 37 /\ s[p + 1] = 117 /\ s[p + 2] = h[1] /\ s[p + 3] = h[2] /\ s[p + 4] = h[3]
        /\ s[p + 5] = h[4]
    <3> HIDE DEF v, t
    <3>1. p + 1 - 1 = p /\ p + 2 - 1 = p + 1 /\ p + 3 - 1 = p + 2 /\ p + 4 - 1 = p + 3
          /\ p + 5 - 1 = p + 4 /\ p + 6 - 1 = p + 5
      OBVIOUS
    <3>2. 1 \in 1 .. Len(t) /\ 2 \in 1 .. Len(t) /\ 3 \in 1 .. Len(t) /\ 4 \in 1 .. Len(t)
          /\ 5 \in 1 .. Len(t) /\ 6 \in 1 .. Len(t)
      BY <2>3
    <3>3. s[p + 1 - 1] = t[1] /\ s[p + 2 - 1] = t[2] /\ s[p + 3 - 1] = t[3]
          /\ s[p + 4 - 1] = t[4] /\ s[p + 5 - 1] = t[5] /\ s[p + 6 - 1] = t[6]
      BY <1>3, <3>2
    <3> QED
      BY <2>3, <3>1, <3>3
  <2>5. p + 6 <= Len(s)
    BY <2>3
  <2>6. HexAt(s, p + 2, 4) = v
    <3>1. /\ p + 2 \in Nat /\ p + 2 >= 1 /\ (p + 2) + 3 <= Len(s)
          /\ (p + 2) + 1 = p + 3 /\ (p + 2) + 2 = p + 4 /\ (p + 2) + 3 = p + 5
      BY <1>2, <2>5
    <3> HIDE DEF v
    <3>2. v \in Nat /\ v \in Codes
      BY <1>1, <1>6
    <3>3. /\ s[p + 2] = HexDigit(DigitOf(v, 4)) /\ s[(p + 2) + 1] = HexDigit(DigitOf(v, 3))
          /\ s[(p + 2) + 2] = HexDigit(DigitOf(v, 2)) /\ s[(p + 2) + 3] = HexDigit(DigitOf(v, 1))
      BY <2>2, <2>4, <3>1
    <3> QED
      BY <3>1, <3>2, <3>3, HexDigitAt
  <2>7. v # -1 /\ p < Len(s) /\ ~(p > Len(s))
    BY <1>1, <1>2, <2>5
  <2>8. ItemBytes(item) = Utf8(v)
    BY <1>6, ItemBytesType
  <2> HIDE DEF v, t
  <2>9. DecodeStep(s, f, p) = Utf8(v) \o f[p + 6]
    BY <2>4, <2>6, <2>7, Zenon DEF DecodeStep
  <2> QED
    BY <2>3, <2>8, <2>9 DEF t
<1> QED
  BY <1>1, <1>4, <1>5, <1>6

ItemsBytes(items) == [i \in DOMAIN items |-> ItemBytes(items[i])]

LEMMA ItemsBytesType ==
  ASSUME NEW items \in Seq(ItemTypes)
  PROVE  /\ ItemsBytes(items) \in Seq(Seq(Nat)) /\ Len(ItemsBytes(items)) = Len(items)
         /\ Each(ItemBytes, items) = Glued(ItemsBytes(items))[Len(items)]
         /\ Each(ItemBytes, items) \in Seq(Nat)
<1> DEFINE t == ItemsBytes(items)
           X == Seq(Nat)
<1>1. Len(items) \in Nat /\ DOMAIN items = 1 .. Len(items)
  BY LenProperties
<1>2. t \in [1 .. Len(items) -> X]
  <2>1. \A i \in 1 .. Len(items) : items[i] \in ItemTypes
    BY ElementOfSeq
  <2> QED
    BY <1>1, <2>1, ItemBytesType DEF ItemsBytes
<1>3. Each(ItemBytes, items) = FlattenSeq(t)
  BY DEF Each, ItemsBytes
<1> HIDE DEF t, X
<1>4. t \in Seq(X) /\ Len(t) = Len(items)
  BY <1>1, <1>2, FunctionIsSeq
<1>5. FlattenSeq(t) = Glued(t)[Len(t)] /\ FlattenSeq(t) \in X
  BY <1>4, FlattenSeqIsGlued DEF X
<1> QED
  BY <1>3, <1>4, <1>5 DEF t, X

(* decode_url takes a value, with its CR LF, item by item: a character is  *)
(* itself, %XX a byte, %uXXXX its UTF-8, and no item touches the next.     *)
THEOREM DecodedValue ==
  ASSUME NEW items \in Seq(ItemTypes), NoStrayEscape(items)
  PROVE  DecodeUrl(Each(ItemText, items) \o CRLF) = Each(ItemBytes, items) \o CRLF
<1> DEFINE t == ItemTexts(items)
           b == ItemsBytes(items)
           n == Len(items)
           G(k) == Glued(t)[k]
           B(k) == Glued(b)[k]
           L(k) == Len(G(k))
           s == Each(ItemText, items) \o CRLF
           X == Seq(Nat)
<1>1. n \in Nat /\ \A k \in 1 .. n : items[k] \in ItemTypes
  BY LenProperties, ElementOfSeq
<1>2. t \in Seq(X) /\ Len(t) = n /\ Each(ItemText, items) = G(n) /\ G(n) \in X
  BY ItemTextsType
<1>3. b \in Seq(X) /\ Len(b) = n /\ Each(ItemBytes, items) = B(n) /\ B(n) \in X
  BY ItemsBytesType
<1>4. \A k \in 1 .. n : t[k] = ItemText(items[k]) /\ b[k] = ItemBytes(items[k])
  <2>1. DOMAIN items = 1 .. n
    BY LenProperties
  <2> QED
    BY <2>1 DEF ItemTexts, ItemsBytes
<1>5. /\ s \in X /\ Len(s) = L(n) + 2 /\ L(n) \in Nat
      /\ \A k \in 1 .. L(n) : s[k] = G(n)[k]
      /\ s[L(n) + 1] = CR /\ s[L(n) + 2] = LF
  <2>1. CRLF \in X /\ Len(CRLF) = 2 /\ CRLF[1] = CR /\ CRLF[2] = LF
    BY DEF CRLF, CR, LF
  <2>2. s = G(n) \o CRLF
    BY <1>2
  <2> HIDE DEF s, G
  <2> QED
    BY <1>2, <2>1, <2>2, EndedPlaces DEF X
<1>6. PICK f \in [1 .. Len(s) + 1 -> X] :
        /\ DecodeUrl(s) = f[1]
        /\ \A i \in 1 .. Len(s) + 1 : f[i] = DecodeStep(s, f, i)
  <2> HIDE DEF s
  <2> QED
    BY <1>5, DecodeUrlSteps DEF X
<1> HIDE DEF X
<1>7. ASSUME NEW k \in 1 .. n
      PROVE  /\ L(k - 1) \in Nat /\ L(k) = L(k - 1) + Len(t[k]) /\ L(k) <= L(n)
             /\ Len(t[k]) \in Nat
             /\ \A i \in 1 .. Len(t[k]) : s[L(k - 1) + i] = t[k][i]
  <2>1. k \in 1 .. Len(t) /\ n \in 0 .. Len(t) /\ k \in 0 .. n
    BY <1>1, <1>2
  <2>2. /\ L(k - 1) \in Nat /\ Len(t[k]) \in Nat /\ L(k) = L(k - 1) + Len(t[k])
        /\ \A i \in 1 .. Len(t[k]) : G(k)[L(k - 1) + i] = t[k][i]
    <3>1. t \in Seq(Seq(Nat)) /\ k \in 1 .. Len(t)
      BY <1>2, <2>1 DEF X
    <3>2. /\ Len(Glued(t)[k - 1]) \in Nat /\ Len(t[k]) \in Nat
          /\ Len(Glued(t)[k]) = Len(Glued(t)[k - 1]) + Len(t[k])
          /\ \A i \in 1 .. Len(t[k]) : Glued(t)[k][Len(Glued(t)[k - 1]) + i] = t[k][i]
      BY <3>1, GluedNext, ZenonT(30)
    <3> QED
      BY <3>2
  <2>3. L(k) <= L(n) /\ L(n) \in Nat /\ \A i \in 1 .. L(k) : G(n)[i] = G(k)[i]
    BY <1>2, <2>1, GluedPlaces, ZenonT(30) DEF X
  <2> HIDE DEF t, G, L, s
  <2>4. ASSUME NEW i \in 1 .. Len(t[k]) PROVE s[L(k - 1) + i] = t[k][i]
    <3>1. L(k - 1) + i \in 1 .. L(k) /\ L(k - 1) + i \in 1 .. L(n)
      <4> DEFINE l == Len(t[k])
      <4>1. l \in Nat /\ i \in 1 .. l /\ L(k) = L(k - 1) + l
        BY <2>2
      <4> HIDE DEF l
      <4> QED
        BY <2>2, <2>3, <4>1
    <3> QED
      BY <1>5, <2>2, <2>3, <3>1
  <2> QED
    BY <2>2, <2>3, <2>4
<1>8. ASSUME NEW k \in 1 .. n
      PROVE  f[L(k - 1) + 1] = b[k] \o f[L(k) + 1]
  <2> DEFINE item == items[k]
             p == L(k - 1) + 1
             l == Len(t[k])
  <2>1. item \in ItemTypes /\ t[k] = ItemText(item) /\ b[k] = ItemBytes(item)
    BY <1>1, <1>4
  <2>2. /\ L(k - 1) \in Nat /\ L(n) \in Nat /\ Len(s) = L(n) + 2 /\ l \in Nat
        /\ L(k) = L(k - 1) + l /\ L(k) <= L(n)
    BY <1>5, <1>7
  <2> HIDE DEF item, l, t, b, s, L
  <2>3. /\ p \in Nat /\ p >= 1 /\ p + l <= Len(s) /\ p \in 1 .. Len(s) + 1 /\ p + l = L(k) + 1
    BY <2>2
  <2>4. \A i \in 1 .. l : s[p + i - 1] = t[k][i]
    <3> SUFFICES ASSUME NEW i \in 1 .. l PROVE s[p + i - 1] = t[k][i]
      OBVIOUS
    <3>1. p + i - 1 = L(k - 1) + i
      BY <2>2
    <3>2. s[L(k - 1) + i] = t[k][i]
      BY <1>7 DEF l
    <3> QED
      BY <3>1, <3>2
  <2>5. ASSUME item.kind = "char", item.value = 37
        PROVE  HexAt(s, p + 1, 2) = -1 /\ ~(s[p + 1] = 117 /\ HexAt(s, p + 2, 4) # -1)
    <3> DEFINE q == Len(Each(ItemText, SubSeq(items, 1, k)))
    <3>1. k \in DOMAIN items
      BY LenProperties
    <3>2. HexAt(s, q + 1, 2) = -1 /\ ~(s[q + 1] = 117 /\ HexAt(s, q + 2, 4) # -1)
      BY <2>5, <3>1 DEF NoStrayEscape, item, s
    <3>3. p = q
      <4> DEFINE i1 == SubSeq(items, 1, k)
      <4>1. i1 \in Seq(ItemTypes) /\ Len(i1) = k /\ \A i \in 1 .. k : i1[i] = items[i]
        <5>1. 0 \in Nat /\ k \in Nat /\ 0 <= k /\ k <= Len(items) /\ 0 + 1 = 1 /\ k - 0 = k
          BY <1>1
        <5>2. SubSeq(items, 0 + 1, k) \in Seq(ItemTypes) /\ Len(SubSeq(items, 0 + 1, k)) = k - 0
              /\ \A i \in 1 .. k - 0 : SubSeq(items, 0 + 1, k)[i] = items[0 + i]
          BY <5>1, SubSeqPlaces
        <5>3. \A i \in 1 .. k : 0 + i = i
          OBVIOUS
        <5> QED
          BY <5>1, <5>2, <5>3
      <4> DEFINE t1 == ItemTexts(i1)
      <4>2. t1 \in Seq(X) /\ Len(t1) = k /\ Each(ItemText, i1) = Glued(t1)[k]
        <5> HIDE DEF i1
        <5> QED
          BY <4>1, ItemTextsType DEF X
      <4>3. \A i \in 1 .. k : t[i] = t1[i]
        <5>1. DOMAIN i1 = 1 .. k
          BY <4>1, LenProperties
        <5>2. \A i \in 1 .. k : i \in 1 .. n
          BY <1>1
        <5> HIDE DEF i1
        <5>3. \A i \in 1 .. k : t1[i] = ItemText(i1[i])
          BY <5>1 DEF ItemTexts
        <5> QED
          BY <1>4, <4>1, <5>2, <5>3
      <4>4. Glued(t)[k] = Glued(t1)[k]
        <5>1. k \in Nat /\ k <= Len(t) /\ k <= Len(t1) /\ k \in 0 .. k
          BY <1>1, <1>2, <4>2
        <5> HIDE DEF t1, i1
        <5> QED
          BY <1>2, <4>2, <4>3, <5>1, GluedOfPrefix DEF X
      <4>5. q = L(k)
        BY <4>2, <4>4 DEF L
      <4>6. l = 1
        <5>1. t[k] = <<item.value>>
          BY <2>1, <2>5 DEF ItemText
        <5> QED
          BY <5>1 DEF l
      <4> QED
        BY <2>2, <4>5, <4>6
    <3> QED
      BY <3>2, <3>3
  <2> HIDE DEF p
  <2>6. DecodeStep(s, f, p) = b[k] \o f[p + l]
    <3>1. s \in Seq(Nat) /\ l = Len(ItemText(item))
      BY <1>5, <2>1 DEF X, l
    <3>2. /\ p + Len(ItemText(item)) <= Len(s)
          /\ \A i \in 1 .. Len(ItemText(item)) : s[p + i - 1] = ItemText(item)[i]
      BY <2>1, <2>3, <2>4, <3>1
    <3> QED
      BY <2>1, <2>3, <2>5, <3>1, <3>2, ItemDecodes
  <2>7. f[p] = DecodeStep(s, f, p)
    BY <1>6, <2>3
  <2> QED
    BY <2>3, <2>6, <2>7 DEF p
<1>9. /\ B(0) = <<>> /\ L(0) = 0
      /\ \A k \in 1 .. n : B(k) = B(k - 1) \o b[k] /\ B(k - 1) \in X /\ b[k] \in X
  <2>1. Glued(b) \in [0 .. n -> X] /\ Glued(b)[0] = <<>>
        /\ \A k \in 1 .. n : Glued(b)[k] = Glued(b)[k - 1] \o b[k]
    BY <1>3, GluedStep DEF X
  <2>2. \A k \in 1 .. n : b[k] \in X
    BY <1>3, ElementOfSeq
  <2>3. \A k \in 1 .. n : k - 1 \in 0 .. n
    BY <1>1
  <2>4. Glued(t)[0] = <<>>
    BY <1>2, GluedStep DEF X
  <2> QED
    BY <2>1, <2>2, <2>3, <2>4
<1>10. \A k \in 0 .. n : f[1] = B(k) \o f[L(k) + 1]
  <2> DEFINE D == {k \in 0 .. n : f[1] = B(k) \o f[L(k) + 1]}
  <2>1. 0 \in D
    <3>1. f[1] \in X
      <4>1. 1 \in 1 .. Len(s) + 1
        BY <1>5
      <4> QED
        BY <1>6, <4>1
    <3>2. f[1] = <<>> \o f[1]
      BY <3>1 DEF X
    <3>3. L(0) + 1 = 1 /\ 0 \in 0 .. n
      BY <1>1, <1>9
    <3> QED
      BY <1>9, <3>2, <3>3
  <2>2. ASSUME NEW k \in 1 .. n, k - 1 \in D PROVE k \in D
    <3>1. f[1] = B(k - 1) \o (b[k] \o f[L(k) + 1])
      BY <1>8, <2>2
    <3>2. L(k) + 1 \in 1 .. Len(s) + 1
      <4>1. L(k - 1) \in Nat /\ Len(t[k]) \in Nat /\ L(k) = L(k - 1) + Len(t[k]) /\ L(k) <= L(n)
            /\ L(n) \in Nat /\ Len(s) = L(n) + 2
        BY <1>5, <1>7
      <4> HIDE DEF L, s, t
      <4> QED
        BY <4>1
    <3>3. f[L(k) + 1] \in X
      BY <1>6, <3>2
    <3>4. B(k - 1) \in X /\ b[k] \in X /\ B(k) = B(k - 1) \o b[k]
      BY <1>9
    <3> DEFINE x == B(k - 1)
               y == b[k]
               z == f[L(k) + 1]
    <3>5. x \o (y \o z) = (x \o y) \o z
      <4>1. x \in Seq(Nat) /\ y \in Seq(Nat) /\ z \in Seq(Nat)
        BY <3>3, <3>4 DEF X
      <4> HIDE DEF x, y, z
      <4> QED
        BY <4>1, ThreeTexts, Zenon
    <3>6. k \in 0 .. n
      BY <1>1
    <3> QED
      BY <3>1, <3>4, <3>5, <3>6
  <2> HIDE DEF D
  <2>3. 0 .. n \subseteq D
    BY <1>1, <2>1, <2>2, IntervalInduction
  <2> QED
    BY <2>3 DEF D
<1>11. f[L(n) + 1] = CRLF
  <2> DEFINE a == L(n) + 1
  <2>1. /\ a \in Nat /\ a \in 1 .. Len(s) + 1 /\ a + 1 \in 1 .. Len(s) + 1 /\ a + 2 \in 1 .. Len(s) + 1
        /\ ~(a > Len(s)) /\ ~(a + 1 > Len(s)) /\ a + 2 > Len(s) /\ (a + 1) + 1 = a + 2
    BY <1>5
  <2>2. s[a] = CR /\ s[a + 1] = LF
    <3>1. a + 1 = L(n) + 2
      BY <1>5
    <3> QED
      BY <1>5, <3>1
  <2> HIDE DEF a, s
  <2>3. s[a] # 37 /\ s[a + 1] # 37
    BY <2>2 DEF CR, LF
  <2>4. f[a] = <<CR>> \o f[a + 1]
    <3>1. DecodeStep(s, f, a) = <<s[a]>> \o f[a + 1]
      BY <2>1, <2>3, Zenon DEF DecodeStep
    <3> QED
      BY <1>6, <2>1, <2>2, <3>1
  <2>5. f[a + 1] = <<LF>> \o f[a + 2]
    <3>1. DecodeStep(s, f, a + 1) = <<s[a + 1]>> \o f[(a + 1) + 1]
      BY <2>1, <2>3, Zenon DEF DecodeStep
    <3> QED
      BY <1>6, <2>1, <2>2, <3>1
  <2>6. f[a + 2] = <<>>
    <3>1. DecodeStep(s, f, a + 2) = <<>>
      BY <2>1, Zenon DEF DecodeStep
    <3> QED
      BY <1>6, <2>1, <3>1
  <2>7. <<CR>> \o (<<LF>> \o <<>>) = <<CR, LF>>
    <3>1. <<LF>> \o <<>> = <<LF>>
      BY DEF LF
    <3>2. CR \in Nat /\ LF \in Nat
      BY DEF CR, LF
    <3>3. <<CR>> \o <<LF>> = <<CR, LF>>
      BY <3>2, TwoCharacters
    <3> QED
      BY <3>1, <3>3
  <2> QED
    BY <2>4, <2>5, <2>6, <2>7 DEF a, CRLF
<1>12. n \in 0 .. n
  BY <1>1
<1>13. DecodeUrl(s) = B(n) \o CRLF
  BY <1>6, <1>10, <1>11, <1>12
<1> QED
  BY <1>3, <1>13

(* The halves of a text. *)
LEMMA Halves ==
  ASSUME NEW a \in Seq(Nat), NEW b \in Seq(Nat)
  PROVE  /\ Len(a) \in Nat /\ Len(b) \in Nat /\ Len(a \o b) = Len(a) + Len(b)
         /\ SubSeq(a \o b, 1, Len(a)) = a
         /\ SubSeq(a \o b, Len(a) + 1, Len(a \o b)) = b
<1> DEFINE s == a \o b
           m == Len(a)
           n == Len(s)
           x == SubSeq(s, 0 + 1, m)
           y == SubSeq(s, m + 1, n)
<1>1. /\ s \in Seq(Nat) /\ m \in Nat /\ Len(b) \in Nat /\ n = m + Len(b) /\ n = Len(s)
      /\ \A k \in 1 .. m : s[k] = a[k]
      /\ \A k \in 1 .. Len(b) : s[m + k] = b[k]
  BY ConcatPlaces
<1> HIDE DEF s, n
<1>2. x \in Seq(Nat) /\ Len(x) = m /\ \A i \in 1 .. m : x[i] = a[i]
  <2>1. 0 \in Nat /\ 0 <= m /\ m <= Len(s) /\ m - 0 = m /\ \A i \in 1 .. m : 0 + i = i
    BY <1>1
  <2> HIDE DEF m
  <2>2. x \in Seq(Nat) /\ Len(x) = m - 0 /\ \A i \in 1 .. m - 0 : x[i] = s[0 + i]
    BY <1>1, <2>1, SubSeqPlaces
  <2> HIDE DEF x
  <2> QED
    BY <1>1, <2>1, <2>2
<1>3. y \in Seq(Nat) /\ Len(y) = Len(b) /\ \A i \in 1 .. Len(b) : y[i] = b[i]
  <2>1. m <= n /\ n <= Len(s) /\ n \in Nat /\ n - m = Len(b)
    BY <1>1
  <2> HIDE DEF m
  <2>2. y \in Seq(Nat) /\ Len(y) = n - m /\ \A i \in 1 .. n - m : y[i] = s[m + i]
    BY <1>1, <2>1, SubSeqPlaces
  <2> HIDE DEF y
  <2> QED
    BY <1>1, <2>1, <2>2
<1>4. x = a
  <2> HIDE DEF x
  <2> QED
    BY <1>2, SeqEqual DEF m
<1>5. y = b
  <2> HIDE DEF y
  <2> QED
    BY <1>3, SeqEqual
<1>6. 0 + 1 = 1
  OBVIOUS
<1> QED
  BY <1>1, <1>4, <1>5, <1>6 DEF m, n, s

(* A text that ends without a blank, and one that begins with blanks. *)
LEMMA TrimmedEnds ==
  ASSUME NEW s \in Seq(Nat), Len(s) > 0
  PROVE  /\ s[Len(s)] \notin Blank => TrimRight(s) = s
         /\ \A u \in 1 .. Len(s) : s[u] \notin Blank /\ (\A i \in 1 .. u - 1 : s[i] \in Blank)
              => TrimLeft(s) = SubSeq(s, u, Len(s))
<1>1. Len(s) \in Nat
  BY LenProperties
<1>2. ASSUME s[Len(s)] \notin Blank PROVE TrimRight(s) = s
  <2>1. Len(s) \in Solid(s) /\ Solid(s) \in SUBSET (0 .. Len(s)) /\ Solid(s) # {}
    BY <1>1, <1>2 DEF Solid
  <2>2. Max(Solid(s)) \in Solid(s) /\ \A i \in Solid(s) : i <= Max(Solid(s))
    BY <1>1, <2>1, GreatestNatural
  <2>3. Max(Solid(s)) = Len(s)
    <3> DEFINE z == Max(Solid(s))
    <3>1. z \in 0 .. Len(s) /\ Len(s) <= z
      BY <2>1, <2>2
    <3> HIDE DEF z
    <3> QED
      BY <1>1, <3>1 DEF z
  <2> QED
    BY <2>1, <2>3, SubSeqFull DEF TrimRight
<1>3. ASSUME NEW u \in 1 .. Len(s), s[u] \notin Blank, \A i \in 1 .. u - 1 : s[i] \in Blank
      PROVE  TrimLeft(s) = SubSeq(s, u, Len(s))
  <2>1. u \in Solid(s) /\ Solid(s) \in SUBSET Nat /\ \A i \in Solid(s) : u <= i
    <3>1. u \in Solid(s) /\ Solid(s) \in SUBSET Nat
      BY <1>3 DEF Solid
    <3>2. ASSUME NEW i \in Solid(s), ~(u <= i) PROVE FALSE
      <4>1. i \in 1 .. u - 1 /\ s[i] \notin Blank
        BY <1>1, <3>2 DEF Solid
      <4> QED
        BY <1>3, <4>1
    <3> QED
      BY <3>1, <3>2
  <2>2. Min(Solid(s)) \in Solid(s) /\ \A i \in Solid(s) : Min(Solid(s)) <= i
    BY <2>1, MinOfNaturals
  <2>3. Min(Solid(s)) = u
    <3> DEFINE z == Min(Solid(s))
    <3>1. z \in Nat /\ z <= u /\ u <= z
      BY <2>1, <2>2
    <3> HIDE DEF z
    <3> QED
      BY <1>1, <3>1 DEF z
  <2> QED
    BY <2>1, <2>3 DEF TrimLeft
<1> QED
  BY <1>2, <1>3

HeaderEntries == [key : Seq(Nat), val : Seq(Nat)]

LEMMA MeantType ==
  ASSUME NEW h \in HeaderTypes
  PROVE  Meant(h) \in Seq(HeaderEntries) /\ Len(Meant(h)) <= 1
<1>1. CRLF \in Seq(Nat)
  BY DEF CRLF, CR, LF
<1>2. CASE h.colon = <<>>
  <2>1. Meant(h) = <<>>
    BY <1>2 DEF Meant
  <2> QED
    BY <2>1
<1>3. CASE h.colon # <<>>
  <2> DEFINE w == (IF h.key \in {<<c>> : c \in LocationSpellings}
                   THEN Each(ItemText, h.items) ELSE Each(ItemBytes, h.items)) \o CRLF
             e == [key |-> h.key, val |-> w]
  <2>1. Meant(h) = <<e>>
    BY <1>3 DEF Meant
  <2>2. w \in Seq(Nat)
    BY <1>1, HeaderParts, ItemTextsType, ItemsBytesType, ConcatProperties
  <2> HIDE DEF w
  <2>3. e \in HeaderEntries
    BY <2>2, HeaderParts DEF HeaderEntries
  <2> HIDE DEF e
  <2> QED
    BY <2>1, <2>3
<1> QED
  BY <1>2, <1>3

(* parse_header finds in a header line with its CR LF what the line means: *)
(* its name, and its value decoded, or as it is for Location; and nothing  *)
(* in a line without a colon.                                              *)
THEOREM HeaderMeant ==
  ASSUME NEW h \in HeaderTypes, HeaderMeansItself(h)
  PROVE  HeaderOf(HeaderLine(h) \o CRLF) = Meant(h)
<1> DEFINE a == h.key
           b == h.colon
           c == h.gap
           d == Each(ItemText, h.items)
           l == HeaderLine(h)
           s == l \o CRLF
<1>1. /\ a \in Seq(Nat) /\ b \in Seq(Nat) /\ c \in Seq(Nat) /\ d \in Seq(Nat) /\ l \in Seq(Nat)
  BY HeaderParts
<1>8. /\ a \in Chars({58}) /\ b \in {<<>>, <<58>>} /\ c \in Seq(Blank) /\ h.items \in Seq(ItemTypes)
  BY HeaderParts
<1>9. CRLF \in Seq(Nat) /\ Len(CRLF) = 2
  BY DEF CRLF, CR, LF
<1>2. /\ CRLF[1] = CR /\ CRLF[2] = LF
      /\ CR \notin Blank /\ LF \notin Blank /\ CR # 58 /\ LF # 58
  BY DEF CRLF, CR, LF, Blank, SP, TAB
<1>3. l = a \o b \o c \o d
  BY DEF HeaderLine
<1> HIDE DEF a, b, c, d, l, s
<1>4. /\ s \in Seq(Nat) /\ Len(l) \in Nat /\ Len(s) = Len(l) + 2
      /\ \A k \in 1 .. Len(l) : s[k] = l[k]
      /\ s[Len(l) + 1] = CR /\ s[Len(l) + 2] = LF
  <2> DEFINE e == CRLF
  <2>1. l \in Seq(Nat) /\ e \in Seq(Nat) /\ Len(e) = 2
    BY <1>1, <1>9
  <2>2. s = l \o e /\ e[1] = CR /\ e[2] = LF
    BY <1>2 DEF s
  <2> HIDE DEF e
  <2>3. /\ Len(l \o e) = Len(l) + 2 /\ l \o e \in Seq(Nat) /\ Len(l) \in Nat
        /\ \A k \in 1 .. Len(l) : (l \o e)[k] = l[k]
        /\ (l \o e)[Len(l) + 1] = e[1] /\ (l \o e)[Len(l) + 2] = e[2]
    BY <2>1, EndedPlaces
  <2> QED
    BY <2>2, <2>3
<1>5. TrimRight(s) = s
  <2>1. Len(s) > 0 /\ s[Len(s)] = LF
    BY <1>4
  <2> QED
    BY <1>2, <1>4, <2>1, TrimmedEnds
<1>6. CASE b = <<>>
  <2>1. ~Contains(l, 58)
    BY <1>6 DEF HeaderMeansItself, b, l
  <2>2. ~Contains(s, 58)
    <3> SUFFICES ASSUME NEW i \in 1 .. Len(s), s[i] = 58 PROVE FALSE
      BY DEF Contains
    <3>1. i \in 1 .. Len(l) \/ i = Len(l) + 1 \/ i = Len(l) + 2
      BY <1>4
    <3> QED
      BY <1>2, <1>4, <2>1, <3>1 DEF Contains
  <2>3. HeaderOf(s) = <<>>
    BY <1>5, <2>2 DEF HeaderOf
  <2> QED
    BY <1>6, <2>3 DEF Meant, b, s, l
<1>7. CASE b = <<58>>
  <2> DEFINE v == d \o CRLF
             r == c \o v
             q == b \o r
             p == Len(a) + 1
  <2>1. /\ v \in Seq(Nat) /\ Len(d) \in Nat /\ Len(v) = Len(d) + 2
        /\ \A k \in 1 .. Len(d) : v[k] = d[k]
        /\ v[Len(d) + 1] = CR /\ v[Len(d) + 2] = LF
    <3>1. /\ v \in Seq(Nat) /\ Len(d) \in Nat /\ Len(v) = Len(d) + 2
          /\ \A k \in 1 .. Len(d) : v[k] = d[k]
          /\ v[Len(d) + 1] = CRLF[1] /\ v[Len(d) + 2] = CRLF[2]
      BY <1>1, <1>9, EndedPlaces
    <3> QED
      BY <1>2, <3>1
  <2> HIDE DEF v
  <2>2. /\ r \in Seq(Nat) /\ Len(c) \in Nat /\ Len(r) = Len(c) + Len(v)
        /\ \A k \in 1 .. Len(c) : r[k] = c[k]
        /\ \A k \in 1 .. Len(v) : r[Len(c) + k] = v[k]
    <3>1. c \in Seq(Nat) /\ v \in Seq(Nat)
      BY <1>1, <2>1
    <3> QED
      BY <3>1, ConcatPlaces
  <2> HIDE DEF r
  <2>3. /\ q \in Seq(Nat) /\ Len(b) = 1 /\ b[1] = 58 /\ Len(q) = Len(b) + Len(r)
        /\ \A k \in 1 .. Len(b) : q[k] = b[k]
        /\ \A k \in 1 .. Len(r) : q[Len(b) + k] = r[k]
    <3>1. Len(b) = 1 /\ b[1] = 58
      BY <1>7
    <3>2. b \in Seq(Nat) /\ r \in Seq(Nat)
      BY <1>1, <2>2
    <3>3. /\ q \in Seq(Nat) /\ Len(q) = Len(b) + Len(r)
          /\ \A k \in 1 .. Len(b) : q[k] = b[k]
          /\ \A k \in 1 .. Len(r) : q[Len(b) + k] = r[k]
      BY <3>2, ConcatPlaces
    <3> QED
      BY <3>1, <3>3
  <2>4. s = a \o q
    <3> DEFINE ab == a \o b
               abc == ab \o c
               e == CRLF
    <3>1. ab \in Seq(Nat) /\ abc \in Seq(Nat) /\ e \in Seq(Nat)
      BY <1>1, <1>9, ConcatProperties
    <3>2. s = (abc \o d) \o e /\ v = d \o e /\ r = c \o v
      BY <1>3 DEF s, v, r
    <3>3. ab \o r = a \o (b \o r)
      BY <1>1, <2>2, ThreeTexts, ZenonT(30)
    <3>4. abc = ab \o c
      OBVIOUS
    <3> HIDE DEF ab, abc, e
    <3>5. (abc \o d) \o e = abc \o (d \o e)
      <4>1. abc \in Seq(Nat) /\ d \in Seq(Nat) /\ e \in Seq(Nat)
        BY <1>1, <3>1
      <4> QED
        BY <4>1, ThreeTexts
    <3>6. (ab \o c) \o v = ab \o (c \o v)
      <4>1. ab \in Seq(Nat) /\ c \in Seq(Nat) /\ v \in Seq(Nat)
        BY <1>1, <2>1, <3>1
      <4> QED
        BY <4>1, ThreeTexts
    <3> QED
      BY <3>2, <3>3, <3>4, <3>5, <3>6
  <2> HIDE DEF q
  <2>5. /\ Len(a) \in Nat /\ Len(q) \in Nat /\ Len(s) = Len(a) + Len(q)
        /\ SubSeq(s, 1, Len(a)) = a /\ SubSeq(s, p, Len(s)) = q
        /\ s[p] = 58 /\ p \in 1 .. Len(s) /\ \A i \in 1 .. Len(a) : s[i] = a[i]
    <3>1. /\ Len(a) \in Nat /\ Len(q) \in Nat /\ Len(s) = Len(a) + Len(q)
          /\ SubSeq(s, 1, Len(a)) = a /\ SubSeq(s, Len(a) + 1, Len(s)) = q
      BY <1>1, <2>3, <2>4, Halves
    <3>2. /\ \A i \in 1 .. Len(a) : s[i] = a[i]
          /\ \A i \in 1 .. Len(q) : s[Len(a) + i] = q[i]
      BY <1>1, <2>3, <2>4, ConcatPlaces
    <3>3. Len(q) = 1 + Len(r) /\ Len(r) \in Nat
      BY <2>2, <2>3, LenProperties
    <3>4. 1 \in 1 .. Len(q) /\ 1 \in 1 .. Len(b) /\ p \in 1 .. Len(s)
      BY <2>3, <3>1, <3>3
    <3>5. s[p] = q[1] /\ q[1] = b[1]
      BY <2>3, <3>2, <3>4
    <3> QED
      BY <2>3, <3>1, <3>2, <3>4, <3>5
  <2>6. \A i \in 1 .. Len(a) : a[i] # 58
    BY <1>8, ElementOfSeq DEF Chars
  <2>7. Contains(s, 58) /\ Before(s, 58) = a /\ After(s, 58) = r
    <3>1. p - 1 = Len(a)
      BY <2>5
    <3>2. \A i \in 1 .. p - 1 : s[i] # 58
      BY <2>5, <2>6, <3>1
    <3>5. s[p] = 58 /\ p \in 1 .. Len(s)
      BY <2>5
    <3> HIDE DEF p
    <3>3. Contains(s, 58) /\ Before(s, 58) = SubSeq(s, 1, p - 1)
          /\ After(s, 58) = SubSeq(s, p + 1, Len(s))
      <4> DEFINE colon == 58
      <4>1. /\ colon \in Nat /\ s \in Seq(Nat) /\ s[p] = colon /\ p \in 1 .. Len(s)
            /\ \A i \in 1 .. p - 1 : s[i] # colon
        BY <1>4, <3>2, <3>5
      <4> HIDE DEF colon
      <4>2. Contains(s, colon) /\ Before(s, colon) = SubSeq(s, 1, p - 1)
            /\ After(s, colon) = SubSeq(s, p + 1, Len(s))
        BY <4>1, BeforeAndAfter
      <4> QED
        BY <4>2 DEF colon
    <3>4. SubSeq(s, p + 1, Len(s)) = r
      <4> DEFINE ab == a \o b
      <4>1. ab \in Seq(Nat) /\ Len(ab) = p /\ s = ab \o r
        <5>1. ab \in Seq(Nat) /\ Len(ab) = Len(a) + Len(b)
          BY <1>1, ConcatProperties
        <5>2. s = (a \o b) \o r
          BY <1>1, <2>2, <2>4, ThreeTexts, ZenonT(30) DEF q
        <5> QED
          BY <2>3, <5>1, <5>2 DEF p
      <4> HIDE DEF ab
      <4>2. SubSeq(ab \o r, Len(ab) + 1, Len(ab \o r)) = r
        BY <2>2, <4>1, Halves
      <4> QED
        BY <4>1, <4>2
    <3> QED
      BY <2>5, <3>1, <3>3, <3>4
  <2>8. TrimLeft(r) = v
    <3> DEFINE u == Len(c) + 1
    <3>1. /\ u \in 1 .. Len(r) /\ Len(r) > 0
          /\ \A i \in 1 .. u - 1 : r[i] \in Blank
      <4>1. \A i \in 1 .. Len(c) : c[i] \in Blank
        BY <1>8, ElementOfSeq
      <4>2. u - 1 = Len(c) /\ u \in 1 .. Len(r) /\ Len(r) > 0
        BY <2>1, <2>2
      <4> QED
        BY <2>2, <4>1, <4>2
    <3>2. r[u] \notin Blank
      <4>1. r[u] = v[1]
        <5>1. 1 \in 1 .. Len(v)
          BY <2>1
        <5> QED
          BY <2>2, <5>1
      <4>2. CASE d = <<>>
        <5>1. Len(d) + 1 = 1
          BY <4>2
        <5> QED
          BY <1>2, <2>1, <4>1, <5>1
      <4>3. CASE d # <<>>
        <5>1. d[1] \notin Blank
          BY <4>3 DEF HeaderMeansItself, d
        <5>2. 1 \in 1 .. Len(d)
          BY <1>1, <2>1, <4>3, EmptySeq
        <5> QED
          BY <2>1, <4>1, <5>1, <5>2
      <4> QED
        BY <4>2, <4>3
    <3>3. TrimLeft(r) = SubSeq(r, u, Len(r))
      <4> HIDE DEF u
      <4> QED
        BY <2>2, <3>1, <3>2, TrimmedEnds
    <3>4. SubSeq(c \o v, Len(c) + 1, Len(c \o v)) = v
      BY <1>1, <2>1, Halves
    <3> QED
      BY <3>3, <3>4 DEF r
  <2>9. v # <<>>
    BY <2>1
  <2>10. HeaderOf(s) = <<[key |-> a,
                          val |-> IF a \in {<<w>> : w \in LocationSpellings} THEN v ELSE DecodeUrl(v)]>>
    BY <1>5, <2>7, <2>8, <2>9 DEF HeaderOf
  <2>11. DecodeUrl(v) = Each(ItemBytes, h.items) \o CRLF
    <3>1. NoStrayEscape(h.items)
      BY DEF HeaderMeansItself
    <3> QED
      BY <1>8, <3>1, DecodedValue DEF v, d
  <2>12. Meant(h) = <<[key |-> a,
                       val |-> (IF a \in {<<w>> : w \in LocationSpellings} THEN d
                                ELSE Each(ItemBytes, h.items)) \o CRLF]>>
    <3>1. b # <<>>
      BY <1>7
    <3> QED
      BY <3>1 DEF Meant, a, b, d
  <2> QED
    BY <2>10, <2>11, <2>12 DEF v, s, l
<1> QED
  BY <1>8, <1>6, <1>7

-----------------------------------------------------------------------------
(***************************************************************************)
(* ParseHttpMsg: the pieces of a request line.                             *)
(***************************************************************************)
Word == Seq(Nat)

Trimmed(s) == TrimLeft(TrimRight(s))

LEMMA TrimmedType ==
  ASSUME NEW s \in Seq(Nat)
  PROVE  Trimmed(s) \in Seq(Nat)
<1>1. \A t \in Seq(Nat) : Len(t) \in Nat /\ Solid(t) \in SUBSET (0 .. Len(t))
                          /\ Solid(t) \in SUBSET (1 .. Len(t))
  BY LenProperties DEF Solid
<1>2. ASSUME NEW t \in Seq(Nat) PROVE TrimRight(t) \in Seq(Nat)
  <2>1. CASE Solid(t) = {}
    BY <2>1, EmptySeq DEF TrimRight
  <2>2. CASE Solid(t) # {}
    <3>1. Max(Solid(t)) \in 1 .. Len(t)
      BY <1>1, <2>2, GreatestNatural
    <3>2. \A i \in 1 .. Max(Solid(t)) : t[i] \in Nat
      <4>1. \A i \in 1 .. Max(Solid(t)) : i \in 1 .. Len(t)
        BY <1>1, <3>1
      <4> QED
        BY <4>1, ElementOfSeq
    <3>3. TrimRight(t) = SubSeq(t, 1, Max(Solid(t))) /\ Max(Solid(t)) \in Int
      BY <2>2, <3>1 DEF TrimRight
    <3> QED
      BY <3>2, <3>3, SubSeqProperties
  <2> QED
    BY <2>1, <2>2
<1>3. ASSUME NEW t \in Seq(Nat) PROVE TrimLeft(t) \in Seq(Nat)
  <2>1. CASE Solid(t) = {}
    BY <2>1, EmptySeq DEF TrimLeft
  <2>2. CASE Solid(t) # {}
    <3>1. Min(Solid(t)) \in 1 .. Len(t)
      <4>1. Solid(t) \in SUBSET Nat
        BY <1>1
      <4> QED
        BY <1>1, <2>2, <4>1, MinOfNaturals
    <3>2. \A i \in Min(Solid(t)) .. Len(t) : t[i] \in Nat
      <4>1. \A i \in Min(Solid(t)) .. Len(t) : i \in 1 .. Len(t)
        BY <1>1, <3>1
      <4> QED
        BY <4>1, ElementOfSeq
    <3>3. TrimLeft(t) = SubSeq(t, Min(Solid(t)), Len(t))
      BY <2>2 DEF TrimLeft
    <3>4. Min(Solid(t)) \in Int /\ Len(t) \in Int
      BY <1>1, <3>1
    <3> QED
      BY <3>2, <3>3, <3>4, SubSeqProperties
  <2> QED
    BY <2>1, <2>2
<1> QED
  BY <1>2, <1>3 DEF Trimmed

(* Where the text before a place begins. *)
From(s, i) == Max({0} \cup {j \in 1 .. i - 1 : s[j] = SP})

LEMMA FromProperties ==
  ASSUME NEW s \in Seq(Nat), NEW i \in 1 .. Len(s) + 1
  PROVE  /\ From(s, i) \in 0 .. i - 1 /\ i - 1 \in Nat /\ i - 1 <= Len(s)
         /\ \A j \in 1 .. i - 1 : s[j] = SP => j <= From(s, i)
         /\ From(s, i) = 0 \/ s[From(s, i)] = SP
<1> DEFINE I == {0} \cup {j \in 1 .. i - 1 : s[j] = SP}
<1>1. Len(s) \in Nat /\ i \in Nat /\ i - 1 \in Nat
  BY LenProperties
<1>2. I \in SUBSET (0 .. i - 1) /\ I # {} /\ \A j \in I : j = 0 \/ s[j] = SP
  BY <1>1
<1>3. \A j \in 1 .. i - 1 : s[j] = SP => j \in I
  OBVIOUS
<1>4. From(s, i) = Max(I)
  BY DEF From
<1> HIDE DEF I
<1>5. Max(I) \in I /\ \A j \in I : j <= Max(I)
  BY <1>1, <1>2, GreatestNatural
<1> DEFINE b == Max(I)
<1>6. b \in 0 .. i - 1 /\ (b = 0 \/ s[b] = SP)
  BY <1>2, <1>5
<1>7. \A j \in 1 .. i - 1 : s[j] = SP => j <= b
  BY <1>3, <1>5
<1>8. i - 1 <= Len(s)
  BY <1>1
<1> HIDE DEF b
<1> QED
  BY <1>1, <1>4, <1>6, <1>7, <1>8 DEF b

PieceEnds(s, i) == i = Len(s) + 1 \/ s[i] = SP

TextBefore(s, i) == SubSeq(s, From(s, i) + 1, i - 1)

LEMMA PieceThere ==
  ASSUME NEW s \in Seq(Nat), NEW i \in 1 .. Len(s) + 1
  PROVE  /\ TextBefore(s, i) \in Seq(Nat) /\ Len(TextBefore(s, i)) = i - 1 - From(s, i)
         /\ \A j \in 1 .. i - 1 - From(s, i) : TextBefore(s, i)[j] = s[From(s, i) + j]
         /\ PieceAt(s, i) = IF PieceEnds(s, i) /\ Trimmed(TextBefore(s, i)) # <<>>
                            THEN <<Trimmed(TextBefore(s, i))>> ELSE <<>>
<1>1. Len(s) \in Nat /\ i \in Nat
  BY LenProperties
<1>2. From(s, i) \in 0 .. i - 1 /\ i - 1 \in Nat /\ i - 1 <= Len(s)
  BY FromProperties
<1>3. /\ TextBefore(s, i) \in Seq(Nat) /\ Len(TextBefore(s, i)) = i - 1 - From(s, i)
      /\ \A j \in 1 .. i - 1 - From(s, i) : TextBefore(s, i)[j] = s[From(s, i) + j]
  <2> DEFINE b == From(s, i)
             e == i - 1
  <2>1. b \in Nat /\ e \in Nat /\ b <= e /\ e <= Len(s)
    BY <1>2
  <2> HIDE DEF b, e
  <2>2. /\ SubSeq(s, b + 1, e) \in Seq(Nat) /\ Len(SubSeq(s, b + 1, e)) = e - b
        /\ \A j \in 1 .. e - b : SubSeq(s, b + 1, e)[j] = s[b + j]
    BY <2>1, SubSeqPlaces
  <2> QED
    BY <2>2 DEF b, e, TextBefore
<1> DEFINE piece == Trimmed(TextBefore(s, i))
<1>4. PieceAt(s, i) = IF (i <= Len(s) /\ s[i] # SP) \/ piece = <<>> THEN <<>> ELSE <<piece>>
  BY DEF PieceAt, TextBefore, From, Trimmed
<1>5. (i <= Len(s) /\ s[i] # SP) <=> ~PieceEnds(s, i)
  <2>1. i <= Len(s) <=> i # Len(s) + 1
    BY <1>1
  <2> QED
    BY <2>1 DEF PieceEnds
<1> HIDE DEF piece
<1>6. PieceAt(s, i) = IF PieceEnds(s, i) /\ piece # <<>> THEN <<piece>> ELSE <<>>
  BY <1>4, <1>5
<1> QED
  BY <1>3, <1>6 DEF piece

PiecesAt(s) == [i \in 1 .. Len(s) + 1 |-> PieceAt(s, i)]

(* The pieces found up to a place. *)
Collected(s, i) == Glued(PiecesAt(s))[i]

LEMMA CollectedStep ==
  ASSUME NEW s \in Seq(Nat)
  PROVE  /\ Len(s) \in Nat
         /\ Collected(s, 0) = <<>> /\ Pieces(s) = Collected(s, Len(s) + 1)
         /\ \A i \in 0 .. Len(s) + 1 : Collected(s, i) \in Seq(Word)
         /\ \A i \in 1 .. Len(s) + 1 :
              PieceAt(s, i) \in Seq(Word) /\ Collected(s, i) = Collected(s, i - 1) \o PieceAt(s, i)
         /\ \A j \in 0 .. Len(s) + 1 : \A i \in 0 .. j :
              /\ Len(Collected(s, i)) \in Nat /\ Len(Collected(s, j)) \in Nat
              /\ Len(Collected(s, i)) <= Len(Collected(s, j))
              /\ \A k \in 1 .. Len(Collected(s, i)) : Collected(s, j)[k] = Collected(s, i)[k]
<1> DEFINE p == PiecesAt(s)
           n == Len(s) + 1
           X == Seq(Word)
<1>1. Len(s) \in Nat /\ n \in Nat
  BY LenProperties
<1>2. \A i \in 1 .. n : PieceAt(s, i) \in X
  <2> SUFFICES ASSUME NEW i \in 1 .. n PROVE PieceAt(s, i) \in X
    OBVIOUS
  <2> DEFINE piece == Trimmed(TextBefore(s, i))
  <2>1. piece \in Word
    BY PieceThere, TrimmedType DEF Word
  <2>2. PieceAt(s, i) = <<piece>> \/ PieceAt(s, i) = <<>>
    BY PieceThere
  <2> HIDE DEF piece
  <2>3. <<piece>> \in Seq(Word) /\ <<>> \in Seq(Word)
    BY <2>1
  <2> QED
    BY <2>2, <2>3
<1>3. p \in [1 .. n -> X] /\ \A i \in 1 .. n : p[i] = PieceAt(s, i)
  BY <1>2 DEF PiecesAt
<1>4. Pieces(s) = FlattenSeq(p)
  BY DEF Pieces, PiecesAt
<1> HIDE DEF p, n, X
<1>5. p \in Seq(X) /\ Len(p) = n
  BY <1>1, <1>3, FunctionIsSeq
<1>6. FlattenSeq(p) = Glued(p)[Len(p)]
  BY <1>5, FlattenSeqIsGlued DEF X
<1>7. Glued(p) \in [0 .. n -> X] /\ Glued(p)[0] = <<>>
      /\ \A i \in 1 .. n : Glued(p)[i] = Glued(p)[i - 1] \o p[i]
  BY <1>5, GluedStep DEF X
<1>8. \A j \in 0 .. n : \A i \in 0 .. j :
        /\ Len(Glued(p)[i]) \in Nat /\ Len(Glued(p)[j]) \in Nat
        /\ Len(Glued(p)[i]) <= Len(Glued(p)[j])
        /\ \A k \in 1 .. Len(Glued(p)[i]) : Glued(p)[j][k] = Glued(p)[i][k]
  <2> SUFFICES ASSUME NEW j \in 0 .. n, NEW i \in 0 .. j
               PROVE  /\ Len(Glued(p)[i]) \in Nat /\ Len(Glued(p)[j]) \in Nat
                      /\ Len(Glued(p)[i]) <= Len(Glued(p)[j])
                      /\ \A k \in 1 .. Len(Glued(p)[i]) : Glued(p)[j][k] = Glued(p)[i][k]
    OBVIOUS
  <2>1. p \in Seq(Seq(Word)) /\ j \in 0 .. Len(p)
    BY <1>5 DEF X
  <2> QED
    BY <2>1, GluedPlaces
<1>9. \A i \in 0 .. n : Glued(p)[i] \in X
  BY <1>7
<1>10. \A i : Collected(s, i) = Glued(p)[i]
  BY DEF Collected, p
<1>11. Pieces(s) = Collected(s, n)
  BY <1>4, <1>5, <1>6, <1>10
<1>12. \A i \in 1 .. n : PieceAt(s, i) \in X /\ Collected(s, i) = Collected(s, i - 1) \o PieceAt(s, i)
  BY <1>2, <1>3, <1>7, <1>10
<1>13. \A i \in 0 .. n : Collected(s, i) \in X
  BY <1>9, <1>10
<1>14. Collected(s, 0) = <<>>
  BY <1>7, <1>10
<1>15. \A j \in 0 .. n : \A i \in 0 .. j :
        /\ Len(Collected(s, i)) \in Nat /\ Len(Collected(s, j)) \in Nat
        /\ Len(Collected(s, i)) <= Len(Collected(s, j))
        /\ \A k \in 1 .. Len(Collected(s, i)) : Collected(s, j)[k] = Collected(s, i)[k]
  BY <1>8, <1>10
<1> QED
  BY <1>1, <1>11, <1>12, <1>13, <1>14, <1>15 DEF n, X

LEMMA PieceOfBlanks ==
  ASSUME NEW s \in Seq(Nat), NEW i \in 1 .. Len(s) + 1, NEW x \in 0 .. i - 1,
         x = 0 \/ s[x] = SP, \A j \in x + 1 .. i - 1 : s[j] \in Blank
  PROVE  PieceAt(s, i) = <<>>
<1> DEFINE b == From(s, i)
           t == TextBefore(s, i)
<1>1. /\ b \in 0 .. i - 1 /\ i - 1 \in Nat
      /\ \A j \in 1 .. i - 1 : s[j] = SP => j <= b
  BY FromProperties
<1>2. t \in Seq(Nat) /\ Len(t) = i - 1 - b /\ \A j \in 1 .. i - 1 - b : t[j] = s[b + j]
  BY PieceThere
<1>3. PieceAt(s, i) = IF PieceEnds(s, i) /\ Trimmed(t) # <<>> THEN <<Trimmed(t)>> ELSE <<>>
  BY PieceThere
<1>4. i \in Nat
  OBVIOUS
<1> HIDE DEF b, t
<1>5. x <= b
  BY <1>1, <1>4
<1>6. ASSUME NEW j \in 1 .. Len(t) PROVE t[j] \in Blank
  <2>1. j \in 1 .. i - 1 - b /\ b + j \in x + 1 .. i - 1
    BY <1>1, <1>2, <1>4, <1>5
  <2> QED
    BY <1>2, <2>1
<1>7. Trimmed(t) = <<>>
  BY <1>2, <1>6, TrimmedBlanks DEF Trimmed
<1> QED
  BY <1>3, <1>7

LEMMA NoPieceInside ==
  ASSUME NEW s \in Seq(Nat), NEW i \in 1 .. Len(s), s[i] # SP
  PROVE  PieceAt(s, i) = <<>>
<1>1. Len(s) \in Nat
  BY LenProperties
<1>2. i \in 1 .. Len(s) + 1 /\ i # Len(s) + 1
  BY <1>1
<1>3. ~PieceEnds(s, i)
  BY <1>2 DEF PieceEnds
<1> QED
  BY <1>2, <1>3, PieceThere

LEMMA PartOfText ==
  \A s \in Seq(Nat) : \A m, n \in Nat : m <= n /\ n <= Len(s) =>
    /\ SubSeq(s, m + 1, n) \in Seq(Nat) /\ Len(SubSeq(s, m + 1, n)) = n - m
    /\ \A i \in 1 .. n - m : SubSeq(s, m + 1, n)[i] = s[m + i]
BY SubSeqPlaces

LEMMA PieceOfWord ==
  ASSUME NEW s \in Seq(Nat), NEW i \in 1 .. Len(s) + 1, PieceEnds(s, i),
         NEW x \in 0 .. i - 1, x = 0 \/ s[x] = SP,
         NEW u \in x + 1 .. i - 1, NEW v \in u .. i - 1, s[u] \notin Blank, s[v] \notin Blank,
         \A j \in x + 1 .. u - 1 : s[j] \in Blank,
         \A j \in u .. i - 1 : s[j] # SP,
         \A j \in v + 1 .. i - 1 : s[j] \in Blank
  PROVE  PieceAt(s, i) = <<SubSeq(s, u, v)>>
<1> DEFINE b == From(s, i)
           t == TextBefore(s, i)
           p == u - b
           q == v - b
<1>1. /\ b \in 0 .. i - 1 /\ i - 1 \in Nat /\ i - 1 <= Len(s)
      /\ \A j \in 1 .. i - 1 : s[j] = SP => j <= b
      /\ b = 0 \/ s[b] = SP
  BY FromProperties
<1>2. t \in Seq(Nat) /\ Len(t) = i - 1 - b /\ \A j \in 1 .. i - 1 - b : t[j] = s[b + j]
  BY PieceThere
<1>3. PieceAt(s, i) = IF PieceEnds(s, i) /\ Trimmed(t) # <<>> THEN <<Trimmed(t)>> ELSE <<>>
  BY PieceThere
<1>4. i \in Nat /\ x \in Nat /\ u \in Nat /\ v \in Nat /\ x < u /\ u <= v /\ v <= i - 1 /\ Len(s) \in Nat
  BY LenProperties
<1> HIDE DEF b, t
<1>5. x <= b /\ b < u
  BY <1>1, <1>4
<1>6. /\ p \in 1 .. Len(t) /\ q \in p .. Len(t) /\ b + p = u /\ b + q = v
      /\ p \in Nat /\ q \in Nat /\ q <= Len(t) /\ p <= q /\ p >= 1
  BY <1>1, <1>2, <1>4, <1>5
<1>7. /\ t[p] \notin Blank /\ t[q] \notin Blank
      /\ \A j \in 1 .. p - 1 : t[j] \in Blank
      /\ \A j \in q + 1 .. Len(t) : t[j] \in Blank
  <2>1. t[p] = s[u] /\ t[q] = s[v]
    BY <1>1, <1>2, <1>4, <1>6, SMTT(30)
  <2>2. ASSUME NEW j \in 1 .. p - 1 PROVE t[j] \in Blank
    <3>1. t[j] = s[b + j] /\ b + j \in x + 1 .. u - 1
      BY <1>1, <1>2, <1>4, <1>5, <1>6
    <3> QED
      BY <3>1
  <2>3. ASSUME NEW j \in q + 1 .. Len(t) PROVE t[j] \in Blank
    <3>1. t[j] = s[b + j] /\ b + j \in v + 1 .. i - 1
      BY <1>1, <1>2, <1>4, <1>5, <1>6
    <3> QED
      BY <3>1
  <2> QED
    BY <2>1, <2>2, <2>3
<1> HIDE DEF p, q
<1>8. Trimmed(t) = SubSeq(t, p, q)
  BY <1>2, <1>6, <1>7, TrimmedWord DEF Trimmed
<1>9. SubSeq(t, p, q) = SubSeq(s, u, v) /\ Len(SubSeq(t, p, q)) # 0
  <2> DEFINE p1 == p - 1
             u1 == u - 1
             n == q - p1
             y == SubSeq(t, p1 + 1, q)
             z == SubSeq(s, u1 + 1, v)
  <2>1. /\ p1 \in Nat /\ u1 \in Nat /\ q \in Nat /\ p1 <= q /\ q <= Len(t) /\ u1 <= v /\ v <= Len(s)
        /\ n = v - u1 /\ p1 + 1 = p /\ u1 + 1 = u /\ b + p1 = u1 /\ n \in Nat /\ n # 0
    BY <1>1, <1>4, <1>6
  <2>2. \A j \in 1 .. n : p1 + j \in 1 .. i - 1 - b /\ b + (p1 + j) = u1 + j
    <3> DEFINE e == i - 1 - b
    <3>1. e \in Nat /\ q <= e /\ b \in Nat /\ u \in Nat /\ p \in Nat /\ q \in Nat /\ b + p = u /\ p >= 1
      BY <1>1, <1>2, <1>4, <1>6
    <3> HIDE DEF e
    <3>2. \A j \in 1 .. n : p1 + j \in 1 .. e /\ b + (p1 + j) = u1 + j
      BY <3>1
    <3> QED
      BY <3>2 DEF e
  <2>3. q - p1 = n
    OBVIOUS
  <2> HIDE DEF p1, u1, n
  <2>4. y \in Seq(Nat) /\ Len(y) = n /\ \A j \in 1 .. n : y[j] = t[p1 + j]
    <3>1. /\ y \in Seq(Nat) /\ Len(y) = q - p1
          /\ \A j \in 1 .. q - p1 : y[j] = t[p1 + j]
      <4>1. t \in Seq(Nat) /\ p1 \in Nat /\ q \in Nat /\ p1 <= q /\ q <= Len(t)
        BY <1>2, <2>1
      <4> HIDE DEF y, z
      <4>2. /\ SubSeq(t, p1 + 1, q) \in Seq(Nat) /\ Len(SubSeq(t, p1 + 1, q)) = q - p1
            /\ \A j \in 1 .. q - p1 : SubSeq(t, p1 + 1, q)[j] = t[p1 + j]
        BY <4>1, PartOfText, Zenon
      <4> QED
        BY <4>2 DEF y
    <3> QED
      BY <2>3, <3>1
  <2>5. z \in Seq(Nat) /\ Len(z) = n /\ \A j \in 1 .. n : z[j] = s[u1 + j]
    <3>1. /\ z \in Seq(Nat) /\ Len(z) = v - u1
          /\ \A j \in 1 .. v - u1 : z[j] = s[u1 + j]
      <4>1. s \in Seq(Nat) /\ u1 \in Nat /\ v \in Nat /\ u1 <= v /\ v <= Len(s)
        BY <1>4, <2>1
      <4> HIDE DEF y, z
      <4>2. /\ SubSeq(s, u1 + 1, v) \in Seq(Nat) /\ Len(SubSeq(s, u1 + 1, v)) = v - u1
            /\ \A j \in 1 .. v - u1 : SubSeq(s, u1 + 1, v)[j] = s[u1 + j]
        BY <4>1, PartOfText, Zenon
      <4> QED
        BY <4>2 DEF z
    <3> QED
      BY <2>1, <3>1
  <2> HIDE DEF y, z
  <2>6. \A j \in 1 .. n : y[j] = z[j]
    <3> SUFFICES ASSUME NEW j \in 1 .. n PROVE y[j] = z[j]
      OBVIOUS
    <3>1. t[p1 + j] = s[b + (p1 + j)]
      BY <1>2, <2>2
    <3>2. y[j] = t[p1 + j] /\ z[j] = s[u1 + j] /\ b + (p1 + j) = u1 + j
      BY <2>2, <2>4, <2>5
    <3> QED
      BY <3>1, <3>2
  <2>7. y = z
    BY <2>4, <2>5, <2>6, SeqEqual
  <2>8. Len(y) # 0
    BY <2>1, <2>4
  <2> QED
    BY <2>1, <2>7, <2>8 DEF y, z
<1>10. SubSeq(t, p, q) # <<>>
  <2> DEFINE y == SubSeq(t, p, q)
  <2>1. Len(<<>>) = 0 /\ Len(y) # 0
    BY <1>9
  <2> HIDE DEF y
  <2>2. y # <<>>
    BY <2>1
  <2> QED
    BY <2>2 DEF y
<1> QED
  BY <1>3, <1>8, <1>9, <1>10

LEMMA LongPiece ==
  ASSUME NEW s \in Seq(Nat), NEW i \in 1 .. Len(s) + 1, PieceEnds(s, i),
         NEW u \in 1 .. i - 1, NEW e \in u .. i - 1, s[u] \notin Blank, s[e] \notin Blank,
         \A j \in u .. i - 1 : s[j] # SP
  PROVE  \E w \in Word : PieceAt(s, i) = <<w>> /\ Len(w) >= e - u + 1
<1> DEFINE b == From(s, i)
           t == TextBefore(s, i)
           S == Solid(t)
           w == Trimmed(t)
<1>1. /\ b \in 0 .. i - 1 /\ i - 1 \in Nat /\ i - 1 <= Len(s)
      /\ b = 0 \/ s[b] = SP
  BY FromProperties
<1>2. t \in Seq(Nat) /\ Len(t) = i - 1 - b /\ \A j \in 1 .. i - 1 - b : t[j] = s[b + j]
  BY PieceThere
<1>3. PieceAt(s, i) = IF PieceEnds(s, i) /\ w # <<>> THEN <<w>> ELSE <<>>
  BY PieceThere
<1>4. i \in Nat /\ u \in Nat /\ e \in Nat /\ u >= 1 /\ u <= e /\ e <= i - 1 /\ Len(s) \in Nat
  BY LenProperties
<1> HIDE DEF b, t
<1>5. b < u
  BY <1>1, <1>4
<1>6. u - b \in S /\ e - b \in S
  <2>1. u - b \in 1 .. Len(t) /\ e - b \in 1 .. Len(t) /\ b + (u - b) = u /\ b + (e - b) = e
    BY <1>1, <1>2, <1>4, <1>5
  <2>2. t[u - b] = s[u] /\ t[e - b] = s[e]
    BY <1>2, <2>1
  <2> QED
    BY <2>1, <2>2 DEF Solid
<1>7. S \in SUBSET (0 .. Len(t)) /\ S \in SUBSET Nat /\ S # {} /\ Len(t) \in Nat
      /\ S \in SUBSET (1 .. Len(t)) /\ \A j \in S : t[j] \notin Blank
  <2>1. Len(t) \in Nat
    BY <1>2, LenProperties
  <2> QED
    BY <1>6, <2>1 DEF Solid
<1>8. \A j \in 1 .. Len(t) : j \notin S => t[j] \in Blank
  BY DEF Solid
<1> HIDE DEF S
<1> DEFINE p == Min(S)
           q == Max(S)
<1>9. p \in S /\ q \in S /\ \A j \in S : p <= j /\ j <= q
  BY <1>7, MinOfNaturals, GreatestNatural
<1> HIDE DEF p, q
<1>10. p \in 1 .. Len(t) /\ q \in p .. Len(t) /\ q - p + 1 >= e - u + 1 /\ p \in Nat /\ q \in Nat
  <2>1. p <= u - b /\ e - b <= q /\ p \in 1 .. Len(t) /\ q \in 1 .. Len(t) /\ p <= q
    BY <1>6, <1>7, <1>9
  <2> QED
    BY <1>1, <1>4, <1>7, <2>1
<1>11. /\ t[p] \notin Blank /\ t[q] \notin Blank
       /\ \A j \in 1 .. p - 1 : t[j] \in Blank
       /\ \A j \in q + 1 .. Len(t) : t[j] \in Blank
  <2>1. ASSUME NEW j \in 1 .. p - 1 PROVE t[j] \in Blank
    <3>1. j \in 1 .. Len(t) /\ ~(p <= j)
      BY <1>7, <1>10
    <3> QED
      BY <1>8, <1>9, <3>1
  <2>2. ASSUME NEW j \in q + 1 .. Len(t) PROVE t[j] \in Blank
    <3>1. j \in 1 .. Len(t) /\ ~(j <= q)
      BY <1>7, <1>10
    <3> QED
      BY <1>8, <1>9, <3>1
  <2> QED
    BY <1>7, <1>9, <2>1, <2>2
<1>12. w = SubSeq(t, p, q)
  BY <1>2, <1>10, <1>11, TrimmedWord DEF Trimmed
<1>13. Len(w) = q - p + 1
  <2>1. \A j \in p .. q : t[j] \in Nat
    <3>1. \A j \in p .. q : j \in 1 .. Len(t)
      BY <1>7, <1>10
    <3> QED
      BY <1>2, <3>1, ElementOfSeq
  <2>2. Len(SubSeq(t, p, q)) = IF p <= q THEN q - p + 1 ELSE 0
    BY <1>10, <2>1, SubSeqProperties
  <2> QED
    BY <1>10, <1>12, <2>2
<1>14. w \in Word
  BY <1>2, TrimmedType DEF Word
<1> HIDE DEF w
<1>15. Len(w) >= e - u + 1 /\ w # <<>>
  <2>1. Len(w) >= 1 /\ Len(<<>>) = 0
    BY <1>10, <1>13
  <2> QED
    BY <1>10, <1>13, <2>1
<1>16. PieceAt(s, i) = <<w>>
  BY <1>3, <1>15
<1> QED
  BY <1>14, <1>15, <1>16

LEMMA QuietRun ==
  ASSUME NEW s \in Seq(Nat), NEW b \in 0 .. Len(s) + 1, NEW a \in 0 .. b,
         \A j \in a + 1 .. b : PieceAt(s, j) = <<>>
  PROVE  Collected(s, b) = Collected(s, a)
<1> DEFINE n == b - a
           D == {k \in 0 .. n : Collected(s, a + k) = Collected(s, a)}
<1>1. Len(s) \in Nat
  BY LenProperties
<1>2. n \in Nat /\ a + n = b /\ a \in Nat /\ b \in Nat /\ b <= Len(s) + 1
  BY <1>1
<1>3. 0 \in D
  BY <1>2
<1>4. ASSUME NEW k \in 1 .. n, k - 1 \in D PROVE k \in D
  <2>1. /\ a + k \in a + 1 .. b /\ a + k \in 1 .. Len(s) + 1 /\ (a + k) - 1 = a + (k - 1)
        /\ k \in 0 .. n /\ a + (k - 1) \in 0 .. Len(s) + 1
    BY <1>1, <1>2
  <2>2. Collected(s, a + k) = Collected(s, (a + k) - 1) \o PieceAt(s, a + k)
    BY <2>1, CollectedStep
  <2>3. PieceAt(s, a + k) = <<>>
    BY <2>1
  <2>4. Collected(s, a + (k - 1)) \in Seq(Word)
    BY <2>1, CollectedStep
  <2>5. Collected(s, a + (k - 1)) \o <<>> = Collected(s, a + (k - 1))
    BY <2>4, ConcatEmptySeq
  <2>6. Collected(s, a + k) = Collected(s, a + (k - 1))
    BY <2>1, <2>2, <2>3, <2>5
  <2> QED
    BY <1>4, <2>1, <2>6
<1> HIDE DEF D
<1>5. 0 .. n \subseteq D
  BY <1>2, <1>3, <1>4, IntervalInduction
<1>6. n \in D
  BY <1>2, <1>5
<1> QED
  BY <1>2, <1>6 DEF D

LEMMA FirstEnd ==
  ASSUME NEW s \in Seq(Nat), NEW v \in 0 .. Len(s)
  PROVE  \E k \in v + 1 .. Len(s) + 1 :
           /\ PieceEnds(s, k)
           /\ \A j \in v + 1 .. k - 1 : s[j] # SP
           /\ \A y \in v + 1 .. Len(s) + 1 : PieceEnds(s, y) => k <= y
<1> DEFINE K == {k \in v + 1 .. Len(s) + 1 : PieceEnds(s, k)}
<1>1. Len(s) \in Nat /\ v \in Nat /\ Len(s) + 1 \in v + 1 .. Len(s) + 1
  BY LenProperties
<1>2. PieceEnds(s, Len(s) + 1)
  BY DEF PieceEnds
<1>3. K # {} /\ K \in SUBSET Nat
  BY <1>1, <1>2
<1>4. PICK k \in K : \A m \in K : k <= m
  <2> HIDE DEF K
  <2> QED
    BY <1>3, LeastNatural
<1>5. ASSUME NEW j \in v + 1 .. k - 1 PROVE s[j] # SP
  <2>1. j \in v + 1 .. Len(s) + 1 /\ ~(k <= j)
    BY <1>1
  <2> QED
    BY <1>4, <2>1 DEF PieceEnds
<1> QED
  BY <1>4, <1>5

(* One word between blanks, from the end of a piece to the end of another. *)
LEMMA WordRegion ==
  ASSUME NEW s \in Seq(Nat), NEW x \in 0 .. Len(s), x = 0 \/ s[x] = SP,
         NEW y \in x + 1 .. Len(s) + 1, PieceEnds(s, y),
         NEW u \in x + 1 .. y - 1, NEW v \in u .. y - 1, s[u] \notin Blank, s[v] \notin Blank,
         \A j \in x + 1 .. u - 1 : s[j] \in Blank,
         \A j \in u .. v : s[j] # SP,
         \A j \in v + 1 .. y - 1 : s[j] \in Blank
  PROVE  Collected(s, y) = Collected(s, x) \o <<SubSeq(s, u, v)>>
<1>1. /\ Len(s) \in Nat /\ x \in Nat /\ u \in Nat /\ v \in Nat /\ y \in Nat
      /\ x < u /\ u <= v /\ v < y /\ y <= Len(s) + 1
  BY LenProperties
<1>2. v \in 0 .. Len(s)
  BY <1>1
<1>3. PICK k \in v + 1 .. Len(s) + 1 :
        /\ PieceEnds(s, k)
        /\ \A j \in v + 1 .. k - 1 : s[j] # SP
        /\ \A z \in v + 1 .. Len(s) + 1 : PieceEnds(s, z) => k <= z
  BY <1>2, FirstEnd
<1>4. k <= y /\ k \in Nat /\ v < k
  BY <1>1, <1>3
<1>5. PieceAt(s, k) = <<SubSeq(s, u, v)>>
  <2>1. /\ k \in 1 .. Len(s) + 1 /\ x \in 0 .. k - 1 /\ u \in x + 1 .. k - 1 /\ v \in u .. k - 1
    BY <1>1, <1>4
  <2>2. \A j \in u .. k - 1 : s[j] # SP
    <3>1. \A j \in u .. k - 1 : j \in u .. v \/ j \in v + 1 .. k - 1
      BY <1>1, <1>4
    <3> QED
      BY <1>3, <3>1
  <2>3. \A j \in v + 1 .. k - 1 : s[j] \in Blank
    BY <1>1, <1>4
  <2> QED
    BY <1>3, <2>1, <2>2, <2>3, PieceOfWord
<1>6. Collected(s, k - 1) = Collected(s, x)
  <2>1. k - 1 \in 0 .. Len(s) + 1 /\ x \in 0 .. k - 1
    BY <1>1, <1>4
  <2>2. ASSUME NEW j \in x + 1 .. k - 1 PROVE PieceAt(s, j) = <<>>
    <3>1. CASE j < u
      <4>1. j \in 1 .. Len(s) + 1 /\ x \in 0 .. j - 1 /\ \A i \in x + 1 .. j - 1 : i \in x + 1 .. u - 1
        BY <1>1, <1>4, <3>1
      <4>2. \A i \in x + 1 .. j - 1 : s[i] \in Blank
        BY <4>1
      <4> QED
        BY <4>1, <4>2, PieceOfBlanks
    <3>2. CASE j >= u
      <4>1. j \in 1 .. Len(s) /\ (j \in u .. v \/ j \in v + 1 .. k - 1)
        BY <1>1, <1>4, <3>2
      <4>2. s[j] # SP
        BY <1>3, <4>1
      <4> QED
        BY <4>1, <4>2, NoPieceInside
    <3> QED
      BY <1>1, <1>4, <3>1, <3>2
  <2> QED
    BY <2>1, <2>2, QuietRun
<1>7. Collected(s, y) = Collected(s, k)
  <2>1. y \in 0 .. Len(s) + 1 /\ k \in 0 .. y
    BY <1>1, <1>4
  <2>2. ASSUME NEW j \in k + 1 .. y PROVE PieceAt(s, j) = <<>>
    <3>1. /\ j \in 1 .. Len(s) + 1 /\ k \in 0 .. j - 1 /\ k # Len(s) + 1
          /\ \A i \in k + 1 .. j - 1 : i \in v + 1 .. y - 1
      BY <1>1, <1>4
    <3>2. s[k] = SP
      BY <1>3, <3>1 DEF PieceEnds
    <3>3. \A i \in k + 1 .. j - 1 : s[i] \in Blank
      BY <3>1
    <3> QED
      BY <3>1, <3>2, <3>3, PieceOfBlanks
  <2> QED
    BY <2>1, <2>2, QuietRun
<1>8. Collected(s, k) = Collected(s, k - 1) \o PieceAt(s, k)
  <2>1. k \in 1 .. Len(s) + 1
    BY <1>1, <1>4
  <2> QED
    BY <2>1, CollectedStep
<1> QED
  BY <1>5, <1>6, <1>7, <1>8

(* What stands behind a word and is not blank becomes part of its piece,   *)
(* or a piece of its own.                                                  *)
LEMMA MoreThanAWord ==
  ASSUME NEW s \in Seq(Nat), NEW x \in 0 .. Len(s), x = 0 \/ s[x] = SP,
         NEW u \in x + 1 .. Len(s), NEW v \in u .. Len(s), NEW e \in v + 1 .. Len(s),
         s[u] \notin Blank, s[e] \notin Blank,
         \A j \in x + 1 .. u - 1 : s[j] \in Blank,
         \A j \in u .. v : s[j] # SP
  PROVE  LET n == Len(Collected(s, x))
             p == Pieces(s)
         IN n \in Nat /\ (Len(p) >= n + 2 \/ (Len(p) >= n + 1 /\ Len(p[n + 1]) >= 2))
<1> DEFINE n == Len(Collected(s, x))
           p == Pieces(s)
           N == Len(s) + 1
<1>1. /\ Len(s) \in Nat /\ x \in Nat /\ u \in Nat /\ v \in Nat /\ e \in Nat /\ x < u /\ u <= v /\ v < e
      /\ e <= Len(s) /\ N \in Nat
  BY LenProperties
<1>2. n \in Nat /\ p = Collected(s, N)
  <2>1. x \in 0 .. N /\ x \in 0 .. x
    BY <1>1
  <2> QED
    BY <2>1, CollectedStep
<1>3. ASSUME NEW k \in 1 .. N, NEW w \in Word, PieceAt(s, k) = <<w>>
      PROVE  /\ Len(Collected(s, k)) = Len(Collected(s, k - 1)) + 1 /\ Len(Collected(s, k - 1)) \in Nat
             /\ Collected(s, k)[Len(Collected(s, k - 1)) + 1] = w
  <2> DEFINE g == Collected(s, k - 1)
             f == <<w>>
  <2>1. g \in Seq(Word) /\ Collected(s, k) = g \o PieceAt(s, k)
    <3>1. k \in 1 .. Len(s) + 1 /\ k - 1 \in 0 .. Len(s) + 1
      BY <1>1
    <3> QED
      BY <3>1, CollectedStep
  <2>2. f \in Seq(Word) /\ Len(f) = 1 /\ f[1] = w
    OBVIOUS
  <2>3. Collected(s, k) = g \o f
    BY <1>3, <2>1
  <2> HIDE DEF g, f
  <2>4. Len(g) \in Nat /\ Len(g \o f) = Len(g) + Len(f) /\ \A i \in 1 .. Len(f) : (g \o f)[Len(g) + i] = f[i]
    <3>1. g \in Seq(Word) /\ f \in Seq(Word)
      BY <2>1, <2>2
    <3> QED
      BY <3>1, ConcatPlaces
  <2>5. 1 \in 1 .. Len(f)
    BY <2>2
  <2> QED
    BY <2>2, <2>3, <2>4, <2>5 DEF g
<1>4. ASSUME NEW j \in 0 .. N, NEW i \in 0 .. j
      PROVE  /\ Len(Collected(s, i)) \in Nat /\ Len(Collected(s, j)) \in Nat
             /\ Len(Collected(s, i)) <= Len(Collected(s, j))
             /\ \A k \in 1 .. Len(Collected(s, i)) : Collected(s, j)[k] = Collected(s, i)[k]
  <2>1. j \in 0 .. Len(s) + 1
    OBVIOUS
  <2> QED
    BY <2>1, CollectedStep
<1> HIDE DEF N, p, n
<1>5. CASE \A j \in v + 1 .. e : s[j] # SP
  <2>1. PICK k \in e + 1 .. N :
          /\ PieceEnds(s, k)
          /\ \A j \in e + 1 .. k - 1 : s[j] # SP
    <3>1. e \in 0 .. Len(s)
      BY <1>1
    <3> QED
      BY <3>1, FirstEnd DEF N
  <2>2. k \in Nat /\ e < k /\ k <= Len(s) + 1 /\ k \in 1 .. N
    BY <1>1 DEF N
  <2>3. PICK w \in Word : PieceAt(s, k) = <<w>> /\ Len(w) >= e - u + 1
    <3>1. k \in 1 .. Len(s) + 1 /\ u \in 1 .. k - 1 /\ e \in u .. k - 1
      BY <1>1, <2>2
    <3>2. \A j \in u .. k - 1 : s[j] # SP
      <4>1. \A j \in u .. k - 1 : j \in u .. v \/ j \in v + 1 .. e \/ j \in e + 1 .. k - 1
        BY <1>1, <2>2
      <4> QED
        BY <1>5, <2>1, <4>1
    <3> QED
      BY <2>1, <3>1, <3>2, LongPiece
  <2>4. Collected(s, k - 1) = Collected(s, x)
    <3>1. k - 1 \in 0 .. Len(s) + 1 /\ x \in 0 .. k - 1
      BY <1>1, <2>2
    <3>2. ASSUME NEW j \in x + 1 .. k - 1 PROVE PieceAt(s, j) = <<>>
      <4>1. CASE j < u
        <5>1. j \in 1 .. Len(s) + 1 /\ x \in 0 .. j - 1 /\ \A i \in x + 1 .. j - 1 : i \in x + 1 .. u - 1
          BY <1>1, <2>2, <4>1
        <5>2. \A i \in x + 1 .. j - 1 : s[i] \in Blank
          BY <5>1
        <5> QED
          BY <5>1, <5>2, PieceOfBlanks
      <4>2. CASE j >= u
        <5>1. j \in 1 .. Len(s) /\ (j \in u .. v \/ j \in v + 1 .. e \/ j \in e + 1 .. k - 1)
          BY <1>1, <2>2, <4>2
        <5>2. s[j] # SP
          BY <1>5, <2>1, <5>1
        <5> QED
          BY <5>1, <5>2, NoPieceInside
      <4> QED
        BY <1>1, <2>2, <4>1, <4>2
    <3> QED
      BY <3>1, <3>2, QuietRun
  <2>5. Len(Collected(s, k)) = n + 1 /\ Collected(s, k)[n + 1] = w
    BY <1>3, <2>2, <2>3, <2>4 DEF n
  <2>6. /\ Len(Collected(s, k)) <= Len(p) /\ Len(p) \in Nat
        /\ \A i \in 1 .. Len(Collected(s, k)) : p[i] = Collected(s, k)[i]
    <3>1. N \in 0 .. N /\ k \in 0 .. N
      BY <1>1, <2>2
    <3> QED
      BY <1>2, <1>4, <3>1
  <2>7. n + 1 \in 1 .. n + 1
    BY <1>2
  <2>8. Len(p) >= n + 1 /\ p[n + 1] = w
    BY <1>2, <2>5, <2>6, <2>7
  <2>9. Len(w) >= 2
    <3> DEFINE l == Len(w)
    <3>1. l \in Nat /\ l >= e - u + 1
      BY <2>3, LenProperties DEF Word
    <3> HIDE DEF l
    <3>2. l >= 2
      BY <1>1, <3>1
    <3> QED
      BY <3>2 DEF l
  <2> QED
    BY <1>2, <2>8, <2>9 DEF n, p
<1>6. CASE \E j \in v + 1 .. e : s[j] = SP
  <2>1. PICK h \in v + 1 .. e : s[h] = SP
    BY <1>6
  <2>2. h \in Nat /\ v < h /\ h <= e
    BY <1>1
  <2>3. h # e
    BY <2>1 DEF Blank
  <2>4. PICK k \in v + 1 .. N :
          /\ PieceEnds(s, k)
          /\ \A j \in v + 1 .. k - 1 : s[j] # SP
          /\ \A y \in v + 1 .. N : PieceEnds(s, y) => k <= y
    <3>1. v \in 0 .. Len(s)
      BY <1>1
    <3> QED
      BY <3>1, FirstEnd DEF N
  <2>5. k <= h /\ k \in Nat /\ v < k
    <3>1. h \in v + 1 .. N
      BY <1>1, <2>2 DEF N
    <3>2. PieceEnds(s, h)
      BY <2>1 DEF PieceEnds
    <3> QED
      BY <1>1, <2>4, <3>1, <3>2
  <2>6. \E w \in Word : PieceAt(s, k) = <<w>>
    <3>1. k \in 1 .. Len(s) + 1 /\ u \in 1 .. k - 1 /\ u \in u .. k - 1
      BY <1>1, <2>2, <2>5
    <3>2. \A j \in u .. k - 1 : s[j] # SP
      <4>1. \A j \in u .. k - 1 : j \in u .. v \/ j \in v + 1 .. k - 1
        BY <1>1, <2>5
      <4> QED
        BY <2>4, <4>1
    <3> QED
      BY <2>4, <3>1, <3>2, LongPiece
  <2>7. PICK m \in e + 1 .. N :
          /\ PieceEnds(s, m)
          /\ \A j \in e + 1 .. m - 1 : s[j] # SP
    <3>1. e \in 0 .. Len(s)
      BY <1>1
    <3> QED
      BY <3>1, FirstEnd DEF N
  <2>8. m \in Nat /\ e < m /\ m <= Len(s) + 1
    BY <1>1 DEF N
  <2>9. \E w \in Word : PieceAt(s, m) = <<w>>
    <3>1. m \in 1 .. Len(s) + 1 /\ e \in 1 .. m - 1 /\ e \in e .. m - 1
      BY <1>1, <2>8
    <3>2. s[e] # SP
      BY DEF Blank
    <3>3. \A j \in e .. m - 1 : s[j] # SP
      <4>1. \A j \in e .. m - 1 : j = e \/ j \in e + 1 .. m - 1
        BY <1>1, <2>8
      <4> QED
        BY <2>7, <3>2, <4>1
    <3> QED
      BY <2>7, <3>1, <3>3, LongPiece
  <2>10. /\ Len(Collected(s, k)) = Len(Collected(s, k - 1)) + 1
         /\ Len(Collected(s, m)) = Len(Collected(s, m - 1)) + 1
    <3>1. k \in 1 .. N /\ m \in 1 .. N
      BY <1>1, <2>2, <2>5, <2>8 DEF N
    <3> QED
      BY <1>3, <2>6, <2>9, <3>1
  <2>11. /\ n <= Len(Collected(s, k - 1)) /\ Len(Collected(s, k)) <= Len(Collected(s, m - 1))
         /\ Len(Collected(s, m)) <= Len(p)
         /\ Len(Collected(s, k - 1)) \in Nat /\ Len(Collected(s, m - 1)) \in Nat /\ Len(p) \in Nat
    <3>1. /\ k - 1 \in 0 .. N /\ x \in 0 .. k - 1 /\ m - 1 \in 0 .. N /\ k \in 0 .. m - 1
          /\ N \in 0 .. N /\ m \in 0 .. N
      BY <1>1, <2>2, <2>3, <2>5, <2>8 DEF N
    <3> QED
      BY <1>2, <1>4, <3>1 DEF n
  <2> DEFINE a == Len(Collected(s, k - 1))
             b == Len(Collected(s, m - 1))
             c == Len(p)
  <2>12. a \in Nat /\ b \in Nat /\ c \in Nat /\ n <= a /\ a + 1 <= b /\ b + 1 <= c
    BY <2>10, <2>11
  <2> HIDE DEF a, b, c
  <2>13. c >= n + 2
    BY <1>2, <2>12
  <2> QED
    BY <1>2, <2>13 DEF c, n, p
<1> QED
  BY <1>5, <1>6 DEF n, p

(* Where the parts of a request line stand. *)
Target(m) == m.path \o m.fragment
GapAt(m) == Len(m.method)
TargetAt(m) == GapAt(m) + Len(m.gap)
SecondGapAt(m) == TargetAt(m) + Len(Target(m))
VersionAt(m) == SecondGapAt(m) + Len(m.gap)
RestAt(m) == VersionAt(m) + Len(m.version)

LEMMA StartLinePlaces ==
  ASSUME NEW m \in Messages
  PROVE  /\ GapAt(m) \in Nat /\ TargetAt(m) \in Nat /\ SecondGapAt(m) \in Nat /\ VersionAt(m) \in Nat
         /\ RestAt(m) \in Nat /\ Len(StartLine(m)) \in Nat
         /\ Len(m.method) \in Nat /\ Len(m.gap) \in Nat /\ Len(Target(m)) \in Nat
         /\ Len(m.version) \in Nat /\ Len(m.rest) \in Nat
         /\ Len(StartLine(m)) = RestAt(m) + Len(m.rest)
         /\ \A k \in 1 .. Len(m.method) : StartLine(m)[k] = m.method[k]
         /\ \A k \in 1 .. Len(m.gap) : StartLine(m)[GapAt(m) + k] = m.gap[k]
         /\ \A k \in 1 .. Len(Target(m)) : StartLine(m)[TargetAt(m) + k] = Target(m)[k]
         /\ \A k \in 1 .. Len(m.gap) : StartLine(m)[SecondGapAt(m) + k] = m.gap[k]
         /\ \A k \in 1 .. Len(m.version) : StartLine(m)[VersionAt(m) + k] = m.version[k]
         /\ \A k \in 1 .. Len(m.rest) : StartLine(m)[RestAt(m) + k] = m.rest[k]
<1> DEFINE a == m.method
           g == m.gap
           t == Target(m)
           f == m.version
           r == m.rest
           s1 == a \o g
           s2 == s1 \o t
           s3 == s2 \o g
           s4 == s3 \o f
           s5 == s4 \o r
           o1 == Len(a)
           o2 == o1 + Len(g)
           o3 == o2 + Len(t)
           o4 == o3 + Len(g)
           o5 == o4 + Len(f)
<1>1. a \in Seq(Nat) /\ g \in Seq(Nat) /\ f \in Seq(Nat) /\ r \in Seq(Nat)
      /\ m.path \in Seq(Nat) /\ m.fragment \in Seq(Nat)
  BY MessageParts
<1>2. t \in Seq(Nat)
  BY <1>1, ConcatProperties DEF Target
<1> HIDE DEF a, g, t, f, r
<1>3. /\ s1 \in Seq(Nat) /\ Len(a) \in Nat /\ Len(g) \in Nat /\ Len(s1) = Len(a) + Len(g)
      /\ \A k \in 1 .. Len(a) : s1[k] = a[k]
      /\ \A k \in 1 .. Len(g) : s1[Len(a) + k] = g[k]
  BY <1>1, ConcatPlaces
<1>4. StartLine(m) = s5
  <2>1. StartLine(m) = s1 \o m.path \o m.fragment \o g \o f \o r
    BY DEF StartLine, a, g, f, r
  <2> DEFINE x == s1
             c == m.path
             d == m.fragment
  <2>2. x \in Seq(Nat) /\ c \in Seq(Nat) /\ d \in Seq(Nat)
    BY <1>1, <1>3
  <2>3. t = c \o d
    BY DEF t, Target
  <2>4. StartLine(m) = (((x \o c) \o d) \o g) \o f \o r /\ s5 = ((x \o t) \o g) \o f \o r
    BY <2>1
  <2> HIDE DEF x, c, d, s5
  <2>5. (x \o c) \o d = x \o (c \o d)
    BY <2>2, ThreeTexts
  <2> QED
    BY <2>3, <2>4, <2>5
<1> HIDE DEF s1
<1>5. /\ s2 \in Seq(Nat) /\ Len(t) \in Nat /\ Len(s2) = Len(s1) + Len(t)
      /\ \A k \in 1 .. Len(s1) : s2[k] = s1[k]
      /\ \A k \in 1 .. Len(t) : s2[Len(s1) + k] = t[k]
  <2>1. s1 \in Seq(Nat) /\ t \in Seq(Nat)
    BY <1>2, <1>3
  <2> QED
    BY <2>1, ConcatPlaces
<1> HIDE DEF s2
<1>6. /\ s3 \in Seq(Nat) /\ Len(s3) = Len(s2) + Len(g)
      /\ \A k \in 1 .. Len(s2) : s3[k] = s2[k]
      /\ \A k \in 1 .. Len(g) : s3[Len(s2) + k] = g[k]
  <2>1. s2 \in Seq(Nat) /\ g \in Seq(Nat)
    BY <1>1, <1>5
  <2> QED
    BY <2>1, ConcatPlaces
<1> HIDE DEF s3
<1>7. /\ s4 \in Seq(Nat) /\ Len(f) \in Nat /\ Len(s4) = Len(s3) + Len(f)
      /\ \A k \in 1 .. Len(s3) : s4[k] = s3[k]
      /\ \A k \in 1 .. Len(f) : s4[Len(s3) + k] = f[k]
  <2>1. s3 \in Seq(Nat) /\ f \in Seq(Nat)
    BY <1>1, <1>6
  <2> QED
    BY <2>1, ConcatPlaces
<1> HIDE DEF s4
<1>8. /\ s5 \in Seq(Nat) /\ Len(r) \in Nat /\ Len(s5) = Len(s4) + Len(r)
      /\ \A k \in 1 .. Len(s4) : s5[k] = s4[k]
      /\ \A k \in 1 .. Len(r) : s5[Len(s4) + k] = r[k]
  <2>1. s4 \in Seq(Nat) /\ r \in Seq(Nat)
    BY <1>1, <1>7
  <2> QED
    BY <2>1, ConcatPlaces
<1> HIDE DEF s5
<1>9. /\ o1 \in Nat /\ o2 \in Nat /\ o3 \in Nat /\ o4 \in Nat /\ o5 \in Nat
      /\ o1 <= o2 /\ o2 <= o3 /\ o3 <= o4 /\ o4 <= o5
      /\ o1 = Len(a) /\ o2 = Len(s1) /\ o3 = Len(s2) /\ o4 = Len(s3) /\ o5 = Len(s4)
      /\ o2 = o1 + Len(g) /\ o3 = o2 + Len(t) /\ o4 = o3 + Len(g) /\ o5 = o4 + Len(f)
  BY <1>3, <1>5, <1>6, <1>7
<1>10. GapAt(m) = o1 /\ TargetAt(m) = o2 /\ SecondGapAt(m) = o3 /\ VersionAt(m) = o4 /\ RestAt(m) = o5
  BY DEF GapAt, TargetAt, SecondGapAt, VersionAt, RestAt, a, g, t, f
<1> HIDE DEF o1, o2, o3, o4, o5
<1>11. /\ \A k \in 1 .. o4 : s5[k] = s3[k]
       /\ \A k \in 1 .. o3 : s5[k] = s2[k]
       /\ \A k \in 1 .. o2 : s5[k] = s1[k]
       /\ \A k \in 1 .. o1 : s5[k] = a[k]
  <2>3. \A k \in 1 .. o4 : s5[k] = s3[k]
    <3>1. \A k \in 1 .. o4 : k \in 1 .. o5
      BY <1>9
    <3> QED
      BY <1>7, <1>8, <1>9, <3>1
  <2>4. \A k \in 1 .. o3 : s5[k] = s2[k]
    <3>1. \A k \in 1 .. o3 : k \in 1 .. o4
      BY <1>9
    <3> QED
      BY <1>6, <1>9, <2>3, <3>1
  <2>5. \A k \in 1 .. o2 : s5[k] = s1[k]
    <3>1. \A k \in 1 .. o2 : k \in 1 .. o3
      BY <1>9
    <3> QED
      BY <1>5, <1>9, <2>4, <3>1
  <2>6. \A k \in 1 .. o1 : s5[k] = a[k]
    <3>1. \A k \in 1 .. o1 : k \in 1 .. o2
      BY <1>9
    <3> QED
      BY <1>3, <1>9, <2>5, <3>1
  <2> QED
    BY <2>3, <2>4, <2>5, <2>6
<1>12. /\ \A k \in 1 .. Len(g) : s5[o1 + k] = g[k]
       /\ \A k \in 1 .. Len(t) : s5[o2 + k] = t[k]
       /\ \A k \in 1 .. Len(g) : s5[o3 + k] = g[k]
       /\ \A k \in 1 .. Len(f) : s5[o4 + k] = f[k]
       /\ \A k \in 1 .. Len(r) : s5[o5 + k] = r[k]
  <2>1. ASSUME NEW k \in 1 .. Len(g) PROVE s5[o1 + k] = g[k]
    <3>1. o1 + k \in 1 .. o2
      BY <1>3, <1>9
    <3> QED
      BY <1>3, <1>9, <1>11, <3>1
  <2>2. ASSUME NEW k \in 1 .. Len(t) PROVE s5[o2 + k] = t[k]
    <3>1. o2 + k \in 1 .. o3
      BY <1>5, <1>9
    <3> QED
      BY <1>5, <1>9, <1>11, <3>1
  <2>3. ASSUME NEW k \in 1 .. Len(g) PROVE s5[o3 + k] = g[k]
    <3>1. o3 + k \in 1 .. o4
      BY <1>3, <1>9
    <3> QED
      BY <1>6, <1>9, <1>11, <3>1
  <2>4. ASSUME NEW k \in 1 .. Len(f) PROVE s5[o4 + k] = f[k]
    <3>1. o4 + k \in 1 .. o5
      BY <1>7, <1>9
    <3> QED
      BY <1>7, <1>8, <1>9, <3>1
  <2>5. ASSUME NEW k \in 1 .. Len(r) PROVE s5[o5 + k] = r[k]
    BY <1>8, <1>9
  <2> QED
    BY <2>1, <2>2, <2>3, <2>4, <2>5
<1>13. Len(s5) \in Nat /\ Len(s5) = o5 + Len(r)
  BY <1>8, <1>9
<1> QED
  BY <1>3, <1>4, <1>5, <1>7, <1>8, <1>9, <1>10, <1>11, <1>12, <1>13, ZenonT(30) DEF a, g, t, f, r

(* Which of them are blank. *)
LEMMA StartLineRegions ==
  ASSUME NEW m \in Messages
  PROVE  /\ \A k \in 1 .. GapAt(m) : StartLine(m)[k] \notin Blank
         /\ \A k \in GapAt(m) + 1 .. TargetAt(m) : StartLine(m)[k] \in Blank
         /\ \A k \in TargetAt(m) + 1 .. SecondGapAt(m) : StartLine(m)[k] \notin Blank
         /\ \A k \in SecondGapAt(m) + 1 .. VersionAt(m) : StartLine(m)[k] \in Blank
         /\ \A k \in VersionAt(m) + 1 .. RestAt(m) : StartLine(m)[k] \notin Blank
         /\ Solid(m.rest) = {} =>
              \A k \in RestAt(m) + 1 .. Len(StartLine(m)) : StartLine(m)[k] \in Blank
         /\ Solid(m.rest) # {} =>
              \E k \in RestAt(m) + 1 .. Len(StartLine(m)) : StartLine(m)[k] \notin Blank
         /\ GapAt(m) >= 1 /\ RestAt(m) >= VersionAt(m) + 1
<1> DEFINE s == StartLine(m)
           a == m.method
           g == m.gap
           t == Target(m)
           f == m.version
           r == m.rest
           o1 == GapAt(m)
           o2 == TargetAt(m)
           o3 == SecondGapAt(m)
           o4 == VersionAt(m)
           o5 == RestAt(m)
<1>1. /\ o1 \in Nat /\ o2 \in Nat /\ o3 \in Nat /\ o4 \in Nat /\ o5 \in Nat /\ Len(s) \in Nat
      /\ Len(a) \in Nat /\ Len(g) \in Nat /\ Len(t) \in Nat /\ Len(f) \in Nat /\ Len(r) \in Nat
      /\ Len(s) = o5 + Len(r)
      /\ \A k \in 1 .. Len(a) : s[k] = a[k]
      /\ \A k \in 1 .. Len(g) : s[o1 + k] = g[k]
      /\ \A k \in 1 .. Len(t) : s[o2 + k] = t[k]
      /\ \A k \in 1 .. Len(g) : s[o3 + k] = g[k]
      /\ \A k \in 1 .. Len(f) : s[o4 + k] = f[k]
      /\ \A k \in 1 .. Len(r) : s[o5 + k] = r[k]
  BY StartLinePlaces
<1>2. o1 = Len(a) /\ o2 = o1 + Len(g) /\ o3 = o2 + Len(t) /\ o4 = o3 + Len(g) /\ o5 = o4 + Len(f)
  BY DEF GapAt, TargetAt, SecondGapAt, VersionAt, RestAt
<1>3. /\ a \in Seq(Nat \ Blank) /\ f \in Seq(Nat \ Blank) /\ g \in Seq(Blank)
      /\ a # <<>> /\ f # <<>>
  BY MessagesAssumption DEF StartLineMeansItself, Chars
<1>4. t \in Seq(Nat \ Blank)
  <2>1. m.path \in Seq(Nat \ (Blank \cup {35})) /\ m.fragment \in Seq(Nat \ Blank)
    BY MessagesAssumption DEF StartLineMeansItself, Chars
  <2>2. m.path \in Seq(Nat \ Blank)
    BY <2>1, SeqMonotonic
  <2> QED
    BY <2>1, <2>2, ConcatProperties DEF Target
<1>5. /\ \A k \in 1 .. Len(a) : a[k] \notin Blank
      /\ \A k \in 1 .. Len(g) : g[k] \in Blank
      /\ \A k \in 1 .. Len(t) : t[k] \notin Blank
      /\ \A k \in 1 .. Len(f) : f[k] \notin Blank
  <2>1. \A k \in 1 .. Len(a) : a[k] \notin Blank
    BY <1>3, ElementOfSeq
  <2>2. \A k \in 1 .. Len(g) : g[k] \in Blank
    BY <1>3, ElementOfSeq
  <2>3. \A k \in 1 .. Len(t) : t[k] \notin Blank
    BY <1>4, ElementOfSeq
  <2>4. \A k \in 1 .. Len(f) : f[k] \notin Blank
    BY <1>3, ElementOfSeq
  <2> QED
    BY <2>1, <2>2, <2>3, <2>4
<1>6. Len(a) >= 1 /\ Len(f) >= 1
  BY <1>3, EmptySeq
<1>7. /\ Solid(r) = {} => \A k \in 1 .. Len(r) : r[k] \in Blank
      /\ Solid(r) # {} => \E k \in 1 .. Len(r) : r[k] \notin Blank
  BY DEF Solid
<1> HIDE DEF s, a, g, t, f, r, o1, o2, o3, o4, o5
<1>8. ASSUME NEW k \in o1 + 1 .. o2 PROVE s[k] \in Blank
  <2>1. k - o1 \in 1 .. Len(g) /\ o1 + (k - o1) = k
    BY <1>1, <1>2
  <2> QED
    BY <1>1, <1>5, <2>1, ZenonT(30)
<1>9. ASSUME NEW k \in o2 + 1 .. o3 PROVE s[k] \notin Blank
  <2>1. k - o2 \in 1 .. Len(t) /\ o2 + (k - o2) = k
    BY <1>1, <1>2
  <2> QED
    BY <1>1, <1>5, <2>1
<1>10. ASSUME NEW k \in o3 + 1 .. o4 PROVE s[k] \in Blank
  <2>1. k - o3 \in 1 .. Len(g) /\ o3 + (k - o3) = k
    BY <1>1, <1>2
  <2> QED
    BY <1>1, <1>5, <2>1, ZenonT(30)
<1>11. ASSUME NEW k \in o4 + 1 .. o5 PROVE s[k] \notin Blank
  <2>1. k - o4 \in 1 .. Len(f) /\ o4 + (k - o4) = k
    BY <1>1, <1>2
  <2> QED
    BY <1>1, <1>5, <2>1
<1>12. ASSUME Solid(r) = {}, NEW k \in o5 + 1 .. Len(s) PROVE s[k] \in Blank
  <2>1. k - o5 \in 1 .. Len(r) /\ o5 + (k - o5) = k
    BY <1>1
  <2> QED
    BY <1>1, <1>7, <1>12, <2>1
<1>13. ASSUME Solid(r) # {} PROVE \E k \in o5 + 1 .. Len(s) : s[k] \notin Blank
  <2>1. PICK i \in 1 .. Len(r) : r[i] \notin Blank
    BY <1>7, <1>13
  <2>2. o5 + i \in o5 + 1 .. Len(s) /\ s[o5 + i] = r[i]
    BY <1>1
  <2> QED
    BY <2>1, <2>2
<1>14. o1 >= 1 /\ o5 >= o4 + 1
  BY <1>1, <1>2, <1>6
<1>15. \A k \in 1 .. o1 : s[k] \notin Blank
  BY <1>1, <1>2, <1>5
<1> QED
  BY <1>8, <1>9, <1>10, <1>11, <1>12, <1>13, <1>14, <1>15 DEF s, r, o1, o2, o3, o4, o5

LEMMA StartLineWords ==
  ASSUME NEW m \in Messages
  PROVE  /\ SubSeq(StartLine(m), 1, GapAt(m)) = m.method
         /\ SubSeq(StartLine(m), TargetAt(m) + 1, SecondGapAt(m)) = Target(m)
         /\ SubSeq(StartLine(m), VersionAt(m) + 1, RestAt(m)) = m.version
<1>1. /\ StartLine(m) \in Seq(Nat) /\ m.method \in Seq(Nat) /\ m.version \in Seq(Nat)
      /\ m.path \in Seq(Nat) /\ m.fragment \in Seq(Nat)
  BY MessageParts
<1>2. Target(m) \in Seq(Nat)
  BY <1>1, ConcatProperties DEF Target
<1>3. ASSUME NEW s \in Seq(Nat), NEW w \in Seq(Nat), NEW p \in Nat, p + Len(w) <= Len(s),
             \A k \in 1 .. Len(w) : s[p + k] = w[k]
      PROVE  SubSeq(s, p + 1, p + Len(w)) = w
  <2> DEFINE n == p + Len(w)
             y == SubSeq(s, p + 1, n)
  <2>1. Len(w) \in Nat /\ n \in Nat /\ p <= n /\ n <= Len(s) /\ n - p = Len(w)
    BY <1>3, LenProperties
  <2> HIDE DEF n
  <2>2. /\ SubSeq(s, p + 1, n) \in Seq(Nat) /\ Len(SubSeq(s, p + 1, n)) = n - p
        /\ \A i \in 1 .. n - p : SubSeq(s, p + 1, n)[i] = s[p + i]
    BY <2>1, PartOfText, Zenon
  <2>3. y \in Seq(Nat) /\ Len(y) = Len(w) /\ \A i \in 1 .. Len(w) : y[i] = w[i]
    <3>1. y \in Seq(Nat) /\ Len(y) = n - p /\ \A i \in 1 .. n - p : y[i] = s[p + i]
      BY <2>2
    <3> HIDE DEF y
    <3> QED
      BY <1>3, <2>1, <3>1
  <2> HIDE DEF y
  <2>4. y = w
    BY <2>3, SeqEqual
  <2> QED
    BY <2>4 DEF y, n
<1> DEFINE s == StartLine(m)
<1>4. /\ GapAt(m) \in Nat /\ TargetAt(m) \in Nat /\ SecondGapAt(m) \in Nat /\ VersionAt(m) \in Nat
      /\ RestAt(m) \in Nat /\ Len(s) \in Nat
      /\ Len(m.method) \in Nat /\ Len(m.gap) \in Nat /\ Len(Target(m)) \in Nat
      /\ Len(m.version) \in Nat /\ Len(m.rest) \in Nat
      /\ Len(s) = RestAt(m) + Len(m.rest)
      /\ \A k \in 1 .. Len(m.method) : s[k] = m.method[k]
      /\ \A k \in 1 .. Len(Target(m)) : s[TargetAt(m) + k] = Target(m)[k]
      /\ \A k \in 1 .. Len(m.version) : s[VersionAt(m) + k] = m.version[k]
  BY StartLinePlaces
<1>5. /\ GapAt(m) = Len(m.method) /\ TargetAt(m) = GapAt(m) + Len(m.gap)
      /\ SecondGapAt(m) = TargetAt(m) + Len(Target(m))
      /\ VersionAt(m) = SecondGapAt(m) + Len(m.gap)
      /\ RestAt(m) = VersionAt(m) + Len(m.version)
  BY DEF GapAt, TargetAt, SecondGapAt, VersionAt, RestAt
<1>6. /\ 0 + Len(m.method) <= Len(s) /\ TargetAt(m) + Len(Target(m)) <= Len(s)
      /\ VersionAt(m) + Len(m.version) <= Len(s)
  <2> DEFINE a == Len(m.method)
             g == Len(m.gap)
             t == Len(Target(m))
             f == Len(m.version)
             r == Len(m.rest)
             n == Len(s)
  <2>1. /\ a \in Nat /\ g \in Nat /\ t \in Nat /\ f \in Nat /\ r \in Nat
        /\ n = RestAt(m) + r /\ RestAt(m) = VersionAt(m) + f /\ VersionAt(m) = SecondGapAt(m) + g
        /\ SecondGapAt(m) = TargetAt(m) + t /\ TargetAt(m) = GapAt(m) + g /\ GapAt(m) = a
    BY <1>4, <1>5
  <2> HIDE DEF a, g, t, f, r, n
  <2>2. 0 + a <= n /\ TargetAt(m) + t <= n /\ VersionAt(m) + f <= n
    BY <2>1
  <2> QED
    BY <2>2 DEF a, t, f, n
<1> HIDE DEF s
<1>7. SubSeq(s, 0 + 1, 0 + Len(m.method)) = m.method
  <2>1. \A k \in 1 .. Len(m.method) : s[0 + k] = m.method[k]
    BY <1>4
  <2>2. s \in Seq(Nat) /\ 0 \in Nat
    BY <1>1 DEF s
  <2> QED
    BY <1>1, <1>3, <1>6, <2>1, <2>2
<1>8. SubSeq(s, TargetAt(m) + 1, TargetAt(m) + Len(Target(m))) = Target(m)
  <2>1. s \in Seq(Nat)
    BY <1>1 DEF s
  <2> QED
    BY <1>2, <1>3, <1>4, <1>6, <2>1
<1>9. SubSeq(s, VersionAt(m) + 1, VersionAt(m) + Len(m.version)) = m.version
  <2>1. s \in Seq(Nat)
    BY <1>1 DEF s
  <2> QED
    BY <1>1, <1>3, <1>4, <1>6, <2>1
<1>10. 0 + 1 = 1 /\ 0 + Len(m.method) = GapAt(m)
  BY <1>4, <1>5
<1> QED
  BY <1>5, <1>7, <1>8, <1>9, <1>10 DEF s

LEMMA ThreeWords ==
  ASSUME NEW x \in Word, NEW y \in Word, NEW z \in Word
  PROVE  LET w == ((<<>> \o <<x>>) \o <<y>>) \o <<z>>
         IN /\ <<>> \o <<x>> = <<x>> /\ Len(<<>> \o <<x>>) = 1
            /\ Len((<<>> \o <<x>>) \o <<y>>) = 2
            /\ Len(w) = 3 /\ w[1] = x /\ w[2] = y /\ w[3] = z
<1> DEFINE a == <<x>>
           b == <<y>>
           c == <<z>>
           ab == a \o b
           abc == ab \o c
<1>1. a \in Seq(Word) /\ Len(a) = 1 /\ a[1] = x
  OBVIOUS
<1>2. b \in Seq(Word) /\ Len(b) = 1 /\ b[1] = y
  OBVIOUS
<1>3. c \in Seq(Word) /\ Len(c) = 1 /\ c[1] = z
  OBVIOUS
<1> HIDE DEF a, b, c
<1>4. <<>> \o a = a
  BY <1>1, ConcatEmptySeq
<1>5. /\ ab \in Seq(Word) /\ Len(ab) = Len(a) + Len(b)
      /\ \A k \in 1 .. Len(a) : ab[k] = a[k]
      /\ \A k \in 1 .. Len(b) : ab[Len(a) + k] = b[k]
  <2>1. a \in Seq(Word) /\ b \in Seq(Word)
    BY <1>1, <1>2
  <2> QED
    BY <2>1, ConcatPlaces
<1> HIDE DEF ab
<1>6. Len(ab) = 2 /\ ab[1] = x /\ ab[2] = y
  <2>1. 1 \in 1 .. Len(a) /\ 1 \in 1 .. Len(b) /\ Len(a) + 1 = 2
    BY <1>1, <1>2
  <2>2. ab[1] = a[1] /\ ab[Len(a) + 1] = b[1]
    BY <1>5, <2>1
  <2> QED
    BY <1>1, <1>2, <1>5, <2>1, <2>2
<1>7. /\ abc \in Seq(Word) /\ Len(abc) = Len(ab) + Len(c)
      /\ \A k \in 1 .. Len(ab) : abc[k] = ab[k]
      /\ \A k \in 1 .. Len(c) : abc[Len(ab) + k] = c[k]
  <2>1. ab \in Seq(Word) /\ c \in Seq(Word)
    BY <1>3, <1>5
  <2> QED
    BY <2>1, ConcatPlaces
<1> HIDE DEF abc
<1>8. Len(abc) = 3 /\ abc[1] = x /\ abc[2] = y /\ abc[3] = z
  <2>1. 1 \in 1 .. Len(ab) /\ 2 \in 1 .. Len(ab) /\ 1 \in 1 .. Len(c) /\ Len(ab) + 1 = 3
    BY <1>3, <1>6
  <2>2. abc[1] = ab[1] /\ abc[2] = ab[2] /\ abc[Len(ab) + 1] = c[1]
    BY <1>7, <2>1
  <2> QED
    BY <1>3, <1>6, <1>7, <2>1, <2>2
<1> QED
  BY <1>1, <1>4, <1>6, <1>8 DEF a, b, c, ab, abc

(* The pieces that split makes of a request line, however its words are    *)
(* spaced and whatever follows the last.                                   *)
LEMMA LinePieces ==
  ASSUME NEW m \in Messages
  PROVE  LET p == Pieces(StartLine(m))
         IN /\ Target(m) # <<>> /\ Solid(m.rest) = {} =>
                 Len(p) = 3 /\ p[1] = m.method /\ p[2] = Target(m) /\ p[3] = m.version
            /\ Target(m) # <<>> /\ Solid(m.rest) # {} => Len(p) >= 4 \/ Len(p[3]) >= 2
            /\ Target(m) = <<>> => Len(p) <= 2
<1> DEFINE s == StartLine(m)
           n == Len(s)
           g == m.gap
           o1 == GapAt(m)
           o2 == TargetAt(m)
           o3 == SecondGapAt(m)
           o4 == VersionAt(m)
           o5 == RestAt(m)
           p == Pieces(s)
<1>1. s \in Seq(Nat) /\ Pieces(s) = Collected(s, n + 1) /\ Collected(s, 0) = <<>>
  BY MessageParts, CollectedStep
<1>2. /\ \A k \in 1 .. o1 : s[k] \notin Blank
      /\ \A k \in o1 + 1 .. o2 : s[k] \in Blank
      /\ \A k \in o2 + 1 .. o3 : s[k] \notin Blank
      /\ \A k \in o3 + 1 .. o4 : s[k] \in Blank
      /\ \A k \in o4 + 1 .. o5 : s[k] \notin Blank
      /\ Solid(m.rest) = {} => \A k \in o5 + 1 .. n : s[k] \in Blank
      /\ Solid(m.rest) # {} => \E k \in o5 + 1 .. n : s[k] \notin Blank
  BY StartLineRegions
<1>20. Target(m) \in Seq(Nat)
  BY MessageParts, ConcatProperties DEF Target
<1> DEFINE gl == Len(g)
           tl == Len(Target(m))
           rl == Len(m.rest)
<1>21. /\ (Target(m) = <<>>) => tl = 0
       /\ (Target(m) # <<>>) => tl >= 1
  BY <1>20, EmptySeq
<1>22. /\ o1 \in Nat /\ o2 \in Nat /\ o3 \in Nat /\ o4 \in Nat /\ o5 \in Nat /\ n \in Nat /\ gl \in Nat
       /\ tl \in Nat /\ rl \in Nat /\ n = o5 + rl
       /\ o2 = o1 + gl /\ o3 = o2 + tl /\ o4 = o3 + gl
       /\ o1 >= 1 /\ o5 >= o4 + 1
  <2>1. /\ o1 \in Nat /\ o2 \in Nat /\ o3 \in Nat /\ o4 \in Nat /\ o5 \in Nat /\ n \in Nat /\ gl \in Nat
        /\ tl \in Nat /\ rl \in Nat /\ n = o5 + rl
    BY StartLinePlaces
  <2>2. o2 = o1 + gl /\ o3 = o2 + tl /\ o4 = o3 + gl
    BY DEF TargetAt, SecondGapAt, VersionAt
  <2>3. o1 >= 1 /\ o5 >= o4 + 1
    BY StartLineRegions
  <2> HIDE DEF tl, rl, gl, o1, o2, o3, o4, o5, n
  <2> QED
    BY <2>1, <2>2, <2>3
<1>4. /\ SubSeq(s, 1, o1) = m.method /\ SubSeq(s, o2 + 1, o3) = Target(m)
      /\ SubSeq(s, o4 + 1, o5) = m.version
      /\ m.method \in Word /\ Target(m) \in Word /\ m.version \in Word
  <2>1. Target(m) \in Seq(Nat)
    BY MessageParts, ConcatProperties DEF Target
  <2> QED
    BY <2>1, StartLineWords, MessageParts DEF Word
<1>5. SP \in Blank
  BY DEF Blank
<1>6. /\ \A k \in 1 .. gl : s[o1 + k] = g[k]
      /\ \A k \in 1 .. gl : s[o3 + k] = g[k]
  BY StartLinePlaces
<1>7. Target(m) # <<>> => Contains(g, SP)
  BY MessagesAssumption DEF StartLineMeansItself, Target
<1>8. Target(m) = <<>> => Solid(m.rest) = {}
  BY MessagesAssumption DEF StartLineMeansItself, Target
<1> HIDE DEF s, n, gl, tl, rl, o1, o2, o3, o4, o5, p
<1>3. /\ o1 \in Nat /\ o2 \in Nat /\ o3 \in Nat /\ o4 \in Nat /\ o5 \in Nat /\ n \in Nat /\ gl \in Nat
      /\ o1 >= 1 /\ o1 <= o2 /\ o2 <= o3 /\ o3 <= o4 /\ o4 + 1 <= o5 /\ o5 <= n
      /\ o2 = o1 + gl /\ o4 = o3 + gl
  BY <1>22
<1>23. ASSUME Target(m) # <<>> PROVE o3 >= o2 + 1
  <2>1. tl >= 1
    BY <1>21, <1>23
  <2> QED
    BY <1>22, <2>1
<1>24. ASSUME Target(m) = <<>> PROVE o3 = o2
  <2>1. tl = 0
    BY <1>21, <1>24
  <2> QED
    BY <1>22, <2>1
<1>25. n = Len(s)
  BY DEF n
<1> HIDE DEF g
<1>9. s \in Seq(Nat) /\ n = Len(s) /\ p = Collected(s, n + 1) /\ PieceEnds(s, n + 1)
  BY <1>1 DEF n, p, PieceEnds
<1>10. ASSUME Contains(g, SP)
       PROVE  \E q1, q2 \in Nat :
                /\ q1 \in o1 + 1 .. o2 /\ s[q1] = SP /\ q2 \in o3 + 1 .. o4 /\ s[q2] = SP
                /\ Collected(s, q1) = <<>> \o <<m.method>>
  <2>1. PICK i \in 1 .. gl : g[i] = SP
    BY <1>10 DEF Contains, gl
  <2> DEFINE q1 == o1 + i
             q2 == o3 + i
  <2>2. q1 \in o1 + 1 .. o2 /\ q2 \in o3 + 1 .. o4 /\ q1 \in Nat /\ q2 \in Nat
    BY <1>3
  <2>3. s[q1] = SP /\ s[q2] = SP
    BY <1>6, <2>1
  <2> HIDE DEF q1, q2
  <2>4. PieceEnds(s, q1)
    BY <2>3 DEF PieceEnds
  <2>5. /\ 0 \in 0 .. Len(s) /\ q1 \in 0 + 1 .. Len(s) + 1 /\ 1 \in 0 + 1 .. q1 - 1 /\ o1 \in 1 .. q1 - 1
        /\ 1 \in 1 .. o1 /\ o1 \in 1 .. o1
    BY <1>3, <1>9, <2>2
  <2>6. /\ s[1] \notin Blank /\ s[o1] \notin Blank
        /\ \A j \in 0 + 1 .. 1 - 1 : s[j] \in Blank
        /\ \A j \in 1 .. o1 : s[j] # SP
        /\ \A j \in o1 + 1 .. q1 - 1 : s[j] \in Blank
    <3>1. \A j \in 0 + 1 .. 1 - 1 : FALSE
      OBVIOUS
    <3>2. \A j \in o1 + 1 .. q1 - 1 : j \in o1 + 1 .. o2
      BY <1>3, <2>2
    <3> QED
      BY <1>2, <1>5, <2>5, <3>1, <3>2
  <2>7. Collected(s, q1) = Collected(s, 0) \o <<SubSeq(s, 1, o1)>>
    BY <1>9, <2>4, <2>5, <2>6, WordRegion
  <2>8. Collected(s, q1) = <<>> \o <<m.method>>
    BY <1>1, <1>4, <2>7
  <2> QED
    BY <2>2, <2>3, <2>8
<1>11. ASSUME Target(m) # <<>>
       PROVE  \E q2 \in Nat :
                /\ q2 \in o3 + 1 .. o4 /\ s[q2] = SP
                /\ Collected(s, q2) = (<<>> \o <<m.method>>) \o <<Target(m)>>
  <2>1. PICK q1, q2 \in Nat :
          /\ q1 \in o1 + 1 .. o2 /\ s[q1] = SP /\ q2 \in o3 + 1 .. o4 /\ s[q2] = SP
          /\ Collected(s, q1) = <<>> \o <<m.method>>
    BY <1>7, <1>10, <1>11
  <2>2. PieceEnds(s, q2)
    BY <2>1 DEF PieceEnds
  <2> DEFINE u == o2 + 1
  <2>7. q1 \in o1 + 1 .. o2 /\ q2 \in o3 + 1 .. o4 /\ q1 \in Nat /\ q2 \in Nat
    BY <2>1
  <2>3. /\ q1 \in 0 .. Len(s) /\ q2 \in q1 + 1 .. Len(s) + 1 /\ u \in q1 + 1 .. q2 - 1
        /\ o3 \in u .. q2 - 1 /\ u \in o2 + 1 .. o3 /\ o3 \in o2 + 1 .. o3
    <3>1. o3 >= o2 + 1
      BY <1>11, <1>23
    <3>2. /\ q1 \in 0 .. n /\ q2 \in q1 + 1 .. n + 1 /\ u \in q1 + 1 .. q2 - 1
          /\ o3 \in u .. q2 - 1 /\ u \in o2 + 1 .. o3 /\ o3 \in o2 + 1 .. o3
      BY <1>3, <2>7, <3>1
    <3> QED
      BY <1>25, <3>2
  <2>4. /\ s[u] \notin Blank /\ s[o3] \notin Blank
        /\ \A j \in q1 + 1 .. u - 1 : s[j] \in Blank
        /\ \A j \in u .. o3 : s[j] # SP
        /\ \A j \in o3 + 1 .. q2 - 1 : s[j] \in Blank
    <3>1. \A j \in q1 + 1 .. u - 1 : j \in o1 + 1 .. o2
      BY <1>3, <2>7
    <3>2. \A j \in o3 + 1 .. q2 - 1 : j \in o3 + 1 .. o4
      BY <1>3, <2>7
    <3> QED
      BY <1>2, <1>5, <2>3, <3>1, <3>2
  <2> HIDE DEF u
  <2>5. Collected(s, q2) = Collected(s, q1) \o <<SubSeq(s, u, o3)>>
    BY <1>9, <2>1, <2>2, <2>3, <2>4, WordRegion
  <2>6. Collected(s, q2) = (<<>> \o <<m.method>>) \o <<Target(m)>>
    BY <1>4, <2>1, <2>5 DEF u
  <2> QED
    BY <2>1, <2>6
<1>12. ASSUME Target(m) # <<>>, Solid(m.rest) = {}
       PROVE  Len(p) = 3 /\ p[1] = m.method /\ p[2] = Target(m) /\ p[3] = m.version
  <2>1. PICK q2 \in Nat :
          /\ q2 \in o3 + 1 .. o4 /\ s[q2] = SP
          /\ Collected(s, q2) = (<<>> \o <<m.method>>) \o <<Target(m)>>
    BY <1>11, <1>12
  <2> DEFINE u == o4 + 1
             y == n + 1
  <2>7. q2 \in o3 + 1 .. o4 /\ q2 \in Nat
    BY <2>1
  <2>2. /\ q2 \in 0 .. Len(s) /\ y \in q2 + 1 .. Len(s) + 1 /\ u \in q2 + 1 .. y - 1
        /\ o5 \in u .. y - 1 /\ u \in o4 + 1 .. o5 /\ o5 \in o4 + 1 .. o5
    <3>1. /\ q2 \in 0 .. n /\ y \in q2 + 1 .. n + 1 /\ u \in q2 + 1 .. y - 1
          /\ o5 \in u .. y - 1 /\ u \in o4 + 1 .. o5 /\ o5 \in o4 + 1 .. o5
      BY <1>3, <2>7
    <3> QED
      BY <1>25, <3>1
  <2>3. /\ s[u] \notin Blank /\ s[o5] \notin Blank
        /\ \A j \in q2 + 1 .. u - 1 : s[j] \in Blank
        /\ \A j \in u .. o5 : s[j] # SP
        /\ \A j \in o5 + 1 .. y - 1 : s[j] \in Blank
    <3>1. \A j \in q2 + 1 .. u - 1 : j \in o3 + 1 .. o4
      BY <1>3, <2>7
    <3>2. \A j \in o5 + 1 .. y - 1 : j \in o5 + 1 .. n
      BY <1>3
    <3> QED
      BY <1>2, <1>5, <1>12, <2>2, <3>1, <3>2
  <2>4. PieceEnds(s, y)
    BY <1>9
  <2> HIDE DEF u, y
  <2>5. Collected(s, y) = Collected(s, q2) \o <<SubSeq(s, u, o5)>>
    BY <1>9, <2>1, <2>2, <2>3, <2>4, WordRegion
  <2>6. p = ((<<>> \o <<m.method>>) \o <<Target(m)>>) \o <<m.version>>
    BY <1>4, <1>9, <2>1, <2>5 DEF u, y
  <2> QED
    BY <1>4, <2>6, ThreeWords
<1>13. ASSUME Target(m) # <<>>, Solid(m.rest) # {}
       PROVE  Len(p) >= 4 \/ Len(p[3]) >= 2
  <2>1. PICK q2 \in Nat :
          /\ q2 \in o3 + 1 .. o4 /\ s[q2] = SP
          /\ Collected(s, q2) = (<<>> \o <<m.method>>) \o <<Target(m)>>
    BY <1>11, <1>13
  <2>2. PICK e \in o5 + 1 .. n : s[e] \notin Blank
    BY <1>2, <1>13
  <2> DEFINE u == o4 + 1
  <2>7. q2 \in o3 + 1 .. o4 /\ q2 \in Nat
    BY <2>1
  <2>3. /\ q2 \in 0 .. Len(s) /\ u \in q2 + 1 .. Len(s) /\ o5 \in u .. Len(s) /\ e \in o5 + 1 .. Len(s)
        /\ u \in o4 + 1 .. o5
    <3>1. /\ q2 \in 0 .. n /\ u \in q2 + 1 .. n /\ o5 \in u .. n /\ u \in o4 + 1 .. o5
      BY <1>3, <2>7
    <3> QED
      BY <1>25, <3>1
  <2>4. /\ s[u] \notin Blank /\ s[e] \notin Blank
        /\ \A j \in q2 + 1 .. u - 1 : s[j] \in Blank
        /\ \A j \in u .. o5 : s[j] # SP
    <3>1. \A j \in q2 + 1 .. u - 1 : j \in o3 + 1 .. o4
      BY <1>3, <2>7
    <3> QED
      BY <1>2, <1>5, <2>2, <2>3, <3>1
  <2> HIDE DEF u
  <2> DEFINE k == Len(Collected(s, q2))
  <2>5. k \in Nat /\ (Len(p) >= k + 2 \/ (Len(p) >= k + 1 /\ Len(p[k + 1]) >= 2))
    <3>1. p = Pieces(s)
      BY DEF p
    <3> QED
      BY <1>9, <2>1, <2>3, <2>4, <3>1, MoreThanAWord
  <2>6. k = 2 /\ k + 2 = 4 /\ k + 1 = 3
    <3>1. k = 2
      BY <1>4, <2>1, ThreeWords
    <3> QED
      BY <3>1
  <2> QED
    BY <2>5, <2>6
<1>14. ASSUME Target(m) = <<>>
       PROVE  Len(p) <= 2
  <2>1. CASE Contains(g, SP)
    <3>1. PICK q1, q2 \in Nat :
            /\ q1 \in o1 + 1 .. o2 /\ s[q1] = SP /\ q2 \in o3 + 1 .. o4 /\ s[q2] = SP
            /\ Collected(s, q1) = <<>> \o <<m.method>>
      BY <1>10, <2>1
    <3> DEFINE u == o4 + 1
               y == n + 1
    <3>8. q1 \in o1 + 1 .. o2 /\ q1 \in Nat /\ o3 = o2
      BY <1>14, <1>24, <3>1
    <3>2. /\ q1 \in 0 .. Len(s) /\ y \in q1 + 1 .. Len(s) + 1 /\ u \in q1 + 1 .. y - 1
          /\ o5 \in u .. y - 1 /\ u \in o4 + 1 .. o5 /\ o5 \in o4 + 1 .. o5
      <4>1. /\ q1 \in 0 .. n /\ y \in q1 + 1 .. n + 1 /\ u \in q1 + 1 .. y - 1
            /\ o5 \in u .. y - 1 /\ u \in o4 + 1 .. o5 /\ o5 \in o4 + 1 .. o5
        BY <1>3, <3>8
      <4> QED
        BY <1>25, <4>1
    <3>3. /\ s[u] \notin Blank /\ s[o5] \notin Blank
          /\ \A j \in q1 + 1 .. u - 1 : s[j] \in Blank
          /\ \A j \in u .. o5 : s[j] # SP
          /\ \A j \in o5 + 1 .. y - 1 : s[j] \in Blank
      <4>1. \A j \in q1 + 1 .. u - 1 : j \in o1 + 1 .. o2 \/ j \in o3 + 1 .. o4
        BY <1>3, <3>8
      <4>2. \A j \in o5 + 1 .. y - 1 : j \in o5 + 1 .. n
        BY <1>3
      <4> QED
        BY <1>2, <1>5, <1>8, <1>14, <3>2, <4>1, <4>2
    <3>4. PieceEnds(s, y)
      BY <1>9
    <3> HIDE DEF u, y
    <3>5. Collected(s, y) = Collected(s, q1) \o <<SubSeq(s, u, o5)>>
      BY <1>9, <3>1, <3>2, <3>3, <3>4, WordRegion
    <3>6. p = (<<>> \o <<m.method>>) \o <<m.version>>
      BY <1>4, <1>9, <3>1, <3>5 DEF u, y
    <3>7. Len(p) = 2
      BY <1>4, <3>6, ThreeWords
    <3> QED
      BY <3>7
  <2>2. CASE ~Contains(g, SP)
    <3> DEFINE y == n + 1
               w == SubSeq(s, 1, o5)
    <3>9. o3 = o2
      BY <1>14, <1>24
    <3>1. /\ 0 \in 0 .. Len(s) /\ y \in 0 + 1 .. Len(s) + 1 /\ 1 \in 0 + 1 .. y - 1
          /\ o5 \in 1 .. y - 1 /\ 1 \in 1 .. o1 /\ o5 \in o4 + 1 .. o5
      BY <1>3, <1>9
    <3>2. /\ \A k \in o1 + 1 .. o2 : s[k] # SP
          /\ \A k \in o3 + 1 .. o4 : s[k] # SP
      <4>1. \A i \in 1 .. gl : g[i] # SP
        BY <2>2 DEF Contains, gl
      <4>2. ASSUME NEW k \in o1 + 1 .. o2 PROVE s[k] # SP
        <5>1. k - o1 \in 1 .. gl /\ o1 + (k - o1) = k
          BY <1>3
        <5> QED
          BY <1>6, <4>1, <5>1
      <4>3. ASSUME NEW k \in o3 + 1 .. o4 PROVE s[k] # SP
        <5>1. k - o3 \in 1 .. gl /\ o3 + (k - o3) = k
          BY <1>3
        <5> QED
          BY <1>6, <4>1, <5>1
      <4> QED
        BY <4>2, <4>3
    <3>3. /\ s[1] \notin Blank /\ s[o5] \notin Blank
          /\ \A j \in 0 + 1 .. 1 - 1 : s[j] \in Blank
          /\ \A j \in 1 .. o5 : s[j] # SP
          /\ \A j \in o5 + 1 .. y - 1 : s[j] \in Blank
      <4>1. \A j \in 0 + 1 .. 1 - 1 : FALSE
        OBVIOUS
      <4>2. \A j \in 1 .. o5 : j \in 1 .. o1 \/ j \in o1 + 1 .. o2 \/ j \in o3 + 1 .. o4 \/ j \in o4 + 1 .. o5
        BY <1>3, <3>9
      <4>3. \A j \in o5 + 1 .. y - 1 : j \in o5 + 1 .. n
        BY <1>3
      <4> QED
        BY <1>2, <1>5, <1>8, <1>14, <3>1, <3>2, <4>1, <4>2, <4>3
    <3>4. PieceEnds(s, y)
      BY <1>9
    <3> HIDE DEF y
    <3>5. Collected(s, y) = Collected(s, 0) \o <<w>>
      BY <1>9, <3>1, <3>3, <3>4, WordRegion
    <3>6. w \in Word
      <4>1. \A i \in 1 .. o5 : s[i] \in Nat
        <5>1. \A i \in 1 .. o5 : i \in 1 .. Len(s)
          BY <1>3, <1>9
        <5> QED
          BY <1>9, <5>1, ElementOfSeq
      <4> QED
        BY <1>3, <4>1, SubSeqProperties DEF Word
    <3> HIDE DEF w
    <3>7. p = <<>> \o <<w>>
      BY <1>1, <1>9, <3>5 DEF y
    <3>8. Len(p) = 1
      BY <3>6, <3>7, ThreeWords
    <3> QED
      BY <3>8
  <2> QED
    BY <2>1, <2>2
<1> QED
  BY <1>12, <1>13, <1>14 DEF p, s

(* What a request line needs to be understood, in the words of its message. *)
GoodLine(m) ==
  /\ m.method \in {<<w>> : w \in Methods}
  /\ m.version \in {<<w>> : w \in HttpVersions}
  /\ Target(m) # <<>>
  /\ Solid(m.rest) = {}

LEMMA TargetPath ==
  ASSUME NEW m \in Messages
  PROVE  NoFragment(Target(m)) = m.path
<1> DEFINE a == m.path
           f == m.fragment
           t == a \o f
<1>1. a \in Seq(Nat) /\ f \in Seq(Nat)
  BY MessageParts
<1>2. \A i \in 1 .. Len(a) : a[i] # 35
  <2>1. a \in Seq(Nat \ (Blank \cup {35}))
    BY MessagesAssumption DEF StartLineMeansItself, Chars
  <2> QED
    BY <2>1, ElementOfSeq
<1>3. f # <<>> => f[1] = 35
  BY MessagesAssumption DEF StartLineMeansItself
<1> HIDE DEF a, f
<1>4. /\ t \in Seq(Nat) /\ Len(a) \in Nat /\ Len(f) \in Nat /\ Len(t) = Len(a) + Len(f)
      /\ \A k \in 1 .. Len(a) : t[k] = a[k]
      /\ \A k \in 1 .. Len(f) : t[Len(a) + k] = f[k]
  BY <1>1, ConcatPlaces, LenProperties
<1>5. CASE f = <<>>
  <2>1. t = a
    BY <1>1, <1>5, ConcatEmptySeq
  <2>2. ~Contains(a, 35)
    BY <1>2 DEF Contains
  <2> QED
    BY <2>1, <2>2 DEF NoFragment, Target, a, f
<1>6. CASE f # <<>>
  <2> DEFINE q == Len(a) + 1
  <2>1. Len(f) >= 1
    BY <1>1, <1>6, EmptySeq
  <2>2. q \in 1 .. Len(t) /\ 1 \in 1 .. Len(f) /\ q - 1 = Len(a)
    BY <1>4, <2>1
  <2>3. t[q] = 35
    BY <1>3, <1>4, <1>6, <2>2
  <2>4. \A i \in 1 .. q - 1 : t[i] # 35
    BY <1>2, <1>4, <2>2
  <2> HIDE DEF q, t
  <2>5. Contains(t, 35) /\ Before(t, 35) = SubSeq(t, 1, q - 1)
    <3>1. t \in Seq(Nat) /\ 35 \in Nat
      BY <1>4
    <3> QED
      BY <2>2, <2>3, <2>4, <3>1, BeforeAndAfter
  <2>6. SubSeq(t, 1, Len(a)) = a
    BY <1>1, Halves DEF t
  <2> QED
    BY <2>2, <2>5, <2>6 DEF NoFragment, Target, a, f, t
<1> QED
  BY <1>5, <1>6

(* parse_request_line, on the first line of any message with its CR LF:    *)
(* it is accepted exactly if it says what a request has to, and what it    *)
(* sets are the message's words.                                           *)
THEOREM RequestLineMeant ==
  ASSUME NEW m \in Messages
  PROVE  /\ ValidRequestLine(StartLine(m) \o CRLF) <=> GoodLine(m)
         /\ GoodLine(m) => \A r :
              WithRequestLine(r, StartLine(m) \o CRLF) =
                [r EXCEPT !.m_method = m.method, !.m_target = m.path, !.m_version = m.version]
<1> DEFINE l == StartLine(m)
           s == l \o CRLF
           p == Pieces(l)
<1>1. l \in Seq(Nat) /\ CRLF \in Seq(Nat) /\ Len(CRLF) = 2
  BY MessageParts, CRLFText, CharsAreNaturals DEF Chars
<1>2. IsSuffix(CRLF, s)
  <2>1. /\ s \in Seq(Nat) /\ Len(l) \in Nat /\ Len(s) = Len(l) + 2
        /\ s[Len(l) + 1] = CRLF[1] /\ s[Len(l) + 2] = CRLF[2]
    BY <1>1, EndedPlaces
  <2> HIDE DEF s
  <2>2. Len(s) - 1 = Len(l) + 1 /\ Len(s) = Len(l) + 2 /\ Len(s) >= 2
    BY <2>1
  <2>3. s[Len(s) - 1] = CR /\ s[Len(s)] = LF
    BY <2>1, <2>2, CRLFText
  <2>4. CR \in Nat /\ LF \in Nat
    BY DEF CR, LF
  <2> QED
    BY <2>1, <2>2, <2>3, <2>4, PairIsSuffix DEF CRLF
<1>3. SubSeq(s, 1, Len(s) - 2) = l
  <2>1. /\ Len(l) \in Nat /\ Len(s) = Len(l) + Len(CRLF)
        /\ SubSeq(s, 1, Len(l)) = l
    BY <1>1, Halves
  <2>2. Len(s) - 2 = Len(l)
    BY <1>1, <2>1
  <2> QED
    BY <2>1, <2>2
<1>4. /\ Target(m) # <<>> /\ Solid(m.rest) = {} =>
           Len(p) = 3 /\ p[1] = m.method /\ p[2] = Target(m) /\ p[3] = m.version
      /\ Target(m) # <<>> /\ Solid(m.rest) # {} => Len(p) >= 4 \/ Len(p[3]) >= 2
      /\ Target(m) = <<>> => Len(p) <= 2
  BY LinePieces
<1>5. ValidRequestLine(s) <=>
        /\ Len(p) = 3
        /\ p[1] \in {<<w>> : w \in Methods}
        /\ p[3] \in {<<w>> : w \in HttpVersions}
  BY <1>2, <1>3 DEF ValidRequestLine, HasThree
<1>6. \A r : WithRequestLine(r, s) =
               [r EXCEPT !.m_method = p[1], !.m_target = NoFragment(p[2]), !.m_version = p[3]]
  BY <1>3 DEF WithRequestLine
<1>7. \A x \in {<<w>> : w \in HttpVersions} : Len(x) = 1
  OBVIOUS
<1>8. NoFragment(Target(m)) = m.path
  BY TargetPath
<1> HIDE DEF l, s, p
<1>9. ASSUME GoodLine(m) PROVE ValidRequestLine(s)
  BY <1>4, <1>5, <1>9 DEF GoodLine
<1>10. ASSUME ValidRequestLine(s) PROVE GoodLine(m)
  <2>1. Len(p) = 3
    BY <1>5, <1>10
  <2>2. Target(m) # <<>>
    BY <1>4, <2>1
  <2>3. Solid(m.rest) = {}
    <3>1. SUFFICES ASSUME Solid(m.rest) # {} PROVE FALSE
      OBVIOUS
    <3>2. Len(p) >= 4 \/ Len(p[3]) >= 2
      BY <1>4, <2>2, <3>1
    <3>3. Len(p[3]) = 1
      BY <1>5, <1>7, <1>10
    <3> QED
      BY <2>1, <3>2, <3>3
  <2> QED
    BY <1>4, <1>5, <1>10, <2>2, <2>3 DEF GoodLine
<1>11. ASSUME GoodLine(m), NEW r
       PROVE  WithRequestLine(r, s) =
                [r EXCEPT !.m_method = m.method, !.m_target = m.path, !.m_version = m.version]
  <2>1. p[1] = m.method /\ p[2] = Target(m) /\ p[3] = m.version
    BY <1>4, <1>11 DEF GoodLine
  <2> QED
    BY <1>6, <1>8, <2>1
<1> QED
  BY <1>9, <1>10, <1>11 DEF s, l

-----------------------------------------------------------------------------
(***************************************************************************)
(* ParseHttpMsg: what holds between the message, the buffer, the line      *)
(* reader and the Request.                                                 *)
(***************************************************************************)
Meanings(m) == [i \in DOMAIN m.headers |-> Meant(m.headers[i])]

(* What the first n lines of headers mean. *)
MeantUpTo(m, n) == Glued(Meanings(m))[n]

(* The buffer is what its message made it, and nothing is left of another. *)
BufferInv ==
  /\ pc = "idle" => message = None /\ received = 0 /\ memory = Blanks(BufSize)
  /\ pc # "idle" => BufferHolds
  /\ pc \in {"idle", "read"} => Fresh
  /\ pc \in {"headers", "rejected", "done"} => received < BufSize

(* The Request has what the lines behind the line reader mean. *)
HeadersInv ==
  pc = "headers" =>
    /\ line_memory = Blanks(LineSize)
    /\ \E j \in 1 .. Len(LinesOf(message)) :
         /\ AtLine(j) /\ bytes_experienced = m_stream_offset
         /\ req.m_headers = MeantUpTo(message, j - 1)

DoneInv ==
  pc = "done" =>
    /\ \E j \in 1 .. Len(LinesOf(message)) : req.m_headers = MeantUpTo(message, j - 1)
    /\ AllFit(message) /\ HeadReceived =>
         /\ req.m_headers = MeantHeaders(message)
         /\ bytes_experienced = Len(HeadText(message))

HttpInv ==
  /\ TypeOK
  /\ BufferInv
  /\ HeadersInv
  /\ DoneInv
  /\ RequestLineUnderstood
  /\ StaysInside

LEMMA MeantSoFar ==
  ASSUME NEW m \in Messages
  PROVE  /\ Len(m.headers) \in Nat
         /\ MeantUpTo(m, 0) = <<>> /\ MeantUpTo(m, Len(m.headers)) = MeantHeaders(m)
         /\ \A n \in 0 .. Len(m.headers) :
              /\ MeantUpTo(m, n) \in Seq(HeaderEntries) /\ MeantHeaders(m) \in Seq(HeaderEntries)
              /\ Len(MeantUpTo(m, n)) \in Nat /\ Len(MeantHeaders(m)) \in Nat
              /\ Len(MeantUpTo(m, n)) <= Len(MeantHeaders(m))
              /\ \A k \in 1 .. Len(MeantUpTo(m, n)) : MeantHeaders(m)[k] = MeantUpTo(m, n)[k]
         /\ \A n \in 1 .. Len(m.headers) :
              MeantUpTo(m, n) = MeantUpTo(m, n - 1) \o Meant(m.headers[n])
<1> DEFINE t == Meanings(m)
           X == Seq(HeaderEntries)
           n0 == Len(m.headers)
<1>1. n0 \in Nat /\ DOMAIN m.headers = 1 .. n0 /\ \A i \in 1 .. n0 : m.headers[i] \in HeaderTypes
  BY MessageLines
<1>2. \A i \in 1 .. n0 : Meant(m.headers[i]) \in X
  BY <1>1, MeantType
<1> HIDE DEF X, n0
<1>3. t \in [1 .. n0 -> X] /\ \A i \in 1 .. n0 : t[i] = Meant(m.headers[i])
  BY <1>1, <1>2 DEF Meanings
<1>4. MeantHeaders(m) = FlattenSeq(t)
  BY DEF MeantHeaders, Each, Meanings
<1> HIDE DEF t
<1>5. t \in Seq(X) /\ Len(t) = n0
  BY <1>1, <1>3, FunctionIsSeq
<1>6. FlattenSeq(t) = Glued(t)[n0]
  BY <1>5, FlattenSeqIsGlued DEF X
<1>7. /\ Glued(t)[0] = <<>>
      /\ \A n \in 1 .. n0 : Glued(t)[n] = Glued(t)[n - 1] \o t[n]
  BY <1>5, GluedStep DEF X
<1>8. ASSUME NEW n \in 0 .. n0
      PROVE  /\ Glued(t)[n] \in X /\ Glued(t)[n0] \in X
             /\ Len(Glued(t)[n]) \in Nat /\ Len(Glued(t)[n0]) \in Nat
             /\ Len(Glued(t)[n]) <= Len(Glued(t)[n0])
             /\ \A k \in 1 .. Len(Glued(t)[n]) : Glued(t)[n0][k] = Glued(t)[n][k]
  <2>1. n0 \in 0 .. Len(t) /\ n \in 0 .. n0
    BY <1>1, <1>5
  <2> QED
    BY <1>5, <2>1, GluedPlaces DEF X
<1>9. \A n : MeantUpTo(m, n) = Glued(t)[n]
  BY DEF MeantUpTo, t
<1>10. MeantUpTo(m, 0) = <<>> /\ MeantUpTo(m, n0) = MeantHeaders(m)
  BY <1>4, <1>6, <1>7, <1>9
<1>11. ASSUME NEW n \in 0 .. n0
       PROVE  /\ MeantUpTo(m, n) \in X /\ MeantHeaders(m) \in X
              /\ Len(MeantUpTo(m, n)) \in Nat /\ Len(MeantHeaders(m)) \in Nat
              /\ Len(MeantUpTo(m, n)) <= Len(MeantHeaders(m))
              /\ \A k \in 1 .. Len(MeantUpTo(m, n)) : MeantHeaders(m)[k] = MeantUpTo(m, n)[k]
  <2>1. MeantUpTo(m, n) = Glued(t)[n] /\ MeantHeaders(m) = Glued(t)[n0]
    BY <1>9, <1>10
  <2> QED
    BY <1>8, <2>1
<1>12. ASSUME NEW n \in 1 .. n0
       PROVE  MeantUpTo(m, n) = MeantUpTo(m, n - 1) \o Meant(m.headers[n])
  BY <1>3, <1>7, <1>9
<1> QED
  BY <1>1, <1>10, <1>11, <1>12 DEF n0, X

LEMMA UnfitMessage ==
  ASSUME NEW m \in Messages, NEW j \in 0 .. Len(LinesOf(m)), ~Fits(LineAt(m, j))
  PROVE  ~AllFit(m)
<1> DEFINE L == LinesOf(m)
<1>1. Len(L) \in Nat \ {0} /\ DOMAIN L = 1 .. Len(L) /\ Len(L[1]) \in Nat /\ LineSize \in Nat
  <2>1. L \in Seq(Seq(Nat \ {NUL})) /\ Len(L) \in Nat \ {0}
    BY MessageLines, TextPlaces
  <2>2. DOMAIN L = 1 .. Len(L) /\ L[1] \in Seq(Nat \ {NUL})
    BY <2>1, ElementOfSeqSeq
  <2> QED
    BY <2>1, <2>2, LenProperties, SizesAssumption
<1>2. CASE j < Len(L)
  <2>1. j + 1 \in DOMAIN L /\ LineAt(m, j) = L[j + 1]
    BY <1>1, <1>2 DEF LineAt
  <2> QED
    BY <2>1 DEF AllFit
<1>3. CASE ~(j < Len(L))
  <2>1. LineAt(m, j) = <<>>
    BY <1>3 DEF LineAt
  <2>2. ~(3 <= LineSize)
    BY <2>1 DEF Fits
  <2>3. ~Fits(L[1]) /\ 1 \in DOMAIN L
    BY <1>1, <2>2 DEF Fits
  <2> QED
    BY <2>3 DEF AllFit
<1> QED
  BY <1>2, <1>3

(* Where a task may get beyond its buffers. *)
Excused ==
  \/ ~AllFit(message)
  \/ received = BufSize
  \/ ~HeadReceived /\ received + LineSize > BufSize

LEMMA LineStaysInside ==
  ASSUME BufferHolds, NEW j, AtLine(j), line_memory = Blanks(LineSize),
         LineOverrun \/ ((LineBytes # 0 \/ m_stream_offset = 0) /\ ~Terminated(NewLine))
  PROVE  Excused
<1>1. /\ message \in Messages /\ j \in 0 .. Len(LinesOf(message))
      /\ received \in Nat /\ received <= BufSize /\ BufSize \in Nat /\ LineSize \in Nat
      /\ m_stream_offset \in Nat /\ m_stream_offset <= received
      /\ line_memory \in Seq(Nat) /\ Len(line_memory) = LineSize
  <2>1. message \in Messages /\ received \in 0 .. BufSize /\ BufSize \in Nat /\ LineSize \in Nat
    BY SizesAssumption DEF BufferHolds
  <2>2. /\ j \in 0 .. Len(LinesOf(message)) /\ m_stream_offset = Start(message, j)
        /\ Start(message, j) <= received
    BY DEF AtLine
  <2>3. m_stream_offset \in Nat
    BY BufferAtLine
  <2>4. line_memory \in Seq(Nat) /\ Len(line_memory) = LineSize
    BY <2>1, BlanksProperties
  <2> QED
    BY <2>1, <2>2, <2>3, <2>4
<1>2. CASE Whole(j)
  <2>1. ~Fits(CurrentLine(j))
    BY <1>2, FittingLine
  <2> QED
    BY <1>1, <2>1, UnfitMessage DEF Excused, CurrentLine
<1>3. CASE ~Whole(j)
  <2>1. ~HeadReceived
    <3>1. /\ Start(message, j) + Len(LineAt(message, j)) + 2 <= Len(HeadText(message))
          /\ Start(message, j) \in Nat /\ Len(LineAt(message, j)) \in Nat
      BY <1>1, LinePlaces
    <3>2. Len(HeadText(message)) \in Nat
      BY <1>1, TextPlaces
    <3>3. ~(Start(message, j) + Len(LineAt(message, j)) + 2 <= received)
      BY <1>3 DEF Whole, CurrentLine
    <3> QED
      BY <1>1, <3>1, <3>2, <3>3 DEF HeadReceived
  <2>2. Ends = {}
    BY <1>3, CutLineHasNoEnd
  <2>3. CASE LineOverrun
    <3>1. CASE m_stream_offset + LineSize > BufSize
      BY <1>1, <2>1, <3>1 DEF Excused
    <3>2. CASE memory[BufSize] = CR
      <4>1. BufSize \in 1 .. BufSize /\ CR # NUL
        BY SizesAssumption DEF CR, NUL
      <4>2. BufSize <= received
        BY <3>2, <4>1 DEF BufferHolds
      <4> QED
        BY <1>1, <4>2 DEF Excused
    <3> QED
      BY <2>2, <2>3, <3>1, <3>2 DEF LineOverrun
  <2>4. CASE ~LineOverrun
    <3>1. LineBytes = 0
      BY <2>2 DEF LineBytes
    <3>2. m_stream_offset = 0 /\ ~Terminated(NewLine)
      BY <2>4, <3>1
    <3>3. ~Fits(CurrentLine(j))
      BY <1>1, <1>3, <2>4, <3>2, CutRequestLine
    <3> QED
      BY <1>1, <3>3, UnfitMessage DEF Excused, CurrentLine
  <2> QED
    BY <2>3, <2>4
<1> QED
  BY <1>2, <1>3

LEMMA BlankLine ==
  /\ BufSize \in Nat /\ LineSize \in Nat /\ BufSize >= 1
  /\ Blanks(BufSize) \in Seq(Nat) /\ Len(Blanks(BufSize)) = BufSize
  /\ Blanks(LineSize) \in Seq(Nat) /\ Len(Blanks(LineSize)) = LineSize
  /\ \A i \in 1 .. BufSize : Blanks(BufSize)[i] = NUL
<1>1. BufSize \in Nat /\ LineSize \in Nat /\ BufSize >= 1
  BY SizesAssumption
<1> QED
  BY <1>1, BlanksProperties

LEMMA NoRequestType ==
  NoRequest \in Requests /\ NoRequest.m_headers = <<>>
  BY EmptySeq DEF NoRequest, Requests

LEMMA BufferKept ==
  ASSUME BufferHolds, message' = message, received' = received, memory' = memory
  PROVE  BufferHolds'
  BY DEF BufferHolds

LEMMA HttpInit ==
  ASSUME Init
  PROVE  HttpInv
<1>1. TypeOK
  BY BlankLine, NoRequestType DEF Init, Fresh, TypeOK
<1> QED
  BY <1>1 DEF Init, HttpInv, BufferInv, HeadersInv, DoneInv, RequestLineUnderstood, StaysInside

(* The read leaves the buffer with what it is told to hold. *)
LEMMA ReadFills ==
  ASSUME NEW t \in Seq(Nat), NEW n \in 1 .. Limit(t), NEW b \in Seq(Nat), Len(b) = BufSize,
         \A i \in 1 .. BufSize : b[i] = NUL
  PROVE  LET w == SubSeq(t, 1, n) \o SubSeq(b, n + 1, BufSize)
         IN /\ n \in Nat /\ n <= Len(t) /\ n <= BufSize
            /\ w \in Seq(Nat) /\ Len(w) = BufSize
            /\ \A i \in 1 .. BufSize : w[i] = IF i <= n THEN t[i] ELSE NUL
<1> DEFINE x == SubSeq(t, 1, n)
           y == SubSeq(b, n + 1, BufSize)
           w == x \o y
<1>1. Len(t) \in Nat /\ BufSize \in Nat
  BY LenProperties, BlankLine
<1>2. n \in Nat /\ n <= Len(t) /\ n <= BufSize
  <2>1. {Len(t), BufSize} \in SUBSET Nat /\ {Len(t), BufSize} # {}
    BY <1>1
  <2>2. /\ Limit(t) \in {Len(t), BufSize}
        /\ \A k \in {Len(t), BufSize} : Limit(t) <= k
    BY <2>1, MinOfNaturals DEF Limit
  <2>3. Limit(t) \in Nat /\ Limit(t) <= Len(t) /\ Limit(t) <= BufSize
    BY <1>1, <2>2
  <2> HIDE DEF w, x, y
  <2> QED
    BY <1>1, <2>3
<1>3. x \in Seq(Nat) /\ Len(x) = n /\ \A i \in 1 .. n : x[i] = t[i]
  <2>1. 0 \in Nat /\ 0 <= n /\ 0 + 1 = 1 /\ n - 0 = n /\ \A i \in 1 .. n : 0 + i = i
    BY <1>2
  <2>2. /\ SubSeq(t, 0 + 1, n) \in Seq(Nat) /\ Len(SubSeq(t, 0 + 1, n)) = n - 0
        /\ \A i \in 1 .. n - 0 : SubSeq(t, 0 + 1, n)[i] = t[0 + i]
    BY <1>2, <2>1, SubSeqPlaces
  <2> QED
    BY <2>1, <2>2
<1>4. y \in Seq(Nat) /\ Len(y) = BufSize - n /\ \A i \in 1 .. BufSize - n : y[i] = b[n + i]
  BY <1>1, <1>2, SubSeqPlaces
<1> HIDE DEF x, y
<1>5. /\ w \in Seq(Nat) /\ Len(w) = Len(x) + Len(y)
      /\ \A k \in 1 .. Len(x) : w[k] = x[k]
      /\ \A k \in 1 .. Len(y) : w[Len(x) + k] = y[k]
  <2>1. x \in Seq(Nat) /\ y \in Seq(Nat)
    BY <1>3, <1>4
  <2> QED
    BY <2>1, ConcatPlaces
<1> HIDE DEF w
<1>6. Len(w) = BufSize
  BY <1>1, <1>2, <1>3, <1>4, <1>5
<1>7. ASSUME NEW i \in 1 .. BufSize PROVE w[i] = IF i <= n THEN t[i] ELSE NUL
  <2>1. CASE i <= n
    BY <1>2, <1>3, <1>5, <2>1
  <2>2. CASE ~(i <= n)
    <3>1. i - n \in 1 .. BufSize - n /\ n + (i - n) = i
      BY <1>1, <1>2, <2>2
    <3>2. w[i] = y[i - n] /\ y[i - n] = b[i]
      BY <1>3, <1>4, <1>5, <3>1
    <3> QED
      BY <2>2, <3>2
  <2> QED
    BY <2>1, <2>2
<1> QED
  BY <1>2, <1>5, <1>6, <1>7 DEF w, x, y

LEMMA ReadStep ==
  ASSUME HttpInv, Read
  PROVE  HttpInv'
<1>1. /\ pc = "idle" /\ pc' = "read" /\ parser' = parser
      /\ memory = Blanks(BufSize) /\ Fresh
  BY DEF HttpInv, BufferInv, Read
<1>2. PICK m \in Messages : \E n \in 1 .. Limit(Text(m)) :
        /\ message' = m /\ received' = n
        /\ memory' = SubSeq(Text(m), 1, n) \o SubSeq(memory, n + 1, BufSize)
  BY DEF Read
<1>3. PICK n \in 1 .. Limit(Text(m)) :
        /\ message' = m /\ received' = n
        /\ memory' = SubSeq(Text(m), 1, n) \o SubSeq(memory, n + 1, BufSize)
  BY <1>2
<1>4. Text(m) \in Seq(Nat)
  <2>1. Text(m) \in Seq(Nat \ {NUL})
    BY TextPlaces
  <2> QED
    BY <2>1, ElementOfSeq, SeqDef
<1>5. /\ n \in Nat /\ n <= Len(Text(m)) /\ n <= BufSize
      /\ memory' \in Seq(Nat) /\ Len(memory') = BufSize
      /\ \A i \in 1 .. BufSize : memory'[i] = IF i <= n THEN Text(m)[i] ELSE NUL
  <2> DEFINE b == Blanks(BufSize)
             w == SubSeq(Text(m), 1, n) \o SubSeq(b, n + 1, BufSize)
  <2>1. b \in Seq(Nat) /\ Len(b) = BufSize /\ \A i \in 1 .. BufSize : b[i] = NUL
    BY BlankLine
  <2>2. memory' = w
    BY <1>1, <1>3
  <2> HIDE DEF b
  <2>3. /\ n \in Nat /\ n <= Len(Text(m)) /\ n <= BufSize
        /\ w \in Seq(Nat) /\ Len(w) = BufSize
        /\ \A i \in 1 .. BufSize : w[i] = IF i <= n THEN Text(m)[i] ELSE NUL
    BY <1>4, <2>1, ReadFills
  <2> HIDE DEF w
  <2> QED
    BY <2>2, <2>3
<1>6. BufferHolds'
  <2>1. message' = m /\ received' = n
    BY <1>3
  <2>2. n \in 0 .. BufSize
    BY <1>5, BlankLine
  <2> QED
    BY <1>5, <2>1, <2>2 DEF BufferHolds
<1>7. Fresh'
  BY <1>1 DEF Fresh, parser
<1>8. TypeOK'
  BY <1>1, <1>3, <1>5, BlankLine, NoRequestType DEF TypeOK, Fresh, parser
<1> QED
  BY <1>1, <1>6, <1>7, <1>8
     DEF HttpInv, BufferInv, HeadersInv, DoneInv, RequestLineUnderstood, StaysInside

LEMMA ReturnStep ==
  ASSUME HttpInv, Return
  PROVE  HttpInv'
<1>1. /\ pc' = "idle" /\ message' = None /\ received' = 0 /\ memory' = Blanks(BufSize)
      /\ line_memory' = Blanks(LineSize) /\ m_stream_offset' = 0 /\ bytes_experienced' = 0
      /\ req' = NoRequest
  BY DEF Return, FirstOffset
<1>2. TypeOK'
  BY <1>1, BlankLine, NoRequestType DEF TypeOK
<1> QED
  BY <1>1, <1>2
     DEF HttpInv, BufferInv, Fresh, HeadersInv, DoneInv, RequestLineUnderstood, StaysInside

(* A step that leaves a buffer without saying more. *)
LEMMA OverrunStep ==
  ASSUME TypeOK, BufferHolds, Excused, pc' = "overrun",
         UNCHANGED <<message, received, memory, parser>>
  PROVE  HttpInv'
<1>1. /\ message' = message /\ received' = received /\ memory' = memory
      /\ line_memory' = line_memory /\ m_stream_offset' = m_stream_offset
      /\ bytes_experienced' = bytes_experienced /\ req' = req
  BY DEF parser
<1>2. TypeOK'
  BY <1>1 DEF TypeOK
<1>3. BufferHolds'
  BY <1>1, BufferKept
<1>4. StaysInside'
  BY <1>1 DEF StaysInside, Excused, HeadReceived
<1>5. BufferInv'
  BY <1>3 DEF BufferInv
<1> QED
  BY <1>2, <1>4, <1>5 DEF HttpInv, HeadersInv, DoneInv, RequestLineUnderstood

(* How the first line of a message that was read is taken. *)
LEMMA FirstLine ==
  ASSUME TypeOK, BufferHolds, Fresh, ~LineOverrun, Terminated(NewLine)
  PROVE  LET whole == received >= Len(StartLine(message)) + 2
         IN /\ AtLine(0)
            /\ ValidRequestLine(CString(NewLine)) <=> whole /\ GoodLine(message)
            /\ whole => /\ CString(NewLine) = StartLine(message) \o CRLF
                        /\ 1 \in 1 .. Len(LinesOf(message))
                        /\ NewOffset = Start(message, 1) /\ LineBytes + 2 = Start(message, 1)
                        /\ Start(message, 1) <= received
<1> DEFINE l == StartLine(message)
<1>1. /\ message \in Messages /\ received \in Nat /\ m_stream_offset = 0
      /\ line_memory = Blanks(LineSize)
      /\ line_memory \in Seq(Nat) /\ Len(line_memory) = LineSize
  BY BlankLine DEF BufferHolds, Fresh, TypeOK
<1>2. Len(LinesOf(message)) \in Nat \ {0} /\ Start(message, 0) = 0
  BY <1>1, TextPlaces
<1>3. AtLine(0)
  BY <1>1, <1>2 DEF AtLine
<1>4. CurrentLine(0) = l
  <2>1. LinesOf(message)[1] = l
    BY <1>1, MessageLines
  <2> QED
    BY <1>2, <2>1 DEF CurrentLine, LineAt
<1>5. Len(l) \in Nat
  BY <1>3, <1>4, BufferAtLine
<1>6. Whole(0) <=> received >= Len(l) + 2
  BY <1>1, <1>2, <1>4, <1>5 DEF Whole
<1> HIDE DEF l
<1>7. CASE Whole(0)
  <2>1. Fits(l)
    BY <1>1, <1>3, <1>4, <1>7, UnfitLine
  <2>2. /\ CString(NewLine) = l \o CRLF /\ LineBytes = Len(l)
        /\ NewOffset = Start(message, 0) + Len(l) + 2
    BY <1>1, <1>3, <1>4, <1>7, <2>1, FittingLine
  <2>3. Start(message, 1) = Start(message, 0) + Len(l) + 2
    <3>1. 0 \in 0 .. Len(LinesOf(message)) /\ 0 < Len(LinesOf(message)) /\ 0 + 1 = 1
      BY <1>2
    <3>2. Start(message, 0 + 1) = Start(message, 0) + Len(LineAt(message, 0)) + 2
      BY <1>1, <3>1, LinePlaces
    <3> QED
      BY <1>4, <3>1, <3>2 DEF CurrentLine
  <2>4. ValidRequestLine(l \o CRLF) <=> GoodLine(message)
    BY <1>1, RequestLineMeant DEF l
  <2>5. /\ 1 \in 1 .. Len(LinesOf(message)) /\ NewOffset = Start(message, 1)
        /\ LineBytes + 2 = Start(message, 1) /\ Start(message, 1) <= received
    <3>1. received >= Len(l) + 2
      BY <1>6, <1>7
    <3> QED
      BY <1>1, <1>2, <1>5, <2>2, <2>3, <3>1
  <2> QED
    BY <1>3, <1>6, <1>7, <2>2, <2>4, <2>5 DEF l
<1>8. CASE ~Whole(0)
  <2>1. ~IsSuffix(CRLF, CString(NewLine))
    BY <1>1, <1>3, <1>8, CutRequestLine
  <2>2. ~ValidRequestLine(CString(NewLine))
    BY <2>1 DEF ValidRequestLine
  <2> QED
    BY <1>3, <1>6, <1>8, <2>2 DEF l
<1> QED
  BY <1>7, <1>8

LEMMA RequestLineStep ==
  ASSUME HttpInv, RequestLine
  PROVE  HttpInv'
<1> DEFINE c == CString(NewLine)
           whole == received >= Len(StartLine(message)) + 2
<1>1. /\ pc = "read" /\ message' = message /\ received' = received /\ memory' = memory
      /\ TypeOK /\ BufferHolds /\ Fresh
  BY DEF RequestLine, HttpInv, BufferInv
<1>2. BufferHolds'
  BY <1>1, BufferKept
<1>3. message \in Messages /\ m_stream_offset = 0 /\ line_memory = Blanks(LineSize)
  BY <1>1 DEF BufferHolds, Fresh
<1>4. CASE ~Terminated(memory) \/ LineOverrun \/ ~Terminated(NewLine)
  <2>1. pc' = "overrun" /\ UNCHANGED <<message, received, memory, parser>>
    BY <1>4 DEF RequestLine
  <2>2. Excused
    <3>1. CASE ~Terminated(memory)
      <4>1. ~(received < BufSize)
        BY <1>1, <3>1, BufferEnds
      <4> QED
        <5>1. received \in 0 .. BufSize /\ BufSize \in Nat
          BY <1>1, SizesAssumption DEF BufferHolds
        <5>2. received = BufSize
          BY <4>1, <5>1
        <5> QED
          BY <5>2 DEF Excused
    <3>2. CASE LineOverrun \/ ~Terminated(NewLine)
      <4>1. AtLine(0)
        <5>1. /\ Start(message, 0) = 0 /\ Len(LinesOf(message)) \in Nat \ {0}
          BY <1>3, TextPlaces
        <5>2. received \in Nat
          BY <1>1 DEF BufferHolds
        <5> QED
          BY <1>3, <5>1, <5>2 DEF AtLine
      <4>2. LineOverrun \/ ((LineBytes # 0 \/ m_stream_offset = 0) /\ ~Terminated(NewLine))
        BY <1>3, <3>2
      <4>3. BufferHolds /\ line_memory = Blanks(LineSize)
        BY <1>1, <1>3
      <4> QED
        BY <4>1, <4>2, <4>3, LineStaysInside
    <3> QED
      BY <1>4, <3>1, <3>2
  <2> QED
    BY <1>1, <2>1, <2>2, OverrunStep
<1>5. CASE ~(~Terminated(memory) \/ LineOverrun \/ ~Terminated(NewLine))
  <2>1. /\ m_stream_offset' = NewOffset /\ bytes_experienced' = LineBytes + 2
        /\ IF ValidRequestLine(c)
           THEN pc' = "headers" /\ req' = WithRequestLine(req, c) /\ line_memory' = Blanks(LineSize)
           ELSE pc' = "rejected" /\ line_memory' = NewLine /\ req' = req
    BY <1>5 DEF RequestLine
  <2>2. /\ ValidRequestLine(c) <=> whole /\ GoodLine(message)
        /\ whole => /\ c = StartLine(message) \o CRLF
                    /\ 1 \in 1 .. Len(LinesOf(message))
                    /\ NewOffset = Start(message, 1) /\ LineBytes + 2 = Start(message, 1)
                    /\ Start(message, 1) <= received
    BY <1>1, <1>5, FirstLine
  <2>3. received < BufSize
    BY <1>1, <1>5, BufferEnds
  <2>4. /\ NewLine \in Seq(Nat) /\ Len(NewLine) = LineSize
        /\ NewOffset \in 0 .. BufSize /\ LineBytes \in Nat
    <3>1. /\ memory \in Seq(Nat) /\ Len(memory) = BufSize
          /\ line_memory \in Seq(Nat) /\ Len(line_memory) = LineSize /\ m_stream_offset \in Nat
      BY <1>1, <1>3 DEF TypeOK
    <3> QED
      BY <1>5, <3>1, NewLineType
  <2>5. LineBytes + 2 \in Nat
    BY <2>4
  <2>6. req = NoRequest /\ req \in Requests
    BY <1>1 DEF Fresh, TypeOK
  <2> HIDE DEF c, whole
  <2>7. CASE ValidRequestLine(c)
    <3>1. /\ pc' = "headers" /\ line_memory' = Blanks(LineSize)
          /\ req' = [req EXCEPT !.m_method = message.method, !.m_target = message.path,
                                !.m_version = message.version]
      <4>1. GoodLine(message) /\ c = StartLine(message) \o CRLF
        BY <2>2, <2>7
      <4> QED
        BY <1>3, <2>1, <2>7, <4>1, RequestLineMeant
    <3>2. /\ req' \in Requests /\ req'.m_headers = <<>> /\ req'.m_method = message.method
          /\ req'.m_target = message.path /\ req'.m_version = message.version
      <4>1. message.method \in Seq(Nat) /\ message.path \in Seq(Nat) /\ message.version \in Seq(Nat)
        BY <1>3, MessageParts
      <4>2. req.m_headers = <<>>
        BY <2>6, NoRequestType
      <4> QED
        BY <2>6, <3>1, <4>1, <4>2 DEF Requests
    <3>3. /\ 1 \in 1 .. Len(LinesOf(message)) /\ m_stream_offset' = Start(message, 1)
          /\ bytes_experienced' = m_stream_offset' /\ Start(message, 1) <= received
      BY <2>1, <2>2, <2>7
    <3>4. TypeOK'
      BY <1>1, <2>1, <2>4, <2>5, <3>1, <3>2, BlankLine DEF TypeOK
    <3>5. BufferInv'
      BY <1>1, <1>2, <2>3, <3>1 DEF BufferInv
    <3>6. HeadersInv'
      <4>1. req'.m_headers = MeantUpTo(message, 1 - 1)
        BY <1>3, <3>2, MeantSoFar, 1 - 1 = 0
      <4>2. AtLine(1)'
        BY <1>1, <3>3 DEF AtLine
      <4> QED
        BY <1>1, <3>1, <3>3, <4>1, <4>2 DEF HeadersInv
    <3>7. RequestLineUnderstood'
      BY <1>1, <2>2, <2>7, <3>1, <3>2 DEF RequestLineUnderstood, GoodLine, Target, whole
    <3> QED
      BY <3>1, <3>4, <3>5, <3>6, <3>7 DEF HttpInv, DoneInv, StaysInside
  <2>8. CASE ~ValidRequestLine(c)
    <3>1. pc' = "rejected" /\ line_memory' = NewLine /\ req' = req
      BY <2>1, <2>8
    <3>2. TypeOK'
      BY <1>1, <2>1, <2>4, <2>5, <2>6, <3>1 DEF TypeOK
    <3>3. BufferInv'
      BY <1>1, <1>2, <2>3, <3>1 DEF BufferInv
    <3>4. RequestLineUnderstood'
      BY <1>1, <2>2, <2>8, <3>1 DEF RequestLineUnderstood, GoodLine, Target, whole
    <3> QED
      BY <3>1, <3>2, <3>3, <3>4 DEF HttpInv, HeadersInv, DoneInv, StaysInside
  <2> QED
    BY <2>7, <2>8
<1> QED
  BY <1>4, <1>5

(* In the loop: a line that is found is a header of the message. *)
LEMMA NextHeader ==
  ASSUME BufferHolds, NEW j \in 1 .. Len(LinesOf(message)), AtLine(j),
         line_memory = Blanks(LineSize), ~LineOverrun, LineBytes # 0, Terminated(NewLine)
  PROVE  /\ j + 1 \in 1 .. Len(LinesOf(message)) /\ j \in 1 .. Len(message.headers)
         /\ HeaderOf(CString(NewLine)) = Meant(message.headers[j])
         /\ NewOffset = Start(message, j + 1) /\ Start(message, j + 1) <= received
         /\ m_stream_offset + LineBytes + 2 = Start(message, j + 1)
<1> DEFINE m == message
           n == Len(LinesOf(m))
           l == CurrentLine(j)
<1>1. /\ m \in Messages /\ received \in Nat /\ n \in Nat /\ j \in 1 .. n /\ j \in 0 .. n
      /\ m_stream_offset = Start(m, j)
      /\ line_memory \in Seq(Nat) /\ Len(line_memory) = LineSize
  <2>1. m \in Messages /\ received \in 0 .. BufSize /\ m_stream_offset = Start(m, j)
    BY DEF BufferHolds, AtLine
  <2>2. n \in Nat
    BY <2>1, TextPlaces
  <2>3. line_memory \in Seq(Nat) /\ Len(line_memory) = LineSize
    BY BlankLine
  <2> HIDE DEF m
  <2> QED
    BY <2>1, <2>2, <2>3, SizesAssumption DEF m
<1>2. Ends # {}
  BY DEF LineBytes
<1>3. Whole(j)
  BY <1>2, CutLineHasNoEnd
<1>4. Fits(l)
  BY <1>1, <1>3, UnfitLine
<1>5. /\ CString(NewLine) = l \o CRLF /\ LineBytes = Len(l)
      /\ NewOffset = Start(m, j) + Len(l) + 2
  BY <1>3, <1>4, FittingLine
<1>6. /\ Len(l) \in Nat /\ Start(m, j) \in Nat
      /\ j < n => Start(m, j + 1) = Start(m, j) + Len(l) + 2
      /\ j = n => Len(l) = 0
  BY <1>1, LinePlaces DEF CurrentLine
<1>7. /\ Start(m, j) + Len(l) + 2 <= received
  BY <1>3 DEF Whole
<1> HIDE DEF l, m, n
<1>8. j < n
  BY <1>1, <1>5, <1>6
<1>9. j + 1 \in 1 .. n /\ j + 1 = j + 1 /\ j \in 1 .. n - 1
  BY <1>1, <1>8
<1>10. /\ Len(m.headers) \in Nat /\ n = Len(m.headers) + 1
       /\ \A i \in 1 .. Len(m.headers) :
            /\ m.headers[i] \in HeaderTypes /\ HeaderMeansItself(m.headers[i])
            /\ LinesOf(m)[i + 1] = HeaderLine(m.headers[i])
  BY <1>1, MessageLines DEF n
<1>11. j \in 1 .. Len(m.headers)
  <2>1. n - 1 = Len(m.headers)
    BY <1>10
  <2> QED
    BY <1>9, <2>1
<1>12. l = HeaderLine(m.headers[j])
  <2>1. l = LinesOf(m)[j + 1]
    BY <1>8 DEF CurrentLine, LineAt, l, m, n
  <2> QED
    BY <1>10, <1>11, <2>1
<1>13. HeaderOf(CString(NewLine)) = Meant(m.headers[j])
  BY <1>5, <1>10, <1>11, <1>12, HeaderMeant
<1>14. /\ NewOffset = Start(m, j + 1) /\ Start(m, j + 1) <= received
       /\ m_stream_offset + LineBytes + 2 = Start(m, j + 1)
  BY <1>1, <1>5, <1>6, <1>7, <1>8
<1> QED
  BY <1>9, <1>11, <1>13, <1>14 DEF m, n

LEMMA ParseHeaderLineStep ==
  ASSUME HttpInv, ParseHeaderLine
  PROVE  HttpInv'
<1> DEFINE hs == HeaderOf(CString(NewLine))
<1>1. /\ pc = "headers" /\ pc' = "headers"
      /\ message' = message /\ received' = received /\ memory' = memory
      /\ ~LineOverrun /\ LineBytes # 0 /\ Terminated(NewLine)
      /\ line_memory' = Blanks(LineSize) /\ m_stream_offset' = NewOffset
      /\ bytes_experienced' = bytes_experienced + LineBytes + 2
      /\ req' = [req EXCEPT !.m_headers = @ \o hs]
  BY DEF ParseHeaderLine, NextLine
<1>2. /\ TypeOK /\ BufferHolds /\ received < BufSize /\ line_memory = Blanks(LineSize)
      /\ RequestLineUnderstood
  BY <1>1 DEF HttpInv, BufferInv, HeadersInv
<1>3. PICK j \in 1 .. Len(LinesOf(message)) :
        /\ AtLine(j) /\ bytes_experienced = m_stream_offset
        /\ req.m_headers = MeantUpTo(message, j - 1)
  BY <1>1 DEF HttpInv, HeadersInv
<1>4. message \in Messages /\ req \in Requests /\ bytes_experienced \in Nat
  BY <1>2 DEF BufferHolds, TypeOK
<1>5. /\ j + 1 \in 1 .. Len(LinesOf(message)) /\ j \in 1 .. Len(message.headers)
      /\ hs = Meant(message.headers[j])
      /\ NewOffset = Start(message, j + 1) /\ Start(message, j + 1) <= received
      /\ m_stream_offset + LineBytes + 2 = Start(message, j + 1)
  BY <1>1, <1>2, <1>3, NextHeader
<1> HIDE DEF hs
<1>6. /\ MeantUpTo(message, j) = req.m_headers \o hs
      /\ MeantUpTo(message, j) \in Seq(HeaderEntries)
  <2>1. Len(message.headers) \in Nat
    BY <1>4, MeantSoFar
  <2>2. j \in 0 .. Len(message.headers)
    BY <1>5, <2>1
  <2>3. /\ MeantUpTo(message, j) \in Seq(HeaderEntries)
        /\ MeantUpTo(message, j) = MeantUpTo(message, j - 1) \o Meant(message.headers[j])
    BY <1>4, <1>5, <2>2, MeantSoFar
  <2> QED
    BY <1>3, <1>5, <2>3
<1>7. /\ req' \in Requests /\ req'.m_headers = MeantUpTo(message, j)
      /\ req'.m_method = req.m_method /\ req'.m_target = req.m_target
      /\ req'.m_version = req.m_version
  <2> DEFINE new == MeantUpTo(message, j)
  <2>1. req' = [req EXCEPT !.m_headers = new]
    BY <1>1, <1>6
  <2>2. new \in Seq([key : Seq(Nat), val : Seq(Nat)])
    BY <1>6 DEF HeaderEntries
  <2> HIDE DEF new
  <2>3. req' \in Requests /\ req'.m_headers = new
    BY <1>4, <2>1, <2>2 DEF Requests
  <2>4. /\ req'.m_method = req.m_method /\ req'.m_target = req.m_target
        /\ req'.m_version = req.m_version
    BY <1>4, <2>1 DEF Requests
  <2> QED
    BY <2>3, <2>4 DEF new
<1>8. /\ NewOffset \in 0 .. BufSize /\ LineBytes \in Nat
  <2>1. /\ memory \in Seq(Nat) /\ Len(memory) = BufSize
        /\ line_memory \in Seq(Nat) /\ Len(line_memory) = LineSize /\ m_stream_offset \in Nat
    BY <1>2 DEF TypeOK
  <2> QED
    BY <1>1, <2>1, NewLineType
<1>9. bytes_experienced' \in Nat /\ bytes_experienced' = m_stream_offset'
  <2>1. bytes_experienced + LineBytes + 2 \in Nat
    BY <1>4, <1>8
  <2> QED
    BY <1>1, <1>3, <1>5, <2>1
<1>10. TypeOK'
  <2>1. line_memory' \in Seq(Nat) /\ Len(line_memory') = LineSize
    BY <1>1, BlankLine
  <2> QED
    BY <1>1, <1>2, <1>7, <1>8, <1>9, <2>1 DEF TypeOK
<1>11. BufferInv'
  <2>1. BufferHolds'
    BY <1>1, <1>2, BufferKept
  <2> QED
    BY <1>1, <1>2, <2>1 DEF BufferInv
<1>12. HeadersInv'
  <2>1. AtLine(j + 1)'
    <3>1. j + 1 \in 0 .. Len(LinesOf(message))
      BY <1>5
    <3> QED
      BY <1>1, <1>5, <3>1 DEF AtLine
  <2>2. (j + 1) - 1 = j
    OBVIOUS
  <2> QED
    BY <1>1, <1>5, <1>7, <1>9, <2>1, <2>2 DEF HeadersInv
<1>13. RequestLineUnderstood'
  BY <1>1, <1>2, <1>7 DEF RequestLineUnderstood
<1> QED
  BY <1>1, <1>10, <1>11, <1>12, <1>13 DEF HttpInv, DoneInv, StaysInside

LEMMA HeaderOverrunStep ==
  ASSUME HttpInv, HeaderOverrun
  PROVE  HttpInv'
<1>1. /\ pc = "headers" /\ pc' = "overrun" /\ UNCHANGED <<message, received, memory, parser>>
      /\ LineOverrun \/ (LineBytes # 0 /\ ~Terminated(NewLine))
  BY DEF HeaderOverrun
<1>2. TypeOK /\ BufferHolds /\ line_memory = Blanks(LineSize)
  BY <1>1 DEF HttpInv, BufferInv, HeadersInv
<1>3. PICK j \in 1 .. Len(LinesOf(message)) : AtLine(j)
  BY <1>1 DEF HttpInv, HeadersInv
<1>4. Excused
  <2>1. LineOverrun \/ ((LineBytes # 0 \/ m_stream_offset = 0) /\ ~Terminated(NewLine))
    BY <1>1
  <2>2. BufferHolds /\ line_memory = Blanks(LineSize) /\ AtLine(j)
    BY <1>2, <1>3
  <2> QED
    BY <2>1, <2>2, LineStaysInside
<1> QED
  BY <1>1, <1>2, <1>4, OverrunStep

(* The loop ends behind the last header, if all of them were received and  *)
(* fit.                                                                    *)
LEMMA LastHeader ==
  ASSUME BufferHolds, NEW j \in 1 .. Len(LinesOf(message)), AtLine(j),
         line_memory = Blanks(LineSize), LineBytes = 0, AllFit(message), HeadReceived
  PROVE  j = Len(LinesOf(message)) /\ m_stream_offset + 2 = Len(HeadText(message))
<1> DEFINE m == message
           n == Len(LinesOf(m))
           l == CurrentLine(j)
<1>1. /\ m \in Messages /\ received \in Nat /\ n \in Nat /\ j \in 1 .. n /\ j \in 0 .. n
      /\ m_stream_offset = Start(m, j)
  <2>1. m \in Messages /\ received \in 0 .. BufSize /\ m_stream_offset = Start(m, j)
    BY DEF BufferHolds, AtLine
  <2>2. n \in Nat
    BY <2>1, TextPlaces
  <2> HIDE DEF m
  <2> QED
    BY <2>1, <2>2, SizesAssumption DEF m
<1>2. /\ Len(l) \in Nat /\ Start(m, j) \in Nat
      /\ Start(m, j) + Len(l) + 2 <= Len(HeadText(m))
      /\ j < n => Len(l) > 0
  BY <1>1, LinePlaces DEF CurrentLine
<1>3. /\ Len(HeadText(m)) \in Nat /\ Len(HeadText(m)) = Start(m, n) + 2
  BY <1>1, TextPlaces
<1>4. Len(HeadText(m)) <= received
  BY DEF HeadReceived
<1>5. Whole(j)
  <2>1. Start(m, j) + Len(l) + 2 <= received
    <3> HIDE DEF m, l
    <3> QED
      BY <1>1, <1>2, <1>3, <1>4
  <2> QED
    BY <2>1 DEF Whole
<1>6. Fits(l)
  BY <1>1, UnfitMessage DEF CurrentLine
<1>7. Len(l) = 0
  BY <1>5, <1>6, FittingLine
<1> HIDE DEF m, n, l
<1>8. j = n
  BY <1>1, <1>2, <1>7
<1> QED
  BY <1>1, <1>3, <1>8 DEF m, n

LEMMA EndOfHeadersStep ==
  ASSUME HttpInv, EndOfHeaders
  PROVE  HttpInv'
<1>1. /\ pc = "headers" /\ pc' = "done"
      /\ message' = message /\ received' = received /\ memory' = memory /\ req' = req
      /\ ~LineOverrun /\ LineBytes = 0
      /\ line_memory' = NewLine /\ m_stream_offset' = NewOffset
      /\ bytes_experienced' = bytes_experienced + 2
  BY DEF EndOfHeaders
<1>2. /\ TypeOK /\ BufferHolds /\ received < BufSize /\ line_memory = Blanks(LineSize)
      /\ RequestLineUnderstood
  BY <1>1 DEF HttpInv, BufferInv, HeadersInv
<1>3. PICK j \in 1 .. Len(LinesOf(message)) :
        /\ AtLine(j) /\ bytes_experienced = m_stream_offset
        /\ req.m_headers = MeantUpTo(message, j - 1)
  BY <1>1 DEF HttpInv, HeadersInv
<1>4. message \in Messages /\ bytes_experienced \in Nat
  BY <1>2 DEF BufferHolds, TypeOK
<1>5. /\ NewLine \in Seq(Nat) /\ Len(NewLine) = LineSize /\ NewOffset \in 0 .. BufSize
  <2>1. /\ memory \in Seq(Nat) /\ Len(memory) = BufSize
        /\ line_memory \in Seq(Nat) /\ Len(line_memory) = LineSize /\ m_stream_offset \in Nat
    BY <1>2 DEF TypeOK
  <2> QED
    BY <1>1, <2>1, NewLineType
<1>6. TypeOK'
  <2>1. bytes_experienced' \in Nat
    BY <1>1, <1>4
  <2> QED
    BY <1>1, <1>2, <1>5, <2>1 DEF TypeOK
<1>7. BufferInv'
  <2>1. BufferHolds'
    BY <1>1, <1>2, BufferKept
  <2> QED
    BY <1>1, <1>2, <2>1 DEF BufferInv
<1>8. ASSUME AllFit(message), HeadReceived
      PROVE  /\ req.m_headers = MeantHeaders(message)
             /\ bytes_experienced + 2 = Len(HeadText(message))
  <2>1. j = Len(LinesOf(message)) /\ m_stream_offset + 2 = Len(HeadText(message))
    BY <1>1, <1>2, <1>3, <1>8, LastHeader
  <2>2. Len(message.headers) \in Nat /\ Len(LinesOf(message)) = Len(message.headers) + 1
    BY <1>4, MessageLines
  <2>3. j - 1 = Len(message.headers)
    BY <2>1, <2>2
  <2>4. MeantUpTo(message, Len(message.headers)) = MeantHeaders(message)
    BY <1>4, MeantSoFar
  <2> QED
    BY <1>3, <2>1, <2>3, <2>4
<1>9. DoneInv'
  <2>1. HeadReceived' <=> HeadReceived
    BY <1>1 DEF HeadReceived
  <2>2. j \in 1 .. Len(LinesOf(message')) /\ req'.m_headers = MeantUpTo(message', j - 1)
    BY <1>1, <1>3
  <2>3. ASSUME AllFit(message'), HeadReceived'
        PROVE  req'.m_headers = MeantHeaders(message') /\ bytes_experienced' = Len(HeadText(message'))
    BY <1>1, <1>8, <2>1, <2>3
  <2> QED
    BY <2>2, <2>3 DEF DoneInv
<1>10. RequestLineUnderstood'
  BY <1>1, <1>2 DEF RequestLineUnderstood
<1> QED
  BY <1>1, <1>6, <1>7, <1>9, <1>10 DEF HttpInv, HeadersInv, StaysInside

LEMMA HttpStutter ==
  ASSUME HttpInv, UNCHANGED vars
  PROVE  HttpInv'
<1>1. /\ message' = message /\ received' = received /\ memory' = memory /\ pc' = pc
      /\ line_memory' = line_memory /\ m_stream_offset' = m_stream_offset
      /\ bytes_experienced' = bytes_experienced /\ req' = req
  BY DEF vars, parser
<1>2. TypeOK'
  BY <1>1 DEF HttpInv, TypeOK
<1>3. BufferInv'
  BY <1>1 DEF HttpInv, BufferInv, BufferHolds, Fresh
<1>4. HeadersInv'
  BY <1>1 DEF HttpInv, HeadersInv, AtLine
<1>5. DoneInv'
  BY <1>1 DEF HttpInv, DoneInv, HeadReceived
<1>6. RequestLineUnderstood'
  BY <1>1 DEF HttpInv, RequestLineUnderstood
<1>7. StaysInside'
  BY <1>1 DEF HttpInv, StaysInside, HeadReceived
<1> QED
  BY <1>2, <1>3, <1>4, <1>5, <1>6, <1>7 DEF HttpInv

LEMMA HttpInvariant == Spec => []HttpInv
<1>1. Init => HttpInv
  BY HttpInit
<1>2. HttpInv /\ [Next]_vars => HttpInv'
  BY ReadStep, RequestLineStep, ParseHeaderLineStep, HeaderOverrunStep, EndOfHeadersStep,
     ReturnStep, HttpStutter DEF Next, ParseHttpMsg
<1> QED
  BY <1>1, <1>2, PTL DEF Spec

(* What has been read of the message is the beginning of what it means. *)
LEMMA ReadSoFar ==
  ASSUME HttpInv, pc \in {"headers", "done"}
  PROVE  /\ message \in Messages
         /\ req.m_headers \in Seq(HeaderEntries) /\ MeantHeaders(message) \in Seq(HeaderEntries)
         /\ Len(req.m_headers) \in Nat /\ Len(MeantHeaders(message)) \in Nat
         /\ Len(req.m_headers) <= Len(MeantHeaders(message))
         /\ \A k \in 1 .. Len(req.m_headers) : req.m_headers[k] = MeantHeaders(message)[k]
<1>1. message \in Messages
  BY DEF HttpInv, BufferInv, BufferHolds
<1>2. PICK j \in 1 .. Len(LinesOf(message)) : req.m_headers = MeantUpTo(message, j - 1)
  BY DEF HttpInv, HeadersInv, DoneInv
<1>3. j - 1 \in 0 .. Len(message.headers)
  <2>1. Len(message.headers) \in Nat /\ Len(LinesOf(message)) = Len(message.headers) + 1
    BY <1>1, MessageLines
  <2> QED
    BY <2>1
<1> DEFINE n == j - 1
<1>4. n \in 0 .. Len(message.headers) /\ req.m_headers = MeantUpTo(message, n)
  BY <1>2, <1>3
<1> HIDE DEF n
<1>5. /\ MeantUpTo(message, n) \in Seq(HeaderEntries) /\ MeantHeaders(message) \in Seq(HeaderEntries)
      /\ Len(MeantUpTo(message, n)) \in Nat /\ Len(MeantHeaders(message)) \in Nat
      /\ Len(MeantUpTo(message, n)) <= Len(MeantHeaders(message))
      /\ \A k \in 1 .. Len(MeantUpTo(message, n)) :
           MeantHeaders(message)[k] = MeantUpTo(message, n)[k]
  BY <1>1, <1>4, MeantSoFar
<1> QED
  BY <1>1, <1>4, <1>5

(* Every variable has its type: the Request holds words and the reader's   *)
(* offset never leaves the buffer.                                         *)
THEOREM HttpTypeCorrect == Spec => []TypeOK
<1>1. HttpInv => TypeOK
  BY DEF HttpInv
<1> QED
  BY <1>1, HttpInvariant, PTL

(* ParseHttpMsg accepts a request line exactly if it says what a request   *)
(* has to, whatever part of the message was read.                          *)
THEOREM RequestIsUnderstood == Spec => []RequestLineUnderstood
<1>1. HttpInv => RequestLineUnderstood
  BY DEF HttpInv
<1> QED
  BY <1>1, HttpInvariant, PTL

(* getline and strlen stay inside the buffers, but for the three reasons   *)
(* that StaysInside names.                                                 *)
THEOREM ParserStaysInside == Spec => []StaysInside
<1>1. HttpInv => StaysInside
  BY DEF HttpInv
<1> QED
  BY <1>1, HttpInvariant, PTL

(* The loop over the headers skips, splits and repeats none, and at its    *)
(* end the two counts of ParseHttpMsg tell the length of the body.         *)
THEOREM HeadersAreInOrder == Spec => []HeadersInOrder
<1>1. ASSUME HttpInv PROVE HeadersInOrder
  <2> DEFINE names(hs) == [i \in DOMAIN hs |-> hs[i].key]
             hs == req.m_headers
             ms == MeantHeaders(message)
             found == names(hs)
             meant == names(ms)
  <2>1. ASSUME pc \in {"headers", "done"} PROVE IsPrefix(found, meant)
    <3>1. /\ hs \in Seq(HeaderEntries) /\ ms \in Seq(HeaderEntries)
          /\ Len(hs) \in Nat /\ Len(ms) \in Nat /\ Len(hs) <= Len(ms)
          /\ \A k \in 1 .. Len(hs) : hs[k] = ms[k]
      BY <1>1, <2>1, ReadSoFar
    <3> DEFINE X == Seq(Nat)
    <3>2. /\ DOMAIN hs = 1 .. Len(hs) /\ DOMAIN ms = 1 .. Len(ms)
          /\ \A i \in 1 .. Len(hs) : hs[i] \in HeaderEntries
          /\ \A i \in 1 .. Len(ms) : ms[i] \in HeaderEntries
      BY <3>1, ElementOfSeq, LenProperties
    <3>3. \A e \in HeaderEntries : e.key \in X
      BY DEF HeaderEntries
    <3> HIDE DEF X, hs, ms
    <3>4. found \in [1 .. Len(hs) -> X] /\ meant \in [1 .. Len(ms) -> X]
      BY <3>2, <3>3
    <3>5. \A k \in 1 .. Len(hs) : found[k] = meant[k]
      <4>1. \A k \in 1 .. Len(hs) : k \in 1 .. Len(ms)
        BY <3>1
      <4> QED
        BY <3>1, <3>2, <4>1
    <3> HIDE DEF found, meant
    <3>6. /\ found \in Seq(X) /\ Len(found) = Len(hs)
          /\ meant \in Seq(X) /\ Len(meant) = Len(ms)
      BY <3>1, <3>4, FunctionIsSeq
    <3>7. SubSeq(found, 1, Len(found)) = SubSeq(meant, 1, Len(found))
      <4> DEFINE n == Len(hs)
                 a == SubSeq(found, 1, n)
                 b == SubSeq(meant, 1, n)
      <4>1. n \in Nat /\ n <= Len(found) /\ n <= Len(meant)
            /\ 0 \in Nat /\ 0 <= n /\ 0 + 1 = 1 /\ n - 0 = n /\ \A i \in 1 .. n : 0 + i = i
        BY <3>1, <3>6
      <4>2. /\ SubSeq(found, 0 + 1, n) \in Seq(X) /\ Len(SubSeq(found, 0 + 1, n)) = n - 0
            /\ \A i \in 1 .. n - 0 : SubSeq(found, 0 + 1, n)[i] = found[0 + i]
        BY <3>6, <4>1, SubSeqPlaces
      <4>3. /\ SubSeq(meant, 0 + 1, n) \in Seq(X) /\ Len(SubSeq(meant, 0 + 1, n)) = n - 0
            /\ \A i \in 1 .. n - 0 : SubSeq(meant, 0 + 1, n)[i] = meant[0 + i]
        BY <3>6, <4>1, SubSeqPlaces
      <4>4. /\ a \in Seq(X) /\ Len(a) = n /\ \A i \in 1 .. n : a[i] = found[i]
            /\ b \in Seq(X) /\ Len(b) = n /\ \A i \in 1 .. n : b[i] = meant[i]
        BY <4>1, <4>2, <4>3
      <4>5. \A i \in 1 .. n : found[i] = meant[i]
        BY <3>5
      <4> HIDE DEF n, a, b
      <4>6. a = b
        BY <4>4, <4>5, SeqEqual
      <4> QED
        BY <3>6, <4>6 DEF a, b, n
    <3> QED
      BY <3>1, <3>6, <3>7 DEF IsPrefix
  <2>2. ASSUME pc = "done", AllFit(message), HeadReceived
        PROVE  /\ found = meant
               /\ SumBytes - bytes_experienced = received - Len(HeadText(message))
    <3>1. hs = ms /\ bytes_experienced = Len(HeadText(message))
      BY <1>1, <2>2 DEF HttpInv, DoneInv
    <3>2. BufferHolds /\ received < BufSize
      BY <1>1, <2>2 DEF HttpInv, BufferInv
    <3>3. SumBytes = received
      BY <3>2, BufferEnds
    <3> QED
      BY <3>1, <3>3
  <2> HIDE DEF found, meant
  <2>3. /\ pc \in {"headers", "done"} => IsPrefix(found, meant)
        /\ pc = "done" /\ AllFit(message) /\ HeadReceived =>
             /\ found = meant
             /\ SumBytes - bytes_experienced = received - Len(HeadText(message))
    BY <2>1, <2>2
  <2> QED
    BY <2>3 DEF HeadersInOrder, found, meant
<1> QED
  BY <1>1, HttpInvariant, PTL

(* decode_url and parse_header give every value as the client meant it.    *)
THEOREM ValuesAreDecoded == Spec => []ValuesDecoded
<1>1. ASSUME HttpInv PROVE ValuesDecoded
  <2>1. SUFFICES ASSUME pc \in {"headers", "done"}, NEW i \in DOMAIN req.m_headers
                 PROVE  req.m_headers[i] = MeantHeaders(message)[i]
    BY DEF ValuesDecoded
  <2>2. /\ req.m_headers \in Seq(HeaderEntries)
        /\ \A k \in 1 .. Len(req.m_headers) : req.m_headers[k] = MeantHeaders(message)[k]
    BY <1>1, <2>1, ReadSoFar
  <2>3. i \in 1 .. Len(req.m_headers)
    BY <2>1, <2>2, LenProperties
  <2> QED
    BY <2>2, <2>3
<1> QED
  BY <1>1, HttpInvariant, PTL

(* A request whose lines fit, in a buffer that it does not fill, is parsed *)
(* without leaving a buffer, and then has all its headers, as they are     *)
(* meant.                                                                  *)
THEOREM WholeRequestsAreParsed ==
  Spec => [](message \in Messages /\ AllFit(message) /\ HeadReceived /\ received < BufSize =>
               /\ pc # "overrun"
               /\ pc = "done" => req.m_headers = MeantHeaders(message))
<1>1. HttpInv => (message \in Messages /\ AllFit(message) /\ HeadReceived /\ received < BufSize =>
                    /\ pc # "overrun"
                    /\ pc = "done" => req.m_headers = MeantHeaders(message))
  <2>1. ASSUME HttpInv, AllFit(message), HeadReceived, received < BufSize PROVE pc # "overrun"
    <3>1. received # BufSize
      BY <2>1, SizesAssumption DEF HttpInv, TypeOK
    <3> QED
      BY <2>1, <3>1 DEF HttpInv, StaysInside
  <2>2. ASSUME HttpInv, AllFit(message), HeadReceived, pc = "done"
        PROVE  req.m_headers = MeantHeaders(message)
    BY <2>2 DEF HttpInv, DoneInv
  <2> QED
    BY <2>1, <2>2
<1> QED
  BY <1>1, HttpInvariant, PTL
=============================================================================
