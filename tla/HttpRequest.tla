---------------------------- MODULE HttpRequest ----------------------------
(***************************************************************************)
(* ParseHttpMsg (src/server/HttpServer.cpp:130-198) with the line reader   *)
(* (src/stream/stream_line_reader.cpp) and the parsing functions           *)
(* (src/http/Request.{h,cpp}): one buffer of the server that goes from one *)
(* request to the next.                                                    *)
(*                                                                         *)
(* A character is its ASCII code.  A word whose letters do not matter (a   *)
(* method, a version, the name of a header) is one character beyond 255.   *)
(* The client's message is kept in abstract form, as history, next to the  *)
(* bytes it makes: the properties compare the two.                         *)
(***************************************************************************)
EXTENDS Integers, SequencesExt

CONSTANTS
  BufSize,   (* the stream's buffer, 4096 in the code (Server.cpp:11)      *)
  LineSize,  (* http_work_thread.line_memory, 128 in HttpServer.h:44       *)
  Messages   (* bound: what clients send, records as in Text below         *)

ASSUME SizesAssumption == BufSize \in Nat \ {0} /\ LineSize \in Nat \ {0}

VARIABLES
  message,           (* history: what the client has sent                  *)
  received,          (* bytes of it that the read found                    *)
  memory,            (* the stream's buffer                                *)
  line_memory,
  m_stream_offset,
  bytes_experienced,
  req,               (* the Request                                        *)
  pc                 (* "idle", "read", "headers", "done", "rejected", or  *)
                     (* "overrun": an access beyond an end of a buffer,    *)
                     (* after which nothing is said                        *)

parser == <<line_memory, m_stream_offset, bytes_experienced, req>>
vars == <<message, received, memory, parser, pc>>

NUL == 0
TAB == 9
LF == 10
CR == 13
SP == 32
CRLF == <<CR, LF>>
Blank == {SP, TAB}                        (* is_space_or_tab *)
Methods == 1001 .. 1010                   (* GET to PRI *)
HttpVersions == {1011, 1012}              (* HTTP/1.1, HTTP/1.0 *)
LocationSpellings == {1021, 1022}         (* equal for compare_case_ignore *)

Digits == [c \in (48 .. 57) \cup (65 .. 70) \cup (97 .. 102) |->
             IF c <= 57 THEN c - 48 ELSE IF c <= 70 THEN c - 55 ELSE c - 87]   (* is_hex *)

Blanks(n) == [i \in 1 .. n |-> NUL]

(* s without the blanks at its ends. *)
Solid(s) == {i \in 1 .. Len(s) : s[i] \notin Blank}
TrimRight(s) == IF Solid(s) = {} THEN <<>> ELSE SubSeq(s, 1, Max(Solid(s)))
TrimLeft(s) == IF Solid(s) = {} THEN <<>> ELSE SubSeq(s, Min(Solid(s)), Len(s))

(* What a C string at s holds, if it ends within s. *)
Terminated(s) == Contains(s, NUL)
CString(s) == SubSeq(s, 1, SelectInSeq(s, LAMBDA c : c = NUL) - 1)

Before(s, c) == SubSeq(s, 1, SelectInSeq(s, LAMBDA d : d = c) - 1)
After(s, c) == SubSeq(s, SelectInSeq(s, LAMBDA d : d = c) + 1, Len(s))

-----------------------------------------------------------------------------
(***************************************************************************)
(* decode_url.                                                             *)
(***************************************************************************)
Surrogates == 55296 .. 57343

(* to_utf8 for the codes that four digits can say; the surrogates have no *)
(* bytes.                                                                  *)
Utf8(code) ==
  CASE code < 128 -> <<code>>
    [] code \in 128 .. 2047 ->
         <<192 + ((code \div 64) % 32), 128 + (code % 64)>>
    [] code \in Surrogates -> <<>>
    [] OTHER ->
         <<224 + ((code \div 4096) % 16), 128 + ((code \div 64) % 64),
           128 + (code % 64)>>

(* from_hex_to_i: what the n digits at s[i] say, or -1. *)
HexAt(s, i, n) ==
  IF i + n - 1 <= Len(s) /\ \A j \in i .. i + n - 1 : s[j] \in DOMAIN Digits
  THEN LET val[k \in 0 .. n] ==
             IF k = 0 THEN 0 ELSE val[k - 1] * 16 + Digits[s[i + k - 1]]
       IN val[n]
  ELSE -1

(* convert_plus_to_space is false in the only call. *)
DecodeUrl(s) ==
  LET Escaped(i) == s[i] = 37 /\ i < Len(s)
      from[i \in 1 .. Len(s) + 1] ==
        IF i > Len(s) THEN <<>>
        ELSE IF Escaped(i) /\ s[i + 1] = 117 /\ HexAt(s, i + 2, 4) # -1
        THEN Utf8(HexAt(s, i + 2, 4)) \o from[i + 6]
        ELSE IF Escaped(i) /\ HexAt(s, i + 1, 2) # -1
        THEN <<HexAt(s, i + 1, 2)>> \o from[i + 3]
        ELSE <<s[i]>> \o from[i + 1]
  IN from[1]

(***************************************************************************)
(* parse_request_line and parse_header, on the C string of a line.         *)
(***************************************************************************)
(* split: where a space or the end of s is, what is between it and the     *)
(* space before, without its blanks, is a piece, unless it is empty.       *)
PieceAt(s, i) ==
  LET beg == Max({0} \cup {j \in 1 .. i - 1 : s[j] = SP})
      piece == TrimLeft(TrimRight(SubSeq(s, beg + 1, i - 1)))
  IN IF (i <= Len(s) /\ s[i] # SP) \/ piece = <<>> THEN <<>> ELSE <<piece>>

Pieces(s) == FlattenSeq([i \in 1 .. Len(s) + 1 |-> PieceAt(s, i)])

(* A target without its fragment. *)
NoFragment(target) ==
  IF Contains(target, 35) THEN Before(target, 35) ELSE target

(* Seeded fault: more than three pieces will do. *)
Lax_HasThree(ps) == Len(ps) >= 3

HasThree(ps) == Len(ps) = 3

ValidRequestLine(s) ==
  /\ IsSuffix(CRLF, s)
  /\ LET ps == Pieces(SubSeq(s, 1, Len(s) - 2))
     IN /\ HasThree(ps)
        /\ ps[1] \in {<<w>> : w \in Methods}
        /\ ps[3] \in {<<w>> : w \in HttpVersions}

(* What a valid line sets in a Request. *)
WithRequestLine(r, s) ==
  LET ps == Pieces(SubSeq(s, 1, Len(s) - 2))
  IN [r EXCEPT !.m_method = ps[1], !.m_target = NoFragment(ps[2]),
               !.m_version = ps[3]]

(* m_headers is the sequence in which headers are put into the code's      *)
(* multimap.  That one is sorted by name, without regard to case           *)
(* (Request.h:11-19), and keeps equal names in this order, so that the     *)
(* sequence determines it.                                                 *)
NoRequest ==
  [m_method |-> <<>>, m_target |-> <<>>, m_version |-> <<>>, m_headers |-> <<>>]

(* What parse_header adds for a line: one header, or none. *)
HeaderOf(s) ==
  LET t == TrimRight(s)
      key == Before(t, 58)
      val == TrimLeft(After(t, 58))
  IN IF ~Contains(t, 58) \/ val = <<>> THEN <<>>
     ELSE <<[key |-> key,
             val |-> IF key \in {<<w>> : w \in LocationSpellings} THEN val
                     ELSE DecodeUrl(val)]>>

-----------------------------------------------------------------------------
(***************************************************************************)
(* getline, from the current offset.                                       *)
(***************************************************************************)
(* Where the line reader sees a CR LF, in bytes from the offset. *)
Ends == {k \in 0 .. LineSize - 1 :
           m_stream_offset + k + 2 <= BufSize
           /\ memory[m_stream_offset + k + 1] = CR
           /\ memory[m_stream_offset + k + 2] = LF}

(* Bytes copied before the CR LF, or up to the size of the line. *)
Copied == IF Ends = {} THEN LineSize ELSE Min(Ends)

(* What it returns. *)
LineBytes == IF Ends = {} THEN 0 ELSE Min(Ends)

(* Seeded fault: the LF is left for the next line. *)
LeavesLF_NewOffset ==
  m_stream_offset + Copied + (IF Ends = {} THEN 0 ELSE 1)

(* Where the next line begins. *)
NewOffset == m_stream_offset + Copied + (IF Ends = {} THEN 0 ELSE 2)

(* line_memory afterwards: the rest of it is what it was. *)
NewLine ==
  LET got == SubSeq(memory, m_stream_offset + 1, m_stream_offset + Copied)
               \o (IF Ends = {} THEN <<>> ELSE CRLF)
  IN got \o SubSeq(line_memory, Len(got) + 1, LineSize)

(* It reads beyond the stream's buffer: no end in sight, or a CR as the    *)
(* last byte.  It writes beyond line_memory: the LF of a line that fills   *)
(* it.                                                                     *)
LineOverrun ==
  \/ Ends = {} /\ m_stream_offset + LineSize > BufSize
  \/ Ends = {} /\ m_stream_offset + LineSize = BufSize /\ memory[BufSize] = CR
  \/ Ends # {} /\ Copied + 2 > LineSize

-----------------------------------------------------------------------------
(***************************************************************************)
(* What a client's message is and what it says.                            *)
(***************************************************************************)
(* A header's value is a sequence of items: a character as it is, a byte   *)
(* written %XX, a code written %uXXXX.                                     *)
Hex(n, digits) == [i \in 1 .. digits |->
                     LET weights == <<1, 16, 256, 4096>>
                         d == (n \div weights[digits - i + 1]) % 16
                     IN IF d < 10 THEN 48 + d ELSE 55 + d]

ItemText(item) ==
  CASE item.kind = "char" -> <<item.value>>
    [] item.kind = "byte" -> <<37>> \o Hex(item.value, 2)
    [] item.kind = "code" -> <<37, 117>> \o Hex(item.value, 4)

(* UTF-8 by its definition: n bytes carry a code six bits each, from the   *)
(* last to the first, and the first says n.                                *)
Utf8Bytes(code) ==
  LET n == CASE code < 128 -> 1 [] code \in 128 .. 2047 -> 2 [] OTHER -> 3
      lead == <<0, 192, 224>>
      weights == <<1, 64, 4096>>
  IN [i \in 1 .. n |-> IF i = 1 THEN lead[n] + code \div weights[n]
                       ELSE 128 + ((code \div weights[n - i + 1]) % 64)]

ItemBytes(item) ==
  CASE item.kind \in {"char", "byte"} -> <<item.value>>
    [] item.kind = "code" -> IF item.value \in Surrogates THEN <<>>
                             ELSE Utf8Bytes(item.value)

Each(Op(_), s) == FlattenSeq([i \in DOMAIN s |-> Op(s[i])])

StartLine(m) ==
  m.method \o m.gap \o m.path \o m.fragment \o m.gap \o m.version \o m.rest

HeaderLine(h) == h.key \o h.colon \o h.gap \o Each(ItemText, h.items)

LinesOf(m) ==
  <<StartLine(m)>> \o [i \in DOMAIN m.headers |-> HeaderLine(m.headers[i])]

HeadText(m) == Each(LAMBDA l : l \o CRLF, LinesOf(m)) \o CRLF

Text(m) == HeadText(m) \o m.body

(* The headers that a message means: lines with a colon; Location is not   *)
(* decoded, and every value keeps its CR LF.                               *)
Meant(h) ==
  IF h.colon = <<>> THEN <<>>
  ELSE <<[key |-> h.key,
          val |-> (IF h.key \in {<<w>> : w \in LocationSpellings}
                   THEN Each(ItemText, h.items)
                   ELSE Each(ItemBytes, h.items)) \o CRLF]>>

MeantHeaders(m) == Each(Meant, m.headers)

(* A line with its CR LF and a NUL fits into line_memory. *)
Fits(l) == Len(l) + 3 <= LineSize
AllFit(m) == \A i \in DOMAIN LinesOf(m) : Fits(LinesOf(m)[i])
HeadReceived == received >= Len(HeadText(message))

-----------------------------------------------------------------------------
(***************************************************************************)
(* What a client may send, each text in one abstract form.  The words of a *)
(* request line have no blanks and are told apart by spaces; lines end     *)
(* with their CR LF and are not empty; there is no NUL.                    *)
(***************************************************************************)
Chars(excluded) == Seq(Nat \ excluded)

StartLineMeansItself(m) ==
  /\ m.method \in Chars(Blank) /\ m.version \in Chars(Blank)
  /\ m.path \in Chars(Blank \cup {35}) /\ m.fragment \in Chars(Blank)
  /\ m.method # <<>> /\ m.version # <<>>
  /\ m.fragment # <<>> => m.fragment[1] = 35
  /\ m.gap \in Seq(Blank) /\ m.rest \in Chars({})
  /\ IF m.path \o m.fragment = <<>> THEN Solid(m.rest) = {} ELSE Contains(m.gap, SP)

(* Four digits say them. *)
Codes == {n \in Nat : n \div 4096 < 16}

ItemTypes ==
  [kind : {"char"}, value : Nat] \cup [kind : {"byte"}, value : 0 .. 255]
    \cup [kind : {"code"}, value : Codes]

HeaderTypes ==
  [key : Chars({58}), colon : {<<>>, <<58>>}, gap : Seq(Blank), items : Seq(ItemTypes)]

(* A % that is meant as it is does not begin what reads as an escape. *)
NoStrayEscape(items) ==
  LET s == Each(ItemText, items) \o CRLF IN
  \A i \in DOMAIN items :
    LET p == Len(Each(ItemText, SubSeq(items, 1, i))) IN
    items[i].kind = "char" /\ items[i].value = 37 =>
      HexAt(s, p + 1, 2) = -1 /\ ~(s[p + 1] = 117 /\ HexAt(s, p + 2, 4) # -1)

HeaderMeansItself(h) ==
  /\ NoStrayEscape(h.items)
  /\ LET text == Each(ItemText, h.items) IN text # <<>> => text[1] \notin Blank
  /\ h.colon = <<>> => ~Contains(HeaderLine(h), 58)
  /\ HeaderLine(h) # <<>>

ASSUME MessagesAssumption ==
  \A m \in Messages :
    /\ StartLineMeansItself(m)
    /\ m.headers \in Seq(HeaderTypes)
    /\ \A i \in DOMAIN m.headers : HeaderMeansItself(m.headers[i])
    /\ m.body \in Chars({NUL})
    /\ \A i \in DOMAIN LinesOf(m) :
         LET l == LinesOf(m)[i] IN
         /\ ~Contains(l, NUL)
         /\ \A j \in 1 .. Len(l) - 1 : ~(l[j] = CR /\ l[j + 1] = LF)

-----------------------------------------------------------------------------
None == [method |-> <<>>]

Requests ==
  [m_method : Seq(Nat), m_target : Seq(Nat), m_version : Seq(Nat),
   m_headers : Seq([key : Seq(Nat), val : Seq(Nat)])]

(* The type of every variable. *)
TypeOK ==
  /\ message \in Messages \cup {None}
  /\ received \in 0 .. BufSize
  /\ memory \in Seq(Nat) /\ Len(memory) = BufSize
  /\ line_memory \in Seq(Nat) /\ Len(line_memory) = LineSize
  /\ m_stream_offset \in 0 .. BufSize
  /\ bytes_experienced \in Nat
  /\ req \in Requests
  /\ pc \in {"idle", "read", "headers", "done", "rejected", "overrun"}

(* A new call of ParseHttpMsg. *)
Fresh ==
  /\ line_memory = Blanks(LineSize)
  /\ m_stream_offset = 0 /\ bytes_experienced = 0
  /\ req = NoRequest

Init ==
  /\ message = None /\ received = 0
  /\ memory = Blanks(BufSize)
  /\ Fresh
  /\ pc = "idle"

(* Seeded fault: the read does not know the size of the buffer. *)
Unbounded_Limit(t) == Len(t)

Limit(t) == Min({Len(t), BufSize})

(* The read puts the first n bytes of a message into the buffer. *)
Read ==
  /\ pc = "idle"
  /\ \E m \in Messages :
       LET t == Text(m) IN
       \E n \in 1 .. Limit(t) :
         /\ message' = m /\ received' = n
         /\ memory' = SubSeq(t, 1, n) \o SubSeq(memory, n + 1, BufSize)
  /\ pc' = "read"
  /\ UNCHANGED parser

(* strlen of the whole buffer, which has to end in it. *)
SumBytes == Len(CString(memory))

(* 1. The request line; line_memory is wiped after a valid one.  What an   *)
(* invalid one leaves in the Request is dropped with it.                   *)
RequestLine ==
  /\ pc = "read"
  /\ IF ~Terminated(memory) \/ LineOverrun \/ ~Terminated(NewLine)
     THEN pc' = "overrun" /\ UNCHANGED parser
     ELSE /\ m_stream_offset' = NewOffset
          /\ bytes_experienced' = LineBytes + 2
          /\ IF ValidRequestLine(CString(NewLine))
             THEN /\ pc' = "headers"
                  /\ req' = WithRequestLine(req, CString(NewLine))
                  /\ line_memory' = Blanks(LineSize)
             ELSE /\ pc' = "rejected"
                  /\ line_memory' = NewLine
                  /\ UNCHANGED req
  /\ UNCHANGED <<message, received, memory>>

(* Seeded fault: line_memory is not wiped between headers. *)
Kept_NextLine == NewLine

(* line_memory for the next header. *)
NextLine == Blanks(LineSize)

(* 2. One turn of the loop over the headers. *)
ParseHeaderLine ==
  /\ pc = "headers"
  /\ ~LineOverrun /\ LineBytes # 0 /\ Terminated(NewLine)
  /\ req' = [req EXCEPT !.m_headers = @ \o HeaderOf(CString(NewLine))]
  /\ line_memory' = NextLine
  /\ m_stream_offset' = NewOffset
  /\ bytes_experienced' = bytes_experienced + LineBytes + 2
  /\ UNCHANGED <<message, received, memory, pc>>

(* A line whose CR LF fills line_memory has no NUL for strlen to find. *)
HeaderOverrun ==
  /\ pc = "headers"
  /\ LineOverrun \/ (LineBytes # 0 /\ ~Terminated(NewLine))
  /\ pc' = "overrun"
  /\ UNCHANGED <<message, received, memory, parser>>

(* getline returns 0: an empty line, or none that ends in time.  The body, *)
(* if there is one, is left alone.                                         *)
EndOfHeaders ==
  /\ pc = "headers"
  /\ ~LineOverrun /\ LineBytes = 0
  /\ line_memory' = NewLine
  /\ m_stream_offset' = NewOffset
  /\ bytes_experienced' = bytes_experienced + 2
  /\ pc' = "done"
  /\ UNCHANGED <<message, received, memory, req>>

(* Seeded fault: the line reader is kept for the next request. *)
Kept_FirstOffset == m_stream_offset

(* Where a new line reader starts. *)
FirstOffset == 0

(* The task ends: its Request and line_memory are gone, the buffer is      *)
(* wiped and waits for the next one.                                       *)
Return ==
  /\ pc \in {"done", "rejected"}
  /\ pc' = "idle"
  /\ message' = None /\ received' = 0
  /\ memory' = Blanks(BufSize)
  /\ line_memory' = Blanks(LineSize)
  /\ m_stream_offset' = FirstOffset /\ bytes_experienced' = 0
  /\ req' = NoRequest

ParseHttpMsg == RequestLine \/ ParseHeaderLine \/ HeaderOverrun \/ EndOfHeaders

Next == Read \/ ParseHttpMsg \/ Return

Spec == Init /\ [][Next]_vars

-----------------------------------------------------------------------------
(* The request line is accepted exactly if it says what a request has to,  *)
(* whatever part of the message was read, and the Request has its words.   *)
RequestLineUnderstood ==
  message # None =>
  LET whole == received >= Len(StartLine(message)) + 2
      good == /\ message.method \in {<<w>> : w \in Methods}
              /\ message.version \in {<<w>> : w \in HttpVersions}
              /\ message.path \o message.fragment # <<>>
              /\ Solid(message.rest) = {}
  IN /\ pc = "rejected" => ~(whole /\ good)
     /\ pc \in {"headers", "done"} =>
          /\ whole /\ good
          /\ req.m_method = message.method
          /\ req.m_target = message.path
          /\ req.m_version = message.version

(* No line is skipped, split or read twice: the headers found have the     *)
(* names of the message's, in order, and at the end of a message whose     *)
(* lines fit and whose head was read, all of them.  Nothing of an earlier  *)
(* request in the same buffer shows, even if the message was cut.  The two *)
(* counts of ParseHttpMsg then differ by the length of the body, which the *)
(* TODO at HttpServer.cpp:193 relies on.                                   *)
HeadersInOrder ==
  LET names(hs) == [i \in DOMAIN hs |-> hs[i].key]
      found == names(req.m_headers)
      meant == names(MeantHeaders(message))
  IN /\ pc \in {"headers", "done"} => IsPrefix(found, meant)
     /\ pc = "done" /\ AllFit(message) /\ HeadReceived =>
          /\ found = meant
          /\ SumBytes - bytes_experienced = received - Len(HeadText(message))

(* A value is what the client escaped, decoded once, in UTF-8; stray and   *)
(* cut escapes stay as they are, next to a value's CR LF too.              *)
ValuesDecoded ==
  pc \in {"headers", "done"} =>
    \A i \in DOMAIN req.m_headers :
      LET meant == MeantHeaders(message)
      IN i <= Len(meant) => req.m_headers[i] = meant[i]

(* The parser stays inside its buffers, unless a line does not fit, or the *)
(* bytes read fill the buffer, or the head was cut less than a line short  *)
(* of the buffer's end.                                                    *)
StaysInside ==
  pc = "overrun" =>
    \/ ~AllFit(message)
    \/ received = BufSize
    \/ ~HeadReceived /\ received + LineSize > BufSize
=============================================================================
