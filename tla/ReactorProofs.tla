---------------------------- MODULE ReactorProofs ---------------------------
(***************************************************************************)
(* What Reactor guarantees for any finite sets of workers and connections  *)
(* and any number of descriptors, messages and events.                     *)
(***************************************************************************)
EXTENDS Reactor, ListLemmas

-----------------------------------------------------------------------------
(***************************************************************************)
(* The inductive invariant.                                                *)
(***************************************************************************)
(* A worker has a buffer, of its own, from RequestMemory to ReturnMemory,  *)
(* and what a buffer holds is that of a worker between recv and the wipe.  *)
HoldsFollowsControl ==
  \A w \in Workers : holds[w] \in Slots <=> wpc[w] \notin {"idle", "request"}

HoldersDiffer ==
  \A v, w \in Workers : holds[v] = holds[w] /\ holds[v] \in Slots => v = w

Reading == {"recv", "close", "parse", "wipe"}

ContentIsSomebodys ==
  \A i \in Slots : content[i] # {} => \E w \in Workers : holds[w] = i /\ wpc[w] \in Reading

(* There is no task before the loop has stored a descriptor in fd. *)
NoTasks == queue = <<>> /\ \A w \in Workers : wpc[w] = "idle"

LoopHasDescriptors ==
  /\ lpc = "enqueue" => fd \in ClientFds
  /\ lpc = "add" => client_fd \in ClientFds
  /\ fd = None => NoTasks /\ lpc # "accept"

TasksHaveDescriptors ==
  \A w \in Workers : wpc[w] \in Reading => sock[w] # None

(* Until a client closes, every descriptor that is in use stays open, and  *)
(* with the same connection.                                               *)
InUse == {fd} \cup ToSet(batch) \cup {sock[w] : w \in Workers}

OpenUntilClosed ==
  fin = {} =>
    /\ \A w \in Workers : wpc[w] # "close"
    /\ \A f \in ClientFds : f \in InUse => IsOpen(f)

OwnBytes ==
  fin = {} =>
    \A w \in Workers : wpc[w] \in Reading =>
      \A m \in content[holds[w]] : sock[w] \in ClientFds /\ fdconn[sock[w]] = m[2][1]

(* With one client, the listening descriptor is reported once, before      *)
(* there is any other.                                                     *)
BeforeAccept ==
  /\ \A f \in ClientFds : fdconn[f] = NoConn
  /\ watched \cup ToSet(ready) \cup ToSet(batch) \subseteq {SrvFd}
  /\ lpc \in {"create", "register"} => watched = {}
  /\ watched = {} => ready = <<>>
  /\ Len(ready) + Len(batch)
       <= IF lpc \in {"create", "register", "accept"} \/ connected = {} THEN 0 ELSE 1
  /\ lpc \notin {"add", "enqueue"}
  /\ connected = {} => lpc # "accept"
  /\ fd \notin ClientFds

AfterAccept ==
  /\ connected # {}
  /\ lpc \in {"next", "add", "enqueue"}
  /\ SrvFd \notin ToSet(ready) \cup ToSet(batch)

BacklogIsConnected == ToSet(backlog) \subseteq connected

ListenerComesFirst ==
  Alone =>
    /\ BeforeAccept \/ AfterAccept
    /\ fd \notin ClientFds => NoTasks
    /\ \A w \in Workers : sock[w] # SrvFd

(* A connection is in the backlog once, and then has one descriptor at     *)
(* most.                                                                   *)
EachConnectedOnce ==
  /\ \A i, j \in 1 .. Len(backlog) : backlog[i] = backlog[j] => i = j
  /\ \A f \in ClientFds : fdconn[f] # NoConn => fdconn[f] \in connected \ ToSet(backlog)
  /\ \A f, g \in ClientFds : fdconn[f] = fdconn[g] /\ fdconn[f] # NoConn => f = g

(* What a worker has read is from the connection of its descriptor, or     *)
(* from one that has none any more.  What was read first is not at the     *)
(* mercy of the next recv, and the parser has it before the wipe.          *)
Accepted(c) == c \in connected \ ToSet(backlog)

ReadFrom(w, c) ==
  Accepted(c) /\ (DescriptorOf(c) = {} \/ (sock[w] \in ClientFds /\ fdconn[sock[w]] = c))

Settled(m) ==
  m \in handled \/ m[1] \in fin \/ (Accepted(m[1]) /\ DescriptorOf(m[1]) = {})

KeepsFront(w) ==
  /\ \A m \in content[holds[w]] : ReadFrom(w, m[2][1])
  /\ wpc[w] = "recv" /\ content[holds[w]] # {} => cur_bytes_read[w] > 0
  /\ wpc[w] \in {"close", "wipe"} =>
       \A m \in Messages : <<0, m>> \in content[holds[w]] => Settled(m)

FrontsAreKept == \A w \in Workers : wpc[w] \in Reading => KeepsFront(w)

IInv ==
  /\ TypeOK
  /\ HoldsFollowsControl /\ HoldersDiffer /\ ContentIsSomebodys
  /\ LoopHasDescriptors /\ TasksHaveDescriptors
  /\ OpenUntilClosed /\ OwnBytes
  /\ BacklogIsConnected /\ ListenerComesFirst
  /\ FatalOnlyOnListener
  /\ EachConnectedOnce /\ FrontsAreKept

-----------------------------------------------------------------------------
(***************************************************************************)
(* Facts about the operators of Reactor.                                   *)
(***************************************************************************)
Fds == ClientFds \cup {SrvFd}

LEMMA ConstantsAreFinite ==
  /\ IsFiniteSet(ClientFds) /\ IsFiniteSet(Fds) /\ ClientFds \subseteq Nat
  /\ SrvFd \notin ClientFds /\ None \notin Fds
  /\ IsFiniteSet(Messages) /\ IsFiniteSet(Slots)
  /\ Cardinality(Workers) \in Nat /\ Cardinality(Slots) = Cardinality(Workers)
  /\ None \notin Slots
<1> USE ReactorAssumption
<1>1. IsFiniteSet(ClientFds) /\ IsFiniteSet(1 .. MaxSends)
  BY FS_Interval DEF ClientFds
<1>2. IsFiniteSet(Fds)
  BY <1>1, FS_AddElement DEF Fds
<1>3. IsFiniteSet(Messages)
  BY <1>1, FS_Product DEF Messages
<1>4. Cardinality(Workers) \in Nat
  BY FS_CardinalityType
<1>5. IsFiniteSet(Slots) /\ Cardinality(Slots) = Cardinality(Workers)
  BY <1>4, FS_Interval DEF Slots
<1> QED
  BY <1>1, <1>2, <1>3, <1>4, <1>5 DEF ClientFds, Fds, SrvFd, None, Slots

LEMMA EdgeLists ==
  ASSUME TypeOK, NEW F \in SUBSET Fds, Edge(F)
  PROVE  /\ ready' \in Seq(Fds)
         /\ ToSet(ready') = ToSet(ready) \cup (F \cap watched)
         /\ F \cap watched = {} => ready' = ready
         /\ Len(ready') <= Len(ready) + Cardinality(F \cap watched)
<1>1. ready \in Seq(Fds) /\ F \cap watched \in SUBSET Fds
  BY DEF TypeOK, Fds
<1>2. IsFiniteSet(F \cap watched)
  BY <1>1, ConstantsAreFinite, FS_Subset
<1> QED
  BY <1>1, <1>2, ListedProperties DEF Edge

LEMMA RoomForOneMore ==
  ASSUME TypeOK, Bounded, NEW c \in connected
  PROVE  sent[c] + 1 \in 0 .. MaxSends
<1>1. IsFiniteSet(connected) /\ c \in Conns
  BY ReactorAssumption, FS_Subset DEF TypeOK
<1>2. Cardinality(connected) \in Nat /\ Cardinality(connected) # 0
  BY <1>1, FS_CardinalityType, FS_EmptySet
<1>3. Cardinality(Arrived) \in Nat
  BY ConstantsAreFinite, FS_Subset, FS_CardinalityType DEF Arrived
<1>4. Cardinality(Arrived) < MaxSends
  BY <1>2, <1>3, ReactorAssumption DEF Bounded
<1> QED
  BY <1>1, <1>4, ReactorAssumption, BoundLeavesRoom DEF TypeOK, Arrived, Messages

LEMMA LowestFreeDescriptor ==
  ASSUME FreeFds # {}
  PROVE  Min(FreeFds) \in ClientFds /\ ~IsOpen(Min(FreeFds))
<1>1. FreeFds \in SUBSET Nat
  BY ConstantsAreFinite DEF FreeFds
<1> QED
  BY <1>1, MinOfNaturals DEF FreeFds

(* What epoll_wait returns, and what it leaves on the list. *)
LEMMA WaitSplits ==
  ASSUME TypeOK, EpollWait
  PROVE  /\ batch' \in Seq(Fds) /\ ready' \in Seq(Fds)
         /\ ToSet(batch') \subseteq {f \in ToSet(ready) : f \in watched /\ Readable(f)}
         /\ ToSet(ready') \subseteq ToSet(ready)
         /\ Len(batch') + Len(ready') <= Len(ready)
<1> DEFINE r == Kept(ready, {f \in watched : Readable(f)})
           ret == Min({Len(r), MaxEvents})
<1>1. ready \in Seq(Fds)
  BY DEF TypeOK, Fds
<1>2. /\ r \in Seq(Fds) /\ Len(r) <= Len(ready)
      /\ ToSet(r) = ToSet(ready) \cap {f \in watched : Readable(f)}
  BY <1>1, KeptProperties
<1> HIDE DEF r
<1>3. ret \in 0 .. Len(r)
  <2>1. {Len(r), MaxEvents} \in SUBSET Nat
    BY <1>2, ReactorAssumption
  <2> QED
    BY <1>2, <2>1, MinOfNaturals, SMTT(20)
<1>4. batch' = SubSeq(r, 1, ret) /\ ready' = SubSeq(r, ret + 1, Len(r))
  BY DEF EpollWait, Scanned, r
<1> HIDE DEF ret
<1>5. /\ batch' \in Seq(Fds) /\ ToSet(batch') \subseteq ToSet(r)
      /\ Len(batch') = IF 1 <= ret THEN ret - 1 + 1 ELSE 0
  BY <1>2, <1>3, <1>4, ToSetSubSeq
<1>6. /\ ready' \in Seq(Fds) /\ ToSet(ready') \subseteq ToSet(r)
      /\ Len(ready') = IF ret + 1 <= Len(r) THEN Len(r) - (ret + 1) + 1 ELSE 0
  BY <1>2, <1>3, <1>4, ToSetSubSeq
<1>7. Len(r) \in Nat /\ Len(ready) \in Nat
  BY <1>1, <1>2
<1>8. Len(batch') + Len(ready') <= Len(ready)
  <2>1. Len(batch') = ret
    BY <1>3, <1>5, <1>7
  <2>2. Len(ready') = Len(r) - ret
    BY <1>3, <1>6, <1>7
  <2> QED
    BY <1>2, <1>3, <1>7, <2>1, <2>2
<1> QED
  BY <1>2, <1>5, <1>6, <1>8

LEMMA AddEventLists ==
  ASSUME TypeOK, NEW f \in Fds, AddEvent(f)
  PROVE  /\ watched' \in SUBSET Fds /\ ready' \in Seq(Fds)
         /\ ready' = ready \/ ready' = Append(ready, f)
<1>1. watched \in SUBSET Fds /\ ready \in Seq(Fds)
  BY DEF TypeOK, Fds
<1>2. \/ watched' = watched \cup {f} /\ (ready' = ready \/ ready' = Append(ready, f))
      \/ watched' = watched /\ ready' = ready
  BY DEF AddEvent, epollVars
<1> QED
  BY <1>1, <1>2

LEMMA CloseUnlists ==
  ASSUME TypeOK, NEW w \in Workers, Close(w)
  PROVE  /\ watched' \subseteq watched
         /\ ready' \in Seq(Fds) /\ ToSet(ready') \subseteq ToSet(ready)
         /\ Len(ready') <= Len(ready)
<1>1. ready \in Seq(Fds)
  BY DEF TypeOK, Fds
<1>2. CASE IsOpen(sock[w])
  <2>1. ready' = Kept(ready, watched') /\ watched' \subseteq watched
    BY <1>2 DEF Close
  <2> QED
    BY <1>1, <2>1, KeptProperties
<1>3. CASE ~IsOpen(sock[w])
  BY <1>1, <1>3 DEF Close, epollVars
<1> QED
  BY <1>2, <1>3

-----------------------------------------------------------------------------
(***************************************************************************)
(* Types.                                                                  *)
(***************************************************************************)
LEMMA InitIInv == Init => IInv
<1> SUFFICES ASSUME Init PROVE IInv
  OBVIOUS
<1> USE DEF Init, TQ!Init, BP!Init, BP!Blank
<1>1. TypeOK
  <2>1. running \in [Workers -> ClientFds \cup {None}] /\ queue \in Seq(ClientFds)
    OBVIOUS
  <2>2. holds \in [Workers -> Slots \cup {None}] /\ content \in [Slots -> SUBSET (Positions \X Messages)]
    OBVIOUS
  <2>3. TQ!TypeOK /\ BP!TypeOK
    BY <2>1, <2>2 DEF TQ!TypeOK, BP!TypeOK
  <2>4. /\ sent \in [Conns -> 0 .. MaxSends] /\ taken \in [Conns -> 0 .. MaxSends]
        /\ fdconn \in [ClientFds -> Conns \cup {NoConn}]
    BY ReactorAssumption
  <2>5. /\ wpc \in [Workers -> {"idle"}] /\ sock \in [Workers -> {None}]
        /\ cur_bytes_read \in [Workers -> 0 .. BufferSize]
    BY ReactorAssumption
  <2>6. backlog \in Seq(Conns) /\ ready \in Seq(Fds) /\ batch \in Seq(Fds)
    OBVIOUS
  <2> QED
    BY <2>3, <2>4, <2>5, <2>6 DEF TypeOK, Fds
<1>2. HoldsFollowsControl /\ HoldersDiffer /\ ContentIsSomebodys
  BY ConstantsAreFinite DEF HoldsFollowsControl, HoldersDiffer, ContentIsSomebodys
<1>3. LoopHasDescriptors /\ TasksHaveDescriptors
  BY DEF LoopHasDescriptors, TasksHaveDescriptors, NoTasks, Reading
<1>4. OpenUntilClosed /\ OwnBytes
  BY ConstantsAreFinite DEF OpenUntilClosed, OwnBytes, InUse, Reading, ToSet, Fds
<1>5. BacklogIsConnected
  BY DEF BacklogIsConnected, ToSet
<1>6. ListenerComesFirst
  BY ConstantsAreFinite DEF ListenerComesFirst, BeforeAccept, NoTasks, ToSet, Fds, SrvFd, None
<1>7. FatalOnlyOnListener
  BY DEF FatalOnlyOnListener
<1>8. EachConnectedOnce /\ FrontsAreKept
  BY DEF EachConnectedOnce, FrontsAreKept, Reading
<1> QED
  BY <1>1, <1>2, <1>3, <1>4, <1>5, <1>6, <1>7, <1>8 DEF IInv

LEMMA StepTypeOK ==
  ASSUME TypeOK, HoldsFollowsControl, LoopHasDescriptors, [Next]_vars
  PROVE  TypeOK'
<1> USE ReactorAssumption
<1> USE DEF TypeOK, TQ!TypeOK, BP!TypeOK, clientVars, connVars, epollVars, loopVars, poolVars,
            memVars
<1>1. ASSUME NEW c \in Conns, Connect(c) PROVE TypeOK'
  <2>1. {SrvFd} \in SUBSET Fds
    BY DEF Fds
  <2>2. ready' \in Seq(Fds)
    BY <1>1, <2>1, EdgeLists DEF Connect
  <2>3. backlog' \in Seq(Conns)
    BY <1>1 DEF Connect
  <2> QED
    BY <1>1, <2>2, <2>3 DEF Connect, ClientFrame, Fds
<1>2. ASSUME NEW c \in Conns, Send(c) PROVE TypeOK'
  <2>1. ready' \in Seq(Fds)
    BY <1>2, EdgeLists DEF Send, DescriptorOf, Fds
  <2>2. sent[c] + 1 \in 0 .. MaxSends
    BY <1>2, RoomForOneMore DEF Send
  <2> QED
    BY <1>2, <2>1, <2>2 DEF Send, ClientFrame, Fds
<1>3. ASSUME NEW c \in Conns, CloseByClient(c) PROVE TypeOK'
  <2>1. ready' \in Seq(Fds)
    BY <1>3, EdgeLists DEF CloseByClient, DescriptorOf, Fds
  <2> QED
    BY <1>3, <2>1 DEF CloseByClient, ClientFrame, Fds
<1>4. CASE StartCreateServer
  BY <1>4 DEF StartCreateServer, Loop
<1>5. CASE Register
  <2>1. watched' \in SUBSET Fds /\ ready' \in Seq(Fds)
    BY <1>5, AddEventLists DEF Register, Fds
  <2> QED
    BY <1>5, <2>1 DEF Register, Loop, Fds
<1>6. CASE EpollWait
  <2>1. batch' \in Seq(Fds) /\ ready' \in Seq(Fds)
    BY <1>6, WaitSplits
  <2> QED
    BY <1>6, <2>1 DEF EpollWait, Loop, Fds
<1>7. CASE NextEvent
  <2>1. Head(batch) \in Fds /\ Tail(batch) \in Seq(Fds)
    BY <1>7, HeadTailProperties DEF NextEvent, Fds
  <2> QED
    BY <1>7, <2>1 DEF NextEvent, Loop, Branch, Fds
<1>8. CASE Accept
  <2>1. CASE backlog # <<>> /\ FreeFds # {}
    <3>1. Head(backlog) \in Conns /\ Tail(backlog) \in Seq(Conns)
      BY <2>1, HeadTailProperties
    <3>2. Min(FreeFds) \in ClientFds
      BY <2>1, LowestFreeDescriptor
    <3> QED
      BY <1>8, <2>1, <3>1, <3>2 DEF Accept, TakeOutTCPConnection, Loop
  <2>2. CASE ~(backlog # <<>> /\ FreeFds # {})
    BY <1>8, <2>2 DEF Accept, Loop
  <2> QED
    BY <2>1, <2>2
<1>9. CASE AddClient
  <2>1. client_fd \in ClientFds
    BY <1>9 DEF AddClient, Loop, LoopHasDescriptors
  <2>2. watched' \in SUBSET Fds /\ ready' \in Seq(Fds)
    BY <1>9, <2>1, AddEventLists DEF AddClient, Fds
  <2> QED
    BY <1>9, <2>2 DEF AddClient, Loop, Fds
<1>10. CASE Enqueue
  <2>1. fd \in ClientFds
    BY <1>10 DEF Enqueue, Loop, LoopHasDescriptors
  <2> QED
    BY <1>10, <2>1 DEF Enqueue, MakeTask, TQ!Submit, Loop
<1>11. ASSUME NEW w \in Workers, TaskStart(w) PROVE TypeOK'
  <2>1. Head(queue) \in ClientFds /\ Tail(queue) \in Seq(ClientFds)
    BY <1>11, HeadTailProperties DEF TaskStart, TQ!Start
  <2> QED
    BY <1>11, <2>1 DEF TaskStart, TQ!Start, Task
<1>12. ASSUME NEW w \in Workers, RequestMemory(w) PROVE TypeOK'
  BY <1>12 DEF RequestMemory, BP!Acquire, Task
<1>13. ASSUME NEW w \in Workers, MakeStream(w) PROVE TypeOK'
  BY <1>13 DEF MakeStream, Task
<1>14. ASSUME NEW w \in Workers, RecvFull(w) \/ RecvFailure(w) PROVE TypeOK'
  BY <1>14 DEF RecvFull, RecvFailure, Task
<1>15. ASSUME NEW w \in Workers, RecvData(w) PROVE TypeOK'
  <2> DEFINE c == fdconn[sock[w]]
             at == Offset(w)
             n == Min({sent[c] - taken[c], BufferSize - at})
  <2>1. c \in Conns /\ taken[c] < sent[c] /\ at \in 0 .. BufferSize - 1
    <3>1. c \in Conns /\ at \in 0 .. BufferSize - 1
      BY <1>15 DEF RecvData, Error, IsOpen, m_sock, Offset, Full
    <3>2. \E k : k \in taken[c] + 1 .. sent[c]
      BY <1>15 DEF RecvData, Unread, m_sock
    <3> QED
      BY <3>1, <3>2
  <2>2. n \in 0 .. BufferSize - at /\ n <= sent[c] - taken[c]
    <3>1. sent[c] - taken[c] \in Nat /\ BufferSize - at \in Nat
      BY <2>1, SMTT(20)
    <3>2. {sent[c] - taken[c], BufferSize - at} \in SUBSET Nat
      BY <3>1
    <3>3. n \in {sent[c] - taken[c], BufferSize - at} /\ n <= sent[c] - taken[c] /\ n <= BufferSize - at
      BY <3>2, MinOfNaturals
    <3> HIDE DEF n
    <3> QED
      BY <3>1, <3>3
  <2> HIDE DEF n, at, c
  <2>3. taken[c] + n \in 0 .. MaxSends /\ n \in 0 .. BufferSize
    BY <2>1, <2>2
  <2>4. Got(c, at, n) \in SUBSET (Positions \X Messages)
    <3>1. ASSUME NEW k \in 0 .. n - 1
          PROVE  at + k \in Positions /\ <<c, taken[c] + k + 1>> \in Messages
      <4>1. /\ k \in Nat /\ k < n /\ n <= BufferSize - at /\ n <= sent[c] - taken[c]
            /\ at \in Nat /\ taken[c] \in Nat /\ sent[c] \in Nat /\ sent[c] <= MaxSends /\ n \in Int
        BY <2>1, <2>2
      <4>2. at + k \in 0 .. BufferSize - 1 /\ taken[c] + k + 1 \in 1 .. MaxSends
        BY <4>1, SMTT(20)
      <4> QED
        BY <2>1, <4>2 DEF Positions, Messages
    <3> QED
      BY <3>1 DEF Got
  <2>5. /\ Task(w, "recv", "recv")
        /\ BP!Write(w, {m \in content[holds[w]] : m[1] \notin at .. at + n - 1} \cup Got(c, at, n))
        /\ taken' = [taken EXCEPT ![c] = @ + n]
        /\ cur_bytes_read' = [cur_bytes_read EXCEPT ![w] = n]
        /\ UNCHANGED <<fdconn, epollVars, poolVars, sock, handled, crashed>>
    BY <1>15 DEF RecvData, m_sock, n, at, c
  <2>6. holds[w] \in Slots
    BY <2>5 DEF Task, HoldsFollowsControl
  <2>7. content' \in [Slots -> SUBSET (Positions \X Messages)] /\ UNCHANGED holds
    BY <2>4, <2>5, <2>6 DEF BP!Write
  <2>8. /\ taken' \in [Conns -> 0 .. MaxSends]
        /\ cur_bytes_read' \in [Workers -> 0 .. BufferSize]
    BY <2>3, <2>5
  <2> QED
    BY <2>5, <2>7, <2>8 DEF Task
<1>16. ASSUME NEW w \in Workers, RecvNothing(w) PROVE TypeOK'
  BY <1>16 DEF RecvNothing, AfterRecv, Task
<1>17. ASSUME NEW w \in Workers, Close(w) PROVE TypeOK'
  <2>1. watched' \subseteq watched /\ ready' \in Seq(Fds)
    BY <1>17, CloseUnlists
  <2>2. fdconn' \in [ClientFds -> Conns \cup {NoConn}]
    BY <1>17 DEF Close
  <2> QED
    BY <1>17, <2>1, <2>2 DEF Close, Task, Fds
<1>18. ASSUME NEW w \in Workers, Parse(w) PROVE TypeOK'
  <2>1. holds[w] \in Slots
    BY <1>18 DEF Parse, Task, HoldsFollowsControl
  <2> QED
    BY <1>18, <2>1 DEF Parse, Task
<1>19. ASSUME NEW w \in Workers, WipeMemory(w) PROVE TypeOK'
  BY <1>19 DEF WipeMemory, BP!Wipe, BP!Blank, Task
<1>20. ASSUME NEW w \in Workers, ReturnMemory(w) PROVE TypeOK'
  BY <1>20 DEF ReturnMemory, GiveBack, BP!Release, TQ!Finish, Task
<1>21. CASE UNCHANGED vars
  BY <1>21 DEF vars
<1> QED
  BY <1>1, <1>2, <1>3, <1>4, <1>5, <1>6, <1>7, <1>8, <1>9, <1>10, <1>11, <1>12, <1>13, <1>14,
     <1>15, <1>16, <1>17, <1>18, <1>19, <1>20, <1>21
  DEF Next, ClientStep, LoopStep, PoolStart, TaskStep, Recv

-----------------------------------------------------------------------------
(***************************************************************************)
(* What the actors leave alone.                                            *)
(***************************************************************************)
LEMMA ClientsFrame ==
  ASSUME ClientStep
  PROVE  /\ ~crashed
         /\ UNCHANGED <<fdconn, taken, watched, lpc, batch, fd, client_fd, poolVars, memVars,
                        wpc, sock, cur_bytes_read, handled, crashed>>
  BY DEF ClientStep, Connect, Send, CloseByClient, ClientFrame, loopVars

LEMMA LoopFrame ==
  ASSUME LoopStep
  PROVE  ~crashed /\ UNCHANGED <<clientVars, taken, memVars, wpc, sock, cur_bytes_read, handled,
                                 crashed>>
  BY DEF LoopStep, StartCreateServer, Register, EpollWait, NextEvent, Accept,
         TakeOutTCPConnection, AddClient, Enqueue, Loop

LEMMA TaskFrame ==
  ASSUME NEW w \in Workers, TaskStart(w) \/ TaskStep(w)
  PROVE  ~crashed /\ UNCHANGED <<clientVars, backlog, lpc, batch, fd, client_fd>>
  BY DEF TaskStart, TaskStep, RequestMemory, MakeStream, Recv, RecvFull, RecvFailure, RecvData, RecvNothing,
         Close, Parse, WipeMemory, ReturnMemory, Task, loopVars

-----------------------------------------------------------------------------
(***************************************************************************)
(* The buffers.                                                            *)
(***************************************************************************)
MemoryInv == HoldsFollowsControl /\ HoldersDiffer /\ ContentIsSomebodys

LEMMA StepMemoryInv ==
  ASSUME TypeOK, MemoryInv, [Next]_vars
  PROVE  MemoryInv'
<1> USE DEF TypeOK, BP!TypeOK, MemoryInv, HoldsFollowsControl, HoldersDiffer, ContentIsSomebodys,
            Reading
<1>n. None \notin Slots
  BY ConstantsAreFinite
<1>1. CASE ClientStep \/ LoopStep \/ UNCHANGED vars
  <2>1. UNCHANGED <<holds, content, wpc>>
    BY <1>1, ClientsFrame, LoopFrame DEF memVars, vars
  <2> QED
    BY <2>1
<1>2. ASSUME NEW w \in Workers, TaskStart(w) PROVE MemoryInv'
  BY <1>2 DEF TaskStart, Task, memVars
<1>3. ASSUME NEW w \in Workers, RequestMemory(w) PROVE MemoryInv'
  <2>1. PICK i \in Slots : BP!Free(i) /\ holds' = [holds EXCEPT ![w] = i]
    BY <1>3 DEF RequestMemory, BP!Acquire
  <2>2. wpc[w] = "request" /\ wpc' = [wpc EXCEPT ![w] = "stream"] /\ content' = content
    BY <1>3 DEF RequestMemory, BP!Acquire, Task
  <2>3. HoldsFollowsControl'
    BY <2>1, <2>2
  <2>4. HoldersDiffer'
    BY <2>1 DEF BP!Free
  <2>5. ContentIsSomebodys'
    BY <2>1, <2>2
  <2> QED
    BY <2>3, <2>4, <2>5
<1>4. ASSUME NEW w \in Workers, MakeStream(w) \/ RecvFull(w) \/ RecvFailure(w) \/ RecvNothing(w) \/ Close(w) \/ Parse(w)
      PROVE  MemoryInv'
  <2>1. /\ wpc[w] \in {"stream", "recv", "close", "parse"}
        /\ \E to \in Reading : wpc' = [wpc EXCEPT ![w] = to]
        /\ UNCHANGED <<holds, content>>
    BY <1>4 DEF MakeStream, RecvFull, RecvFailure, RecvNothing, Close, Parse, Task, AfterRecv, memVars
  <2>2. HoldsFollowsControl'
    BY <2>1
  <2>3. HoldersDiffer'
    BY <2>1
  <2>4. \A v \in Workers : wpc[v] \in Reading => wpc'[v] \in Reading
    BY <2>1
  <2>5. ContentIsSomebodys'
    BY <2>1, <2>4
  <2> QED
    BY <2>2, <2>3, <2>5
<1>5. ASSUME NEW w \in Workers, RecvData(w) PROVE MemoryInv'
  <2>1. /\ wpc[w] = "recv" /\ UNCHANGED <<holds, wpc>> /\ holds[w] \in Slots
        /\ \A i \in Slots : i # holds[w] => content'[i] = content[i]
    BY <1>5 DEF RecvData, Task, BP!Write
  <2> QED
    BY <2>1
<1>6. ASSUME NEW w \in Workers, WipeMemory(w) PROVE MemoryInv'
  <2>1. /\ wpc[w] = "wipe" /\ wpc' = [wpc EXCEPT ![w] = "return"] /\ holds[w] \in Slots
        /\ content' = [content EXCEPT ![holds[w]] = {}] /\ UNCHANGED holds
    BY <1>6 DEF WipeMemory, Task, BP!Wipe, BP!Blank
  <2>2. HoldsFollowsControl' /\ HoldersDiffer'
    BY <2>1
  <2>3. ASSUME NEW i \in Slots, content'[i] # {}
        PROVE  \E v \in Workers : holds'[v] = i /\ wpc'[v] \in Reading
    <3>1. i # holds[w] /\ content[i] # {}
      BY <2>1, <2>3
    <3>2. PICK v \in Workers : holds[v] = i /\ wpc[v] \in Reading
      BY <3>1
    <3> QED
      BY <2>1, <3>1, <3>2
  <2> QED
    BY <2>2, <2>3
<1>7. ASSUME NEW w \in Workers, ReturnMemory(w) PROVE MemoryInv'
  <2>1. /\ wpc[w] = "return" /\ wpc' = [wpc EXCEPT ![w] = "idle"]
        /\ holds' = [holds EXCEPT ![w] = None] /\ UNCHANGED content
    BY <1>7 DEF ReturnMemory, Task, GiveBack, BP!Release
  <2>2. content[holds[w]] = {}
    BY <1>7 DEF ReturnMemory, GiveBack, BP!Release, BP!Blank
  <2>3. HoldsFollowsControl'
    BY <1>n, <2>1
  <2>4. HoldersDiffer'
    BY <1>n, <2>1
  <2>5. ContentIsSomebodys'
    BY <2>1, <2>2
  <2> QED
    BY <2>3, <2>4, <2>5
<1> QED
  BY <1>1, <1>2, <1>3, <1>4, <1>5, <1>6, <1>7 DEF Next, PoolStart, TaskStep, Recv

(* Fewer workers hold a buffer than there are, if one of them asks.        *)
LEMMA OneSlotIsLeft ==
  ASSUME TypeOK, MemoryInv
  PROVE  MemoryAvailable
<1> USE DEF TypeOK, BP!TypeOK, MemoryInv, HoldsFollowsControl
<1> USE ConstantsAreFinite, ReactorAssumption
<1>1. ASSUME NEW w \in Workers, wpc[w] = "request", \A i \in Slots : ~BP!Free(i) PROVE FALSE
  <2> DEFINE Others == Workers \ {w}
             holder == [i \in Slots |-> CHOOSE v \in Workers : holds[v] = i]
  <2>1. \A i \in Slots : holder[i] \in Workers /\ holds[holder[i]] = i
    BY <1>1 DEF BP!Free
  <2>2. \A i \in Slots : holder[i] \in Others
    BY <1>1, <2>1
  <2>3. holder \in Injection(Slots, Others)
    <3>1. holder \in [Slots -> Others]
      BY <2>2
    <3> HIDE DEF holder
    <3>2. \A i, j \in Slots : holder[i] = holder[j] => i = j
      BY <2>1
    <3> QED
      BY <3>1, <3>2 DEF Injection, IsInjective
  <2>4. IsFiniteSet(Others) /\ Cardinality(Others) = Cardinality(Workers) - 1
    BY FS_RemoveElement
  <2>5. Cardinality(Slots) <= Cardinality(Others)
    <3> HIDE DEF holder
    <3> QED
      BY <2>3, <2>4, FS_Injection
  <2> QED
    BY <2>4, <2>5
<1>2. ASSUME NEW w \in Workers, wpc[w] = "idle" PROVE holds[w] = None
  BY <1>2
<1> QED
  BY <1>1, <1>2 DEF MemoryAvailable

-----------------------------------------------------------------------------
(***************************************************************************)
(* The descriptors that the loop and the tasks have.                       *)
(***************************************************************************)
DescriptorsInv == LoopHasDescriptors /\ TasksHaveDescriptors

LEMMA StepDescriptorsInv ==
  ASSUME TypeOK, DescriptorsInv, [Next]_vars
  PROVE  DescriptorsInv'
<1> USE DEF TypeOK, TQ!TypeOK, DescriptorsInv, LoopHasDescriptors, TasksHaveDescriptors, NoTasks,
            Reading
<1>n. None \notin Fds /\ ClientFds \subseteq Fds
  BY ConstantsAreFinite DEF Fds
<1>1. CASE ClientStep \/ UNCHANGED vars
  <2>1. UNCHANGED <<lpc, fd, client_fd, queue, wpc, sock>>
    BY <1>1, ClientsFrame DEF poolVars, vars, loopVars
  <2> QED
    BY <2>1
<1>2. CASE StartCreateServer \/ Register \/ EpollWait
  <2>1. lpc # "accept" /\ lpc' \in {"register", "next"} /\ UNCHANGED <<fd, queue, wpc, sock>>
    BY <1>2 DEF StartCreateServer, Register, EpollWait, Loop, poolVars
  <2> QED
    BY <2>1
<1>3. CASE NextEvent
  <2>1. fd' \in Fds /\ (lpc' = "enqueue" => fd' # SrvFd) /\ lpc' # "add"
    <3>1. batch # <<>> => Head(batch) \in Fds
      BY HeadTailProperties DEF Fds
    <3> QED
      BY <1>3, <3>1 DEF NextEvent, Loop, Branch
  <2>2. UNCHANGED <<wpc, sock>>
    BY <1>3 DEF NextEvent, Loop
  <2> QED
    BY <1>n, <2>1, <2>2 DEF Fds
<1>4. CASE Accept
  <2>1. lpc' \in {"add", "next"} /\ fd # None /\ UNCHANGED <<fd, wpc, sock>>
    BY <1>4 DEF Accept, TakeOutTCPConnection, Loop
  <2>2. lpc' = "add" => client_fd' \in ClientFds
    BY <1>4, LowestFreeDescriptor DEF Accept, TakeOutTCPConnection, Loop
  <2> QED
    BY <2>1, <2>2
<1>5. CASE AddClient \/ Enqueue
  <2>1. lpc' = "next" /\ UNCHANGED <<fd, wpc, sock>> /\ (fd = None => queue' = queue)
    BY <1>5, <1>n DEF AddClient, Enqueue, Loop, poolVars
  <2> QED
    BY <2>1
<1>6. ASSUME NEW w \in Workers, TaskStart(w) \/ TaskStep(w) PROVE DescriptorsInv'
  <2>1. UNCHANGED <<lpc, fd, client_fd>>
    BY <1>6, TaskFrame
  <2>2. fd # None
    <3>1. CASE TaskStart(w)
      BY <3>1 DEF TaskStart, TQ!Start
    <3>2. CASE TaskStep(w)
      <4>1. wpc[w] # "idle"
        BY <3>2 DEF TaskStep, RequestMemory, MakeStream, Recv, RecvFull, RecvFailure, RecvData, RecvNothing,
                    Close, Parse, WipeMemory, ReturnMemory, Task
      <4> QED
        BY <4>1
    <3> QED
      BY <1>6, <3>1, <3>2
  <2>3. TasksHaveDescriptors'
    <3>1. CASE TaskStart(w)
      BY <3>1 DEF TaskStart, Task
    <3>2. CASE RequestMemory(w)
      BY <3>2 DEF RequestMemory, Task
    <3>3. CASE MakeStream(w)
      BY <2>2, <3>3 DEF MakeStream, Task
    <3>4. CASE RecvFull(w) \/ RecvFailure(w) \/ RecvData(w) \/ RecvNothing(w) \/ Close(w) \/ Parse(w) \/ WipeMemory(w)
      <4>1. wpc[w] \in Reading /\ sock' = sock /\ \A v \in Workers : v # w => wpc'[v] = wpc[v]
        BY <3>4 DEF RecvFull, RecvFailure, RecvData, RecvNothing, Close, Parse, WipeMemory, Task
      <4> QED
        BY <4>1
    <3>5. CASE ReturnMemory(w)
      BY <3>5 DEF ReturnMemory, Task
    <3> QED
      BY <1>6, <3>1, <3>2, <3>3, <3>4, <3>5 DEF TaskStep, Recv
  <2> QED
    BY <2>1, <2>2, <2>3
<1> QED
  BY <1>1, <1>2, <1>3, <1>4, <1>5, <1>6 DEF Next, LoopStep, PoolStart

-----------------------------------------------------------------------------
(***************************************************************************)
(* Until a client closes, descriptors stay open and keep their connection. *)
(***************************************************************************)
OpenInv == OpenUntilClosed /\ OwnBytes

LEMMA InUseOf ==
  ASSUME TypeOK
  PROVE  /\ fd \in InUse /\ ToSet(batch) \subseteq InUse
         /\ \A w \in Workers : sock[w] \in InUse
  BY DEF InUse

LEMMA StepOpenInv ==
  ASSUME TypeOK, MemoryInv, DescriptorsInv, OpenInv, [Next]_vars
  PROVE  OpenInv'
<1> SUFFICES ASSUME fin' = {}
             PROVE  /\ \A w \in Workers : wpc'[w] # "close"
                    /\ \A f \in ClientFds : f \in InUse' => fdconn'[f] # NoConn
                    /\ \A w \in Workers : wpc'[w] \in Reading =>
                         \A m \in content'[holds'[w]] :
                           sock'[w] \in ClientFds /\ fdconn'[sock'[w]] = m[2][1]
  BY DEF OpenInv, OpenUntilClosed, OwnBytes, IsOpen
<1> DEFINE Goal == /\ \A w \in Workers : wpc'[w] # "close"
                   /\ \A f \in ClientFds : f \in InUse' => fdconn'[f] # NoConn
                   /\ \A w \in Workers : wpc'[w] \in Reading =>
                        \A m \in content'[holds'[w]] :
                          sock'[w] \in ClientFds /\ fdconn'[sock'[w]] = m[2][1]
<1>f. fin = {}
  <2>1. fin \subseteq fin'
    BY TaskFrame, LoopFrame
    DEF Next, ClientStep, Connect, Send, CloseByClient, PoolStart, vars, clientVars
  <2> QED
    BY <2>1
<1>i. /\ \A w \in Workers : wpc[w] # "close"
      /\ \A f \in ClientFds : f \in InUse => IsOpen(f)
      /\ \A w \in Workers : wpc[w] \in Reading =>
           \A m \in content[holds[w]] : sock[w] \in ClientFds /\ fdconn[sock[w]] = m[2][1]
  BY <1>f DEF OpenInv, OpenUntilClosed, OwnBytes
(* Most steps take descriptors from those in use and leave the rest alone. *)
<1>s. ASSUME InUse' \subseteq InUse, UNCHANGED <<fdconn, wpc, sock, memVars>> PROVE Goal
  BY <1>i, <1>s DEF IsOpen, memVars
<1>1. CASE ClientStep \/ UNCHANGED vars
  <2>1. UNCHANGED <<batch, fd, fdconn, wpc, sock, memVars>>
    BY <1>1, ClientsFrame DEF vars, loopVars, connVars
  <2> QED
    BY <1>s, <2>1 DEF InUse
<1>2. CASE StartCreateServer \/ Register \/ AddClient \/ Enqueue
  <2>1. UNCHANGED <<batch, fd, fdconn, wpc, sock, memVars>>
    BY <1>2 DEF StartCreateServer, Register, AddClient, Enqueue, Loop, connVars
  <2> QED
    BY <1>s, <2>1 DEF InUse
<1>3. CASE EpollWait
  <2>1. UNCHANGED <<fd, fdconn, wpc, sock, memVars>>
    BY <1>3 DEF EpollWait, Loop, connVars
  <2>2. \A f \in ToSet(batch') : f \in ClientFds => fdconn[f] # NoConn
    <3>1. \A f \in ToSet(batch') : Readable(f)
      BY <1>3, WaitSplits
    <3> QED
      BY <3>1, ConstantsAreFinite DEF Readable, IsOpen
  <2> QED
    BY <1>i, <2>1, <2>2 DEF InUse, IsOpen, memVars
<1>4. CASE NextEvent
  <2>1. UNCHANGED <<fdconn, wpc, sock, memVars>>
    BY <1>4 DEF NextEvent, Loop, connVars
  <2>2. batch # <<>> /\ fd' = Head(batch) /\ batch' = Tail(batch) /\ batch \in Seq(Fds)
    BY <1>4 DEF NextEvent, TypeOK, Fds
  <2>3. ToSet(batch) = {fd'} \cup ToSet(batch')
    BY <2>2, ToSetTail
  <2> QED
    BY <1>s, <2>1, <2>3 DEF InUse
<1>5. CASE Accept
  <2>1. UNCHANGED <<batch, fd, wpc, sock, memVars>>
    BY <1>5 DEF Accept, Loop
  <2>2. CASE UNCHANGED fdconn
    BY <1>s, <2>1, <2>2 DEF InUse
  <2>3. CASE TakeOutTCPConnection /\ backlog # <<>> /\ FreeFds # {}
    <3>1. ~IsOpen(Min(FreeFds)) /\ Min(FreeFds) \in ClientFds
      BY <2>3, LowestFreeDescriptor
    <3>2. \A f \in ClientFds : IsOpen(f) => fdconn'[f] = fdconn[f]
      BY <2>3, <3>1 DEF TakeOutTCPConnection, TypeOK
    <3>3. \A w \in Workers : sock[w] \in ClientFds => fdconn'[sock[w]] = fdconn[sock[w]]
      BY <1>i, <3>2, InUseOf
    <3> QED
      BY <1>i, <2>1, <3>2, <3>3 DEF InUse, IsOpen, memVars
  <2> QED
    BY <1>5, <2>2, <2>3 DEF Accept, connVars
<1>6. ASSUME NEW w \in Workers, TaskStart(w) PROVE Goal
  <2>1. UNCHANGED <<batch, fd, fdconn, sock, memVars>> /\ wpc' = [wpc EXCEPT ![w] = "request"]
    BY <1>6 DEF loopVars, TaskStart, Task
  <2> QED
    BY <1>i, <2>1 DEF InUse, IsOpen, Reading, TypeOK, memVars
<1>7. ASSUME NEW w \in Workers, RequestMemory(w) PROVE Goal
  <2>1. /\ UNCHANGED <<batch, fd, fdconn, sock, content>> /\ wpc' = [wpc EXCEPT ![w] = "stream"]
        /\ \A v \in Workers : v # w => holds'[v] = holds[v]
    BY <1>7 DEF loopVars, RequestMemory, Task, BP!Acquire, TypeOK, BP!TypeOK
  <2>2. InUse' = InUse
    BY <2>1 DEF InUse
  <2>3. \A v \in Workers : wpc'[v] \in Reading => wpc[v] \in Reading /\ holds'[v] = holds[v]
    BY <2>1 DEF Reading, TypeOK
  <2>4. \A v \in Workers : wpc'[v] # "close"
    BY <1>i, <2>1 DEF TypeOK
  <2> QED
    BY <1>i, <2>1, <2>2, <2>3, <2>4 DEF IsOpen
<1>8. ASSUME NEW w \in Workers, MakeStream(w) PROVE Goal
  <2>1. /\ UNCHANGED <<batch, fd, fdconn, memVars>>
        /\ wpc[w] = "stream" /\ wpc' = [wpc EXCEPT ![w] = "recv"] /\ sock' = [sock EXCEPT ![w] = fd]
    BY <1>8 DEF loopVars, MakeStream, Task
  <2>2. content[holds[w]] = {}
    BY <2>1 DEF MemoryInv, ContentIsSomebodys, HoldersDiffer, HoldsFollowsControl, Reading
  <2>3. InUse' \subseteq InUse
    BY <2>1 DEF InUse, TypeOK
  <2> QED
    BY <1>i, <2>1, <2>2, <2>3 DEF IsOpen, Reading, TypeOK, memVars
<1>9. ASSUME NEW w \in Workers, RecvFull(w) \/ RecvFailure(w) \/ RecvNothing(w) \/ Parse(w)
     PROVE  Goal
  <2>1. /\ UNCHANGED <<batch, fd, fdconn, sock, memVars>> /\ wpc[w] \in Reading
        /\ \E to \in Reading \ {"close"} : wpc' = [wpc EXCEPT ![w] = to]
    BY <1>9, <1>f DEF loopVars, RecvFull, RecvFailure, RecvNothing, Parse, Task, AfterRecv, Reading
  <2> QED
    BY <1>i, <2>1 DEF InUse, IsOpen, TypeOK, memVars
<1>10. ASSUME NEW w \in Workers, RecvData(w) PROVE Goal
  <2> DEFINE c == fdconn[sock[w]]
             at == Offset(w)
             n == Min({sent[c] - taken[c], BufferSize - at})
             D == {m \in content[holds[w]] : m[1] \notin at .. at + n - 1} \cup Got(c, at, n)
  <2>1. /\ UNCHANGED <<batch, fd, fdconn, sock, holds>> /\ wpc[w] = "recv" /\ wpc' = wpc
        /\ sock[w] \in ClientFds
        /\ content' = [content EXCEPT ![holds[w]] = D]
    BY <1>10 DEF loopVars, RecvData, Task, BP!Write, Error, IsOpen, m_sock, TypeOK
  <2>2. \A m \in D : m \in content[holds[w]] \/ m[2][1] = c
    BY DEF Got
  <2> HIDE DEF D
  <2>3. \A v \in Workers : wpc[v] \in Reading => holds[v] \in Slots
    BY DEF MemoryInv, HoldsFollowsControl, Reading
  <2>4. ASSUME NEW v \in Workers, wpc[v] \in Reading, NEW m \in content'[holds[v]]
        PROVE  sock[v] \in ClientFds /\ fdconn[sock[v]] = m[2][1]
    <3>1. CASE v = w
      <4>1. m \in D
        BY <2>1, <2>3, <2>4, <3>1 DEF TypeOK, BP!TypeOK
      <4> QED
        BY <1>i, <2>1, <2>2, <2>4, <3>1, <4>1
    <3>2. CASE v # w
      <4>1. holds[v] # holds[w] /\ holds[v] \in Slots
        BY <2>3, <2>4, <3>2 DEF MemoryInv, HoldersDiffer
      <4>2. m \in content[holds[v]]
        BY <2>1, <2>4, <4>1 DEF TypeOK, BP!TypeOK
      <4> QED
        BY <1>i, <2>4, <4>2
    <3> QED
      BY <3>1, <3>2
  <2> QED
    BY <1>i, <2>1, <2>4 DEF InUse, IsOpen
<1>11. ASSUME NEW w \in Workers, WipeMemory(w) PROVE Goal
  <2>1. /\ UNCHANGED <<batch, fd, fdconn, sock, holds>> /\ wpc' = [wpc EXCEPT ![w] = "return"]
        /\ content' = [content EXCEPT ![holds[w]] = {}]
    BY <1>11 DEF loopVars, WipeMemory, Task, BP!Wipe, BP!Blank
  <2>2. \A i : content'[i] \subseteq content[i]
    BY <2>1 DEF TypeOK, BP!TypeOK
  <2> QED
    BY <1>i, <2>1, <2>2 DEF InUse, IsOpen, Reading, TypeOK
<1>12. ASSUME NEW w \in Workers, ReturnMemory(w) PROVE Goal
  <2>1. /\ UNCHANGED <<batch, fd, fdconn, content>> /\ wpc' = [wpc EXCEPT ![w] = "idle"]
        /\ holds' = [holds EXCEPT ![w] = None] /\ sock' = [sock EXCEPT ![w] = None]
    BY <1>12 DEF loopVars, ReturnMemory, Task, GiveBack, BP!Release
  <2>2. InUse' \subseteq InUse \cup {None}
    BY <2>1 DEF InUse, TypeOK
  <2> QED
    BY <1>i, <2>1, <2>2, ConstantsAreFinite DEF IsOpen, Reading, TypeOK, BP!TypeOK, Fds
<1>13. ASSUME NEW w \in Workers, Close(w) PROVE Goal
  BY <1>i, <1>13 DEF Close, Task
<1> QED
  BY <1>1, <1>2, <1>3, <1>4, <1>5, <1>6, <1>7, <1>8, <1>9, <1>10, <1>11, <1>12, <1>13
  DEF Next, LoopStep, PoolStart, TaskStep, Recv

-----------------------------------------------------------------------------
(***************************************************************************)
(* One client: the listening descriptor is reported before all others.     *)
(***************************************************************************)
LEMMA AtMostOne ==
  ASSUME NEW S, IsFiniteSet(S), Cardinality(S) <= 1, NEW c \in S, NEW d \in S
  PROVE  c = d
<1>1. IsFiniteSet(S \ {c}) /\ Cardinality(S \ {c}) = Cardinality(S) - 1
  BY FS_RemoveElement
<1>2. Cardinality(S) \in Nat /\ Cardinality(S \ {c}) \in Nat
  BY <1>1, FS_CardinalityType
<1>3. Cardinality(S \ {c}) = 0
  BY <1>1, <1>2
<1> QED
  BY <1>1, <1>3, FS_EmptySet

LEMMA AloneBefore ==
  ASSUME TypeOK, TypeOK', connected \subseteq connected', Alone'
  PROVE  Alone
<1>1. IsFiniteSet(connected') /\ IsFiniteSet(connected)
  BY ReactorAssumption, FS_Subset DEF TypeOK
<1>2. Cardinality(connected) \in Nat /\ Cardinality(connected') \in Nat
  BY <1>1, FS_CardinalityType
<1>3. Cardinality(connected) <= Cardinality(connected')
  BY <1>1, FS_Subset
<1> QED
  BY <1>2, <1>3 DEF Alone

LEMMA ConnectionsRemain ==
  ASSUME [Next]_vars
  PROVE  connected \subseteq connected'
  BY LoopFrame, TaskFrame
  DEF Next, ClientStep, Connect, Send, CloseByClient, PoolStart, vars, clientVars

LEMMA StepBacklogIsConnected ==
  ASSUME TypeOK, BacklogIsConnected, [Next]_vars
  PROVE  BacklogIsConnected'
<1> USE DEF BacklogIsConnected, TypeOK
<1>1. ASSUME NEW c \in Conns, Connect(c) PROVE BacklogIsConnected'
  <2>1. ToSet(backlog') = ToSet(backlog) \cup {c}
    BY <1>1, ToSetAppend DEF Connect
  <2> QED
    BY <1>1, <2>1 DEF Connect
<1>2. CASE UNCHANGED backlog
  BY <1>2, ConnectionsRemain
<1>3. CASE TakeOutTCPConnection /\ backlog # <<>>
  <2>1. ToSet(backlog') \subseteq ToSet(backlog)
    BY <1>3, ToSetTail DEF TakeOutTCPConnection
  <2> QED
    BY <2>1, ConnectionsRemain
<1>4. \/ \E c \in Conns : Connect(c)
      \/ UNCHANGED backlog
      \/ TakeOutTCPConnection /\ backlog # <<>>
  BY TaskFrame
  DEF Next, ClientStep, Send, CloseByClient, PoolStart, vars, connVars, LoopStep,
      StartCreateServer, Register, EpollWait, NextEvent, Accept, AddClient, Enqueue
<1> QED
  BY <1>1, <1>2, <1>3, <1>4

LEMMA StepListenerComesFirst ==
  ASSUME TypeOK, TypeOK', DescriptorsInv, BacklogIsConnected, ListenerComesFirst, [Next]_vars
  PROVE  ListenerComesFirst'
<1> DEFINE Goal == /\ BeforeAccept' \/ AfterAccept'
                   /\ fd' \notin ClientFds => NoTasks'
                   /\ \A w \in Workers : sock'[w] # SrvFd
<1> SUFFICES ASSUME Alone' PROVE Goal
  BY DEF ListenerComesFirst
<1>a. /\ Alone
      /\ BeforeAccept \/ AfterAccept
      /\ fd \notin ClientFds => NoTasks
      /\ \A w \in Workers : sock[w] # SrvFd
  BY ConnectionsRemain, AloneBefore DEF ListenerComesFirst
<1>t. /\ ready \in Seq(Fds) /\ batch \in Seq(Fds) /\ ready' \in Seq(Fds) /\ batch' \in Seq(Fds)
      /\ fd \in ClientFds \cup {SrvFd, None}
  BY DEF TypeOK, Fds
<1>l. Len(ready) \in Nat /\ Len(batch) \in Nat /\ Len(ready') \in Nat /\ Len(batch') \in Nat
  BY <1>t
<1>n. SrvFd \notin ClientFds /\ SrvFd \in Fds /\ None \notin Fds
  BY ConstantsAreFinite DEF Fds
<1>1. ASSUME NEW c \in Conns, Connect(c) PROVE Goal
  <2>1. connected = {}
    <3>1. IsFiniteSet(connected') /\ Cardinality(connected') <= 1
      BY ReactorAssumption, FS_Subset DEF TypeOK, Alone
    <3>2. c \in connected' /\ connected \subseteq connected' /\ c \notin connected
      BY <1>1 DEF Connect
    <3> QED
      BY <3>1, <3>2, AtMostOne
  <2>2. /\ connected' = {c} /\ lpc' = lpc /\ lpc # "create" /\ Edge({SrvFd})
        /\ UNCHANGED <<fdconn, watched, batch, fd, queue, wpc, sock>>
    BY <1>1, <2>1 DEF Connect, ClientFrame, loopVars, poolVars
  <2>3. BeforeAccept
    BY <1>a, <2>1 DEF AfterAccept
  <2>4. /\ ToSet(ready') \subseteq {SrvFd}
        /\ watched = {} => ready' = ready
        /\ Len(ready') <= Len(ready) + 1
    <3>1. /\ ToSet(ready') = ToSet(ready) \cup ({SrvFd} \cap watched)
          /\ {SrvFd} \cap watched = {} => ready' = ready
          /\ Len(ready') <= Len(ready) + Cardinality({SrvFd} \cap watched)
      <4>1. {SrvFd} \in SUBSET Fds
        BY <1>n
      <4> QED
        BY <2>2, <4>1, EdgeLists
    <3>2. IsFiniteSet({SrvFd}) /\ Cardinality({SrvFd}) = 1
      BY FS_Singleton
    <3>3. Cardinality({SrvFd} \cap watched) \in Nat /\ Cardinality({SrvFd} \cap watched) <= 1
      BY <3>2, FS_Subset, FS_CardinalityType
    <3> QED
      BY <1>l, <2>3, <3>1, <3>3 DEF BeforeAccept
  <2>5. BeforeAccept'
    BY <1>l, <2>1, <2>2, <2>3, <2>4 DEF BeforeAccept
  <2> QED
    BY <1>a, <2>2, <2>5 DEF NoTasks
<1>2. ASSUME NEW c \in Conns, Send(c) \/ CloseByClient(c) PROVE Goal
  <2>1. /\ UNCHANGED <<connected, lpc, fdconn, watched, batch, fd, queue, wpc, sock>>
        /\ Edge(DescriptorOf(c))
    BY <1>2 DEF Send, CloseByClient, ClientFrame, loopVars, poolVars
  <2>2. /\ ToSet(ready') = ToSet(ready) \cup (DescriptorOf(c) \cap watched)
        /\ DescriptorOf(c) \cap watched = {} => ready' = ready
    <3>1. DescriptorOf(c) \in SUBSET Fds
      BY DEF DescriptorOf, Fds
    <3> QED
      BY <2>1, <3>1, EdgeLists
  <2>3. SrvFd \notin DescriptorOf(c)
    BY <1>n DEF DescriptorOf
  <2>4. BeforeAccept => BeforeAccept'
    BY <2>1, <2>2, <2>3 DEF BeforeAccept
  <2>5. AfterAccept => AfterAccept'
    BY <2>1, <2>2, <2>3 DEF AfterAccept
  <2> QED
    BY <1>a, <2>1, <2>4, <2>5 DEF NoTasks
<1>3. CASE UNCHANGED vars
  BY <1>3, <1>a DEF vars, clientVars, connVars, epollVars, loopVars, poolVars, BeforeAccept, AfterAccept,
                    NoTasks
<1>4. CASE StartCreateServer
  <2>1. /\ lpc = "create" /\ lpc' = "register"
        /\ UNCHANGED <<connected, fdconn, watched, ready, batch, fd, queue, wpc, sock>>
    BY <1>4 DEF StartCreateServer, Loop, clientVars, connVars, epollVars, poolVars
  <2> QED
    BY <1>a, <2>1 DEF BeforeAccept, AfterAccept, NoTasks
<1>5. CASE Register
  <2>1. /\ lpc = "register" /\ lpc' = "next" /\ watched' = watched \cup {SrvFd}
        /\ ready' = IF backlog # <<>> THEN Append(ready, SrvFd) ELSE ready
        /\ UNCHANGED <<connected, fdconn, batch, fd, queue, wpc, sock>>
    BY <1>5 DEF Register, AddEvent, Readable, Loop, clientVars, connVars, poolVars
  <2>2. BeforeAccept /\ ready = <<>> /\ Len(batch) = 0
    BY <1>a, <1>l, <2>1 DEF BeforeAccept, AfterAccept
  <2>3. backlog # <<>> => connected # {}
    BY ToSetOf DEF BacklogIsConnected, TypeOK
  <2>4. /\ ToSet(ready') \subseteq {SrvFd}
        /\ Len(ready') <= IF connected = {} THEN 0 ELSE 1
    BY <2>1, <2>2, <2>3 DEF ToSet
  <2>5. BeforeAccept'
    BY <1>l, <2>1, <2>2, <2>4 DEF BeforeAccept
  <2> QED
    BY <1>a, <2>1, <2>5 DEF NoTasks
<1>6. CASE EpollWait
  <2>1. /\ lpc = "next" /\ lpc' = "next" /\ batch = <<>>
        /\ UNCHANGED <<connected, fdconn, watched, fd, queue, wpc, sock>>
    BY <1>6 DEF EpollWait, Loop, clientVars, connVars, poolVars
  <2>2. /\ ToSet(batch') \subseteq ToSet(ready) /\ ToSet(ready') \subseteq ToSet(ready)
        /\ Len(batch') + Len(ready') <= Len(ready)
    BY <1>6, WaitSplits
  <2>3. BeforeAccept => BeforeAccept'
    <3>1. ready = <<>> => ready' = <<>>
      BY <1>l, <1>t, <2>2, EmptySeq
    <3>2. Len(ready') + Len(batch') <= Len(ready) + Len(batch)
      BY <1>l, <2>1, <2>2
    <3> QED
      BY <1>l, <2>1, <2>2, <3>1, <3>2 DEF BeforeAccept
  <2>4. AfterAccept => AfterAccept'
    BY <2>1, <2>2 DEF AfterAccept
  <2> QED
    BY <1>a, <2>1, <2>3, <2>4 DEF NoTasks
<1>7. CASE NextEvent
  <2>1. /\ lpc = "next" /\ lpc' = Branch(fd') /\ batch # <<>> /\ fd' = Head(batch) /\ batch' = Tail(batch)
        /\ UNCHANGED <<connected, fdconn, watched, ready, queue, wpc, sock>>
    BY <1>7 DEF NextEvent, Loop, clientVars, connVars, epollVars, poolVars
  <2>2. fd' \in Fds /\ ToSet(batch) = {fd'} \cup ToSet(batch') /\ Len(batch') = Len(batch) - 1
    BY <1>t, <2>1, ToSetTail, HeadTailProperties
  <2>3. CASE BeforeAccept
    <3>1. fd' = SrvFd /\ lpc' = "accept"
      BY <2>1, <2>2, <2>3 DEF BeforeAccept, Branch
    <3>2. connected # {} /\ Len(ready) + Len(batch) <= 1
      BY <1>l, <2>1, <2>2, <2>3 DEF BeforeAccept
    <3>3. BeforeAccept'
      BY <1>l, <1>n, <2>1, <2>2, <2>3, <3>1, <3>2 DEF BeforeAccept
    <3>4. NoTasks'
      BY <1>a, <2>1, <2>3 DEF BeforeAccept, NoTasks
    <3> QED
      BY <1>a, <2>1, <3>3, <3>4
  <2>4. CASE AfterAccept
    <3>1. fd' \in ClientFds /\ lpc' = "enqueue"
      BY <2>1, <2>2, <2>4 DEF AfterAccept, Branch, Fds
    <3>2. AfterAccept'
      BY <2>1, <2>2, <2>4, <3>1 DEF AfterAccept
    <3> QED
      BY <1>a, <2>1, <3>1, <3>2
  <2> QED
    BY <1>a, <2>3, <2>4
<1>8. CASE Accept
  <2>1. /\ lpc = "accept" /\ UNCHANGED <<connected, watched, ready, batch, fd, queue, wpc, sock>>
    BY <1>8 DEF Accept, Loop, clientVars, epollVars, poolVars
  <2>2. BeforeAccept /\ connected # {} /\ Len(ready) = 0 /\ Len(batch) = 0
    BY <1>a, <1>l, <2>1 DEF BeforeAccept, AfterAccept
  <2>3. ToSet(ready) = {} /\ ToSet(batch) = {}
    BY <1>t, <2>2, EmptySeq, ToSetOf
  <2>4. CASE lpc' = "add"
    <3>1. AfterAccept'
      BY <2>1, <2>2, <2>3, <2>4 DEF AfterAccept
    <3> QED
      BY <1>a, <2>1, <3>1 DEF NoTasks
  <2>5. CASE lpc' = "next" /\ UNCHANGED fdconn
    <3>1. BeforeAccept'
      BY <2>1, <2>2, <2>5 DEF BeforeAccept
    <3> QED
      BY <1>a, <2>1, <3>1 DEF NoTasks
  <2> QED
    BY <1>8, <2>4, <2>5 DEF Accept, Loop, connVars
<1>9. CASE AddClient
  <2>1. /\ lpc = "add" /\ lpc' = "next" /\ (ready' = ready \/ ready' = Append(ready, client_fd))
        /\ UNCHANGED <<connected, batch, fd, queue, wpc, sock>>
    BY <1>9 DEF AddClient, AddEvent, epollVars, Loop, clientVars, connVars, poolVars
  <2>2. AfterAccept
    BY <1>a, <2>1 DEF BeforeAccept
  <2>3. client_fd \in ClientFds
    BY <2>1 DEF DescriptorsInv, LoopHasDescriptors
  <2>4. ToSet(ready') \subseteq ToSet(ready) \cup {client_fd}
    <3>1. ToSet(Append(ready, client_fd)) = ToSet(ready) \cup {client_fd}
      BY <1>t, <2>3, ToSetAppend DEF Fds
    <3> QED
      BY <2>1, <3>1
  <2>5. AfterAccept'
    BY <1>n, <2>1, <2>2, <2>3, <2>4 DEF AfterAccept
  <2> QED
    BY <1>a, <2>1, <2>5 DEF NoTasks
<1>10. CASE Enqueue
  <2>1. /\ lpc = "enqueue" /\ lpc' = "next"
        /\ UNCHANGED <<connected, ready, batch, fd, sock>>
    BY <1>10 DEF Enqueue, Loop, clientVars, epollVars
  <2>2. AfterAccept /\ fd \in ClientFds
    BY <1>a, <2>1 DEF BeforeAccept, DescriptorsInv, LoopHasDescriptors
  <2>3. AfterAccept'
    BY <2>1, <2>2 DEF AfterAccept
  <2> QED
    BY <1>a, <2>1, <2>2, <2>3
<1>11. ASSUME NEW w \in Workers, TaskStart(w) \/ TaskStep(w) PROVE Goal
  <2>1. UNCHANGED <<connected, lpc, batch, fd>>
    BY <1>11, TaskFrame DEF clientVars
  <2>2. ~NoTasks
    <3>1. CASE TaskStart(w)
      BY <3>1 DEF TaskStart, TQ!Start, NoTasks
    <3>2. CASE TaskStep(w)
      <4>1. wpc[w] # "idle"
        BY <3>2 DEF TaskStep, RequestMemory, MakeStream, Recv, RecvFull, RecvFailure, RecvData, RecvNothing,
                    Close, Parse, WipeMemory, ReturnMemory, Task
      <4> QED
        BY <4>1 DEF NoTasks
    <3> QED
      BY <1>11, <3>1, <3>2
  <2>3. fd \in ClientFds /\ AfterAccept
    BY <1>a, <2>2 DEF BeforeAccept
  <2>4. ToSet(ready') \subseteq ToSet(ready)
    <3>1. CASE Close(w)
      BY <3>1, CloseUnlists
    <3>2. CASE ~Close(w)
      BY <1>11, <3>2
      DEF TaskStart, TaskStep, RequestMemory, MakeStream, Recv, RecvFull, RecvFailure, RecvData, RecvNothing,
          Parse, WipeMemory, ReturnMemory, epollVars
    <3> QED
      BY <3>1, <3>2
  <2>5. AfterAccept'
    BY <2>1, <2>3, <2>4 DEF AfterAccept
  <2>6. \A v \in Workers : sock'[v] \in {sock[v], fd, None}
    BY <1>11
    DEF TaskStart, TaskStep, RequestMemory, MakeStream, Recv, RecvFull, RecvFailure, RecvData, RecvNothing,
        Close, Parse, WipeMemory, ReturnMemory, TypeOK
  <2>7. \A v \in Workers : sock'[v] # SrvFd
    BY <1>a, <1>n, <2>3, <2>6 DEF SrvFd, None
  <2> QED
    BY <2>1, <2>3, <2>5, <2>7
<1> QED
  BY <1>1, <1>2, <1>3, <1>4, <1>5, <1>6, <1>7, <1>8, <1>9, <1>10, <1>11
  DEF Next, ClientStep, LoopStep, PoolStart

LEMMA StepFatalOnlyOnListener ==
  ASSUME TypeOK, TypeOK', DescriptorsInv, OpenInv, ListenerComesFirst, FatalOnlyOnListener, [Next]_vars
  PROVE  FatalOnlyOnListener'
<1>1. CASE UNCHANGED vars
  BY <1>1 DEF vars, clientVars, FatalOnlyOnListener, Alone
<1>2. CASE crashed' = FALSE
  BY <1>2 DEF FatalOnlyOnListener
<1>3. ASSUME NEW w \in Workers, RecvFailure(w) PROVE FatalOnlyOnListener'
  <2>1. SUFFICES ASSUME fin = {} PROVE ~Alone' /\ \E v \in Workers : sock'[v] = SrvFd
    BY <1>3 DEF FatalOnlyOnListener, RecvFailure, Task, clientVars
  <2>2. sock' = sock /\ ~IsOpen(sock[w]) /\ wpc[w] = "recv"
    BY <1>3, <2>1 DEF RecvFailure, Error, m_sock, Task, TypeOK
  <2>3. sock[w] # None
    BY <2>2 DEF DescriptorsInv, TasksHaveDescriptors, Reading
  <2>4. sock[w] \notin ClientFds
    BY <2>1, <2>2, InUseOf DEF OpenInv, OpenUntilClosed
  <2>5. sock[w] = SrvFd
    BY <2>3, <2>4 DEF TypeOK
  <2>6. ~Alone'
    BY <2>5, ConnectionsRemain, AloneBefore DEF ListenerComesFirst
  <2> QED
    BY <2>2, <2>5, <2>6
<1>4. UNCHANGED vars \/ crashed' = FALSE \/ \E w \in Workers : RecvFailure(w)
  <2>1. ClientStep \/ LoopStep => crashed' = FALSE
    BY ClientsFrame, LoopFrame DEF TypeOK
  <2>2. ASSUME NEW w \in Workers, TaskStart(w) \/ TaskStep(w), ~RecvFailure(w)
        PROVE  crashed' = FALSE
    BY <2>2
    DEF TaskStart, TaskStep, RequestMemory, MakeStream, Recv, RecvFull, RecvData, RecvNothing,
        Close, Parse, WipeMemory, ReturnMemory, Task, TypeOK
  <2> QED
    BY <2>1, <2>2 DEF Next, PoolStart
<1> QED
  BY <1>1, <1>2, <1>3, <1>4

-----------------------------------------------------------------------------
(***************************************************************************)
(* What a call has read first stays in front of its buffer.                *)
(***************************************************************************)
LEMMA ConnectionSteps ==
  ASSUME TypeOK, DescriptorsInv, [Next]_vars
  PROVE  \/ \E c \in Conns : Connect(c)
         \/ UNCHANGED <<connected, backlog, fdconn>>
         \/ TakeOutTCPConnection /\ backlog # <<>> /\ FreeFds # {} /\ connected' = connected
         \/ /\ UNCHANGED <<connected, backlog>>
            /\ \E f \in ClientFds : fdconn' = [fdconn EXCEPT ![f] = NoConn]
<1> USE DEF clientVars, connVars
<1>1. CASE UNCHANGED vars
  BY <1>1 DEF vars
<1>2. CASE ClientStep
  BY <1>2 DEF ClientStep, Send, CloseByClient, ClientFrame
<1>3. CASE LoopStep
  BY <1>3 DEF LoopStep, StartCreateServer, Register, EpollWait, NextEvent, Accept, AddClient,
              Enqueue, Loop
<1>4. ASSUME NEW w \in Workers, Close(w)
      PROVE  /\ UNCHANGED <<connected, backlog>>
             /\ \/ UNCHANGED fdconn
                \/ \E f \in ClientFds : fdconn' = [fdconn EXCEPT ![f] = NoConn]
  BY <1>4 DEF Close, Task, IsOpen
<1>5. ASSUME NEW w \in Workers, TaskStart(w) \/ (TaskStep(w) /\ ~Close(w))
      PROVE  UNCHANGED <<connected, backlog, fdconn>>
  BY <1>5 DEF TaskStart, TaskStep, RequestMemory, MakeStream, Recv, RecvFull, RecvFailure,
              RecvData, RecvNothing, Parse, WipeMemory, ReturnMemory, Task
<1> QED
  BY <1>1, <1>2, <1>3, <1>4, <1>5 DEF Next, PoolStart

LEMMA StepEachConnectedOnce ==
  ASSUME TypeOK, DescriptorsInv, BacklogIsConnected, EachConnectedOnce, [Next]_vars
  PROVE  EachConnectedOnce'
<1> USE DEF EachConnectedOnce
<1>t. backlog \in Seq(Conns) /\ fdconn \in [ClientFds -> Conns \cup {NoConn}] /\ NoConn \notin Conns
  BY ReactorAssumption DEF TypeOK
<1>1. ASSUME NEW c \in Conns, Connect(c) PROVE EachConnectedOnce'
  <2>1. /\ backlog' = Append(backlog, c) /\ c \notin ToSet(backlog) /\ fdconn' = fdconn
        /\ connected' = connected \cup {c} /\ c \notin connected
    BY <1>1 DEF Connect, ClientFrame, BacklogIsConnected
  <2>2. ToSet(backlog') = ToSet(backlog) \cup {c}
    BY <1>t, <2>1, ToSetAppend
  <2>3. \A i \in 1 .. Len(backlog) : backlog[i] # c
    BY <2>1 DEF ToSet
  <2>4. \A i, j \in 1 .. Len(backlog') : backlog'[i] = backlog'[j] => i = j
    BY <1>t, <2>1, <2>3
  <2> QED
    BY <1>t, <2>1, <2>2, <2>4
<1>2. CASE UNCHANGED <<connected, backlog, fdconn>>
  BY <1>2
<1>3. CASE TakeOutTCPConnection /\ backlog # <<>> /\ FreeFds # {} /\ connected' = connected
  <2>1. /\ Min(FreeFds) \in ClientFds /\ ~IsOpen(Min(FreeFds))
        /\ fdconn' = [fdconn EXCEPT ![Min(FreeFds)] = Head(backlog)] /\ backlog' = Tail(backlog)
    BY <1>3, LowestFreeDescriptor DEF TakeOutTCPConnection
  <2>2. /\ Head(backlog) = backlog[1] /\ Len(backlog) \in Nat /\ Len(backlog) > 0
        /\ Len(backlog') = Len(backlog) - 1
        /\ \A i \in 1 .. Len(backlog') : backlog'[i] = backlog[i + 1]
    BY <1>t, <1>3, <2>1, HeadTailProperties
  <2>3. ToSet(backlog) = {Head(backlog)} \cup ToSet(backlog')
    BY <1>t, <1>3, <2>1, ToSetTail
  <2>4. Head(backlog) \notin ToSet(backlog')
    BY <2>2 DEF ToSet
  <2>5. \A i, j \in 1 .. Len(backlog') : backlog'[i] = backlog'[j] => i = j
    <3> SUFFICES ASSUME NEW i \in 1 .. Len(backlog'), NEW j \in 1 .. Len(backlog'),
                        backlog[i + 1] = backlog[j + 1]
                 PROVE  i = j
      BY <2>2
    <3>1. i + 1 \in 1 .. Len(backlog) /\ j + 1 \in 1 .. Len(backlog)
      BY <2>2
    <3>2. i + 1 = j + 1
      BY <3>1
    <3> QED
      BY <3>2
  <2>6. Head(backlog) \in connected \ {NoConn}
    BY <1>t, <2>3 DEF BacklogIsConnected, TypeOK
  <2>7. ASSUME NEW f \in ClientFds, fdconn'[f] # NoConn
        PROVE  fdconn'[f] \in connected' \ ToSet(backlog')
    BY <1>t, <1>3, <2>1, <2>3, <2>4, <2>6, <2>7
  <2>8. ASSUME NEW f \in ClientFds, NEW g \in ClientFds, fdconn'[f] = fdconn'[g], fdconn'[f] # NoConn
        PROVE  f = g
    BY <1>t, <2>1, <2>3, <2>8
  <2> QED
    BY <2>5, <2>7, <2>8
<1>4. ASSUME UNCHANGED <<connected, backlog>>,
             NEW f \in ClientFds, fdconn' = [fdconn EXCEPT ![f] = NoConn]
      PROVE  EachConnectedOnce'
  BY <1>t, <1>4
<1> QED
  BY <1>1, <1>2, <1>3, <1>4, ConnectionSteps

(* A connection that was accepted keeps its descriptor, or has none any    *)
(* more for good.                                                          *)
LEMMA AcceptedStay ==
  ASSUME TypeOK, DescriptorsInv, BacklogIsConnected, EachConnectedOnce, [Next]_vars,
         NEW c \in Conns, Accepted(c)
  PROVE  /\ Accepted(c)'
         /\ DescriptorOf(c) = {} => DescriptorOf(c)' = {}
         /\ \A f \in ClientFds : fdconn[f] = c => fdconn'[f] = c \/ DescriptorOf(c)' = {}
<1> USE DEF Accepted, DescriptorOf
<1>t. backlog \in Seq(Conns) /\ fdconn \in [ClientFds -> Conns \cup {NoConn}] /\ c # NoConn
  BY ReactorAssumption DEF TypeOK
<1>1. ASSUME NEW d \in Conns, Connect(d)
      PROVE  Accepted(c)' /\ fdconn' = fdconn
  <2>1. /\ backlog' = Append(backlog, d) /\ fdconn' = fdconn
        /\ connected' = connected \cup {d} /\ d \notin connected
    BY <1>1 DEF Connect, ClientFrame
  <2>2. ToSet(backlog') = ToSet(backlog) \cup {d}
    BY <1>t, <2>1, ToSetAppend
  <2> QED
    BY <2>1, <2>2
<1>2. CASE UNCHANGED <<connected, backlog, fdconn>>
  BY <1>2
<1>3. CASE TakeOutTCPConnection /\ backlog # <<>> /\ FreeFds # {} /\ connected' = connected
  <2>1. /\ Min(FreeFds) \in ClientFds /\ fdconn[Min(FreeFds)] = NoConn
        /\ fdconn' = [fdconn EXCEPT ![Min(FreeFds)] = Head(backlog)] /\ backlog' = Tail(backlog)
    BY <1>3, LowestFreeDescriptor DEF TakeOutTCPConnection, IsOpen
  <2>2. ToSet(backlog) = {Head(backlog)} \cup ToSet(backlog')
    BY <1>t, <1>3, <2>1, ToSetTail
  <2>3. \A f \in ClientFds : fdconn'[f] = c <=> fdconn[f] = c
    BY <1>t, <2>1, <2>2
  <2> QED
    BY <1>3, <2>2, <2>3
<1>4. ASSUME UNCHANGED <<connected, backlog>>,
             NEW f \in ClientFds, fdconn' = [fdconn EXCEPT ![f] = NoConn]
      PROVE  /\ Accepted(c)'
             /\ \A g \in ClientFds : fdconn'[g] = c => fdconn[g] = c
             /\ fdconn[f] = c => \A g \in ClientFds : fdconn'[g] # c
             /\ \A g \in ClientFds : g # f => fdconn'[g] = fdconn[g]
  BY <1>t, <1>4 DEF EachConnectedOnce
<1>5. CASE \E f \in ClientFds : /\ UNCHANGED <<connected, backlog>>
                                /\ fdconn' = [fdconn EXCEPT ![f] = NoConn]
  BY <1>4, <1>5
<1> QED
  BY <1>1, <1>2, <1>3, <1>5, ConnectionSteps

LEMMA OutcomesStay ==
  ASSUME TypeOK, [Next]_vars
  PROVE  handled \subseteq handled' /\ fin \subseteq fin'
<1>1. ClientStep \/ LoopStep \/ UNCHANGED vars => handled' = handled
  BY ClientsFrame, LoopFrame DEF vars
<1>2. ASSUME NEW w \in Workers, TaskStart(w) \/ TaskStep(w) PROVE handled \subseteq handled'
  BY <1>2 DEF TaskStart, TaskStep, RequestMemory, MakeStream, Recv, RecvFull, RecvFailure,
              RecvData, RecvNothing, Close, Parse, WipeMemory, ReturnMemory
<1>3. fin \subseteq fin'
  BY TaskFrame, LoopFrame
  DEF Next, ClientStep, Connect, Send, CloseByClient, PoolStart, vars, clientVars
<1> QED
  BY <1>1, <1>2, <1>3 DEF Next, PoolStart

(* What a worker that makes no step has read, and has done with it, stays. *)
LEMMA FrontStays ==
  ASSUME TypeOK, DescriptorsInv, BacklogIsConnected, EachConnectedOnce, [Next]_vars,
         NEW v \in Workers, holds[v] \in Slots, KeepsFront(v),
         wpc'[v] = wpc[v], sock'[v] = sock[v], cur_bytes_read'[v] = cur_bytes_read[v],
         content'[holds'[v]] = content[holds[v]]
  PROVE  KeepsFront(v)'
<1>1. ASSUME NEW m \in content[holds[v]] PROVE ReadFrom(v, m[2][1])'
  <2>1. m[2][1] \in Conns /\ ReadFrom(v, m[2][1])
    BY DEF KeepsFront, TypeOK, BP!TypeOK, Messages
  <2> QED
    BY <2>1, AcceptedStay DEF ReadFrom
<1>2. ASSUME NEW m \in Messages, Settled(m) PROVE Settled(m)'
  <2>1. m[1] \in Conns
    BY DEF Messages
  <2> QED
    BY <1>2, <2>1, AcceptedStay, OutcomesStay DEF Settled
<1> QED
  BY <1>1, <1>2 DEF KeepsFront

LEMMA StepFrontsAreKept ==
  ASSUME TypeOK, TypeOK', MemoryInv, DescriptorsInv, BacklogIsConnected, EachConnectedOnce,
         FrontsAreKept, [Next]_vars
  PROVE  FrontsAreKept'
<1>h. \A v \in Workers : wpc[v] \in Reading => holds[v] \in Slots
  BY DEF MemoryInv, HoldsFollowsControl, Reading
<1>1. CASE ClientStep \/ LoopStep \/ UNCHANGED vars
  <2>1. UNCHANGED <<wpc, sock, cur_bytes_read, holds, content>>
    BY <1>1, ClientsFrame, LoopFrame DEF vars, memVars
  <2> QED
    BY <1>h, <2>1, FrontStays DEF FrontsAreKept
<1>2. ASSUME NEW w \in Workers, TaskStart(w) \/ TaskStep(w), NEW v \in Workers, v # w,
             wpc'[v] \in Reading
      PROVE  KeepsFront(v)'
  <2>1. /\ wpc'[v] = wpc[v] /\ sock'[v] = sock[v] /\ cur_bytes_read'[v] = cur_bytes_read[v]
        /\ holds'[v] = holds[v]
    BY <1>2 DEF TaskStart, TaskStep, RequestMemory, MakeStream, Recv, RecvFull, RecvFailure,
                RecvData, RecvNothing, Close, Parse, WipeMemory, ReturnMemory, Task, TypeOK,
                memVars, BP!TypeOK, BP!Acquire, BP!Write, BP!Wipe, BP!Release, GiveBack
  <2>2. holds[v] \in Slots
    BY <1>2, <1>h, <2>1
  <2>3. \A i \in Slots : i # holds[w] => content'[i] = content[i]
    BY <1>2 DEF TaskStart, TaskStep, RequestMemory, MakeStream, Recv, RecvFull, RecvFailure,
                RecvData, RecvNothing, Close, Parse, WipeMemory, ReturnMemory, Task, TypeOK,
                memVars, BP!TypeOK, BP!Acquire, BP!Write, BP!Wipe, BP!Release, GiveBack
  <2>4. holds[v] # holds[w]
    BY <1>2, <2>2 DEF MemoryInv, HoldersDiffer
  <2> QED
    BY <1>2, <2>1, <2>2, <2>3, <2>4, FrontStays DEF FrontsAreKept
<1>3. ASSUME NEW w \in Workers, TaskStart(w) \/ TaskStep(w), wpc'[w] \in Reading
      PROVE  KeepsFront(w)'
  <2>1. CASE MakeStream(w)
    <3>1. /\ wpc[w] = "stream" /\ wpc'[w] = "recv" /\ UNCHANGED <<holds, content>>
      BY <2>1 DEF MakeStream, Task, TypeOK, memVars
    <3>2. holds[w] \in Slots /\ content[holds[w]] = {}
      BY <3>1 DEF MemoryInv, ContentIsSomebodys, HoldersDiffer, HoldsFollowsControl, Reading
    <3> QED
      BY <3>1, <3>2 DEF KeepsFront
  <2>2. CASE RecvFull(w) \/ RecvFailure(w) \/ RecvNothing(w) \/ Close(w) \/ Parse(w)
    <3>1. /\ UNCHANGED <<sock, cur_bytes_read, holds, content>>
          /\ wpc[w] \in Reading /\ KeepsFront(w) /\ holds[w] \in Slots
      BY <1>h, <2>2 DEF RecvFull, RecvFailure, RecvNothing, Close, Parse, Task, memVars, Reading,
                        FrontsAreKept
    <3>2. ASSUME NEW m \in content[holds[w]] PROVE ReadFrom(w, m[2][1])'
      <4>1. m[2][1] \in Conns /\ ReadFrom(w, m[2][1])
        BY <3>1 DEF KeepsFront, TypeOK, BP!TypeOK, Messages
      <4> QED
        BY <3>1, <4>1, AcceptedStay DEF ReadFrom
    <3>3. wpc'[w] = "recv" => wpc[w] = "recv"
      BY <2>2 DEF RecvFull, RecvFailure, RecvNothing, Close, Parse, Task, AfterRecv, TypeOK
    <3>4. ASSUME NEW m \in Messages, <<0, m>> \in content[holds[w]], wpc'[w] \in {"close", "wipe"}
          PROVE  Settled(m)'
      <4>1. m[1] \in Conns /\ ReadFrom(w, m[1])
        BY <3>1, <3>4 DEF KeepsFront, Messages
      <4>2. Settled(m) => Settled(m)'
        BY <4>1, AcceptedStay, OutcomesStay DEF Settled
      <4>3. CASE Parse(w)
        BY <3>4, <4>3 DEF Parse, Settled
      <4>4. CASE Close(w)
        BY <3>1, <3>4, <4>2, <4>4 DEF Close, Task, KeepsFront
      <4>5. CASE RecvNothing(w)
        <5>1. wpc[w] = "recv" /\ fdconn[sock[w]] \in fin
          BY <3>1, <3>4, <4>5 DEF RecvNothing, Task, AfterRecv, TypeOK, KeepsFront, m_sock
        <5>2. Settled(m)
          BY <4>1, <5>1 DEF Settled, ReadFrom
        <5> QED
          BY <4>2, <5>2
      <4>6. wpc'[w] \notin {"close", "wipe"} \/ Parse(w) \/ Close(w) \/ RecvNothing(w)
        BY <2>2 DEF RecvFull, RecvFailure, Task, TypeOK
      <4> QED
        BY <3>4, <4>3, <4>4, <4>5, <4>6
    <3> QED
      BY <3>1, <3>2, <3>3, <3>4 DEF KeepsFront
  <2>3. CASE RecvData(w)
    <3> DEFINE c == fdconn[sock[w]]
               at == Offset(w)
               n == Min({sent[c] - taken[c], BufferSize - at})
               D == {m \in content[holds[w]] : m[1] \notin at .. at + n - 1} \cup Got(c, at, n)
    <3>1. /\ UNCHANGED <<sock, holds, fdconn, backlog, connected>> /\ wpc[w] = "recv" /\ wpc' = wpc
          /\ sock[w] \in ClientFds /\ c # NoConn /\ content' = [content EXCEPT ![holds[w]] = D]
          /\ cur_bytes_read' = [cur_bytes_read EXCEPT ![w] = n]
      BY <2>3 DEF RecvData, Task, BP!Write, Error, IsOpen, m_sock, TypeOK, clientVars
    <3>2. n > 0
      <4>1. c \in Conns /\ Unread(c) # {} /\ ~Full(w)
        BY <2>3, <3>1 DEF RecvData, m_sock, TypeOK
      <4>2. /\ sent[c] \in Nat /\ taken[c] \in Nat /\ cur_bytes_read[w] \in 0 .. BufferSize
            /\ BufferSize \in Nat
        BY <4>1, ReactorAssumption DEF TypeOK
      <4>3. sent[c] - taken[c] > 0
        BY <4>1, <4>2 DEF Unread
      <4>4. BufferSize - at > 0
        BY <4>1, <4>2 DEF Full, Offset
      <4>5. {sent[c] - taken[c], BufferSize - at} \in SUBSET Nat
        BY <4>2, <4>3, <4>4 DEF Offset
      <4>6. n \in {sent[c] - taken[c], BufferSize - at}
        BY <4>5, MinOfNaturals
      <4> QED
        BY <4>3, <4>4, <4>6
    <3>3. \A m \in D : m \in content[holds[w]] \/ m[2][1] = c
      BY DEF Got
    <3> HIDE DEF D, n
    <3>4. holds[w] \in Slots /\ KeepsFront(w) /\ content'[holds'[w]] = D
      BY <1>h, <3>1 DEF Reading, FrontsAreKept, TypeOK, BP!TypeOK
    <3>5. Accepted(c)
      BY <3>1 DEF Accepted, EachConnectedOnce
    <3>6. ASSUME NEW m \in D PROVE ReadFrom(w, m[2][1])
      BY <3>1, <3>3, <3>4, <3>5, <3>6 DEF KeepsFront, ReadFrom
    <3>7. ASSUME NEW m \in D PROVE ReadFrom(w, m[2][1])'
      BY <3>1, <3>6 DEF ReadFrom, Accepted, DescriptorOf
    <3>8. cur_bytes_read'[w] > 0
      BY <3>1, <3>2 DEF TypeOK
    <3> QED
      BY <3>1, <3>4, <3>7, <3>8 DEF KeepsFront
  <2> QED
    <3>1. wpc'[w] \notin Reading
            \/ MakeStream(w) \/ RecvFull(w) \/ RecvFailure(w) \/ RecvNothing(w) \/ Close(w)
            \/ Parse(w) \/ RecvData(w)
      BY <1>3 DEF TaskStart, TaskStep, RequestMemory, Recv, WipeMemory, ReturnMemory, Task,
                  TypeOK, Reading
    <3> QED
      BY <1>3, <2>1, <2>2, <2>3, <3>1
<1>4. ASSUME NEW w \in Workers, TaskStart(w) \/ TaskStep(w) PROVE FrontsAreKept'
  BY <1>2, <1>3, <1>4 DEF FrontsAreKept
<1> QED
  BY <1>1, <1>4 DEF Next, PoolStart

LEMMA StepFirstReadIsHandled ==
  ASSUME TypeOK, MemoryInv, FrontsAreKept, [Next]_vars,
         NEW i \in Slots, NEW m \in Messages, <<0, m>> \in content[i] \ content'[i]
  PROVE  m \in handled \/ m[1] \in fin \/ DescriptorOf(m[1]) = {}
<1>1. PICK w \in Workers : TaskStep(w) /\ content' # content
  BY ClientsFrame, LoopFrame DEF Next, PoolStart, TaskStart, memVars, vars
<1>2. CASE RecvData(w)
  <2> DEFINE n == Min({sent[fdconn[sock[w]]] - taken[fdconn[sock[w]]], BufferSize - Offset(w)})
  <2>1. /\ wpc[w] = "recv" /\ holds[w] \in Slots
        /\ content' = [content EXCEPT ![holds[w]] =
              {x \in content[holds[w]] : x[1] \notin Offset(w) .. Offset(w) + n - 1}
                \cup Got(fdconn[sock[w]], Offset(w), n)]
    BY <1>2 DEF RecvData, Task, BP!Write, m_sock, MemoryInv, HoldsFollowsControl
  <2> HIDE DEF n
  <2>2. i = holds[w]
    BY <2>1 DEF TypeOK, BP!TypeOK
  <2>3. 0 \in Offset(w) .. Offset(w) + n - 1
    BY <2>1, <2>2 DEF TypeOK, BP!TypeOK
  <2>4. cur_bytes_read[w] > 0
    BY <2>1, <2>2 DEF FrontsAreKept, KeepsFront, Reading
  <2> QED
    BY <2>3, <2>4 DEF Offset, TypeOK
<1>3. CASE WipeMemory(w)
  <2>1. /\ wpc[w] = "wipe" /\ holds[w] \in Slots
        /\ content' = [content EXCEPT ![holds[w]] = {}]
    BY <1>3 DEF WipeMemory, Task, BP!Wipe, BP!Blank, MemoryInv, HoldsFollowsControl
  <2>2. i = holds[w]
    BY <2>1 DEF TypeOK, BP!TypeOK
  <2> QED
    BY <2>1, <2>2 DEF FrontsAreKept, KeepsFront, Reading, Settled
<1>4. RecvData(w) \/ WipeMemory(w)
  BY <1>1 DEF TaskStep, RequestMemory, MakeStream, Recv, RecvFull, RecvFailure, RecvNothing,
              Close, Parse, ReturnMemory, GiveBack, memVars, BP!Acquire, BP!Release
<1> QED
  BY <1>2, <1>3, <1>4

-----------------------------------------------------------------------------
(***************************************************************************)
(* The theorems.                                                           *)
(***************************************************************************)
LEMMA StepIInv == IInv /\ [Next]_vars => IInv'
<1> SUFFICES ASSUME IInv, [Next]_vars PROVE IInv'
  OBVIOUS
<1> USE DEF IInv, MemoryInv, DescriptorsInv, OpenInv
<1>1. TypeOK'
  BY StepTypeOK
<1> QED
  BY <1>1, StepMemoryInv, StepDescriptorsInv, StepOpenInv, StepBacklogIsConnected,
     StepListenerComesFirst, StepFatalOnlyOnListener, StepEachConnectedOnce, StepFrontsAreKept

THEOREM Invariant == Spec => []IInv
  BY InitIInv, StepIInv, PTL DEF Spec

(* Every variable keeps its type; with it, accept gives out descriptors of *)
(* the process, and epoll reports only those (HttpServer.cpp:65-122).      *)
THEOREM TypeCorrect == Spec => []TypeOK
<1>1. IInv => TypeOK
  BY DEF IInv
<1> QED
  BY <1>1, Invariant, PTL

(* A task that asks for memory finds a slot that is not in use             *)
(* (Server.cpp:54-66), for any number of workers: a worker holds one slot  *)
(* from RequestMemory to ReturnMemory (HttpServer.cpp:94-107), so those    *)
(* that do not ask hold fewer than there are.                              *)
THEOREM TasksFindMemory == Spec => []MemoryAvailable
<1>1. IInv => MemoryAvailable
  BY OneSlotIsLeft DEF IInv, MemoryInv
<1> QED
  BY <1>1, Invariant, PTL

(* Until a client closes, what a buffer holds came from one connection     *)
(* (HttpServer.cpp:96-104): buffers have one owner, which reads one        *)
(* descriptor, and that stays open with the same connection.               *)
THEOREM RequestsAreNotMixed == Spec => []OneConnectionPerBuffer
<1>1. ASSUME IInv PROVE OneConnectionPerBuffer
  <2>1. SUFFICES ASSUME fin = {}, NEW i \in Slots, NEW m \in content[i], NEW n \in content[i]
                 PROVE  m[2][1] = n[2][1]
    BY DEF OneConnectionPerBuffer
  <2>2. PICK w \in Workers : holds[w] = i /\ wpc[w] \in Reading
    BY <1>1, <2>1 DEF IInv, ContentIsSomebodys
  <2> QED
    BY <1>1, <2>1, <2>2 DEF IInv, OwnBytes
<1> QED
  BY <1>1, Invariant, PTL

(* What a call has read first is handed to the parser before the buffer is *)
(* wiped, and no later recv of the call stores over it                     *)
(* (SocketStream.cpp:19-47, HttpServer.cpp:94-107): a worker that has read *)
(* something has an offset behind it, and goes to the wipe without the     *)
(* parser only at the end of a stream, which is that of the client, unless *)
(* another task has closed the client's descriptor.                        *)
THEOREM FrontsReachTheParser == Spec => FirstReadIsHandled
<1>1. IInv /\ [Next]_vars =>
        [\A i \in Slots, m \in Messages :
           <<0, m>> \in content[i] \ content'[i] =>
             m \in handled \/ m[1] \in fin \/ DescriptorOf(m[1]) = {}]_vars
  BY StepFirstReadIsHandled DEF IInv, MemoryInv
<1> QED
  BY <1>1, Invariant, PTL DEF Spec, FirstReadIsHandled

(* Until a client closes, LOG(FATAL) in read_socket_non_block              *)
(* (SocketStream.cpp:33) is reached only with the listening descriptor,    *)
(* and only when there are two clients.                                    *)
THEOREM FatalReads == Spec => []FatalOnlyOnListener
<1>1. IInv => FatalOnlyOnListener
  BY DEF IInv
<1> QED
  BY <1>1, Invariant, PTL
=============================================================================
