----------------------- MODULE MultiplexServersProofs ----------------------
(***************************************************************************)
(* What the earlier servers guarantee for any number of clients,           *)
(* descriptors, messages and slots of poll's array.                        *)
(***************************************************************************)
EXTENDS MultiplexServers, ListLemmas

-----------------------------------------------------------------------------
(***************************************************************************)
(* The inductive invariant.                                                *)
(***************************************************************************)
Open == {f \in ClientFds : IsOpen(f)}

ConnectedOnly ==
  ToSet(backlog) \subseteq connected /\ \A f \in Open : fdconn[f] \in connected

(* These two never close, so that what they accepted is open. *)
AcceptedAreOpen == kind \in {"select", "poll"} => ToSet(m_client_fds) = Open

(* The slots in use are the first ones, and their descriptors are those    *)
(* that are open; only the newest may not have one yet.  An accept has     *)
(* somebody to accept, so that there is a newest descriptor even if it     *)
(* fails.                                                                  *)
Slotted == {fds[i] : i \in 1 .. effective_fd_nums - 1}

SlotsFollowDescriptors ==
  kind = "poll" =>
    /\ fds[0] = SrvFd
    /\ \A i \in 1 .. N - 1 : fds[i] # NoFd <=> i < effective_fd_nums
    /\ Slotted \subseteq Open
    /\ Open \ Slotted \subseteq IF pc \in {"add", "exit"} THEN {Newest} ELSE {}
    /\ pc = "accept" => backlog # <<>>
    /\ pc = "add" => m_client_fds # <<>>

(* epoll's table has the open descriptors; only the newest may be missing. *)
TableFollowsDescriptors ==
  kind = "epoll" =>
    /\ watched \ {SrvFd} \subseteq Open
    /\ Open \ watched \subseteq IF pc = "add" THEN {Newest} ELSE {}
    /\ pc \in {"add", "recv"} => returned # <<>>

IInv ==
  /\ TypeOK
  /\ ConnectedOnly /\ AcceptedAreOpen
  /\ SlotsFollowDescriptors /\ TableFollowsDescriptors

-----------------------------------------------------------------------------
(***************************************************************************)
(* Facts about the operators of MultiplexServers.                          *)
(***************************************************************************)
LEMMA ConstantsAreFinite ==
  /\ IsFiniteSet(ClientFds) /\ IsFiniteSet(Fds) /\ ClientFds \subseteq Nat /\ Fds \subseteq Nat
  /\ SrvFd \notin ClientFds /\ NoFd \notin Fds /\ 1 \in ClientFds
<1>1. IsFiniteSet(ClientFds)
  BY MultiplexAssumption, FS_Interval DEF ClientFds
<1>2. IsFiniteSet(Fds)
  BY <1>1, FS_AddElement DEF Fds
<1> QED
  BY <1>1, <1>2, MultiplexAssumption DEF ClientFds, Fds, SrvFd, NoFd

LEMMA EdgeLists ==
  ASSUME TypeOK, NEW F \in SUBSET Fds, Edge(F)
  PROVE  ready' \in Seq(Fds)
<1>1. ready \in Seq(Fds) /\ F \cap watched \in SUBSET Fds
  BY DEF TypeOK
<1>2. IsFiniteSet(F \cap watched)
  BY <1>1, ConstantsAreFinite, FS_Subset
<1> QED
  BY <1>1, <1>2, ListedProperties DEF Edge

LEMMA LowestFreeDescriptor ==
  ASSUME FreeFds # {}
  PROVE  Min(FreeFds) \in ClientFds /\ ~IsOpen(Min(FreeFds))
<1>1. FreeFds \in SUBSET Nat
  BY ConstantsAreFinite DEF FreeFds
<1> QED
  BY <1>1, MinOfNaturals DEF FreeFds

LEMMA NewestOf ==
  ASSUME NEW s \in Seq(ClientFds), s # <<>>
  PROVE  Last(s) \in ToSet(s)
<1>1. Len(s) \in 1 .. Len(s)
  BY EmptySeq, LenProperties
<1> QED
  BY <1>1, ToSetOf DEF Last

(* An accept takes the oldest connection, or changes nothing. *)
LEMMA AcceptTakesOldest ==
  ASSUME TypeOK, AcceptClient
  PROVE  \/ /\ backlog # <<>> /\ FreeFds # {}
            /\ Newest' \in ClientFds \ Open /\ Head(backlog) \in ToSet(backlog)
            /\ fdconn' = [fdconn EXCEPT ![Newest'] = Head(backlog)]
            /\ fdconn' \in [ClientFds -> Conns \cup {NoConn}]
            /\ Open' = Open \cup {Newest'}
            /\ backlog' \in Seq(Conns) /\ ToSet(backlog') \subseteq ToSet(backlog)
            /\ m_client_fds' \in Seq(ClientFds) /\ m_client_fds' # <<>>
            /\ ToSet(m_client_fds') = ToSet(m_client_fds) \cup {Newest'}
         \/ /\ backlog = <<>> \/ FreeFds = {}
            /\ UNCHANGED <<fdconn, backlog, m_client_fds>>
<1>1. SUFFICES ASSUME backlog # <<>>, FreeFds # {}
               PROVE  /\ Newest' \in ClientFds \ Open /\ Head(backlog) \in ToSet(backlog)
                      /\ fdconn' = [fdconn EXCEPT ![Newest'] = Head(backlog)]
                      /\ fdconn' \in [ClientFds -> Conns \cup {NoConn}]
                      /\ Open' = Open \cup {Newest'}
                      /\ backlog' \in Seq(Conns) /\ ToSet(backlog') \subseteq ToSet(backlog)
                      /\ m_client_fds' \in Seq(ClientFds) /\ m_client_fds' # <<>>
                      /\ ToSet(m_client_fds') = ToSet(m_client_fds) \cup {Newest'}
  BY DEF AcceptClient
<1> DEFINE f == Min(FreeFds)
<1>2. f \in ClientFds /\ f \notin Open
  BY <1>1, LowestFreeDescriptor DEF Open
<1>3. /\ fdconn' = [fdconn EXCEPT ![f] = Head(backlog)] /\ backlog' = Tail(backlog)
      /\ m_client_fds' = Append(m_client_fds, f)
      /\ m_client_fds \in Seq(ClientFds) /\ backlog \in Seq(Conns)
      /\ fdconn \in [ClientFds -> Conns \cup {NoConn}]
  BY <1>1 DEF AcceptClient, TypeOK
<1> HIDE DEF f
<1>4. /\ m_client_fds' \in Seq(ClientFds) /\ m_client_fds' # <<>>
      /\ m_client_fds'[Len(m_client_fds')] = f
  BY <1>2, <1>3
<1>5. Newest' = f
  BY <1>4 DEF Newest, Last
<1>6. ToSet(m_client_fds') = ToSet(m_client_fds) \cup {f}
  BY <1>2, <1>3, ToSetAppend
<1>7. /\ Head(backlog) \in ToSet(backlog) /\ Head(backlog) \in Conns
      /\ backlog' \in Seq(Conns) /\ ToSet(backlog') \subseteq ToSet(backlog)
  BY <1>1, <1>3, ToSetTail, HeadTailProperties
<1>8. Open' = Open \cup {f} /\ fdconn' \in [ClientFds -> Conns \cup {NoConn}]
  BY <1>2, <1>3, <1>7, MultiplexAssumption DEF Open, IsOpen
<1> QED
  BY <1>2, <1>3, <1>4, <1>5, <1>6, <1>7, <1>8

-----------------------------------------------------------------------------
LEMMA InitIInv == Init => IInv
<1> SUFFICES ASSUME Init PROVE IInv
  OBVIOUS
<1> USE DEF Init
<1> USE MultiplexAssumption, ConstantsAreFinite
<1>1. TypeOK
  <2>1. watched \subseteq Fds
    BY DEF StartSelect, StartPoll, StartEpoll, Fds
  <2>2. fds \in [0 .. N - 1 -> Fds \cup {NoFd}]
    BY DEF NoSlots, Fds
  <2>3. /\ sent \in [Conns -> 0 .. MaxSends] /\ taken \in [Conns -> 0 .. MaxSends]
        /\ fdconn \in [ClientFds -> Conns \cup {NoConn}] /\ effective_fd_nums \in 1 .. N
    OBVIOUS
  <2> QED
    BY <2>1, <2>2, <2>3 DEF TypeOK
<1>2. Open = {}
  BY DEF Open, IsOpen
<1>3. ToSet(backlog) = {} /\ ToSet(m_client_fds) = {}
  BY DEF ToSet
<1>4. ConnectedOnly /\ AcceptedAreOpen
  BY <1>2, <1>3 DEF ConnectedOnly, AcceptedAreOpen
<1>5. SlotsFollowDescriptors
  <2>1. Slotted = {}
    BY DEF Slotted
  <2>2. fds[0] = SrvFd /\ \A i \in 1 .. N - 1 : fds[i] = NoFd /\ ~(i < effective_fd_nums)
    BY DEF NoSlots
  <2> QED
    BY <1>2, <2>1, <2>2 DEF SlotsFollowDescriptors
<1>6. TableFollowsDescriptors
  BY <1>2 DEF TableFollowsDescriptors, StartSelect, StartPoll, StartEpoll
<1> QED
  BY <1>1, <1>4, <1>5, <1>6 DEF IInv

(* The clients touch nothing of the server but the backlog. *)
LEMMA ClientsPreserve ==
  ASSUME IInv, ClientStep
  PROVE  IInv'
<1> USE DEF IInv, ClientFrame, pollVars
<1>1. ASSUME NEW c \in Conns, Connect(c) PROVE TypeOK' /\ ConnectedOnly'
  <2>1. backlog' \in Seq(Conns) /\ ToSet(backlog') = ToSet(backlog) \cup {c}
    BY <1>1, ToSetAppend DEF Connect, TypeOK
  <2>2. ready' \in Seq(Fds)
    <3>1. {SrvFd} \in SUBSET Fds
      BY DEF Fds
    <3> QED
      BY <1>1, <3>1, EdgeLists DEF Connect
  <2> QED
    BY <1>1, <2>1, <2>2 DEF Connect, TypeOK, ConnectedOnly, Open, IsOpen
<1>2. ASSUME NEW c \in Conns, SendData(c) PROVE TypeOK' /\ ConnectedOnly'
  <2>1. ready' \in Seq(Fds)
    BY <1>2, EdgeLists DEF SendData, DescriptorOf, Fds
  <2>2. sent[c] + 1 \in 0 .. MaxSends
    BY <1>2, BoundLeavesRoom, MultiplexAssumption DEF SendData, Arrived, TypeOK
  <2> QED
    BY <1>2, <2>1, <2>2 DEF SendData, TypeOK, ConnectedOnly, Open, IsOpen
<1>3. ASSUME NEW c \in Conns, CloseByClient(c) PROVE TypeOK' /\ ConnectedOnly'
  <2>1. ready' \in Seq(Fds)
    BY <1>3, EdgeLists DEF CloseByClient, DescriptorOf, Fds
  <2> QED
    BY <1>3, <2>1 DEF CloseByClient, TypeOK, ConnectedOnly, Open, IsOpen
<1>4. UNCHANGED <<kind, fdconn, watched, pc, m_client_fds, fds, effective_fd_nums, returned>>
  BY DEF ClientStep, Connect, SendData, CloseByClient
<1>5. AcceptedAreOpen'
  BY <1>4 DEF AcceptedAreOpen, Open, IsOpen
<1>6. SlotsFollowDescriptors'
  <2>1. kind = "poll" /\ pc = "accept" /\ backlog # <<>> => backlog' # <<>>
    BY DEF ClientStep, Connect, SendData, CloseByClient, TypeOK
  <2> QED
    BY <1>4, <2>1 DEF SlotsFollowDescriptors, Slotted, Newest, Open, IsOpen
<1>7. TableFollowsDescriptors'
  BY <1>4 DEF TableFollowsDescriptors, Newest, Open, IsOpen
<1> QED
  BY <1>1, <1>2, <1>3, <1>5, <1>6, <1>7 DEF ClientStep

-----------------------------------------------------------------------------
(***************************************************************************)
(* The steps of the server's thread.                                       *)
(***************************************************************************)
Unserved == <<fdconn, backlog, taken, watched, ready, m_client_fds, fds, effective_fd_nums>>

(* The waiting calls, and the scans that only log. *)
LEMMA SelectPreserves ==
  ASSUME IInv, SelectServer
  PROVE  IInv'
<1> USE DEF IInv, epollVars, pollVars, clientVars, Step
<1>0. kind = "select" /\ kind' = kind /\ UNCHANGED <<connected, fin, sent>>
  BY DEF SelectServer, Select, SelectScan, SelectAccept
<1>1. CASE Select
  <2> DEFINE R == {f \in Selected : Readable(f)}
  <2>1. R \subseteq Fds
    BY ToSetOf DEF Selected, Monitored, Fds, TypeOK
  <2>2. returned' \in Seq(Nat)
    <3>1. IsFiniteSet(R) /\ R \subseteq Nat
      BY <2>1, ConstantsAreFinite, FS_Subset
    <3>2. SetToSeq(R) \in Seq(R)
      BY <3>1, SetToSeqProperties
    <3>3. returned' = SetToSeq(R)
      BY <1>1 DEF Select
    <3> HIDE DEF R
    <3> QED
      BY <3>1, <3>2, <3>3, SeqMonotonic
  <2>3. UNCHANGED <<Unserved, noticed>> /\ pc' = "scan"
    BY <1>1 DEF Select, Unserved
  <2> QED
    BY <1>0, <2>2, <2>3
    DEF Unserved, TypeOK, ConnectedOnly, AcceptedAreOpen, SlotsFollowDescriptors,
        TableFollowsDescriptors, Open, IsOpen
<1>2. CASE SelectScan
  <2>1. \A f \in ToSet(m_client_fds) : fdconn[f] \in connected
    BY <1>0 DEF AcceptedAreOpen, ConnectedOnly
  <2>2. noticed' \subseteq connected
    BY <1>2, <2>1 DEF SelectScan, TypeOK
  <2>3. UNCHANGED Unserved /\ pc' \in {"accept", "wait"} /\ returned' = <<>>
    BY <1>2 DEF SelectScan, Unserved
  <2> QED
    BY <1>0, <2>2, <2>3
    DEF Unserved, TypeOK, ConnectedOnly, AcceptedAreOpen, SlotsFollowDescriptors,
        TableFollowsDescriptors, Open, IsOpen
<1>3. CASE SelectAccept
  <2>1. AcceptClient /\ UNCHANGED <<taken, watched, ready, fds, effective_fd_nums, returned, noticed>>
        /\ pc' = "wait"
    BY <1>3 DEF SelectAccept
  <2>2. AcceptedAreOpen'
    BY <1>0, <2>1, AcceptTakesOldest DEF AcceptedAreOpen, Open, IsOpen
  <2>3. ConnectedOnly'
    BY <1>0, <2>1, AcceptTakesOldest DEF ConnectedOnly, Open, IsOpen, TypeOK
  <2>4. TypeOK'
    BY <1>0, <2>1, AcceptTakesOldest DEF TypeOK
  <2> QED
    BY <1>0, <2>2, <2>3, <2>4 DEF SlotsFollowDescriptors, TableFollowsDescriptors
<1> QED
  BY <1>1, <1>2, <1>3 DEF SelectServer

LEMMA PollPreserves ==
  ASSUME IInv, PollServer
  PROVE  IInv'
<1> USE DEF IInv, epollVars, pollVars, clientVars, Step
<1>0. kind = "poll" /\ kind' = kind /\ UNCHANGED <<connected, fin, sent>>
  BY DEF PollServer, Poll, PollAccept, AddSlot, NoSlotLeft, PollScan
<1>s. /\ fds[0] = SrvFd
      /\ \A i \in 1 .. N - 1 : fds[i] # NoFd <=> i < effective_fd_nums
      /\ Slotted \subseteq Open
      /\ Open \ Slotted \subseteq IF pc \in {"add", "exit"} THEN {Newest} ELSE {}
      /\ pc = "accept" => backlog # <<>>
      /\ pc = "add" => m_client_fds # <<>>
      /\ ToSet(m_client_fds) = Open
      /\ N \in Nat \ {0, 1} /\ effective_fd_nums \in 1 .. N
      /\ fds \in [0 .. N - 1 -> Fds \cup {NoFd}]
  BY <1>0, MultiplexAssumption DEF SlotsFollowDescriptors, AcceptedAreOpen, TypeOK
<1>f. /\ \A i \in 1 .. effective_fd_nums - 1 : i \in 1 .. N - 1 /\ fds[i] \in Open
      /\ FreeSlots = effective_fd_nums .. N - 1
  <2>1. \A i \in 1 .. effective_fd_nums - 1 : i \in 1 .. N - 1 /\ fds[i] \in Open
    BY <1>s DEF Slotted
  <2>2. ASSUME NEW i \in 1 .. N - 1 PROVE fds[i] < 0 <=> i >= effective_fd_nums
    <3>1. fds[i] \in Fds \cup {NoFd}
      BY <1>s
    <3>2. fds[i] < 0 <=> fds[i] = NoFd
      BY <3>1, MultiplexAssumption DEF Fds, ClientFds, SrvFd, NoFd
    <3> QED
      BY <1>s, <3>2
  <2> QED
    BY <1>s, <2>1, <2>2 DEF FreeSlots
<1>1. CASE Poll
  <2> DEFINE R == {i \in 0 .. effective_fd_nums - 1 : Readable(fds[i])}
  <2>1. returned' \in Seq(Nat)
    <3>1. IsFiniteSet(R) /\ R \subseteq Nat
      <4> DEFINE Ks == 0 .. effective_fd_nums - 1
      <4>1. IsFiniteSet(Ks)
        BY <1>s, FS_Interval
      <4>2. R \subseteq Ks /\ Ks \subseteq Nat
        BY <1>s
      <4> HIDE DEF Ks, R
      <4> QED
        BY <4>1, <4>2, FS_Subset
    <3>2. SetToSeq(R) \in Seq(R)
      BY <3>1, SetToSeqProperties
    <3>3. returned' = SetToSeq(R)
      BY <1>1 DEF Poll
    <3> HIDE DEF R
    <3> QED
      BY <3>1, <3>2, <3>3, SeqMonotonic
  <2>2. UNCHANGED <<Unserved, noticed>> /\ pc = "wait" /\ pc' = Branch(R)
    BY <1>1 DEF Poll, Unserved
  <2>3. (pc' = "accept" /\ backlog # <<>>) \/ pc' = "scan"
    BY <1>s, <2>2 DEF Branch, Readable
  <2> HIDE DEF R
  <2>4. SlotsFollowDescriptors'
    BY <1>0, <1>s, <2>2, <2>3 DEF Unserved, SlotsFollowDescriptors, Slotted, Open, IsOpen
  <2>5. TypeOK'
    BY <1>0, <2>1, <2>2, <2>3 DEF Unserved, TypeOK
  <2> QED
    BY <1>0, <2>2, <2>4, <2>5
    DEF Unserved, ConnectedOnly, AcceptedAreOpen, TableFollowsDescriptors, Open, IsOpen
<1>2. CASE PollAccept
  <2>1. /\ AcceptClient /\ UNCHANGED <<taken, watched, ready, fds, effective_fd_nums, returned, noticed>>
        /\ pc = "accept" /\ pc' = "add"
    BY <1>2 DEF PollAccept
  <2>2. Slotted' = Slotted
    BY <2>1 DEF Slotted
  <2>3. AcceptedAreOpen'
    BY <1>s, <2>1, AcceptTakesOldest DEF AcceptedAreOpen, Open, IsOpen
  <2>4. m_client_fds' # <<>>
    <3>1. CASE FreeFds = {}
      <4>1. Open # {}
        BY <3>1, ConstantsAreFinite DEF FreeFds, Open
      <4>2. ToSet(<<>>) = {}
        BY DEF ToSet
      <4> QED
        BY <1>s, <2>1, <3>1, <4>1, <4>2, AcceptTakesOldest
    <3>2. CASE FreeFds # {}
      BY <1>s, <2>1, <3>2, AcceptTakesOldest
    <3> QED
      BY <3>1, <3>2
  <2>5. SlotsFollowDescriptors'
    <3>1. Slotted' \subseteq Open' /\ Open' \ Slotted' \subseteq {Newest'}
      BY <1>s, <2>1, <2>2, AcceptTakesOldest DEF Open, IsOpen
    <3> QED
      BY <1>s, <2>1, <2>4, <3>1 DEF SlotsFollowDescriptors
  <2>6. ConnectedOnly'
    BY <1>0, <2>1, AcceptTakesOldest DEF ConnectedOnly, Open, IsOpen, TypeOK
  <2>7. TypeOK'
    BY <1>0, <2>1, AcceptTakesOldest DEF TypeOK
  <2> QED
    BY <1>0, <2>3, <2>5, <2>6, <2>7 DEF TableFollowsDescriptors
<1>3. CASE AddSlot
  <2> DEFINE i == effective_fd_nums
  <2>1. Min(FreeSlots) = i /\ i \in 1 .. N - 1
    <3>1. FreeSlots # {} /\ FreeSlots \in SUBSET Nat
      BY <1>3, <1>f, <1>s DEF AddSlot
    <3>2. i \in FreeSlots /\ i \in 1 .. N - 1
      BY <1>f, <1>s, <3>1
    <3>3. Min(FreeSlots) \in FreeSlots /\ Min(FreeSlots) <= i
      BY <3>1, <3>2, MinOfNaturals
    <3> QED
      BY <1>f, <3>2, <3>3
  <2>2. /\ fds' = [fds EXCEPT ![i] = Newest] /\ effective_fd_nums' = i + 1
        /\ pc = "add" /\ pc' = "scan"
        /\ returned' \in {returned, Append(returned, i)}
        /\ UNCHANGED <<backlog, fdconn, taken, watched, ready, m_client_fds, noticed>>
    BY <1>3, <2>1 DEF AddSlot
  <2>3. Newest \in Open
    BY <1>s, <2>2, NewestOf DEF Newest, TypeOK
  <2>4. Newest \in Fds /\ Newest # NoFd
    BY <2>3, ConstantsAreFinite DEF Open, Fds
  <2>5. \A j \in 0 .. N - 1 : fds'[j] = IF j = i THEN Newest ELSE fds[j]
    BY <1>s, <2>1, <2>2
  <2>6. Slotted' = Slotted \cup {Newest}
    <3>1. effective_fd_nums' - 1 = i /\ \A j \in 1 .. i : j \in 0 .. N - 1
      BY <1>s, <2>1, <2>2
    <3>2. Slotted' = {fds'[j] : j \in 1 .. i}
      BY <3>1 DEF Slotted
    <3>3. ASSUME NEW j \in 1 .. i PROVE fds'[j] \in Slotted \cup {Newest}
      <4>1. CASE j = i
        BY <2>5, <3>1, <4>1
      <4>2. CASE j # i
        <5>1. j \in 1 .. i - 1 /\ fds'[j] = fds[j]
          BY <2>1, <2>5, <3>1, <4>2
        <5> QED
          BY <5>1 DEF Slotted
      <4> QED
        BY <4>1, <4>2
    <3>4. ASSUME NEW x \in Slotted \cup {Newest} PROVE \E j \in 1 .. i : fds'[j] = x
      <4>1. CASE x = Newest
        BY <2>1, <2>5, <4>1
      <4>2. CASE x \in Slotted
        <5>1. PICK j \in 1 .. i - 1 : x = fds[j]
          BY <4>2 DEF Slotted
        <5>2. j \in 1 .. i /\ j # i
          BY <2>1, <5>1
        <5> QED
          BY <2>5, <3>1, <5>1, <5>2
      <4> QED
        BY <3>4, <4>1, <4>2
    <3> QED
      BY <3>2, <3>3, <3>4
  <2>7. SlotsFollowDescriptors'
    <3>1. \A j \in 1 .. N - 1 : fds'[j] # NoFd <=> j < i + 1
      BY <1>s, <2>1, <2>4, <2>5
    <3>2. fds'[0] = SrvFd
      BY <1>s, <2>1, <2>5
    <3>3. Slotted' \subseteq Open /\ Open \ Slotted' \subseteq {}
      BY <1>s, <2>2, <2>3, <2>6
    <3>4. Open' = Open
      BY <2>2 DEF Open, IsOpen
    <3> QED
      BY <2>2, <3>1, <3>2, <3>3, <3>4 DEF SlotsFollowDescriptors
  <2>8. TypeOK'
    <3>1. returned' \in Seq(Nat)
      <4>1. returned \in Seq(Nat) /\ i \in Nat
        BY <2>1, MultiplexAssumption DEF TypeOK
      <4>2. Append(returned, i) \in Seq(Nat)
        BY <4>1
      <4> QED
        BY <2>2, <4>1, <4>2
    <3>2. fds' \in [0 .. N - 1 -> Fds \cup {NoFd}] /\ effective_fd_nums' \in 1 .. N
      BY <1>s, <2>1, <2>2, <2>4
    <3> QED
      BY <1>0, <2>2, <3>1, <3>2 DEF TypeOK
  <2> QED
    BY <1>0, <2>2, <2>7, <2>8
    DEF ConnectedOnly, AcceptedAreOpen, TableFollowsDescriptors, Open, IsOpen
<1>4. CASE NoSlotLeft
  <2>1. UNCHANGED <<Unserved, returned, noticed>> /\ pc = "add" /\ pc' = "exit"
    BY <1>4 DEF NoSlotLeft, Unserved
  <2>2. SlotsFollowDescriptors'
    BY <1>s, <2>1 DEF Unserved, SlotsFollowDescriptors, Slotted, Newest, Open, IsOpen
  <2>3. TypeOK'
    BY <1>0, <2>1 DEF Unserved, TypeOK
  <2> QED
    BY <1>0, <2>1, <2>2, <2>3
    DEF Unserved, ConnectedOnly, AcceptedAreOpen, TableFollowsDescriptors, Open, IsOpen
<1>5. CASE PollScan
  <2>1. UNCHANGED Unserved /\ pc = "scan" /\ pc' = "wait" /\ returned' = <<>>
    BY <1>5 DEF PollScan, Unserved
  <2>2. \A i \in 1 .. effective_fd_nums - 1 : fdconn[fds[i]] \in connected
    BY <1>f DEF ConnectedOnly
  <2>3. noticed' \subseteq connected
    BY <1>5, <2>2 DEF PollScan, TypeOK
  <2>4. SlotsFollowDescriptors'
    BY <1>s, <2>1 DEF Unserved, SlotsFollowDescriptors, Slotted, Open, IsOpen
  <2>5. TypeOK'
    BY <1>0, <2>1, <2>3 DEF Unserved, TypeOK
  <2> QED
    BY <1>0, <2>1, <2>4, <2>5
    DEF Unserved, ConnectedOnly, AcceptedAreOpen, TableFollowsDescriptors, Open, IsOpen
<1> QED
  BY <1>1, <1>2, <1>3, <1>4, <1>5 DEF PollServer

LEMMA EpollPreserves ==
  ASSUME IInv, EpollServer
  PROVE  IInv'
<1> USE DEF IInv, epollVars, pollVars, clientVars, Step, RecvAgain
<1>0. kind = "epoll" /\ kind' = kind /\ UNCHANGED <<connected, fin, sent>>
  BY DEF EpollServer, EpollWait, EpollAccept, add_event, readProcess, EpollData, RecvData, RecvEnd,
         RecvFails
<1>1. UNCHANGED <<fds, effective_fd_nums>>
  BY DEF EpollServer, EpollWait, EpollAccept, add_event, readProcess, EpollData, RecvData, RecvEnd,
         RecvFails
<1>s. /\ watched \ {SrvFd} \subseteq Open
      /\ Open \ watched \subseteq IF pc = "add" THEN {Newest} ELSE {}
      /\ pc \in {"add", "recv"} => returned # <<>>
  BY <1>0 DEF TableFollowsDescriptors
<1>o. AcceptedAreOpen' /\ SlotsFollowDescriptors'
  BY <1>0 DEF AcceptedAreOpen, SlotsFollowDescriptors
<1>t. /\ returned \in Seq(Nat) /\ ready \in Seq(Fds) /\ watched \subseteq Fds
      /\ returned # <<>> => Tail(returned) \in Seq(Nat)
  BY DEF TypeOK
<1>2. CASE EpollWait
  <2>1. /\ UNCHANGED <<backlog, fdconn, taken, watched, m_client_fds, noticed>>
        /\ pc = "wait" /\ pc' = "wait" /\ ready' = <<>>
        /\ returned' = Kept(ready, {f \in watched : Readable(f)})
    BY <1>2 DEF EpollWait
  <2>2. returned' \in Seq(Nat)
    <3>1. returned' \in Seq(Fds)
      BY <1>t, <2>1, KeptProperties
    <3> QED
      BY <3>1, ConstantsAreFinite, SeqMonotonic
  <2>3. TypeOK'
    BY <1>0, <1>1, <2>1, <2>2 DEF TypeOK
  <2> QED
    BY <1>0, <1>o, <1>s, <2>1, <2>3 DEF ConnectedOnly, TableFollowsDescriptors, Open, IsOpen
<1>3. CASE EpollAccept
  <2>1. /\ AcceptClient /\ UNCHANGED <<taken, watched, ready, returned, noticed>>
        /\ pc = "wait" /\ pc' = "add" /\ returned # <<>>
    BY <1>3 DEF EpollAccept
  <2>2. watched \ {SrvFd} \subseteq Open' /\ Open' \ watched \subseteq {Newest'}
    BY <1>s, <2>1, AcceptTakesOldest DEF Open, IsOpen
  <2>3. TableFollowsDescriptors'
    BY <2>1, <2>2 DEF TableFollowsDescriptors
  <2>4. ConnectedOnly'
    BY <1>0, <2>1, AcceptTakesOldest DEF ConnectedOnly, Open, IsOpen, TypeOK
  <2>5. TypeOK'
    BY <1>0, <1>1, <2>1, AcceptTakesOldest DEF TypeOK
  <2> QED
    BY <1>o, <2>3, <2>4, <2>5
<1>4. CASE add_event
  <2>1. /\ UNCHANGED <<backlog, fdconn, taken, m_client_fds, noticed>>
        /\ pc = "add" /\ pc' = "wait" /\ returned' = Tail(returned)
    BY <1>4 DEF add_event
  <2>2. CASE IsOpen(Newest) /\ Newest \notin watched
    <3>1. /\ watched' = watched \cup {Newest} /\ Newest \in Open /\ Newest \in Fds
          /\ ready' \in {ready, Append(ready, Newest)}
      BY <1>4, <2>2 DEF add_event, Open, IsOpen, Fds
    <3>2. ready' \in Seq(Fds)
      <4>1. Append(ready, Newest) \in Seq(Fds)
        BY <1>t, <3>1
      <4> QED
        BY <1>t, <3>1, <4>1
    <3>3. TypeOK'
      BY <1>0, <1>1, <1>s, <1>t, <2>1, <3>1, <3>2 DEF TypeOK
    <3> QED
      BY <1>0, <1>o, <1>s, <2>1, <3>1, <3>3 DEF ConnectedOnly, TableFollowsDescriptors, Open, IsOpen
  <2>3. CASE ~(IsOpen(Newest) /\ Newest \notin watched)
    <3>1. UNCHANGED <<watched, ready>> /\ (Newest \in Open => Newest \in watched)
      BY <1>4, <2>3 DEF add_event, Open
    <3>2. TypeOK'
      BY <1>0, <1>1, <1>s, <1>t, <2>1, <3>1 DEF TypeOK
    <3> QED
      BY <1>0, <1>o, <1>s, <2>1, <3>1, <3>2 DEF ConnectedOnly, TableFollowsDescriptors, Open, IsOpen
  <2> QED
    BY <2>2, <2>3
<1>5. CASE EpollData
  <2>1. UNCHANGED <<Unserved, returned, noticed>> /\ pc = "wait" /\ pc' = "recv" /\ returned # <<>>
    BY <1>5 DEF EpollData, Unserved
  <2>2. TypeOK'
    BY <1>0, <1>1, <2>1 DEF Unserved, TypeOK
  <2> QED
    BY <1>0, <1>o, <1>s, <2>1, <2>2 DEF Unserved, ConnectedOnly, TableFollowsDescriptors, Open, IsOpen
<1>6. CASE RecvData
  <2> DEFINE f == Head(returned)
             c == fdconn[f]
  <2>1. /\ UNCHANGED <<backlog, fdconn, watched, ready, m_client_fds, returned>>
        /\ pc = "recv" /\ pc' = "recv"
        /\ f \in Open /\ c \in Conns /\ c \in connected /\ taken[c] < sent[c]
        /\ taken' = [taken EXCEPT ![c] = @ + 1] /\ noticed' = noticed \cup {c}
    BY <1>6 DEF RecvData, Open, IsOpen, ConnectedOnly, TypeOK
  <2> HIDE DEF f, c
  <2>2. taken' \in [Conns -> 0 .. MaxSends] /\ noticed' \subseteq connected
    BY <2>1, MultiplexAssumption DEF TypeOK
  <2>3. TypeOK'
    BY <1>0, <1>1, <2>1, <2>2 DEF TypeOK
  <2> QED
    BY <1>0, <1>o, <1>s, <2>1, <2>3 DEF ConnectedOnly, TableFollowsDescriptors, Open, IsOpen
<1>7. CASE RecvEnd
  <2> DEFINE f == Head(returned)
  <2>1. /\ UNCHANGED <<backlog, taken, m_client_fds, returned, noticed>>
        /\ pc = "recv" /\ pc' = "recv"
        /\ f \in ClientFds /\ fdconn' = [fdconn EXCEPT ![f] = NoConn]
        /\ watched' = watched \ {f} /\ ready' = Kept(ready, watched')
    BY <1>7 DEF RecvEnd, IsOpen
  <2> HIDE DEF f
  <2>2. Open' = Open \ {f} /\ fdconn' \in [ClientFds -> Conns \cup {NoConn}]
    BY <2>1 DEF Open, IsOpen, TypeOK
  <2>3. ready' \in Seq(Fds)
    BY <1>t, <2>1, KeptProperties
  <2>4. TypeOK'
    BY <1>0, <1>1, <1>t, <2>1, <2>2, <2>3 DEF TypeOK
  <2>5. TableFollowsDescriptors'
    BY <1>s, <2>1, <2>2 DEF TableFollowsDescriptors
  <2>6. ConnectedOnly'
    BY <1>0, <2>1, <2>2 DEF ConnectedOnly, Open, TypeOK
  <2> QED
    BY <1>o, <2>4, <2>5, <2>6
<1>8. CASE RecvFails
  <2>1. UNCHANGED <<Unserved, noticed>> /\ pc = "recv" /\ pc' = "wait" /\ returned' = Tail(returned)
    BY <1>8 DEF RecvFails, Unserved
  <2>2. TypeOK'
    BY <1>0, <1>1, <1>s, <1>t, <2>1 DEF Unserved, TypeOK
  <2> QED
    BY <1>0, <1>o, <1>s, <2>1, <2>2 DEF Unserved, ConnectedOnly, TableFollowsDescriptors, Open, IsOpen
<1> QED
  BY <1>2, <1>3, <1>4, <1>5, <1>6, <1>7, <1>8 DEF EpollServer, readProcess

-----------------------------------------------------------------------------
(***************************************************************************)
(* The theorems.                                                           *)
(***************************************************************************)
LEMMA StepIInv == IInv /\ [Next]_vars => IInv'
<1> SUFFICES ASSUME IInv, [Next]_vars PROVE IInv'
  OBVIOUS
<1>1. CASE UNCHANGED vars
  <2> USE <1>1 DEF vars, clientVars, epollVars, pollVars, IInv
  <2>1. TypeOK'
    BY DEF TypeOK
  <2>2. Open' = Open /\ Slotted' = Slotted /\ Newest' = Newest
    BY DEF Open, IsOpen, Slotted, Newest
  <2>3. ConnectedOnly' /\ AcceptedAreOpen'
    BY <2>2 DEF ConnectedOnly, AcceptedAreOpen
  <2>4. SlotsFollowDescriptors' /\ TableFollowsDescriptors'
    BY <2>2 DEF SlotsFollowDescriptors, TableFollowsDescriptors
  <2> QED
    BY <2>1, <2>3, <2>4
<1> QED
  BY <1>1, ClientsPreserve, SelectPreserves, PollPreserves, EpollPreserves DEF Next, ServerStep

THEOREM Invariant == Spec => []IInv
  BY InitIInv, StepIInv, PTL DEF Spec

(* Every variable keeps its type; with it, the poll server stays inside    *)
(* its array (pollserver.hpp:107-119).                                     *)
THEOREM TypeCorrect == Spec => []TypeOK
<1>1. IInv => TypeOK
  BY DEF IInv
<1> QED
  BY <1>1, Invariant, PTL

(* When they wait, the poll and the epoll server wait for the descriptors  *)
(* of all their clients and for no other, whichever accepts have failed    *)
(* and whatever descriptors were closed and given out again                *)
(* (pollserver.hpp:107, epollserver.hpp:140).                              *)
THEOREM ServersWatchTheirClients == Spec => []WatchesItsClients
<1>1. ASSUME IInv PROVE WatchesItsClients
  <2>1. SUFFICES ASSUME pc = "wait", kind \in {"poll", "epoll"}
                 PROVE  WaitedFor = Open
    BY <1>1, MultiplexAssumption
    DEF WatchesItsClients, AboutToWait, Open, IInv, TypeOK
  <2>2. SrvFd \notin Open
    BY ConstantsAreFinite DEF Open
  <2>3. CASE kind = "poll"
    BY <1>1, <2>1, <2>3 DEF IInv, SlotsFollowDescriptors, Slotted, WaitedFor
  <2>4. CASE kind = "epoll"
    BY <1>1, <2>1, <2>2, <2>4 DEF IInv, TableFollowsDescriptors, WaitedFor
  <2> QED
    BY <2>1, <2>3, <2>4
<1> QED
  BY <1>1, Invariant, PTL
=============================================================================
