-------------------------- MODULE MultiplexServers --------------------------
(***************************************************************************)
(* The three single-threaded servers that come before HttpServer: a loop   *)
(* over select, poll or epoll (src/server/selectserver.hpp, pollserver.hpp,*)
(* epollserver.hpp), and the clients that app/client starts                *)
(* (src/client/ipv4client.hpp).  Which server runs is chosen at the start. *)
(*                                                                         *)
(* Only the epoll server reads what clients send; the others have a TODO   *)
(* there and log the descriptor, which `noticed' records.  A message is    *)
(* what one recv of readProcess takes.  The server's thread takes a step   *)
(* per system call that clients can come between.                          *)
(***************************************************************************)
EXTENDS Lists

CONSTANTS
  Kinds,      (* the servers to look at: "select", "poll", "epoll"         *)
  Conns,      (* connections, each made by a client of its own             *)
  MaxSends,   (* bound: messages the clients send, all together            *)
  MaxFd,      (* the descriptors left to the process for clients           *)
  N,          (* ConcretePollServer::N, the length of fds                  *)
  NoConn      (* what a closed descriptor refers to                        *)

ASSUME MultiplexAssumption ==
  /\ Kinds \subseteq {"select", "poll", "epoll"}
  /\ IsFiniteSet(Conns) /\ NoConn \notin Conns
  /\ MaxSends \in Nat /\ MaxFd \in Nat \ {0} /\ N \in Nat \ {0, 1}

SrvFd == 0                       (* m_server_fd, the lowest of them        *)
ClientFds == 1 .. MaxFd
Fds == ClientFds \cup {SrvFd}
NoFd == -1
max_fd == SrvFd                  (* of monitorIoBySelect: never raised     *)

VARIABLES
  kind,          (* the server that runs                                   *)
  (* the kernel *)
  connected,     (* connections that were made                             *)
  backlog,       (* connections waiting for accept                         *)
  fdconn,        (* the connection each descriptor refers to               *)
  sent, taken,   (* messages that arrived, and that recv has returned      *)
  fin,           (* connections whose client has closed                    *)
  watched,       (* epoll: descriptors registered                          *)
  ready,         (* epoll: descriptors with an edge to report              *)
  (* the server's thread *)
  pc,            (* where it is; "exit" is exit(1)                         *)
  m_client_fds,  (* every descriptor that accept returned                  *)
  fds,           (* poll: the descriptors of the pollfds, fds[0] included  *)
  effective_fd_nums,
  returned,      (* what select or epoll_wait returned and the thread has  *)
                 (* not handled yet; for poll, the i whose revents is set  *)
  noticed        (* history: connections logged as having data             *)

clientVars == <<connected, sent, fin>>
epollVars == <<watched, ready>>
pollVars == <<fds, effective_fd_nums>>
vars == <<kind, clientVars, backlog, fdconn, taken, epollVars, pc, m_client_fds,
          pollVars, returned, noticed>>

(* The type of every variable. *)
TypeOK ==
  /\ kind \in Kinds
  /\ connected \subseteq Conns /\ fin \subseteq connected /\ noticed \subseteq connected
  /\ backlog \in Seq(Conns)
  /\ fdconn \in [ClientFds -> Conns \cup {NoConn}]
  /\ sent \in [Conns -> 0 .. MaxSends] /\ taken \in [Conns -> 0 .. MaxSends]
  /\ watched \subseteq Fds /\ ready \in Seq(Fds)
  /\ pc \in {"wait", "scan", "accept", "add", "recv", "exit"}
  /\ m_client_fds \in Seq(ClientFds)
  /\ fds \in [0 .. N - 1 -> Fds \cup {NoFd}]
  /\ effective_fd_nums \in 1 .. N
  /\ returned \in Seq(Nat)

-----------------------------------------------------------------------------
(* monitorIoByPoll starts with the listening descriptor in fds[0]. *)
NoSlots == [i \in 0 .. N - 1 |-> IF i = 0 THEN SrvFd ELSE NoFd]

(* createServer has left a listening socket; the epoll server has          *)
(* registered it.                                                          *)
StartSelect == kind = "select" /\ watched = {}
StartPoll == kind = "poll" /\ watched = {}
StartEpoll == kind = "epoll" /\ watched = {SrvFd}

Init ==
  /\ kind \in Kinds
  /\ StartSelect \/ StartPoll \/ StartEpoll
  /\ connected = {} /\ backlog = <<>> /\ fin = {} /\ noticed = {}
  /\ fdconn = [f \in ClientFds |-> NoConn]
  /\ sent = [c \in Conns |-> 0] /\ taken = [c \in Conns |-> 0]
  /\ ready = <<>>
  /\ pc = "wait" /\ m_client_fds = <<>>
  /\ fds = NoSlots /\ effective_fd_nums = 1
  /\ returned = <<>>

IsOpen(f) == f \in ClientFds /\ fdconn[f] # NoConn

(* The messages of all clients that have come. *)
Arrived == {m \in Conns \X (1 .. MaxSends) : m[2] <= sent[m[1]]}

Held(c) == \E f \in ClientFds : fdconn[f] = c

Readable(f) ==
  IF f = SrvFd THEN backlog # <<>>
  ELSE IsOpen(f) /\ (taken[fdconn[f]] < sent[fdconn[f]] \/ fdconn[f] \in fin)

(* An edge on the descriptors F: epoll lists each that it watches, once. *)
Edge(F) == ready' = Listed(ready, F \cap watched)

DescriptorOf(c) == {f \in ClientFds : fdconn[f] = c}

-----------------------------------------------------------------------------
(***************************************************************************)
(* The clients.                                                            *)
(***************************************************************************)
ClientFrame ==
  UNCHANGED <<kind, fdconn, taken, watched, pc, m_client_fds, pollVars, returned, noticed>>

Connect(c) ==
  /\ c \notin connected
  /\ connected' = connected \cup {c}
  /\ backlog' = Append(backlog, c)
  /\ Edge({SrvFd})
  /\ UNCHANGED <<sent, fin>>
  /\ ClientFrame

SendData(c) ==
  /\ c \in connected \ fin
  /\ Cardinality(Arrived) < MaxSends
  /\ sent' = [sent EXCEPT ![c] = @ + 1]
  /\ Edge(DescriptorOf(c))
  /\ UNCHANGED <<connected, backlog, fin>>
  /\ ClientFrame

(* The client's process ends; run never comes to its own close. *)
CloseByClient(c) ==
  /\ c \in connected \ fin
  /\ fin' = fin \cup {c}
  /\ Edge(DescriptorOf(c))
  /\ UNCHANGED <<connected, backlog, sent>>
  /\ ClientFrame

ClientStep == \E c \in Conns : Connect(c) \/ SendData(c) \/ CloseByClient(c)

-----------------------------------------------------------------------------
(***************************************************************************)
(* acceptClient: the oldest waiting connection gets the lowest descriptor; *)
(* without one to give, accept fails and the connection stays.             *)
(***************************************************************************)
FreeFds == {f \in ClientFds : ~IsOpen(f)}

AcceptClient ==
  IF backlog # <<>> /\ FreeFds # {}
    THEN /\ fdconn' = [fdconn EXCEPT ![Min(FreeFds)] = Head(backlog)]
         /\ backlog' = Tail(backlog)
         /\ m_client_fds' = Append(m_client_fds, Min(FreeFds))
    ELSE UNCHANGED <<fdconn, backlog, m_client_fds>>

(* A step of the server k's thread. *)
Step(k, from, to) ==
  /\ kind = k /\ pc = from /\ pc' = to
  /\ UNCHANGED <<kind, clientVars>>

-----------------------------------------------------------------------------
(***************************************************************************)
(* monitorIoBySelect.                                                      *)
(***************************************************************************)
(* What monitor_fds is set to, and what select looks at of it: nfds is     *)
(* max_fd + 1.  The other descriptors come back cleared.                   *)
Monitored == {SrvFd} \cup {f \in ToSet(m_client_fds) : f # 0}
Selected == {f \in Monitored : f <= max_fd}

Select ==
  LET R == {f \in Selected : Readable(f)} IN
  /\ Step("select", "wait", "scan")
  /\ R # {}
  /\ returned' = SetToSeq(R)
  /\ UNCHANGED <<backlog, fdconn, taken, epollVars, m_client_fds, pollVars, noticed>>

(* Clients with data are logged; *)
SelectScan ==
  LET seen == {f \in ToSet(m_client_fds) : Contains(returned, f)} IN
  /\ Step("select", "scan", IF Contains(returned, SrvFd) THEN "accept" ELSE "wait")
  /\ noticed' = noticed \cup {fdconn[f] : f \in seen}
  /\ returned' = <<>>
  /\ UNCHANGED <<backlog, fdconn, taken, epollVars, m_client_fds, pollVars>>

(* and one connection is accepted. *)
SelectAccept ==
  /\ Step("select", "accept", "wait")
  /\ AcceptClient
  /\ UNCHANGED <<taken, epollVars, pollVars, returned, noticed>>

SelectServer == Select \/ SelectScan \/ SelectAccept

-----------------------------------------------------------------------------
(***************************************************************************)
(* monitorIoByPoll.                                                        *)
(***************************************************************************)
(* Seeded fault: connections are accepted only if no client has data. *)
Last_Branch(R) == IF R = {0} THEN "accept" ELSE "scan"

Branch(R) == IF 0 \in R THEN "accept" ELSE "scan"

(* poll returns the slots that are readable, as long as they are. *)
Poll ==
  LET R == {i \in 0 .. effective_fd_nums - 1 : Readable(fds[i])} IN
  /\ Step("poll", "wait", Branch(R))
  /\ R # {}
  /\ returned' = SetToSeq(R)
  /\ UNCHANGED <<backlog, fdconn, taken, epollVars, m_client_fds, pollVars, noticed>>

PollAccept ==
  /\ Step("poll", "accept", "add")
  /\ AcceptClient
  /\ UNCHANGED <<taken, epollVars, pollVars, returned, noticed>>

(* Seeded fault: one slot too many is looked at. *)
Past_FreeSlots == {i \in 1 .. N : i < N => fds[i] < 0}

FreeSlots == {i \in 1 .. N - 1 : fds[i] < 0}

(* Seeded fault: the first descriptor that was accepted. *)
First_Newest == Head(m_client_fds)

(* What is registered after an accept, also after one that has failed. *)
Newest == Last(m_client_fds)

(* The first free slot takes the newest descriptor.  Nothing has set the   *)
(* revents of that slot, which is looked at in the loop that follows.      *)
AddSlot ==
  /\ FreeSlots # {}
  /\ Step("poll", "add", "scan")
  /\ fds' = [fds EXCEPT ![Min(FreeSlots)] = Newest]
  /\ effective_fd_nums' = effective_fd_nums + 1
  /\ returned' \in {returned, Append(returned, Min(FreeSlots))}
  /\ UNCHANGED <<backlog, fdconn, taken, epollVars, m_client_fds, noticed>>

NoSlotLeft ==
  /\ FreeSlots = {}
  /\ Step("poll", "add", "exit")
  /\ UNCHANGED <<backlog, fdconn, taken, epollVars, m_client_fds, pollVars, returned,
                 noticed>>

PollScan ==
  LET seen == {i \in 1 .. effective_fd_nums - 1 : fds[i] >= 0 /\ Contains(returned, i)} IN
  /\ Step("poll", "scan", "wait")
  /\ noticed' = noticed \cup {fdconn[fds[i]] : i \in seen}
  /\ returned' = <<>>
  /\ UNCHANGED <<backlog, fdconn, taken, epollVars, m_client_fds, pollVars>>

PollServer == Poll \/ PollAccept \/ AddSlot \/ NoSlotLeft \/ PollScan

-----------------------------------------------------------------------------
(***************************************************************************)
(* monitorIoByEpoll, edge-triggered.                                       *)
(***************************************************************************)
(* epoll_wait returns the listed descriptors that are readable still.      *)
(* EPOLLEVENTS is more than there are descriptors.                         *)
EpollWait ==
  /\ Step("epoll", "wait", "wait")
  /\ returned = <<>>
  /\ returned' = Kept(ready, {f \in watched : Readable(f)})
  /\ returned' # <<>>
  /\ ready' = <<>>
  /\ UNCHANGED <<backlog, fdconn, taken, watched, m_client_fds, pollVars, noticed>>

EpollAccept ==
  /\ returned # <<>> /\ Head(returned) = SrvFd
  /\ Step("epoll", "wait", "add")
  /\ AcceptClient
  /\ UNCHANGED <<taken, epollVars, pollVars, returned, noticed>>

(* A descriptor that is readable when it is registered is listed; one that *)
(* is registered or closed is refused.                                     *)
add_event ==
  /\ Step("epoll", "add", "wait")
  /\ IF IsOpen(Newest) /\ Newest \notin watched
       THEN /\ watched' = watched \cup {Newest}
            /\ ready' = IF Readable(Newest) THEN Append(ready, Newest) ELSE ready
       ELSE UNCHANGED epollVars
  /\ returned' = Tail(returned)
  /\ UNCHANGED <<backlog, fdconn, taken, m_client_fds, pollVars, noticed>>

EpollData ==
  /\ returned # <<>> /\ Head(returned) # SrvFd
  /\ Step("epoll", "wait", "recv")
  /\ UNCHANGED <<backlog, fdconn, taken, epollVars, m_client_fds, pollVars, returned, noticed>>

(* Seeded fault: one recv for an event. *)
Once_RecvAgain == Step("epoll", "recv", "wait") /\ returned' = Tail(returned)

(* readProcess goes on with the same descriptor, *)
RecvAgain == Step("epoll", "recv", "recv") /\ UNCHANGED returned

(* takes what has arrived, *)
RecvData ==
  LET f == Head(returned) IN
  /\ RecvAgain
  /\ IsOpen(f) /\ taken[fdconn[f]] < sent[fdconn[f]]
  /\ taken' = [taken EXCEPT ![fdconn[f]] = @ + 1]
  /\ noticed' = noticed \cup {fdconn[f]}
  /\ UNCHANGED <<backlog, fdconn, epollVars, m_client_fds, pollVars>>

(* closes the descriptor at the end of the stream, *)
RecvEnd ==
  LET f == Head(returned) IN
  /\ RecvAgain
  /\ IsOpen(f) /\ taken[fdconn[f]] = sent[fdconn[f]] /\ fdconn[f] \in fin
  /\ fdconn' = [fdconn EXCEPT ![f] = NoConn]
  /\ watched' = watched \ {f}
  /\ ready' = Kept(ready, watched')
  /\ UNCHANGED <<backlog, taken, m_client_fds, pollVars, noticed>>

(* and ends when recv has nothing, or fails because the descriptor is      *)
(* closed, which is then closed once more in vain.                         *)
RecvFails ==
  /\ Step("epoll", "recv", "wait")
  /\ ~Readable(Head(returned))
  /\ returned' = Tail(returned)
  /\ UNCHANGED <<backlog, fdconn, taken, epollVars, m_client_fds, pollVars, noticed>>

readProcess == EpollData \/ RecvData \/ RecvEnd \/ RecvFails

EpollServer == EpollWait \/ EpollAccept \/ add_event \/ readProcess

ServerStep == SelectServer \/ PollServer \/ EpollServer

-----------------------------------------------------------------------------
Next == ClientStep \/ ServerStep

Spec == Init /\ [][Next]_vars

(* The server's thread runs; nothing is assumed of the clients. *)
FairSpec == Spec /\ WF_vars(ServerStep)

-----------------------------------------------------------------------------
(* The clients' descriptors that a waiting server looks at.  (select looks *)
(* at none.)                                                               *)
WaitedFor ==
  CASE kind = "poll" -> {fds[i] : i \in 1 .. effective_fd_nums - 1}
    [] kind = "epoll" -> watched \ {SrvFd}

AboutToWait == pc = "wait" /\ returned = <<>>

(* Whatever the order of accepts, failures, closes and descriptors that    *)
(* are given out again, the poll and the epoll server wait for every       *)
(* client they hold (pollserver.hpp:107, epollserver.hpp:140), and what    *)
(* they wait for is open.  The select server does not.                     *)
WatchesItsClients ==
  kind # "select" /\ AboutToWait => WaitedFor = {f \in ClientFds : IsOpen(f)}

(* Level-triggered servers leave no connection in the backlog as long as   *)
(* there is a descriptor for it (selectserver.hpp:130, pollserver.hpp:104) *)
(* and, in the poll server, a slot.                                        *)
WaitingAreAccepted ==
  \A c \in Conns : (kind # "epoll" /\ Contains(backlog, c))
                   ~> (Held(c) \/ FreeFds = {} \/ pc = "exit")

(* What the server still owes to a client it holds: the poll server, to    *)
(* notice its data or its end; the epoll server, to read all it sent and   *)
(* to close it if it has closed.                                           *)
Owed(c) ==
  /\ Held(c)
  /\ CASE kind = "select" -> FALSE
       [] kind = "poll" -> (sent[c] > 0 \/ c \in fin) /\ c \notin noticed /\ pc # "exit"
       [] kind = "epoll" -> taken[c] < sent[c] \/ c \in fin

(* A client that has a descriptor is served, whatever the others do and    *)
(* whoever had the descriptor before (pollserver.hpp:123,                  *)
(* epollserver.hpp:144).  The select server is excepted: it computes nfds  *)
(* from max_fd, which stays at the listening descriptor                    *)
(* (selectserver.hpp:96), and hears of no client's data.                   *)
HeldAreServed == \A c \in Conns : Owed(c) ~> ~Owed(c)

=============================================================================
