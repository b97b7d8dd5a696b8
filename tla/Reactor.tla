------------------------------ MODULE Reactor ------------------------------
(***************************************************************************)
(* The reactor of HttpServer (src/server/HttpServer.cpp): one thread that  *)
(* waits on epoll, accepts connections and enqueues a task for each        *)
(* readable descriptor, and the pool's workers that run those tasks.  The  *)
(* pool is TaskQueue (ThreadPool implements it) and the I/O memory is      *)
(* BufferPool (IOMemory implements it).  Clients, sockets and epoll are    *)
(* modelled as the code uses them: non-blocking sockets, one edge-triggered *)
(* registration per descriptor, the lowest free descriptor on accept.      *)
(*                                                                         *)
(* A client's stream is a sequence of messages, all of one length, each of *)
(* which arrives at once: a message is one request, and the unit in which  *)
(* recv counts.  SocketRead looks at the bytes.                            *)
(***************************************************************************)
EXTENDS Lists

CONSTANTS
  Workers,    (* the pool's threads                                        *)
  Conns,      (* connections, each made by a client of its own             *)
  Closers,    (* the connections whose client closes                       *)
  BufferSize, (* the messages that fit in a buffer                         *)
  MaxSends,   (* bound: the messages that an only client sends, and one    *)
              (* less, all together, for each client that joins it         *)
  MaxFd,      (* the descriptors left to the process for clients           *)
  MaxEvents,  (* epollmaxevents                                            *)
  NoConn      (* what a closed descriptor refers to                        *)

ASSUME ReactorAssumption ==
  /\ IsFiniteSet(Workers) /\ IsFiniteSet(Conns) /\ Closers \subseteq Conns
  /\ MaxSends \in Nat /\ MaxFd \in Nat /\ MaxEvents \in Nat \ {0}
  /\ BufferSize \in Nat \ {0}
  /\ NoConn \notin Conns

SrvFd == 0                       (* m_server_fd                            *)
ClientFds == 1 .. MaxFd
Messages == Conns \X (1 .. MaxSends)
Positions == 0 .. BufferSize - 1
Slots == 1 .. Cardinality(Workers)
None == -1                       (* no task, no slot, no descriptor        *)

VARIABLES
  (* the kernel *)
  connected,  (* connections that were made                                *)
  backlog,    (* connections waiting for accept                            *)
  fdconn,     (* the connection each descriptor refers to                  *)
  sent,       (* messages that arrived on each connection                  *)
  taken,      (* how many of them recv has returned                        *)
  fin,        (* connections the client has ended                          *)
  broken,     (* those of them that ended in a reset                       *)
  watched,    (* descriptors registered with epoll                         *)
  ready,      (* epoll's list of descriptors with an edge to report        *)
  (* the thread in MonitorReactorFd *)
  lpc,        (* where it is                                               *)
  batch,      (* epoll_events not handled yet                              *)
  fd,         (* the stack slot of the loop's variable fd, which the       *)
              (* lambda captures by reference                              *)
  client_fd,  (* the descriptor accept returned, until it is registered    *)
  (* the pool: a task is named by the descriptor whose event it is for     *)
  queue, running, finished, stopped,
  (* the I/O memory *)
  holds, content,
  (* the workers *)
  wpc,        (* where each worker is in the lambda                        *)
  sock,       (* SocketStream::m_sock                                      *)
  cur_bytes_read, (* what the last recv of a call has returned: the code's *)
              (* ret has the same value until recv returns nothing         *)
  (* what happened *)
  handled,    (* history: messages handed to ParseHttpMsg                  *)
  crashed     (* LOG(FATAL) has aborted the process                        *)

clientVars == <<connected, sent, fin, broken>>
connVars == <<backlog, fdconn>>
epollVars == <<watched, ready>>
loopVars == <<lpc, batch, fd, client_fd>>
poolVars == <<queue, running, finished, stopped>>
memVars == <<holds, content>>
vars == <<clientVars, connVars, taken, epollVars, loopVars, poolVars, memVars, wpc, sock,
          cur_bytes_read, handled, crashed>>

TQ == INSTANCE TaskQueue WITH Tasks <- ClientFds, NoTask <- None
BP == INSTANCE BufferPool WITH NoSlot <- None, Data <- Positions \X Messages

(* The type of every variable. *)
TypeOK ==
  /\ connected \in SUBSET Conns
  /\ backlog \in Seq(Conns)
  /\ fdconn \in [ClientFds -> Conns \cup {NoConn}]
  /\ sent \in [Conns -> 0 .. MaxSends]
  /\ taken \in [Conns -> 0 .. MaxSends]
  /\ fin \in SUBSET Closers /\ broken \in SUBSET fin
  /\ watched \in SUBSET (ClientFds \cup {SrvFd})
  /\ ready \in Seq(ClientFds \cup {SrvFd})
  /\ lpc \in {"create", "register", "next", "accept", "add", "enqueue"}
  /\ batch \in Seq(ClientFds \cup {SrvFd})
  /\ fd \in ClientFds \cup {SrvFd, None}
  /\ client_fd \in ClientFds \cup {None}
  /\ TQ!TypeOK /\ BP!TypeOK
  /\ wpc \in [Workers -> {"idle", "request", "stream", "recv", "close", "parse",
                          "wipe", "return"}]
  /\ sock \in [Workers -> ClientFds \cup {SrvFd, None}]
  /\ cur_bytes_read \in [Workers -> 0 .. BufferSize]
  /\ handled \in SUBSET Messages
  /\ crashed \in BOOLEAN

(* ReactorMode has been called. *)
Init ==
  /\ connected = {} /\ backlog = <<>>
  /\ fdconn = [f \in ClientFds |-> NoConn]
  /\ sent = [c \in Conns |-> 0] /\ taken = [c \in Conns |-> 0]
  /\ fin = {} /\ broken = {} /\ watched = {} /\ ready = <<>>
  /\ lpc = "create" /\ batch = <<>> /\ fd = None /\ client_fd = None
  /\ TQ!Init /\ BP!Init
  /\ wpc = [w \in Workers |-> "idle"] /\ sock = [w \in Workers |-> None]
  /\ cur_bytes_read = [w \in Workers |-> 0]
  /\ handled = {} /\ crashed = FALSE

-----------------------------------------------------------------------------
(***************************************************************************)
(* epoll and the clients.                                                  *)
(***************************************************************************)
IsOpen(f) == f \in ClientFds /\ fdconn[f] # NoConn

(* The messages of all clients that have come. *)
Arrived == {m \in Messages : m[2] <= sent[m[1]]}

Bounded == Cardinality(connected) + Cardinality(Arrived) <= MaxSends

Unread(c) == {<<c, k>> : k \in taken[c] + 1 .. sent[c]}

Readable(f) ==
  IF f = SrvFd THEN backlog # <<>>
  ELSE IsOpen(f) /\ (Unread(fdconn[f]) # {} \/ fdconn[f] \in fin)

(* An edge on the descriptors F: epoll lists each that it watches, once. *)
Edge(F) == ready' = Listed(ready, F \cap watched)

DescriptorOf(c) == {f \in ClientFds : fdconn[f] = c}

ClientFrame ==
  /\ ~crashed
  /\ UNCHANGED <<fdconn, taken, watched, loopVars, poolVars, memVars, wpc, sock,
                 cur_bytes_read, handled, crashed>>

(* A client is refused until the server listens.  (There are fewer clients *)
(* than the backlog has room for.)                                         *)
Connect(c) ==
  /\ lpc # "create" /\ c \notin connected
  /\ Bounded
  /\ connected' = connected \cup {c}
  /\ backlog' = Append(backlog, c)
  /\ Edge({SrvFd})
  /\ UNCHANGED <<sent, fin, broken>>
  /\ ClientFrame

Send(c) ==
  /\ c \in connected \ fin
  /\ Bounded
  /\ sent' = [sent EXCEPT ![c] = @ + 1]
  /\ Edge(DescriptorOf(c))
  /\ UNCHANGED <<connected, backlog, fin, broken>>
  /\ ClientFrame

(* The client closes, or the connection is reset. *)
CloseByClient(c) ==
  /\ c \in (connected \cap Closers) \ fin
  /\ fin' = fin \cup {c}
  /\ broken' \in {broken, broken \cup {c}}
  /\ Edge(DescriptorOf(c))
  /\ UNCHANGED <<connected, backlog, sent>>
  /\ ClientFrame

ClientStep == \E c \in Conns : Connect(c) \/ Send(c) \/ CloseByClient(c)

-----------------------------------------------------------------------------
(***************************************************************************)
(* ReactorMode and MonitorReactorFd.                                       *)
(***************************************************************************)
Loop(from, to) ==
  /\ ~crashed
  /\ lpc = from /\ lpc' = to
  /\ UNCHANGED <<clientVars, taken, memVars, wpc, sock, cur_bytes_read, handled, crashed>>

(* socket, bind and listen, each of which must succeed: from here on       *)
(* clients can connect.                                                    *)
StartCreateServer ==
  /\ Loop("create", "register")
  /\ UNCHANGED <<connVars, epollVars, batch, fd, client_fd, poolVars>>

(* What has arrived before the registration is an edge too.  A task that   *)
(* still has the number of a connection that is gone may have closed the   *)
(* descriptor by now: epoll_ctl fails, and its result is ignored.          *)
AddEvent(f) ==
  IF f = SrvFd \/ IsOpen(f)
    THEN /\ watched' = watched \cup {f}
         /\ ready' = IF Readable(f) THEN Append(ready, f) ELSE ready
    ELSE UNCHANGED epollVars

(* epoll_create, and the listening descriptor is registered. *)
Register ==
  /\ Loop("register", "next")
  /\ AddEvent(SrvFd)
  /\ UNCHANGED <<connVars, batch, fd, client_fd, poolVars>>

(* Seeded fault: the scan ends one event early. *)
Short_Scanned(events, ret) == SubSeq(events, 1, ret - 1)

(* The events that are gone through, of those that were listed. *)
Scanned(events, ret) == SubSeq(events, 1, ret)

(* epoll_wait returns up to MaxEvents listed descriptors that are readable *)
(* still, and takes them off the list: edge-triggered.                     *)
EpollWait ==
  LET r == Kept(ready, {f \in watched : Readable(f)})
      ret == Min({Len(r), MaxEvents})
  IN
  /\ Loop("next", "next")
  /\ batch = <<>> /\ ret > 0
  /\ batch' = Scanned(r, ret)
  /\ ready' = SubSeq(r, ret + 1, Len(r))
  /\ UNCHANGED <<connVars, watched, fd, client_fd, poolVars>>

(* Seeded fault: the listening descriptor is not told apart. *)
Blind_Branch(f) == "enqueue"

Branch(f) == IF f = SrvFd THEN "accept" ELSE "enqueue"

(* The next iteration stores the event's descriptor in fd and branches. *)
NextEvent ==
  /\ batch # <<>>
  /\ Loop("next", Branch(Head(batch)))
  /\ fd' = Head(batch)
  /\ batch' = Tail(batch)
  /\ UNCHANGED <<connVars, epollVars, client_fd, poolVars>>

FreeFds == {f \in ClientFds : ~IsOpen(f)}

(* The oldest waiting connection gets the lowest free descriptor. *)
TakeOutTCPConnection ==
  /\ fdconn' = [fdconn EXCEPT ![Min(FreeFds)] = Head(backlog)]
  /\ backlog' = Tail(backlog)
  /\ client_fd' = Min(FreeFds)

(* One connection for an event; it fails if no descriptor is left. *)
Accept ==
  /\ IF backlog # <<>> /\ FreeFds # {}
       THEN TakeOutTCPConnection /\ Loop("accept", "add")
       ELSE Loop("accept", "next") /\ UNCHANGED <<connVars, client_fd>>
  /\ UNCHANGED <<epollVars, batch, fd, poolVars>>

AddClient ==
  /\ Loop("add", "next")
  /\ AddEvent(client_fd)
  /\ client_fd' = None
  /\ UNCHANGED <<connVars, batch, fd, poolVars>>

(* Seeded fault: no second task for a descriptor that has one. *)
Once_MakeTask(f) ==
  IF f \in ToSet(queue) \cup {running[w] : w \in Workers}
    THEN UNCHANGED poolVars
    ELSE TQ!Submit(f)

MakeTask(f) == TQ!Submit(f)

Enqueue ==
  /\ Loop("enqueue", "next")
  /\ MakeTask(fd)
  /\ UNCHANGED <<connVars, epollVars, batch, fd, client_fd>>

LoopStep ==
  \/ StartCreateServer \/ Register \/ EpollWait \/ NextEvent \/ Accept \/ AddClient
  \/ Enqueue

-----------------------------------------------------------------------------
(***************************************************************************)
(* The lambda, run by a worker.                                            *)
(***************************************************************************)
Task(w, from, to) ==
  /\ ~crashed
  /\ wpc[w] = from /\ wpc' = [wpc EXCEPT ![w] = to]
  /\ UNCHANGED <<clientVars, backlog, loopVars>>

TaskStart(w) ==
  /\ Task(w, "idle", "request")
  /\ TQ!Start(w)
  /\ UNCHANGED <<fdconn, taken, epollVars, memVars, sock, cur_bytes_read, handled, crashed>>

RequestMemory(w) ==
  /\ Task(w, "request", "stream")
  /\ BP!Acquire(w)
  /\ UNCHANGED <<fdconn, taken, epollVars, poolVars, sock, cur_bytes_read, handled, crashed>>

(* fd is read through the captured reference: the slot holds what the loop *)
(* has stored last, whether or not the iteration that enqueued this task   *)
(* is over.  (A build without optimisation, CMakeLists.txt:5-6, does not   *)
(* reuse the slot.)                                                        *)
MakeStream(w) ==
  /\ Task(w, "stream", "recv")
  /\ sock' = [sock EXCEPT ![w] = fd]
  /\ cur_bytes_read' = [cur_bytes_read EXCEPT ![w] = 0]
  /\ UNCHANGED <<fdconn, taken, epollVars, poolVars, memVars, handled, crashed>>

(* Seeded fault: the stream keeps the reference, and follows it each time. *)
ByRef_m_sock(w) == fd

(* The descriptor a stream reads. *)
m_sock(w) == sock[w]

(* Seeded fault: an empty socket is an error like any other. *)
Strict_Error(f) == IsOpen(f) => Unread(fdconn[f]) = {}

(* recv fails on a descriptor that is closed or listening, and at the end  *)
(* of a stream that was reset.                                             *)
Error(f) == IsOpen(f) => fdconn[f] \in broken /\ Unread(fdconn[f]) = {}

(* The loop of read_socket_non_block ends when a recv has returned as much *)
(* as fits in a whole buffer.                                              *)
Full(w) == cur_bytes_read[w] = BufferSize

RecvFull(w) ==
  /\ Task(w, "recv", "parse")
  /\ Full(w)
  /\ UNCHANGED <<fdconn, taken, epollVars, poolVars, memVars, sock, cur_bytes_read, handled,
                 crashed>>

RecvFailure(w) ==
  /\ Task(w, "recv", "recv")
  /\ ~Full(w)
  /\ Error(m_sock(w))
  /\ crashed' = TRUE
  /\ UNCHANGED <<fdconn, taken, epollVars, poolVars, memVars, sock, cur_bytes_read, handled>>

(* The messages that a recv of n returns, at their places in the buffer.   *)
Got(c, at, n) == {<<at + k, <<c, taken[c] + k + 1>>>> : k \in 0 .. n - 1}

(* Seeded fault: every recv starts over. *)
Start_Offset(w) == 0

(* Where a recv stores what it returns. *)
Offset(w) == cur_bytes_read[w]

(* As much as there is, and as is left of the buffer after what the recv   *)
(* before this one has returned.  That is all the code knows of what it    *)
(* has read: the third recv of a call is stored over the second.           *)
RecvData(w) ==
  LET f == m_sock(w)
      c == fdconn[f]
      at == Offset(w)
      n == Min({sent[c] - taken[c], BufferSize - at})
  IN
  /\ Task(w, "recv", "recv")
  /\ ~Full(w) /\ ~Error(f) /\ Unread(c) # {}
  /\ BP!Write(w, {m \in content[holds[w]] : m[1] \notin at .. at + n - 1} \cup Got(c, at, n))
  /\ taken' = [taken EXCEPT ![c] = @ + n]
  /\ cur_bytes_read' = [cur_bytes_read EXCEPT ![w] = n]
  /\ UNCHANGED <<fdconn, epollVars, poolVars, sock, handled, crashed>>

(* What was read is parsed unless the stream has ended. *)
AfterRecv(w, c) ==
  IF c \in fin THEN "close" ELSE IF cur_bytes_read[w] # 0 THEN "parse" ELSE "wipe"

(* The end of the stream, or EAGAIN. *)
RecvNothing(w) ==
  LET f == m_sock(w)
      c == fdconn[f]
  IN
  /\ wpc[w] = "recv" /\ ~Full(w) /\ ~Error(f) /\ Unread(c) = {}
  /\ Task(w, "recv", AfterRecv(w, c))
  /\ UNCHANGED <<fdconn, taken, epollVars, poolVars, memVars, sock, cur_bytes_read, handled, crashed>>

Recv(w) == RecvFull(w) \/ RecvFailure(w) \/ RecvData(w) \/ RecvNothing(w)

(* close: epoll forgets the descriptor.  The call returns 0. *)
Close(w) ==
  /\ Task(w, "close", "wipe")
  /\ IF IsOpen(sock[w])
       THEN /\ fdconn' = [fdconn EXCEPT ![sock[w]] = NoConn]
            /\ watched' = watched \ {sock[w]}
            /\ ready' = Kept(ready, watched')
       ELSE UNCHANGED <<fdconn, epollVars>>
  /\ UNCHANGED <<taken, poolVars, memVars, sock, cur_bytes_read, handled, crashed>>

(* ParseHttpMsg reads one request, at the front of the buffer.             *)
Parse(w) ==
  /\ Task(w, "parse", "wipe")
  /\ handled' = handled \cup {m \in Messages : <<0, m>> \in content[holds[w]]}
  /\ UNCHANGED <<fdconn, taken, epollVars, poolVars, memVars, sock, cur_bytes_read, crashed>>

WipeMemory(w) ==
  /\ Task(w, "wipe", "return")
  /\ BP!Wipe(w)
  /\ UNCHANGED <<fdconn, taken, epollVars, poolVars, sock, cur_bytes_read, handled, crashed>>

(* Seeded fault: the task ends and keeps its buffer. *)
Leaking_GiveBack(w) == UNCHANGED memVars

GiveBack(w) == BP!Release(w)

ReturnMemory(w) ==
  /\ Task(w, "return", "idle")
  /\ GiveBack(w)
  /\ TQ!Finish(w)
  /\ sock' = [sock EXCEPT ![w] = None]
  /\ cur_bytes_read' = [cur_bytes_read EXCEPT ![w] = 0]
  /\ UNCHANGED <<fdconn, taken, epollVars, handled, crashed>>

TaskStep(w) ==
  \/ RequestMemory(w) \/ MakeStream(w) \/ Recv(w) \/ Close(w) \/ Parse(w)
  \/ WipeMemory(w) \/ ReturnMemory(w)

PoolStart == \E w \in Workers : TaskStart(w)

-----------------------------------------------------------------------------
Next ==
  \/ ClientStep
  \/ LoopStep
  \/ PoolStart
  \/ \E w \in Workers : TaskStep(w)

Spec == Init /\ [][Next]_vars

(***************************************************************************)
(* The server's threads run; nothing is assumed of the clients.            *)
(***************************************************************************)
FairSpec ==
  /\ Spec
  /\ WF_vars(LoopStep)
  /\ WF_vars(PoolStart)
  /\ \A w \in Workers : WF_vars(TaskStep(w))

-----------------------------------------------------------------------------
(* A worker that asks for a buffer finds one: the pool runs as many tasks  *)
(* as there are buffers (Server.cpp:10-14), and a task that ends has given *)
(* its buffer back.                                                        *)
MemoryAvailable ==
  \A w \in Workers :
    /\ wpc[w] = "request" => \E i \in Slots : BP!Free(i)
    /\ wpc[w] = "idle" => holds[w] = None

(* A request is put together from the bytes of one connection, as long as  *)
(* no descriptor changes hands between two recvs of a call.                *)
OneConnectionPerBuffer ==
  fin = {} => \A i \in Slots : \A m, n \in content[i] : m[2][1] = n[2][1]

(* The variable fd is shared by all tasks, so most of what follows is said *)
(* of the executions in which one client, at most, has connected.          *)
Alone == Cardinality(connected) <= 1

(* Until a client closes, the only fatal read is that of the listening     *)
(* descriptor, and it takes a second client to store that one in fd while  *)
(* a task is on its way.                                                   *)
FatalOnlyOnListener ==
  crashed /\ fin = {} => ~Alone /\ \E w \in Workers : sock[w] = SrvFd

(* The request that a call has read first stays in front of its buffer,    *)
(* whatever is stored behind it, until the parser has had it               *)
(* (SocketStream.cpp:19-47, HttpServer.cpp:94-107): nothing writes over it *)
(* and no wipe comes before, unless its client has gone by then or another *)
(* task has closed its descriptor.                                         *)
FirstReadIsHandled ==
  [][\A i \in Slots, m \in Messages :
       <<0, m>> \in content[i] \ content'[i] =>
         m \in handled \/ m[1] \in fin \/ DescriptorOf(m[1]) = {}]_vars

BufferFilled == \E w \in Workers : wpc[w] = "recv" /\ Full(w)

(* What the server owes to a client: to read what it has sent, and to give *)
(* its descriptor back to the process when it has closed.                  *)
Owed(c) == Unread(c) # {} \/ (c \in fin /\ DescriptorOf(c) # {})

(* An only client's stream is read to its end, and its descriptor comes    *)
(* back: an edge that is dropped never comes again                         *)
(* (HttpServer.cpp:76-108).  Only a call that fills its buffer leaves      *)
(* something behind.                                                       *)
AloneIsRead ==
  [](~BufferFilled) => \A c \in Conns : Owed(c) ~> ~Owed(c) \/ crashed \/ ~Alone

(* The events still to come of the listening descriptor: it is listed, or  *)
(* about to be handled, or not registered yet.                             *)
AcceptPending ==
  lpc \in {"register", "accept"} \/ SrvFd \in ToSet(ready) \cup ToSet(batch)

(* One accept serves each edge of the listening socket                     *)
(* (HttpServer.cpp:82), so that of the connections that share an edge only *)
(* the oldest is accepted, unless no descriptor is left; the next edge     *)
(* brings the next one in.  A connection made before the registration is   *)
(* no exception.                                                           *)
NextInLineIsAccepted ==
  \A c \in Conns :
    AcceptPending /\ backlog # <<>> /\ Head(backlog) = c
      ~> c \notin ToSet(backlog) \/ FreeFds = {} \/ crashed

-----------------------------------------------------------------------------
(***************************************************************************)
(* What the repository says of the server, and the code does not do.       *)
(***************************************************************************)
(* "A worker parses, processes and answers the request"                    *)
(* (HttpServer.cpp:92): here, the first request of each client.            *)
FirstRequestHandled ==
  \A c \in Conns :
    sent[c] > 0 /\ DescriptorOf(c) \cap watched # {}
      ~> <<c, 1>> \in handled \/ c \in fin \/ crashed

=============================================================================
