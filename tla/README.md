# QtWebServer: specifications and proofs

TLA+ modules of the server's own core logic, TLC configurations that check them
on small instances, and TLAPS proofs about them for every size. Paths are
relative to the repository (`src/server/Server.cpp`, `app/...`); `PROJECT.json`
prefixes them with the directory the repository is checked out in.

## 1. The system

`HttpServer` is a reactor. The thread that calls `ReactorMode` waits in
`epoll_wait`, accepts connections and puts a task in the thread pool for every
descriptor with data. A task borrows one of the server's buffers, reads the
socket into it, parses an HTTP request and returns the buffer. A hierarchical
timer wheel, driven by SIGALRM, is created with the server and not used by it
yet.

| Part | Code | State | Operations | Talks to |
|---|---|---|---|---|
| Thread pool | `src/threadpool/threadpool.{h,cpp}` | `m_tasks`, `m_stop`, a mutex, a condition variable | `enqueue`, the workers' loop, the destructor | runs the reactor's tasks |
| I/O memory | `src/server/Server.cpp:10-14,54-90` | for each worker a 4096-byte buffer, an in-use flag and a lock | `RequestMemory`, `ReturnMemory` | called by tasks |
| Reactor | `src/server/HttpServer.cpp:12-122` | the epoll table, the loop variable `fd`, the sockets | `StartCreateServer`, `MonitorReactorFd`, `TakeOutTCPConnection`, `AddEvent`, the task lambda | kernel, pool, I/O memory, stream, parser |
| Socket stream | `src/stream/SocketStream.cpp` | offset and counts of one call | `read_socket_non_block` | kernel |
| Timer wheel | `src/timer/timerwheel.{h,cpp}` | the clock, 8 x 256 slots that are doubly linked lists | `startTick`, `schedule`, `relink`, the SIGALRM handler, `process_current_slot` | a thread and a signal handler that interrupts it |
| HTTP parser, line reader | `src/http/Request.{h,cpp}`, `src/stream/stream_line_reader.cpp`, `HttpServer.cpp:130-198` | the request, the offset in the buffer | `getline`, `parse_request_line`, `parse_header`, `decode_url` | called by tasks |
| Memory pool, stack | `src/memorypool/*` | free list, blocks | `allocate`, `deallocate`, moves and copies | allocator of the buffers |
| Observers | `Server.cpp:40-49` | a list | add, remove | nothing notifies it |
| Earlier servers | `src/server/{select,poll,epoll}server.hpp` | the descriptors accepted, the array of `poll`, epoll's table | the loops of `run`, `acceptClient`, `readProcess` | kernel; clients of `src/client/ipv4client.hpp` |
| Windows, programs | `src/ui`, `app` | | | |

What makes each part correct, and what is hard about it:

* **Thread pool.** Tasks are taken in the order they were accepted, each once;
  no wake-up is lost between a worker's test and its wait; nothing is accepted
  after the pool is stopped; a stopped pool's workers end (they do not, section 3). Hard: threads
  interleave between lock, test, wait and notify; spurious wake-ups.
* **I/O memory.** A request never comes back with nullptr, no two tasks share a
  buffer, none leaks, no request sees another's bytes. Hard: `RequestMemory`
  takes one lock at a time while slots change hands in front of it and behind
  it, and the wipe is outside the locks.
* **Reactor.** The oldest waiting connection is accepted at every edge, also what waited
  before the socket was registered; every message is read by a task, the request that a call
  reads first is handed to the parser, descriptors are closed once and come back. Hard:
  edge-triggered events that are reported once, tasks that run later than the
  loop that made them, two tasks for one descriptor, a descriptor number that
  is given out again.
* **Socket stream.** A call empties the socket, puts the bytes in order,
  returns how many there are, closes only at the end. Hard: several `recv`s in
  a call, a full buffer, zero bytes, data that arrives meanwhile.
* **Timer wheel.** Every event runs once, at its time; the lists are
  consistent. Hard: the arithmetic of the levels, the order in which the handler
  visits them, a handler that relinks events while it empties a list and that
  interrupts `relink`; ticks that come before `startTick` has set what `schedule` reads.
* **Parser.** What a well-formed request says is what `Request` holds, and no
  read or write leaves the buffers. Hard: bounds and truncated escapes.
* **Earlier servers.** A server waits for the clients it holds, accepts those that
  wait, and serves those that send. Hard: accepts that fail, descriptors that are
  given out again, an array that fills up, clients that are never read.
* **Memory pool.** A slot is handed out once until it comes back, also after
  moves and copies.

## 2. Modules

```
TaskQueue  <---- implements ---- ThreadPool  <--- ThreadPoolProofs
    ^                               ^------------ MCThreadPool
    | instance
 Reactor  <---- ReactorProofs, MCReactor
    | instance
    v
BufferPool <---- implements ---- IOMemory    <--- IOMemoryProofs, MCIOMemory

SocketRead, HttpRequest <---- TaskProofs, MCTask
Timer      <---- implements ---- TimerWheel  <--- TimerWheelProofs, MCTimerWheel
MemoryPool <--- StackAlloc <---- StackAllocProofs, MCStackAlloc
MultiplexServers <---- MultiplexServersProofs, MCMultiplexServers

Lists <---- ListLemmas     (Lists: extended by Reactor, MultiplexServers, MemoryPool
                            and TimerWheel; ListLemmas: by their proofs
                            and TaskProofs)
```

`Reactor` is composed of the abstract `TaskQueue` and `BufferPool`, so that its
state space has no mutexes in it. That this is sound is what the refinements
show: the real pool and the real I/O memory implement the abstract ones.

**ThreadPool** (`threadpool.cpp:5-32,59-68`, `threadpool.h:24-41`).
Variables have the members' names. A worker goes through `lock`, `test`, then
`take` or `asleep`, then `run`; a producer is the caller of `enqueue`; the
destroyer is the thread in `~ThreadPool`. One action is what a thread does between
two points at which another can interfere: acquiring the mutex, the critical
section that ends with releasing it, `notify_one`. `notify_one` wakes any one of
the sleepers, or nobody if there are none. `SpuriousWake` is in the model. The
re-check after the wait (`threadpool.cpp:21-23`) is an exit that a worker takes if what
the wait has tested does not hold any more. Calls are bounded by the set of tasks:
each task is submitted at most once.

**TaskQueue**: submit, start, finish, stop on one queue, each atomic.

**IOMemory** (`Server.cpp:10-14,54-76`). A worker requests a buffer, uses it and
returns it, again and again, as the lambda of `HttpServer.cpp:94-107` does. The
body of each walk is one action per slot, since a slot's lock is held for one
iteration; the wipe is an action of its own, before the walk. `buffer[i]` is the
set of workers whose data the buffer holds, empty when it is wiped.

**BufferPool**: acquire any free buffer, write, wipe, release, each atomic.

**Reactor** (`HttpServer.cpp:65-122`, `SocketStream.cpp:18-47`, `Server.cpp:54-76`).
The kernel's part is external and modelled as the code uses it: a backlog, a
descriptor table that gives out the lowest free number, and epoll's ready list.
An edge lists a descriptor once; `epoll_wait` takes what is listed and still
readable. The thread of `ReactorMode` is `StartCreateServer`, `Register`, then the loop
of `EpollWait`, `NextEvent`, `Accept`, `AddClient` and `Enqueue`. Clients connect as soon as
the socket listens, so that connections may wait before epoll knows of it; `AddEvent` lists a
descriptor that is readable when it is registered, and does nothing if a task has
closed the descriptor in between, since the result of `epoll_ctl` is ignored.

A worker's call of `read_socket_non_block` is `Recv`, in its four outcomes, and `Close`.
A client's stream is a sequence of messages, all of one length, and a message is one
request; it arrives at once, and `recv` counts in messages. `BufferSize` is how many fit in a buffer;
`MaxSends` bounds clients and messages together, so that few clients send more.
`RecvData` stores what it takes behind what the `recv` before it returned, which is all
that `ret` and `cur_bytes_read` keep, so that the third of a call is stored over
the second; the loop ends (`RecvFull`) when one `recv` has returned a whole buffer, and
what the socket still has is left there. `Error` is a `recv` on a descriptor that is
closed or listening, or at the end of a connection that was reset. A buffer's content is a set of messages,
each at its place; `Parse` stands for `ParseHttpMsg`, which reads the request at the front
of the buffer and nothing behind it (the TODO of `HttpServer.cpp:191-194`): other requests
in the buffer are wiped.

The variable `fd` is the loop's stack slot: the lambda captures it by
reference, so a task reads it in `MakeStream`, when it runs. A task is otherwise
named by the descriptor its event was for, which is a name for the reader; no
action of a worker looks at it. `crashed` is `LOG(FATAL)`, which aborts the process:
nothing happens afterwards.

**SocketRead** (`SocketStream.cpp:15-47`). One call, with `ret`, `cur_bytes_read`
and the buffer as in the code. Byte k of the stream is the number k, so that
order and loss show. More bytes may arrive between any two steps, the client
may close or reset the connection, and another task may close the descriptor
(`Break`), so that a `recv` fails and the process aborts (`RecvFatal`). `EINTR`
(`SocketStream.cpp:28`) is left out: a `recv` that does not wait is not interrupted.

**TimerWheel** (`timerwheel.cpp:26-97,145-220`, `timerwheel.h:63-73`). `head`,
`slot`, `next` and `prev` are the pointers. No caller of `schedule` blocks SIGALRM, so
a signal comes between any two steps of the thread, in every run; its handler runs to
its end before the thread goes on, as a signal handler's does. A step of the thread is one write of what
the handler shares, or a read of one entry of `m_now`, of one head, or of an event's slot and links:
`Schedule` reads `m_now[0]`, `Stamp` writes `m_scheduled_at`, `NextLevelUp` and `ChooseSlot`
read `m_now` for a level, and `EnterRelink` to `SetSlot` are `relink`. Its reads of `m_slot`,
`m_prev` and `m_next` (`timerwheel.cpp:190-195`) are one step: a handler that
comes between them leads where one just before them or just after them does (an event that it
executes is read as linked and then has no slot, as after them; one that it takes down is found
in its new list, as before them), so that nothing checked here depends on it. The handler's
`Cascade` is one step, since the thread cannot run meanwhile.
The handler visits the levels from 0 up,
pops the slot's events one by one, executes those of level 0 and takes the others
down. `startTick` is `StartTick`, after which signals come, and one `SetNow` for each
level of `m_now`: ticks in between are in `cur_t` and not, or not in every level, in
`m_now`, until the next tick sets it again. It is taken to last less than a revolution of level 0.
`struck` is history, and says how far signals have gone: "schedule" once one has come
inside `schedule`, "relink" once its handler has taken an event from a list while `relink`
changes one. From the second on the lists mean nothing in particular; `SpoiltTick` bounds
how far the clock is followed then.
`asked` is history: what became of the last `schedule` of each event.

**Timer**: what a caller may count on, without levels or lists. A clock that is off,
starting or on; what it shows (`now`) and what the caller's thread sees of it (`seen`), which
differ from a start that was interrupted to the next tick; for each event the time it
was asked for, and whether that is to come (`owed`) or had come already (`missed`). An event
runs when the clock shows its time, or a revolution of the lowest level later if its time
is the first of a revolution or was missed, and once for each time it was asked for. `Tick` is not possible while an
event that has come to its last time has not run, so an event that is forgotten, run early,
run twice or run too late is a step `Timer` does not have.

**HttpRequest** (`HttpServer.cpp:130-198`, `stream_line_reader.cpp:18-36`,
`Request.h:41-72`, `Request.cpp:3-210`). One buffer that goes from a request to the
next: `Read` fills it with a message or the first part of one, `RequestLine`,
`ParseHeaderLine` and `EndOfHeaders` are the steps of `ParseHttpMsg`, each with one
`getline`, and `Return` is the end of the task. The functions of `Request.cpp` are
operators with their names or the name of what they yield. A character is its ASCII
code, since `decode_url` does arithmetic on it; a word that is only compared (a method,
a version, a header's name) is a single character beyond 255. The message the
client meant is kept next to its bytes, and the properties compare what it
means, by a definition of escapes and UTF-8 of its own, with what the parser
found. An access beyond an end of a buffer leads to `overrun`, where the model
stops: nothing can be said of what follows. A call begins at the start of a message;
what the rest of a cut message does to the next call is not modelled. `m_headers` is the sequence
of the calls of `emplace`; the code's is a multimap, in the order of `header_sort` (`Request.h:11-19`).
`MessagesAssumption` says which messages are described: those whose text means what their
abstract form does. The words of a request line have no blanks; spaces tell them apart, or
there is no target at all; no line is empty or has a CR LF or a NUL inside; a header
without a colon has none in its value; and a `%` that is meant as itself is not
followed by what reads as an escape. Any method, version, name, value, spacing, number of headers and
body are admitted, valid or not. TLC evaluates the assumption for the messages of its run.

**MemoryPool** (`MemoryPool.tcc`) and **StackAlloc** (`StackAlloc.h`). Pools on one heap,
with the members' names. A pointer is a block and an offset in bytes. A slot's memory
is either an element or the list's link, as the union in the code; a block's is its
link to the one before. A stack's nodes are elements of a pool of its own, so that
what the pool does with freed slots meets what the stack reads. Other pools are used
directly and moved. `clear` takes one node per step.

**MultiplexServers** (`selectserver.hpp`, `pollserver.hpp`, `epollserver.hpp`,
`ipv4client.hpp`). The variable `kind` says which of the three servers runs; they share
`acceptClient` and the kernel. `Select`, `Poll` and `EpollWait` are the calls that wait, and `WaitedFor` is
whose descriptors they look at: `select` looks only below its first argument, `Selected`;
`returned` is what is left of their answer: the descriptors that are ready, or for
`poll` the indices whose `revents` is set. The select and poll servers have a TODO
where they would read; `noticed` records whom they log there. A failed `accept` is
followed by `add_event`, or by a slot of the array, for the last descriptor, as in the code;
the array's new slot is looked at with `revents` as the stack has it, which the model
chooses. Descriptors stay below 64, the width of a word of `fd_set`.

**Lists** holds what four components say of lists: `Kept` and `Listed` for epoll's lists of
descriptors, and `Walk` and `Linked` for nodes that are linked by pointers, which is what
the blocks and free slots of `MemoryPool` and the slots of `TimerWheel` are. They, and
`Span` of `TimerWheel` (the ticks that a slot of each level lasts), are recursive functions
and not `RECURSIVE` operators, so that they can be proved about.

`MCTask` runs the two halves of a task one after the other, `SocketRead` until its call has
returned something and `HttpRequest` from then on, and lists the messages; the parser is given
any of them, whatever the call has read, since the bytes of `SocketRead` are only numbers.
`MCStackAlloc` gives the elements; the other `MC...` modules only instantiate a
component for TLC. Operators whose comment
begins with "Seeded fault" are wrong variants of the definition they precede, most of them
of one line: with the variant in its place a property fails, which is how
each property is known to depend on the code. Every property has such a fault; two
properties may share one.

## 3. Runs

| Run | Checks | Bounds, and why they are enough |
|---|---|---|
| `pool` | types; no lost wake-up; what the wait has tested still holds at the re-check; the pool implements `TaskQueue` with its fairness, so that no task is lost or run twice; every accepted task runs unless the pool is stopped | three workers, two producers, three tasks: two workers asleep beside one awake, two notifications at once, one producer calling twice |
| `memory` | types; no nullptr; slots exclusive and not leaked; no foreign bytes; `IOMemory` implements `BufferPool` | four workers, four slots: a walk can be overtaken in front and behind at once |
| `reactor` | types; a task finds a buffer; one connection per buffer; a fatal read only of the listening descriptor; the request a call has read first is handled; an only client's stream is read to its end unless a call fills its buffer, and its descriptor comes back; the next connection in line is accepted at the next edge | an only client with three messages or two clients with two, of which one may close or be reset, a buffer of two, two workers, two descriptors, two events per wait: two tasks at once for one descriptor or for two; one call can take the three messages in three `recv`s, of which the third is stored over the second, or fill its buffer at once |
| `task` | of the call: types; empties the socket unless filled at once; the bytes of two `recv`s in order; closes only at the end. Of the parser: types; the request line is judged and taken apart right; headers complete and in order, the body's length; values decoded; no access beyond the buffers but where the sizes make it | a buffer of 4 and a stream of 7 bytes: up to 4 `recv`s in a call, a buffer filled exactly, filled in parts, or not filled. 28 request lines without headers, 256 pairs of headers and 16 single ones, with and without a body, each cut after any byte; a line of 12 bytes and a buffer of 36, so that lines fit exactly, miss the NUL, miss the LF or miss the end, and messages fit the buffer, fill it or go beyond |
| `timer` | types; lists consistent until a signal spoils one; up to the first signal inside `schedule` the wheel implements `Timer`: no event is forgotten, each runs once, at its time or one revolution late; the handler returns | two events, three levels of two slots, delays 0, 1, 3 and 4, 10 ticks, signals between any two steps, of which one may come during `startTick`: every level is entered and left, and the clock goes round the whole wheel; the middle of a list takes three events, which only the proofs have |
| `mempool` | types; elements inside their blocks and aligned; each carved slot in use or listed, once; each block owned once; a stack holds what was pushed; a new block only when the others are full | one stack of up to three nodes with two values, two direct pools, two blocks of three slots: a pool with two blocks, both pools in want of one, lists in every order |
| `servers` | types; the poll and epoll servers wait for exactly the clients they hold; the level-triggered ones leave nobody in the backlog; poll notices and epoll reads and closes every client it holds | each of the three servers with three clients, two descriptors, two messages, an array of four: accepts that fail, numbers given out again, an array that fills up |
| `pool_join` (fails) | the workers of a stopped pool end | one worker |
| `reactor_stale` (fails) | the first request of every client is handled | two clients that stay, two workers |
| `reactor_fatal` (fails) | the server does not abort | one client that closes, one worker |
| `timer_late` (fails) | an event runs at `cur_t + delta` | one event, signals not inside `schedule` |
| `timer_signal` (fails) | an event runs once | two events, signals at any time |

The failing runs state what a document or a comment of the repository says, and
`PROJECT.json` quotes it:

* `pool_join`: the flow chart of the pool ends the workers of a stopped pool. The wait's
  predicate needs `!m_stop`, so that none of them leaves the wait again, and `join`
  (`threadpool.cpp:66`) never returns. The `notify_all` that is commented out would not
  help: a worker that it wakes goes back to sleep.
* `reactor_stale`: a task uses the descriptor of a later event, and the request of the
  earlier one is read by nobody.
* `reactor_fatal`: the second of two tasks for one descriptor reads it after the
  first has closed it, and the error is fatal.
* `timer_late`: level 0 is processed before events are taken down to it; an event
  due on a multiple of `NUM_SLOTS` runs `NUM_SLOTS` ticks late.
* `timer_signal`: a signal inside `relink` brings an executed event back into a
  list. (With more ticks the same races link an event behind itself, and the
  handler then never leaves its loop; or they pop an event whose `m_slot` is set
  afterwards, which is then taken for linked.)

`MemoryPool::allocate` gives out one slot whatever `n` is. The server's buffers are
vectors of 4096 chars (`Server.cpp:12`), whose memory begins 8 bytes into a block of
4096: their last 8 bytes are not the pool's. `MemoryPool` models requests for one
element, which is what its header promises; the other modules take the buffers to have
the size they were asked for.

Other limits of the code are in the modules and have no property of their own; the
properties are worded around them:

* `read_socket_non_block` sets `ret`, its offset, to the result of the last `recv` and does not
  add it up, so that the third `recv` of a call writes over the second, also where all would fit, and
  the count it returns, by its comment the bytes read (`SocketStream.cpp:72`), is that of the
  last. `TwoRecvsInOrder` is about two, `FirstReadIsHandled` about the front of the
  buffer. Nobody looks at the count but to see that it is not 0.
* Of two tasks for one descriptor the second may have found the end of the stream when the
  first closes the number and the loop gives it to the next client, whom the second then cuts off
  (`SocketStream.cpp:37`).
* `max_fd` of the select server is computed once, from the listening descriptor, though the
  comment calls `select`'s argument the largest descriptor and one (`selectserver.hpp:109`). The
  server waits for none of its clients; `WatchesItsClients` and `HeldAreServed` are
  about the other two.

Some of what is said of the reactor is restricted by what the failing runs show. `AloneIsRead` is about
executions in which only one client has connected (`Alone` in the module): with a second one, the
shared `fd` defeats it. It says that the messages are read, not that
they are handled: of what a call reads, the request at the front of the buffer is parsed and
the others are wiped. `FirstReadIsHandled` says that this one is, however many clients there are and
whatever is stored behind it. It excepts clients that have closed, since a
message followed by the client's close within
one call is read and then dropped (the call returns 0, `SocketStream.cpp:38`), and those whose
descriptor another task has closed.
A first `recv` that fills the buffer ends the call with data left, for
which there is no further edge; `AloneIsRead` and `EmptyUnlessFilledAtOnce` except it.

The epoll server, like the reactor, calls `accept` once for an edge of its edge-triggered
listening socket: of two connections that share an edge the second waits until a third one
comes. `NextInLineIsAccepted` says what is left of the promise in the reactor, and
`WaitingAreAccepted` of `servers` is about the other two servers. The poll server ends with `exit(1)` when its array is full, which a
descriptor shortage brings about too, since every failed `accept` takes another slot.

The parser's properties are worded around three limits of the code. A line of
`line_memory` bytes or more (128 in the server) makes `getline` return 0, as the empty
line does, so that line and all headers after it are lost without an error; one that
is shorter by one or two leaves no room for its LF or its NUL; and `strlen` of the
stream's buffer needs a byte that the read has left blank. `StaysInside` says that
these, and a head that is cut near the buffer's end, are the only ways beyond a
buffer. A value keeps its CR LF: `parse_header` drops blanks at the end of a line, but the
line still ends in CR LF. A code from a surrogate pair written as two `%u` escapes
yields no bytes.

### Fairness

Each worker, the pool's producers and the thread of each server's loop are weakly fair: a thread
that can run is scheduled. Clients, callers of `schedule`, signals and spurious
wake-ups have no fairness. The mutex is not assumed fair to any one thread beyond what weak
fairness of the thread's steps gives; `ThreadPool` comments on its choice.
The runs whose cfg says `CHECK_DEADLOCK FALSE` are of systems that may stop:
the clients are done, the call has returned, the last tick has come, the pool
is stopped.

## 4. Proofs

The proofs are for all values of the constants that the assumptions of the component's
module admit: `ThreadPoolAssumption`, `IOMemoryAssumption`, `SocketReadAssumption`,
`ReactorAssumption`, `MultiplexAssumption`, `MemoryPoolAssumption` with `NullIsNothing` and
`StackAllocAssumption`, `TimerAssumption`, and `SizesAssumption` with `MessagesAssumption`
(section 2). They say that sets of threads, clients, blocks and events are
finite, that a null is not one of the things it may stand beside, and what the code's
static assertions and template parameters say of sizes. One theorem has a
further hypothesis, `ImplementsTimer`.

* **ThreadPoolProofs.** `TypeCorrect`; `WhatWaitFoundHolds` (the re-check never
  fails: the mutex is held from the test to the pop, and every change to
  `m_stop` and `m_tasks` is made under it, so the invariant relates `pc` values,
  the owner of the mutex and the predicate); `WakeupsSuffice` (no lost
  wake-up); `ImplementsTaskQueue` (initial states map to initial states, every
  step to a step of `TaskQueue` or to a stutter).
  `NoLostWakeup` is a statement about numbers: as long as a worker sleeps, there are at
  least as many threads on their way to the queue, woken workers or producers
  about to notify, as there are tasks in it. It is inductive with the facts about the mutex.
* **IOMemoryProofs.** `TypeCorrect`, `RequestsSucceed`, `SlotsAreExclusive`,
  `BuffersArePrivate`, `ImplementsBufferPool`. That a request never fails is not
  inductive: a walk that has passed slot i says nothing by itself. The
  strengthening is `FewerBeyond`, a counting argument: at most n - i workers are at or
  beyond slot i, where a requesting worker is where its walk has come to, and a
  holder is at its slot. A walk passes a slot only if somebody else holds it, so a
  walk that came to the end would make n workers below n slots and one more.
* **TaskProofs.** Of the call that fills the buffer: `CallTypeCorrect` (with it, that no `recv` writes beyond
  the buffer), `CallEmptiesSocket`, `FirstTwoRecvsInOrder`, `ClosesAtEnd`, for
  every size of the buffer and every stream.
  Of the parser, for every size of the buffer and of the line and every set of messages:
  `HttpTypeCorrect`, `RequestIsUnderstood`, `HeadersAreInOrder`, `ValuesAreDecoded`,
  `ParserStaysInside`, and what they come to together, `WholeRequestsAreParsed`: a request with
  lines that fit, in a buffer it does not fill, is parsed inside the buffers into
  exactly the headers it means.
  The invariant is `HttpInv`. The buffer is, byte for byte, the part of the message that was
  received, and blank behind it (`BufferHolds`); in the loop over the headers
  the line reader stands between two lines of the message, `bytes_experienced` says where,
  and the Request has what the header lines before it mean (`AtLine`, `HeadersInv`).
  The properties of the runs say nothing of the offset, and without it none but the first
  is inductive. A step then is a question about the
  line the reader stands before: it was received whole and fits, and is what `getline` returns
  (`FittingLine`); it does not fit, and an end of a buffer is passed (`UnfitLine`); or it was cut,
  and `getline` sees no end of it, nor one that an earlier request left (`CutLineHasNoEnd`).
  What the functions of `Request.cpp` make of a line are theorems about them alone:
  `RequestLineMeant` (`split` finds three words exactly if there are three, by following the
  places of blanks and spaces through the line), `HeaderMeant`, and `DecodedValue`
  (`decode_url`, by induction over the items of a value from the last to the first; that hexadecimal
  digits and UTF-8 come out right is arithmetic about `DigitOf`).

* **ReactorProofs.** `TypeCorrect`, `TasksFindMemory`, `RequestsAreNotMixed`, `FatalReads`,
  `FrontsReachTheParser`, for any number of clients, workers, descriptors and messages. `IInv` says of the buffers
  that a worker holds one exactly from `RequestMemory` to `ReturnMemory`
  (`HoldsFollowsControl`), that no two hold the same (`HoldersDiffer`), and that what a
  buffer holds is that of a worker between `recv` and the wipe (`ContentIsSomebodys`), also
  where a later `recv` stores over an earlier one;
  `MemoryAvailable` then is a pigeonhole argument: other workers hold at most n - 1 of
  n slots. Of descriptors it says that, until a client closes, whatever the
  loop or a task has stays open (`OpenUntilClosed`), and that a buffer's bytes are from the
  connection of the worker's descriptor (`OwnBytes`). That a fatal read takes a second
  client needs the order of the start: with one client, the listening descriptor is reported
  once, and before there is any other (`ListenerComesFirst`), so that no task can find
  it in `fd` when it runs. `FrontsReachTheParser` proves `FirstReadIsHandled`: what a call has
  stored at the front of its buffer stays there while the call goes on (`FrontsAreKept`), since
  every later `recv` of it stores behind a count that is not 0, and the call ends in the
  parser or, if the stream has ended, in `close`; a connection is accepted once (`EachConnectedOnce`), so that a
  descriptor that was closed does not become the same client's again.
* **MultiplexServersProofs.** `TypeCorrect` (with it, that `poll`'s array is not
  overrun) and `ServersWatchTheirClients`, which is about the poll and the epoll
  server. The invariant follows each server's table
  between the steps of `acceptClient`, where it may lag behind by the newest
  descriptor: `AcceptedAreOpen` for the two servers that never close,
  `SlotsFollowDescriptors` for `poll`'s array, `TableFollowsDescriptors` for epoll's.
* **StackAllocProofs.** All invariants of the pool and of the stack, and the action
  property: `TypeCorrect`, `BlocksHaveOneOwner`, `SlotsAreNotShared`, `ElementsFit`,
  `NewBlocksOnlyWhenFull`, `StacksHoldWhatWasPushed`, for any sizes with which the class
  compiles and any number of pools, blocks and stacks. The lists that a pool keeps in
  memory, blocks and free slots, are chains; `PoolIsWhole` says that a pool's slots
  are the held ones, the listed ones and those not carved yet, without overlap, and `CarvesNewestBlock` where
  in the newest block the next is carved. A step changes a chain at its front, or takes it over as a whole,
  and reaches nothing of another pool, because blocks and then slots are apart.
  That slots fit and are aligned is arithmetic about `Body`, `LastSlot` and multiples of `SlotSize`; it needs
  `Body <= SlotSize`, which the union in `Slot_` gives. A stack's nodes are elements its pool has
  handed out (`NodesAreLinked`), so that freeing elsewhere does not touch them.
* **TimerWheelProofs.** `TypeCorrect` holds wherever signals come. With it: the loop that
  raises a delay level by level ends within the levels (`WithinReach`, from what the
  levels above can hold, `Reach`), and the handler never takes an event down from level 0.
  All theorems are about signals that come anywhere. `ListsStayWhole` holds until the handler takes an event from a
  list while `relink` changes one, and `ImplementsTimer` up to the first signal inside
  `schedule`: beyond these both are false (`timer_signal`).
  `ListsStayWhole` needs the lists in the middle of `relink`: as they were, without the event, or as
  they are going to be, and what `call` has of them (`RelinkInv`); a signal there that pops nothing leaves all of that as it
  is (`UnspoiltInv`). `ImplementsTimer` says that every behaviour of the
  wheel is one of `Timer`: an event that was asked for runs, once for each time, at its time, or late where
  `Timer` names it, and no tick passes over it. An event that is scheduled anew while
  it waits is owed for the later time from the moment `m_scheduled_at` is written, while the lists still have it in the slot of
  the earlier one; no tick comes before they are changed. It is proved for more than one level;
  the code has eight, and with a single one the step that sets `m_now` is at once the last of
  `startTick`, two steps of `Timer`. The
  invariant `TimerInv` adds the clock (`ClockInv`: `m_now` is `cur_t` at every level, or
  0 in the first revolution) and where an event waits (`AskedInv`, with `InTime` and `Placed`): in the slot of its time at
  some level, for as long as that slot has not come up since. Its core is that levels are
  visited upwards while a tick's carry goes on: when a level's slot comes up, the levels
  below begin anew together, so that an event taken down lands in a slot that is still
  to come, or, at the first tick of a revolution, in the slot of level 0 that has just been
  done; that is the delay `timer_late` shows.
* **ListLemmas.** What these proofs share: induction over numbers and along a walk, chains
  and what unlinking, pushing and replacing does to them, `Kept`, `Listed`, ranges of
  sequences, what stands at which place of a sequence that was cut or joined, and
  `Glued`, which says what the community modules' `FlattenSeq` has joined so far. The library's induction theorems take an operator as a parameter, which
  the installed provers cannot instantiate; `SetInduction` and `IntervalInduction` say the
  same for sets, from the well-foundedness of finite sets under inclusion, and
  `RecursionExists` that the recursive functions are what their equations say.

Only model-checked:

* Everything under fairness, which the provers do not reach: `EveryTaskRuns` and the fairness part of
  `IsTaskQueue`; `AloneIsRead` and `NextInLineIsAccepted` of the
  reactor; `HandlerReturns` of the timer; `WaitingAreAccepted` and `HeldAreServed` of the
  earlier servers.

Every invariant and every action property that a passing run checks is stated by a theorem.

## 5. Not modelled

* `cancel`, `advance` and `myadvance` of the timer: they are declared `inline` in the header
  and defined in `timerwheel.cpp`, so no other file can call them, and none of that file
  does; the last two are unfinished. `getInstance` of the timer: its double-checked
  creation is written for several threads and called by one, the server's constructor.
* `assert` and fatal failures of `socket`, `bind`, `listen` and `epoll_create`, and the choice
  of the multiplexer: set-up that either succeeds or ends the process.
* Observers: a list that nothing reads.
* `m_ipmsg` of the server (`HttpServer.cpp:17`) points to a local variable of a block that
  `app/QtHttpServer.cpp:44-54` has left when `StartCreateServer` reads it. What is read is
  undefined; the reactor's model begins with the address as it was entered.
* Of the clients, the ways they connect, send and close are in `Reactor` and
  `MultiplexServers`; what they print and how they read their arguments is not.
* `Ipv4Server`, whose `run` opens a socket and closes it, Qt windows and main programs:
  straight-line I/O and layout.
* Failures of `epoll_ctl` other than that of a descriptor that is closed, and of `accept`
  other than for want of descriptors. The latter is in `Reactor!Accept`, but the runs of the
  reactor give every client a descriptor; `servers` has fewer of them than clients.
* `EINTR` of a `recv`, and the order of `m_headers` (section 2).

## 6. Plan

1. (done) ThreadPool with TaskQueue; IOMemory with BufferPool; Reactor over both;
   SocketRead; TimerWheel. Proofs of the first two and of SocketRead.
2. (done) HttpRequest: the line reader and the parser, against reference
   definitions.
3. (done) MemoryPool and StackAlloc.
4. (done) MultiplexServers: the earlier servers.
5. (done) Timer, an abstract timer that `TimerWheel` implements up to the first signal inside
   `schedule`; the start of the reactor.
6. (done) Proofs: the reactor's types and safety invariants; the types and
   `WatchesItsClients` of the earlier servers; all of the memory pool and the stack;
   the timer wheel's types, its lists, and that it implements `Timer`.
7. (done) Proofs: all invariants of the parser.
8. Open: what the rest of a message that was cut does to the next call, which needs the reactor's
   messages in parts; what `SocketRead` has read as what `HttpRequest` parses, within the reactor.
