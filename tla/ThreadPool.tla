---------------------------- MODULE ThreadPool -----------------------------
(***************************************************************************)
(* ThreadPool (src/threadpool): workers that share a queue of tasks under  *)
(* one mutex and sleep on one condition variable, callers of enqueue, and  *)
(* the thread that runs the destructor.  A step is what a thread does      *)
(* between two points at which another thread can interfere: acquiring the *)
(* mutex, one evaluation of wait's predicate, the atomic release-and-sleep *)
(* of wait, the critical section, the notification after it.               *)
(***************************************************************************)
EXTENDS Naturals, Sequences, FiniteSets

CONSTANTS
  Workers,    (* the threads in m_workers, hardware_concurrency() of them:   *)
              (* none where the library cannot tell                          *)
  Producers,  (* threads that call enqueue                                   *)
  Tasks,      (* the calls of enqueue, told apart by the task they pass      *)
  NoTask,     (* an empty std::function                                      *)
  Destroyer,  (* the thread that destroys the static instance                *)
  Nobody      (* the owner of a free mutex                                   *)

ASSUME ThreadPoolAssumption ==
  /\ IsFiniteSet(Workers) /\ IsFiniteSet(Producers)
  /\ Workers \cap Producers = {}
  /\ Destroyer \notin Workers \cup Producers
  /\ Nobody \notin Workers \cup Producers \cup {Destroyer}
  /\ NoTask \notin Tasks

VARIABLES
  m_tasks,       (* queue of tasks nobody has taken                          *)
  m_stop,        (* set by the destructor                                    *)
  m_task_mutex,  (* the thread that holds the mutex                          *)
  wpc,           (* where each worker is in its loop                         *)
  task,          (* the local variable task of each worker                   *)
  ppc,           (* where each producer is in enqueue                        *)
  arg,           (* the task a producer is enqueueing                        *)
  dpc,           (* where the destructor is                                  *)
  called,        (* history: tasks that were passed to enqueue               *)
  rejected,      (* history: tasks whose enqueue threw                       *)
  finished       (* history: tasks that were run                             *)

workerVars == <<wpc, task>>
callVars == <<ppc, arg, called>>
vars == <<m_tasks, m_stop, m_task_mutex, wpc, task, ppc, arg, dpc,
          called, rejected, finished>>

Threads == Workers \cup Producers \cup {Destroyer}

(* The type of every variable. *)
TypeOK ==
  /\ m_tasks \in Seq(Tasks)
  /\ m_stop \in BOOLEAN
  /\ m_task_mutex \in Threads \cup {Nobody}
  /\ wpc \in [Workers -> {"lock", "test", "block", "asleep", "take", "run", "exited"}]
  /\ task \in [Workers -> Tasks \cup {NoTask}]
  /\ ppc \in [Producers -> {"idle", "lock", "push", "notify"}]
  /\ arg \in [Producers -> Tasks \cup {NoTask}]
  /\ dpc \in {"alive", "stop", "joining"}
  /\ called \in SUBSET Tasks
  /\ rejected \in SUBSET Tasks
  /\ finished \in SUBSET Tasks

Init ==
  /\ m_tasks = <<>>
  /\ m_stop = FALSE
  /\ m_task_mutex = Nobody
  /\ wpc = [w \in Workers |-> "lock"]
  /\ task = [w \in Workers |-> NoTask]
  /\ ppc = [p \in Producers |-> "idle"]
  /\ arg = [p \in Producers |-> NoTask]
  /\ dpc = "alive"
  /\ called = {}
  /\ rejected = {}
  /\ finished = {}

(***************************************************************************)
(* The mutex and the condition variable.                                   *)
(***************************************************************************)
Lock(t) == m_task_mutex = Nobody /\ m_task_mutex' = t

Unlock(t) == m_task_mutex = t /\ m_task_mutex' = Nobody

Asleep == {w \in Workers : wpc[w] = "asleep"}

(* A woken thread has to acquire the mutex again before wait goes on. *)
Wake(w) == wpc' = [wpc EXCEPT ![w] = "lock"]

(***************************************************************************)
(* A worker's loop.                                                        *)
(***************************************************************************)
CanTake == ~m_stop /\ m_tasks # <<>>

(* Enter the critical section, first or again after a wake-up. *)
WorkerLock(w) ==
  /\ wpc[w] = "lock"
  /\ Lock(w)
  /\ wpc' = [wpc EXCEPT ![w] = "test"]
  /\ UNCHANGED <<m_tasks, m_stop, task, callVars, dpc, rejected, finished>>

(* wait evaluates its predicate. *)
WorkerTest(w) ==
  /\ wpc[w] = "test"
  /\ wpc' = [wpc EXCEPT ![w] = IF CanTake THEN "take" ELSE "block"]
  /\ UNCHANGED <<m_tasks, m_stop, m_task_mutex, task, callVars, dpc, rejected, finished>>

(* wait releases the mutex and sleeps, in one step. *)
WorkerBlock(w) ==
  /\ wpc[w] = "block"
  /\ Unlock(w)
  /\ wpc' = [wpc EXCEPT ![w] = "asleep"]
  /\ UNCHANGED <<m_tasks, m_stop, task, callVars, dpc, rejected, finished>>

(* wait may return without a notification. *)
SpuriousWake(w) ==
  /\ wpc[w] = "asleep"
  /\ Wake(w)
  /\ UNCHANGED <<m_tasks, m_stop, m_task_mutex, task, callVars, dpc, rejected, finished>>

(* The rest of the critical section: leave the loop if there is nothing to *)
(* take after all, else take the oldest task; either way unlock.           *)
WorkerTake(w) ==
  /\ wpc[w] = "take"
  /\ Unlock(w)
  /\ wpc' = [wpc EXCEPT ![w] = IF CanTake THEN "run" ELSE "exited"]
  /\ task' = [task EXCEPT ![w] = IF CanTake THEN Head(m_tasks) ELSE NoTask]
  /\ m_tasks' = IF CanTake THEN Tail(m_tasks) ELSE m_tasks
  /\ UNCHANGED <<m_stop, callVars, dpc, rejected, finished>>

(* task() returns; the next iteration starts with an empty task. *)
WorkerRun(w) ==
  /\ wpc[w] = "run"
  /\ finished' = finished \cup {task[w]}
  /\ task' = [task EXCEPT ![w] = NoTask]
  /\ wpc' = [wpc EXCEPT ![w] = "lock"]
  /\ UNCHANGED <<m_tasks, m_stop, m_task_mutex, callVars, dpc, rejected>>

(***************************************************************************)
(* enqueue.                                                                *)
(***************************************************************************)
EnqueueCall(p, t) ==
  /\ ppc[p] = "idle"
  /\ t \notin called
  /\ called' = called \cup {t}
  /\ arg' = [arg EXCEPT ![p] = t]
  /\ ppc' = [ppc EXCEPT ![p] = "lock"]
  /\ UNCHANGED <<m_tasks, m_stop, m_task_mutex, workerVars, dpc, rejected, finished>>

EnqueueLock(p) ==
  /\ ppc[p] = "lock"
  /\ Lock(p)
  /\ ppc' = [ppc EXCEPT ![p] = "push"]
  /\ UNCHANGED <<m_tasks, m_stop, workerVars, arg, called, dpc, rejected, finished>>

(* Seeded fault: what another definition would be if the code had a        *)
(* plausible bug.  Nothing uses it; the run must notice when it takes the  *)
(* place of the definition its name ends with.  Here the stopped pool is   *)
(* not tested.                                                             *)
Unchecked_Refused == FALSE

Refused == m_stop

(* Seeded fault: the task has been moved out of the argument. *)
Moved_WithTask(p) == Append(m_tasks, NoTask)

WithTask(p) == Append(m_tasks, arg[p])

(* A stopped pool throws; the scope unlocks on both ways out. *)
EnqueuePush(p) ==
  /\ ppc[p] = "push"
  /\ Unlock(p)
  /\ arg' = [arg EXCEPT ![p] = NoTask]
  /\ IF Refused
       THEN /\ rejected' = rejected \cup {arg[p]}
            /\ ppc' = [ppc EXCEPT ![p] = "idle"]
            /\ UNCHANGED m_tasks
       ELSE /\ m_tasks' = WithTask(p)
            /\ ppc' = [ppc EXCEPT ![p] = "notify"]
            /\ UNCHANGED rejected
  /\ UNCHANGED <<m_stop, workerVars, called, dpc, finished>>

(* Seeded fault: only the first task of a burst is announced. *)
OnlyFirst_NotifyOne ==
  IF Asleep = {} \/ Len(m_tasks) > 1 THEN UNCHANGED wpc ELSE \E w \in Asleep : Wake(w)

(* notify_one wakes one sleeper, if any. *)
NotifyOne == IF Asleep = {} THEN UNCHANGED wpc ELSE \E w \in Asleep : Wake(w)

(* The mutex has been released already. *)
EnqueueNotify(p) ==
  /\ ppc[p] = "notify"
  /\ ppc' = [ppc EXCEPT ![p] = "idle"]
  /\ NotifyOne
  /\ UNCHANGED <<m_tasks, m_stop, m_task_mutex, task, arg, called, dpc, rejected, finished>>

(***************************************************************************)
(* The destructor: it notifies nobody, and joins the workers one by one:   *)
(* it would return once all of them had left their loops.                  *)
(***************************************************************************)
(* Seeded fault: the flag is set without the mutex. *)
Unlocked_DtorLock ==
  /\ dpc = "alive" /\ dpc' = "joining"
  /\ m_stop' = TRUE
  /\ UNCHANGED <<m_tasks, m_task_mutex, workerVars, callVars, rejected, finished>>

DtorLock ==
  /\ dpc = "alive"
  /\ Lock(Destroyer)
  /\ dpc' = "stop"
  /\ UNCHANGED <<m_tasks, m_stop, workerVars, callVars, rejected, finished>>

DtorStop ==
  /\ dpc = "stop"
  /\ m_stop' = TRUE
  /\ Unlock(Destroyer)
  /\ dpc' = "joining"
  /\ UNCHANGED <<m_tasks, workerVars, callVars, rejected, finished>>

-----------------------------------------------------------------------------
WorkerStep(w) ==
  \/ WorkerLock(w) \/ WorkerTest(w) \/ WorkerBlock(w) \/ WorkerTake(w) \/ WorkerRun(w)

ProducerStep(p) == EnqueueLock(p) \/ EnqueuePush(p) \/ EnqueueNotify(p)

Next ==
  \/ \E w \in Workers : WorkerStep(w) \/ SpuriousWake(w)
  \/ \E p \in Producers : ProducerStep(p) \/ \E t \in Tasks : EnqueueCall(p, t)
  \/ DtorLock
  \/ DtorStop

Spec == Init /\ [][Next]_vars

(***************************************************************************)
(* Every thread that can go on does, and tasks return.  Nobody has to call *)
(* enqueue or to destroy the pool, and no wake-up is owed that no notify   *)
(* asked for.                                                              *)
(***************************************************************************)
Fairness ==
  /\ \A w \in Workers : WF_vars(WorkerStep(w))
  /\ \A p \in Producers : WF_vars(ProducerStep(p))
  /\ WF_vars(DtorStop)

FairSpec == Spec /\ Fairness

-----------------------------------------------------------------------------
(***************************************************************************)
(* Safety.                                                                 *)
(***************************************************************************)
Coming == {w \in Workers : wpc[w] \in {"lock", "test", "take"}}
Notifying == {p \in Producers : ppc[p] = "notify"}

(* No lost wake-up: while a worker sleeps and the pool runs, each waiting  *)
(* task has somebody on the way to it, a worker that will test the queue   *)
(* again or a producer that has yet to notify.  wait's test-and-sleep      *)
(* (threadpool.cpp:16-19) against a notify_one outside the lock            *)
(* (threadpool.h:32-39).                                                  *)
NoLostWakeup ==
  ~m_stop /\ Asleep # {} =>
    Len(m_tasks) <= Cardinality(Coming) + Cardinality(Notifying)

Queued == {m_tasks[i] : i \in DOMAIN m_tasks}

(* What wait's predicate found still holds when the task is taken, so the  *)
(* second test (threadpool.cpp:21-23) is never true.                       *)
RecheckNeverFails == \A w \in Workers : wpc[w] = "take" => CanTake

(***************************************************************************)
(* What the callers rely on.                                               *)
(***************************************************************************)
TQ == INSTANCE TaskQueue WITH queue <- m_tasks, running <- task, stopped <- m_stop

(* The pool is a FIFO queue of tasks served by its workers until it is     *)
(* stopped, and it starts a queued task when a worker is free.             *)
IsTaskQueue == TQ!FairSpec

(* A task that was accepted runs to completion, unless the pool is stopped *)
(* first.                                                                  *)
EveryTaskRuns ==
  \A t \in Tasks : t \in Queued ~> t \in finished \/ m_stop

-----------------------------------------------------------------------------
(***************************************************************************)
(* What the repository says of the pool, and the code does not do.         *)
(***************************************************************************)
(* A worker ends when the pool is stopped: the flow chart of the workers   *)
(* has an edge from the test to the end (src/threadpool/README.md:22), and *)
(* the destructor joins them.                                              *)
StoppedWorkersEnd == \A w \in Workers : m_stop ~> wpc[w] = "exited"
=============================================================================
