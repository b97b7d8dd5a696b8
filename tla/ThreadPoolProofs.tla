------------------------- MODULE ThreadPoolProofs --------------------------
(***************************************************************************)
(* What ThreadPool guarantees for any number of workers, producers and     *)
(* tasks.                                                                  *)
(***************************************************************************)
EXTENDS ThreadPool, FiniteSetTheorems, TLAPS

(* A thread owns the mutex exactly while it is in a critical section. *)
LockDiscipline ==
  /\ \A w \in Workers : wpc[w] \in {"test", "block", "take"} <=> m_task_mutex = w
  /\ \A p \in Producers : ppc[p] = "push" <=> m_task_mutex = p
  /\ dpc = "stop" <=> m_task_mutex = Destroyer

(* Who holds a task is decided by where it is in its loop or call. *)
HandsFollowControl ==
  /\ \A w \in Workers : task[w] # NoTask <=> wpc[w] = "run"
  /\ \A p \in Producers : arg[p] # NoTask <=> ppc[p] \in {"lock", "push"}

(* The outcome of wait's predicate holds as long as the mutex is held. *)
TestOutcomeHolds ==
  \A w \in Workers : wpc[w] = "block" => ~CanTake

(* The destructor alone sets the flag, and does it once. *)
StopFollowsDtor == m_stop <=> dpc = "joining"

IInv ==
  /\ TypeOK
  /\ StopFollowsDtor
  /\ LockDiscipline
  /\ HandsFollowControl
  /\ TestOutcomeHolds
  /\ RecheckNeverFails

-----------------------------------------------------------------------------
LEMMA InitIInv == Init => IInv
<1> SUFFICES ASSUME Init PROVE IInv
  OBVIOUS
<1> USE ThreadPoolAssumption DEF Init
<1>1. TypeOK
  <2>1. m_tasks \in Seq(Tasks)
    OBVIOUS
  <2>2. m_task_mutex \in Threads \cup {Nobody}
    OBVIOUS
  <2> QED
    BY <2>1, <2>2 DEF TypeOK
<1>2. LockDiscipline
  BY DEF LockDiscipline
<1>3. HandsFollowControl /\ TestOutcomeHolds /\ RecheckNeverFails /\ StopFollowsDtor
  BY DEF StopFollowsDtor, HandsFollowControl, TestOutcomeHolds, RecheckNeverFails
<1> QED
  BY <1>1, <1>2, <1>3 DEF IInv

LEMMA StepIInv == IInv /\ [Next]_vars => IInv'
<1> SUFFICES ASSUME IInv, [Next]_vars PROVE IInv'
  OBVIOUS
<1> USE ThreadPoolAssumption
        DEF IInv, TypeOK, LockDiscipline, HandsFollowControl, TestOutcomeHolds,
            RecheckNeverFails, StopFollowsDtor, CanTake, Threads, Lock, Unlock, workerVars, callVars
<1>1. ASSUME NEW w \in Workers, WorkerLock(w) PROVE IInv'
  BY <1>1 DEF WorkerLock
<1>2. ASSUME NEW w \in Workers, WorkerTest(w) PROVE IInv'
  BY <1>2 DEF WorkerTest
<1>3. ASSUME NEW w \in Workers, WorkerBlock(w) PROVE IInv'
  BY <1>3 DEF WorkerBlock
<1>4. ASSUME NEW w \in Workers, WorkerTake(w) PROVE IInv'
  <2>1. m_tasks # <<>> /\ ~m_stop
    BY <1>4 DEF WorkerTake
  <2>2. Head(m_tasks) \in Tasks /\ Tail(m_tasks) \in Seq(Tasks)
    BY <2>1
  <2> QED
    BY <1>4, <2>1, <2>2 DEF WorkerTake
<1>5. ASSUME NEW w \in Workers, WorkerRun(w) PROVE IInv'
  BY <1>5 DEF WorkerRun
<1>6. ASSUME NEW w \in Workers, SpuriousWake(w) PROVE IInv'
  BY <1>6 DEF SpuriousWake, Wake
<1>7. ASSUME NEW p \in Producers, NEW t \in Tasks, EnqueueCall(p, t) PROVE IInv'
  BY <1>7 DEF EnqueueCall
<1>8. ASSUME NEW p \in Producers, EnqueueLock(p) PROVE IInv'
  BY <1>8 DEF EnqueueLock
<1>9. ASSUME NEW p \in Producers, EnqueuePush(p) PROVE IInv'
  <2>1. arg[p] \in Tasks
    BY <1>9 DEF EnqueuePush, Refused, WithTask
  <2>2. Append(m_tasks, arg[p]) \in Seq(Tasks)
    BY <2>1
  <2>3. CASE m_stop
    BY <1>9, <2>1, <2>3, SMTT(20) DEF EnqueuePush, Refused, WithTask
  <2>4. CASE ~m_stop
    BY <1>9, <2>1, <2>2, <2>4, SMTT(20) DEF EnqueuePush, Refused, WithTask
  <2> QED
    BY <2>3, <2>4
<1>10. ASSUME NEW p \in Producers, EnqueueNotify(p) PROVE IInv'
  <2>1. CASE Asleep = {}
    BY <1>10, <2>1 DEF EnqueueNotify, NotifyOne
  <2>2. CASE Asleep # {}
    BY <1>10, <2>2 DEF EnqueueNotify, NotifyOne, Asleep, Wake
  <2> QED
    BY <2>1, <2>2
<1>11. ASSUME DtorLock PROVE IInv'
  BY <1>11 DEF DtorLock
<1>12. ASSUME DtorStop PROVE IInv'
  BY <1>12 DEF DtorStop
<1>13. CASE UNCHANGED vars
  BY <1>13 DEF vars
<1> QED
  BY <1>1, <1>2, <1>3, <1>4, <1>5, <1>6, <1>7, <1>8, <1>9, <1>10, <1>11, <1>12,
     <1>13
  DEF Next, WorkerStep, ProducerStep

(* In every pool, each variable keeps its type. *)
THEOREM TypeCorrect == Spec => []TypeOK
<1>1. IInv => TypeOK
  BY DEF IInv
<1> QED
  BY InitIInv, StepIInv, <1>1, PTL DEF Spec

(* In every pool, the second test of threadpool.cpp:21-23 never succeeds:  *)
(* what wait has found holds until the task is taken.                      *)
THEOREM WhatWaitFoundHolds == Spec => []RecheckNeverFails
<1>1. IInv => RecheckNeverFails
  BY DEF IInv
<1> QED
  BY InitIInv, StepIInv, <1>1, PTL DEF Spec

-----------------------------------------------------------------------------
LEMMA CountsAreNat ==
  ASSUME TypeOK
  PROVE  /\ IsFiniteSet(Coming) /\ Cardinality(Coming) \in Nat
         /\ IsFiniteSet(Notifying) /\ Cardinality(Notifying) \in Nat
         /\ Len(m_tasks) \in Nat
<1>1. Coming \subseteq Workers /\ Notifying \subseteq Producers
  BY DEF Coming, Notifying
<1>2. IsFiniteSet(Coming) /\ IsFiniteSet(Notifying)
  BY <1>1, FS_Subset, ThreadPoolAssumption
<1> QED
  BY <1>2, FS_CardinalityType DEF TypeOK

LEMMA InitNoLostWakeup == Init => NoLostWakeup
  BY DEF Init, NoLostWakeup, Asleep

(* A wake-up is given up only by a thread that saw an empty queue, and a   *)
(* task comes with a notification.                                         *)
LEMMA StepNoLostWakeup == IInv /\ IInv' /\ NoLostWakeup /\ [Next]_vars => NoLostWakeup'
<1> SUFFICES ASSUME IInv, IInv', NoLostWakeup, [Next]_vars PROVE NoLostWakeup'
  OBVIOUS
<1> USE DEF callVars, workerVars
<1>a. TypeOK /\ TypeOK' /\ TestOutcomeHolds /\ RecheckNeverFails
  BY DEF IInv
<1>b. /\ IsFiniteSet(Coming) /\ Cardinality(Coming) \in Nat
      /\ IsFiniteSet(Notifying) /\ Cardinality(Notifying) \in Nat
      /\ Len(m_tasks) \in Nat
  BY <1>a, CountsAreNat
(* Steps that change neither the queue nor who is counted. *)
<1>c. ASSUME UNCHANGED <<m_tasks, m_stop>>,
             Coming' = Coming, Notifying' = Notifying, Asleep' = Asleep
      PROVE  NoLostWakeup'
  BY <1>c DEF NoLostWakeup
(* Steps that leave nothing to take. *)
<1>d. ASSUME ~CanTake, UNCHANGED <<m_tasks, m_stop>> PROVE NoLostWakeup'
  <2>1. m_stop' \/ Len(m_tasks') = 0
    BY <1>d DEF CanTake
  <2>2. Coming' \subseteq Workers /\ Notifying' \subseteq Producers
    BY DEF Coming, Notifying
  <2>3. IsFiniteSet(Coming') /\ IsFiniteSet(Notifying')
    BY <2>2, FS_Subset, ThreadPoolAssumption
  <2>4. Cardinality(Coming') \in Nat /\ Cardinality(Notifying') \in Nat
    BY <2>3, FS_CardinalityType
  <2> QED
    BY <2>1, <2>4 DEF NoLostWakeup
(* Steps that send one more worker to the queue. *)
<1>e. ASSUME NEW w \in Workers, w \notin Coming, Coming' = Coming \cup {w},
             Notifying' = Notifying, Asleep' \subseteq Asleep,
             UNCHANGED <<m_tasks, m_stop>>
      PROVE  NoLostWakeup'
  <2>1. Cardinality(Coming') = Cardinality(Coming) + 1
    BY <1>b, <1>e, FS_AddElement
  <2> QED
    BY <1>b, <1>e, <2>1 DEF NoLostWakeup
<1>1. ASSUME NEW w \in Workers, WorkerLock(w) PROVE NoLostWakeup'
  <2>1. Coming' = Coming /\ Notifying' = Notifying /\ Asleep' = Asleep
    BY <1>1, <1>a DEF WorkerLock, Coming, Notifying, Asleep, TypeOK
  <2> QED
    BY <1>1, <1>c, <2>1 DEF WorkerLock
<1>2. ASSUME NEW w \in Workers, WorkerTest(w) PROVE NoLostWakeup'
  <2>1. CASE CanTake
    <3>1. Coming' = Coming /\ Notifying' = Notifying /\ Asleep' = Asleep
      BY <1>2, <1>a, <2>1 DEF WorkerTest, Coming, Notifying, Asleep, TypeOK
    <3> QED
      BY <1>2, <1>c, <3>1 DEF WorkerTest
  <2>2. CASE ~CanTake
    BY <1>2, <1>d, <2>2 DEF WorkerTest
  <2> QED
    BY <2>1, <2>2
<1>3. ASSUME NEW w \in Workers, WorkerBlock(w) PROVE NoLostWakeup'
  <2>1. ~CanTake
    BY <1>3, <1>a DEF WorkerBlock, TestOutcomeHolds
  <2> QED
    BY <1>3, <1>d, <2>1 DEF WorkerBlock
<1>4. ASSUME NEW w \in Workers, WorkerTake(w) PROVE NoLostWakeup'
  <2>1. CanTake
    BY <1>4, <1>a DEF WorkerTake, RecheckNeverFails
  <2>2. w \in Coming /\ Coming' = Coming \ {w} /\ Notifying' = Notifying
        /\ Asleep' = Asleep
    BY <1>4, <1>a, <2>1 DEF WorkerTake, Coming, Notifying, Asleep, TypeOK
  <2>3. Cardinality(Coming') = Cardinality(Coming) - 1
    BY <1>b, <2>2, FS_RemoveElement
  <2>4. m_tasks' = Tail(m_tasks) /\ m_tasks \in Seq(Tasks) /\ m_tasks # <<>>
        /\ m_stop' = m_stop
    BY <1>4, <1>a, <2>1 DEF WorkerTake, CanTake, TypeOK
  <2>5. Len(m_tasks') = Len(m_tasks) - 1
    BY <2>4
  <2> QED
    BY <1>b, <2>2, <2>3, <2>4, <2>5 DEF NoLostWakeup
<1>5. ASSUME NEW w \in Workers, WorkerRun(w) PROVE NoLostWakeup'
  <2>1. w \notin Coming /\ Coming' = Coming \cup {w} /\ Notifying' = Notifying
        /\ Asleep' = Asleep
    BY <1>5, <1>a DEF WorkerRun, Coming, Notifying, Asleep, TypeOK
  <2> QED
    BY <1>5, <1>e, <2>1 DEF WorkerRun
<1>6. ASSUME NEW w \in Workers, SpuriousWake(w) PROVE NoLostWakeup'
  <2>1. w \notin Coming /\ Coming' = Coming \cup {w} /\ Notifying' = Notifying
        /\ Asleep' \subseteq Asleep
    BY <1>6, <1>a DEF SpuriousWake, Wake, Coming, Notifying, Asleep, TypeOK
  <2> QED
    BY <1>6, <1>e, <2>1 DEF SpuriousWake
<1>7. ASSUME NEW p \in Producers, NEW t \in Tasks, EnqueueCall(p, t) PROVE NoLostWakeup'
  <2>1. Coming' = Coming /\ Notifying' = Notifying /\ Asleep' = Asleep
    BY <1>7, <1>a DEF EnqueueCall, Coming, Notifying, Asleep, TypeOK
  <2> QED
    BY <1>7, <1>c, <2>1 DEF EnqueueCall
<1>8. ASSUME NEW p \in Producers, EnqueueLock(p) PROVE NoLostWakeup'
  <2>1. Coming' = Coming /\ Notifying' = Notifying /\ Asleep' = Asleep
    BY <1>8, <1>a DEF EnqueueLock, Coming, Notifying, Asleep, TypeOK
  <2> QED
    BY <1>8, <1>c, <2>1 DEF EnqueueLock
<1>9. ASSUME NEW p \in Producers, EnqueuePush(p) PROVE NoLostWakeup'
  <2>1. CASE m_stop
    BY <1>9, <2>1 DEF EnqueuePush, Refused, WithTask, NoLostWakeup
  <2>2. CASE ~m_stop
    <3>1. p \notin Notifying /\ Notifying' = Notifying \cup {p} /\ Coming' = Coming
          /\ Asleep' = Asleep
      BY <1>9, <1>a, <2>2 DEF EnqueuePush, Refused, WithTask, Coming, Notifying, Asleep, TypeOK
    <3>2. Cardinality(Notifying') = Cardinality(Notifying) + 1
      BY <1>b, <3>1, FS_AddElement
    <3>3. m_tasks' = Append(m_tasks, arg[p]) /\ m_tasks \in Seq(Tasks)
          /\ m_stop' = m_stop
      BY <1>9, <1>a, <2>2 DEF EnqueuePush, Refused, WithTask, TypeOK
    <3>4. arg[p] \in Tasks
      BY <1>9 DEF EnqueuePush, Refused, WithTask, IInv, HandsFollowControl, TypeOK
    <3>5. Len(m_tasks') = Len(m_tasks) + 1
      BY <3>3, <3>4
    <3> QED
      BY <1>b, <3>1, <3>2, <3>3, <3>5 DEF NoLostWakeup
  <2> QED
    BY <2>1, <2>2
<1>10. ASSUME NEW p \in Producers, EnqueueNotify(p) PROVE NoLostWakeup'
  <2>1. CASE Asleep = {}
    <3>1. Asleep' = {}
      BY <1>10, <2>1 DEF EnqueueNotify, NotifyOne, Asleep
    <3> QED
      BY <3>1 DEF NoLostWakeup
  <2>2. CASE Asleep # {}
    <3>1. PICK w \in Asleep : wpc' = [wpc EXCEPT ![w] = "lock"]
      BY <1>10, <2>2 DEF EnqueueNotify, NotifyOne, Wake
    <3>2. w \notin Coming /\ Coming' = Coming \cup {w}
      BY <1>a, <3>1 DEF Coming, Asleep, TypeOK
    <3>3. p \in Notifying /\ Notifying' = Notifying \ {p}
      BY <1>10, <1>a DEF EnqueueNotify, NotifyOne, Notifying, TypeOK
    <3>4. Cardinality(Coming') = Cardinality(Coming) + 1
      BY <1>b, <3>2, FS_AddElement
    <3>5. Cardinality(Notifying') = Cardinality(Notifying) - 1
      BY <1>b, <3>3, FS_RemoveElement
    <3> QED
      BY <1>b, <1>10, <2>2, <3>4, <3>5 DEF NoLostWakeup, EnqueueNotify, NotifyOne
  <2> QED
    BY <2>1, <2>2
<1>11. ASSUME DtorLock PROVE NoLostWakeup'
  <2>1. Coming' = Coming /\ Notifying' = Notifying /\ Asleep' = Asleep
    BY <1>11 DEF DtorLock, Coming, Notifying, Asleep
  <2> QED
    BY <1>11, <1>c, <2>1 DEF DtorLock
<1>12. ASSUME DtorStop PROVE NoLostWakeup'
  BY <1>12 DEF DtorStop, NoLostWakeup
<1>13. CASE UNCHANGED vars
  BY <1>13, <1>c DEF vars, Coming, Notifying, Asleep
<1> QED
  BY <1>1, <1>2, <1>3, <1>4, <1>5, <1>6, <1>7, <1>8, <1>9, <1>10, <1>11, <1>12, <1>13
  DEF Next, WorkerStep, ProducerStep

(* In every pool, no wake-up is lost: a task waits while a worker sleeps   *)
(* only if somebody is on the way to it (threadpool.cpp:16-19,             *)
(* threadpool.h:32-39).                                                   *)
THEOREM WakeupsSuffice == Spec => []NoLostWakeup
<1>1. Init => IInv /\ NoLostWakeup
  BY InitIInv, InitNoLostWakeup
<1>2. (IInv /\ NoLostWakeup) /\ [Next]_vars => (IInv /\ NoLostWakeup)'
  BY StepIInv, StepNoLostWakeup
<1> QED
  BY <1>1, <1>2, PTL DEF Spec

-----------------------------------------------------------------------------
LEMMA InitIsTaskQueueInit == Init => TQ!Init
  BY DEF Init, TQ!Init

LEMMA StepIsTaskQueueStep == IInv /\ [Next]_vars => [TQ!Next]_(TQ!vars)
<1> SUFFICES ASSUME IInv, [Next]_vars PROVE [TQ!Next]_(TQ!vars)
  OBVIOUS
<1> USE DEF callVars, workerVars, TQ!vars
<1>1. ASSUME NEW w \in Workers, WorkerTake(w) PROVE TQ!Start(w)
  <2>1. CanTake /\ task[w] = NoTask
    BY <1>1 DEF WorkerTake, IInv, RecheckNeverFails, HandsFollowControl
  <2> QED
    BY <1>1, <2>1 DEF WorkerTake, TQ!Start, CanTake
<1>2. ASSUME NEW w \in Workers, WorkerRun(w) PROVE TQ!Finish(w)
  BY <1>2 DEF WorkerRun, TQ!Finish, IInv, HandsFollowControl
<1>3. ASSUME NEW w \in Workers,
             WorkerLock(w) \/ WorkerTest(w) \/ WorkerBlock(w) \/ SpuriousWake(w)
      PROVE  UNCHANGED TQ!vars
  BY <1>3 DEF WorkerLock, WorkerTest, WorkerBlock, SpuriousWake
<1>4. ASSUME NEW p \in Producers, EnqueuePush(p) PROVE [TQ!Next]_(TQ!vars)
  <2>1. CASE m_stop
    BY <1>4, <2>1 DEF EnqueuePush, Refused, WithTask
  <2>2. CASE ~m_stop
    <3>1. arg[p] \in Tasks
      BY <1>4 DEF EnqueuePush, Refused, WithTask, IInv, HandsFollowControl, TypeOK
    <3>2. TQ!Submit(arg[p])
      BY <1>4, <2>2 DEF EnqueuePush, Refused, WithTask, TQ!Submit
    <3> QED
      BY <3>1, <3>2 DEF TQ!Next
  <2> QED
    BY <2>1, <2>2
<1>5. ASSUME NEW p \in Producers, EnqueueLock(p) \/ EnqueueNotify(p) PROVE UNCHANGED TQ!vars
  BY <1>5 DEF EnqueueLock, EnqueueNotify, NotifyOne
<1>6. ASSUME NEW p \in Producers, NEW t \in Tasks, EnqueueCall(p, t) PROVE UNCHANGED TQ!vars
  BY <1>6 DEF EnqueueCall
<1>7. ASSUME DtorStop PROVE TQ!Stop
  <2>1. ~m_stop
    BY <1>7 DEF DtorStop, IInv, StopFollowsDtor
  <2> QED
    BY <1>7, <2>1 DEF DtorStop, TQ!Stop
<1>8. ASSUME DtorLock PROVE UNCHANGED TQ!vars
  BY <1>8 DEF DtorLock
<1>9. CASE UNCHANGED vars
  BY <1>9 DEF vars
<1> QED
  BY <1>1, <1>2, <1>3, <1>4, <1>5, <1>6, <1>7, <1>8, <1>9
  DEF Next, WorkerStep, ProducerStep, TQ!Next

(* In every pool, the mutex, the condition variable and the loop of        *)
(* threadpool.cpp:12-29 implement the FIFO queue of TaskQueue: tasks start *)
(* in the order in which enqueue accepted them, each once, and neither     *)
(* enters nor leaves the queue once the pool is stopped.                   *)
THEOREM ImplementsTaskQueue == Spec => TQ!Spec
  BY InitIInv, StepIInv, InitIsTaskQueueInit, StepIsTaskQueueStep, PTL DEF Spec, TQ!Spec
=============================================================================
