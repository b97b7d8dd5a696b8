----------------------------- MODULE TaskQueue -----------------------------
(***************************************************************************)
(* What the thread pool promises its callers, with no mutex, no condition  *)
(* variable and no sleeping thread: a FIFO queue of accepted tasks, at     *)
(* most one task in the hands of each worker, and a stop flag after which  *)
(* nothing is accepted and nothing is started.  ThreadPool implements it;  *)
(* Reactor uses it in place of the pool.                                   *)
(***************************************************************************)
EXTENDS Naturals, Sequences

CONSTANTS
  Workers,  (* the pool's threads                                          *)
  Tasks,    (* what can be enqueued                                        *)
  NoTask    (* not a task: what an idle worker runs                        *)

VARIABLES
  queue,    (* accepted tasks that no worker has started, oldest first     *)
  running,  (* the task each worker runs                                   *)
  finished, (* tasks that ran to completion                                *)
  stopped   (* the destructor has set the stop flag                        *)

vars == <<queue, running, finished, stopped>>

TypeOK ==
  /\ queue \in Seq(Tasks)
  /\ running \in [Workers -> Tasks \cup {NoTask}]
  /\ finished \in SUBSET Tasks
  /\ stopped \in BOOLEAN

Init ==
  /\ queue = <<>>
  /\ running = [w \in Workers |-> NoTask]
  /\ finished = {}
  /\ stopped = FALSE

Submit(t) ==
  /\ ~stopped
  /\ queue' = Append(queue, t)
  /\ UNCHANGED <<running, finished, stopped>>

Start(w) ==
  /\ ~stopped
  /\ queue # <<>>
  /\ running[w] = NoTask
  /\ running' = [running EXCEPT ![w] = Head(queue)]
  /\ queue' = Tail(queue)
  /\ UNCHANGED <<finished, stopped>>

Finish(w) ==
  /\ running[w] # NoTask
  /\ finished' = finished \cup {running[w]}
  /\ running' = [running EXCEPT ![w] = NoTask]
  /\ UNCHANGED <<queue, stopped>>

Stop ==
  /\ ~stopped
  /\ stopped' = TRUE
  /\ UNCHANGED <<queue, running, finished>>

Next ==
  \/ \E t \in Tasks : Submit(t)
  \/ \E w \in Workers : Start(w) \/ Finish(w)
  \/ Stop

Spec == Init /\ [][Next]_vars

(***************************************************************************)
(* A task waits only while every worker is busy, and no task runs forever. *)
(***************************************************************************)
Fairness ==
  /\ WF_vars(\E w \in Workers : Start(w))
  /\ \A w \in Workers : WF_vars(Finish(w))

FairSpec == Spec /\ Fairness
=============================================================================
