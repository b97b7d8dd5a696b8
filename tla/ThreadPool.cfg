\* Three workers, two producers and three tasks, any wake-up spurious: two
\* bursts of tasks, and workers that come back for a second one.
CONSTANTS
  Workers = {w1, w2, w3}
  Producers = {p1, p2}
  Tasks = {t1, t2, t3}
  NoTask = NoTask
  Destroyer = Destroyer
  Nobody = Nobody
SPECIFICATION FairSpec
INVARIANTS
  TypeOK
  NoLostWakeup
  RecheckNeverFails
PROPERTIES
  IsTaskQueue
  EveryTaskRuns
