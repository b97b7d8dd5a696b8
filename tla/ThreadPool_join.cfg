\* A worker and nobody who calls enqueue: the pool is destroyed.
CONSTANTS
  Workers = {w1}
  Producers = {p1}
  Tasks = {t1}
  NoTask = NoTask
  Destroyer = Destroyer
  Nobody = Nobody
SPECIFICATION FairSpec
PROPERTIES
  StoppedWorkersEnd
