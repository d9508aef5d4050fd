SPECIFICATION FairSpec
CONSTANTS
  t1 = t1
  t2 = t2
  t3 = t3
  p1 = p1
  p2 = p2
  y1 = y1
  None = None
  Tasks = {t2, t3}
  Types = {y1}
  Pools = {p1}
  Workers = {1, 2}
  TypeOf <- OneType
  Priority <- LowLast
  Serves <- ServesAll
  MaxWorkers <- OneWorker
  MinWorkers <- NoMinimum
  MaxRetries = 1
  MaxSize = 1
  CriticalReserve = 1
  MaxPreemptions = 1
  Threshold = 1
  MaxFaults = 1
  MaxErrors = 1
INVARIANTS
  TypeOK
  OnePlace
  BusyMeansOwned
  NothingRunnableWaits
PROPERTIES
  EveryTaskSettles
CHECK_DEADLOCK FALSE
