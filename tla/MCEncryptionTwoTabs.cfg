CHECK_DEADLOCK FALSE
SPECIFICATION Spec
SYMMETRY Symmetry
CONSTANTS
  Tabs = {t1, t2}
  Passes = {p1, p2}
  NStores = 1
  NRecords = 2
  BatchSize = 1
  None = None
  Plain = Plain
  LiveLeaseExpiry = FALSE
  Mistypes = TRUE
  MaxOps = 1
  MaxSalts = 1
  MaxReloads = 1
  MaxFaults = 1
INVARIANTS
  TypeOK
  WriterFence
  BehindCursorConverted
  ConvertedAtCommit
  OneRunner
PROPERTIES
  CheckpointsMonotone
  SentinelKeptWhileNeeded
