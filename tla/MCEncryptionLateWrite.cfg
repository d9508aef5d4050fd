CHECK_DEADLOCK FALSE
SPECIFICATION Spec
CONSTANTS
  Tabs = {t1}
  Passes = {p1, p2}
  NStores = 1
  NRecords = 1
  BatchSize = 1
  None = None
  Plain = Plain
  LiveLeaseExpiry = FALSE
  Mistypes = FALSE
  MaxOps = 1
  MaxSalts = 1
  MaxReloads = 1
  MaxFaults = 0
INVARIANTS
  RecordsReadable
