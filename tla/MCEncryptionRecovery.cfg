CHECK_DEADLOCK FALSE
SPECIFICATION FairSpec
CONSTANTS
  Tabs = {t1}
  Passes = {p1, p2}
  NStores = 2
  NRecords = 2
  BatchSize = 1
  None = None
  Plain = Plain
  LiveLeaseExpiry = FALSE
  Mistypes = FALSE
  MaxOps = 1
  MaxSalts = 2
  MaxReloads = 2
  MaxFaults = 1
INVARIANTS
  SessionFollowsSentinel
PROPERTIES
  MigrationFinishes
