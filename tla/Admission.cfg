\* Four protected writers and two migrations, calling again and again:
\* writers queued before, between and behind two exclusive requests.
SPECIFICATION FairSpec
CONSTANTS
  Writers = {w1, w2, w3, w4}
  Migrations = {m1, m2}
INVARIANTS
  TypeOK
  LockExclusion
  NoLostWakeup
PROPERTIES
  EveryWaiterEnters
  Implements
