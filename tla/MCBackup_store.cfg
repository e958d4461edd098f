SPECIFICATION StoreSpec
CONSTANTS
  Publishers = {p1, p2}
  MaxVersion = 2
  MaxGen = 2
  MaxDamage = 1
  Threads = {t1}
  Keys = {k1}
  NoKey = NoKey
  NoRequest = NoRequest
  NoThread = NoThread
SYMMETRY PublisherSymmetry
INVARIANT RecoveryHeals
PROPERTY ArchiveSpec
CHECK_DEADLOCK FALSE
