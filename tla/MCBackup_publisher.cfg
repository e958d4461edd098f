SPECIFICATION PublisherSpec
CONSTANTS
  Publishers = {p1}
  MaxVersion = 1
  MaxGen = 1
  MaxDamage = 0
  Threads = {t1, t2}
  Keys = {k1}
  NoKey = NoKey
  NoRequest = NoRequest
  NoThread = NoThread
INVARIANT KeyInUseIsLive
PROPERTY PublishingEnds
CHECK_DEADLOCK FALSE
