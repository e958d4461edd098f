SPECIFICATION FairSpec
CONSTANTS
  Broker = {b1, b2}
  NoBroker = NoBroker
  Untracked = Untracked
  Commands = {"gui"}
  Faults = {"helper", "storage", "crash"}
  LockOn = {"broker_shutdown"}
  ReauthOn = {}
  UnmountOnExit = TRUE
  ReauthAfterExit = FALSE
  CloseOnIdle = TRUE
  HardLifetime = TRUE
  Pages = {"publish_backup"}
PROPERTY ExposureEnds
PROPERTY AgedSecretDies
CHECK_DEADLOCK FALSE
