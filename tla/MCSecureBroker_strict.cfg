SPECIFICATION Spec
CONSTANTS
  Broker = {b1, b2}
  NoBroker = NoBroker
  Untracked = Untracked
  Commands = {"gui", "open"}
  Faults = {"app_hang", "helper", "storage", "crash", "reboot", "provider", "identity", "state_corrupt"}
  LockOn = {"suspend", "logoff", "broker_shutdown"}
  ReauthOn = {"suspend"}
  UnmountOnExit = TRUE
  ReauthAfterExit = TRUE
  CloseOnIdle = TRUE
  HardLifetime = TRUE
  Pages = {"publish_backup", "prove"}
SYMMETRY BrokerSymmetry
INVARIANT RestIsUnreadable
PROPERTY UncleanEndIsNoticed
CHECK_DEADLOCK FALSE
