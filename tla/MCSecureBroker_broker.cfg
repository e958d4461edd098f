SPECIFICATION Spec
CONSTANTS
  Broker = {b1, b2}
  NoBroker = NoBroker
  Untracked = Untracked
  Commands = {"gui", "open", "lock", "status", "backup", "credential"}
  Faults = {"app_hang", "storage", "identity"}
  LockOn = {"suspend"}
  ReauthOn = {"suspend"}
  UnmountOnExit = FALSE
  ReauthAfterExit = FALSE
  CloseOnIdle = FALSE
  HardLifetime = FALSE
  Pages = {"authenticate_only", "publish_backup", "prove"}
SYMMETRY BrokerSymmetry
INVARIANT KeyBeforeMount
INVARIANT OneTouchPerAggressiveMount
INVARIANT OneVaultOwner
PROPERTY TrackedAppKeepsVault
CHECK_DEADLOCK FALSE
