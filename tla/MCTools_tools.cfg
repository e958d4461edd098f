SPECIFICATION AllSpec
CONSTANTS
  Keep = 2
  MaxBytes = 1
  MaxUnits = 3
  MaxChanges = 1
  MaxFaults = 1
  MaxStarts = 2
  Call = {"c1", "c2"}
  MaxLeaseCommands = 3
  MaxForeign = 1
  Console = {"p", "q"}
  MaxGroups = 2
  MaxHooks = 1
  MaxTouches = 1
  MaxTurns = 2
  File = {"f", "g"}
  Slots = 2
  MaxEditTimes = 3
  MaxLocks = 1
  MaxRestarts = 1
  Photo = {"i"}
  Note = {"t"}
  MaxHashes = 1
  MaxCopies = 2
  MaxSafe = 1
  MaxTrouble = 1
  MaxSaves = 1
  MaxRuns = 1
  Url = {"a"}
  Budget = 2
  MaxTexts = 2
  MaxLength = 3
  MaxMessages = 2
  MaxDials = 3
  MaxCommands = 2
INVARIANT NoSilentGap
INVARIANT AccessIsLeased
INVARIANT TheirsStay
INVARIANT MirrorCatchesUp
INVARIANT OwnIsNotSaved
INVARIANT OneStream
CHECK_DEADLOCK FALSE
