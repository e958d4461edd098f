SPECIFICATION Spec
CONSTANTS
  Notes = {n1, n2}
  Archives = {a1, a2}
  NoName = NoName
  MaxEdits = 3
  MaxDrills = 1
  Faults = {"crash", "reboot", "storage"}
  SameWindow = FALSE
SYMMETRY NameSymmetry
INVARIANT ArchiveIsNamed
INVARIANT NothingHidden
INVARIANT CopyGoesIntoTheVault
INVARIANT ReadableNotesAreSaid
PROPERTY CompleteCopy
CHECK_DEADLOCK FALSE
