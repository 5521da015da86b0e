SPECIFICATION Spec
CONSTANTS
  Digest = {d1, d2}
  NoState = NoState
  Unswept = Unswept
  MaxSnapshots = 2
  MaxHandlers = 2
  MaxKeys = 2
  Faults <- SurvivableFaults
INVARIANTS
  TypeOK
  NoDangling
  SavedWhenQuiet
  NoOrphans
PROPERTIES
  ActsAsDurableCell
