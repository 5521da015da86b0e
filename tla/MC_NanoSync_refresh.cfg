SPECIFICATION Spec
CONSTANTS
  Tab = {tab}
  Relay = {relay}
  Key = {k1, k2}
  NoSnap = NoSnap
  MaxOps = 3
  MaxOverlap = 0
  MaxReloads = 0
  Apart <- RefreshOverlaps
PROPERTY
  SavesNeverUndo
\* A browser nobody uses any more stops for good.
CHECK_DEADLOCK FALSE
