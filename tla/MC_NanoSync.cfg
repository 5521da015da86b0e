SPECIFICATION Spec
CONSTANTS
  Tab = {tab}
  Relay = {relay}
  Key = {k1, k2}
  NoSnap = NoSnap
  MaxOps = 3
  MaxOverlap = 2
  MaxReloads = 1
  Apart <- Overlaps
SYMMETRY Symmetry
INVARIANTS
  TypeOK
  FreshCopiesAgree
  TabAnswersAreShared
  
PROPERTIES
  FreshSavesAreExact
\* A browser nobody uses any more stops for good.
CHECK_DEADLOCK FALSE
