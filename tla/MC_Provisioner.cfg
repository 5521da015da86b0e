SPECIFICATION BPSpec
CONSTANTS
  Requests = {r1, r2}
  Pollers = {p1}
  Workers = {w1, w2}
  NoWorker = NoWorker
INVARIANTS
  BPTypeOK
  InFlightIsWorked
  NameIsFree
PROPERTIES
  InFlightEnds
