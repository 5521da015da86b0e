SPECIFICATION Spec
CONSTANTS
  Queue = {fifo, std}
  Fifo = {fifo}
  Group = {g1, g2}
  Dedup = {d1, d2}
  None = None
  MayOmit = FALSE
  MaxSent = 2
  MaxLeases = 3
  MaxReceive = 2
  MaxBatch = 2
  MaxWait = 1
SYMMETRY Symmetry
INVARIANTS
  TypeOK
  Conserved
  FifoKept
PROPERTIES
  NotOverdelivered
