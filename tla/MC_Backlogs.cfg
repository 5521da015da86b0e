SPECIFICATION Spec
CONSTANTS
  Copy <- MCCopy
  MaxLeases = 3
  MaxBatch = 2
  Queue = {q1, q2}
  NoQueue = NoQueue
  MaxVisibility = 2
  MaxLife = 2
  BusTopic = {t1}
  BusSub = {s1, s2}
  MaxRestarts = 2
  Topic = {t1, t2}
  DeletedTopic = DeletedTopic
  Sub = {s1, s2}
INVARIANTS
  TypeOK
  PubSubConsistent
PROPERTIES
  HiddenComesBack
  ImplementsBacklog
