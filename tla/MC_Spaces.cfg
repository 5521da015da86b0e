SPECIFICATION Spec
CONSTANTS
  Space = {s1, s2}
  NoSpace = NoSpace
  Tenant = {t0, t1}
  DefaultTenant = t0
  Provider = {aws}
  DefaultProvider = aws
  Thread = {x1, x2}
  Lifetimes = {"running"}
  Made = {s1}
  Cap = 1
  MaxSpaces = 1
  MaxRequests = 2
INVARIANTS
  TypeOK
  EngineFollows
PROPERTIES
  LapsedSpacesStop
  ContentsSurvive
CHECK_DEADLOCK FALSE
