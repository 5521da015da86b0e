SPECIFICATION Spec
CONSTANTS
  Thread = {x1, x2}
  MaxRequests = 2
  MaxEvents = 1
INVARIANTS
  TypeOK
  
  CallsAgree
PROPERTIES
  RecordsSettle
CHECK_DEADLOCK FALSE
