SPECIFICATION Spec
CONSTANTS
  Thread = {x1, x2}
  MaxRequests = 2
  MaxEvents = 0
PROPERTY
  CreateThenReboot
CHECK_DEADLOCK FALSE
