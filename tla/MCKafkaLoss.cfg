SPECIFICATION Spec
CONSTANTS
  Events = {e1, e2}
  Malformed = {}
  NHandlers = 1
  MaxAttempts = 2
  StartAtEnd = FALSE
  MaxFaults = 1
INVARIANT
  NoSilentLoss
CHECK_DEADLOCK FALSE
