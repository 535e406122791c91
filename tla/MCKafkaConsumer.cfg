SPECIFICATION FairSpec
CONSTANTS
  Events = {e1, e2, bad}
  Malformed = {bad}
  NHandlers = 2
  MaxAttempts = 2
  StartAtEnd = TRUE
  MaxFaults = 2
INVARIANTS
  TypeOK
  LossIsAccountedFor
  DeadOnlyAfterAllAttempts
PROPERTY
  EventuallySettled
CHECK_DEADLOCK FALSE
