SPECIFICATION FairSpec
CONSTANTS
  Events = {1, 2, 3}
  Poison = {1}
  Relays = {r1, r2}
  Batch = 2
  MaxFaults = 3
INVARIANTS
  TypeOK
  PublishedWasWritten
  DuplicatesArePaidFor
PROPERTIES
  PublishedIsFinalUnlessReclaimed
  Drained
