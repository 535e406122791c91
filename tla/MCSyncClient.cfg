SPECIFICATION Spec
CONSTANTS
  Tabs = {t1, t2}
  Pulls = {p}
  Conversations = {a, b, g}
  Group = g
  Ahead = 3
  PageSize = 2
  HighWater = 2
  LowWater = 2
  MinPerConversation = 1
  MaxSeq = 3
  MaxFaults = 1
  MaxClears = 1
SYMMETRY Symmetry
CONSTRAINT OneTrouble
INVARIANTS
  TypeOK
  GapsAreTorn
  AckedIsDurable
  
  ManifestIsTrue
PROPERTIES
  FinishedRunIsComplete
  CursorsNeverBack
