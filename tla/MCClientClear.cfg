SPECIFICATION Spec
CONSTANTS
  Tabs = {t1, t2}
  Pulls = {}
  Conversations = {a}
  Group = a
  Ahead = 0
  PageSize = 1
  HighWater = 3
  LowWater = 3
  MinPerConversation = 1
  MaxSeq = 3
  MaxFaults = 0
  MaxClears = 1
INVARIANT NoLocalGap
