SPECIFICATION Spec
CONSTANTS
  m1 = m1
  m1r = m1r
  m1x = m1x
  m2 = m2
  g = g
  d = d
  w1 = w1
  w2 = w2
  None = None
  Users <- MCUsers
  Conversations = {g, d}
  Groups = {g}
  Uuids = {m1, m1r, m1x, m2}
  ConvOf <- MCConvOf
  KeyOf <- MCKeyOf
  RecipientsOf <- MCRecipientsOf
  Workers = {w1, w2}
  AtomicWriters = {w1}
  Projectors = {w2}
  PageSize = 2
  MaxSync = 5
INVARIANTS
  TypeOK
  NoSkippedRow
  ExactlyOnceStore
  ConversationHeads
  Hydratable
  NoWaitCycle
PROPERTY
  TimelineSpec
