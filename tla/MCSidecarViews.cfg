SPECIFICATION Spec
CONSTANTS
  m1 = m1
  m2 = m2
  MessageId <- MCMessageId
  Triaged <- MCTriaged
  RecentLimit = 1
  Day = 0
  Week = 2
  MaxClock = 3
SYMMETRY MessagesAreAlike
INVARIANTS
  TypeOK
  CountersNested
  NoPhantomHits
  TagsExplained
