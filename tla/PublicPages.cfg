SPECIFICATION FairSpec
CONSTANTS
  MaxCalls = 2
  Boxes = {b1, b2}
  Mails = {m1}
  Hits = {}
  NoBox = NoBox
  NoMail = NoMail
  MaxChanges = 1
  MaxFaults = 1
  MaxActs = 3
  Sessions = {NoBox, b1}
INVARIANTS
  TypeOK
  StoredIsShown
  SpinnersEnd
CHECK_DEADLOCK FALSE
PROPERTIES
  ListsSettle
  ExpiredIsReplaced
