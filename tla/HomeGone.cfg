SPECIFICATION FairSpec
CONSTANTS
  MaxCalls = 2
  Boxes = {b1, b2}
  Mails = {m1}
  Hits = {}
  NoBox = NoBox
  NoMail = NoMail
  MaxChanges = 1
  MaxFaults = 0
  MaxActs = 1
  Sessions = {NoBox, b1}
PROPERTIES
  GoneIsReplaced
CHECK_DEADLOCK FALSE
