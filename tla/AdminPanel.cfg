SPECIFICATION FairSpec
CONSTANTS
  Tokens = {t1, t2}
  NoToken = NoToken
  Domains = {d1, d2}
  MaxPages = 2
  MaxPolls = 1
  MaxCalls = 2
  MaxFaults = 1
  MaxEdits = 1
  MaxActs = 2
  Configs <- MCConfigs
INVARIANTS
  TypeOK
  OnlyVerifiedKept
  ListMatchesQuery
  ShownKeyWorks
CHECK_DEADLOCK FALSE
PROPERTIES
  UntouchedFields
  Settles
