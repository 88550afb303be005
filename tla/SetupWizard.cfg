SPECIFICATION FairSpec
CONSTANTS
  Wizards = {w1, w2}
  Domains = {"a"}
  Locales <- MCLocales
  MaxRows = 2
  MaxTries = 2
  MaxActs = 3
  MaxFaults = 1
INVARIANTS
  TypeOK
  ShownTokenWorks
  TextsFound
CHECK_DEADLOCK FALSE
PROPERTIES
  NothingPending
