\* Messages with two recipients, whose names change hands.
CONSTANTS
  Names = {n1,n2}
  Sessions = {s1}
  Lifetime = 1
  MaxClock = 3
  MaxAddresses = 3
  MaxAttempts = 2
  MaxRecipients = 2
  MaxEmails = 1
  MaxStorage = 0
  Retention = 0
  Sizes = {1}
  MaxFaults = 0
SPECIFICATION Spec
SYMMETRY Symmetry
INVARIANTS InboxIsOwn AckedMeansStored OneCopyPerAttempt
