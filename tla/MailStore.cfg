\* Two sessions deliver to one name that changes hands, with every job that
\* deletes mail, messages within and beyond the storage cap, and one failure.
\* Mail outlives the retention period before a temporary address expires.
CONSTANTS
  Names = {n1}
  Sessions = {s1, s2}
  Lifetime = 2
  MaxClock = 3
  MaxAddresses = 2
  MaxAttempts = 2
  MaxRecipients = 1
  MaxEmails = 1
  MaxStorage = 2
  Retention = 1
  Sizes = {1, 3}
  MaxFaults = 1
SPECIFICATION FairSpec
INVARIANTS TypeOK Integrity
PROPERTIES MailLossExplained QuotaRestored StorageRestored RetentionHonoured
