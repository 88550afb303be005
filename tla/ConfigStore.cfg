\* Two requests at once or one after the other, with a directory that can be written or
\* one that cannot, two writes refused by a full disk, and a restart at any point.
CONSTANTS
  Admins = {a1, a2}
  NoOne = NoOne
  Domains = {d1, d2}
  FirstDomains = {d1}
  Operations = {"add", "remove", "put"}
  MaxDomains = 2
  MaxRequests = 2
  Faults = {"copy", "fill"}
  MaxFaults = 2
  MaxCrashes = 1
SPECIFICATION FairSpec
INVARIANTS Recoverable DomainsNeverEmpty NoHalfRead NoLostUpdate SavedInForce
PROPERTIES RequestsEnd
