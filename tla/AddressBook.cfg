\* Two handlers race for two names across two lifetimes.  The clock goes far
\* enough for an address to expire, its name to be taken again, and that one to
\* expire while the first handler still works.
CONSTANTS
  Names = {n1, n2}
  Requests = {r1, r2}
  NoName = NoName
  Lifetime = 1
  MaxClock = 4
  MaxAddresses = 3
  MaxPermanent = 1
SPECIFICATION FairSpec
INVARIANTS TypeOK CapOvershoot
PROPERTIES LiveNotEvicted RegistrySpec ExpiredGoes
