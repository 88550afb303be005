\* Two sessions and the watcher meet edits at any time, and a restart.
CONSTANTS
  Sessions = {s1, s2}
  Domains = {d1, d2, d3}
  FirstDomains = {d1}
  Operations = {"add", "remove"}
  Nobody = Nobody
  Watcher = Watcher
  MaxEdits = 3
  MaxRestarts = 1
SPECIFICATION FairSpec
INVARIANTS OnlySaved NewDomainHonoured
PROPERTIES ChangesReachMx
