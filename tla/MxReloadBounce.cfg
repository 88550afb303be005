\* The watcher is faster than a session that is already open.
CONSTANTS
  Sessions = {s1}
  Domains = {d1, d2}
  FirstDomains = {d1}
  Operations = {"add"}
  Nobody = Nobody
  Watcher = Watcher
  MaxEdits = 1
  MaxRestarts = 0
SPECIFICATION Spec
INVARIANTS LiveDomainNotBounced
