\* Two requests add a domain at once.
CONSTANTS
  Admins = {a1, a2}
  NoOne = NoOne
  Domains = {d1, d2, d3}
  FirstDomains = {d1}
  Operations = {"add"}
  MaxDomains = 3
  MaxRequests = 2
  Faults = {}
  MaxFaults = 0
  MaxCrashes = 0
SPECIFICATION Spec
SYMMETRY Symmetry
INVARIANTS ConfirmedEditsStay
