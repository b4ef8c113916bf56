SPECIFICATION Spec
CONSTANTS
  r1 = r1
  a1 = a1
  PRs = {r1}
  Apps = {a1}
  Goroutines = {g1, g2}
  Loop = loop
  Cids = {1,2,3,4,5}
  Deps = {1,2,3}
  MaxCommit = 2
  IdleAge = 1
  TTLAge = 2
  MaxBuilds = 2
  MaxPreviews = 1
  MaxBusy = 2
  MaxEvents = 2
  Installed = TRUE
  Deployed = {}
  Faults = {}
  Commands = {}
INVARIANTS BuiltFromItsCommit
