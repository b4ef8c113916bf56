SPECIFICATION FairSpec
CONSTANTS
  r1 = r1
  a1 = a1
  PRs = {r1}
  Apps = {a1}
  Goroutines = {g1, g2}
  Loop = loop
  Cids = {1,2,3,4}
  Deps = {1}
  MaxCommit = 1
  IdleAge = 1
  TTLAge = 2
  MaxBuilds = 1
  MaxPreviews = 1
  MaxBusy = 2
  MaxEvents = 2
  Installed = FALSE
  Deployed <- DeployedOne
  Faults = {"leftover","crash"}
  Commands = {"redeploy","wake"}
PROPERTIES HandlersEnd HostDrains
