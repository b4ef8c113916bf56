SPECIFICATION FairSpec
CONSTANTS
  app1 = app1
  app2 = app2
  Apps = {app1, app2}
  MaxDeaths = 2
  MaxDestroys = 1
  Faults = {"github", "disk", "page"}
  PRs = {1, 2}
  Outsiders = {2}
  Configs <- MCConfigs
  NoConfig = NoConfig
  Changes <- MCChanges
  Branch <- MCBranch
  Bodies <- MCBodies
  Associations = {"MEMBER", "NONE"}
  MaxPreviews = 2
  MaxWebhooks = 3
  Sites = {"docs"}
  Buckets <- MCBuckets
  Rate = 2
  Cost = 5
  Second = 4
  MaxClock = 10
  MaxVisits = 4
  MaxEvents = 4
INVARIANTS TypeOK SetupSurvives IdentityIsOneApp StatusAnswers HostsDistinct OutsidersWait CommentTellsTruth GlobsMeant LinksOpen RateHeld RetryAfterHonest
PROPERTIES SavedIsServed Refusals
