SPECIFICATION FairSpec
CONSTANTS
  r1 = r1
  shop = shop
  staging = staging
  Reports = {r1}
  Previews = {shop}
  Sites = {staging}
  Loop = loop
  maxPostAttempts = 2
  Laps = 2
  MaxRestarts = 1
  MaxDeploys = 1
  Faults = {"refused","timeout","disk","unconfigured","unwired"}
INVARIANTS TypeOK RetriedAtMost DuplicateHasCause TornDownIsGone ScreenshotKept
PROPERTIES ReportsEnd Swept OutboxKept
