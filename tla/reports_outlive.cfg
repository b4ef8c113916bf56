SPECIFICATION Spec
CONSTANTS
  r1 = r1
  shop = shop
  staging = staging
  Reports = {r1}
  Previews = {shop}
  Sites = {staging}
  Loop = loop
  maxPostAttempts = 2
  Laps = 1
  MaxRestarts = 0
  MaxDeploys = 0
  Faults = {}
PROPERTIES TeardownDeletes
