CONSTANTS
  Users = {u1, u2}
  Handlers = {h1}
  Loop = loop
  Nobody = nobody
  MaxKeys = 2
  ThreadNumbers = {1}
  MaxCrashes = 0
  Threshold = 2
  Requests = {"register"}
  StoreFaults = FALSE
  Healthy = {u1}
SPECIFICATION FairSpec
PROPERTIES
  ZombieEventuallyPurged
  HealthyEventuallyIndexed
CHECK_DEADLOCK FALSE
