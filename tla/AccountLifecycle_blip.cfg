CONSTANTS
  Users = {u1}
  Handlers = {h1}
  Loop = loop
  Nobody = nobody
  MaxKeys = 2
  ThreadNumbers = {1}
  MaxCrashes = 0
  Threshold = 2
  Requests = {"register"}
  StoreFaults = FALSE
  Healthy = {u1}
SPECIFICATION Spec
PROPERTY StillValidNeverCondemned
CHECK_DEADLOCK FALSE
