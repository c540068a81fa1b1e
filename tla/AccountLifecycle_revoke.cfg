CONSTANTS
  Users = {u1}
  Handlers = {h1}
  Loop = loop
  Nobody = nobody
  MaxKeys = 1
  ThreadNumbers = {1}
  MaxCrashes = 0
  Threshold = 2
  Requests = {"register", "revoke"}
  StoreFaults = FALSE
  Healthy = {u1}
SPECIFICATION Spec
INVARIANT PurgedMeansGone
CHECK_DEADLOCK FALSE
