CONSTANTS
  Users = {u1}
  Handlers = {h1, h2}
  Loop = loop
  Nobody = nobody
  MaxKeys = 2
  ThreadNumbers = {1}
  MaxCrashes = 1
  Threshold = 2
  Requests = {"register", "revoke", "enrich", "agent"}
  StoreFaults = TRUE
  Healthy = {u1}
SPECIFICATION Spec
INVARIANTS
  TypeOK
  NoUnexplainedOrphan
PROPERTY CondemnedWasRefused
CHECK_DEADLOCK FALSE
