SPECIFICATION Spec
CONSTANTS
  Requests = {r1, r2}
  Operations = {"create_post", "update_post", "create_offer", "update_offer"}
  Posts = {p1, p2}
  Offers = {o1, o2}
  Messages = {}
  Existing = {p1, o1}
  Keys = {k1, k2}
  MaxKeys = 2
  PoolSize = 2
  Faults = TRUE
  None = None
CHECK_DEADLOCK FALSE
SYMMETRY Symmetric
INVARIANTS TypeOK FailedLeavesNoTrace
PROPERTY WholeRequests
