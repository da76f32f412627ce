SPECIFICATION FairSpec
CONSTANTS
  Requests = {r1, r2}
  Operations = {"update_post", "update_offer", "send_message"}
  Posts = {p1}
  Offers = {o1}
  Messages = {m1, m2}
  Existing = {p1, o1}
  Keys = {k1, k2}
  MaxKeys = 2
  PoolSize = 3
  Faults = FALSE
  None = None
CHECK_DEADLOCK FALSE
PROPERTY EveryRequestEnds
