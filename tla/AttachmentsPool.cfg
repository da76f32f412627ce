SPECIFICATION FairSpec
CONSTANTS
  Requests = {r1}
  Operations = {"update_offer"}
  Posts = {}
  Offers = {o1}
  Messages = {}
  Existing = {o1}
  Keys = {k1}
  MaxKeys = 1
  PoolSize = 1
  Faults = FALSE
  None = None
CHECK_DEADLOCK FALSE
PROPERTY EveryRequestEnds
