SPECIFICATION Spec
CONSTANTS
  u1 = u1
  Users = {u1}
  Sockets = {s1, s2}
  Owner <- MCOneUser
  PostTopics = {p1}
  EntityTopics = {e1}
  ChatTopics = {}
  AsksFor <- MCAsksFor
  PoolSize = 1
  MaxQueue = 2
SYMMETRY Symmetric
INVARIANTS TypeOK FilterCovers NoLostSubscription ListedIsStored UnsubscribedFromPost
