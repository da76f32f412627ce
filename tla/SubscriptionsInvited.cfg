SPECIFICATION FairSpec
CONSTANTS
  u1 = u1
  Users = {u1, u2}
  Sockets = {s1}
  Owner <- MCOneUser
  PostTopics = {p1}
  EntityTopics = {}
  ChatTopics = {c1}
  AsksFor <- MCAsksFor
  PoolSize = 1
  MaxQueue = 2
INVARIANTS NoLostSubscription
PROPERTY EveryRequestAnswered
