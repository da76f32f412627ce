SPECIFICATION FairSpec
CONSTANTS
  t = t
  tt = tt
  h1 = h1
  h2 = h2
  u1 = u1
  Threads = {h1, h2}
  Topics = {t, tt}
  Publishes <- MCPublishes
  PrefixesOf <- MCPrefixes
  Users = {u1}
  Sockets = {s1, s2}
  Owner <- MCOneUser
  HighWater = 2
  MaxEvents = 3
INVARIANTS TypeOK FramesAligned InOrder
PROPERTIES ImplementsBus EveryEventArrives
