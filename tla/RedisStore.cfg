SPECIFICATION FairSpec
CONSTANTS
  k1 = k1
  Nil = Nil
  Threads = {1, 2, 3}
  Calls <- WritersAndReader
  Foreign <- OtherWrites
  Keys = {k1}
  Versions = {1, 2}
  PoolSize = 2
  Conns = {c1, c2}
  Faults = {"connect", "link", "reply"}
  MaxCalls = 1
  MaxForeign = 1
INVARIANTS TypeOK CountsConnections
PROPERTIES UpsertsWhatItRead Served
CHECK_DEADLOCK FALSE
