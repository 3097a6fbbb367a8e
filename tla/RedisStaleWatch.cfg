SPECIFICATION Spec
CONSTANTS
  k1 = k1
  Nil = Nil
  Threads = {1, 2}
  Calls <- Writer
  Foreign <- OtherWrites
  Keys = {k1}
  Versions = {1, 2}
  PoolSize = 2
  Conns = {c1, c2}
  Faults = {}
  MaxCalls = 2
  MaxForeign = 1
INVARIANT OnlyErrorsFail
CHECK_DEADLOCK FALSE
