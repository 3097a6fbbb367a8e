SPECIFICATION FairSpec
CONSTANTS
  k1 = k1
  f = f
  Nil = Nil
  Threads = {1, 2, 3}
  Deployments <- FeedOrDaemon
  Kinds = {f}
  Keys = {k1}
  KindOf <- OneKind
  Versions = {1, 2}
  TTL = 1
  Latency = 1
  Slots = {1, 2}
  Faulty <- NoFalseNo
  FeedOrdered = TRUE
INVARIANTS TypeOK ReadYourWrites GetConverges AllConverges
PROPERTIES InitVisible InitNoticed
