SPECIFICATION FairSpec
CONSTANTS
  u1 = u1
  u2 = u2
  u3 = u3
  Null = Null
  Users = {u1, u2, u3}
  EventsCapacity = 2
  UserKeysCapacity = 2
  UserKeysFlushInterval = 1
  InlineUsers = FALSE
  MaxPrerequisites = 1
  MaxRecorded = 3
  FlushInterval = 1
  RetryWait = 1
INVARIANTS TypeOK Conserved RemembersMostRecent
PROPERTIES DiscardedAfterRetry Bundled
