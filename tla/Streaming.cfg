SPECIFICATION FairSpec
CONSTANTS
  k1 = k1
  k2 = k2
  Null = Null
  Keys = {k1, k2}
  MaxVersion = 2
  MaxLines = 7
  MaxAttempts = 3
  FirstWait = 1
  MaxWait = 2
  MinLife = 3
  ReadTimeout = 3
INVARIANTS TypeOK CleanStreamUpToDate
PROPERTIES BacksOff Recovers
