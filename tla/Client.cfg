SPECIFICATION Spec
CONSTANTS
  MaxWait = 2
  PollInterval = 1
  MaxVersion = 2
INVARIANT TypeOK
PROPERTIES InitReturns CloseReturns RefusalStops StoreAdvances Follows
