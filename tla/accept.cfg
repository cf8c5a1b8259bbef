\* A body of three chunks where four may be buffered, two losses each way and one failing send or write.
SPECIFICATION AcceptFairSpec
CONSTANTS
  Size = 3
  Start = 0
  InitialCredits = 2
  Window = 2
  AckEvery = 1
  MaxDataLoss = 2
  MaxAckLoss = 2
  MaxFaults = 1
  MaxInFlight = 2
  MaxBody = 4
INVARIANTS AcceptInv DoneOnce OkIsWhole
PROPERTY WorkerReturns
CHECK_DEADLOCK FALSE
