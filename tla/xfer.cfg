\* Three losses each way, a fault, and a timer that races late ACKs.
SPECIFICATION FairSpec
CONSTANTS
  Size = 7
  Start = 1
  InitialCredits = 4
  Window = 3
  AckEvery = 2
  MaxDataLoss = 3
  MaxAckLoss = 3
  MaxFaults = 1
  MaxInFlight = 5
INVARIANTS XferInv InOrderOnce CreditWindow AckBound
PROPERTIES Implements Completes
CHECK_DEADLOCK FALSE
