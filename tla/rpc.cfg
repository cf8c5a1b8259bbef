\* Enough calls for the three ids to come round while a request is outstanding,
\* and a clock that wraps under the timeouts.
SPECIFICATION FairSpec
CONSTANTS
  MaxCalls = 4
  MaxPending = 2
  NumIds = 3
  TimeMod = 8
  Timeouts = {1, 3}
  MaxAge = 4
INVARIANTS RpcInv RightAnswer
PROPERTIES TimeoutIsDue EveryCallReturns
