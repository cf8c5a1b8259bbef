\* Two app sessions on two handles; queues short enough to fill. Bluetooth may go
\* off and on any number of times.
SPECIFICATION FairSpec
CONSTANTS
  h1 = h1
  h2 = h2
  Handles = {h1, h2}
  NoHandle = NoHandle
  MaxApps = 2
  QueueDepth = 2
  TxDepth = 2
  MaxLost = 1
INVARIANTS BleInv PacketsOfTheSession
PROPERTY SubscriberServed
