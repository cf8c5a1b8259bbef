\* Runs of lost packets of up to two turns of the counter, messages up to one
\* packet longer than the buffer and longer than a turn.
SPECIFICATION Spec
CONSTANTS
  SeqMod = 3
  MaxPackets = 4
  MaxLossRun = 6
  MaxMessages = 4
INVARIANTS FrameInv DeliversWhatArrived OneResetPerFault
