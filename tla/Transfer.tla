------------------------------ MODULE Transfer ------------------------------
(***************************************************************************)
(* What a PagerLink bulk transfer promises, whatever the link does: chunks *)
(* are handed to the receiving owner one by one and in order, the sending  *)
(* owner is told of a chunk only after the receiver has it, and the sender *)
(* reports success exactly when every chunk has been confirmed.            *)
(* BulkXfer.tla (link_xfer.cpp) is shown to implement this specification.  *)
(***************************************************************************)
EXTENDS Integers

CONSTANTS
  Size,   \* chunks in the source
  Start   \* first chunk to move (a resumed read starts past 0)

VARIABLES
  delivered,  \* chunks below this one are with the receiver
  confirmed,  \* chunks below this one are known, by the sender, to be there
  outcome     \* what the sender tells its owner: "Active", "Done" or "Failed"

absVars == <<delivered, confirmed, outcome>>

Verdict(c) == IF c = Size THEN "Done" ELSE "Active"

AbsInit ==
  /\ delivered = Start
  /\ confirmed = Start
  /\ outcome = Verdict(Start)

\* The receiver's owner gets the next chunk.
Deliver ==
  /\ delivered < Size
  /\ delivered' = delivered + 1
  /\ UNCHANGED <<confirmed, outcome>>

\* The sender learns that the receiver holds more than it knew, and may fail
\* in the same step (it tries to send more at once).
Confirm ==
  /\ outcome = "Active"
  /\ confirmed' \in (confirmed + 1) .. delivered
  /\ outcome' = Verdict(confirmed') \/ (confirmed' < Size /\ outcome' = "Failed")
  /\ UNCHANGED delivered

\* The source cannot be read, or the link refuses a message.
Fail ==
  /\ outcome = "Active"
  /\ outcome' = "Failed"
  /\ UNCHANGED <<delivered, confirmed>>

AbsNext == Deliver \/ Confirm \/ Fail

AbsSpec == AbsInit /\ [][AbsNext]_absVars
=============================================================================
