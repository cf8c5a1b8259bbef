--------------------------- MODULE BulkXferProofs ---------------------------
(***************************************************************************)
(* Proofs about BulkXfer: the inductive invariant XferInv, the safety      *)
(* properties it implies, and the refinement of Transfer, for every size,  *)
(* window, ACK cadence and number of losses and faults. Then about         *)
(* AcceptTransfer, which runs that engine: AcceptInv and what it implies,  *)
(* for every body and every bound on it.                                   *)
(***************************************************************************)
EXTENDS AcceptTransfer, TLAPS

USE XferAssumption

\* A sequence over a set is one over any larger set.
LEMMA SeqWiden ==
  ASSUME NEW A, NEW B, A \subseteq B, NEW s \in Seq(A)
  PROVE  s \in Seq(B)
OBVIOUS

\* The same for the intervals of offsets the sequences are over.
LEMMA SeqRaise ==
  ASSUME NEW a \in Nat, NEW b \in Int, NEW c \in Nat, NEW d \in Int, c <= a, b <= d,
         NEW s \in Seq(a .. b)
  PROVE  s \in Seq(c .. d)
<1>1. a .. b \subseteq c .. d
  OBVIOUS
<1> QED BY <1>1, SeqWiden

LEMMA HeadTailType ==
  ASSUME NEW S, NEW s \in Seq(S), s # << >>
  PROVE  Head(s) \in S /\ Tail(s) \in Seq(S)
OBVIOUS

\* What one pump sends: consecutive offsets, none of them `to` or above.
LEMMA OffsetsType ==
  ASSUME NEW a \in Nat, NEW b \in Nat, a <= b
  PROVE  /\ Offsets(a, b) \in Seq(a .. (b - 1))
         /\ Len(Offsets(a, b)) = b - a
BY DEF Offsets

\* Appending the next offset extends the run by one.
LEMMA OffsetsAppend ==
  ASSUME NEW a \in Nat, NEW b \in Nat, a <= b
  PROVE  Append(Offsets(a, b), b) = Offsets(a, b + 1)
BY DEF Offsets

\* Where a pump stops: never before the send point, past the source or past
\* the first grant.
LEMMA PumpLimitBounds ==
  ASSUME NEW a \in Start .. Size, NEW n \in a .. Size,
         NEW c \in {InitialCredits, Window}
  PROVE  /\ PumpLimit(a, n, c) \in n .. Size
         /\ n <= a + InitialCredits => PumpLimit(a, n, c) <= a + InitialCredits
BY DEF PumpLimit

-----------------------------------------------------------------------------
(* What each part of a step does to the invariant. *)

\* A pump from any acknowledged offset at or past the current one, and a send
\* point between it and what was ever sent, keeps the sender in its window and
\* puts only offsets below the new `high` on the link.
LEMMA PumpStep ==
  ASSUME XferInv, NEW a \in Nat, acked <= a, a <= high, NEW n \in Nat, a <= n, n <= high,
         NEW c \in {InitialCredits, Window}, Pump(a, n, c)
  PROVE  /\ next' \in n .. Size
         /\ high' \in high .. Size /\ next' <= high'
         /\ high' <= a + InitialCredits
         /\ sState' \in {"Active", "Failed"}
         /\ data' \in Seq(Start .. (high' - 1))
         /\ faults' \in 0 .. MaxFaults
<1>1. /\ acked \in Start .. Size /\ high \in Start .. Size
      /\ high <= acked + InitialCredits
      /\ data \in Seq(Start .. (high - 1)) /\ faults \in 0 .. MaxFaults
  BY DEF XferInv, TypeOK, CreditWindow, DataOnLink
<1>2. /\ a \in Start .. Size /\ n \in a .. Size /\ n <= a + InitialCredits
  BY <1>1
<1>3. /\ PumpLimit(a, n, c) \in n .. Size
      /\ PumpLimit(a, n, c) <= a + InitialCredits
  BY <1>2, PumpLimitBounds
<1>4. /\ next' \in n .. PumpLimit(a, n, c)
      /\ sState' \in {"Active", "Failed"} /\ faults' \in 0 .. MaxFaults
  BY <1>1, <1>2, <1>3 DEF Pump
<1>5. high' = IF next' > high THEN next' ELSE high
  BY DEF Pump
<1>6. /\ next' \in n .. Size /\ high' \in high .. Size /\ next' <= high'
      /\ high' <= a + InitialCredits
  BY <1>1, <1>2, <1>3, <1>4, <1>5
<1>a. /\ Start \in Nat /\ n \in Nat /\ next' \in Nat /\ high \in Nat /\ high' \in Nat
      /\ Start <= n /\ n <= next' /\ next' <= high' /\ high <= high'
  BY <1>1, <1>2, <1>6
<1>7. data' \in Seq(Start .. (high' - 1))
  <2>1. Offsets(n, next') \in Seq(n .. (next' - 1))
    BY <1>a, OffsetsType
  <2>2. Offsets(n, next') \in Seq(Start .. (high' - 1))
    BY <2>1, <1>a, SeqRaise
  <2>3. data \in Seq(Start .. (high' - 1))
    BY <1>1, <1>a, SeqRaise
  <2>4. data' = data \o Offsets(n, next')
    BY DEF Pump
  <2> QED BY <2>2, <2>3, <2>4
<1> QED BY <1>4, <1>6, <1>7

\* The part of the invariant about the receiver and its ACKs, which a step of
\* the sender leaves alone, and the part about the sender.
ReceiverPart ==
  /\ rNext \in Start .. Size /\ lastAck \in Start .. Size
  /\ sinceAck \in Nat /\ gapAcked \in BOOLEAN /\ rState \in XferState
  /\ stored \in Seq(Start .. Size) /\ acksHere \in Nat
  /\ InOrderOnce /\ AckAllowance
  /\ rState = "Done" => rNext = Size
  /\ rState = "Active" => rNext < Size

SenderPart ==
  /\ acked \in Start .. Size /\ next \in acked .. Size /\ high \in next .. Size
  /\ rewound \in BOOLEAN /\ credits \in {InitialCredits, Window}
  /\ sState \in XferState
  /\ sState = "Done" => acked = Size
  /\ sState = "Active" => acked < Size
  /\ CreditWindow /\ DataOnLink

LinkPart ==
  /\ acked <= rNext /\ rNext <= high /\ AcksOnLink
  /\ dataLost \in 0 .. MaxDataLoss /\ ackLost \in 0 .. MaxAckLoss
  /\ faults \in 0 .. MaxFaults

LEMMA InvParts == XferInv <=> ReceiverPart /\ SenderPart /\ LinkPart
<1>1. XferInv => ReceiverPart /\ SenderPart /\ LinkPart
  BY DEF XferInv, TypeOK, Bracketed, Verdicts, ReceiverPart, SenderPart, LinkPart
<1>2. ReceiverPart /\ SenderPart /\ LinkPart => XferInv
  <2> HAVE ReceiverPart /\ SenderPart /\ LinkPart
  <2>1. data \in Seq(Start .. Size)
    <3>1. /\ data \in Seq(Start .. (high - 1))
          /\ Start .. (high - 1) \subseteq Start .. Size
      BY DEF SenderPart, DataOnLink
    <3> QED BY <3>1, SeqWiden
  <2>2. acks \in Seq(Start .. Size)
    <3>1. /\ acks \in Seq(Start .. rNext) /\ Start .. rNext \subseteq Start .. Size
      BY DEF ReceiverPart, LinkPart, AcksOnLink
    <3> QED BY <3>1, SeqWiden
  <2> QED BY <2>1, <2>2
          DEF XferInv, TypeOK, Bracketed, Verdicts, ReceiverPart, SenderPart, LinkPart
<1> QED BY <1>1, <1>2

LEMMA ReceiverUnchanged == ReceiverPart /\ UNCHANGED receiver => ReceiverPart'
BY DEF ReceiverPart, receiver, InOrderOnce, AckAllowance

\* A pump that starts from an unfinished sender re-establishes its part.
LEMMA PumpKeepsSender ==
  ASSUME XferInv, NEW a \in Nat, acked <= a, a <= high, NEW n \in Nat, a <= n, n <= high,
         NEW c \in {InitialCredits, Window}, Pump(a, n, c),
         a < Size, acked' = a, rewound' \in BOOLEAN,
         credits' \in {InitialCredits, Window}
  PROVE  SenderPart' /\ faults' \in 0 .. MaxFaults /\ high' \in high .. Size
<1>1. acked \in Start .. Size /\ high \in Start .. Size
  BY DEF XferInv, TypeOK
<1>2. /\ next' \in n .. Size
      /\ high' \in high .. Size /\ next' <= high'
      /\ high' <= a + InitialCredits
      /\ sState' \in {"Active", "Failed"}
      /\ data' \in Seq(Start .. (high' - 1))
      /\ faults' \in 0 .. MaxFaults
  BY PumpStep
<1>3. a \in Start .. Size
  BY <1>1
<1>4. next' \in a .. Size
  BY <1>1, <1>2
<1>5. high' \in next' .. Size
  BY <1>1, <1>2
<1>7. CreditWindow' /\ DataOnLink'
  BY <1>2 DEF CreditWindow, DataOnLink
<1>8. acked' \in Start .. Size /\ next' \in acked' .. Size /\ acked' < Size
  BY <1>3, <1>4
<1>9. sState' \in XferState /\ sState' # "Done"
  BY <1>2 DEF XferState
<1> QED BY <1>2, <1>5, <1>7, <1>8, <1>9 DEF SenderPart

LEMMA BeginInv == XferInv /\ Begin => XferInv'
<1> SUFFICES ASSUME XferInv, Begin PROVE XferInv'
  OBVIOUS
<1>1. ReceiverPart /\ SenderPart /\ LinkPart
  BY InvParts
<1>2. /\ acked \in Nat /\ next \in Nat /\ acked <= next /\ next <= high /\ acked <= high
      /\ acked < Size
      /\ credits \in {InitialCredits, Window}
  BY <1>1 DEF SenderPart, Begin
<1>3. SenderPart' /\ faults' \in 0 .. MaxFaults /\ high' \in high .. Size
  BY <1>1, <1>2, PumpKeepsSender DEF Begin, SenderPart
<1>4. ReceiverPart' /\ LinkPart'
  BY <1>1, <1>3, ReceiverUnchanged
     DEF Begin, LinkPart, ReceiverPart, SenderPart, AcksOnLink, receiver
<1> QED BY <1>3, <1>4, InvParts, PTL

LEMMA RetransmitInv == XferInv /\ Retransmit => XferInv'
<1> SUFFICES ASSUME XferInv, Retransmit PROVE XferInv'
  OBVIOUS
<1>1. ReceiverPart /\ SenderPart /\ LinkPart
  BY InvParts
<1>2. /\ acked \in Nat /\ acked <= high /\ acked < Size
      /\ credits \in {InitialCredits, Window}
  BY <1>1 DEF SenderPart, Retransmit
<1>3. SenderPart' /\ faults' \in 0 .. MaxFaults /\ high' \in high .. Size
  BY <1>1, <1>2, PumpKeepsSender DEF Retransmit
<1>4. ReceiverPart' /\ LinkPart'
  BY <1>1, <1>3, ReceiverUnchanged
     DEF Retransmit, LinkPart, ReceiverPart, SenderPart, AcksOnLink, receiver
<1> QED BY <1>3, <1>4, InvParts, PTL

\* An ACK never names more than the receiver holds, so what the sender takes
\* from it is true.
LEMMA ReceiveAckInv == XferInv /\ ReceiveAck => XferInv'
<1> SUFFICES ASSUME XferInv, ReceiveAck PROVE XferInv'
  OBVIOUS
<1> DEFINE n == Head(acks)
<1>1. ReceiverPart /\ SenderPart /\ LinkPart
  BY InvParts
<1>2. n \in Start .. rNext /\ acks' \in Seq(Start .. rNext)
  BY <1>1, HeadTailType DEF ReceiveAck, LinkPart, AcksOnLink
<1>3. rNext' = rNext /\ ReceiverPart'
  BY <1>1, ReceiverUnchanged DEF ReceiveAck, receiver
<1>4. SenderPart' /\ faults' \in 0 .. MaxFaults /\ high' \in high .. Size /\ acked' <= rNext
  <2>1. CASE sState # "Active"
    BY <1>1, <2>1 DEF ReceiveAck, SenderPart, LinkPart, ReceiverPart, sender, CreditWindow,
                      DataOnLink
  <2>2. CASE sState = "Active" /\ IgnoreAck(n)
    <3>1. /\ acked \in Nat /\ next \in Nat /\ acked <= next /\ next <= high /\ acked <= high
          /\ acked < Size
          /\ credits \in {InitialCredits, Window} /\ Pump(acked, next, credits)
          /\ UNCHANGED <<acked, rewound, credits>>
      BY <1>1, <2>2 DEF SenderPart, IgnoreAck
    <3> QED BY <1>1, <3>1, PumpKeepsSender DEF SenderPart, LinkPart
  <2>3. CASE sState = "Active" /\ DuplicateAck(n)
    <3> DEFINE from == IF next > acked /\ ~rewound THEN acked ELSE next
    <3>1. /\ acked \in Nat /\ from \in Nat /\ acked <= from /\ from <= high /\ acked <= high
          /\ acked < Size
          /\ acked' = acked /\ rewound' \in BOOLEAN /\ credits' = Window
          /\ Pump(acked, from, Window)
      BY <1>1, <2>3 DEF SenderPart, DuplicateAck
    <3> QED BY <1>1, <3>1, PumpKeepsSender DEF LinkPart
  <2>4. CASE sState = "Active" /\ ProgressAck(n) /\ n = Size
    <3>1. /\ acked' = Size /\ Size <= high /\ rewound' = FALSE /\ credits' = Window
          /\ sState' = "Done" /\ next' = (IF next < Size THEN Size ELSE next)
          /\ UNCHANGED <<high, data, faults>>
      BY <2>4 DEF ProgressAck
    <3>2. next \in Start .. Size /\ high \in next .. Size /\ high = Size /\ rNext = Size
      BY <1>1, <1>2, <2>4, <3>1 DEF SenderPart, ReceiverPart, LinkPart
    <3>3. /\ acked' \in Start .. Size /\ next' \in acked' .. Size /\ high' \in next' .. Size
          /\ high' <= acked' + InitialCredits /\ high' \in high .. Size /\ acked' <= rNext
      BY <3>1, <3>2
    <3> QED BY <1>1, <3>1, <3>3
            DEF SenderPart, LinkPart, XferState, CreditWindow, DataOnLink
  <2>5. CASE sState = "Active" /\ ProgressAck(n) /\ n # Size
    <3> DEFINE from == IF next < n THEN n ELSE next
    <3>1. /\ n > acked /\ n <= high /\ acked' = n /\ rewound' = FALSE
          /\ credits' = Window /\ Pump(n, from, Window)
      BY <2>5 DEF ProgressAck
    <3>2. n \in Nat /\ acked \in Nat /\ next \in Nat /\ high \in Nat /\ next <= high
          /\ high <= Size
      BY <1>1, <1>2 DEF SenderPart, ReceiverPart
    <3>3. n < Size /\ acked <= n /\ from \in Nat /\ n <= from /\ from <= high
      BY <2>5, <3>1, <3>2
    <3>4. rewound' \in BOOLEAN /\ Window \in {InitialCredits, Window}
          /\ credits' \in {InitialCredits, Window}
      BY <3>1
    <3>5. SenderPart' /\ faults' \in 0 .. MaxFaults /\ high' \in high .. Size
      BY <3>1, <3>2, <3>3, <3>4, PumpKeepsSender
    <3>6. acked' <= rNext
      BY <1>1, <1>2, <3>1 DEF ReceiverPart
    <3> QED BY <3>5, <3>6
  <2> QED BY <2>1, <2>2, <2>3, <2>4, <2>5 DEF ReceiveAck
<1>5. LinkPart'
  BY <1>1, <1>2, <1>3, <1>4
     DEF ReceiveAck, LinkPart, SenderPart, ReceiverPart, AcksOnLink
<1> QED BY <1>3, <1>4, <1>5, InvParts, PTL

\* ACKs sent by one step: they name an offset the receiver has reached.
LEMMA PutAcksType ==
  ASSUME NEW n \in Nat, NEW j \in Nat, NEW before \in Nat, Start <= n,
         acks \in Seq(Start .. n), PutAcks(j, n, before)
  PROVE  /\ acks' \in Seq(Start .. n)
         /\ acksHere' = before + j
         /\ lastAck' = IF j > 0 THEN n ELSE lastAck
<1>1. [i \in 1 .. j |-> n] \in Seq(Start .. n)
  OBVIOUS
<1> QED BY <1>1 DEF PutAcks

\* The link holds the same DATA, less its head.
LEMMA ReceiveDataSender ==
  ASSUME SenderPart, data # << >>, data' = Tail(data), UNCHANGED sender
  PROVE  SenderPart' /\ Head(data) \in Nat /\ Start <= Head(data) /\ Head(data) < high
<1>1. Head(data) \in Start .. (high - 1) /\ data' \in Seq(Start .. (high - 1))
  BY HeadTailType DEF SenderPart, DataOnLink
<1>2. SenderPart'
  BY <1>1 DEF SenderPart, sender, CreditWindow, DataOnLink
<1>3. high \in Nat
  BY DEF SenderPart
<1> QED BY <1>1, <1>2, <1>3

LEMMA DataAfterDoneInv ==
  ASSUME ReceiverPart, LinkPart, DataAfterDone,
         UNCHANGED <<sender, dataLost, ackLost>>
  PROVE  ReceiverPart' /\ LinkPart'
<1>1. rNext \in Start .. Size /\ acks \in Seq(Start .. rNext) /\ faults \in 0 .. MaxFaults
  BY DEF ReceiverPart, LinkPart, AcksOnLink
<1>2. /\ rNext' = rNext
      /\ \/ acks' = Append(acks, rNext) /\ lastAck' = rNext
         \/ acks' = acks /\ lastAck' = lastAck
      /\ faults' \in 0 .. MaxFaults
  BY <1>1 DEF DataAfterDone
<1>3. acks' \in Seq(Start .. rNext')
  BY <1>1, <1>2
<1>4. lastAck' \in Start .. Size /\ lastAck' <= rNext
  BY <1>1, <1>2 DEF ReceiverPart, AckAllowance
<1>5. ReceiverPart'
  BY <1>4 DEF ReceiverPart, DataAfterDone, InOrderOnce, AckAllowance
<1>6. LinkPart'
  BY <1>2, <1>3 DEF LinkPart, sender, AcksOnLink
<1> QED BY <1>5, <1>6

\* A gap: the ACKs it still may send fit the allowance.
LEMMA DataOutOfOrderInv ==
  ASSUME ReceiverPart, LinkPart, NEW offset \in Nat, DataOutOfOrder(offset),
         UNCHANGED <<sender, dataLost, ackLost>>
  PROVE  ReceiverPart' /\ LinkPart'
<1> DEFINE k == IF gapAcked THEN 0 ELSE IF lastAck # rNext THEN 2 ELSE 1
<1>1. /\ rNext \in Nat /\ Start <= rNext /\ acks \in Seq(Start .. rNext) /\ acksHere \in Nat
      /\ faults \in 0 .. MaxFaults /\ rState = "Active" /\ k \in 0 .. 2
      /\ lastAck \in Start .. Size /\ lastAck <= rNext /\ rNext \in Start .. Size
      /\ gapAcked \in BOOLEAN
  BY DEF ReceiverPart, LinkPart, AcksOnLink, DataOutOfOrder, AckAllowance
<1>2. /\ gapAcked' = TRUE /\ SendAcks(k, rNext, acksHere, "Active")
      /\ UNCHANGED <<rNext, sinceAck, stored>>
  BY DEF DataOutOfOrder
<1>3. /\ \E j \in 0 .. k : PutAcks(j, rNext, acksHere)
      /\ rState' \in {"Active", "Failed"} /\ faults' \in 0 .. MaxFaults
  BY <1>1, <1>2 DEF SendAcks
<1>4. PICK j \in 0 .. k : PutAcks(j, rNext, acksHere)
  BY <1>3
<1>5. /\ acks' \in Seq(Start .. rNext) /\ acksHere' = acksHere + j
      /\ lastAck' = IF j > 0 THEN rNext ELSE lastAck
  BY <1>1, <1>4, PutAcksType
<1>6. acksHere <= (IF gapAcked THEN 2 ELSE IF lastAck = rNext THEN 1 ELSE 0)
  BY <1>1 DEF ReceiverPart, AckAllowance
<1>7. acksHere' \in Nat /\ acksHere' <= 2
  BY <1>1, <1>4, <1>5, <1>6
<1>8. lastAck' \in Start .. Size /\ lastAck' <= rNext
  BY <1>1, <1>5
<1>9. ReceiverPart'
  BY <1>1, <1>2, <1>3, <1>7, <1>8
     DEF ReceiverPart, InOrderOnce, AckAllowance, XferState
<1>10. LinkPart'
  BY <1>2, <1>3, <1>5 DEF LinkPart, sender, AcksOnLink
<1> QED BY <1>9, <1>10

\* The expected chunk: stored once, after everything before it.
LEMMA DataInOrderInv ==
  ASSUME ReceiverPart, LinkPart, acked \in Nat, high \in Nat, NEW offset \in Nat, offset < high,
         DataInOrder(offset), UNCHANGED <<sender, dataLost, ackLost>>
  PROVE  ReceiverPart' /\ LinkPart'
<1> DEFINE last == rNext + 1 = Size
           due == sinceAck + 1 >= AckEvery
           k == IF last \/ due THEN 1 ELSE 0
<1>1. /\ rNext \in Nat /\ Start <= rNext /\ acks \in Seq(Start .. rNext)
      /\ faults \in 0 .. MaxFaults /\ rState = "Active" /\ sinceAck \in Nat
      /\ lastAck \in Start .. Size /\ lastAck <= rNext /\ rNext < Size
      /\ offset = rNext /\ gapAcked' = FALSE /\ stored = Offsets(Start, rNext)
      /\ stored \in Seq(Start .. Size)
  BY DEF ReceiverPart, LinkPart, AcksOnLink, DataInOrder, AckAllowance, InOrderOnce
<1>2. CASE /\ rNext' = rNext + 1
           /\ stored' = Append(stored, offset)
           /\ sinceAck' = (IF due /\ ~last THEN 0 ELSE sinceAck + 1)
           /\ SendAcks(k, rNext + 1, 0, IF last THEN "Done" ELSE "Active")
  <2>1. /\ \E j \in 0 .. k : PutAcks(j, rNext + 1, 0)
        /\ rState' \in {IF last THEN "Done" ELSE "Active", "Failed"}
        /\ faults' \in 0 .. MaxFaults
    BY <1>1, <1>2 DEF SendAcks
  <2>2. PICK j \in 0 .. k : PutAcks(j, rNext + 1, 0)
    BY <2>1
  <2>3. acks \in Seq(Start .. (rNext + 1)) /\ Start <= rNext + 1
    BY <1>1, SeqRaise
  <2>4. /\ acks' \in Seq(Start .. (rNext + 1)) /\ acksHere' = j
        /\ lastAck' = IF j > 0 THEN rNext + 1 ELSE lastAck
    BY <1>1, <2>2, <2>3, PutAcksType
  <2>5. /\ acksHere' \in Nat /\ lastAck' \in Start .. Size /\ lastAck' <= rNext + 1
        /\ acksHere' <= (IF lastAck' = rNext + 1 THEN 1 ELSE 0)
    BY <1>1, <2>2, <2>4
  <2>6. stored' = Offsets(Start, rNext + 1) /\ stored' \in Seq(Start .. Size)
    <3>1. /\ stored' = Append(Offsets(Start, rNext), rNext)
          /\ stored' = Append(stored, rNext) /\ rNext \in Start .. Size
      BY <1>1, <1>2
    <3>2. Append(Offsets(Start, rNext), rNext) = Offsets(Start, rNext + 1)
      <4>1. Start \in Nat
        OBVIOUS
      <4> QED BY <1>1, <4>1, OffsetsAppend
    <3>3. stored' \in Seq(Start .. Size)
      BY <1>1, <3>1
    <3> QED BY <3>1, <3>2, <3>3
  <2>7. /\ rNext' \in Start .. Size /\ sinceAck' \in Nat /\ rState' \in XferState
        /\ rState' = "Done" => rNext' = Size
        /\ rState' = "Active" => rNext' < Size
    BY <1>1, <1>2, <2>1 DEF XferState
  <2>8. ReceiverPart'
    BY <1>1, <1>2, <2>5, <2>6, <2>7 DEF ReceiverPart, InOrderOnce, AckAllowance
  <2>9. LinkPart'
    <3>1. acked <= rNext /\ rNext + 1 <= high /\ UNCHANGED <<acked, high, dataLost, ackLost>>
      BY <1>1 DEF LinkPart, sender
    <3>2. acked' <= rNext' /\ rNext' <= high'
      BY <1>1, <1>2, <3>1
    <3> QED BY <1>2, <2>1, <2>4, <3>1, <3>2 DEF LinkPart, AcksOnLink
  <2> QED BY <2>8, <2>9
<1>3. CASE /\ rState' = "Failed" /\ faults < MaxFaults /\ faults' = faults + 1
           /\ UNCHANGED <<rNext, stored, sinceAck, lastAck, acks, acksHere>>
  <2>1. faults' \in 0 .. MaxFaults
    BY <1>1, <1>3
  <2>2. ReceiverPart'
    BY <1>1, <1>3 DEF ReceiverPart, InOrderOnce, AckAllowance, XferState
  <2>3. LinkPart'
    BY <1>3, <2>1 DEF LinkPart, sender, AcksOnLink
  <2> QED BY <2>2, <2>3
<1> QED BY <1>2, <1>3 DEF DataInOrder

LEMMA ReceiveDataInv == XferInv /\ ReceiveData => XferInv'
<1> SUFFICES ASSUME XferInv, ReceiveData PROVE XferInv'
  OBVIOUS
<1>1. ReceiverPart /\ SenderPart /\ LinkPart
  BY InvParts
<1>2. data # << >> /\ data' = Tail(data) /\ UNCHANGED <<sender, dataLost, ackLost>>
  BY DEF ReceiveData
<1>3. SenderPart' /\ Head(data) \in Nat /\ Head(data) < high /\ high \in Nat /\ acked \in Nat
  BY <1>1, <1>2, ReceiveDataSender DEF SenderPart
<1>4. CASE DataAfterDone
  <2>1. ReceiverPart' /\ LinkPart'
    BY <1>1, <1>2, <1>3, <1>4, DataAfterDoneInv
  <2> QED BY <1>3, <2>1, InvParts, PTL
<1>5. CASE DataOutOfOrder(Head(data))
  <2>1. ReceiverPart' /\ LinkPart'
    BY <1>1, <1>2, <1>3, <1>5, DataOutOfOrderInv
  <2> QED BY <1>3, <2>1, InvParts, PTL
<1>6. CASE DataInOrder(Head(data))
  <2>1. ReceiverPart' /\ LinkPart'
    BY <1>1, <1>2, <1>3, <1>6, DataInOrderInv
  <2> QED BY <1>3, <2>1, InvParts, PTL
<1>7. CASE UNCHANGED <<receiver, acks, faults>>
  <2>1. ReceiverPart'
    BY <1>1, <1>7, ReceiverUnchanged
  <2>2. LinkPart'
    BY <1>1, <1>2, <1>7 DEF LinkPart, sender, receiver, AcksOnLink
  <2> QED BY <1>3, <2>1, <2>2, InvParts, PTL
<1> QED BY <1>4, <1>5, <1>6, <1>7 DEF ReceiveData

LEMMA InitInv == Init => XferInv
<1> SUFFICES ASSUME Init PROVE XferInv
  OBVIOUS
<1>1. Offsets(Start, Start) = << >>
  BY DEF Offsets
<1>a. /\ Start \in Start .. Size /\ Size \in Nat /\ Start \in Nat
      /\ Start # Size => Start < Size
      /\ << >> \in Seq(Start .. Size) /\ << >> \in Seq(Start .. (Start - 1))
      /\ Start <= Start + InitialCredits
  OBVIOUS
<1>2. ReceiverPart
  <2>1. InOrderOnce /\ AckAllowance
    BY <1>1, <1>a DEF Init, InOrderOnce, AckAllowance
  <2> QED BY <1>a, <2>1 DEF Init, ReceiverPart, XferState
<1>3. SenderPart
  <2>1. CreditWindow /\ DataOnLink
    BY <1>a DEF Init, CreditWindow, DataOnLink
  <2> QED BY <1>a, <2>1 DEF Init, SenderPart, XferState
<1>4. LinkPart
  BY DEF Init, LinkPart, AcksOnLink
<1> QED BY <1>2, <1>3, <1>4, InvParts

LEMMA LossInv == XferInv /\ (LoseData \/ LoseAck) => XferInv'
<1> SUFFICES ASSUME XferInv, LoseData \/ LoseAck PROVE XferInv'
  OBVIOUS
<1>1. ReceiverPart /\ SenderPart /\ LinkPart
  BY InvParts
<1>2. ReceiverPart'
  BY <1>1, ReceiverUnchanged DEF LoseData, LoseAck
<1>3. data' \in Seq(Start .. (high - 1)) /\ acks' \in Seq(Start .. rNext)
  BY <1>1, HeadTailType DEF LoseData, LoseAck, SenderPart, LinkPart, DataOnLink, AcksOnLink
<1>4. SenderPart'
  BY <1>1, <1>3 DEF LoseData, LoseAck, SenderPart, sender, CreditWindow, DataOnLink
<1>5. dataLost' \in 0 .. MaxDataLoss /\ ackLost' \in 0 .. MaxAckLoss
  BY <1>1 DEF LoseData, LoseAck, LinkPart
<1>6. LinkPart'
  BY <1>1, <1>3, <1>5 DEF LoseData, LoseAck, LinkPart, sender, receiver, AcksOnLink
<1> QED BY <1>2, <1>4, <1>6, InvParts, PTL

\* Every step of the engine and of the link keeps the inductive invariant.
LEMMA NextInv == XferInv /\ [Next]_vars => XferInv'
<1> SUFFICES ASSUME XferInv, [Next]_vars PROVE XferInv'
  OBVIOUS
<1>1. CASE Begin
  BY <1>1, BeginInv
<1>2. CASE ReceiveAck
  BY <1>2, ReceiveAckInv
<1>3. CASE Retransmit
  BY <1>3, RetransmitInv
<1>4. CASE ReceiveData
  BY <1>4, ReceiveDataInv
<1>5. CASE LoseData \/ LoseAck
  BY <1>5, LossInv
<1>6. CASE UNCHANGED vars
  BY <1>6 DEF XferInv, TypeOK, Bracketed, CreditWindow, InOrderOnce, DataOnLink, AcksOnLink,
              Verdicts, AckAllowance, vars, sender, receiver
<1> QED BY <1>1, <1>2, <1>3, <1>4, <1>5, <1>6 DEF Next

-----------------------------------------------------------------------------
\* The inductive invariant holds in every reachable state: types and ranges,
\* the order acked <= rNext <= high, the credit window, and the integrity of
\* what was stored (XferSender / XferReceiver, link_xfer.cpp:81-265).
THEOREM XferInvariant == Spec => []XferInv
BY InitInv, NextInv, PTL DEF Spec

\* Whatever is lost, rewound or resent, the receiver's WriteFn gets the source
\* chunk by chunk, in order and once (link_xfer.cpp:225-250).
THEOREM StoresInOrderOnce == Spec => []InOrderOnce
<1>1. XferInv => InOrderOnce
  BY DEF XferInv
<1> QED BY <1>1, XferInvariant, PTL

\* The sender never has more in flight than its credits allow, also while they
\* shrink and the send point rewinds (link_xfer.cpp:95-125).
THEOREM StaysInWindow == Spec => []CreditWindow
<1>1. XferInv => CreditWindow
  BY DEF XferInv
<1> QED BY <1>1, XferInvariant, PTL

\* Neither end reports Done before the whole source is stored
\* (link_xfer.cpp:154, 252).
THEOREM DoneMeansComplete == Spec => []DoneIsComplete
<1>1. XferInv => DoneIsComplete
  <2> SUFFICES ASSUME XferInv, sState = "Done" \/ rState = "Done"
               PROVE  stored = Offsets(Start, Size)
    BY DEF DoneIsComplete
  <2>1. rNext = Size
    BY DEF XferInv, TypeOK, Bracketed, Verdicts
  <2> QED BY <2>1 DEF XferInv, InOrderOnce
<1> QED BY <1>1, XferInvariant, PTL

\* While it waits for a chunk the receiver has sent at most two ACKs naming it:
\* a storm of stray DATA never becomes a storm of ACKs (link_xfer.cpp:220-236).
THEOREM AcksAreBounded == Spec => []AckBound
<1>1. XferInv => AckBound
  BY DEF XferInv, TypeOK, AckAllowance, AckBound
<1> QED BY <1>1, XferInvariant, PTL

-----------------------------------------------------------------------------
(* Refinement of Transfer. *)

LEMMA AbsInitStep == Init => Abs!AbsInit
BY DEF Init, Abs!AbsInit, Abs!Verdict

\* A pump either leaves the verdict alone or fails the transfer.
LEMMA PumpVerdict ==
  ASSUME NEW a, NEW n, NEW c, Pump(a, n, c)
  PROVE  sState' \in {"Active", "Failed"}
BY DEF Pump

LEMMA AbsNextStep == XferInv /\ [Next]_vars => [Abs!AbsNext]_(Abs!absVars)
<1> SUFFICES ASSUME XferInv, [Next]_vars PROVE Abs!AbsNext \/ UNCHANGED Abs!absVars
  OBVIOUS
<1>1. /\ acked \in Start .. Size /\ rNext \in Start .. Size /\ acks \in Seq(Start .. rNext)
      /\ rState = "Active" => rNext < Size
  BY DEF XferInv, TypeOK, AcksOnLink, Verdicts
<1>2. ASSUME sState = "Active", sState' \in {"Active", "Failed"}, acked' = acked, rNext' = rNext
      PROVE  Abs!AbsNext \/ UNCHANGED Abs!absVars
  BY <1>2 DEF Abs!AbsNext, Abs!Fail, Abs!absVars
<1>3. CASE Begin
  BY <1>2, <1>3, PumpVerdict DEF Begin, receiver
<1>4. CASE Retransmit
  BY <1>2, <1>4, PumpVerdict DEF Retransmit, receiver
<1>5. CASE ReceiveAck
  <2> DEFINE n == Head(acks)
  <2>1. n \in Start .. rNext /\ rNext' = rNext
    BY <1>1, <1>5, HeadTailType DEF ReceiveAck, receiver
  <2>2. CASE sState # "Active"
    BY <1>5, <2>1, <2>2 DEF ReceiveAck, sender, Abs!absVars
  <2>3. CASE sState = "Active" /\ (IgnoreAck(n) \/ DuplicateAck(n))
    BY <1>2, <2>1, <2>3, PumpVerdict DEF IgnoreAck, DuplicateAck
  <2>4. CASE sState = "Active" /\ ProgressAck(n)
    <3>1. n > acked /\ acked' = n
      BY <2>4 DEF ProgressAck
    <3>2. acked' \in (acked + 1) .. rNext
      BY <1>1, <2>1, <3>1
    <3>3. \/ n = Size /\ sState' = "Done"
          \/ n < Size /\ sState' \in {"Active", "Failed"}
      <4>1. CASE n = Size
        BY <2>4, <4>1 DEF ProgressAck
      <4>2. CASE n # Size
        <5>1. n < Size
          BY <1>1, <2>1, <4>2
        <5> QED BY <2>4, <4>2, <5>1, PumpVerdict DEF ProgressAck
      <4> QED BY <4>1, <4>2
    <3>4. Abs!Confirm
      BY <2>1, <2>4, <3>1, <3>2, <3>3 DEF Abs!Confirm, Abs!Verdict
    <3> QED BY <3>4 DEF Abs!AbsNext
  <2> QED BY <1>5, <2>2, <2>3, <2>4 DEF ReceiveAck
<1>6. CASE ReceiveData
  <2>1. UNCHANGED <<acked, sState>>
    BY <1>6 DEF ReceiveData, sender
  <2>2. CASE rNext' = rNext
    BY <2>1, <2>2 DEF Abs!absVars
  <2>3. CASE rNext' # rNext
    <3>1. rState = "Active" /\ rNext' = rNext + 1
      BY <1>6, <2>3 DEF ReceiveData, DataAfterDone, DataOutOfOrder, DataInOrder, receiver
    <3> QED BY <1>1, <2>1, <3>1 DEF Abs!AbsNext, Abs!Deliver
  <2> QED BY <2>2, <2>3
<1>7. CASE LoseData \/ LoseAck \/ UNCHANGED vars
  BY <1>7 DEF LoseData, LoseAck, vars, sender, receiver, Abs!absVars
<1> QED BY <1>3, <1>4, <1>5, <1>6, <1>7 DEF Next

\* The engine over a lossy link implements the abstract transfer: ordered
\* delivery, truthful confirmation, and Done only when all is confirmed.
THEOREM ImplementsTransfer == Spec => Implements
<1>1. Spec => Abs!AbsInit /\ [][Abs!AbsNext]_(Abs!absVars)
  BY AbsInitStep, AbsNextStep, XferInvariant, PTL DEF Spec
<1> QED BY <1>1 DEF Implements, Abs!AbsSpec

-----------------------------------------------------------------------------
(* Inbound transfers into memory (AcceptTransfer): the engine around the   *)
(* worker that waits, with DATA that overtakes the answer.                 *)

\* Bodies are received: what is buffered was sent, and what is answered fits.
Buffered == early \in Seq(Start .. (high - 1))

Booleans == {overflow, waiting, crcRight, quiet, linkUp} \subseteq BOOLEAN

Phases ==
  /\ phase \in {"closed", "open", "replaying", "live", "spent", "gone"}
  /\ Len(early) <= MaxBody
  /\ early # << >> => \/ phase \in {"open", "replaying"}
                      \/ phase = "spent" /\ Size > MaxBody
  /\ phase \in {"closed", "open"} => result = "none"
  /\ phase \in {"replaying", "live"} => waiting
  /\ overflow => early = << >>

Answers ==
  /\ DoneOnce
  /\ result \in {"none", "ok", "failed"}
  /\ result = "ok" => crcRight

AcceptPart == Booleans /\ Phases /\ Answers

Received == result = "ok" => rNext = Size

\* The invariant of the inbound transfer by parts, which steps treat one by one.
LEMMA AcceptParts == AcceptInv <=> XferInv /\ Buffered /\ AcceptPart /\ Received
<1>1. AcceptInv => XferInv /\ Buffered /\ AcceptPart /\ Received
  BY DEF AcceptInv, AcceptTypeOK, Buffered, AcceptPart, Booleans, Phases, Answers, Received
<1>2. ASSUME XferInv, Buffered, AcceptPart, Received
      PROVE  AcceptInv
  <2>1. early \in Seq(0 .. Size)
    <3>1. Start .. (high - 1) \subseteq 0 .. Size
      BY <1>2 DEF XferInv, TypeOK
    <3> QED BY <1>2, <3>1, SeqWiden DEF Buffered
  <2>2. TypeOK
    BY <1>2 DEF XferInv
  <2>3. AcceptTypeOK
    BY <1>2, <2>1, <2>2 DEF AcceptPart, Booleans, Phases, Answers, AcceptTypeOK
  <2> QED BY <1>2, <2>3 DEF AcceptInv, Buffered, AcceptPart, Phases, Answers, Received
<1> QED BY <1>1, <1>2

\* The engine's invariant holds where the engine stands still.
LEMMA EngineUnchanged == XferInv /\ UNCHANGED vars => XferInv'
BY NextInv

\* A message handed to the receiver, from the link or from the buffer, keeps the
\* engine's invariant; a receiver that is done has everything.
LEMMA ReceiveInv ==
  ASSUME XferInv, NEW offset \in Start .. (high - 1), Receive(offset),
         data' = data \/ (data # << >> /\ data' = Tail(data)),
         UNCHANGED <<sender, dataLost, ackLost>>
  PROVE  /\ XferInv' /\ rState = "Active" /\ rNext < Size /\ UNCHANGED high
         /\ rState' = "Done" => rNext' = Size
         /\ rState' \in XferState
<1>1. ReceiverPart /\ SenderPart /\ LinkPart
  BY InvParts
<1>2. offset \in Nat /\ offset < high /\ high \in Nat /\ acked \in Nat
  BY <1>1 DEF SenderPart
<1>3. SenderPart'
  <2>1. CASE data' = data
    BY <1>1, <2>1 DEF SenderPart, sender, CreditWindow, DataOnLink
  <2>2. CASE data # << >> /\ data' = Tail(data)
    BY <1>1, <2>2, ReceiveDataSender
  <2> QED BY <2>1, <2>2
<1>4. ReceiverPart' /\ LinkPart'
  BY <1>1, <1>2, DataOutOfOrderInv, DataInOrderInv DEF Receive
<1>5. rState = "Active"
  BY DEF Receive, DataOutOfOrder, DataInOrder
<1>6. UNCHANGED high
  BY DEF sender
<1>7. XferInv'
  BY <1>3, <1>4, InvParts, PTL
<1> QED BY <1>1, <1>4, <1>5, <1>6, <1>7 DEF ReceiverPart

\* Taking from the buffer, or dropping it, leaves only what was sent.
LEMMA BufferedLess ==
  ASSUME Buffered, UNCHANGED high,
         early' \in {early, << >>} \/ (early # << >> /\ early' = Tail(early))
  PROVE  Buffered'
<1> DEFINE S == Start .. (high - 1)
<1>1. early \in Seq(S)
  BY DEF Buffered
<1>2. early' \in Seq(S)
  <2> HIDE DEF S
  <2>1. CASE early' = early
    BY <1>1, <2>1
  <2>2. CASE early' = << >>
    BY <2>2
  <2>3. CASE early # << >> /\ early' = Tail(early)
    BY <1>1, <2>3, HeadTailType
  <2> QED BY <2>1, <2>2, <2>3
<1> QED BY <1>2 DEF Buffered

\* inbound_feed() answers whoever waits exactly once: when the message makes the
\* receiver done or failed (link_service.cpp:234).
LEMMA FeedInv ==
  ASSUME AcceptInv, NEW offset \in Start .. (high - 1), NEW rest \in {"replaying", "live"},
         phase = rest, Feed(offset, rest),
         data' = data \/ (data # << >> /\ data' = Tail(data)),
         UNCHANGED <<sender, dataLost, ackLost, crcRight>>
  PROVE  /\ XferInv' /\ Received' /\ UNCHANGED high
         /\ phase' \in {rest, "spent"}
         /\ DoneOnce' /\ waiting' \in BOOLEAN /\ result' \in {"none", "ok", "failed"}
         /\ result' = "ok" => crcRight'
         /\ phase' = rest => waiting'
<1>1. XferInv /\ AcceptPart
  BY AcceptParts
<1>2. /\ XferInv' /\ UNCHANGED high /\ rState' \in XferState
      /\ rState' = "Done" => rNext' = Size
  BY <1>1, ReceiveInv DEF Feed
<1>3. waiting /\ result = "none" /\ doneRuns = 0
  BY <1>1 DEF AcceptPart, Phases, Answers, DoneOnce
<1>4. CASE rState' = "Active"
  <2>1. phase' = rest /\ UNCHANGED <<waiting, doneRuns, result>>
    BY <1>4 DEF Feed
  <2> QED BY <1>2, <1>3, <2>1 DEF Received, DoneOnce
<1>5. CASE rState' = "Done"
  <2>1. phase' = "spent" /\ Finish(TRUE)
    BY <1>5 DEF Feed
  <2>2. /\ waiting' = FALSE /\ doneRuns' = 1 /\ result' \in {"ok", "failed"}
        /\ result' = "ok" => crcRight
    BY <1>3, <2>1 DEF Finish
  <2>3. DoneOnce' /\ Received'
    BY <1>2, <1>5, <2>1, <2>2 DEF DoneOnce, Received
  <2> QED BY <1>2, <2>1, <2>2, <2>3
<1>6. CASE rState' = "Failed"
  <2>1. phase' = "spent" /\ Finish(FALSE)
    BY <1>6 DEF Feed
  <2>2. waiting' = FALSE /\ doneRuns' = 1 /\ result' = "failed"
    BY <1>3, <2>1 DEF Finish
  <2>3. DoneOnce' /\ Received'
    BY <2>1, <2>2 DEF DoneOnce, Received
  <2> QED BY <1>2, <2>1, <2>2, <2>3
<1> QED BY <1>2, <1>4, <1>5, <1>6 DEF XferState

\* The steps that move no DATA: the worker's open and close, the transition to
\* live, and the passing of time.
LEMMA WorkerInv ==
  ASSUME AcceptInv, Open \/ Expect \/ ReplayOver \/ Close \/ Elapse
  PROVE  AcceptInv'
<1>1. XferInv /\ Buffered /\ AcceptPart /\ Received
  BY AcceptParts
<1>2. UNCHANGED vars
  BY DEF Open, Expect, ReplayOver, Close, Elapse
<1>3. XferInv'
  BY <1>1, <1>2, EngineUnchanged
<1>4. UNCHANGED <<high, rNext, result, doneRuns, crcRight>>
  BY <1>2 DEF vars, sender, receiver, Open, Expect, ReplayOver, Close, Elapse
<1>5. early' = early \/ early' = << >>
  BY DEF Open, Expect, ReplayOver, Close, Elapse
<1>7. Buffered' /\ Received'
  BY <1>1, <1>4, <1>5, BufferedLess DEF Received
<1>6. AcceptPart'
  <2>1. Booleans'
    BY <1>1 DEF AcceptPart, Booleans, Open, Expect, ReplayOver, Close, Elapse
  <2>2. Phases'
    BY <1>1, AcceptAssumption DEF AcceptPart, Phases, Answers, DoneOnce, Open, Expect,
                                  ReplayOver, Close, Elapse
  <2>3. Answers'
    BY <1>1 DEF AcceptPart, Phases, Answers, DoneOnce, Open, Expect, ReplayOver, Close, Elapse
  <2> QED BY <2>1, <2>2, <2>3 DEF AcceptPart
<1> QED BY <1>3, <1>6, <1>7, AcceptParts, PTL

\* An expect() that fails at once, or has nothing to receive.
LEMMA ExpectEndsInv ==
  ASSUME AcceptInv, ExpectEnds
  PROVE  AcceptInv'
<1>1. XferInv /\ Buffered /\ AcceptPart /\ Received
  BY AcceptParts
<1>2. UNCHANGED vars /\ UNCHANGED <<early, overflow, crcRight, quiet, linkUp>>
      /\ phase = "open" /\ phase' = "spent"
  BY DEF ExpectEnds
<1>3. XferInv'
  BY <1>1, <1>2, EngineUnchanged
<1>4. UNCHANGED <<high, rNext>>
  BY <1>2 DEF vars, sender, receiver
<1>5. result = "none" /\ doneRuns = 0
  BY <1>1, <1>2 DEF AcceptPart, Phases, Answers, DoneOnce
<1>6. Size = 0 => rNext = Size
  BY <1>1 DEF XferInv, TypeOK
<1>7. Buffered' /\ Received'
  BY <1>1, <1>2, <1>4, <1>6 DEF Buffered, Received, ExpectEnds, Finish
<1>8. /\ waiting' = FALSE /\ doneRuns' = 1
      /\ result' \in {"ok", "failed"} /\ (result' = "ok" => crcRight)
  BY <1>5 DEF ExpectEnds, Finish
<1>0. early # << >> => Size > MaxBody
  <2>1. CASE Size = 0
    <3>1. Start .. (high - 1) = {}
      BY <1>1, <2>1 DEF XferInv, TypeOK
    <3>2. early # << >> => Head(early) \in Start .. (high - 1)
      BY <1>1, HeadTailType DEF Buffered
    <3> QED BY <3>1, <3>2
  <2>2. CASE overflow
    BY <1>1, <2>2 DEF AcceptPart, Phases
  <2> QED BY <2>1, <2>2 DEF ExpectEnds
<1>9. AcceptPart'
  <2>1. Booleans'
    BY <1>0, <1>1, <1>2, <1>8 DEF AcceptPart, Booleans
  <2>2. Phases'
    BY <1>0, <1>1, <1>2, <1>8, AcceptAssumption DEF AcceptPart, Phases, Answers, DoneOnce
  <2>3. Answers'
    BY <1>0, <1>1, <1>2, <1>8 DEF AcceptPart, Phases, Answers, DoneOnce
  <2> QED BY <2>1, <2>2, <2>3 DEF AcceptPart
<1> QED BY <1>3, <1>7, <1>9, AcceptParts, PTL

\* What was buffered reaches the receiver under the lock.
LEMMA ReplayInv ==
  ASSUME AcceptInv, Replay
  PROVE  AcceptInv'
<1>1. XferInv /\ Buffered /\ AcceptPart /\ Received
  BY AcceptParts
<1>2. /\ phase = "replaying" /\ early # << >> /\ Feed(Head(early), "replaying")
      /\ early' = IF phase' = "spent" THEN << >> ELSE Tail(early)
      /\ quiet' = FALSE
      /\ data' = data /\ UNCHANGED <<sender, dataLost, ackLost, crcRight>>
      /\ UNCHANGED <<overflow, crcRight, linkUp>>
  BY DEF Replay, phone
<1>3. Head(early) \in Start .. (high - 1) /\ Tail(early) \in Seq(Start .. (high - 1))
      /\ Len(Tail(early)) = Len(early) - 1 /\ Len(early) \in Nat
  <2> DEFINE S == Start .. (high - 1)
  <2>1. early \in Seq(S) /\ early # << >>
    BY <1>1, <1>2 DEF Buffered
  <2> HIDE DEF S
  <2>2. Head(early) \in S /\ Tail(early) \in Seq(S)
    BY <2>1, HeadTailType
  <2>3. Len(Tail(early)) = Len(early) - 1 /\ Len(early) \in Nat
    BY <2>1
  <2> QED BY <2>2, <2>3 DEF S
<1>4. /\ XferInv' /\ Received' /\ UNCHANGED high
      /\ phase' \in {"replaying", "spent"}
      /\ DoneOnce' /\ waiting' \in BOOLEAN /\ result' \in {"none", "ok", "failed"}
      /\ result' = "ok" => crcRight'
      /\ phase' = "replaying" => waiting'
  <2> DEFINE offset == Head(early)
             rest == "replaying"
  <2>1. /\ offset \in Start .. (high - 1) /\ rest \in {"replaying", "live"}
        /\ phase = rest /\ Feed(offset, rest)
        /\ data' = data
        /\ UNCHANGED <<sender, dataLost, ackLost, crcRight>>
    BY <1>2, <1>3
  <2> HIDE DEF offset
  <2> QED BY <2>1, FeedInv
<1>5. Buffered'
  <2>1. early' = Tail(early) \/ early' = << >>
    BY <1>2
  <2> QED BY <1>1, <1>2, <1>4, <2>1, BufferedLess
<1>6. Len(early') <= MaxBody /\ (early' # << >> => phase' = "replaying")
  BY <1>1, <1>2, <1>3, <1>4, AcceptAssumption DEF AcceptPart, Phases, Answers
<1>7. AcceptPart'
  <2>1. Booleans'
    BY <1>1, <1>2, <1>4, <1>6 DEF AcceptPart, Booleans
  <2>2. Phases'
    BY <1>1, <1>2, <1>4, <1>6, AcceptAssumption DEF AcceptPart, Phases, Answers, DoneOnce
  <2>3. Answers'
    BY <1>1, <1>2, <1>4, <1>6 DEF AcceptPart, Phases, Answers, DoneOnce
  <2> QED BY <2>1, <2>2, <2>3 DEF AcceptPart
<1> QED BY <1>4, <1>5, <1>7, AcceptParts, PTL

\* A DATA message from the link: kept, fed to a live receiver, or ignored.
LEMMA DataArrivesInv ==
  ASSUME AcceptInv, DataArrives
  PROVE  AcceptInv'
<1>1. XferInv /\ Buffered /\ AcceptPart /\ Received
  BY AcceptParts
<1>2. /\ data # << >> /\ data' = Tail(data)
      /\ UNCHANGED <<sender, dataLost, ackLost>> /\ UNCHANGED <<crcRight, linkUp>>
  BY DEF DataArrives
<1>3. /\ ReceiverPart /\ SenderPart /\ LinkPart
      /\ Head(data) \in Start .. (high - 1) /\ UNCHANGED high
  BY <1>1, <1>2, InvParts, HeadTailType DEF SenderPart, DataOnLink, sender
<1>4. CASE Live(Head(data))
  <2>1. /\ XferInv' /\ Received'
        /\ phase' \in {"live", "spent"}
        /\ DoneOnce' /\ waiting' \in BOOLEAN /\ result' \in {"none", "ok", "failed"}
        /\ result' = "ok" => crcRight'
        /\ phase' = "live" => waiting'
    BY <1>2, <1>3, <1>4, FeedInv DEF Live
  <2>2. quiet' = FALSE /\ UNCHANGED <<early, overflow>> /\ phase = "live"
    BY <1>4 DEF Live
  <2>3. Buffered'
    BY <1>1, <1>3, <2>2 DEF Buffered
  <2>4. AcceptPart'
    <3>1. Booleans'
      BY <1>1, <1>2, <2>1, <2>2 DEF AcceptPart, Booleans
    <3>2. Phases'
      BY <1>1, <1>2, <2>1, <2>2, AcceptAssumption DEF AcceptPart, Phases, Answers, DoneOnce
    <3>3. Answers'
      BY <1>1, <1>2, <2>1, <2>2 DEF AcceptPart, Phases, Answers, DoneOnce
    <3> QED BY <3>1, <3>2, <3>3 DEF AcceptPart
  <2> QED BY <2>1, <2>3, <2>4, AcceptParts, PTL
<1>5. ASSUME UNCHANGED <<receiver, acks, faults>> PROVE XferInv'
  <2>1. ReceiverPart'
    BY <1>3, <1>5, ReceiverUnchanged
  <2>2. SenderPart'
    BY <1>2, <1>3, ReceiveDataSender
  <2>3. LinkPart'
    BY <1>2, <1>3, <1>5 DEF LinkPart, sender, receiver, AcksOnLink
  <2> QED BY <2>1, <2>2, <2>3, InvParts, PTL
<1>6. CASE Buffer(Head(data))
  <2>1. /\ phase = "open"
        /\ UNCHANGED <<phase, waiting, quiet, doneRuns, result, receiver, acks, faults>>
        /\ \/ overflow' = TRUE /\ early' = << >>
           \/ /\ ~overflow /\ UNCHANGED overflow
              /\ Len(early) + 1 <= MaxBody /\ early' = Append(early, Head(data))
    <3>1. Len(early) \in Nat
      BY <1>1 DEF Buffered
    <3> QED BY <1>6, <3>1, AcceptAssumption DEF Buffer
  <2>2. XferInv' /\ Received'
    BY <1>1, <1>5, <2>1 DEF Received, receiver
  <2>3. early' \in Seq(Start .. (high - 1)) /\ Len(early') <= MaxBody
    <3> DEFINE S == Start .. (high - 1)
               x == Head(data)
    <3>1. early \in Seq(S) /\ x \in S
      BY <1>1, <1>3 DEF Buffered
    <3>2. early' = << >> \/ (Len(early) + 1 <= MaxBody /\ early' = Append(early, x))
      BY <2>1
    <3> HIDE DEF S, x
    <3>3. CASE early' = << >>
      <4>1. << >> \in Seq(S) /\ Len(<< >>) = 0
        OBVIOUS
      <4> QED BY <3>3, <4>1, AcceptAssumption DEF S
    <3>4. CASE Len(early) + 1 <= MaxBody /\ early' = Append(early, x)
      <4>1. Append(early, x) \in Seq(S) /\ Len(Append(early, x)) = Len(early) + 1
        BY <3>1
      <4> QED BY <3>4, <4>1 DEF S
    <3> QED BY <3>2, <3>3, <3>4
  <2>4. Buffered'
    BY <1>3, <2>3 DEF Buffered
  <2>5. AcceptPart'
    <3>1. Booleans'
      BY <1>1, <1>2, <2>1, <2>3 DEF AcceptPart, Booleans
    <3>2. Phases'
      BY <1>1, <1>2, <2>1, <2>3, AcceptAssumption DEF AcceptPart, Phases, Answers, DoneOnce
    <3>3. Answers'
      BY <1>1, <1>2, <2>1, <2>3 DEF AcceptPart, Phases, Answers, DoneOnce
    <3> QED BY <3>1, <3>2, <3>3 DEF AcceptPart
  <2> QED BY <2>2, <2>4, <2>5, AcceptParts, PTL
<1>7. CASE Ignore
  <2>1. UNCHANGED <<phase, early, overflow, waiting, quiet, doneRuns, result, receiver, acks,
                    faults>>
    BY <1>7 DEF Ignore
  <2>2. XferInv' /\ Received' /\ Buffered'
    BY <1>1, <1>3, <1>5, <2>1 DEF Received, Buffered, receiver
  <2>3. AcceptPart'
    <3>1. Booleans'
      BY <1>1, <1>2, <2>1 DEF AcceptPart, Booleans
    <3>2. Phases'
      BY <1>1, <1>2, <2>1, AcceptAssumption DEF AcceptPart, Phases, Answers, DoneOnce
    <3>3. Answers'
      BY <1>1, <1>2, <2>1 DEF AcceptPart, Phases, Answers, DoneOnce
    <3> QED BY <3>1, <3>2, <3>3 DEF AcceptPart
  <2> QED BY <2>2, <2>3, AcceptParts, PTL
<1> QED BY <1>4, <1>6, <1>7 DEF DataArrives

\* service_tick() fails a transfer that has been quiet.
LEMMA StallInv ==
  ASSUME AcceptInv, Stall
  PROVE  AcceptInv'
<1>1. XferInv /\ Buffered /\ AcceptPart /\ Received
  BY AcceptParts
<1>2. UNCHANGED vars /\ UNCHANGED <<early, overflow, crcRight, quiet, linkUp>>
      /\ phase # "replaying" /\ waiting /\ phase' = "spent" /\ Finish(FALSE)
  BY DEF Stall, LockFree
<1>3. XferInv'
  BY <1>1, <1>2, EngineUnchanged
<1>4. UNCHANGED <<high, rNext>>
  BY <1>2 DEF vars, sender, receiver
<1>5. phase = "live" /\ doneRuns = 0
  BY <1>1, <1>2 DEF AcceptPart, Phases, Answers, DoneOnce
<1>6. waiting' = FALSE /\ doneRuns' = 1 /\ result' = "failed"
  BY <1>2, <1>5 DEF Finish
<1>7. Buffered' /\ Received' /\ AcceptPart'
  BY <1>1, <1>2, <1>4, <1>5, <1>6 DEF Buffered, Received, AcceptPart, Booleans, Phases, Answers,
                                      DoneOnce
<1> QED BY <1>3, <1>7, AcceptParts, PTL

\* The end of the session answers the one who waits, and only then.
LEMMA AcceptDisconnectInv ==
  ASSUME AcceptInv, Disconnect
  PROVE  AcceptInv'
<1>1. XferInv /\ Buffered /\ AcceptPart /\ Received
  BY AcceptParts
<1>2. /\ linkUp' = FALSE /\ phase' = "gone" /\ early' = << >> /\ data' = << >> /\ acks' = << >>
      /\ UNCHANGED <<sender, receiver, dataLost, ackLost, faults, overflow, crcRight, quiet>>
      /\ IF waiting THEN Finish(FALSE) ELSE UNCHANGED <<waiting, result, doneRuns>>
      /\ phase # "replaying"
  BY DEF Disconnect, LockFree
<1>3. XferInv'
  <2>1. ReceiverPart /\ SenderPart /\ LinkPart
    BY <1>1, InvParts
  <2>2. ReceiverPart'
    BY <1>2, <2>1, ReceiverUnchanged
  <2>3. SenderPart'
    BY <1>2, <2>1 DEF SenderPart, sender, CreditWindow, DataOnLink
  <2>4. LinkPart'
    BY <1>2, <2>1 DEF LinkPart, sender, receiver, AcksOnLink
  <2> QED BY <2>2, <2>3, <2>4, InvParts, PTL
<1>4. UNCHANGED <<high, rNext>>
  BY <1>2 DEF sender, receiver
<1>5. Buffered' /\ Received'
  BY <1>1, <1>2, <1>4 DEF Buffered, Received, Finish
<1>6. waiting => doneRuns = 0
  BY <1>1 DEF AcceptPart, Phases, Answers, DoneOnce
<1>7. waiting' = FALSE /\ (~waiting => UNCHANGED <<result, doneRuns>>)
      /\ (waiting => doneRuns' = 1 /\ result' = "failed")
  BY <1>1, <1>2, <1>6 DEF AcceptPart, Phases, Answers, Finish
<1>8. AcceptPart'
  <2>1. Booleans'
    BY <1>1, <1>2, <1>7 DEF AcceptPart, Booleans
  <2>2. Phases'
    BY <1>1, <1>2, <1>7, AcceptAssumption DEF AcceptPart, Phases, Answers, DoneOnce
  <2>3. Answers'
    BY <1>1, <1>2, <1>7 DEF AcceptPart, Phases, Answers, DoneOnce
  <2> QED BY <2>1, <2>2, <2>3 DEF AcceptPart
<1> QED BY <1>3, <1>5, <1>8, AcceptParts, PTL

\* The phone's engine and the link never touch the pager's side.
LEMMA PhoneInv ==
  ASSUME AcceptInv, PhoneStep \/ PhoneGivesUp
  PROVE  AcceptInv'
<1>1. XferInv /\ Buffered /\ AcceptPart /\ Received
  BY AcceptParts
<1>2. UNCHANGED accept
  BY DEF PhoneStep, PhoneGivesUp
<1>3. XferInv'
  <2>1. CASE PhoneStep
    BY <1>1, <2>1, NextInv DEF PhoneStep, Next
  <2>2. CASE PhoneGivesUp
    <3>1. sState' = "Failed"
          /\ UNCHANGED <<acked, next, high, rewound, credits, receiver, data, acks, dataLost, ackLost,
                         faults>>
      BY <2>2 DEF PhoneGivesUp
    <3>2. ReceiverPart /\ SenderPart /\ LinkPart
      BY <1>1, InvParts
    <3>3. ReceiverPart'
      BY <3>1, <3>2, ReceiverUnchanged
    <3>4. SenderPart'
      BY <3>1, <3>2 DEF SenderPart, CreditWindow, DataOnLink, XferState
    <3>5. LinkPart'
      BY <3>1, <3>2 DEF LinkPart, receiver, AcksOnLink
    <3> QED BY <3>3, <3>4, <3>5, InvParts, PTL
  <2> QED BY <2>1, <2>2
<1>4. high <= high' /\ high \in Nat /\ high' \in Nat /\ rNext' = rNext
  <2>1. high \in Nat /\ high' \in Nat /\ next' \in Nat
    BY <1>1, <1>3 DEF XferInv, TypeOK
  <2>2. high' = high \/ high' = (IF next' > high THEN next' ELSE high)
    BY DEF PhoneStep, PhoneGivesUp, Begin, ReceiveAck, Retransmit, LoseData, LoseAck, IgnoreAck,
           DuplicateAck, ProgressAck, Pump, sender
  <2>3. UNCHANGED rNext
    BY DEF PhoneStep, PhoneGivesUp, Begin, ReceiveAck, Retransmit, LoseData, LoseAck, receiver
  <2> QED BY <2>1, <2>2, <2>3
<1>5. Buffered'
  <2>1. early \in Seq(Start .. (high' - 1))
    <3> DEFINE h == high
               g == high'
    <3>1. h \in Nat /\ g \in Nat /\ h <= g
      BY <1>4
    <3>2. early \in Seq(Start .. (h - 1))
      BY <1>1 DEF Buffered
    <3> HIDE DEF h, g
    <3>3. early \in Seq(Start .. (g - 1))
      BY <3>1, <3>2, SeqRaise
    <3> QED BY <3>3 DEF g
  <2> QED BY <1>2, <2>1 DEF Buffered, accept
<1>6. Received' /\ AcceptPart'
  BY <1>1, <1>2, <1>4 DEF Received, AcceptPart, Booleans, Phases, Answers, DoneOnce, accept
<1> QED BY <1>3, <1>5, <1>6, AcceptParts, PTL

\* Nothing has happened yet.
LEMMA AcceptInitInv == AcceptInit => AcceptInv
<1> SUFFICES ASSUME AcceptInit PROVE AcceptInv
  OBVIOUS
<1>1. XferInv
  BY InitInv DEF AcceptInit
<1>2. Buffered
  BY DEF AcceptInit, Buffered
<1>3. Received
  BY DEF AcceptInit, Received
<1>4. Len(early) = 0 /\ early = << >>
  BY DEF AcceptInit
<1>5. AcceptPart
  <2>1. Booleans
    BY DEF AcceptInit, Booleans
  <2>2. Phases /\ Answers
    BY <1>4, AcceptAssumption DEF AcceptInit, Phases, Answers, DoneOnce
  <2> QED BY <2>1, <2>2 DEF AcceptPart
<1> QED BY <1>1, <1>2, <1>3, <1>5, AcceptParts

\* Every step of the inbound transfer keeps the inductive invariant.
LEMMA AcceptNextInv ==
  ASSUME AcceptInv, [AcceptNext]_acceptVars
  PROVE  AcceptInv'
<1>1. CASE Open \/ Expect \/ ReplayOver \/ Close \/ Elapse
  BY <1>1, WorkerInv
<1>2. CASE ExpectEnds \/ Replay \/ DataArrives
  BY <1>2, ExpectEndsInv, ReplayInv, DataArrivesInv
<1>3. CASE Stall \/ Disconnect
  BY <1>3, StallInv, AcceptDisconnectInv
<1>4. CASE PhoneStep \/ PhoneGivesUp
  BY <1>4, PhoneInv
<1>5. CASE UNCHANGED acceptVars
  <2>1. XferInv /\ Buffered /\ AcceptPart /\ Received
    BY AcceptParts
  <2>2. XferInv'
    BY <1>5, <2>1, EngineUnchanged DEF acceptVars
  <2>3. UNCHANGED <<high, rNext>> /\ UNCHANGED accept
    BY <1>5 DEF acceptVars, vars, sender, receiver
  <2>4. Buffered' /\ Received' /\ AcceptPart'
    BY <2>1, <2>3 DEF Buffered, Received, AcceptPart, Booleans, Phases, Answers, DoneOnce,
                      accept
  <2> QED BY <2>2, <2>4, AcceptParts, PTL
<1> QED BY <1>1, <1>2, <1>3, <1>4, <1>5 DEF AcceptNext

\* The inductive invariant holds in every reachable state: the buffer holds only
\* what was sent and fits the bound, and the phases tell who waits
\* (link_service.cpp:250-271, 682-779).
THEOREM AcceptInvariant == AcceptSpec => []AcceptInv
BY AcceptInitInv, AcceptNextInv, PTL DEF AcceptSpec

\* The worker is answered exactly once per expect, by the receiver, the stall
\* timer or the disconnect, whichever comes first (link_service.h:172).
THEOREM AnsweredOnce == AcceptSpec => []DoneOnce
<1>1. AcceptInv => DoneOnce
  BY DEF AcceptInv
<1> QED BY <1>1, AcceptInvariant, PTL

\* A worker that is told the body arrived has all of it, in order, with the right
\* checksum, however DATA overtook the answer (link_service.cpp:200-222).
THEOREM OkMeansWhole == AcceptSpec => []OkIsWhole
<1>1. AcceptInv => OkIsWhole
  BY DEF AcceptInv, XferInv, InOrderOnce, OkIsWhole
<1> QED BY <1>1, AcceptInvariant, PTL
=============================================================================
