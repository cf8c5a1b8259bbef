------------------------------ MODULE BulkXfer ------------------------------
(***************************************************************************)
(* The PagerLink bulk-transfer engine (src/src/hal/link/link_xfer.cpp): one *)
(* XferSender and one XferReceiver joined by a link that is FIFO but may   *)
(* lose whole messages (a full queue drops packets and the reassembler     *)
(* then discards the message they belonged to).                            *)
(*                                                                         *)
(* Offsets count chunks, not bytes: every DATA message but the last        *)
(* carries exactly chunk_ bytes and both ends only ever name chunk         *)
(* boundaries, so byte offsets and chunk numbers are in bijection and      *)
(* "bytes in flight, rounded up to messages" (link_xfer.cpp:100) is a      *)
(* difference of chunk numbers.                                            *)
(*                                                                         *)
(* Each action is one entry into the engine under the link service lock:   *)
(* the owner's first pump, an ACK followed by the pump the owner makes     *)
(* after it, a DATA message, or the retransmit timer followed by its pump. *)
(* The timer may fire while MaxInFlight messages still travel, racing late *)
(* ACKs; MaxInFlight = 0 lets it fire on a silent link only.               *)
(***************************************************************************)
EXTENDS Integers, Sequences

CONSTANTS
  Size,            \* chunks in the source
  Start,           \* first chunk to send
  InitialCredits,  \* the implicit first grant, link_frame.h INITIAL_CREDITS
  Window,          \* credits carried by every ACK
  AckEvery,        \* in-order DATA messages between two ACKs
  MaxDataLoss,     \* bound: DATA messages the link loses
  MaxAckLoss,      \* bound: ACK messages the link loses
  MaxFaults,       \* bound: failed reads, writes and sends
  MaxInFlight      \* bound: messages on the link when the timer fires

ASSUME XferAssumption ==
  /\ Size \in Nat /\ Start \in 0 .. Size
  /\ InitialCredits \in Nat \ {0} /\ Window \in 1 .. InitialCredits
  /\ AckEvery \in Nat \ {0}
  /\ MaxDataLoss \in Nat /\ MaxAckLoss \in Nat /\ MaxFaults \in Nat
  /\ MaxInFlight \in Nat

VARIABLES
  acked, next, high, rewound, credits, sState,        \* XferSender
  rNext, lastAck, sinceAck, gapAcked, rState,         \* XferReceiver
  stored,     \* history: the chunks handed to the receiver's WriteFn, in order
  acksHere,   \* history: ACKs sent since the receiver reached rNext
  data, acks, \* messages on the link: DATA offsets, ACK offsets
  dataLost, ackLost, faults

sender == <<acked, next, high, rewound, credits, sState>>
receiver == <<rNext, lastAck, sinceAck, gapAcked, rState, stored, acksHere>>
vars == <<sender, receiver, data, acks, dataLost, ackLost, faults>>

XferState == {"Active", "Done", "Failed"}

-----------------------------------------------------------------------------
Init ==
  /\ acked = Start /\ next = Start /\ high = Start
  /\ rewound = FALSE
  /\ credits = InitialCredits
  /\ sState = IF Start = Size THEN "Done" ELSE "Active"
  /\ rNext = Start /\ lastAck = Start
  /\ sinceAck = 0 /\ gapAcked = FALSE
  /\ rState = IF Start = Size THEN "Done" ELSE "Active"
  /\ stored = << >> /\ acksHere = 0
  /\ data = << >> /\ acks = << >>
  /\ dataLost = 0 /\ ackLost = 0 /\ faults = 0

-----------------------------------------------------------------------------
(* XferSender *)

\* Mutations of PumpLimit: past the source; a window counted from the send point.
PumpLimitNoEnd(a, n, c) == IF n < a + c THEN a + c ELSE n
PumpLimitFromNext(a, n, c) == IF n + c < Size THEN n + c ELSE Size

\* Where pump() stops when nothing fails: the end of the source or of the
\* window, or where the send point already is if the window has shrunk.
PumpLimit(a, n, c) ==
  LET edge == IF a + c < Size THEN a + c ELSE Size
  IN  IF n < edge THEN edge ELSE n

\* The offsets from..to-1, the DATA messages one pump puts on the link.
Offsets(from, to) == [i \in 1 .. (to - from) |-> from + i - 1]

\* pump() with acknowledged offset a, send point n and window c: every chunk
\* the window allows, or up to a chunk whose read or send fails.
Pump(a, n, c) ==
  LET limit == PumpLimit(a, n, c)
  IN  /\ \/ /\ next' = limit
            /\ sState' = "Active"
            /\ UNCHANGED faults
         \/ /\ faults < MaxFaults
            /\ next' \in n .. (limit - 1)
            /\ sState' = "Failed"
            /\ faults' = faults + 1
      /\ high' = IF next' > high THEN next' ELSE high
      /\ data' = data \o Offsets(n, next')

\* The owner opens the transfer: the first pump.
Begin ==
  /\ sState = "Active" /\ high = Start
  /\ Pump(acked, next, credits)
  /\ UNCHANGED <<acked, rewound, credits, acks, dataLost, ackLost>>
  /\ UNCHANGED receiver

\* on_ack() for an ACK it ignores: stale, or about bytes never sent.
IgnoreAck(n) ==
  /\ n < acked \/ n > high
  /\ Pump(acked, next, credits)
  /\ UNCHANGED <<acked, rewound, credits>>

\* on_ack() with no progress: one go-back-N rewind per acknowledged offset.
DuplicateAck(n) ==
  LET rewinds == next > acked /\ ~rewound
  IN  /\ n = acked
      /\ rewound' = (rewound \/ rewinds)
      /\ credits' = Window
      /\ acked' = n
      /\ Pump(n, IF rewinds THEN acked ELSE next, Window)

\* on_ack() with progress: an ACK that overtook a rewind moves the send point.
ProgressAck(n) ==
  /\ n > acked /\ n <= high
  /\ acked' = n
  /\ rewound' = FALSE
  /\ credits' = Window
  /\ IF n = Size
     THEN /\ sState' = "Done"
          /\ next' = IF next < n THEN n ELSE next
          /\ UNCHANGED <<high, data, faults>>
     ELSE Pump(n, IF next < n THEN n ELSE next, Window)

\* An ACK reaches the sender: SendJob::on_ack, then pump() by the owner.
ReceiveAck ==
  /\ acks # << >>
  /\ acks' = Tail(acks)
  /\ IF sState = "Active"
     THEN IgnoreAck(Head(acks)) \/ DuplicateAck(Head(acks)) \/ ProgressAck(Head(acks))
     ELSE UNCHANGED <<sender, data, faults>>
  /\ UNCHANGED <<receiver, dataLost, ackLost>>

\* No ACK for XFER_RETRANSMIT_MS: retransmit(), and pump() if it rewound.
Retransmit ==
  /\ sState = "Active" /\ high # acked
  /\ Len(data) + Len(acks) <= MaxInFlight
  /\ rewound' = TRUE
  /\ Pump(acked, acked, credits)
  /\ UNCHANGED <<acked, credits, acks, dataLost, ackLost>>
  /\ UNCHANGED receiver

-----------------------------------------------------------------------------
(* XferReceiver *)

\* j ACKs of offset n go out, after `before` others with that offset.
PutAcks(j, n, before) ==
  /\ acks' = acks \o [i \in 1 .. j |-> n]
  /\ acksHere' = before + j
  /\ lastAck' = IF j > 0 THEN n ELSE lastAck

\* The k ACKs of offset n go out, or the link refuses one of them.
SendAcks(k, n, before, stateIfSent) ==
  \/ /\ PutAcks(k, n, before)
     /\ rState' = stateIfSent
     /\ UNCHANGED faults
  \/ /\ faults < MaxFaults
     /\ \E j \in 0 .. (k - 1) : PutAcks(j, n, before)
     /\ rState' = "Failed"
     /\ faults' = faults + 1

\* DATA after completion: our final ACK was lost, so it is sent again. A
\* refused send changes nothing here, so it is the loss of this ACK.
DataAfterDone ==
  /\ rState = "Done"
  /\ \/ /\ acks' = Append(acks, rNext)
        /\ lastAck' = rNext
        /\ UNCHANGED faults
     \/ /\ faults < MaxFaults
        /\ faults' = faults + 1
        /\ UNCHANGED <<acks, lastAck>>
  /\ UNCHANGED <<rNext, sinceAck, gapAcked, rState, stored, acksHere>>

\* Mutation of DataOutOfOrder: every DATA of a gap is answered.
DataOutOfOrderStorm(offset) ==
  /\ rState = "Active"
  /\ offset # rNext
  /\ SendAcks(1, rNext, acksHere, "Active")
  /\ UNCHANGED <<rNext, sinceAck, gapAcked, stored>>

\* Mutation of DataOutOfOrder: a gap is never answered.
DataOutOfOrderSilent(offset) ==
  /\ rState = "Active"
  /\ offset # rNext
  /\ gapAcked' = TRUE
  /\ UNCHANGED <<rNext, lastAck, sinceAck, rState, stored, acksHere, acks, faults>>

\* DATA at another offset than the expected one: the bytes are dropped. The
\* first of a gap is answered, with a second ACK if the sender has not seen
\* this offset yet; the rest of the gap is not.
DataOutOfOrder(offset) ==
  LET k == IF gapAcked THEN 0 ELSE IF lastAck # rNext THEN 2 ELSE 1
  IN  /\ rState = "Active"
      /\ offset # rNext
      /\ gapAcked' = TRUE
      /\ SendAcks(k, rNext, acksHere, "Active")
      /\ UNCHANGED <<rNext, sinceAck, stored>>

\* Mutation of DataInOrder: the offset of the message is not checked.
DataInOrderUnchecked(offset) ==
  LET last == rNext + 1 = Size
  IN  /\ rState = "Active"
      /\ gapAcked' = FALSE
      /\ rNext' = rNext + 1
      /\ stored' = Append(stored, offset)
      /\ sinceAck' = 0
      /\ SendAcks(1, rNext + 1, 0, IF last THEN "Done" ELSE "Active")

\* Mutation of DataInOrder: acknowledges the chunk after the one just written.
DataInOrderAckAhead(offset) ==
  LET last == rNext + 1 = Size
  IN  /\ rState = "Active"
      /\ offset = rNext
      /\ gapAcked' = FALSE
      /\ rNext' = rNext + 1
      /\ stored' = Append(stored, offset)
      /\ sinceAck' = 0
      /\ SendAcks(1, IF last THEN Size ELSE rNext + 2, 0, IF last THEN "Done" ELSE "Active")

\* The expected DATA: written, counted, and acknowledged when it is the last
\* one or the AckEvery-th since the previous in-order ACK.
DataInOrder(offset) ==
  LET last == rNext + 1 = Size
      due  == sinceAck + 1 >= AckEvery
  IN  /\ rState = "Active"
      /\ offset = rNext
      /\ gapAcked' = FALSE
      /\ \/ /\ rNext' = rNext + 1
            /\ stored' = Append(stored, offset)
            /\ sinceAck' = IF due /\ ~last THEN 0 ELSE sinceAck + 1
            /\ SendAcks(IF last \/ due THEN 1 ELSE 0, rNext + 1, 0,
                        IF last THEN "Done" ELSE "Active")
         \/ /\ faults < MaxFaults      \* the write fails
            /\ faults' = faults + 1
            /\ rState' = "Failed"
            /\ UNCHANGED <<rNext, stored, sinceAck, lastAck, acks, acksHere>>

\* A DATA message reaches the receiver.
ReceiveData ==
  /\ data # << >>
  /\ data' = Tail(data)
  /\ \/ DataAfterDone
     \/ DataOutOfOrder(Head(data))
     \/ DataInOrder(Head(data))
     \/ rState = "Failed" /\ UNCHANGED <<receiver, acks, faults>>
  /\ UNCHANGED <<sender, dataLost, ackLost>>

-----------------------------------------------------------------------------
(* The link *)

LoseData ==
  /\ data # << >> /\ dataLost < MaxDataLoss
  /\ data' = Tail(data)
  /\ dataLost' = dataLost + 1
  /\ UNCHANGED <<sender, receiver, acks, ackLost, faults>>

LoseAck ==
  /\ acks # << >> /\ ackLost < MaxAckLoss
  /\ acks' = Tail(acks)
  /\ ackLost' = ackLost + 1
  /\ UNCHANGED <<sender, receiver, data, dataLost, faults>>

Next ==
  \/ Begin \/ ReceiveAck \/ Retransmit
  \/ ReceiveData
  \/ LoseData \/ LoseAck

Spec == Init /\ [][Next]_vars

\* The link delivers what it does not lose, and the owner's tick, which runs
\* at least once per service deadline, fires the timer while bytes are
\* unacknowledged (link_service.cpp:474).
Fairness ==
  /\ WF_vars(Begin) /\ WF_vars(ReceiveAck) /\ WF_vars(ReceiveData)
  /\ WF_vars(Retransmit)

FairSpec == Spec /\ Fairness

-----------------------------------------------------------------------------
(* Properties *)

\* Every variable keeps its type, offsets their range and counters their
\* bound: in particular the send point never leaves the source
\* (link_xfer.cpp:97) and the receiver never accepts past its size (242).
TypeOK ==
  /\ acked \in Start .. Size /\ next \in Start .. Size /\ high \in Start .. Size
  /\ rewound \in BOOLEAN
  /\ credits \in {InitialCredits, Window}
  /\ sState \in XferState
  /\ rNext \in Start .. Size /\ lastAck \in Start .. Size
  /\ sinceAck \in Nat /\ gapAcked \in BOOLEAN
  /\ rState \in XferState
  /\ stored \in Seq(Start .. Size) /\ acksHere \in Nat
  /\ data \in Seq(Start .. Size) /\ acks \in Seq(Start .. Size)
  /\ dataLost \in 0 .. MaxDataLoss /\ ackLost \in 0 .. MaxAckLoss
  /\ faults \in 0 .. MaxFaults

\* The chunks given to the receiver's WriteFn are exactly the source from
\* Start on, each once and in order, whatever was lost, rewound or resent
\* (so the running CRC is the CRC of the file, link_xfer.h:187).
InOrderOnce == stored = Offsets(Start, rNext)

\* The sender never believes more than the receiver holds, the receiver never
\* holds more than was sent, and the send point stays between the two.
Bracketed ==
  /\ acked <= rNext /\ rNext <= high
  /\ acked <= next /\ next <= high

\* No more than the first grant is ever past the acknowledged offset, counting
\* even what was sent before a rewind: PROTOCOL.md:145 "The sender keeps at
\* most credits DATA messages unacknowledged".
CreditWindow == high <= acked + InitialCredits

\* While it is waiting for rNext the receiver has sent at most two ACKs naming
\* it, however many stray DATA of however many rewinds arrive
\* (link_xfer.h:29 "at most two ACKs per gap").
AckBound == rState = "Active" => acksHere <= 2

\* "Done" on either side means the whole source is stored.
DoneIsComplete ==
  sState = "Done" \/ rState = "Done" => stored = Offsets(Start, Size)

\* The inductive invariant: what the messages on the link can say, and how
\* the ACKs already sent for rNext leave room for the ones a gap still allows.
DataOnLink == data \in Seq(Start .. (high - 1))
AcksOnLink == acks \in Seq(Start .. rNext)
Verdicts ==
  /\ sState = "Done" => acked = Size
  /\ sState = "Active" => acked < Size
  /\ rState = "Done" => rNext = Size
  /\ rState = "Active" => rNext < Size
AckAllowance ==
  /\ lastAck <= rNext
  /\ rState = "Active" =>
       acksHere <= (IF gapAcked THEN 2 ELSE IF lastAck = rNext THEN 1 ELSE 0)

XferInv ==
  /\ TypeOK /\ Bracketed /\ CreditWindow /\ InOrderOnce
  /\ DataOnLink /\ AcksOnLink /\ Verdicts /\ AckAllowance

\* The engine implements the abstract transfer: chunks received, chunks the
\* sender knows of, and the sender's verdict.
Abs == INSTANCE Transfer WITH delivered <- rNext, confirmed <- acked, outcome <- sState
Implements == Abs!AbsSpec

\* The two ends wait for each other for good. The sender knows of nothing in
\* the window it may send, so all it can do is to send that window again; the
\* receiver has all of it, and has given its answers to the gap. The ACK that
\* would tell the sender is not on its way.
Stalled ==
  /\ sState = "Active" /\ rState = "Active" /\ gapAcked
  /\ rNext >= acked + credits
  /\ \A i \in 1 .. Len(acks) : acks[i] <= acked
  /\ \A i \in 1 .. Len(data) : data[i] # rNext

\* The ACKs that can tell the sender of a window: at least one for every
\* AckEvery chunks of it, rounded up, as an answer to a gap that lies between
\* two of them is sent twice.
WindowAcks == (Window + AckEvery - 1) \div AckEvery

\* Without read, write or send failures both ends finish, whatever finite
\* number of messages is lost, or else end in that one deadlock: the re-ACKs
\* and the timer leave no other wait for each other. And the deadlock takes the
\* loss of all the ACKs of a window and of the answer to the gap behind it;
\* fewer lost ACKs never stop a transfer. With rx_ack_every_for
\* (link_frame.cpp:308) that is two ACKs at a window of one, three at two and
\* five at the full grant of sixteen.
Completes ==
  [](faults = 0) =>
    <>((sState = "Done" /\ rState = "Done") \/ [](Stalled /\ ackLost > WindowAcks))

\* PROTOCOL.md:160-162: the retransmit timeout "recovers a lost last DATA, a
\* lost re-ACK or a lost final ACK", so both ends finish whatever finite number
\* of messages the link loses. It does not hold: a lost re-ACK may be Stalled.
RetransmitRecovers == [](faults = 0) => <>(sState = "Done")
=============================================================================
