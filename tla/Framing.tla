-------------------------------- MODULE Framing --------------------------------
(***************************************************************************)
(* The PagerLink packet layer (src/src/hal/link/link_frame.cpp): the       *)
(* Segmenter of one end feeds the Reassembler of the other over a link     *)
(* that drops packets but never reorders them. A message is a run of       *)
(* packets; packet i of message m is the piece <<m, i>>.                   *)
(*                                                                         *)
(* What a Reassembler does depends only on the packets that reach it and   *)
(* their order, so a packet is fed, or lost, in the step that sends it.    *)
(* Packets without message bytes change nothing (link_frame.cpp:190) and   *)
(* are left out.                                                           *)
(*                                                                         *)
(* A run of lost packets may be of any length, in one session too: the tx  *)
(* task flushes a whole queue and goes on (link_transport_ble.cpp:289), and *)
(* the rx queue drops what it has no room for (173). The counter has 64    *)
(* values, so a run of 64 lost packets, or of a multiple of it, is not     *)
(* noticed by the packet behind it; `turns', `blind', `strays' and         *)
(* `mixtures' record what that does.                                       *)
(***************************************************************************)
EXTENDS Integers, Sequences

CONSTANTS
  SeqMod,       \* values of the rolling counter, SEQ_MASK + 1
  MaxPackets,   \* packets the partial buffer holds, MAX_MESSAGE in bytes
  MaxLossRun,   \* bound: packets lost in a row
  MaxMessages   \* bound: messages sent

ASSUME FrameAssumption ==
  /\ SeqMod \in Nat /\ SeqMod > 1
  /\ MaxPackets \in Nat \ {0}
  /\ MaxLossRun \in Nat /\ MaxMessages \in Nat

VARIABLES
  seq,          \* Segmenter::seq_
  msg, len,     \* the message being segmented, or the last one, and its packets
  pos,          \* packets of msg the sink has accepted
  expected, partial, open, discarding,  \* Reassembler
  delivered,    \* history: what MessageFn was given, but for the mixtures
  mixtures,     \* history: messages it was given that are glued over a loss
  owed,         \* history: the messages all of whose packets arrived
  intact,       \* history: every packet of msg so far arrived
  lossRun,      \* packets lost since one was fed
  turns,        \* history: loss runs that reached SeqMod packets
  blind,        \* history: msg is read on after a loss that did not show
  strays,       \* history: packets fed while blind
  resets,       \* calls of ResetFn
  faults        \* history: loss runs, cut messages and oversize messages

segmenter == <<seq, msg, len, pos>>
reassembler == <<expected, partial, open, discarding>>
hidden == <<turns, blind, strays, mixtures>>
vars == <<segmenter, reassembler, delivered, owed, intact, lossRun, hidden, resets, faults>>

\* Message m of k packets.
Whole(m, k) == [i \in 1 .. k |-> <<m, i>>]

\* (s + 1) & SEQ_MASK
NextSeq(s) == IF s + 1 < SeqMod THEN s + 1 ELSE 0

Init ==
  /\ seq = 0 /\ msg = 0 /\ len = 0 /\ pos = 0
  /\ expected = 0 /\ partial = << >> /\ open = FALSE /\ discarding = FALSE
  /\ delivered = << >> /\ owed = << >>
  /\ intact = TRUE /\ lossRun = 0 /\ resets = 0 /\ faults = 0
  /\ turns = 0 /\ blind = FALSE /\ strays = 0 /\ mixtures = 0

-----------------------------------------------------------------------------
(* Segmenter *)

\* send() is called with a message of k packets. The peer may send one that
\* is longer than MAX_MESSAGE.
StartMessage(k) ==
  /\ pos = len /\ msg < MaxMessages
  /\ msg' = msg + 1 /\ len' = k /\ pos' = 0
  /\ intact' = TRUE
  /\ faults' = IF k > MaxPackets THEN faults + 1 ELSE faults
  /\ UNCHANGED <<seq, reassembler, delivered, owed, lossRun, hidden, resets>>

\* The packet send() builds next.
Packet ==
  [seq |-> seq, start |-> pos = 0, end |-> pos + 1 = len, piece |-> <<msg, pos + 1>>]

\* The sink takes the packet.
Accepted ==
  /\ pos < len
  /\ pos' = pos + 1
  /\ seq' = NextSeq(seq)
  /\ UNCHANGED <<msg, len>>

\* The sink refuses the packet: send() gives up on the rest of the message.
Abort ==
  /\ pos < len
  /\ len' = pos
  /\ faults' = IF pos > 0 THEN faults + 1 ELSE faults
  /\ UNCHANGED <<seq, msg, pos, reassembler, delivered, owed, intact, lossRun, hidden, resets>>

-----------------------------------------------------------------------------
(* Reassembler *)

\* Mutation of StillOpen: a gap does not close the partial message.
StillOpenGap(p) == open

\* What feed() has found when it comes to append: a sequence gap, and whether
\* and to what the bytes are appended.
Gap(p) == p.seq # expected
StillOpen(p) == open /\ ~Gap(p)
Base(p) == IF p.start \/ Gap(p) THEN << >> ELSE partial

\* Mutation of ContinueResets: a discarded message's packets are reported too.
ContinueResetsAlways(p) == IF ~p.start /\ ~StillOpen(p) THEN 1 ELSE 0

\* The packet goes on with a message although packets were lost before it, in
\* the middle of that message or of an earlier one, and no gap has shown.
Blind(p) == ~p.start /\ ~Gap(p) /\ (blind \/ lossRun > 0)

GapResets(p) == IF Gap(p) THEN 1 ELSE 0
StartResets(p) == IF p.start /\ StillOpen(p) THEN 1 ELSE 0
ContinueResets(p) ==
  IF ~p.start /\ ~StillOpen(p) /\ ~(discarding \/ Gap(p)) THEN 1 ELSE 0

\* A packet that neither starts a message nor continues an open one.
FeedDropped(p) ==
  /\ ~p.start /\ ~StillOpen(p)
  /\ open' = FALSE
  /\ partial' = Base(p)
  /\ discarding' = (discarding \/ Gap(p))
  /\ resets' = resets + GapResets(p) + ContinueResets(p)
  /\ UNCHANGED <<delivered, mixtures>>

\* A packet the partial message has no room for.
FeedOversize(p) ==
  /\ p.start \/ StillOpen(p)
  /\ Len(Base(p)) + 1 > MaxPackets
  /\ open' = FALSE /\ partial' = << >> /\ discarding' = TRUE
  /\ resets' = resets + GapResets(p) + StartResets(p) + 1
  /\ UNCHANGED <<delivered, mixtures>>

\* A packet that is appended, and delivers the message when it is the last.
FeedAppended(p) ==
  /\ p.start \/ StillOpen(p)
  /\ Len(Base(p)) + 1 <= MaxPackets
  /\ discarding' = (~p.start /\ (discarding \/ Gap(p)))
  /\ resets' = resets + GapResets(p) + StartResets(p)
  /\ open' = ~p.end
  /\ partial' = IF p.end THEN << >> ELSE Append(Base(p), p.piece)
  /\ delivered' = IF p.end /\ ~Blind(p)
                  THEN Append(delivered, Append(Base(p), p.piece)) ELSE delivered
  /\ mixtures' = IF p.end /\ Blind(p) THEN mixtures + 1 ELSE mixtures

\* The packet reaches the Reassembler.
Arrives ==
  /\ Accepted
  /\ expected' = NextSeq(Packet.seq)
  /\ FeedDropped(Packet) \/ FeedOversize(Packet) \/ FeedAppended(Packet)
  /\ owed' = IF Packet.end /\ intact /\ len <= MaxPackets
             THEN Append(owed, Whole(msg, len)) ELSE owed
  /\ lossRun' = 0
  /\ blind' = Blind(Packet)
  /\ strays' = IF Blind(Packet) THEN strays + 1 ELSE strays
  /\ UNCHANGED <<intact, turns, faults>>

\* A full queue, or a flushed one, loses the packet.
Lost ==
  /\ Accepted
  /\ lossRun < MaxLossRun
  /\ lossRun' = lossRun + 1
  /\ intact' = FALSE
  /\ faults' = IF lossRun = 0 THEN faults + 1 ELSE faults
  /\ turns' = IF lossRun + 1 = SeqMod THEN turns + 1 ELSE turns
  /\ UNCHANGED <<reassembler, delivered, owed, blind, strays, mixtures, resets>>

-----------------------------------------------------------------------------
(* Sessions *)

\* Mutation of Reconnect: only the receiving end starts over.
ReconnectKeepsSeq ==
  /\ pos = len
  /\ expected' = 0 /\ partial' = << >> /\ open' = FALSE /\ discarding' = FALSE
  /\ lossRun' = 0 /\ blind' = FALSE
  /\ UNCHANGED <<segmenter, delivered, owed, intact, turns, strays, mixtures, resets, faults>>

\* A new session: both ends reset, between two messages (the service lock is
\* held for the whole of send()), and no packet of the old one is left.
Reconnect ==
  /\ pos = len
  /\ seq' = 0
  /\ expected' = 0 /\ partial' = << >> /\ open' = FALSE /\ discarding' = FALSE
  /\ lossRun' = 0 /\ blind' = FALSE
  /\ UNCHANGED <<msg, len, pos, delivered, owed, intact, turns, strays, mixtures, resets, faults>>

Next ==
  \/ \E k \in 1 .. (MaxPackets + 1) : StartMessage(k)
  \/ Arrives \/ Lost \/ Abort
  \/ Reconnect

Spec == Init /\ [][Next]_vars

-----------------------------------------------------------------------------
(* Properties *)

Piece == Nat \X Nat

\* Every variable keeps its type and the partial message its buffer
\* (MAX_MESSAGE, link_frame.cpp:222).
TypeOK ==
  /\ seq \in 0 .. (SeqMod - 1) /\ expected \in 0 .. (SeqMod - 1)
  /\ msg \in Nat /\ len \in Nat /\ pos \in 0 .. len
  /\ partial \in Seq(Piece) /\ Len(partial) <= MaxPackets
  /\ open \in BOOLEAN /\ discarding \in BOOLEAN /\ intact \in BOOLEAN /\ blind \in BOOLEAN
  /\ lossRun \in 0 .. MaxLossRun
  /\ turns \in Nat /\ strays \in Nat /\ mixtures \in Nat
  /\ resets \in Nat /\ faults \in Nat

\* The owner of the Reassembler is given exactly the messages all of whose
\* packets arrived, whole, once and in order: no loss, cut or oversize message
\* costs a message it did not touch (link_transport_ble.cpp:155 "a dropped
\* packet costs one message"). The one exception is a mixture of two messages
\* (or of the two ends of one), glued over a loss that did not show; each
\* takes a run of at least SeqMod lost packets of its own.
DeliversWhatArrived == delivered = owed /\ mixtures <= turns

\* ResetFn is called at most once for each loss run, cut message or oversize
\* message, except that after a loss that did not show each further packet of
\* the message it was read on in may be reported; there is none of those
\* without a run of SeqMod lost packets.
OneResetPerFault == resets <= faults + strays /\ (strays > 0 => turns > 0)

\* PROTOCOL.md:52-53 promises "one reset per fault, not one per remaining
\* packet", without that exception. It does not hold.
NoResetPerPacket == resets <= faults

\* The inductive invariant. While fewer than SeqMod packets are lost in a row
\* the counters differ by their number; a message under way is in the partial
\* buffer if nothing of it was lost and it still fits, and out of it if not,
\* or read on blindly.
SeqTracks ==
  lossRun < SeqMod => expected + lossRun = seq \/ expected + lossRun = seq + SeqMod

UnderWay == 0 < pos /\ pos < len
Fits == intact /\ pos <= MaxPackets

PartialIsPrefix ==
  /\ pos = 0 /\ pos < len => intact
  /\ UnderWay /\ lossRun > 0 => ~intact
  /\ UnderWay /\ blind => ~intact
  /\ UnderWay /\ lossRun = 0 /\ Fits => open /\ partial = Whole(msg, pos)
  /\ UnderWay /\ lossRun = 0 /\ ~Fits => (~open /\ discarding) \/ blind

\* Blindness, and a mixture in the making, take a turn of the counter each.
MixtureDue == IF (blind /\ open) \/ lossRun >= SeqMod THEN 1 ELSE 0
TurnsBudget ==
  /\ mixtures + MixtureDue <= turns
  /\ blind \/ strays > 0 \/ lossRun >= SeqMod => turns > 0

\* The resets still to come for faults already counted: the gap a loss run
\* leaves, or the partial of a cut message that the next START finds open; and
\* the overflow of an oversize message.
GapDue == IF lossRun > 0 \/ (open /\ ~UnderWay) THEN 1 ELSE 0
OverflowDue == IF pos < len /\ len > MaxPackets /\ pos <= MaxPackets THEN 1 ELSE 0
ResetBudget == resets + GapDue + OverflowDue <= faults + strays

FrameInv ==
  /\ TypeOK /\ SeqTracks /\ PartialIsPrefix /\ delivered = owed
  /\ TurnsBudget /\ ResetBudget
=============================================================================
