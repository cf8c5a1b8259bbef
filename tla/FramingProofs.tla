----------------------------- MODULE FramingProofs -----------------------------
(***************************************************************************)
(* What Framing promises for every counter period, buffer size, length of  *)
(* a loss run and number of messages. The argument: while fewer than       *)
(* SeqMod packets are lost in a row the two counters differ by exactly     *)
(* that number, so a packet after such a loss always shows as a gap; hence *)
(* the partial buffer holds the packets of the message under way if all of *)
(* them arrived and fit, and is closed otherwise, unless the message is    *)
(* read on blindly after SeqMod lost packets or more.                      *)
(***************************************************************************)
EXTENDS Framing, TLAPS

\* A message with one more packet.
LEMMA WholeType ==
  ASSUME NEW m \in Nat, NEW k \in Nat
  PROVE  Whole(m, k) \in Seq(Piece) /\ Len(Whole(m, k)) = k
<1>1. Whole(m, k) \in [1 .. k -> Piece]
  BY DEF Whole, Piece
<1>2. Whole(m, k) \in Seq(Piece)
  BY <1>1, SMT
<1>3. DOMAIN Whole(m, k) = 1 .. k
  BY DEF Whole
<1>4. Len(Whole(m, k)) = k
  BY <1>2, <1>3
<1> QED BY <1>2, <1>4

LEMMA WholeStep ==
  ASSUME NEW m \in Nat, NEW k \in Nat
  PROVE  Append(Whole(m, k), <<m, k + 1>>) = Whole(m, k + 1)
<1> DEFINE a == Append(Whole(m, k), <<m, k + 1>>)
           b == Whole(m, k + 1)
<1>1. /\ Len(Whole(m, k)) = k
      /\ Whole(m, k) \in Seq(Piece)
      /\ <<m, k + 1>> \in Piece
  <2>1. <<m, k + 1>> \in Piece
    BY DEF Piece
  <2> QED BY <2>1, WholeType
<1>2. a \in Seq(Piece) /\ b \in Seq(Piece) /\ Len(a) = k + 1 /\ Len(b) = k + 1
  BY <1>1, WholeType
<1>3. ASSUME NEW i \in 1 .. (k + 1)
      PROVE  a[i] = b[i]
  BY <1>1, <1>3 DEF Whole
<1> HIDE DEF a, b
<1>4. a = b
  BY <1>2, <1>3
<1> QED BY <1>4 DEF a, b

LEMMA WholeOne ==
  ASSUME NEW m \in Nat
  PROVE  Append(<< >>, <<m, 1>>) = Whole(m, 1)
<1>1. Whole(m, 0) = << >>
  BY DEF Whole
<1>2. 0 \in Nat /\ 0 + 1 = 1
  OBVIOUS
<1> QED BY <1>1, <1>2, WholeStep

\* The counter stays in its range and comes round after SeqMod steps.
LEMMA NextSeqType ==
  ASSUME NEW s \in 0 .. (SeqMod - 1)
  PROVE  /\ NextSeq(s) \in 0 .. (SeqMod - 1)
         /\ NextSeq(s) = s + 1 \/ NextSeq(s) + SeqMod = s + 1
BY FrameAssumption DEF NextSeq

LEMMA InitInv == Init => FrameInv
<1> SUFFICES ASSUME Init PROVE FrameInv
  OBVIOUS
<1> USE FrameAssumption DEF Init
<1>1. TypeOK
  <2>1. /\ seq \in 0 .. (SeqMod - 1) /\ expected \in 0 .. (SeqMod - 1)
        /\ msg \in Nat /\ len \in Nat /\ pos \in 0 .. len
        /\ lossRun \in 0 .. MaxLossRun /\ resets \in Nat /\ faults \in Nat
        /\ turns \in Nat /\ strays \in Nat /\ mixtures \in Nat
    OBVIOUS
  <2>2. partial \in Seq(Piece)
    OBVIOUS
  <2>3. Len(partial) <= MaxPackets
    OBVIOUS
  <2>4. open \in BOOLEAN /\ discarding \in BOOLEAN /\ intact \in BOOLEAN /\ blind \in BOOLEAN
    BY Zenon
  <2> QED BY <2>1, <2>2, <2>3, <2>4 DEF TypeOK
<1>2. SeqTracks /\ PartialIsPrefix /\ delivered = owed
  BY DEF SeqTracks, PartialIsPrefix, UnderWay
<1>3. ResetBudget /\ TurnsBudget
  BY DEF ResetBudget, GapDue, OverflowDue, UnderWay, TurnsBudget, MixtureDue
<1> QED BY <1>1, <1>2, <1>3 DEF FrameInv

\* A gap shows only when packets were lost since the last one fed, and always
\* when they were fewer than a turn of the counter.
LEMMA GapMeansLoss ==
  ASSUME TypeOK, SeqTracks
  PROVE  /\ seq # expected => lossRun > 0
         /\ lossRun > 0 /\ seq = expected => lossRun >= SeqMod
BY FrameAssumption DEF TypeOK, SeqTracks

-----------------------------------------------------------------------------
(* What the packet a fed Reassembler gets does to the partial message. *)

\* The packet is a legal one, and a fed packet leaves the counters in step.
LEMMA ArrivesCounters ==
  ASSUME TypeOK, SeqTracks, Arrives
  PROVE  /\ seq' \in 0 .. (SeqMod - 1) /\ expected' = seq'
         /\ lossRun' = 0 /\ lossRun' \in 0 .. MaxLossRun
         /\ msg' = msg /\ len' = len /\ pos' = pos + 1 /\ pos' \in 0 .. len
         /\ intact' = intact /\ faults' = faults
<1>1. /\ lossRun' = 0 /\ intact' = intact /\ faults' = faults
      /\ msg' = msg /\ len' = len /\ pos' = pos + 1 /\ pos < len
      /\ seq' = NextSeq(seq) /\ expected' = NextSeq(seq)
  BY DEF Arrives, Accepted, Packet
<1>2. seq' \in 0 .. (SeqMod - 1)
  BY <1>1, NextSeqType DEF TypeOK
<1>3. lossRun' \in 0 .. MaxLossRun /\ pos' \in 0 .. len
  BY <1>1, FrameAssumption DEF TypeOK
<1> QED BY <1>1, <1>2, <1>3

\* The message under way, as the packet finds it: what it is appended to.
LEMMA BaseIsPrefix ==
  ASSUME TypeOK, SeqTracks, PartialIsPrefix, pos < len
  PROVE  /\ Fits \/ pos = 0 =>
              /\ pos = 0 \/ lossRun = 0
              /\ Packet.start \/ StillOpen(Packet)
              /\ Base(Packet) = Whole(msg, pos)
              /\ ~Blind(Packet)
         /\ ~Fits /\ pos > 0 => ~Packet.start
         /\ ~Fits /\ pos > 0 /\ ~Blind(Packet) =>
              ~StillOpen(Packet) /\ (Gap(Packet) \/ discarding)
         /\ Base(Packet) \in Seq(Piece)
<1>1. Gap(Packet) => lossRun > 0
  BY GapMeansLoss DEF Gap, Packet
<1>2. Packet.start <=> pos = 0
  BY DEF Packet
<1>3. CASE pos = 0
  <2>1. Whole(msg, 0) = << >>
    BY DEF Whole
  <2>2. Base(Packet) = << >>
    BY <1>2, <1>3 DEF Base
  <2>3. << >> \in Seq(Piece)
    OBVIOUS
  <2> QED BY <1>2, <1>3, <2>1, <2>2, <2>3 DEF Blind
<1>4. CASE pos > 0
  <2>1. UnderWay
    BY <1>4 DEF UnderWay
  <2>2. Base(Packet) \in Seq(Piece)
    <3>1. << >> \in Seq(Piece) /\ partial \in Seq(Piece)
      BY DEF TypeOK
    <3> QED BY <3>1 DEF Base
  <2>3. CASE lossRun > 0
    BY <1>1, <1>2, <1>4, <2>1, <2>2, <2>3 DEF PartialIsPrefix, Fits, StillOpen, Blind
  <2>4. CASE lossRun = 0
    BY <1>1, <1>2, <1>4, <2>1, <2>2, <2>4 DEF PartialIsPrefix, Fits, StillOpen, Base, Blind
  <2> QED BY <2>3, <2>4 DEF TypeOK
<1> QED BY <1>3, <1>4 DEF TypeOK

-----------------------------------------------------------------------------
(* A packet that arrives. *)

\* The partial message keeps its type and its bound.
LEMMA ArrivesType ==
  ASSUME TypeOK, SeqTracks, PartialIsPrefix, Arrives
  PROVE  TypeOK'
<1>1. pos < len
  BY DEF Arrives, Accepted
<1>2. Base(Packet) \in Seq(Piece)
  BY <1>1, BaseIsPrefix
<1>3. Packet.piece \in Piece
  BY DEF Packet, Piece, TypeOK
<1>4. /\ partial' \in Seq(Piece) /\ Len(partial') <= MaxPackets
      /\ open' \in BOOLEAN /\ discarding' \in BOOLEAN
  <2>1. CASE FeedDropped(Packet)
    <3>1. partial' = Base(Packet) /\ open' = FALSE /\ discarding' = (discarding \/ Gap(Packet))
      BY <2>1 DEF FeedDropped
    <3>2. Len(<< >>) = 0 /\ Len(partial) <= MaxPackets
      BY DEF TypeOK
    <3>3. Base(Packet) = << >> \/ Base(Packet) = partial
      BY DEF Base
    <3>4. Len(partial') <= MaxPackets
      BY <3>1, <3>2, <3>3, FrameAssumption
    <3> QED BY <1>2, <3>1, <3>4
  <2>2. CASE FeedOversize(Packet)
    <3>1. partial' = << >> /\ open' = FALSE /\ discarding' = TRUE
      BY <2>2 DEF FeedOversize
    <3>2. << >> \in Seq(Piece) /\ Len(<< >>) <= MaxPackets
      BY FrameAssumption
    <3> QED BY <3>1, <3>2
  <2>3. CASE FeedAppended(Packet)
    <3>1. /\ partial' = (IF Packet.end THEN << >> ELSE Append(Base(Packet), Packet.piece))
          /\ open' = ~Packet.end
          /\ discarding' = (~Packet.start /\ (discarding \/ Gap(Packet)))
          /\ Len(Base(Packet)) + 1 <= MaxPackets
      BY <2>3 DEF FeedAppended
    <3>2. << >> \in Seq(Piece) /\ Len(<< >>) <= MaxPackets
      BY FrameAssumption
    <3>3. /\ Append(Base(Packet), Packet.piece) \in Seq(Piece)
          /\ Len(Append(Base(Packet), Packet.piece)) <= MaxPackets
      BY <1>2, <1>3, <3>1
    <3>4. partial' \in Seq(Piece) /\ Len(partial') <= MaxPackets
      BY <3>1, <3>2, <3>3
    <3> QED BY <3>1, <3>4
  <2> QED BY <2>1, <2>2, <2>3 DEF Arrives
<1>5. resets' \in Nat
  <2>1. CASE FeedDropped(Packet)
    BY <2>1 DEF FeedDropped, GapResets, ContinueResets, TypeOK
  <2>2. CASE FeedOversize(Packet)
    BY <2>2 DEF FeedOversize, GapResets, StartResets, TypeOK
  <2>3. CASE FeedAppended(Packet)
    BY <2>3 DEF FeedAppended, GapResets, StartResets, TypeOK
  <2> QED BY <2>1, <2>2, <2>3 DEF Arrives
<1>6. /\ seq' \in 0 .. (SeqMod - 1) /\ expected' \in 0 .. (SeqMod - 1)
      /\ msg' \in Nat /\ len' \in Nat /\ pos' \in 0 .. len'
      /\ intact' \in BOOLEAN /\ lossRun' \in 0 .. MaxLossRun /\ faults' \in Nat
  BY ArrivesCounters DEF TypeOK
<1>7. blind' \in BOOLEAN /\ strays' \in Nat /\ turns' \in Nat
  BY DEF Arrives, Blind, TypeOK
<1>8. mixtures' \in Nat
  BY DEF Arrives, FeedDropped, FeedOversize, FeedAppended, TypeOK
<1> QED BY <1>4, <1>5, <1>6, <1>7, <1>8 DEF TypeOK

\* A message under way stays a prefix in the buffer, or out of it.
LEMMA ArrivesPrefix ==
  ASSUME TypeOK, SeqTracks, PartialIsPrefix, Arrives
  PROVE  PartialIsPrefix'
<1>1. pos < len
  BY DEF Arrives, Accepted
<1>2. /\ lossRun' = 0 /\ intact' = intact
      /\ msg' = msg /\ len' = len /\ pos' = pos + 1
  BY ArrivesCounters
<1>3. pos \in Nat /\ len \in Nat /\ msg \in Nat /\ pos' > 0
  BY <1>2 DEF TypeOK
<1>4. pos = 0 => intact
  BY <1>1 DEF PartialIsPrefix
<1>5. Packet.end <=> pos + 1 = len
  BY DEF Packet
<1>6. ASSUME UnderWay', Fits'
      PROVE  open' /\ partial' = Whole(msg', pos')
  <2>1. Fits /\ pos + 1 <= MaxPackets /\ ~Packet.end
    <3>1. intact /\ pos + 1 <= MaxPackets /\ pos + 1 < len
      BY <1>2, <1>3, <1>6 DEF Fits, UnderWay
    <3>2. pos <= MaxPackets /\ pos + 1 # len
      BY <1>3, <3>1, FrameAssumption
    <3> QED BY <1>5, <3>1, <3>2 DEF Fits
  <2>2. (Packet.start \/ StillOpen(Packet)) /\ Base(Packet) = Whole(msg, pos)
    BY <1>1, <2>1, BaseIsPrefix
  <2>3. Len(Base(Packet)) = pos
    BY <1>3, <2>2, WholeType
  <2>4. FeedAppended(Packet)
    BY <1>3, <2>1, <2>2, <2>3, FrameAssumption DEF Arrives, FeedDropped, FeedOversize
  <2>5. open' /\ partial' = Append(Base(Packet), Packet.piece)
    BY <2>1, <2>4 DEF FeedAppended
  <2>6. Packet.piece = <<msg, pos + 1>>
    BY DEF Packet
  <2> QED BY <1>2, <1>3, <2>2, <2>5, <2>6, WholeStep
<1>8. blind' => ~intact'
  <2> SUFFICES ASSUME Blind(Packet), intact PROVE FALSE
    BY <1>2 DEF Arrives
  <2>1. pos # 0 /\ (blind \/ lossRun > 0)
    BY DEF Blind, Packet
  <2>2. pos > 0
    BY <1>3, <2>1
  <2> QED BY <1>1, <2>1, <2>2 DEF PartialIsPrefix, UnderWay
<1>7. ASSUME UnderWay', ~Fits', ~blind'
      PROVE  ~open' /\ discarding'
  <2>0. ~Blind(Packet)
    BY <1>7 DEF Arrives
  <2>1. CASE Fits
    <3>1. pos + 1 > MaxPackets /\ pos <= MaxPackets
      BY <1>2, <1>3, <1>7, <2>1, FrameAssumption DEF Fits
    <3>2. (Packet.start \/ StillOpen(Packet)) /\ Base(Packet) = Whole(msg, pos)
      BY <1>1, <2>1, BaseIsPrefix
    <3>3. Len(Base(Packet)) = pos
      BY <1>3, <3>2, WholeType
    <3>4. FeedOversize(Packet)
      BY <1>3, <3>1, <3>2, <3>3, FrameAssumption DEF Arrives, FeedDropped, FeedAppended
    <3> QED BY <3>4 DEF FeedOversize
  <2>2. CASE ~Fits
    <3>1. pos > 0
      BY <1>3, <1>4, <2>2, FrameAssumption DEF Fits
    <3>2. /\ ~Packet.start /\ ~StillOpen(Packet)
          /\ Gap(Packet) \/ discarding
      BY <1>1, <2>0, <2>2, <3>1, BaseIsPrefix
    <3>3. FeedDropped(Packet)
      BY <3>2 DEF Arrives, FeedOversize, FeedAppended
    <3> QED BY <3>2, <3>3 DEF FeedDropped
  <2> QED BY <2>1, <2>2
<1> QED BY <1>2, <1>3, <1>6, <1>7, <1>8 DEF PartialIsPrefix

\* The packet delivers a message exactly when the message is owed.
LEMMA ArrivesDelivers ==
  ASSUME TypeOK, SeqTracks, PartialIsPrefix, Arrives, delivered = owed
  PROVE  delivered' = owed'
<1>1. pos < len
  BY DEF Arrives, Accepted
<1>2. pos \in Nat /\ len \in Nat /\ msg \in Nat
  BY DEF TypeOK
<1>3. pos = 0 => intact
  BY <1>1 DEF PartialIsPrefix
<1>4. Packet.end <=> pos + 1 = len
  BY DEF Packet
<1>5. owed' = IF Packet.end /\ intact /\ len <= MaxPackets
              THEN Append(owed, Whole(msg, len)) ELSE owed
  BY DEF Arrives
<1>6. CASE FeedDropped(Packet) \/ FeedOversize(Packet)
  <2>1. delivered' = delivered
    BY <1>6 DEF FeedDropped, FeedOversize
  <2>2. ~(Packet.end /\ intact /\ len <= MaxPackets)
    <3> SUFFICES ASSUME Packet.end, intact, len <= MaxPackets PROVE FALSE
      OBVIOUS
    <3>1. pos + 1 <= MaxPackets /\ pos <= MaxPackets
      BY <1>2, <1>4, FrameAssumption
    <3>2. (Packet.start \/ StillOpen(Packet)) /\ Base(Packet) = Whole(msg, pos)
      BY <1>1, <3>1, BaseIsPrefix DEF Fits
    <3>3. Len(Base(Packet)) = pos
      BY <1>2, <3>2, WholeType
    <3> QED BY <1>2, <1>6, <3>1, <3>2, <3>3, FrameAssumption DEF FeedDropped, FeedOversize
  <2> QED BY <1>5, <2>1, <2>2
<1>7. CASE FeedAppended(Packet) /\ Blind(Packet)
  <2>1. delivered' = delivered
    BY <1>7 DEF FeedAppended
  <2>2. pos # 0 /\ (blind \/ lossRun > 0)
    BY <1>7 DEF Blind, Packet
  <2>3. pos > 0
    BY <1>2, <2>2
  <2>4. ~intact
    BY <1>1, <2>2, <2>3 DEF PartialIsPrefix, UnderWay
  <2> QED BY <1>5, <2>1, <2>4
<1>8. CASE FeedAppended(Packet) /\ ~Blind(Packet)
  <2>1. Packet.start \/ StillOpen(Packet)
    BY <1>8 DEF FeedAppended
  <2>2. intact /\ Base(Packet) = Whole(msg, pos)
    <3>1. Fits \/ pos = 0
      <4> SUFFICES ASSUME ~Fits, pos # 0 PROVE FALSE
        OBVIOUS
      <4>1. pos > 0
        BY <1>2
      <4> QED BY <1>1, <1>8, <2>1, <4>1, BaseIsPrefix
    <3> QED BY <1>1, <1>3, <3>1, BaseIsPrefix DEF Fits
  <2>3. Len(Base(Packet)) = pos
    BY <1>2, <2>2, WholeType
  <2>4. pos + 1 <= MaxPackets
    BY <1>8, <2>3 DEF FeedAppended
  <2>5. Packet.piece = <<msg, pos + 1>>
    BY DEF Packet
  <2>6. Append(Base(Packet), Packet.piece) = Whole(msg, pos + 1)
    BY <1>2, <2>2, <2>5, WholeStep
  <2>7. CASE Packet.end
    <3>1. pos + 1 = len /\ len <= MaxPackets
      BY <1>4, <2>4, <2>7
    <3>2. delivered' = Append(delivered, Whole(msg, len))
      BY <1>8, <2>6, <2>7, <3>1 DEF FeedAppended
    <3>3. owed' = Append(owed, Whole(msg, len))
      BY <1>5, <2>2, <2>7, <3>1
    <3> QED BY <3>2, <3>3
  <2>8. CASE ~Packet.end
    <3>1. delivered' = delivered /\ owed' = owed
      BY <1>5, <1>8, <2>8 DEF FeedAppended
    <3> QED BY <3>1
  <2> QED BY <2>7, <2>8
<1> QED BY <1>6, <1>7, <1>8 DEF Arrives

\* Every reset was due.
LEMMA ArrivesBudget ==
  ASSUME TypeOK, SeqTracks, PartialIsPrefix, Arrives, ResetBudget
  PROVE  ResetBudget'
<1>1. pos < len
  BY DEF Arrives, Accepted
<1>2. /\ lossRun' = 0 /\ intact' = intact /\ faults' = faults
      /\ msg' = msg /\ len' = len /\ pos' = pos + 1
  BY ArrivesCounters
<1>3. /\ pos \in Nat /\ len \in Nat /\ msg \in Nat /\ lossRun \in Nat
      /\ resets \in Nat /\ faults \in Nat /\ strays \in Nat
  BY FrameAssumption DEF TypeOK
<1>15. strays' = IF Blind(Packet) THEN strays + 1 ELSE strays
  BY DEF Arrives
<1>4. resets + GapDue + OverflowDue <= faults + strays
  BY DEF ResetBudget
<1>5. Gap(Packet) => lossRun > 0
  BY GapMeansLoss DEF Gap, Packet
<1>6. (Packet.start <=> pos = 0) /\ (Packet.end <=> pos + 1 = len)
  BY DEF Packet
<1>7. GapResets(Packet) + StartResets(Packet) <= GapDue
  <2>1. CASE Gap(Packet)
    <3>1. GapResets(Packet) = 1 /\ StartResets(Packet) = 0 /\ GapDue = 1
      BY <1>5, <2>1 DEF GapResets, StartResets, StillOpen, GapDue
    <3> QED BY <3>1
  <2>2. CASE ~Gap(Packet)
    <3>1. GapResets(Packet) = 0
      BY <2>2 DEF GapResets
    <3>2. (StartResets(Packet) = 1 /\ GapDue = 1) \/ StartResets(Packet) = 0
      BY <1>3, <1>6, <2>2 DEF StartResets, StillOpen, GapDue, UnderWay
    <3>3. GapDue \in Nat
      BY DEF GapDue
    <3> QED BY <3>1, <3>2, <3>3
  <2> QED BY <2>1, <2>2
<1>8. /\ GapResets(Packet) \in Nat /\ StartResets(Packet) \in Nat
      /\ GapDue \in Nat /\ OverflowDue \in Nat
  BY DEF GapResets, StartResets, GapDue, OverflowDue
<1>9. ASSUME open', ~UnderWay' PROVE FALSE
  <2>1. pos + 1 = len
    BY <1>1, <1>2, <1>3, <1>9 DEF UnderWay
  <2>2. Packet.end
    BY <1>6, <2>1
  <2> QED BY <1>9, <2>2 DEF Arrives, FeedDropped, FeedOversize, FeedAppended
<1>10. GapDue' = 0
  BY <1>2, <1>9 DEF GapDue
<1>11. OverflowDue' <= OverflowDue /\ OverflowDue' \in Nat
  BY <1>2, <1>3, FrameAssumption DEF OverflowDue
<1>16. CASE Blind(Packet)
  <2>1. GapResets(Packet) = 0 /\ StartResets(Packet) = 0
    BY <1>16 DEF Blind, GapResets, StartResets
  <2>2. ContinueResets(Packet) \in 0 .. 1
    BY DEF ContinueResets
  <2>3. resets' <= resets + 1
    <3>1. CASE FeedDropped(Packet)
      BY <1>3, <2>1, <2>2, <3>1 DEF FeedDropped
    <3>2. CASE FeedOversize(Packet)
      BY <1>3, <2>1, <3>2 DEF FeedOversize
    <3>3. CASE FeedAppended(Packet)
      BY <1>3, <2>1, <3>3 DEF FeedAppended
    <3> QED BY <3>1, <3>2, <3>3 DEF Arrives
  <2>4. strays' = strays + 1
    BY <1>15, <1>16
  <2>5. PICK r \in Nat : resets' = r
    BY ArrivesType DEF TypeOK
  <2>6. r + OverflowDue <= faults + strays + 1
    BY <1>3, <1>4, <1>8, <2>3, <2>5
  <2>7. OverflowDue' = OverflowDue \/ OverflowDue' = 0
    BY <1>11 DEF OverflowDue
  <2>8. r + OverflowDue' <= faults + strays + 1
    BY <1>3, <1>8, <2>6, <2>7
  <2> QED BY <1>2, <1>3, <1>10, <2>4, <2>5, <2>7, <2>8 DEF ResetBudget
<1>12. CASE FeedDropped(Packet) /\ ~Blind(Packet)
  <2>1. ContinueResets(Packet) = 0
    <3>1. ~Packet.start /\ ~StillOpen(Packet)
      BY <1>12 DEF FeedDropped
    <3>2. ~Fits
      BY <1>1, <3>1, BaseIsPrefix
    <3>3. pos > 0
      BY <1>3, <1>6, <3>1
    <3>4. Gap(Packet) \/ discarding
      BY <1>1, <1>12, <3>2, <3>3, BaseIsPrefix
    <3> QED BY <3>4 DEF ContinueResets
  <2>2. resets' = resets + GapResets(Packet)
    BY <1>3, <1>8, <1>12, <2>1 DEF FeedDropped
  <2>3. strays' = strays
    BY <1>12, <1>15
  <2> QED BY <1>2, <1>3, <1>4, <1>7, <1>8, <1>10, <1>11, <2>2, <2>3 DEF ResetBudget
<1>13. CASE FeedOversize(Packet) /\ ~Blind(Packet)
  <2>1. resets' = resets + GapResets(Packet) + StartResets(Packet) + 1
    BY <1>13 DEF FeedOversize
  <2>2. OverflowDue = 1 /\ OverflowDue' = 0
    <3>1. Fits \/ pos = 0
      <4> SUFFICES ASSUME ~Fits, pos # 0 PROVE FALSE
        OBVIOUS
      <4>1. pos > 0
        BY <1>3
      <4> QED BY <1>1, <1>13, <4>1, BaseIsPrefix DEF FeedOversize
    <3>2. Base(Packet) = Whole(msg, pos)
      BY <1>1, <3>1, BaseIsPrefix
    <3>3. Len(Base(Packet)) = pos
      BY <1>3, <3>2, WholeType
    <3>4. pos + 1 > MaxPackets
      BY <1>13, <3>3 DEF FeedOversize
    <3>5. pos <= MaxPackets
      BY <3>1, FrameAssumption DEF Fits
    <3> QED BY <1>1, <1>2, <1>3, <3>4, <3>5, FrameAssumption DEF OverflowDue
  <2>3. strays' = strays
    BY <1>13, <1>15
  <2> QED BY <1>2, <1>3, <1>4, <1>7, <1>8, <1>10, <2>1, <2>2, <2>3 DEF ResetBudget
<1>14. CASE FeedAppended(Packet) /\ ~Blind(Packet)
  <2>1. resets' = resets + GapResets(Packet) + StartResets(Packet)
    BY <1>14 DEF FeedAppended
  <2>2. strays' = strays
    BY <1>14, <1>15
  <2> QED BY <1>2, <1>3, <1>4, <1>7, <1>8, <1>10, <1>11, <2>1, <2>2 DEF ResetBudget
<1> QED BY <1>12, <1>13, <1>14, <1>16 DEF Arrives

\* A mixture takes a turn of the counter.
LEMMA ArrivesTurns ==
  ASSUME TypeOK, SeqTracks, PartialIsPrefix, Arrives, TurnsBudget
  PROVE  TurnsBudget'
<1>1. /\ mixtures + MixtureDue <= turns
      /\ blind \/ strays > 0 \/ lossRun >= SeqMod => turns > 0
  BY DEF TurnsBudget
<1>2. turns \in Nat /\ mixtures \in Nat /\ strays \in Nat /\ SeqMod \in Nat /\ SeqMod > 1
  BY FrameAssumption DEF TypeOK
<1>3. /\ lossRun' = 0 /\ turns' = turns /\ blind' = Blind(Packet)
      /\ strays' = IF Blind(Packet) THEN strays + 1 ELSE strays
  BY DEF Arrives
<1>4. Blind(Packet) => ~Packet.start /\ (blind \/ lossRun >= SeqMod)
  BY GapMeansLoss DEF Blind, Gap, Packet
<1>5. ~(lossRun' >= SeqMod)
  BY <1>2, <1>3
<1>6. MixtureDue' = IF Blind(Packet) /\ open' THEN 1 ELSE 0
  BY <1>3, <1>5 DEF MixtureDue
<1>7. Blind(Packet) /\ (open' \/ mixtures' # mixtures) => MixtureDue = 1
  <2> SUFFICES ASSUME Blind(Packet), open' \/ mixtures' # mixtures PROVE MixtureDue = 1
    OBVIOUS
  <2>1. FeedAppended(Packet)
    BY DEF Arrives, FeedDropped, FeedOversize
  <2>2. open
    BY <1>4, <2>1 DEF FeedAppended, StillOpen
  <2> QED BY <1>4, <2>2 DEF MixtureDue
<1>8. MixtureDue \in 0 .. 1
  BY DEF MixtureDue
<1>9. /\ mixtures' = mixtures \/ (mixtures' = mixtures + 1 /\ Blind(Packet) /\ ~open')
  BY DEF Arrives, FeedDropped, FeedOversize, FeedAppended
<1>10. mixtures' + MixtureDue' <= turns'
  BY <1>1, <1>2, <1>3, <1>6, <1>7, <1>8, <1>9
<1>11. blind' \/ strays' > 0 \/ lossRun' >= SeqMod => turns' > 0
  BY <1>1, <1>2, <1>3, <1>4, <1>5
<1> QED BY <1>10, <1>11 DEF TurnsBudget

-----------------------------------------------------------------------------
(* The other steps. *)

LEMMA StartInv ==
  ASSUME FrameInv, NEW k \in 1 .. (MaxPackets + 1), StartMessage(k)
  PROVE  FrameInv'
<1> USE DEF FrameInv
<1>1. /\ pos = len /\ msg' = msg + 1 /\ len' = k /\ pos' = 0 /\ intact' = TRUE
      /\ seq' = seq /\ expected' = expected /\ lossRun' = lossRun /\ resets' = resets
      /\ partial' = partial /\ open' = open /\ discarding' = discarding
      /\ delivered' = delivered /\ owed' = owed /\ strays' = strays /\ mixtures' = mixtures
      /\ turns' = turns /\ blind' = blind
      /\ faults' = IF k > MaxPackets THEN faults + 1 ELSE faults
  BY DEF reassembler, hidden, StartMessage
<1>2. k \in Nat /\ k > 0 /\ MaxPackets \in Nat /\ pos \in Nat /\ faults \in Nat /\ resets \in Nat /\ strays \in Nat
  BY FrameAssumption DEF TypeOK
<1>3. faults' \in Nat
  BY <1>1, <1>2
<1>4. TypeOK'
  <2>1. msg' \in Nat /\ len' \in Nat /\ pos' \in 0 .. len' /\ intact' \in BOOLEAN
    BY <1>1, <1>2 DEF TypeOK
  <2> QED BY <1>1, <1>3, <2>1 DEF TypeOK
<1>5. SeqTracks' /\ (delivered = owed)'
  BY <1>1 DEF SeqTracks
<1>6. PartialIsPrefix'
  BY <1>1 DEF PartialIsPrefix, UnderWay
<1>7. ResetBudget'
  <2>1. ~UnderWay /\ ~UnderWay' /\ GapDue' = GapDue
    BY <1>1, <1>2 DEF UnderWay, GapDue
  <2>2. OverflowDue = 0 /\ OverflowDue' = (IF k > MaxPackets THEN 1 ELSE 0)
    BY <1>1, <1>2 DEF OverflowDue
  <2>3. resets + GapDue + OverflowDue <= faults + strays /\ GapDue \in Nat
    BY DEF ResetBudget, GapDue
  <2> QED BY <1>1, <1>2, <2>1, <2>2, <2>3 DEF ResetBudget
<1>8. TurnsBudget'
  BY <1>1 DEF TurnsBudget, MixtureDue
<1> QED BY <1>4, <1>5, <1>6, <1>7, <1>8

LEMMA AbortInv ==
  ASSUME FrameInv, Abort
  PROVE  FrameInv'
<1> USE DEF FrameInv
<1>1. /\ pos < len /\ len' = pos /\ pos' = pos
      /\ seq' = seq /\ expected' = expected /\ lossRun' = lossRun /\ resets' = resets
      /\ partial' = partial /\ open' = open /\ discarding' = discarding
      /\ delivered' = delivered /\ owed' = owed /\ strays' = strays /\ mixtures' = mixtures
      /\ turns' = turns /\ blind' = blind
      /\ msg' = msg /\ intact' = intact
      /\ faults' = IF pos > 0 THEN faults + 1 ELSE faults
  BY DEF reassembler, hidden, Abort
<1>2. pos \in Nat /\ len \in Nat /\ faults \in Nat /\ resets \in Nat /\ strays \in Nat
  BY DEF TypeOK
<1>3. TypeOK'
  <2>1. len' \in Nat /\ pos' \in 0 .. len' /\ faults' \in Nat
    BY <1>1, <1>2
  <2> QED BY <1>1, <2>1 DEF TypeOK
<1>4. SeqTracks' /\ (delivered = owed)'
  BY <1>1 DEF SeqTracks
<1>5. ~UnderWay'
  BY <1>1, <1>2 DEF UnderWay
<1>6. PartialIsPrefix'
  BY <1>1, <1>2, <1>5 DEF PartialIsPrefix
<1>7. ResetBudget'
  <2>1. resets + GapDue + OverflowDue <= faults + strays /\ OverflowDue \in Nat /\ GapDue \in Nat
    BY DEF ResetBudget, GapDue, OverflowDue
  <2>2. OverflowDue' = 0
    BY <1>1, <1>2 DEF OverflowDue
  <2>3. CASE pos > 0
    <3>1. faults' = faults + 1 /\ resets' = resets /\ strays' = strays
      BY <1>1, <2>3
    <3>2. resets <= faults + strays
      BY <1>2, <2>1
    <3>3. resets + GapDue' + 0 <= faults + 1 + strays
      BY <1>2, <3>2 DEF GapDue
    <3> QED BY <2>2, <3>1, <3>3 DEF ResetBudget
  <2>4. CASE pos = 0
    <3>1. GapDue' = GapDue
      BY <1>1, <1>5, <2>4 DEF GapDue, UnderWay
    <3> QED BY <1>1, <1>2, <2>1, <2>2, <2>4, <3>1 DEF ResetBudget
  <2> QED BY <1>2, <2>3, <2>4
<1>8. TurnsBudget'
  BY <1>1 DEF TurnsBudget, MixtureDue
<1> QED BY <1>3, <1>4, <1>6, <1>7, <1>8

LEMMA LostInv ==
  ASSUME FrameInv, Lost
  PROVE  FrameInv'
<1> USE DEF FrameInv
<1>1. /\ pos < len /\ len' = len /\ pos' = pos + 1
      /\ seq' = NextSeq(seq) /\ expected' = expected
      /\ lossRun < MaxLossRun /\ lossRun' = lossRun + 1 /\ resets' = resets
      /\ partial' = partial /\ open' = open /\ discarding' = discarding
      /\ delivered' = delivered /\ owed' = owed /\ strays' = strays /\ mixtures' = mixtures
      /\ turns' = (IF lossRun + 1 = SeqMod THEN turns + 1 ELSE turns) /\ blind' = blind
      /\ msg' = msg /\ intact' = FALSE
      /\ faults' = IF lossRun = 0 THEN faults + 1 ELSE faults
  BY DEF reassembler, Lost, Accepted
<1>2. /\ pos \in Nat /\ len \in Nat /\ faults \in Nat /\ resets \in Nat /\ strays \in Nat
      /\ lossRun \in Nat /\ seq \in Nat /\ expected \in Nat
      /\ MaxLossRun \in Nat /\ SeqMod \in Nat
  BY FrameAssumption DEF TypeOK
<1>3. seq' \in 0 .. (SeqMod - 1) /\ (seq' = seq + 1 \/ seq' + SeqMod = seq + 1)
  BY <1>1, NextSeqType DEF TypeOK
<1>4. TypeOK'
  <2>1. pos' \in 0 .. len' /\ faults' \in Nat /\ lossRun' \in 0 .. MaxLossRun
    BY <1>1, <1>2
  <2>2. intact' \in BOOLEAN
    BY <1>1
  <2>3. turns' \in Nat
    BY <1>1 DEF TypeOK
  <2> QED BY <1>1, <1>3, <2>1, <2>2, <2>3 DEF TypeOK
<1>5. SeqTracks'
  <2> SUFFICES ASSUME lossRun' < SeqMod PROVE SeqTracks'
    BY DEF SeqTracks
  <2>1. expected < SeqMod /\ lossRun + 1 < SeqMod /\ expected + lossRun < 2 * SeqMod
    BY <1>1, <1>2, FrameAssumption DEF TypeOK
  <2>2. seq < SeqMod
    BY <1>2 DEF TypeOK
  <2> QED BY <1>1, <1>2, <1>3, <2>1, <2>2 DEF SeqTracks, NextSeq
<1>6. (delivered = owed)'
  BY <1>1
<1>7. lossRun' > 0 /\ pos' > 0
  BY <1>1, <1>2
<1>8. PartialIsPrefix'
  BY <1>1, <1>7 DEF PartialIsPrefix
<1>9. ResetBudget'
  <2>1. resets + GapDue + OverflowDue <= faults + strays /\ OverflowDue \in Nat /\ GapDue \in Nat
    BY DEF ResetBudget, GapDue, OverflowDue
  <2>2. OverflowDue' <= OverflowDue /\ OverflowDue' \in Nat
    BY <1>1, <1>2, FrameAssumption DEF OverflowDue
  <2>3. GapDue' = 1
    BY <1>7 DEF GapDue
  <2>4. lossRun > 0 => GapDue = 1
    BY DEF GapDue
  <2>5. lossRun = 0 \/ lossRun > 0
    BY <1>2
  <2>6. /\ resets' = resets /\ strays' = strays
        /\ faults' = IF lossRun = 0 THEN faults + 1 ELSE faults
    BY <1>1
  <2>7. resets + 1 + OverflowDue' <= faults' + strays
    <3> USE DEF OverflowDue
    <3>1. CASE lossRun = 0
      <4>1. faults' = faults + 1 /\ resets + OverflowDue <= faults + strays
        BY <1>2, <2>1, <2>6, <3>1
      <4> QED BY <1>1, <1>2, <4>1, FrameAssumption
    <3>2. CASE lossRun > 0
      <4>1. faults' = faults /\ resets + 1 + OverflowDue <= faults + strays
        BY <1>2, <2>1, <2>4, <2>6, <3>2
      <4> QED BY <1>1, <1>2, <4>1, FrameAssumption
    <3> QED BY <2>5, <3>1, <3>2
  <2> QED BY <2>3, <2>6, <2>7 DEF ResetBudget
<1>10. TurnsBudget'
  <2>1. /\ mixtures \in Nat /\ turns \in Nat
        /\ mixtures + MixtureDue <= turns
        /\ blind \/ strays > 0 \/ lossRun >= SeqMod => turns > 0
    BY DEF TurnsBudget, TypeOK
  <2>2. CASE lossRun + 1 = SeqMod
    <3>1. turns' = turns + 1 /\ MixtureDue \in 0 .. 1 /\ MixtureDue' \in 0 .. 1
      BY <1>1, <2>2 DEF MixtureDue
    <3>2. mixtures' + MixtureDue' <= turns' /\ turns' > 0
      BY <1>1, <2>1, <3>1 DEF MixtureDue
    <3> QED BY <3>2 DEF TurnsBudget
  <2>3. CASE lossRun + 1 # SeqMod
    <3>1. turns' = turns /\ (lossRun' >= SeqMod <=> lossRun >= SeqMod)
      BY <1>1, <1>2, <2>3
    <3>2. MixtureDue' = MixtureDue
      BY <1>1, <3>1 DEF MixtureDue
    <3> QED BY <1>1, <2>1, <3>1, <3>2 DEF TurnsBudget
  <2> QED BY <2>2, <2>3
<1> QED BY <1>4, <1>5, <1>6, <1>8, <1>9, <1>10

LEMMA ReconnectInv ==
  ASSUME FrameInv, Reconnect
  PROVE  FrameInv'
<1> USE DEF FrameInv
<1>1. /\ pos = len /\ len' = len /\ pos' = pos
      /\ seq' = 0 /\ expected' = 0 /\ lossRun' = 0 /\ resets' = resets
      /\ partial' = << >> /\ open' = FALSE /\ discarding' = FALSE
      /\ delivered' = delivered /\ owed' = owed /\ strays' = strays /\ mixtures' = mixtures
      /\ turns' = turns /\ blind' = FALSE
      /\ msg' = msg /\ intact' = intact
      /\ faults' = faults
  BY DEF Reconnect
<1>2. TypeOK'
  <2>1. partial' \in Seq(Piece) /\ Len(partial') <= MaxPackets
    BY <1>1, FrameAssumption
  <2>2. 0 \in 0 .. (SeqMod - 1) /\ 0 \in 0 .. MaxLossRun
    BY FrameAssumption
  <2>3. FALSE \in BOOLEAN
    OBVIOUS
  <2> QED BY <1>1, <2>1, <2>2, <2>3 DEF TypeOK
<1>3. SeqTracks' /\ (delivered = owed)'
  BY <1>1 DEF SeqTracks
<1>4. pos \in Nat /\ resets \in Nat /\ faults \in Nat /\ strays \in Nat
  BY DEF TypeOK
<1>5. PartialIsPrefix'
  BY <1>1, <1>4 DEF PartialIsPrefix, UnderWay
<1>6. ResetBudget'
  <2>1. resets + GapDue + OverflowDue <= faults + strays /\ OverflowDue \in Nat /\ GapDue \in Nat
    BY DEF ResetBudget, GapDue, OverflowDue
  <2>2. GapDue' = 0 /\ OverflowDue' = 0
    BY <1>1, <1>4 DEF GapDue, OverflowDue
  <2> QED BY <1>1, <1>4, <2>1, <2>2 DEF ResetBudget
<1>7. TurnsBudget'
  <2>1. /\ mixtures \in Nat /\ turns \in Nat /\ MixtureDue \in 0 .. 1
        /\ mixtures + MixtureDue <= turns
        /\ blind \/ strays > 0 \/ lossRun >= SeqMod => turns > 0
    BY DEF TurnsBudget, TypeOK, MixtureDue
  <2>2. MixtureDue' = 0 /\ ~(lossRun' >= SeqMod)
    BY <1>1, FrameAssumption DEF MixtureDue
  <2> QED BY <1>1, <2>1, <2>2 DEF TurnsBudget
<1> QED BY <1>2, <1>3, <1>5, <1>6, <1>7

LEMMA StutterInv ==
  ASSUME FrameInv, UNCHANGED vars
  PROVE  FrameInv'
BY DEF vars, segmenter, reassembler, FrameInv, TypeOK, SeqTracks, PartialIsPrefix,
       hidden, TurnsBudget, MixtureDue, ResetBudget, GapDue, OverflowDue, UnderWay, Fits

LEMMA NextInv == FrameInv /\ [Next]_vars => FrameInv'
<1> SUFFICES ASSUME FrameInv, [Next]_vars PROVE FrameInv'
  OBVIOUS
<1>1. ASSUME NEW k \in 1 .. (MaxPackets + 1), StartMessage(k) PROVE FrameInv'
  BY <1>1, StartInv
<1>2. CASE Arrives
  <2>1. SeqTracks'
    BY <1>2, ArrivesCounters, FrameAssumption DEF FrameInv, SeqTracks
  <2> QED BY <1>2, <2>1, ArrivesType, ArrivesPrefix, ArrivesDelivers, ArrivesBudget, ArrivesTurns DEF FrameInv
<1>3. CASE Lost
  BY <1>3, LostInv
<1>4. CASE Abort
  BY <1>4, AbortInv
<1>5. CASE Reconnect
  BY <1>5, ReconnectInv
<1>6. CASE UNCHANGED vars
  BY <1>6, StutterInv
<1> QED BY <1>1, <1>2, <1>3, <1>4, <1>5, <1>6 DEF Next

-----------------------------------------------------------------------------

\* The inductive invariant holds in every state.
THEOREM FrameInvariant == Spec => []FrameInv
BY InitInv, NextInv, PTL DEF Spec

\* Whatever is lost, cut or oversize, the owner gets exactly the messages all
\* of whose packets arrived, and beside them at most one mixture for each run
\* of SeqMod or more lost packets (Reassembler::feed).
THEOREM DeliversExactly == Spec => []DeliversWhatArrived
<1>1. FrameInv => DeliversWhatArrived
  BY DEF FrameInv, TypeOK, TurnsBudget, MixtureDue, DeliversWhatArrived
<1> QED BY <1>1, FrameInvariant, PTL

\* ResetFn is called at most once per fault, and per packet read blindly after
\* a run of SeqMod or more lost packets.
THEOREM ResetsAreBounded == Spec => []OneResetPerFault
<1>1. FrameInv => OneResetPerFault
  BY DEF FrameInv, TypeOK, ResetBudget, TurnsBudget, GapDue, OverflowDue, OneResetPerFault
<1> QED BY <1>1, FrameInvariant, PTL
=============================================================================
