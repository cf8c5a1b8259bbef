---------------------------- MODULE AcceptTransfer ----------------------------
(***************************************************************************)
(* One inbound transfer into memory: service_accept_open(), _expect() and  *)
(* _close() of src/src/hal/link/link_service.cpp around the engine of      *)
(* BulkXfer. A worker task opens a receiver, asks the phone, and waits for *)
(* the body the phone announces; the phone streams DATA that may overtake  *)
(* its answer; the link task feeds, stalls and tears the receiver down.    *)
(*                                                                         *)
(* The sender of BulkXfer is the phone here (external: its engine is       *)
(* mirrored from the pager's). Every service entry is one step under the   *)
(* service lock, except service_accept_expect(), which holds the lock      *)
(* while it replays the buffered DATA one by one (phase "replaying").      *)
(* Waiting and done are on the pager's side of the callback: the worker    *)
(* blocks until `done` has run.                                            *)
(***************************************************************************)
EXTENDS BulkXfer

CONSTANT MaxBody  \* max_size of the open, in chunks

\* The pager sends and accepts bodies from the first chunk, so the runs have
\* Start = 0; nothing below depends on it.
ASSUME AcceptAssumption == MaxBody \in Nat

VARIABLES
  phase,     \* closed | open | replaying | live | spent | gone
  early,     \* Inbound::early, the offsets of DATA before expect()
  overflow,  \* Inbound::failed
  waiting,   \* Inbound::done is set
  crcRight,  \* the announced CRC is that of the body
  quiet,     \* stall_ms have passed since last_ms
  linkUp,
  result,    \* what done was given: none | ok | failed
  doneRuns   \* history: how often done ran

accept == <<phase, early, overflow, waiting, crcRight, quiet, linkUp, result, doneRuns>>
acceptVars == <<vars, accept>>
phone == <<sender, data, dataLost, ackLost>>

AcceptInit ==
  /\ Init
  /\ phase = "closed" /\ early = << >> /\ overflow = FALSE
  /\ waiting = FALSE /\ crcRight \in BOOLEAN /\ quiet = FALSE
  /\ linkUp = TRUE /\ result = "none" /\ doneRuns = 0

LockFree == phase # "replaying"

\* The receiver has an entry in State::inbound.
Used == phase \notin {"closed", "gone"}

-----------------------------------------------------------------------------
(* finish_inbound() *)

\* Mutation of Finish: done is not cleared.
FinishKeepsDone(success) ==
  /\ UNCHANGED waiting
  /\ doneRuns' = doneRuns + 1
  /\ result' = IF success /\ crcRight THEN "ok" ELSE "failed"

\* The waiter's callback is taken and run, with the CRC verdict.
Finish(success) ==
  /\ waiting' = FALSE
  /\ doneRuns' = doneRuns + 1
  /\ result' = IF success /\ crcRight THEN "ok" ELSE "failed"

\* Mutation of Receive: the body is put together in the order of arrival.
ReceiveUnchecked(offset) == rState = "Active" /\ DataInOrderUnchecked(offset)

\* XferReceiver::on_data() of a receiver that is not finished.
Receive(offset) == DataOutOfOrder(offset) \/ DataInOrder(offset)

\* inbound_feed() while somebody waits: the receiver takes the message, and the
\* transfer ends when that makes it done or failed. `rest` is the phase after it.
Feed(offset, rest) ==
  /\ Receive(offset)
  /\ CASE rState' = "Active" -> phase' = rest /\ UNCHANGED <<waiting, doneRuns, result>>
       [] rState' = "Done"   -> phase' = "spent" /\ Finish(TRUE)
       [] rState' = "Failed" -> phase' = "spent" /\ Finish(FALSE)

-----------------------------------------------------------------------------
(* The worker *)

\* service_accept_open()
Open ==
  /\ phase = "closed" /\ linkUp
  /\ phase' = "open"
  /\ UNCHANGED <<vars, early, overflow, waiting, crcRight, quiet, linkUp, result, doneRuns>>

\* service_accept_expect() that fails at once, or succeeds at once for an
\* empty body.
ExpectEnds ==
  /\ phase = "open"
  /\ phase' = "spent"
  /\ \/ /\ overflow \/ Size > MaxBody
        /\ Finish(FALSE)
     \/ /\ ~overflow /\ Size = 0
        /\ Finish(TRUE)
  /\ UNCHANGED <<vars, early, overflow, crcRight, quiet, linkUp>>

\* service_accept_expect(): the receiver goes live and the replay begins.
Expect ==
  /\ phase = "open"
  /\ ~overflow /\ Size \in 1 .. MaxBody
  /\ phase' = "replaying"
  /\ waiting' = TRUE /\ quiet' = FALSE
  /\ UNCHANGED <<vars, early, overflow, crcRight, linkUp, result, doneRuns>>

\* The next message of `early`; nothing is replayed once the transfer ended.
Replay ==
  /\ phase = "replaying" /\ early # << >>
  /\ Feed(Head(early), "replaying")
  /\ early' = IF phase' = "spent" THEN << >> ELSE Tail(early)
  /\ quiet' = FALSE
  /\ UNCHANGED <<phone, overflow, crcRight, linkUp>>

ReplayOver ==
  /\ phase = "replaying" /\ early = << >>
  /\ phase' = "live"
  /\ UNCHANGED <<vars, early, overflow, waiting, crcRight, quiet, linkUp, result, doneRuns>>

\* service_accept_close(): the worker has its answer, or the phone's made the
\* bulk transfer unnecessary.
Close ==
  /\ phase = "spent" \/ (phase = "open")
  /\ phase' = "gone" /\ early' = << >>
  /\ UNCHANGED <<vars, overflow, waiting, crcRight, quiet, linkUp, result, doneRuns>>

-----------------------------------------------------------------------------
(* DATA reaches the pager: inbound_on_bulk() *)

\* Mutation of Buffer: no bound on what is buffered.
BufferUnbounded(offset) ==
  /\ phase = "open"
  /\ early' = Append(early, offset)
  /\ UNCHANGED <<phase, overflow, waiting, quiet, doneRuns, result, receiver, acks, faults>>

\* Before expect() DATA is kept, as long as no more comes than may be announced.
Buffer(offset) ==
  /\ phase = "open"
  /\ IF overflow \/ Len(early) + 1 > MaxBody
     THEN overflow' = TRUE /\ early' = << >>
     ELSE early' = Append(early, offset) /\ UNCHANGED overflow
  /\ UNCHANGED <<phase, waiting, quiet, doneRuns, result, receiver, acks, faults>>

\* A live receiver takes it; any DATA counts as a sign of life.
Live(offset) ==
  /\ phase = "live"
  /\ Feed(offset, "live")
  /\ quiet' = FALSE
  /\ UNCHANGED <<early, overflow>>

\* An unknown id, or a receiver whose transfer has ended.
Ignore ==
  /\ phase \in {"closed", "spent", "gone"}
  /\ UNCHANGED <<phase, early, overflow, waiting, quiet, doneRuns, result, receiver, acks, faults>>

DataArrives ==
  /\ LockFree /\ linkUp
  /\ data # << >>
  /\ data' = Tail(data)
  /\ Buffer(Head(data)) \/ Live(Head(data)) \/ Ignore
  /\ UNCHANGED <<sender, dataLost, ackLost, crcRight, linkUp>>

-----------------------------------------------------------------------------
(* The link task's other entries *)

\* stall_ms pass without DATA.
Elapse ==
  /\ LockFree /\ Used /\ waiting /\ ~quiet
  /\ quiet' = TRUE
  /\ UNCHANGED <<vars, phase, early, overflow, waiting, crcRight, linkUp, result, doneRuns>>

\* service_tick()
Stall ==
  /\ LockFree /\ Used /\ waiting /\ quiet
  /\ phase' = "spent"
  /\ Finish(FALSE)
  /\ UNCHANGED <<vars, early, overflow, crcRight, quiet, linkUp>>

\* Mutation of Disconnect: receivers are dropped without an answer.
DisconnectDrops ==
  /\ LockFree /\ linkUp
  /\ linkUp' = FALSE /\ phase' = "gone" /\ early' = << >>
  /\ data' = << >> /\ acks' = << >>
  /\ UNCHANGED <<sender, receiver, dataLost, ackLost, faults, overflow, crcRight, quiet,
                 waiting, result, doneRuns>>

\* inbound_reset() in service_on_disconnect(). The next session does not know
\* the id.
Disconnect ==
  /\ LockFree /\ linkUp
  /\ linkUp' = FALSE /\ phase' = "gone" /\ early' = << >>
  /\ data' = << >> /\ acks' = << >>
  /\ IF waiting THEN Finish(FALSE) ELSE UNCHANGED <<waiting, result, doneRuns>>
  /\ UNCHANGED <<sender, receiver, dataLost, ackLost, faults, overflow, crcRight, quiet>>

-----------------------------------------------------------------------------
(* The phone and the link *)

\* The phone's engine runs from the request on.
PhoneStep ==
  /\ LockFree /\ linkUp /\ phase # "closed"
  /\ Begin \/ ReceiveAck \/ Retransmit \/ LoseData \/ LoseAck
  /\ UNCHANGED accept

\* The phone stops sending after a while without acknowledgements.
PhoneGivesUp ==
  /\ LockFree /\ sState = "Active" /\ phase # "closed"
  /\ sState' = "Failed"
  /\ UNCHANGED <<acked, next, high, rewound, credits, receiver, data, acks, dataLost, ackLost,
                 faults, accept>>

AcceptNext ==
  \/ Open \/ ExpectEnds \/ Expect \/ Replay \/ ReplayOver \/ Close
  \/ DataArrives \/ Elapse \/ Stall \/ Disconnect
  \/ PhoneStep \/ PhoneGivesUp

AcceptSpec == AcceptInit /\ [][AcceptNext]_acceptVars

\* The lock holder goes on, the link task takes what arrives and ticks, time
\* passes, and the phone does not send forever.
AcceptFairness ==
  /\ WF_acceptVars(Replay) /\ WF_acceptVars(ReplayOver)
  /\ WF_acceptVars(DataArrives) /\ WF_acceptVars(Elapse) /\ WF_acceptVars(Stall)
  /\ WF_acceptVars(PhoneGivesUp)

AcceptFairSpec == AcceptSpec /\ AcceptFairness

-----------------------------------------------------------------------------
(* Properties *)

\* Types and phases. A receiver buffers at most what may be announced
\* (link_service.cpp:257), and keeps nothing once its transfer ended, except
\* when more was announced than may be (until the close).
AcceptTypeOK ==
  /\ TypeOK
  /\ phase \in {"closed", "open", "replaying", "live", "spent", "gone"}
  /\ early \in Seq(0 .. Size) /\ Len(early) <= MaxBody
  /\ early # << >> => \/ phase \in {"open", "replaying"}
                      \/ phase = "spent" /\ Size > MaxBody
  /\ overflow \in BOOLEAN /\ waiting \in BOOLEAN /\ crcRight \in BOOLEAN
  /\ quiet \in BOOLEAN /\ linkUp \in BOOLEAN
  /\ result \in {"none", "ok", "failed"}

\* done runs exactly once per expect (link_service.h:172): never while or after
\* somebody still waits or has been answered, and nobody waits on a receiver
\* that is not live.
DoneOnce ==
  /\ doneRuns = IF result = "none" THEN 0 ELSE 1
  /\ waiting => result = "none" /\ phase \in {"replaying", "live"}
  /\ phase = "spent" => doneRuns = 1

\* done(true) comes with the whole body in order, however DATA overtook the
\* answer, was lost, resent, buffered twice and replayed.
OkIsWhole == result = "ok" => crcRight /\ stored = Offsets(Start, Size)

\* What is buffered was sent, the engine's own invariant holds throughout, a
\* success leaves nothing to receive, and the phases tell who waits.
AcceptInv ==
  /\ AcceptTypeOK /\ DoneOnce
  /\ XferInv /\ early \in Seq(Start .. (high - 1))
  /\ result = "ok" => crcRight /\ rNext = Size
  /\ phase \in {"closed", "open"} => result = "none"
  /\ phase \in {"replaying", "live"} => waiting
  /\ overflow => early = << >>

\* The worker is never left waiting: a body, a failure, a stall or a
\* disconnect answers it (link_call.cpp:137).
WorkerReturns == waiting ~> ~waiting

\* "Once every byte is in, it re-ACKs the final offset for any further DATA,
\* which covers a lost final ACK" (PROTOCOL.md:154), as long as the call has
\* not ended. It does not hold: finish_inbound() resets the receiver.
ReAcksWhenDone ==
  [][DataArrives /\ phase = "spent" /\ rState = "Done" => acks' = Append(acks, Size)]_acceptVars
=============================================================================
