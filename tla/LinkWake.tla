-------------------------------- MODULE LinkWake --------------------------------
(***************************************************************************)
(* How the link task learns of new deadlines while it sleeps               *)
(* (src/src/hal/link/link_transport_ble.cpp, wake_link() and link_task()). *)
(*                                                                         *)
(* The task sleeps on its event queue until the nearest deadline it knows  *)
(* of. A task that registers a deadline, or moves the file system's        *)
(* generation, calls wake_link(), which queues a Wake unless one is queued *)
(* already; g_wake_queued says so without a lock. A worker registers       *)
(* under the service lock and holds it over wake_link(); the storage hook  *)
(* runs on any task without it. Each atomic access is a step.              *)
(*                                                                         *)
(* A deadline is named by who registered it last. A companion is up all    *)
(* the while. Wakes from the link task's own handlers are left out: the    *)
(* task looks at the deadlines after each event anyway.                    *)
(***************************************************************************)
EXTENDS Integers, Sequences

CONSTANTS
  Workers,     \* tasks that register deadlines with the service
  Hooks,       \* tasks that move the file system's generation
  Nobody,      \* the service lock is free
  EventDepth   \* g_queue

Kinds == {"Wake", "Event"}
Wakers == Workers \cup Hooks

ASSUME WakeAssumption ==
  /\ Workers \cap Hooks = {} /\ Nobody \notin Wakers
  /\ EventDepth \in Nat \ {0}

VARIABLES
  events,      \* g_queue: "Wake" or "Event"
  wakeQueued,  \* g_wake_queued
  lock,        \* g_mutex of the service, held by a worker
  registered,  \* deadlines, by who registered them
  known,       \* those the link task's current wait takes into account
  waker,       \* each waker's place in wake_link()
  link,        \* the link task: evaluate | receive | consume
  overlapped   \* history: a wake was skipped for one that was then refused

wakeVars == <<events, wakeQueued, lock, registered, known, waker, link, overlapped>>

WakeInit ==
  /\ events = << >> /\ wakeQueued = FALSE /\ lock = Nobody
  /\ registered = {} /\ known = {}
  /\ waker = [w \in Wakers |-> "idle"]
  /\ link = "evaluate" /\ overlapped = FALSE

-----------------------------------------------------------------------------
(* wake_link() and who calls it *)

\* A new deadline, under the lock; or a new generation, without it.
Register(w) ==
  /\ waker[w] = "idle"
  /\ IF w \in Workers THEN lock = Nobody /\ lock' = w ELSE UNCHANGED lock
  /\ registered' = registered \cup {w} /\ known' = known \ {w}
  /\ waker' = [waker EXCEPT ![w] = "exchange"]
  /\ UNCHANGED <<events, wakeQueued, link, overlapped>>

\* wake_link() returns, and with it the service entry that called it.
Return(w) ==
  /\ waker' = [waker EXCEPT ![w] = "idle"]
  /\ lock' = IF lock = w THEN Nobody ELSE lock

\* Mutation of Exchange: the flag is set but not looked at.
ExchangeBlind(w) ==
  /\ waker[w] = "exchange"
  /\ wakeQueued' = TRUE
  /\ waker' = [waker EXCEPT ![w] = "send"]
  /\ UNCHANGED <<events, lock, registered, known, link, overlapped>>

\* g_wake_queued.exchange(true)
Exchange(w) ==
  /\ waker[w] = "exchange"
  /\ wakeQueued' = TRUE
  /\ IF wakeQueued
     THEN /\ Return(w)
          /\ overlapped' = (overlapped \/ \E v \in Wakers : waker[v] = "refused")
     ELSE /\ waker' = [waker EXCEPT ![w] = "send"]
          /\ UNCHANGED <<lock, overlapped>>
  /\ UNCHANGED <<events, registered, known, link>>

\* xQueueSend() without waiting
SendWake(w) ==
  /\ waker[w] = "send"
  /\ IF Len(events) < EventDepth
     THEN Return(w) /\ events' = Append(events, "Wake")
     ELSE /\ waker' = [waker EXCEPT ![w] = "refused"]
          /\ UNCHANGED <<events, lock>>
  /\ UNCHANGED <<wakeQueued, registered, known, link, overlapped>>

\* Mutation of Refused: the flag is left set.
RefusedKeepsFlag(w) ==
  /\ waker[w] = "refused"
  /\ Return(w)
  /\ UNCHANGED <<events, wakeQueued, registered, known, link, overlapped>>

\* The queue was full: g_wake_queued.store(false)
Refused(w) ==
  /\ waker[w] = "refused"
  /\ wakeQueued' = FALSE
  /\ Return(w)
  /\ UNCHANGED <<events, registered, known, link, overlapped>>

\* The host task queues an event.
Post ==
  /\ Len(events) < EventDepth
  /\ events' = Append(events, "Event")
  /\ UNCHANGED <<wakeQueued, lock, registered, known, waker, link, overlapped>>

-----------------------------------------------------------------------------
(* link_task() *)

\* service_tick(): some deadlines are due and dealt with.
Tick ==
  /\ link = "evaluate" /\ lock = Nobody
  /\ \E due \in SUBSET registered \ {{}} :
       registered' = registered \ due /\ known' = known \ due
  /\ UNCHANGED <<events, wakeQueued, lock, waker, link, overlapped>>

\* link_wait_ms(): the wait takes every deadline there is into account.
Evaluate ==
  /\ link = "evaluate" /\ lock = Nobody
  /\ known' = registered
  /\ link' = "receive"
  /\ UNCHANGED <<events, wakeQueued, lock, registered, waker, overlapped>>

\* An event ends the wait; handle() needs the lock.
TakeEvent ==
  /\ link = "receive" /\ events # << >>
  /\ Head(events) = "Wake" \/ lock = Nobody
  /\ events' = Tail(events)
  /\ link' = IF Head(events) = "Wake" THEN "consume" ELSE "evaluate"
  /\ UNCHANGED <<wakeQueued, lock, registered, known, waker, overlapped>>

\* g_wake_queued.store(false)
Consume ==
  /\ link = "consume"
  /\ wakeQueued' = FALSE
  /\ link' = "evaluate"
  /\ UNCHANGED <<events, lock, registered, known, waker, overlapped>>

\* The wait ends by itself: a known deadline, or IDLE_TICK_MS since the last tick.
WaitOver ==
  /\ link = "receive" /\ events = << >>
  /\ link' = "evaluate"
  /\ UNCHANGED <<events, wakeQueued, lock, registered, known, waker, overlapped>>

WakeLink == \E w \in Wakers : Exchange(w) \/ SendWake(w) \/ Refused(w)

WakeNext ==
  \/ \E w \in Wakers : Register(w)
  \/ WakeLink
  \/ Post
  \/ Tick \/ Evaluate \/ TakeEvent \/ Consume \/ WaitOver

WakeSpec == WakeInit /\ [][WakeNext]_wakeVars

-----------------------------------------------------------------------------
(* Properties *)

\* "At most one in flight" (link_transport_ble.cpp:149): a Wake in the queue, a
\* waker about to queue one or to take that back, and the link task consuming
\* one exclude each other, and there is one of them whenever g_wake_queued is set.
Sending(w) == waker[w] \in {"send", "refused"}
WakeIn(q) == \E i \in 1 .. Len(q) : q[i] = "Wake"
AtMostOneWake(q) == \A i, j \in 1 .. Len(q) : q[i] = "Wake" /\ q[j] = "Wake" => i = j

OneInFlight ==
  /\ AtMostOneWake(events)
  /\ \A v, w \in Wakers : Sending(v) /\ Sending(w) => v = w
  /\ \A w \in Wakers : Sending(w) => ~WakeIn(events) /\ link # "consume"
  /\ WakeIn(events) => link # "consume"
  /\ wakeQueued <=> WakeIn(events) \/ link = "consume" \/ \E w \in Wakers : Sending(w)

\* The lock is held by a worker on its way through wake_link() and by nobody else.
LockHeld == \A w \in Workers : waker[w] # "idle" <=> lock = w

WakeTypeOK ==
  /\ events \in Seq(Kinds) /\ Len(events) <= EventDepth
  /\ wakeQueued \in BOOLEAN /\ overlapped \in BOOLEAN
  /\ lock \in Workers \cup {Nobody}
  /\ known \subseteq registered /\ registered \subseteq Wakers
  /\ waker \in [Wakers -> {"idle", "exchange", "send", "refused"}]
  /\ link \in {"evaluate", "receive", "consume"}

\* While the link task sleeps on a deadline it does not know, something is
\* about to wake it.
Pending ==
  \A w \in registered \ known :
    (link = "receive" /\ waker[w] \in {"idle", "refused"})
      => events # << >> \/ overlapped \/ \E v \in Wakers : waker[v] = "send"

\* The lock keeps workers from overlapping.
OverlapNeedsHook == overlapped => Hooks # {}

\* The inductive invariant.
WakeInv == WakeTypeOK /\ LockHeld /\ OneInFlight /\ Pending /\ OverlapNeedsHook

\* "Make link_task re-evaluate its wait" (link_transport_ble.cpp:181): once
\* every wake_link() has returned, the link task does not sleep on an empty
\* queue without taking every registered deadline into account: a full queue
\* "means link_task is about to loop anyway" (184). Alone it does not hold;
\* WakeNoticed says when it does.
EveryWakeNoticed ==
  (link = "receive" /\ events = << >> /\ \A w \in Wakers : waker[w] = "idle")
    => known = registered

\* That fails only where a wake was skipped for another's that the full queue
\* refused, and never among workers alone.
WakeNoticed ==
  /\ overlapped \/ EveryWakeNoticed
  /\ Hooks = {} => EveryWakeNoticed
=============================================================================
