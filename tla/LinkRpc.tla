-------------------------------- MODULE LinkRpc --------------------------------
(***************************************************************************)
(* The request side of the PagerLink RPC layer (src/src/hal/link/          *)
(* link_rpc.cpp, class Rpc) as link_service.cpp drives it: calls of worker *)
(* tasks, responses, the deadline tick of the link task, disconnection and *)
(* the next session's new Rpc.                                             *)
(*                                                                         *)
(* Every entry runs under the service lock and is one action, with one     *)
(* exception: tick() and disconnect() first take the entries to fail out   *)
(* of the table and then run their callbacks one by one, and a callback    *)
(* may call() again. Those callbacks are the set `running`; while it is    *)
(* not empty the lock is held and only callbacks act.                      *)
(*                                                                         *)
(* The clock wraps (2^32 ms, here TimeMod) and so do the request ids       *)
(* (32768 odd ids, here NumIds, numbered from 0). A request leaves for the *)
(* peer and its response comes back, late or never: `sent` holds the       *)
(* requests of this session that may still be answered.                    *)
(***************************************************************************)
EXTENDS Integers, FiniteSets

CONSTANTS
  MaxCalls,    \* bound: calls made
  MaxPending,  \* Rpc::MAX_PENDING
  NumIds,      \* request ids of this role
  TimeMod,     \* values of the millisecond clock
  Timeouts,    \* timeouts callers ask for
  MaxAge       \* bound: how long the link task may leave a request unchecked

ASSUME RpcAssumption ==
  /\ MaxCalls \in Nat
  /\ MaxPending \in Nat \ {0}
  /\ NumIds \in Nat /\ MaxPending < NumIds
  /\ TimeMod \in Nat \ {0}
  /\ Timeouts \subseteq 1 .. (TimeMod \div 2)
  /\ MaxAge \in Nat
  /\ \A t \in Timeouts : MaxAge < t + TimeMod \div 2

Calls == 1 .. MaxCalls

VARIABLES
  connected,
  pending,     \* Rpc::pending_: [call, id, deadline], and [age, timeout] as history
  nextId,      \* Rpc::next_id_
  now,         \* the clock
  running,     \* calls taken out of pending whose callback is still to run
  inCallback,  \* a callback of the current tick() or disconnect() has run
  sent,        \* [call, id] of requests the peer may still answer
  status,      \* what call() returned for each call, "new" before
  callbacks,   \* history: how often each call's callback ran
  answer,      \* history: the call whose response it was given, 0 if none
  stream,      \* history: ids allocated or skipped in this session
  place        \* history: where in that stream each call's id is

vars == <<connected, pending, nextId, now, running, inCallback, sent, status,
          callbacks, answer, stream, place>>

Init ==
  /\ connected = FALSE
  /\ pending = {} /\ nextId = 0 /\ now = 0
  /\ running = {} /\ inCallback = FALSE /\ sent = {}
  /\ status = [c \in Calls |-> "new"]
  /\ callbacks = [c \in Calls |-> 0]
  /\ answer = [c \in Calls |-> 0]
  /\ stream = 0 /\ place = [c \in Calls |-> 0]

\* Nobody holds the service lock.
LockFree == running = {}

Ran(c) == callbacks' = [callbacks EXCEPT ![c] = @ + 1]

-----------------------------------------------------------------------------
(* Ids *)

\* The id k steps after next_id_.
IdAfter(k) == (nextId + k) % NumIds

\* Mutation of Skipped: ids of outstanding requests are handed out again.
SkippedNone == 0

\* How many ids alloc_id() passes over because they are outstanding.
Skipped ==
  CHOOSE k \in 0 .. (NumIds - 1) :
    /\ \A p \in pending : p.id # IdAfter(k)
    /\ \A j \in 0 .. (k - 1) : \E p \in pending : p.id = IdAfter(j)

\* alloc_id() for call c.
AllocId(c) ==
  /\ nextId' = IdAfter(Skipped + 1)
  /\ place' = [place EXCEPT ![c] = stream + Skipped]
  /\ stream' = stream + Skipped + 1

-----------------------------------------------------------------------------
(* call() *)

\* A worker calls, or a callback that has just run does.
MayCall(c) ==
  /\ status[c] = "new"
  /\ \A d \in Calls : d < c => status[d] # "new"
  /\ LockFree \/ inCallback

\* No link, or MAX_PENDING requests outstanding.
CallRefused(c) ==
  /\ MayCall(c)
  /\ ~connected \/ Cardinality(pending) >= MaxPending
  /\ status' = [status EXCEPT ![c] = "rejected"]
  /\ UNCHANGED <<connected, pending, nextId, now, running, inCallback, sent,
                 callbacks, answer, stream, place>>

\* Mutation of CallNotSent: the entry of a request that was not sent stays.
CallNotSentKept(c) ==
  /\ MayCall(c) /\ connected /\ Cardinality(pending) < MaxPending
  /\ AllocId(c)
  /\ \E t \in Timeouts :
       pending' = pending \cup {[call |-> c, id |-> IdAfter(Skipped), age |-> 0, timeout |-> t,
                                 deadline |-> (now + t) % TimeMod]}
  /\ status' = [status EXCEPT ![c] = "rejected"]
  /\ UNCHANGED <<connected, now, running, inCallback, sent, callbacks, answer>>

\* The request is too long or the transport refuses it: the entry is rolled
\* back, the id stays consumed.
CallNotSent(c) ==
  /\ MayCall(c) /\ connected /\ Cardinality(pending) < MaxPending
  /\ AllocId(c)
  /\ status' = [status EXCEPT ![c] = "rejected"]
  /\ UNCHANGED <<connected, pending, now, running, inCallback, sent, callbacks, answer>>

\* The request is queued for the transport, with an entry and a deadline.
CallSent(c, t) ==
  /\ MayCall(c) /\ connected /\ Cardinality(pending) < MaxPending
  /\ AllocId(c)
  /\ pending' = pending \cup {[call |-> c, id |-> IdAfter(Skipped), age |-> 0, timeout |-> t,
                               deadline |-> (now + t) % TimeMod]}
  /\ sent' = sent \cup {[call |-> c, id |-> IdAfter(Skipped)]}
  /\ status' = [status EXCEPT ![c] = "accepted"]
  /\ UNCHANGED <<connected, now, running, inCallback, callbacks, answer>>

-----------------------------------------------------------------------------
(* handle_res() *)

\* The peer answers before this side's ids have come round to the request's
\* again: a late response is less than NumIds requests late.
InTime(r) == (\E p \in pending : p.call = r.call) \/ stream - place[r.call] < NumIds

\* A response with an outstanding id: the entry is erased and its callback run.
Answered(r) ==
  \E p \in pending :
    /\ p.id = r.id
    /\ pending' = pending \ {p}
    /\ answer' = [answer EXCEPT ![p.call] = r.call]
    /\ Ran(p.call)

\* A response nobody waits for is dropped.
Late(r) ==
  /\ \A p \in pending : p.id # r.id
  /\ UNCHANGED <<pending, answer, callbacks>>

Response(r) ==
  /\ connected /\ LockFree
  /\ r \in sent /\ InTime(r)
  /\ sent' = sent \ {r}
  /\ Answered(r) \/ Late(r)
  /\ inCallback' = FALSE
  /\ UNCHANGED <<connected, nextId, now, running, status, stream, place>>

-----------------------------------------------------------------------------
(* Time *)

\* Mutation of Due: no signed difference.
DueNoWrap(p) == now >= p.deadline

\* static_cast<int32_t>(now - deadline) >= 0
Due(p) == (now - p.deadline) % TimeMod < TimeMod \div 2

\* A millisecond passes; the link task ticks often enough for the wrap-safe
\* comparison (at least once in IDLE_TICK_MS, against 2^31 ms).
Advance ==
  /\ \A p \in pending : p.age < MaxAge
  /\ now' = (now + 1) % TimeMod
  /\ pending' = {[p EXCEPT !.age = @ + 1] : p \in pending}
  /\ UNCHANGED <<connected, nextId, running, inCallback, sent, status, callbacks,
                 answer, stream, place>>

\* tick(): what has expired leaves the table, then the callbacks run.
Tick ==
  /\ connected /\ LockFree
  /\ \E p \in pending : Due(p)
  /\ pending' = {p \in pending : ~Due(p)}
  /\ running' = {p.call : p \in {q \in pending : Due(q)}}
  /\ inCallback' = FALSE
  /\ UNCHANGED <<connected, nextId, now, sent, status, callbacks, answer, stream, place>>

\* The callback of a request that expired, or whose link dropped.
RunCallback(c) ==
  /\ c \in running
  /\ running' = running \ {c}
  /\ inCallback' = TRUE
  /\ Ran(c)
  /\ UNCHANGED <<connected, pending, nextId, now, sent, status, answer, stream, place>>

-----------------------------------------------------------------------------
(* Sessions *)

\* Mutation of Disconnect: the requests outstanding are forgotten.
DisconnectForgets ==
  /\ connected /\ LockFree
  /\ connected' = FALSE /\ pending' = {} /\ running' = {}
  /\ inCallback' = FALSE /\ sent' = {}
  /\ UNCHANGED <<nextId, now, status, callbacks, answer, stream, place>>

\* service_on_disconnect(): no new calls, then disconnect() fails every
\* outstanding request.
Disconnect ==
  /\ connected /\ LockFree
  /\ connected' = FALSE
  /\ pending' = {}
  /\ running' = {p.call : p \in pending}
  /\ inCallback' = FALSE
  /\ sent' = {}
  /\ UNCHANGED <<nextId, now, status, callbacks, answer, stream, place>>

\* service_on_connect() makes a new Rpc, whose ids start over. Nothing of the
\* previous session arrives in this one.
Connect ==
  /\ ~connected /\ LockFree
  /\ connected' = TRUE
  /\ nextId' = 0
  /\ stream' = 0
  /\ UNCHANGED <<pending, now, running, inCallback, sent, status, callbacks, answer, place>>

Next ==
  \/ \E c \in Calls : CallRefused(c) \/ CallNotSent(c) \/ \E t \in Timeouts : CallSent(c, t)
  \/ \E r \in sent : Response(r)
  \/ Advance \/ Tick
  \/ \E c \in Calls : RunCallback(c)
  \/ Disconnect \/ Connect

Spec == Init /\ [][Next]_vars

\* Time passes, the link task ticks, and a callback returns.
Fairness == WF_vars(Advance) /\ WF_vars(Tick) /\ WF_vars(\E c \in Calls : RunCallback(c))

FairSpec == Spec /\ Fairness

-----------------------------------------------------------------------------
(* Properties *)

\* Every variable keeps its type and the table its bound, callbacks that call
\* again included (MAX_PENDING, link_rpc.cpp:123).
TypeOK ==
  /\ connected \in BOOLEAN /\ inCallback \in BOOLEAN
  /\ pending \subseteq [call : Calls, id : 0 .. (NumIds - 1), deadline : 0 .. (TimeMod - 1),
                        timeout : Timeouts, age : 0 .. MaxAge]
  /\ Cardinality(pending) <= MaxPending
  /\ nextId \in 0 .. (NumIds - 1) /\ now \in 0 .. (TimeMod - 1)
  /\ running \subseteq Calls
  /\ sent \subseteq [call : Calls, id : 0 .. (NumIds - 1)]
  /\ status \in [Calls -> {"new", "accepted", "rejected"}]
  /\ callbacks \in [Calls -> Nat] /\ answer \in [Calls -> {0} \cup Calls]
  /\ stream \in Nat /\ place \in [Calls -> Nat]

\* A request is, at any moment, outstanding, being failed, or already answered,
\* and its callback has run exactly once in the last case only; the callback of
\* a call() that returned false never runs (link_rpc.h:93).
Waiting(c) == (\E p \in pending : p.call = c) \/ c \in running
CallbackOnce ==
  \A c \in Calls :
    /\ callbacks[c] <= 1
    /\ Waiting(c) => status[c] = "accepted" /\ callbacks[c] = 0
    /\ status[c] = "accepted" => Waiting(c) \/ callbacks[c] = 1
    /\ status[c] # "accepted" => callbacks[c] = 0

\* The table holds each request once and each id once, and nothing of a session
\* that is over.
Table ==
  /\ IsFiniteSet(pending)
  /\ \A p, q \in pending : p.call = q.call \/ p.id = q.id => p = q
  /\ \A p \in pending : p.call \notin running
  /\ ~connected => pending = {} /\ sent = {}

\* An id is its place in the stream of ids, and an id that an outstanding
\* request took over from an unanswered one is a whole round younger.
Ids ==
  /\ nextId = stream % NumIds
  /\ \A r \in sent : status[r.call] = "accepted"
  /\ \A r \in pending \cup sent : place[r.call] < stream /\ r.id = place[r.call] % NumIds
  /\ \A p \in pending, r \in sent :
       p.id = r.id /\ p.call # r.call => place[r.call] + NumIds <= stream

\* A deadline is the timeout after the moment of the call.
Deadlines == \A p \in pending : p.deadline = (now - p.age + p.timeout) % TimeMod

\* The types and the bound of the table, one callback for every request, and
\* what the ids and the deadlines of the table say.
RpcInv == TypeOK /\ CallbackOnce /\ Table /\ Ids /\ Deadlines

\* A callback is given the response to its own request, not a late one to an
\* earlier request of the same id.
RightAnswer == \A c \in Calls : answer[c] \in {0, c}

\* A request is failed with "timeout" only when its timeout has passed.
TimeoutIsDue ==
  [][connected' => \A p \in pending : p.call \in running' => p.age >= p.timeout]_vars

\* Every accepted call is answered in the end, whether or not the peer answers.
EveryCallReturns == \A c \in Calls : status[c] = "accepted" ~> callbacks[c] = 1
=============================================================================
