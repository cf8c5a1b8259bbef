----------------------------- MODULE OneShotJob -----------------------------
(***************************************************************************)
(* One blocking call on a worker, its result handed back to the UI thread  *)
(* (src/core/one_shot_job.h) through the bounded queue of posted closures  *)
(* (src/core/ui_post.cpp).  The UI thread starts, leaves and abandons the  *)
(* job at any moment, from inside the job's own callback too; a worker is  *)
(* never killed, so that several may be under way, of which at most one is *)
(* the job's.                                                              *)
(***************************************************************************)
EXTENDS Integers, Sequences

CONSTANTS
    Workers,        \* one for every worker that is created
    NoWorker,
    Other,          \* a closure of someone else
    kMaxPending,    \* 32
    MaxFailures,    \* workers that could not be created
    MaxPosts        \* closures others post

ASSUME JobAssumption ==
    /\ NoWorker \notin Workers /\ Other \notin Workers
    /\ kMaxPending \in Nat \ {0}
    /\ {MaxFailures, MaxPosts} \subseteq Nat

VARIABLES
    running, detached, gen,     \* running_, detached_, gen_
    pc,                         \* [Workers -> the worker's next step]
    ctxGen,                     \* [Workers -> Ctx.gen]
    res,                        \* [Workers -> its result]
    queue,                      \* s_queue
    batch,                      \* what ui_post_drain has taken out
    calling,                    \* the worker whose result is in done_cb_
    given,                      \* workers whose result done_cb_ has got
    failures, posts             \* bounds

job  == <<running, detached, gen>>
run  == <<pc, ctxGen, res>>
vars == <<job, run, queue, batch, calling, given, failures, posts>>

Closures == Workers \cup {Other}

TypeOK ==
    /\ running \in BOOLEAN /\ detached \in BOOLEAN /\ gen \in Nat
    /\ pc \in [Workers -> {"off", "work", "post", "gone"}]
    /\ ctxGen \in [Workers -> Nat]
    /\ res \in [Workers -> {"none", "null", "live", "freed"}]
    /\ queue \in Seq(Closures) /\ Len(queue) <= kMaxPending
    /\ batch \in Seq(Closures)
    /\ calling \in Workers \cup {NoWorker}
    /\ given \subseteq Workers
    /\ failures \in 0 .. MaxFailures /\ posts \in 0 .. MaxPosts

-----------------------------------------------------------------------------
(* The UI thread: from its callbacks, or from inside done_cb_. *)

Start(w) ==
    /\ ~running /\ pc[w] = "off"
    /\ running' = TRUE /\ detached' = FALSE /\ gen' = gen + 1
    /\ pc' = [pc EXCEPT ![w] = "work"]
    /\ ctxGen' = [ctxGen EXCEPT ![w] = gen + 1]
    /\ UNCHANGED <<res, queue, batch, calling, given, failures, posts>>

StartFails ==
    /\ ~running
    /\ failures < MaxFailures /\ failures' = failures + 1
    /\ detached' = FALSE /\ gen' = gen + 1
    /\ UNCHANGED <<running, run, queue, batch, calling, given, posts>>

Attach ==
    /\ running
    /\ detached' = FALSE
    /\ UNCHANGED <<running, gen, run, queue, batch, calling, given, failures, posts>>

\* Mutation of Teardown: the job is free although its worker runs.
TeardownForgets ==
    /\ running
    /\ running' = FALSE
    /\ UNCHANGED <<detached, gen, run, queue, batch, calling, given, failures, posts>>

Teardown ==
    /\ running
    /\ detached' = TRUE
    /\ UNCHANGED <<running, gen, run, queue, batch, calling, given, failures, posts>>

\* Mutation of Abandon: the generation stays.
AbandonKeepsGen ==
    /\ running
    /\ running' = FALSE /\ detached' = FALSE
    /\ UNCHANGED <<gen, run, queue, batch, calling, given, failures, posts>>

Abandon ==
    /\ running
    /\ running' = FALSE /\ detached' = FALSE /\ gen' = gen + 1
    /\ UNCHANGED <<run, queue, batch, calling, given, failures, posts>>

-----------------------------------------------------------------------------
(* The worker: run. *)

Work(w) ==
    /\ pc[w] = "work"
    /\ pc' = [pc EXCEPT ![w] = "post"]
    /\ \E r \in {"null", "live"} : res' = [res EXCEPT ![w] = r]
    /\ UNCHANGED <<job, ctxGen, queue, batch, calling, given, failures, posts>>

\* Mutation of Post: a result that finds the queue full is dropped.
PostOnce(w) ==
    /\ pc[w] = "post"
    /\ pc' = [pc EXCEPT ![w] = "gone"]
    /\ queue' = IF Len(queue) < kMaxPending THEN Append(queue, w) ELSE queue
    /\ UNCHANGED <<job, ctxGen, res, batch, calling, given, failures, posts>>

\* ui_post, tried again until the queue has room.
Post(w) ==
    /\ pc[w] = "post"
    /\ Len(queue) < kMaxPending
    /\ queue' = Append(queue, w)
    /\ pc' = [pc EXCEPT ![w] = "gone"]
    /\ UNCHANGED <<job, ctxGen, res, batch, calling, given, failures, posts>>

PostOther ==
    /\ posts < MaxPosts /\ posts' = posts + 1
    /\ Len(queue) < kMaxPending
    /\ queue' = Append(queue, Other)
    /\ UNCHANGED <<job, run, batch, calling, given, failures>>

-----------------------------------------------------------------------------
(* The UI thread: ui_post_drain. *)

Drain ==
    /\ batch = <<>> /\ calling = NoWorker /\ queue # <<>>
    /\ batch' = queue /\ queue' = <<>>
    /\ UNCHANGED <<job, run, calling, given, failures, posts>>

RunOther ==
    /\ calling = NoWorker /\ batch # <<>> /\ Head(batch) = Other
    /\ batch' = Tail(batch)
    /\ UNCHANGED <<job, run, queue, calling, given, failures, posts>>

Free(w) == res' = [res EXCEPT ![w] = IF res[w] = "live" THEN "freed" ELSE res[w]]

\* deliver: a stale result is freed; any other ends the run, and is freed once
\* the callback has returned.
DeliverStale(w) ==
    /\ calling = NoWorker /\ batch # <<>> /\ Head(batch) = w
    /\ ctxGen[w] # gen
    /\ batch' = Tail(batch)
    /\ Free(w)
    /\ UNCHANGED <<job, pc, ctxGen, queue, calling, given, failures, posts>>

Deliver(w) ==
    /\ calling = NoWorker /\ batch # <<>> /\ Head(batch) = w
    /\ ctxGen[w] = gen
    /\ batch' = Tail(batch)
    /\ running' = FALSE /\ detached' = FALSE
    /\ IF res[w] = "live" /\ ~detached
       THEN calling' = w /\ given' = given \cup {w} /\ UNCHANGED res
       ELSE Free(w) /\ UNCHANGED <<calling, given>>
    /\ UNCHANGED <<gen, pc, ctxGen, queue, failures, posts>>

Return ==
    /\ calling # NoWorker
    /\ Free(calling)
    /\ calling' = NoWorker
    /\ UNCHANGED <<job, pc, ctxGen, queue, batch, given, failures, posts>>

-----------------------------------------------------------------------------

Init ==
    /\ running = FALSE /\ detached = FALSE /\ gen = 0
    /\ pc = [w \in Workers |-> "off"] /\ ctxGen = [w \in Workers |-> 0]
    /\ res = [w \in Workers |-> "none"]
    /\ queue = <<>> /\ batch = <<>> /\ calling = NoWorker
    /\ given = {} /\ failures = 0 /\ posts = 0

UiStep   == Drain \/ RunOther \/ Return \/ \E w \in Workers : DeliverStale(w) \/ Deliver(w)
UserStep == StartFails \/ Attach \/ Teardown \/ Abandon \/ \E w \in Workers : Start(w)

Next == UiStep \/ UserStep \/ PostOther \/ \E w \in Workers : Work(w) \/ Post(w)

\* The UI thread drains its queue, the call a worker makes returns, and the
\* worker tries its post again.
Fairness == WF_vars(UiStep) /\ \A w \in Workers : WF_vars(Work(w)) /\ WF_vars(Post(w))

Spec == Init /\ [][Next]_vars /\ Fairness

-----------------------------------------------------------------------------
(* Properties *)

Positions(w) ==
    {<<"queue", i>> : i \in {j \in DOMAIN queue : queue[j] = w}}
        \cup {<<"batch", i>> : i \in {j \in DOMAIN batch : batch[j] = w}}
        \cup (IF calling = w THEN {<<"calling", 0>>} ELSE {})

(* A result has exactly one holder until it is freed, and none after: the  *)
(* worker, a closure, or the callback (one_shot_job.h:18, 23, 25).         *)
OneHolder ==
    \A w \in Workers :
        /\ \A p, q \in Positions(w) : p = q
        /\ pc[w] = "post" => res[w] \in {"live", "null"}
        /\ pc[w] # "gone" => Positions(w) = {}
        /\ pc[w] = "gone" => (res[w] \in {"live", "null"} /\ Positions(w) # {})
                             \/ (res[w] \in {"freed", "null"} /\ Positions(w) = {})

\* The worker's result is on its way to deliver.
OnItsWay(w) == pc[w] \in {"work", "post"} \/ (Positions(w) # {} /\ calling # w)

(* The job is busy exactly while the result of the worker that has its     *)
(* generation is on its way (one_shot_job.h:94): busy without it, the job  *)
(* would never start again; on its way to an idle job, it would end a run  *)
(* that is not its own.                                                    *)
BusyHasWorker == running <=> \E w \in Workers : OnItsWay(w) /\ ctxGen[w] = gen

(* A generation names one run (one_shot_job.h:106): no two workers have    *)
(* the same, and none has one that is still to come.                       *)
Generations ==
    /\ \A w \in Workers : ctxGen[w] <= gen /\ (pc[w] = "off" <=> ctxGen[w] = 0)
    /\ \A v, w \in Workers : pc[v] # "off" /\ ctxGen[v] = ctxGen[w] => v = w

(* The callback has only got what a worker has handed over.                *)
GivenIsPosted == \A w \in given : pc[w] = "gone"

JobInv == TypeOK /\ OneHolder /\ BusyHasWorker /\ Generations /\ GivenIsPosted

\* The run whose result the app may get.
Owned == IF running THEN CHOOSE w \in Workers : ctxGen[w] = gen ELSE NoWorker

Call == INSTANCE OneCall WITH
    owned <- Owned,
    there <- running /\ ~detached

(* Whatever the order of starts, leaves, re-entries, abandons and late     *)
(* results, the app gets the result of the run that is its own, once, and  *)
(* only while it waits (one_shot_job.h:18-27).                             *)
OneAnswer == Call!Spec

(* Every run ends: the job is busy no more, and its result is freed.       *)
EveryRunEnds ==
    /\ running ~> ~running
    /\ \A w \in Workers :
        pc[w] = "work" ~> res[w] \in {"freed", "null"} /\ Positions(w) = {}
=============================================================================
