-------------------------- MODULE OneShotJobProofs --------------------------
(***************************************************************************)
(* Proofs about OneShotJob, for any number of workers, any length of the   *)
(* queue and any order of starts, leaves and abandons: the invariant       *)
(* JobInv, which is inductive, and the refinement of OneCall.              *)
(***************************************************************************)
EXTENDS OneShotJob, TLAPS

USE DEF job, run

-----------------------------------------------------------------------------
(* Where a worker's closure is. *)

In(w, s) == \E i \in DOMAIN s : s[i] = w
Once(w, s) == \A i, j \in DOMAIN s : s[i] = w /\ s[j] = w => i = j

\* OneHolder speaks of positions; the proofs of the two sequences and the call.
LEMMA NoPosition ==
  ASSUME NEW w \in Workers
  PROVE  Positions(w) = {} <=> ~In(w, queue) /\ ~In(w, batch) /\ calling # w
<1>1. ASSUME NEW i \in DOMAIN queue, queue[i] = w
      PROVE  <<"queue", i>> \in Positions(w)
  BY <1>1 DEF Positions
<1>2. ASSUME NEW i \in DOMAIN batch, batch[i] = w
      PROVE  <<"batch", i>> \in Positions(w)
  BY <1>2 DEF Positions
<1>3. ASSUME calling = w
      PROVE  <<"calling", 0>> \in Positions(w)
  BY <1>3 DEF Positions
<1>4. ASSUME ~In(w, queue), ~In(w, batch), calling # w
      PROVE  Positions(w) = {}
  BY <1>4 DEF Positions, In
<1> QED BY <1>1, <1>2, <1>3, <1>4 DEF In

Apart(w) ==
  /\ Once(w, queue) /\ Once(w, batch)
  /\ ~(In(w, queue) /\ In(w, batch))
  /\ calling = w => ~In(w, queue) /\ ~In(w, batch)

LEMMA OnePosition ==
  ASSUME NEW w \in Workers
  PROVE  (\A p, q \in Positions(w) : p = q) <=> Apart(w)
<1>1. ASSUME \A p, q \in Positions(w) : p = q
      PROVE  Apart(w)
  <2>1. \A i, j \in DOMAIN queue : queue[i] = w /\ queue[j] = w =>
            <<"queue", i>> = <<"queue", j>>
    BY <1>1 DEF Positions
  <2>2. \A i, j \in DOMAIN batch : batch[i] = w /\ batch[j] = w =>
            <<"batch", i>> = <<"batch", j>>
    BY <1>1 DEF Positions
  <2>3. \A i \in DOMAIN queue, j \in DOMAIN batch : queue[i] = w /\ batch[j] = w =>
            <<"queue", i>> = <<"batch", j>>
    BY <1>1 DEF Positions
  <2>4. \A i \in DOMAIN queue : queue[i] = w /\ calling = w =>
            <<"queue", i>> = <<"calling", 0>>
    BY <1>1 DEF Positions
  <2>5. \A i \in DOMAIN batch : batch[i] = w /\ calling = w =>
            <<"batch", i>> = <<"calling", 0>>
    BY <1>1 DEF Positions
  <2> QED BY <2>1, <2>2, <2>3, <2>4, <2>5 DEF Apart, Once, In
<1>2. ASSUME Apart(w), NEW p \in Positions(w), NEW q \in Positions(w)
      PROVE  p = q
  <2>1. \/ \E i \in DOMAIN queue : queue[i] = w /\ p = <<"queue", i>>
        \/ \E i \in DOMAIN batch : batch[i] = w /\ p = <<"batch", i>>
        \/ calling = w /\ p = <<"calling", 0>>
    BY DEF Positions
  <2>2. \/ \E i \in DOMAIN queue : queue[i] = w /\ q = <<"queue", i>>
        \/ \E i \in DOMAIN batch : batch[i] = w /\ q = <<"batch", i>>
        \/ calling = w /\ q = <<"calling", 0>>
    BY DEF Positions
  <2> QED BY <1>2, <2>1, <2>2 DEF Apart, Once, In
<1> QED BY <1>1, <1>2

\* The holders of a result, said with the sequences.
Held(w) ==
  /\ Apart(w)
  /\ pc[w] = "post" => res[w] \in {"live", "null"}
  /\ pc[w] # "gone" => ~In(w, queue) /\ ~In(w, batch) /\ calling # w
  /\ pc[w] = "gone" =>
        \/ res[w] \in {"live", "null"} /\ (In(w, queue) \/ In(w, batch) \/ calling = w)
        \/ res[w] \in {"freed", "null"} /\ ~In(w, queue) /\ ~In(w, batch) /\ calling # w

LEMMA HolderMeaning == OneHolder <=> \A w \in Workers : Held(w)
<1>1. ASSUME NEW w \in Workers
      PROVE  Held(w) <=>
        /\ \A p, q \in Positions(w) : p = q
        /\ pc[w] = "post" => res[w] \in {"live", "null"}
        /\ pc[w] # "gone" => Positions(w) = {}
        /\ pc[w] = "gone" => (res[w] \in {"live", "null"} /\ Positions(w) # {})
                             \/ (res[w] \in {"freed", "null"} /\ Positions(w) = {})
  BY NoPosition, OnePosition DEF Held
<1> QED BY <1>1 DEF OneHolder

LEMMA OnItsWayMeaning ==
  ASSUME NEW w \in Workers
  PROVE  OnItsWay(w) <=>
           \/ pc[w] \in {"work", "post"}
           \/ calling # w /\ (In(w, queue) \/ In(w, batch))
BY NoPosition DEF OnItsWay

-----------------------------------------------------------------------------
(* The two sequences. *)

LEMMA EmptyHolds ==
  ASSUME NEW w
  PROVE  ~In(w, << >>) /\ Once(w, << >>)
BY DEF In, Once

LEMMA AppendHolds ==
  ASSUME NEW s \in Seq(Closures), NEW c \in Closures, NEW w
  PROVE  /\ Append(s, c) \in Seq(Closures) /\ Len(Append(s, c)) = Len(s) + 1
         /\ In(w, Append(s, c)) <=> In(w, s) \/ w = c
         /\ Once(w, s) /\ (w = c => ~In(w, s)) => Once(w, Append(s, c))
<1> DEFINE t == Append(s, c)
<1>1. /\ t \in Seq(Closures) /\ Len(s) \in Nat /\ Len(t) = Len(s) + 1
      /\ DOMAIN s = 1 .. Len(s) /\ DOMAIN t = 1 .. Len(s) + 1
      /\ t[Len(s) + 1] = c
      /\ \A i \in 1 .. Len(s) : t[i] = s[i]
  OBVIOUS
<1> HIDE DEF t
<1>2. In(w, t) <=> In(w, s) \/ w = c
  BY <1>1 DEF In
<1>3. ASSUME Once(w, s), w = c => ~In(w, s)
      PROVE  Once(w, t)
  BY <1>1, <1>3 DEF In, Once
<1> QED BY <1>2, <1>3 DEF t

LEMMA TailHolds ==
  ASSUME NEW s \in Seq(Closures), s # << >>, NEW w
  PROVE  /\ Head(s) \in Closures /\ Tail(s) \in Seq(Closures)
         /\ In(w, s) <=> In(w, Tail(s)) \/ w = Head(s)
         /\ Once(w, s) => Once(w, Tail(s)) /\ (w = Head(s) => ~In(w, Tail(s)))
<1> DEFINE t == Tail(s)
<1>1. /\ Head(s) \in Closures /\ t \in Seq(Closures) /\ Head(s) = s[1]
      /\ Len(s) \in Nat \ {0} /\ Len(t) = Len(s) - 1
      /\ DOMAIN s = 1 .. Len(s) /\ DOMAIN t = 1 .. Len(s) - 1
      /\ \A i \in 1 .. Len(s) - 1 : t[i] = s[i + 1]
  OBVIOUS
<1> HIDE DEF t
<1>3. \A i \in 1 .. Len(s) : i = 1 \/ (i - 1 \in 1 .. Len(s) - 1 /\ t[i - 1] = s[i])
  BY <1>1
<1>4. In(w, s) <=> In(w, t) \/ w = Head(s)
  <2>1. In(w, t) => In(w, s)
    BY <1>1 DEF In
  <2>2. w = Head(s) => In(w, s)
    BY DEF In
  <2>3. In(w, s) => In(w, t) \/ w = Head(s)
    BY <1>1, <1>3 DEF In
  <2> QED BY <2>1, <2>2, <2>3
<1>5. ASSUME Once(w, s)
      PROVE  Once(w, t) /\ (w = Head(s) => ~In(w, t))
  <2>1. ASSUME NEW i \in DOMAIN t, NEW j \in DOMAIN t, t[i] = w, t[j] = w
        PROVE  i = j
    <3>1. i + 1 = j + 1
      BY <1>1, <1>5, <2>1 DEF Once
    <3> QED BY <3>1
  <2>2. ASSUME w = Head(s), NEW i \in DOMAIN t, t[i] = w
        PROVE  FALSE
    <3>1. 1 = i + 1
      BY <1>1, <1>5, <2>2 DEF Once
    <3> QED BY <3>1
  <2> QED BY <2>1, <2>2 DEF Once, In
<1> QED BY <1>4, <1>5 DEF t

-----------------------------------------------------------------------------
(* The invariant, said with the sequences. *)

Way(w) == pc[w] \in {"work", "post"} \/ (calling # w /\ (In(w, queue) \/ In(w, batch)))

Busy == running <=> \E w \in Workers : Way(w) /\ ctxGen[w] = gen

Facts == TypeOK /\ (\A w \in Workers : Held(w)) /\ Busy /\ Generations /\ GivenIsPosted

LEMMA FactsMeaning == JobInv <=> Facts
<1>1. BusyHasWorker <=> Busy
  BY OnItsWayMeaning DEF BusyHasWorker, Busy, Way
<1> QED BY <1>1, HolderMeaning DEF JobInv, Facts

LEMMA InitFacts == Init => Facts
<1> SUFFICES ASSUME Init PROVE Facts
  OBVIOUS
<1> USE JobAssumption
<1>1. TypeOK
  <2>2. running \in BOOLEAN /\ detached \in BOOLEAN
    BY DEF Init
  <2> QED BY <2>2 DEF Init, TypeOK
<1>2. \A w \in Workers : Held(w)
  BY EmptyHolds DEF Init, Held, Apart
<1>3. Busy /\ Generations /\ GivenIsPosted
  BY EmptyHolds DEF Init, Busy, Way, Generations, GivenIsPosted
<1> QED BY <1>1, <1>2, <1>3 DEF Facts

\* A run gets a generation of its own.
LEMMA StartFacts ==
  ASSUME Facts, NEW w \in Workers, Start(w)
  PROVE  Facts'
<1> USE JobAssumption DEF Facts
<1>1. TypeOK'
  <2>1. running' \in BOOLEAN /\ detached' \in BOOLEAN
    BY DEF Start
  <2> QED BY <2>1 DEF Start, TypeOK
<1>3. ASSUME NEW v \in Workers PROVE Held(v)'
  <2> QED BY DEF Held, Apart, Start
<1>4. /\ ctxGen'[w] = gen + 1 /\ gen' = gen + 1
      /\ pc'[w] = "work" /\ pc[w] = "off"
      /\ \A v \in Workers \ {w} : ctxGen'[v] = ctxGen[v] /\ pc'[v] = pc[v]
      /\ gen \in Nat /\ \A v \in Workers : ctxGen[v] \in Nat
  BY DEF Start, TypeOK
<1>5. Busy'
  BY <1>4 DEF Start, Busy, Way
<1>6. Generations'
  BY <1>4 DEF Generations
<1>7. GivenIsPosted'
  BY DEF Start, GivenIsPosted
<1> QED BY <1>1, <1>3, <1>5, <1>6, <1>7

\* A worker that could not be created leaves a generation that nobody has.
LEMMA StartFailsFacts ==
  ASSUME Facts, StartFails
  PROVE  Facts'
<1> USE JobAssumption DEF Facts
<1>1. TypeOK'
  <2>1. running' \in BOOLEAN /\ detached' \in BOOLEAN
    BY DEF StartFails, TypeOK
  <2> QED BY <2>1 DEF StartFails, TypeOK
<1>2. \A w \in Workers : Held(w)' /\ (Way(w)' <=> Way(w))
  BY DEF StartFails, Held, Apart, Way
<1>3. Generations'
  BY DEF StartFails, Generations, TypeOK
<1>4. Busy'
  BY DEF StartFails, Busy, Generations, TypeOK
<1>5. GivenIsPosted'
  BY DEF StartFails, GivenIsPosted
<1> QED BY <1>1, <1>2, <1>3, <1>4, <1>5

\* Leaving and coming back only say whether the app waits.
LEMMA LeaveFacts ==
  ASSUME Facts, Attach \/ Teardown
  PROVE  Facts'
<1> USE DEF Facts, Attach, Teardown
<1>1. TypeOK'
  <2>1. running' \in BOOLEAN /\ detached' \in BOOLEAN
    OBVIOUS
  <2> QED BY <2>1 DEF TypeOK
<1>2. \A w \in Workers : Held(w)' /\ (Way(w)' <=> Way(w))
  BY DEF Held, Apart, Way
<1>3. Busy' /\ Generations' /\ GivenIsPosted'
  BY <1>2 DEF Busy, Generations, GivenIsPosted
<1> QED BY <1>1, <1>2, <1>3

\* An abandoned run keeps a generation that is not the job's any more.
LEMMA AbandonFacts ==
  ASSUME Facts, Abandon
  PROVE  Facts'
<1> USE DEF Facts, Abandon
<1>1. TypeOK'
  <2>1. running' \in BOOLEAN /\ detached' \in BOOLEAN
    OBVIOUS
  <2> QED BY <2>1 DEF TypeOK
<1>2. \A w \in Workers : Held(w)' /\ (Way(w)' <=> Way(w))
  BY DEF Held, Apart, Way
<1>3. Generations'
  BY DEF Generations, TypeOK
<1>4. Busy' /\ GivenIsPosted'
  BY DEF Busy, Generations, GivenIsPosted, TypeOK
<1> QED BY <1>1, <1>2, <1>3, <1>4

LEMMA WorkFacts ==
  ASSUME Facts, NEW w \in Workers, Work(w)
  PROVE  Facts'
<1> USE DEF Facts
<1>1. TypeOK'
  <2> QED BY DEF Work, TypeOK
<1>2. /\ pc[w] = "work" /\ pc'[w] = "post" /\ res'[w] \in {"null", "live"}
      /\ \A v \in Workers \ {w} : pc'[v] = pc[v] /\ res'[v] = res[v]
  BY DEF Work, TypeOK
<1>3. ASSUME NEW v \in Workers PROVE Held(v)' /\ (Way(v)' <=> Way(v))
  <2> QED BY <1>2 DEF Work, Held, Apart, Way
<1>4. Busy'
  BY <1>3 DEF Busy, Work
<1>5. Generations'
  BY DEF Generations, Work
<1>6. GivenIsPosted'
  BY DEF GivenIsPosted, Work
<1> QED BY <1>1, <1>3, <1>4, <1>5, <1>6

\* The closure goes to the queue with the worker's last step.
LEMMA PostFacts ==
  ASSUME Facts, NEW w \in Workers, Post(w)
  PROVE  Facts'
<1> USE JobAssumption DEF Facts
<1>0. w \in Closures /\ queue \in Seq(Closures) /\ Len(queue) \in Nat
  BY DEF Closures, TypeOK
<1>1. TypeOK'
  BY <1>0 DEF Post, TypeOK
<1>2. /\ pc[w] = "post" /\ pc'[w] = "gone"
      /\ \A v \in Workers \ {w} : pc'[v] = pc[v]
  BY DEF Post, TypeOK
<1>4. ASSUME NEW v \in Workers PROVE Held(v)' /\ (Way(v)' <=> Way(v))
  <2>2. /\ In(v, queue') <=> In(v, queue) \/ v = w
        /\ Once(v, queue) /\ (v = w => ~In(v, queue)) => Once(v, queue')
    BY <1>0, AppendHolds DEF Post
  <2>3. Apart(v)'
    BY <2>2 DEF Held, Apart, Post
  <2> QED BY <1>2, <2>2, <2>3 DEF Held, Way, Post
<1>5. Busy'
  BY <1>4 DEF Busy, Post
<1>6. Generations'
  BY DEF Generations, Post
<1>7. GivenIsPosted'
  BY DEF GivenIsPosted, Post
<1> QED BY <1>1, <1>4, <1>5, <1>6, <1>7

LEMMA PostOtherFacts ==
  ASSUME Facts, PostOther
  PROVE  Facts'
<1> USE JobAssumption DEF Facts
<1>0. Other \in Closures /\ queue \in Seq(Closures) /\ Len(queue) \in Nat
  BY DEF Closures, TypeOK
<1>1. TypeOK'
  <2> QED BY <1>0 DEF PostOther, TypeOK
<1>2. ASSUME NEW v \in Workers PROVE Held(v)' /\ (Way(v)' <=> Way(v))
  <2>2. /\ In(v, queue') <=> In(v, queue)
        /\ Once(v, queue) => Once(v, queue')
    BY <1>0, AppendHolds DEF PostOther
  <2> QED BY <2>2 DEF Held, Apart, Way, PostOther
<1>3. Busy' /\ Generations' /\ GivenIsPosted'
  BY <1>2 DEF Busy, Generations, GivenIsPosted, PostOther
<1> QED BY <1>1, <1>2, <1>3

\* Draining moves every closure from the queue to the batch.
LEMMA DrainFacts ==
  ASSUME Facts, Drain
  PROVE  Facts'
<1> USE JobAssumption DEF Facts
<1>1. TypeOK'
  <2> QED BY DEF Drain, TypeOK
<1>2. ASSUME NEW v \in Workers PROVE Held(v)' /\ (Way(v)' <=> Way(v))
  <2> QED BY DEF Held, Apart, Way, Drain
<1>3. Busy' /\ Generations' /\ GivenIsPosted'
  BY <1>2 DEF Busy, Generations, GivenIsPosted, Drain
<1> QED BY <1>1, <1>2, <1>3

LEMMA RunOtherFacts ==
  ASSUME Facts, RunOther
  PROVE  Facts'
<1> USE JobAssumption DEF Facts
<1>0. batch \in Seq(Closures) /\ batch # << >>
  BY DEF TypeOK, RunOther
<1>1. TypeOK'
  <2> QED BY DEF RunOther, TypeOK
<1>2. ASSUME NEW v \in Workers PROVE Held(v)' /\ (Way(v)' <=> Way(v))
  <2>2. /\ In(v, batch') <=> In(v, batch)
        /\ Once(v, batch) => Once(v, batch')
    BY <1>0, TailHolds DEF RunOther
  <2> QED BY <2>2 DEF Held, Apart, Way, RunOther
<1>3. Busy' /\ Generations' /\ GivenIsPosted'
  BY <1>2 DEF Busy, Generations, GivenIsPosted, RunOther
<1> QED BY <1>1, <1>2, <1>3

\* A closure that is run leaves the batch, and the queue and every other
\* closure as they are.
LEMMA HeadLeaves ==
  ASSUME Facts, NEW w \in Workers, batch # << >>, Head(batch) = w, batch' = Tail(batch)
  PROVE  /\ batch' \in Seq(Closures)
         /\ In(w, batch) /\ ~In(w, batch') /\ Once(w, batch')
         /\ ~In(w, queue) /\ calling # w
         /\ pc[w] = "gone" /\ res[w] \in {"live", "null"}
         /\ \A v \in Workers \ {w} : /\ In(v, batch') <=> In(v, batch)
                                     /\ Once(v, batch) => Once(v, batch')
<1>1. batch \in Seq(Closures) /\ Held(w)
  BY DEF Facts, TypeOK
<1>2. In(w, batch) /\ ~In(w, queue) /\ calling # w /\ Once(w, batch)
  BY <1>1, TailHolds DEF Held, Apart
<1>3. ~In(w, batch') /\ Once(w, batch') /\ batch' \in Seq(Closures)
  BY <1>1, <1>2, TailHolds
<1>4. pc[w] = "gone" /\ res[w] \in {"live", "null"}
  BY <1>1, <1>2 DEF Held
<1>5. ASSUME NEW v \in Workers \ {w}
      PROVE  /\ In(v, batch') <=> In(v, batch)
             /\ Once(v, batch) => Once(v, batch')
  BY <1>1, TailHolds
<1> QED BY <1>2, <1>3, <1>4, <1>5

\* What becomes of a result that is freed.
LEMMA FreeType ==
  ASSUME TypeOK, NEW w \in Workers, Free(w)
  PROVE  /\ res' \in [Workers -> {"none", "null", "live", "freed"}]
         /\ res[w] \in {"live", "null"} => res'[w] \in {"freed", "null"}
         /\ \A v \in Workers \ {w} : res'[v] = res[v]
BY DEF TypeOK, Free

\* A stale result belongs to no run of the job's.
LEMMA DeliverStaleFacts ==
  ASSUME Facts, NEW w \in Workers, DeliverStale(w)
  PROVE  Facts'
<1> USE JobAssumption DEF Facts
<1>0. /\ TypeOK /\ batch # << >> /\ Head(batch) = w /\ batch' = Tail(batch) /\ Free(w)
      /\ ctxGen[w] # gen /\ calling' = calling /\ queue' = queue /\ pc' = pc
      /\ ctxGen' = ctxGen /\ gen' = gen /\ running' = running
  BY DEF DeliverStale
<1>1. TypeOK'
  <2> QED BY FreeType DEF DeliverStale, TypeOK
<1>2. ASSUME NEW v \in Workers \ {w} PROVE Held(v)' /\ (Way(v)' <=> Way(v))
  <2> QED BY <1>0, HeadLeaves, FreeType DEF Held, Apart, Way
<1>3. Held(w)' /\ ~Way(w)'
  BY <1>0, HeadLeaves, FreeType DEF Held, Apart, Way
<1>4. Busy'
  BY <1>0, <1>2 DEF Busy
<1>5. Generations' /\ GivenIsPosted'
  BY DEF Generations, GivenIsPosted, DeliverStale
<1> QED BY <1>1, <1>2, <1>3, <1>4, <1>5

\* The result with the job's generation ends its run; it goes to the callback
\* or is freed.
LEMMA DeliverFacts ==
  ASSUME Facts, NEW w \in Workers, Deliver(w)
  PROVE  Facts'
<1> USE JobAssumption DEF Facts
<1>0. /\ TypeOK /\ batch # << >> /\ Head(batch) = w /\ batch' = Tail(batch)
      /\ ctxGen[w] = gen /\ calling = NoWorker /\ queue' = queue /\ pc' = pc
      /\ ctxGen' = ctxGen /\ gen' = gen /\ running' = FALSE /\ detached' = FALSE
      /\ failures' = failures /\ posts' = posts
  BY DEF Deliver
<1>a. \/ calling' = w /\ given' = given \cup {w} /\ res' = res /\ res[w] = "live"
      \/ calling' = NoWorker /\ given' = given /\ Free(w)
  BY DEF Deliver
<1>1. TypeOK'
  <2>2. batch' \in Seq(Closures)
    BY <1>0, HeadLeaves
  <2>3. res' \in [Workers -> {"none", "null", "live", "freed"}]
    BY <1>a, FreeType DEF TypeOK
  <2> QED BY <1>0, <1>a, <2>2, <2>3 DEF TypeOK
<1>2. ASSUME NEW v \in Workers \ {w} PROVE Held(v)' /\ (Way(v)' <=> Way(v))
  <2>2. res'[v] = res[v] /\ calling' # v /\ calling # v
    BY <1>0, <1>a, FreeType
  <2> QED BY <1>0, <2>2, HeadLeaves DEF Held, Apart, Way
<1>3. Held(w)' /\ ~Way(w)'
  <2>1. /\ ~In(w, batch)' /\ ~In(w, queue)' /\ Once(w, batch)' /\ Once(w, queue)'
        /\ pc'[w] = "gone" /\ res[w] \in {"live", "null"}
    BY <1>0, HeadLeaves DEF Held, Apart
  <2>2. \/ calling' = w /\ res'[w] = "live"
        \/ calling' # w /\ res'[w] \in {"freed", "null"}
    BY <1>a, <2>1, FreeType
  <2> QED BY <2>1, <2>2 DEF Held, Apart, Way
<1>4. Busy'
  <2>1. \A v \in Workers \ {w} : Way(v) => ctxGen[v] # gen
    BY <1>0 DEF Generations, Way, Held
  <2> QED BY <1>0, <1>2, <1>3, <2>1 DEF Busy
<1>5. Generations'
  BY <1>0 DEF Generations
<1>6. GivenIsPosted'
  BY <1>0, <1>a, HeadLeaves DEF GivenIsPosted
<1> QED BY <1>1, <1>2, <1>3, <1>4, <1>5, <1>6

\* The callback has returned: its result is freed.
LEMMA ReturnFacts ==
  ASSUME Facts, Return
  PROVE  Facts'
<1> USE JobAssumption DEF Facts
<1> DEFINE w == calling
<1>0. /\ TypeOK /\ w \in Workers /\ Free(w) /\ calling' = NoWorker /\ NoWorker \notin Workers
      /\ queue' = queue /\ batch' = batch /\ pc' = pc
  BY DEF Return, TypeOK
<1>1. TypeOK'
  <2> QED BY FreeType DEF Return, TypeOK
<1>2. ASSUME NEW v \in Workers PROVE Held(v)' /\ (Way(v)' <=> Way(v))
  <2>2. CASE v = w
    BY <1>0, FreeType DEF Held, Apart, Way
  <2>3. CASE v # w
    BY <1>0, FreeType DEF Held, Apart, Way
  <2> QED BY <2>2, <2>3
<1>3. Busy' /\ Generations' /\ GivenIsPosted'
  BY <1>2 DEF Busy, Generations, GivenIsPosted, Return
<1> QED BY <1>1, <1>2, <1>3

-----------------------------------------------------------------------------

LEMMA NextFacts == Facts /\ [Next]_vars => Facts'
<1> SUFFICES ASSUME Facts, [Next]_vars PROVE Facts'
  OBVIOUS
<1>1. CASE UNCHANGED vars
  <2>1. TypeOK'
    <3> QED BY <1>1 DEF vars, Facts, TypeOK
  <2>2. \A w \in Workers : Held(w)' /\ (Way(w)' <=> Way(w))
    BY <1>1 DEF vars, Facts, Held, Apart, Way
  <2> QED BY <1>1, <2>1, <2>2 DEF vars, Facts, Busy, Generations, GivenIsPosted
<1>2. CASE UiStep
  BY <1>2, DrainFacts, RunOtherFacts, ReturnFacts, DeliverStaleFacts,
     DeliverFacts DEF UiStep
<1>3. CASE UserStep
  BY <1>3, StartFacts, StartFailsFacts, LeaveFacts, AbandonFacts DEF UserStep
<1>4. CASE PostOther
  BY <1>4, PostOtherFacts
<1>5. CASE \E w \in Workers : Work(w) \/ Post(w)
  BY <1>5, WorkFacts, PostFacts
<1> QED BY <1>1, <1>2, <1>3, <1>4, <1>5 DEF Next

\* However many workers are under way and whatever the UI thread does to the
\* job, a result has one holder until it is freed and none after, and the job
\* is busy exactly while the result of its own run is on its way
\* (one_shot_job.h:18-27, 94, 153-171).
THEOREM JobInvariant == Spec => []JobInv
<1>1. Facts <=> JobInv
  BY FactsMeaning
<1> QED BY InitFacts, NextFacts, <1>1, PTL DEF Spec
-----------------------------------------------------------------------------
(* Refinement of OneCall. *)

\* While the job is busy, one worker has its generation.
LEMMA OwnedIsOne ==
  ASSUME Facts, running, NEW w \in Workers, ctxGen[w] = gen
  PROVE  Owned = w
<1> QED BY DEF Owned

LEMMA OwnedType ==
  ASSUME Facts
  PROVE  /\ running => Owned \in Workers /\ ctxGen[Owned] = gen
         /\ ~running => Owned = NoWorker
         /\ running <=> Owned # NoWorker
<1>1. ASSUME running
      PROVE  Owned \in Workers /\ ctxGen[Owned] = gen
  <2>1. PICK w \in Workers : ctxGen[w] = gen
    BY <1>1 DEF Facts, Busy
  <2> QED BY <1>1, <2>1, OwnedIsOne
<1> QED BY <1>1, JobAssumption DEF Owned

LEMMA CallInit == Init => Call!Init
BY DEF Init, Owned, Call!Init

LEMMA CallNext == Facts /\ Facts' /\ [Next]_vars => [Call!Next]_<<Owned, running /\ ~detached, given>>
<1> SUFFICES ASSUME Facts, Facts', [Next]_vars
             PROVE  Call!Next \/ UNCHANGED <<Owned, running /\ ~detached, given>>
  OBVIOUS
<1>1. ASSUME NEW w \in Workers, Start(w)
      PROVE  Call!Ask
  <2>1. running' /\ ~detached' /\ ctxGen'[w] = gen' /\ w \notin given /\ given' = given
    BY <1>1 DEF Start, Facts, TypeOK, GivenIsPosted
  <2>2. Owned' = w
    <3> QED BY <2>1 DEF Owned
  <2>3. Owned = NoWorker
    BY <1>1 DEF Start, Owned
  <2> QED BY <2>1, <2>2, <2>3 DEF Call!Ask
<1>2. ASSUME running' = running, gen' = gen, ctxGen' = ctxGen
      PROVE  Owned' = Owned
  BY <1>2 DEF Owned
<1>3. CASE Attach
  BY <1>2, <1>3, OwnedType DEF Attach, Call!Next, Call!Return
<1>4. CASE Teardown
  BY <1>2, <1>4 DEF Teardown, Call!Next, Call!Leave
<1>5. CASE Abandon
  <2>1. Owned # NoWorker /\ Owned' = NoWorker /\ ~running' /\ given' = given
    BY <1>5, OwnedType DEF Abandon, Owned
  <2> QED BY <2>1 DEF Call!Next, Call!Answer
<1>6. CASE StartFails
  BY <1>6 DEF StartFails, Owned
<1>7. ASSUME NEW w \in Workers, Deliver(w)
      PROVE  Call!Answer
  <2>1. /\ TypeOK /\ batch # << >> /\ Head(batch) = w /\ batch' = Tail(batch)
        /\ ctxGen[w] = gen /\ ~running'
    BY <1>7 DEF Deliver, Facts
  <2>2. running /\ Owned = w
    <3>1. Way(w)
      BY <2>1, HeadLeaves DEF Way
    <3>2. running
      BY <2>1, <3>1 DEF Facts, Busy
    <3> QED BY <2>1, <3>2, OwnedIsOne
  <2>3. Owned' = NoWorker
    BY <2>1 DEF Owned
  <2>4. given' = given \/ (~detached /\ given' = given \cup {w})
    BY <1>7 DEF Deliver
  <2>5. w # NoWorker
    BY JobAssumption
  <2> QED BY <2>1, <2>2, <2>3, <2>4, <2>5 DEF Call!Answer
<1>8. CASE \/ Drain \/ RunOther \/ Return \/ PostOther \/ UNCHANGED vars
           \/ \E w \in Workers : DeliverStale(w) \/ Work(w) \/ Post(w)
  <2>1. /\ running' = running /\ detached' = detached /\ gen' = gen
        /\ ctxGen' = ctxGen /\ given' = given
    BY <1>8 DEF Drain, RunOther, Return, PostOther, DeliverStale, Work, Post, vars
  <2> QED BY <1>2, <2>1
<1> QED BY <1>1, <1>3, <1>4, <1>5, <1>6, <1>7, <1>8 DEF Next, UiStep, UserStep,
           Call!Next

\* Whatever the order of starts, leaves, re-entries, abandons and late results,
\* the job keeps the promise of OneCall: the app gets its own run's result, at
\* most once, and only while it waits (one_shot_job.h:18-27).
THEOREM ImplementsOneCall == Spec => OneAnswer
<1>1. Spec => Call!Init /\ [][Call!Next]_<<Owned, running /\ ~detached, given>>
  BY InitFacts, NextFacts, CallInit, CallNext, PTL DEF Spec
<1> QED BY <1>1 DEF OneAnswer, Call!Spec
=============================================================================
