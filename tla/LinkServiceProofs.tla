--------------------------- MODULE LinkServiceProofs ---------------------------
(***************************************************************************)
(* What the service promises, for every value of the constants of its RPC  *)
(* layer and of its file service.                                          *)
(*                                                                         *)
(* LinkRpc: the table keeps its bound and every request gets one callback. *)
(* From it: a response is given to the request it answers, and a request   *)
(* is failed only when its time is over, although ids and clock wrap. The  *)
(* first part is arithmetic: what congruent numbers have in common. It is  *)
(* stated about Rem, a name for % the provers do not rewrite.              *)
(*                                                                         *)
(* FsTransfers: whatever takes a path from under a transfer marks it       *)
(* stale, so an upload that is not stale has its own file open and its     *)
(* staging path names that file or none. From it: a commit publishes its   *)
(* own bytes, a read sends one file, no staging file is left behind, and   *)
(* a file changes only on request.                                         *)
(***************************************************************************)
EXTENDS LinkRpc, FsTransfers, FiniteSetTheorems, FunctionTheorems, SequenceTheorems,
        WellFoundedInduction, TLAPS

-----------------------------------------------------------------------------
(* LinkRpc *)

\* A set of numbers has a least one.
LEMMA Least ==
  ASSUME NEW T \in SUBSET Nat, T # {}
  PROVE  \E x \in T : \A y \in T : ~(y < x)
<1> DEFINE R == {ss \in Nat \X Nat : ss[1] < ss[2]}
<1>1. IsWellFoundedOn(R, Nat)
  BY NatLessThanWellFounded DEF OpToRel
<1>2. \E x \in T : \A y \in T : ~(<<y, x>> \in R)
  <2> HIDE DEF R
  <2> QED BY <1>1, WFMin
<1> QED BY <1>2

\* The remainder.
Rem(a, n) == a % n

\* A remainder is below the divisor.
LEMMA RemType ==
  ASSUME NEW n \in Nat \ {0}, NEW a \in Int
  PROVE  Rem(a, n) \in 0 .. (n - 1)
BY DEF Rem

\* A number below the divisor is its own remainder.
LEMMA RemLow ==
  ASSUME NEW n \in Nat \ {0}, NEW a \in 0 .. (n - 1)
  PROVE  Rem(a, n) = a
BY DEF Rem

\* A number is a multiple of the divisor and its remainder.
LEMMA Quotient ==
  ASSUME NEW n \in Nat \ {0}, NEW a \in Int
  PROVE  \E q \in Int : a = n * q + Rem(a, n)
<1>1. a \div n \in Int /\ a = n * (a \div n) + (a % n)
  OBVIOUS
<1> DEFINE q == a \div n
<1>2. q \in Int /\ a = n * q + Rem(a, n)
  BY <1>1 DEF Rem
<1> HIDE DEF q
<1> QED BY <1>2

\* Multiplication distributes over subtraction.
LEMMA Distrib ==
  ASSUME NEW n \in Int, NEW p \in Int, NEW q \in Int
  PROVE  n * p \in Int /\ n * (p - q) = n * p - n * q
OBVIOUS

\* No multiple of n but 0 lies between -n and n.
LEMMA Multiple ==
  ASSUME NEW n \in Nat \ {0}, NEW d \in Int, n * d < n, 0 - n < n * d
  PROVE  d = 0
<1>1. CASE d >= 1
  <2>1. n * d >= n * 1
    BY <1>1
  <2> QED BY <2>1
<1>2. CASE d <= 0 - 1
  <2>1. n * d <= n * (0 - 1)
    BY <1>2
  <2>2. n * (0 - 1) = 0 - n
    OBVIOUS
  <2> QED BY <2>1, <2>2
<1> QED BY <1>1, <1>2

\* Numbers a multiple of n apart have the same remainder,
LEMMA Congruent ==
  ASSUME NEW n \in Nat \ {0}, NEW a \in Int, NEW b \in Int, NEW k \in Int, a - b = n * k
  PROVE  Rem(a, n) = Rem(b, n)
<1>1. PICK p \in Int : a = n * p + Rem(a, n)
  BY Quotient
<1>2. PICK q \in Int : b = n * q + Rem(b, n)
  BY Quotient
<1>3. Rem(a, n) \in 0 .. (n - 1) /\ Rem(b, n) \in 0 .. (n - 1)
  BY RemType
<1> DEFINE d == (p - q) - k
<1>4. d \in Int /\ n * d = Rem(b, n) - Rem(a, n)
  <2>1. /\ n * (p - q) = n * p - n * q /\ n * d = n * (p - q) - n * k
        /\ n * p \in Int /\ n * q \in Int /\ n * k \in Int
    BY Distrib
  <2> QED BY <1>1, <1>2, <1>3, <2>1
<1>5. d = 0
  <2> HIDE DEF d
  <2> QED BY <1>3, <1>4, Multiple
<1>6. n * 0 = 0
  OBVIOUS
<1> HIDE DEF d
<1> QED BY <1>3, <1>4, <1>5, <1>6

\* and the other way round.
LEMMA Gap ==
  ASSUME NEW n \in Nat \ {0}, NEW a \in Int, NEW b \in Int, Rem(a, n) = Rem(b, n)
  PROVE  \E k \in Int : a - b = n * k
<1>1. PICK p \in Int : a = n * p + Rem(a, n)
  BY Quotient
<1>2. PICK q \in Int : b = n * q + Rem(b, n)
  BY Quotient
<1>3. Rem(a, n) \in 0 .. (n - 1)
  BY RemType
<1> DEFINE k == p - q
<1>4. k \in Int /\ a - b = n * k
  <2>1. n * k = n * p - n * q /\ n * p \in Int /\ n * q \in Int
    BY Distrib
  <2> QED BY <1>1, <1>2, <1>3, <2>1
<1> HIDE DEF k
<1> QED BY <1>4

\* Adding the same to two numbers keeps them congruent.
LEMMA RemAdd ==
  ASSUME NEW n \in Nat \ {0}, NEW a \in Int, NEW b \in Int, Rem(a, n) = Rem(b, n),
         NEW x \in Int, NEW y \in Int, x - a = y - b
  PROVE  Rem(x, n) = Rem(y, n)
<1>1. PICK k \in Int : a - b = n * k
  BY Gap
<1>2. x - y = n * k
  BY <1>1
<1> QED BY <1>2, Congruent

\* A summand may be replaced by its remainder,
LEMMA RemInner ==
  ASSUME NEW n \in Nat \ {0}, NEW a \in Int, NEW x \in Int, NEW y \in Int,
         x - Rem(a, n) = y - a
  PROVE  Rem(x, n) = Rem(y, n)
<1>1. PICK q \in Int : a = n * q + Rem(a, n)
  BY Quotient
<1>2. Rem(a, n) \in Int
  BY RemType
<1> DEFINE d == 0 - q
<1>3. n * q \in Int /\ n * d = 0 - n * q /\ d \in Int
  OBVIOUS
<1>4. x - y = n * d
  BY <1>1, <1>2, <1>3
<1> HIDE DEF d
<1> QED BY <1>3, <1>4, Congruent

\* and so may one that is subtracted.
LEMMA RemOuter ==
  ASSUME NEW n \in Nat \ {0}, NEW a \in Int, NEW x \in Int, NEW y \in Int,
         x + Rem(a, n) = y + a
  PROVE  Rem(x, n) = Rem(y, n)
<1>1. PICK q \in Int : a = n * q + Rem(a, n)
  BY Quotient
<1>2. Rem(a, n) \in Int /\ n * q \in Int
  BY RemType
<1>3. x - y = n * q
  BY <1>1, <1>2
<1> QED BY <1>3, Congruent

\* One round further the remainder is the same.
LEMMA RemShift ==
  ASSUME NEW n \in Nat \ {0}, NEW a \in Int, NEW x \in Int, x - a = n
  PROVE  Rem(x, n) = Rem(a, n)
<1> DEFINE k == 1
<1>1. k \in Int /\ x - a = n * k
  OBVIOUS
<1> HIDE DEF k
<1> QED BY <1>1, Congruent

\* Numbers that are congruent and not equal are n apart.
LEMMA RemFar ==
  ASSUME NEW n \in Nat \ {0}, NEW a \in Int, NEW b \in Int, Rem(a, n) = Rem(b, n), a < b
  PROVE  a + n <= b
<1>1. PICK k \in Int : b - a = n * k
  BY Gap
<1>2. n * k \in Int /\ (n * k < n /\ 0 - n < n * k => k = 0) /\ n * 0 = 0
  BY Multiple
<1> QED BY <1>1, <1>2

\* There are more ids than entries, so the search of alloc_id() ends, at a free id.
LEMMA SkippedIsFree ==
  ASSUME TypeOK, Table
  PROVE  /\ Skipped \in 0 .. (NumIds - 1)
         /\ \A p \in pending : p.id # IdAfter(Skipped)
<1> DEFINE Ids0 == 0 .. (NumIds - 1)
           Free == {k \in Ids0 : \A p \in pending : p.id # IdAfter(k)}
<1> USE RpcAssumption
<1>1. nextId \in Ids0 /\ NumIds \in Nat \ {0} /\ IsFiniteSet(pending)
      /\ Cardinality(pending) < NumIds
  <2>1. Cardinality(pending) \in Nat
    BY FS_CardinalityType DEF Table
  <2> QED BY <2>1 DEF TypeOK, Table
<1>2. ASSUME NEW i \in Ids0
      PROVE  \E k \in Ids0 : IdAfter(k) = i
  <2>1. Rem(i, NumIds) = i
    BY <1>1, RemLow
  <2>2. CASE nextId <= i
    <3>1. i - nextId \in Ids0 /\ nextId + (i - nextId) = i
      BY <1>1, <2>2
    <3> QED BY <2>1, <3>1 DEF IdAfter, Rem
  <2>3. CASE i < nextId
    <3> DEFINE k == (i - nextId) + NumIds
    <3>1. k \in Ids0 /\ nextId + k \in Int /\ (nextId + k) - i = NumIds
      BY <1>1, <2>3
    <3>2. Rem(nextId + k, NumIds) = Rem(i, NumIds)
      BY <1>1, <3>1, RemShift
    <3>3. IdAfter(k) = Rem(nextId + k, NumIds)
      BY DEF IdAfter, Rem
    <3> QED BY <2>1, <3>1, <3>2, <3>3
  <2> QED BY <1>1, <2>2, <2>3
<1>3. Free # {}
  <2> SUFFICES ASSUME Free = {} PROVE FALSE
    OBVIOUS
  <2>1. \A i \in Ids0 : \E p \in pending : p.id = i
    BY <1>2
  <2> DEFINE f == [p \in pending |-> p.id]
  <2>2. f \in Surjection(pending, Ids0)
    BY <2>1 DEF Surjection, TypeOK
  <2>3. Cardinality(Ids0) <= Cardinality(pending)
    BY <1>1, <2>2, FS_Surjection
  <2>4. Cardinality(Ids0) = NumIds
    BY <1>1, FS_Interval
  <2> QED BY <1>1, <2>3, <2>4, FS_CardinalityType
<1>4. PICK k \in Free : \A j \in Free : ~(j < k)
  <2>1. Free \in SUBSET Nat
    BY <1>1
  <2> HIDE DEF Free
  <2> QED BY <1>3, <2>1, Least
<1>5. \A j \in 0 .. (k - 1) : \E p \in pending : p.id = IdAfter(j)
  BY <1>1, <1>4
<1> QED BY <1>4, <1>5 DEF Skipped

\* alloc_id() takes a free id, at a later place of the stream.
LEMMA NewId ==
  ASSUME TypeOK, Table, Ids, NEW c \in Calls, AllocId(c)
  PROVE  /\ nextId' \in 0 .. (NumIds - 1) /\ nextId' = Rem(stream', NumIds)
         /\ stream' \in Nat /\ place' \in [Calls -> Nat]
         /\ stream <= place'[c] /\ place'[c] < stream'
         /\ IdAfter(Skipped) \in 0 .. (NumIds - 1)
         /\ IdAfter(Skipped) = Rem(place'[c], NumIds)
         /\ \A d \in Calls \ {c} : place'[d] = place[d]
<1> USE RpcAssumption
<1>1. Skipped \in Nat /\ NumIds \in Nat \ {0} /\ stream \in Nat /\ place \in [Calls -> Nat]
      /\ nextId = Rem(stream, NumIds)
  BY SkippedIsFree DEF TypeOK, Ids, Rem
<1> HIDE DEF Skipped
<1>2. ASSUME NEW k \in Nat
      PROVE  IdAfter(k) = Rem(stream + k, NumIds) /\ IdAfter(k) \in 0 .. (NumIds - 1)
  <2>1. nextId \in Int
    BY <1>1, RemType
  <2>2. nextId + k \in Int /\ stream + k \in Int /\ (nextId + k) - nextId = (stream + k) - stream
    BY <1>1, <2>1
  <2>3. Rem(nextId + k, NumIds) = Rem(stream + k, NumIds)
    BY <1>1, <2>2, RemInner
  <2>4. IdAfter(k) = Rem(nextId + k, NumIds)
    BY DEF IdAfter, Rem
  <2> QED BY <1>1, <2>2, <2>3, <2>4, RemType
<1>3. /\ stream' = stream + Skipped + 1 /\ nextId' = IdAfter(Skipped + 1)
      /\ place' = [place EXCEPT ![c] = stream + Skipped]
  BY DEF AllocId
<1>4. stream + (Skipped + 1) = stream' /\ Skipped + 1 \in Nat
  BY <1>1, <1>3
<1>5. nextId' = Rem(stream', NumIds) /\ nextId' \in 0 .. (NumIds - 1)
  BY <1>2, <1>3, <1>4
<1>6. place'[c] = stream + Skipped
  BY <1>1, <1>3
<1> QED BY <1>1, <1>2, <1>3, <1>4, <1>5, <1>6

\* There is no request yet.
LEMMA InitInv == Init => RpcInv
<1> SUFFICES ASSUME Init PROVE RpcInv
  OBVIOUS
<1> USE RpcAssumption DEF Init
<1>1. 0 \in Nat /\ Cardinality({}) = 0 /\ IsFiniteSet({})
  BY FS_EmptySet
<1>2. TypeOK
  <2>1. connected \in BOOLEAN /\ inCallback \in BOOLEAN
    OBVIOUS
  <2>2. Cardinality(pending) <= MaxPending /\ pending = {} /\ sent = {} /\ running = {}
    BY <1>1
  <2>3. nextId \in 0 .. (NumIds - 1) /\ now \in 0 .. (TimeMod - 1) /\ stream \in Nat
    OBVIOUS
  <2>4. /\ status \in [Calls -> {"new", "accepted", "rejected"}]
        /\ callbacks \in [Calls -> Nat] /\ answer \in [Calls -> {0} \cup Calls]
        /\ place \in [Calls -> Nat]
    OBVIOUS
  <2> HIDE DEF Init
  <2> QED BY <2>1, <2>2, <2>3, <2>4 DEF TypeOK
<1>3. CallbackOnce /\ Table /\ Deadlines
  BY <1>1 DEF CallbackOnce, Waiting, Table, Deadlines
<1>4. 0 = Rem(0, NumIds)
  BY RemLow
<1>5. Ids
  BY <1>4 DEF Ids, Rem
<1> QED BY <1>2, <1>3, <1>5 DEF RpcInv

\* A refused call leaves everything alone.
LEMMA CallRefusedInv ==
  ASSUME RpcInv, NEW c \in Calls, CallRefused(c)
  PROVE  RpcInv'
<1> USE DEF RpcInv, CallRefused, MayCall
<1>1. TypeOK'
  BY DEF TypeOK
<1>2. CallbackOnce'
  BY DEF CallbackOnce, Waiting, TypeOK
<1>3. Table' /\ Deadlines'
  BY DEF Table, Deadlines
<1>4. Ids'
  BY DEF Ids, TypeOK
<1> QED BY <1>1, <1>2, <1>3, <1>4

\* An id is consumed, nobody has it.
LEMMA CallNotSentInv ==
  ASSUME RpcInv, NEW c \in Calls, CallNotSent(c)
  PROVE  RpcInv'
<1> USE DEF RpcInv, CallNotSent, MayCall
<1>0. /\ nextId' \in 0 .. (NumIds - 1) /\ nextId' = Rem(stream', NumIds)
      /\ stream' \in Nat /\ place' \in [Calls -> Nat] /\ stream < stream'
      /\ \A d \in Calls \ {c} : place'[d] = place[d]
  BY NewId DEF TypeOK
<1>1. TypeOK'
  BY <1>0 DEF TypeOK
<1>2. CallbackOnce'
  BY DEF CallbackOnce, Waiting, TypeOK
<1>3. Table' /\ Deadlines'
  BY DEF Table, Deadlines
<1>4. \A r \in pending \cup sent : r.call \in Calls \ {c} /\ status[r.call] = "accepted"
  BY DEF CallbackOnce, Waiting, Ids, TypeOK
<1>5. Ids'
  <2>1. nextId' = stream' % NumIds
    BY <1>0 DEF Rem
  <2>2. \A r \in sent' : status'[r.call] = "accepted"
    BY <1>4 DEF TypeOK
  <2>3. \A r \in pending' \cup sent' : place'[r.call] < stream' /\ r.id = place'[r.call] % NumIds
    BY <1>0, <1>4 DEF Ids, TypeOK
  <2>4. \A p \in pending', r \in sent' :
          p.id = r.id /\ p.call # r.call => place'[r.call] + NumIds <= stream'
    BY <1>0, <1>4, RpcAssumption DEF Ids, TypeOK
  <2> QED BY <2>1, <2>2, <2>3, <2>4 DEF Ids
<1> QED BY <1>1, <1>2, <1>3, <1>5

\* The new entry has an id of its own, a round younger than a request with
\* that id that may still be answered.
LEMMA CallSentInv ==
  ASSUME RpcInv, NEW c \in Calls, NEW t \in Timeouts, CallSent(c, t)
  PROVE  RpcInv'
<1> USE DEF RpcInv
<1> DEFINE id == IdAfter(Skipped)
           e == [call |-> c, id |-> id, age |-> 0, timeout |-> t,
                 deadline |-> (now + t) % TimeMod]
           q == [call |-> c, id |-> id]
<1>0. /\ nextId' \in 0 .. (NumIds - 1) /\ nextId' = Rem(stream', NumIds)
      /\ stream' \in Nat /\ place' \in [Calls -> Nat]
      /\ stream <= place'[c] /\ place'[c] < stream'
      /\ id \in 0 .. (NumIds - 1) /\ id = Rem(place'[c], NumIds)
      /\ \A d \in Calls \ {c} : place'[d] = place[d]
  BY NewId DEF CallSent
<1>1. \A p \in pending : p.id # id
  BY SkippedIsFree
<1>2. /\ status[c] = "new" /\ connected /\ Cardinality(pending) < MaxPending
      /\ pending' = pending \cup {e} /\ sent' = sent \cup {q}
      /\ status' = [status EXCEPT ![c] = "accepted"]
      /\ UNCHANGED <<connected, now, running, inCallback, callbacks, answer>>
  BY DEF CallSent, MayCall
<1> HIDE DEF id
<1>3. t \in Nat /\ TimeMod \in Nat \ {0} /\ now \in Nat
  BY RpcAssumption DEF TypeOK
<1>4. (now + t) % TimeMod \in 0 .. (TimeMod - 1)
  <2>1. Rem(now + t, TimeMod) \in 0 .. (TimeMod - 1)
    BY <1>3, RemType
  <2> QED BY <2>1 DEF Rem
<1>5. /\ e.call = c /\ e.id = id /\ e.age = 0 /\ e.timeout = t
      /\ e.deadline = (now + t) % TimeMod
      /\ q.call = c /\ q.id = id
  OBVIOUS
<1>6. e \in [call : Calls, id : 0 .. (NumIds - 1), deadline : 0 .. (TimeMod - 1),
             timeout : Timeouts, age : 0 .. MaxAge]
  BY <1>0, <1>4, RpcAssumption
<1>7. q \in [call : Calls, id : 0 .. (NumIds - 1)]
  BY <1>0
<1>8. IsFiniteSet(pending') /\ Cardinality(pending') <= MaxPending
  <2>1. IsFiniteSet(pending)
    BY DEF Table
  <2>2. Cardinality(pending) \in Nat
    BY <2>1, FS_CardinalityType
  <2>3. /\ IsFiniteSet(pending \cup {e})
        /\ Cardinality(pending \cup {e}) \in Nat
        /\ Cardinality(pending \cup {e}) <= Cardinality(pending) + 1
    <3> HIDE DEF e
    <3>1. IsFiniteSet(pending \cup {e})
      BY <2>1, FS_AddElement
    <3>2. Cardinality(pending \cup {e}) \in Nat
      BY <3>1, FS_CardinalityType
    <3>3. Cardinality(pending \cup {e}) =
            IF e \in pending THEN Cardinality(pending) ELSE Cardinality(pending) + 1
      BY <2>1, FS_AddElement
    <3> QED BY <2>2, <3>1, <3>2, <3>3
  <2>4. pending' = pending \cup {e} /\ Cardinality(pending) < MaxPending /\ MaxPending \in Nat
    BY <1>2, RpcAssumption
  <2> HIDE DEF e
  <2> QED BY <2>2, <2>3, <2>4
<1>9. \A r \in pending \cup sent : r.call \in Calls \ {c} /\ status[r.call] = "accepted"
  BY <1>2 DEF CallbackOnce, Waiting, Ids, TypeOK
<1> HIDE DEF e, q
<1>10. TypeOK'
  BY <1>0, <1>2, <1>6, <1>7, <1>8 DEF TypeOK
<1>11. c \notin running /\ callbacks[c] = 0
  BY <1>2 DEF CallbackOnce, Waiting
<1>12. CallbackOnce'
  BY <1>2, <1>5, <1>11 DEF CallbackOnce, Waiting, TypeOK
<1>13. Table'
  BY <1>1, <1>2, <1>5, <1>8, <1>9, <1>11 DEF Table
<1>14. Deadlines'
  <2>1. (now - 0) + t = now + t
    BY <1>3
  <2> QED BY <1>2, <1>5, <2>1 DEF Deadlines
<1>15. Ids'
  <2>1. nextId' = stream' % NumIds
    BY <1>0 DEF Rem
  <2>2. \A r \in sent' : status'[r.call] = "accepted"
    BY <1>2, <1>5, <1>9 DEF TypeOK
  <2>3. id = place'[c] % NumIds
    BY <1>0 DEF Rem
  <2>4. stream \in Nat /\ stream < stream' /\ place \in [Calls -> Nat]
    BY <1>0 DEF TypeOK
  <2>5. \A r \in pending' \cup sent' : place'[r.call] < stream' /\ r.id = place'[r.call] % NumIds
    BY <1>0, <1>2, <1>5, <1>9, <2>3, <2>4 DEF Ids
  <2>6. ASSUME NEW r \in sent, r.id = id
        PROVE  place'[r.call] + NumIds <= stream'
    <3>1. r.call \in Calls /\ place'[r.call] = place[r.call] /\ place[r.call] < stream
      BY <1>0, <1>9 DEF Ids
    <3>2. Rem(place[r.call], NumIds) = Rem(place'[c], NumIds)
      BY <1>0, <2>6 DEF Ids, Rem
    <3>3. place[r.call] \in Int /\ place'[c] \in Int /\ place[r.call] < place'[c]
      BY <1>0, <2>4, <3>1
    <3>4. place[r.call] + NumIds <= place'[c]
      BY <3>2, <3>3, RemFar, RpcAssumption
    <3> QED BY <1>0, <3>1, <3>3, <3>4, RpcAssumption
  <2>7. ASSUME NEW p \in pending', NEW r \in sent', p.id = r.id, p.call # r.call
        PROVE  place'[r.call] + NumIds <= stream'
    <3>1. CASE p \in pending /\ r \in sent
      BY <1>0, <1>9, <2>4, <2>7, <3>1, RpcAssumption DEF Ids
    <3>2. CASE p = e /\ r \in sent
      BY <1>5, <2>6, <2>7, <3>2
    <3>3. CASE p \in pending /\ r = q
      BY <1>1, <1>5, <2>7, <3>3
    <3>4. CASE p = e /\ r = q
      BY <1>5, <2>7, <3>4
    <3> QED BY <1>2, <3>1, <3>2, <3>3, <3>4
  <2> QED BY <2>1, <2>2, <2>5, <2>7 DEF Ids
<1> QED BY <1>10, <1>12, <1>13, <1>14, <1>15

\* A response erases at most the entry whose callback runs.
LEMMA ResponseInv ==
  ASSUME RpcInv, NEW r \in sent, Response(r)
  PROVE  RpcInv'
<1> USE DEF RpcInv
<1>1. CASE Late(r)
  <2>1. TypeOK'
    BY <1>1 DEF TypeOK, Response, Late
  <2>2. CallbackOnce'
    BY <1>1 DEF CallbackOnce, Waiting, Response, Late
  <2>3. Table' /\ Ids' /\ Deadlines'
    BY <1>1 DEF Table, Ids, Deadlines, Response, Late
  <2> QED BY <2>1, <2>2, <2>3
<1>2. CASE Answered(r)
  <2>1. PICK p \in pending : /\ p.id = r.id /\ pending' = pending \ {p}
                             /\ answer' = [answer EXCEPT ![p.call] = r.call]
                             /\ callbacks' = [callbacks EXCEPT ![p.call] = @ + 1]
    BY <1>2 DEF Answered, Ran
  <2>2. /\ running = {} /\ sent' = sent \ {r} /\ inCallback' = FALSE
        /\ UNCHANGED <<connected, nextId, now, running, status, stream, place>>
    BY DEF Response, LockFree
  <2>3. p.call \in Calls /\ r.call \in Calls /\ callbacks[p.call] = 0 /\ status[p.call] = "accepted"
    BY DEF TypeOK, CallbackOnce, Waiting
  <2>4. IsFiniteSet(pending') /\ Cardinality(pending') <= MaxPending
    <3>1. IsFiniteSet(pending) /\ pending' \in SUBSET pending /\ Cardinality(pending) <= MaxPending
      BY <2>1 DEF Table, TypeOK
    <3>2. IsFiniteSet(pending') /\ Cardinality(pending') <= Cardinality(pending)
      BY <3>1, FS_Subset
    <3> QED BY <3>1, <3>2, FS_CardinalityType, RpcAssumption
  <2>5. TypeOK'
    <3>1. callbacks' \in [Calls -> Nat] /\ answer' \in [Calls -> {0} \cup Calls]
      BY <2>1, <2>3 DEF TypeOK
    <3>2. connected' \in BOOLEAN /\ inCallback' \in BOOLEAN
      BY <2>2 DEF TypeOK
    <3> QED BY <2>1, <2>2, <2>4, <3>1, <3>2 DEF TypeOK
  <2>6. \A d \in Calls : Waiting(d)' <=> Waiting(d) /\ d # p.call
    BY <2>1, <2>2 DEF Waiting, Table
  <2>7. CallbackOnce'
    BY <2>1, <2>2, <2>3, <2>6 DEF CallbackOnce, TypeOK
  <2>8. Table' /\ Ids' /\ Deadlines'
    BY <2>1, <2>2, <2>4 DEF Table, Ids, Deadlines
  <2> QED BY <2>5, <2>7, <2>8
<1> QED BY <1>1, <1>2 DEF Response

\* Entries grow older as the clock goes on.
LEMMA AdvanceInv ==
  ASSUME RpcInv, Advance
  PROVE  RpcInv'
<1> USE DEF RpcInv
<1> DEFINE older(p) == [p EXCEPT !.age = @ + 1]
           Entry == [call : Calls, id : 0 .. (NumIds - 1), deadline : 0 .. (TimeMod - 1),
                     timeout : Timeouts, age : 0 .. MaxAge]
<1>1. /\ \A p \in pending : p.age < MaxAge
      /\ now' = (now + 1) % TimeMod
      /\ pending' = {older(p) : p \in pending}
      /\ UNCHANGED <<connected, nextId, running, inCallback, sent, status, callbacks,
                     answer, stream, place>>
  BY DEF Advance
<1>2. pending \subseteq Entry
  BY DEF TypeOK
<1>3. ASSUME NEW p \in pending
      PROVE  /\ older(p) \in Entry
             /\ older(p).call = p.call /\ older(p).id = p.id /\ older(p).age = p.age + 1
             /\ older(p).deadline = p.deadline /\ older(p).timeout = p.timeout
             /\ p.age \in Nat /\ p.timeout \in Nat /\ p.deadline \in Nat
  BY <1>1, <1>2, RpcAssumption
<1>4. IsFiniteSet(pending') /\ Cardinality(pending') <= MaxPending
  <2> DEFINE f == [p \in pending |-> older(p)]
  <2>1. f \in Surjection(pending, pending')
    BY <1>1 DEF Surjection
  <2>2. IsFiniteSet(pending) /\ Cardinality(pending) <= MaxPending
    BY DEF Table, TypeOK
  <2>3. IsFiniteSet(pending') /\ Cardinality(pending') <= Cardinality(pending)
    <3> HIDE DEF f
    <3> QED BY <2>1, <2>2, FS_Surjection
  <2> QED BY <2>2, <2>3, FS_CardinalityType, RpcAssumption
<1> HIDE DEF older
<1>5. TypeOK'
  <2>1. now' \in 0 .. (TimeMod - 1)
    <3>1. now + 1 \in Int /\ TimeMod \in Nat \ {0}
      BY RpcAssumption DEF TypeOK
    <3>2. Rem(now + 1, TimeMod) \in 0 .. (TimeMod - 1)
      BY <3>1, RemType
    <3> QED BY <1>1, <3>2 DEF Rem
  <2>2. pending' \subseteq Entry
    BY <1>1, <1>3
  <2>3. connected' \in BOOLEAN /\ inCallback' \in BOOLEAN
    BY <1>1 DEF TypeOK
  <2> QED BY <1>1, <1>4, <2>1, <2>2, <2>3 DEF TypeOK
<1> HIDE DEF Entry
<1>6. CallbackOnce'
  <2>1. \A d : Waiting(d)' <=> Waiting(d)
    BY <1>1, <1>3 DEF Waiting
  <2> QED BY <1>1, <2>1 DEF CallbackOnce
<1>7. Table' /\ Ids'
  BY <1>1, <1>3, <1>4 DEF Table, Ids
<1>8. Deadlines'
  <2> SUFFICES ASSUME NEW p \in pending
               PROVE  older(p).deadline = (now' - older(p).age + older(p).timeout) % TimeMod
    BY <1>1 DEF Deadlines
  <2>1. now \in Nat /\ now' = Rem(now + 1, TimeMod) /\ TimeMod \in Nat \ {0} /\ now' \in Int
    BY <1>1, <1>5, RpcAssumption DEF TypeOK, Rem
  <2> DEFINE x == now' - (p.age + 1) + p.timeout
             y == now - p.age + p.timeout
  <2>2. x \in Int /\ y \in Int /\ x - now' = y - (now + 1)
    BY <1>3, <2>1
  <2>3. Rem(x, TimeMod) = Rem(y, TimeMod)
    <3> HIDE DEF x, y
    <3> QED BY <2>1, <2>2, RemInner
  <2>4. p.deadline = Rem(y, TimeMod)
    BY DEF Deadlines, Rem
  <2>5. p.deadline = Rem(x, TimeMod)
    BY <2>3, <2>4
  <2> QED BY <1>3, <2>5 DEF Rem
<1> QED BY <1>5, <1>6, <1>7, <1>8

\* What leaves the table has its callback ahead.
LEMMA TickInv ==
  ASSUME RpcInv, Tick
  PROVE  RpcInv'
<1> USE DEF RpcInv
<1> DEFINE rest == {p \in pending : ~Due(p)}
<1>1. /\ running = {} /\ pending' = rest /\ connected
      /\ running' = {p.call : p \in {q \in pending : Due(q)}}
      /\ inCallback' = FALSE
      /\ UNCHANGED <<connected, nextId, now, sent, status, callbacks, answer, stream, place>>
  BY DEF Tick, LockFree
<1>2. IsFiniteSet(pending') /\ Cardinality(pending') <= MaxPending
  <2>1. IsFiniteSet(pending) /\ pending' \in SUBSET pending /\ Cardinality(pending) <= MaxPending
    BY <1>1 DEF Table, TypeOK
  <2>2. IsFiniteSet(pending') /\ Cardinality(pending') <= Cardinality(pending)
    BY <2>1, FS_Subset
  <2> QED BY <2>1, <2>2, FS_CardinalityType, RpcAssumption
<1>3. TypeOK'
  <2>1. connected' \in BOOLEAN /\ inCallback' \in BOOLEAN
    BY <1>1 DEF TypeOK
  <2>2. running' \subseteq Calls
    BY <1>1 DEF TypeOK
  <2> QED BY <1>1, <1>2, <2>1, <2>2 DEF TypeOK
<1>4. \A d : Waiting(d)' <=> Waiting(d)
  BY <1>1 DEF Waiting
<1>5. CallbackOnce'
  BY <1>1, <1>4 DEF CallbackOnce
<1>6. Table' /\ Ids' /\ Deadlines'
  BY <1>1, <1>2 DEF Table, Ids, Deadlines
<1> QED BY <1>3, <1>5, <1>6

\* A callback runs, for the first time.
LEMMA RunCallbackInv ==
  ASSUME RpcInv, NEW c \in Calls, RunCallback(c)
  PROVE  RpcInv'
<1> USE DEF RpcInv
<1>1. /\ c \in running /\ running' = running \ {c} /\ inCallback' = TRUE
      /\ callbacks' = [callbacks EXCEPT ![c] = @ + 1]
      /\ UNCHANGED <<connected, pending, nextId, now, sent, status, answer, stream, place>>
  BY DEF RunCallback, Ran
<1>2. callbacks[c] = 0 /\ status[c] = "accepted"
  BY <1>1 DEF CallbackOnce, Waiting
<1>3. TypeOK'
  <2>1. callbacks' \in [Calls -> Nat]
    BY <1>1 DEF TypeOK
  <2>2. connected' \in BOOLEAN /\ inCallback' \in BOOLEAN
    BY <1>1 DEF TypeOK
  <2> QED BY <1>1, <2>1, <2>2 DEF TypeOK
<1>4. \A d \in Calls : Waiting(d)' <=> Waiting(d) /\ d # c
  BY <1>1 DEF Waiting, Table
<1>5. CallbackOnce'
  BY <1>1, <1>2, <1>4 DEF CallbackOnce, TypeOK
<1>6. Table' /\ Ids' /\ Deadlines'
  BY <1>1 DEF Table, Ids, Deadlines
<1> QED BY <1>3, <1>5, <1>6

\* All entries leave the table.
LEMMA DisconnectInv ==
  ASSUME RpcInv, Disconnect
  PROVE  RpcInv'
<1> USE DEF RpcInv, Disconnect, LockFree
<1>1. IsFiniteSet({}) /\ Cardinality({}) = 0
  BY FS_EmptySet
<1>2. TypeOK'
  <2>1. connected' \in BOOLEAN /\ inCallback' \in BOOLEAN
    OBVIOUS
  <2>2. Cardinality(pending') <= MaxPending
    BY <1>1, RpcAssumption
  <2> QED BY <2>1, <2>2 DEF TypeOK
<1>3. \A d : Waiting(d)' <=> Waiting(d)
  BY DEF Waiting
<1>4. CallbackOnce'
  BY <1>3 DEF CallbackOnce
<1>5. Table' /\ Ids' /\ Deadlines'
  BY <1>1 DEF Table, Ids, Deadlines
<1> QED BY <1>2, <1>4, <1>5

\* The new Rpc counts from 0 and has no entries.
LEMMA ConnectInv ==
  ASSUME RpcInv, Connect
  PROVE  RpcInv'
<1> USE DEF RpcInv, Connect, LockFree
<1>1. pending = {} /\ sent = {}
  BY DEF Table
<1>2. TypeOK'
  <2>1. connected' \in BOOLEAN /\ inCallback' \in BOOLEAN
    BY DEF TypeOK
  <2>2. nextId' \in 0 .. (NumIds - 1) /\ stream' \in Nat
    BY RpcAssumption
  <2> QED BY <2>1, <2>2 DEF TypeOK
<1>3. CallbackOnce'
  BY DEF CallbackOnce, Waiting
<1>4. Table' /\ Deadlines'
  BY <1>1 DEF Table, Deadlines
<1>5. 0 = Rem(0, NumIds)
  BY RemLow, RpcAssumption
<1>6. Ids'
  BY <1>1, <1>5 DEF Ids, Rem
<1> QED BY <1>2, <1>3, <1>4, <1>6

\* Every step keeps the invariant.
LEMMA NextInv ==
  ASSUME RpcInv, [Next]_vars
  PROVE  RpcInv'
<1>1. CASE \E c \in Calls : CallRefused(c) \/ CallNotSent(c) \/ \E t \in Timeouts : CallSent(c, t)
  BY <1>1, CallRefusedInv, CallNotSentInv, CallSentInv
<1>2. CASE \E r \in sent : Response(r)
  BY <1>2, ResponseInv
<1>3. CASE Advance \/ Tick \/ Disconnect \/ Connect
  BY <1>3, AdvanceInv, TickInv, DisconnectInv, ConnectInv
<1>4. CASE \E c \in Calls : RunCallback(c)
  BY <1>4, RunCallbackInv
<1>5. CASE UNCHANGED vars
  BY <1>5 DEF vars, RpcInv, TypeOK, CallbackOnce, Waiting, Table, Ids, Deadlines
<1> QED BY <1>1, <1>2, <1>3, <1>4, <1>5 DEF Next

\* The table of outstanding requests never exceeds MAX_PENDING, calls made by
\* callbacks included, and every accepted call's callback runs at most once and
\* is never forgotten, whatever is answered, late, timed out or disconnected
\* (link_rpc.cpp:123, link_rpc.h:93).
THEOREM RpcInvariant == Spec => []RpcInv
<1>1. RpcInv /\ [Next]_vars => RpcInv'
  BY NextInv
<1> QED BY <1>1, InitInv, PTL DEF Spec

\* The entry a response finds is that of its own request: a younger request
\* with the id would make the response a whole round late.
LEMMA AnswerStep ==
  ASSUME RpcInv, RightAnswer, NEW r \in sent, Response(r)
  PROVE  RightAnswer'
<1>1. CASE Late(r)
  BY <1>1 DEF Late, RightAnswer
<1>2. CASE Answered(r)
  <2>1. PICK p \in pending : p.id = r.id /\ answer' = [answer EXCEPT ![p.call] = r.call]
    BY <1>2 DEF Answered
  <2>2. p.call = r.call
    <3>1. CASE \E q \in pending : q.call = r.call
      <4>1. PICK q \in pending : q.call = r.call
        BY <3>1
      <4>2. q.id = r.id
        BY <4>1 DEF RpcInv, Ids
      <4> QED BY <2>1, <4>1, <4>2 DEF RpcInv, Table
    <3>2. CASE stream - place[r.call] < NumIds
      <4>1. stream \in Nat /\ place[r.call] \in Nat /\ NumIds \in Nat
        BY RpcAssumption DEF RpcInv, TypeOK
      <4> QED BY <2>1, <3>2, <4>1 DEF RpcInv, Ids
    <3> QED BY <3>1, <3>2 DEF Response, InTime
  <2>3. answer \in [Calls -> {0} \cup Calls]
    BY DEF RpcInv, TypeOK
  <2> QED BY <2>1, <2>2, <2>3 DEF RightAnswer
<1> QED BY <1>1, <1>2 DEF Response

\* A callback is never given the response to another request, although ids are
\* used again (alloc_id() and handle_res() of link_rpc.cpp).
THEOREM AnswersItsOwn == Spec => []RightAnswer
<1>1. Init => RightAnswer
  BY DEF Init, RightAnswer
<1>2. RpcInv /\ RightAnswer /\ [Next]_vars => RightAnswer'
  <2> SUFFICES ASSUME RpcInv, RightAnswer, [Next]_vars PROVE RightAnswer'
    OBVIOUS
  <2>1. CASE \E r \in sent : Response(r)
    BY <2>1, AnswerStep
  <2>2. CASE answer' = answer
    BY <2>2 DEF RightAnswer
  <2> QED
    BY <2>1, <2>2 DEF Next, vars, CallRefused, CallNotSent, CallSent, Advance, Tick, RunCallback,
       Disconnect, Connect
<1> QED BY <1>1, <1>2, RpcInvariant, PTL DEF Spec

\* The signed difference says "due" only after the timeout, as long as no
\* entry gets older than half the clock's range past it.
LEMMA DueIsDue ==
  ASSUME RpcInv, NEW p \in pending, Due(p)
  PROVE  p.age >= p.timeout
<1>0. /\ p \in [call : Calls, id : 0 .. (NumIds - 1), deadline : 0 .. (TimeMod - 1),
                timeout : Timeouts, age : 0 .. MaxAge]
      /\ now \in 0 .. (TimeMod - 1)
  BY DEF RpcInv, TypeOK
<1>1. /\ now \in Nat /\ TimeMod \in Nat \ {0} /\ p.age \in 0 .. MaxAge
      /\ p.timeout \in 1 .. (TimeMod \div 2) /\ MaxAge < p.timeout + TimeMod \div 2
      /\ MaxAge \in Nat /\ p.deadline \in Int
  <2>1. p.timeout \in Timeouts /\ p.age \in 0 .. MaxAge /\ p.deadline \in 0 .. (TimeMod - 1)
    BY <1>0
  <2>2. TimeMod \in Nat \ {0} /\ MaxAge \in Nat /\ Timeouts \subseteq 1 .. (TimeMod \div 2)
    BY RpcAssumption
  <2>3. MaxAge < p.timeout + TimeMod \div 2
    BY <2>1, RpcAssumption
  <2>4. p.timeout \in 1 .. (TimeMod \div 2)
    BY <2>1, <2>2
  <2>5. now \in Nat /\ p.deadline \in Int
    BY <1>0, <2>1, <2>2
  <2> QED BY <2>1, <2>2, <2>3, <2>4, <2>5
<1>2. TimeMod \div 2 \in Nat /\ 2 * (TimeMod \div 2) <= TimeMod
  BY <1>1
<1> DEFINE half == TimeMod \div 2
           b == now - p.age + p.timeout
           x == now - p.deadline
           y == p.age - p.timeout
           z == y + TimeMod
<1>3. p.deadline = Rem(b, TimeMod)
  BY DEF RpcInv, Deadlines, Rem
<1>4. b \in Int /\ x \in Int /\ y \in Int /\ z \in Int /\ x + Rem(b, TimeMod) = y + b
      /\ z - y = TimeMod
  BY <1>1, <1>3
<1>5. Rem(x, TimeMod) = Rem(y, TimeMod)
  <2> HIDE DEF b, x, y, z
  <2> QED BY <1>1, <1>4, RemOuter
<1>6. Rem(z, TimeMod) = Rem(y, TimeMod)
  <2> HIDE DEF b, x, y, z
  <2> QED BY <1>1, <1>4, RemShift
<1>7. Rem(x, TimeMod) < half
  BY DEF Due, Rem
<1>8. CASE y < 0
  <2>1. z \in 0 .. (TimeMod - 1) /\ half <= z
    BY <1>1, <1>2, <1>8
  <2>2. Rem(z, TimeMod) = z
    <3> HIDE DEF z
    <3> QED BY <1>1, <2>1, RemLow
  <2> HIDE DEF x, z, half, y
  <2> QED BY <1>2, <1>4, <1>5, <1>6, <1>7, <2>1, <2>2 DEF half
<1> QED BY <1>1, <1>8

\* tick() fails a request only when its timeout has passed, although the
\* millisecond clock wraps (link_rpc.cpp, the cast to int32_t).
THEOREM TimesOutWhenDue == Spec => TimeoutIsDue
<1>1. RpcInv /\ [Next]_vars =>
        [connected' => \A p \in pending : p.call \in running' => p.age >= p.timeout]_vars
  <2> SUFFICES ASSUME RpcInv, [Next]_vars, connected', NEW p \in pending, p.call \in running'
               PROVE  p.age >= p.timeout
    OBVIOUS
  <2>1. p.call \notin running
    BY DEF RpcInv, Table
  <2>2. CASE Tick
    <3>1. PICK q \in pending : Due(q) /\ q.call = p.call
      BY <2>2 DEF Tick
    <3>2. q = p
      BY <3>1 DEF RpcInv, Table
    <3> QED BY <3>1, <3>2, DueIsDue
  <2>3. CASE running' \subseteq running
    BY <2>1, <2>3
  <2>4. CASE Disconnect
    BY <2>4 DEF Disconnect
  <2> QED
    BY <2>2, <2>3, <2>4 DEF Next, vars, CallRefused, CallNotSent, CallSent, Response, Advance,
       RunCallback, Connect
<1> QED BY <1>1, RpcInvariant, PTL DEF Spec, TimeoutIsDue

-----------------------------------------------------------------------------
(* FsTransfers: sequences, closed transfers, finite sets *)

Chunks == Seq(Files \X Nat)
Uploads == [id : Files, path : Targets, size : Sizes, overwrite : BOOLEAN,
            bad : BOOLEAN, node : 0 .. created, stale : BOOLEAN, n : Nat]
Reads == [id : ReadIds, path : Paths, size : Nat, node : 0 .. created,
          stale : BOOLEAN, got : Chunks]

\* What a writer has written of a file: a sequence of that many chunks.
LEMMA FileWhole ==
  ASSUME NEW f \in Files, NEW k \in Nat
  PROVE  Whole(f, k) \in Chunks /\ Len(Whole(f, k)) = k
<1>1. Whole(f, k) \in [1 .. k -> Files \X Nat]
  BY DEF Whole
<1>2. Whole(f, k) \in Chunks
  BY <1>1 DEF Chunks
<1>3. DOMAIN Whole(f, k) = 1 .. k
  BY DEF Whole
<1> QED BY <1>2, <1>3

\* A file that is whole stays so with its next chunk.
LEMMA NextChunk ==
  ASSUME NEW f \in Files, NEW k \in Nat
  PROVE  Append(Whole(f, k), <<f, k + 1>>) = Whole(f, k + 1)
<1> DEFINE a == Append(Whole(f, k), <<f, k + 1>>)
           b == Whole(f, k + 1)
<1>1. Whole(f, k) \in Seq(Files \X Nat) /\ Len(Whole(f, k)) = k
  BY FileWhole DEF Chunks
<1>2. a \in Seq(Files \X Nat) /\ b \in Seq(Files \X Nat) /\ Len(a) = k + 1 /\ Len(b) = k + 1
  <2>1. b \in Seq(Files \X Nat) /\ Len(b) = k + 1
    BY FileWhole DEF Chunks
  <2> QED BY <1>1, <2>1
<1>3. ASSUME NEW i \in 1 .. (k + 1)
      PROVE  a[i] = b[i]
  BY DEF Whole
<1> HIDE DEF a, b
<1>4. a = b
  BY <1>2, <1>3
<1> QED BY <1>4 DEF a, b

LEMMA NoChunk == \A f : Whole(f, 0) = << >>
  BY DEF Whole

\* A staging path is a path, of one target, and is not the target.
LEMMA PartFacts ==
  ASSUME NEW p \in Targets
  PROVE  /\ Part(p) \in Paths /\ Part(p) # p /\ p \in Paths
         /\ \A q \in Targets : Part(q) = Part(p) => q = p
         /\ \A m \in Names : Part(p) # <<m, 0>>
  BY FsAssumption DEF Part, Targets, Paths

\* Closing changes the handle and the mark, once.
LEMMA ClosedFacts ==
  ASSUME created \in Nat
  PROVE  /\ \A u \in Uploads :
              /\ Closed(u) \in Uploads /\ Closed(u).stale /\ Closed(Closed(u)) = Closed(u)
              /\ Closed(u).id = u.id /\ Closed(u).path = u.path
         /\ \A r \in Reads :
              /\ Closed(r) \in Reads /\ Closed(r).stale /\ Closed(Closed(r)) = Closed(r)
              /\ Closed(r).got = r.got
<1>0. 0 \in 0 .. created
  OBVIOUS
<1>1. ASSUME NEW u \in Uploads
      PROVE  /\ Closed(u) \in Uploads /\ Closed(u).stale /\ Closed(Closed(u)) = Closed(u)
             /\ Closed(u).id = u.id /\ Closed(u).path = u.path
  BY <1>0 DEF Closed, Uploads
<1>2. ASSUME NEW r \in Reads
      PROVE  /\ Closed(r) \in Reads /\ Closed(r).stale /\ Closed(Closed(r)) = Closed(r)
             /\ Closed(r).got = r.got
  BY <1>0 DEF Closed, Reads
<1> QED BY <1>1, <1>2

\* What a handler leaves of the transfers there were: some of them, some of
\* those closed.
Leaves(ts, us) ==
  /\ \A u \in us : \E t \in ts : u = t \/ u = Closed(t)
  /\ IsFiniteSet(us) /\ Cardinality(us) <= Cardinality(ts)

OneId(us) == \A u, v \in us : u.id = v.id => u = v

\* Ending transfers leaves some.
LEMMA SomeLeft ==
  ASSUME NEW ts, IsFiniteSet(ts), NEW us \in SUBSET ts
  PROVE  Leaves(ts, us)
  BY FS_Subset DEF Leaves

\* A transfer that begins makes one more, one that changes makes none.
LEMMA OneMore ==
  ASSUME NEW ts, IsFiniteSet(ts), NEW x
  PROVE  IsFiniteSet(ts \cup {x}) /\ Cardinality(ts \cup {x}) <= Cardinality(ts) + 1
<1>1. Cardinality(ts) \in Nat
  BY FS_CardinalityType
<1> QED BY <1>1, FS_AddElement

LEMMA OneReplaced ==
  ASSUME NEW ts, IsFiniteSet(ts), NEW y \in ts, NEW x
  PROVE  /\ IsFiniteSet((ts \ {y}) \cup {x})
         /\ Cardinality((ts \ {y}) \cup {x}) <= Cardinality(ts)
<1>1. IsFiniteSet(ts \ {y}) /\ Cardinality(ts \ {y}) = Cardinality(ts) - 1
  BY FS_RemoveElement
<1>2. /\ IsFiniteSet((ts \ {y}) \cup {x})
      /\ Cardinality((ts \ {y}) \cup {x}) <= Cardinality(ts \ {y}) + 1
  BY <1>1, OneMore
<1>3. /\ Cardinality(ts) \in Nat
      /\ Cardinality((ts \ {y}) \cup {x}) \in Nat
  BY <1>2, FS_CardinalityType
<1> QED BY <1>1, <1>2, <1>3

\* close_files_under() leaves every transfer, those under the path closed.
LEMMA CloseReadsLeaves ==
  ASSUME NEW ts \in SUBSET Reads, IsFiniteSet(ts), NEW p, created \in Nat
  PROVE  Leaves(ts, CloseReads(ts, p)) /\ CloseReads(ts, p) \in SUBSET Reads
<1> DEFINE c(r) == IF r.path = p THEN Closed(r) ELSE r
           f == [r \in ts |-> c(r)]
           us == CloseReads(ts, p)
<1>1. f \in Surjection(ts, us)
  BY DEF CloseReads, Surjection
<1>2. IsFiniteSet(us) /\ Cardinality(us) <= Cardinality(ts)
  <2> HIDE DEF f, us
  <2> QED BY <1>1, FS_Surjection
<1>3. \A u \in us : \E t \in ts : u = t \/ u = Closed(t)
  BY DEF CloseReads
<1>4. us \in SUBSET Reads
  BY ClosedFacts DEF CloseReads
<1> QED BY <1>2, <1>3, <1>4 DEF Leaves

LEMMA CloseUploadsLeaves ==
  ASSUME NEW ts \in SUBSET Uploads, IsFiniteSet(ts), NEW p, created \in Nat
  PROVE  /\ Leaves(ts, CloseUploads(ts, p)) /\ CloseUploads(ts, p) \in SUBSET Uploads
         /\ OneId(ts) => OneId(CloseUploads(ts, p))
         /\ \A u \in CloseUploads(ts, p) : ~u.stale => u \in ts /\ Part(u.path) # p
         /\ \A t \in ts : \E u \in CloseUploads(ts, p) : u.id = t.id /\ u.path = t.path
         /\ \A t \in ts : Part(t.path) # p => t \in CloseUploads(ts, p)
<1> DEFINE c(u) == IF Part(u.path) = p THEN Closed(u) ELSE u
           f == [u \in ts |-> c(u)]
           us == CloseUploads(ts, p)
<1>1. f \in Surjection(ts, us)
  BY DEF CloseUploads, Surjection
<1>2. IsFiniteSet(us) /\ Cardinality(us) <= Cardinality(ts)
  <2> HIDE DEF f, us
  <2> QED BY <1>1, FS_Surjection
<1>3. \A u \in us : \E t \in ts : u = t \/ u = Closed(t)
  BY DEF CloseUploads
<1>4. us \in SUBSET Uploads
  BY ClosedFacts DEF CloseUploads
<1>5. ASSUME OneId(ts) PROVE OneId(us)
  <2>1. \A u \in us : \E t \in ts : u = c(t) /\ u.id = t.id
    BY ClosedFacts DEF CloseUploads
  <2> HIDE DEF c, us
  <2> QED BY <1>5, <2>1 DEF OneId
<1>6. \A u \in us : ~u.stale => u \in ts /\ Part(u.path) # p
  BY ClosedFacts DEF CloseUploads
<1>7. \A t \in ts : \E u \in us : u.id = t.id /\ u.path = t.path
  BY ClosedFacts DEF CloseUploads
<1>8. \A t \in ts : Part(t.path) # p => t \in us
  BY DEF CloseUploads
<1> QED BY <1>2, <1>3, <1>4, <1>5, <1>6, <1>7, <1>8 DEF Leaves

\* Closing under two paths, or closing and ending, is no more than that.
LEMMA LeavesTrans ==
  ASSUME NEW ts \in SUBSET (Uploads \cup Reads), NEW us, NEW vs, IsFiniteSet(ts),
         created \in Nat, Leaves(ts, us), Leaves(us, vs)
  PROVE  Leaves(ts, vs)
<1>1. \A t \in ts : Closed(Closed(t)) = Closed(t)
  BY ClosedFacts
<1>2. \A v \in vs : \E t \in ts : v = t \/ v = Closed(t)
  BY <1>1 DEF Leaves
<1>3. Cardinality(vs) <= Cardinality(ts)
  <2>1. Cardinality(ts) \in Nat /\ Cardinality(us) \in Nat /\ Cardinality(vs) \in Nat
    BY FS_CardinalityType DEF Leaves
  <2> QED BY <2>1 DEF Leaves
<1> QED BY <1>2, <1>3 DEF Leaves

-----------------------------------------------------------------------------

\* The invariant with the property it is needed for.
FsIInv == FsInv /\ ReadsOneFile

\* The types, as the proofs use them.
LEMMA FsTypes ==
  ASSUME FsInv
  PROVE  /\ uploads \in SUBSET Uploads /\ reads \in SUBSET Reads
         /\ created \in Nat /\ created <= MaxFiles
         /\ IsFiniteSet(uploads) /\ IsFiniteSet(reads)
         /\ Cardinality(uploads) \in Nat /\ Cardinality(reads) \in Nat
         /\ Cardinality(uploads) + Cardinality(reads) <= MaxXfers
         /\ OneId(uploads)
<1>1. uploads \in SUBSET Uploads /\ reads \in SUBSET Reads
  BY DEF FsInv, FsTypeOK, Uploads, Reads, Chunks
<1>2. IsFiniteSet(uploads) /\ IsFiniteSet(reads)
  BY DEF FsInv, FsTypeOK
<1>3. Cardinality(uploads) \in Nat /\ Cardinality(reads) \in Nat
  BY <1>2, FS_CardinalityType
<1> QED BY <1>1, <1>3 DEF FsInv, FsTypeOK, OneId, OwnStaging

\* A path keeps its owner as long as the owner's upload lives or has been
\* noted as one whose staging file could not be removed.
LEMMA OwnedStays ==
  ASSUME NEW p, Owned(p), entry'[p] = entry[p],
         ok \subseteq ok', moved \subseteq moved', orphans \subseteq orphans',
         \A u \in uploads : Part(u.path) = p =>
           u.id \in orphans' \/ \E v \in uploads' : v.id = u.id /\ v.path = u.path
  PROVE  Owned(p)'
<1> QED BY DEF Owned

\* Steps that end or close transfers and change entries, not bytes.
LEMMA LeavesInv ==
  ASSUME FsIInv, UNCHANGED <<bytes, created>>,
         uploads' \in SUBSET Uploads, reads' \in SUBSET Reads,
         Leaves(uploads, uploads'), OneId(uploads'), Leaves(reads, reads'),
         entry' \in [Paths -> 0 .. created],
         ok' \subseteq Files, moved' \subseteq Files, orphans' \subseteq Files,
         NothingLeftBehind',
         \A u \in uploads', p \in Paths : ~u.stale =>
           entry'[p] \in {0, entry[p]} \/ (p # Part(u.path) /\ entry'[p] # u.id)
  PROVE  FsIInv'
<1> USE DEF FsIInv, FsInv
<1>1. FsTypeOK'
  <2>1. Cardinality(uploads') + Cardinality(reads') <= MaxXfers
    <3>1. /\ Cardinality(uploads') \in Nat /\ Cardinality(reads') \in Nat
          /\ Cardinality(uploads') <= Cardinality(uploads)
          /\ Cardinality(reads') <= Cardinality(reads)
      BY FS_CardinalityType DEF Leaves
    <3> QED BY <3>1, FsTypes, FsAssumption
  <2>2. IsFiniteSet(uploads') /\ IsFiniteSet(reads')
    BY DEF Leaves
  <2> QED BY <2>1, <2>2 DEF FsTypeOK, Uploads, Reads, Chunks
<1>2. FilesWhole'
  BY DEF FilesWhole
<1>3. OwnStaging'
  <2>1. ASSUME NEW u \in uploads'
        PROVE  /\ u.id \in 1 .. created
               /\ ~u.stale => u \in uploads
    <3>1. PICK t \in uploads : u = t \/ u = Closed(t)
      BY DEF Leaves
    <3>2. u.id = t.id /\ (~u.stale => u = t)
      BY <3>1, ClosedFacts, FsTypes
    <3> QED BY <3>2 DEF OwnStaging
  <2>2. ASSUME NEW u \in uploads', ~u.stale
        PROVE  /\ u.node = u.id /\ Len(bytes[u.id]) = u.n
               /\ entry'[Part(u.path)] \in {0, u.id}
               /\ \A p \in Paths : entry'[p] = u.id => p = Part(u.path)
    <3>1. /\ u \in uploads /\ u.id # 0 /\ Part(u.path) \in Paths
      BY <2>1, <2>2, PartFacts DEF Uploads
    <3> QED BY <2>2, <3>1 DEF OwnStaging
  <2> QED BY <2>1, <2>2 DEF OwnStaging, OneId
<1>4. ASSUME NEW r \in reads'
      PROVE  /\ ~r.stale => r.node # 0 /\ r.got = Whole(r.node, Len(r.got))
             /\ \E f \in Files : r.got = Whole(f, Len(r.got))
  <2>1. PICK t \in reads : r = t \/ r = Closed(t)
    BY DEF Leaves
  <2>2. r.got = t.got /\ (~r.stale => r = t)
    BY <2>1, ClosedFacts, FsTypes
  <2> QED BY <2>2 DEF ReadsOpen, ReadsOneFile
<1> QED BY <1>1, <1>2, <1>3, <1>4 DEF ReadsOpen, ReadsOneFile

\* A read begins with a file open and nothing sent.
LEMMA ReadBeginInv ==
  ASSUME FsIInv, NEW i \in ReadIds, NEW p \in Paths, ReadBegin(i, p)
  PROVE  FsIInv'
<1> USE DEF FsIInv, FsInv
<1> DEFINE r == [id |-> i, path |-> p, size |-> Len(bytes[entry[p]]),
                 node |-> entry[p], stale |-> FALSE, got |-> << >>]
<1>0. /\ reads' = reads \cup {r} /\ Room /\ entry[p] # 0
      /\ UNCHANGED <<entry, bytes, uploads, created, ok, moved, orphans>>
  BY DEF ReadBegin
<1>1. entry[p] \in 1 .. created /\ entry[p] \in Files
  <2>1. entry[p] \in 0 .. created
    BY DEF FsTypeOK
  <2> QED BY <1>0, <2>1, FsTypes, FsAssumption DEF Files
<1>2. r \in Reads
  <2>2. Len(bytes[entry[p]]) \in Nat /\ << >> \in Seq(Files \X Nat)
    OBVIOUS
  <2> QED BY <1>1, <2>2, FsTypes DEF Reads, Chunks
<1>3. r.got = Whole(entry[p], Len(r.got)) /\ r.node = entry[p]
  BY NoChunk
<1>4. FsTypeOK'
  <2>1. IsFiniteSet(reads') /\ Cardinality(reads') <= Cardinality(reads) + 1
    <3> HIDE DEF r
    <3> QED BY <1>0, OneMore, FsTypes
  <2>2. Cardinality(uploads) + Cardinality(reads) < MaxXfers
    BY <1>0 DEF Room
  <2>3. Cardinality(uploads') + Cardinality(reads') <= MaxXfers
    BY <1>0, <2>1, <2>2, FsTypes, FsAssumption, FS_CardinalityType
  <2> HIDE DEF r
  <2> QED BY <1>0, <1>2, <2>1, <2>3 DEF FsTypeOK, Reads, Chunks
<1>5. \A s \in reads' : s \in reads \/ s = r
  BY <1>0
<1>6. ReadsOpen' /\ ReadsOneFile'
  BY <1>1, <1>3, <1>5 DEF ReadsOpen, ReadsOneFile
<1> HIDE DEF r
<1>7. NothingLeftBehind' /\ FilesWhole' /\ OwnStaging'
  BY <1>0 DEF NothingLeftBehind, Owned, FilesWhole, OwnStaging
<1> QED BY <1>4, <1>6, <1>7

\* A chunk of a read is the next one of the file it has open.
LEMMA ReadChunkInv ==
  ASSUME FsIInv, NEW r \in reads, ReadChunk(r)
  PROVE  FsIInv'
<1> USE DEF FsIInv, FsInv
<1> DEFINE f == ReadFile(r)
           s == [r EXCEPT !.node = f, !.got = Append(@, bytes[f][Len(r.got) + 1])]
<1>0. /\ reads' = (reads \ {r}) \cup {s} /\ ~r.stale /\ f # 0 /\ Len(r.got) < Len(bytes[f])
      /\ UNCHANGED <<entry, bytes, uploads, created, ok, moved, orphans>>
  BY DEF ReadChunk
<1>1. r \in Reads /\ r.node # 0 /\ f = r.node
  BY <1>0, FsTypes DEF ReadsOpen, ReadFile
<1>2. f \in 1 .. created /\ f \in Files
  <2>1. r.node \in 0 .. created
    BY <1>1 DEF Reads
  <2> QED BY <1>1, <2>1, FsTypes, FsAssumption DEF Files
<1> HIDE DEF f
<1> DEFINE k == Len(r.got)
<1>3. /\ r.got \in Seq(Files \X Nat) /\ k \in Nat /\ r.got = Whole(f, k)
      /\ bytes[f] \in Seq(Files \X Nat) /\ bytes[f] = Whole(f, Len(bytes[f]))
  <2>1. r.got \in Seq(Files \X Nat)
    BY <1>1 DEF Reads, Chunks
  <2>2. r.got = Whole(f, Len(r.got))
    BY <1>0, <1>1 DEF ReadsOpen
  <2>3. bytes[f] \in Seq(Files \X Nat) /\ bytes[f] = Whole(f, Len(bytes[f]))
    BY <1>2 DEF FsTypeOK, FilesWhole
  <2> QED BY <2>1, <2>2, <2>3
<1>4. bytes[f][k + 1] = <<f, k + 1>>
  <2> DEFINE m == Len(bytes[f])
  <2>1. k + 1 \in 1 .. m
    BY <1>0
  <2> QED BY <1>3, <2>1 DEF Whole
<1>5. s.got = Whole(f, k + 1) /\ s.node = f /\ s \in Reads
  <2>1. Append(r.got, bytes[f][k + 1]) = Whole(f, k + 1)
    BY <1>2, <1>3, <1>4, NextChunk
  <2>2. Whole(f, k + 1) \in Chunks
    BY <1>2, FileWhole
  <2>3. s = [r EXCEPT !.node = f, !.got = Whole(f, k + 1)]
    BY <2>1
  <2> HIDE DEF s
  <2> QED BY <1>1, <2>2, <2>3 DEF Reads
<1>6. s.got = Whole(f, Len(s.got))
  BY <1>5
<1> HIDE DEF s
<1>7. FsTypeOK'
  <2>1. IsFiniteSet(reads') /\ Cardinality(reads') <= Cardinality(reads)
    BY <1>0, OneReplaced, FsTypes
  <2>2. Cardinality(uploads') + Cardinality(reads') <= MaxXfers
    BY <1>0, <2>1, FsTypes, FsAssumption, FS_CardinalityType
  <2> QED BY <1>0, <1>5, <2>1, <2>2 DEF FsTypeOK, Reads, Chunks
<1>8. ReadsOpen' /\ ReadsOneFile'
  <2>1. \A q \in reads' : q \in reads \/ q = s
    BY <1>0
  <2>2. f # 0 /\ f \in Files
    BY <1>2
  <2> QED BY <1>5, <1>6, <2>1, <2>2 DEF ReadsOpen, ReadsOneFile
<1>9. NothingLeftBehind' /\ FilesWhole' /\ OwnStaging'
  BY <1>0 DEF NothingLeftBehind, Owned, FilesWhole, OwnStaging
<1> QED BY <1>7, <1>8, <1>9

LEMMA ReadEndInv ==
  ASSUME FsIInv, NEW r \in reads, ReadEnd(r)
  PROVE  FsIInv'
<1>1. /\ reads' = reads \ {r}
      /\ UNCHANGED <<entry, bytes, uploads, created, ok, moved, orphans>>
  BY DEF ReadEnd
<1>2. Leaves(reads, reads') /\ Leaves(uploads, uploads')
  BY <1>1, SomeLeft, FsTypes DEF FsIInv
<1>3. NothingLeftBehind'
  BY <1>1 DEF NothingLeftBehind, Owned, FsIInv, FsInv
<1>5. uploads' \in SUBSET Uploads /\ reads' \in SUBSET Reads /\ OneId(uploads')
  BY <1>1, FsTypes DEF FsIInv
<1>6. /\ entry' \in [Paths -> 0 .. created]
      /\ ok' \subseteq Files /\ moved' \subseteq Files /\ orphans' \subseteq Files
  BY <1>1 DEF FsIInv, FsInv, FsTypeOK
<1> QED BY <1>1, <1>2, <1>3, <1>5, <1>6, LeavesInv

\* fs.write.begin: other uploads to the path go stale with its file's entry.
LEMMA WriteBeginInv ==
  ASSUME FsIInv, NEW p \in Targets, NEW k \in Sizes, NEW o \in BOOLEAN, NEW b \in BOOLEAN,
         WriteBegin(p, k, o, b)
  PROVE  FsIInv'
<1> USE DEF FsIInv, FsInv
<1> DEFINE c == created + 1
           us == CloseUploads(uploads, Part(p))
           w == [id |-> c, path |-> p, size |-> k, overwrite |-> o,
                 bad |-> b, node |-> c, stale |-> FALSE, n |-> 0]
<1>0. /\ Room /\ created < MaxFiles /\ created' = c
      /\ entry' = [entry EXCEPT ![Part(p)] = c]
      /\ uploads' = us \cup {w}
      /\ reads' = CloseReads(reads, Part(p))
      /\ UNCHANGED <<bytes, ok, moved, orphans>>
  BY DEF WriteBegin
<1>1. /\ c \in 1 .. created' /\ c \in Files /\ created' \in Nat /\ created' <= MaxFiles
      /\ 0 .. created \subseteq 0 .. created' /\ 1 .. created \subseteq 1 .. created'
      /\ c \notin 0 .. created /\ created < c
  BY <1>0, FsTypes, FsAssumption DEF Files
<1>2. /\ Leaves(uploads, us) /\ us \in SUBSET Uploads /\ OneId(us)
      /\ \A u \in us : ~u.stale => u \in uploads /\ Part(u.path) # Part(p)
      /\ \A t \in uploads : \E u \in us : u.id = t.id /\ u.path = t.path
  BY CloseUploadsLeaves, FsTypes
<1>3. Leaves(reads, reads') /\ reads' \in SUBSET Reads
  BY <1>0, CloseReadsLeaves, FsTypes
<1>4. \A u \in us : u.id \in 1 .. created
  BY <1>2, ClosedFacts, FsTypes DEF Leaves, OwnStaging
<1>10. /\ w.id = c /\ w.path = p /\ ~w.stale /\ w.node = c /\ w.n = 0
       /\ w \in [id : Files, path : Targets, size : Sizes, overwrite : BOOLEAN,
                 bad : BOOLEAN, node : 0 .. created', stale : BOOLEAN, n : Nat]
  BY <1>1
<1> HIDE DEF us, w
<1>5. FsTypeOK'
  <2>1. IsFiniteSet(uploads') /\ Cardinality(uploads') <= Cardinality(us) + 1
    BY <1>0, <1>2, OneMore DEF Leaves
  <2>2. Cardinality(uploads') + Cardinality(reads') <= MaxXfers
    <3>1. /\ Cardinality(uploads') \in Nat /\ Cardinality(reads') \in Nat
          /\ Cardinality(us) \in Nat
      BY <1>2, <1>3, <2>1, FS_CardinalityType DEF Leaves
    <3>2. /\ Cardinality(uploads) + Cardinality(reads) < MaxXfers
          /\ Cardinality(us) <= Cardinality(uploads)
          /\ Cardinality(reads') <= Cardinality(reads)
      BY <1>0, <1>2, <1>3 DEF Room, Leaves
    <3> QED BY <2>1, <3>1, <3>2, FsTypes, FsAssumption
  <2>3. entry' \in [Paths -> 0 .. created']
    BY <1>0, PartFacts DEF FsTypeOK
  <2>4. uploads' \subseteq [id : Files, path : Targets, size : Sizes, overwrite : BOOLEAN,
                            bad : BOOLEAN, node : 0 .. created', stale : BOOLEAN, n : Nat]
    BY <1>0, <1>1, <1>2, <1>10 DEF Uploads
  <2>5. reads' \subseteq [id : ReadIds, path : Paths, size : Nat, node : 0 .. created',
                          stale : BOOLEAN, got : Seq(Files \X Nat)]
    BY <1>1, <1>3 DEF Reads, Chunks
  <2>6. created' \in 0 .. MaxFiles
    BY <1>1
  <2> QED BY <1>0, <1>3, <2>1, <2>2, <2>3, <2>4, <2>5, <2>6 DEF FsTypeOK, Leaves
<1>6. NothingLeftBehind'
  <2> SUFFICES ASSUME NEW q \in Paths PROVE Owned(q)'
    BY DEF NothingLeftBehind
  <2>1. CASE q = Part(p)
    <3>1. entry'[q] = w.id /\ w \in uploads' /\ Part(w.path) = q
      BY <1>0, <1>10, <2>1 DEF FsTypeOK
    <3> QED BY <3>1 DEF Owned
  <2>2. CASE q # Part(p)
    <3>1. entry'[q] = entry[q] /\ Owned(q)
      BY <1>0, <2>2 DEF NothingLeftBehind
    <3> QED BY <1>0, <1>2, <3>1, OwnedStays
  <2> QED BY <2>1, <2>2
<1>7. FilesWhole'
  <2>1. \A f \in Files : f \in Nat /\ (f > created' => f > created)
    BY <1>0, FsTypes DEF Files
  <2> QED BY <1>0, <2>1 DEF FilesWhole
<1>8. OwnStaging'
  <2>1. ASSUME NEW u \in us, ~u.stale
        PROVE  /\ u \in uploads /\ entry'[Part(u.path)] = entry[Part(u.path)]
               /\ \A q \in Paths : entry'[q] \in {c, entry[q]}
    BY <1>0, <1>2, <2>1
  <2>2. \A u \in us : ~u.stale => /\ u.node = u.id /\ Len(bytes[u.id]) = u.n
                                  /\ entry'[Part(u.path)] \in {0, u.id}
                                  /\ \A q \in Paths : entry'[q] = u.id => q = Part(u.path)
    BY <1>1, <2>1 DEF OwnStaging
  <2>3. /\ Len(bytes[w.id]) = w.n /\ entry'[Part(w.path)] = w.id
        /\ \A q \in Paths : entry'[q] = w.id => q = Part(w.path)
    BY <1>0, <1>10, PartFacts DEF FilesWhole, FsTypeOK
  <2>4. \A u, v \in uploads' : u.id = v.id => u = v
    BY <1>0, <1>1, <1>2, <1>4, <1>10 DEF OneId
  <2>5. \A u \in uploads' : u \in us \/ u = w
    BY <1>0
  <2>6. \A u \in uploads' : u.id \in 1 .. created'
    BY <1>1, <1>4, <1>10, <2>5
  <2>7. \A u \in uploads' : ~u.stale => /\ u.node = u.id /\ Len(bytes'[u.id]) = u.n
                                        /\ entry'[Part(u.path)] \in {0, u.id}
                                        /\ \A q \in Paths : entry'[q] = u.id => q = Part(u.path)
    BY <1>0, <1>10, <2>2, <2>3
  <2> QED BY <2>4, <2>6, <2>7 DEF OwnStaging
<1>9. ReadsOpen' /\ ReadsOneFile'
  <2>1. ASSUME NEW r \in reads'
        PROVE  /\ ~r.stale => r.node # 0 /\ r.got = Whole(r.node, Len(r.got))
               /\ \E f \in Files : r.got = Whole(f, Len(r.got))
    <3>1. PICK t \in reads : r = t \/ r = Closed(t)
      BY <1>3 DEF Leaves
    <3>2. r.got = t.got /\ (~r.stale => r = t)
      BY <3>1, ClosedFacts, FsTypes
    <3> QED BY <3>2 DEF ReadsOpen, ReadsOneFile
  <2> QED BY <2>1 DEF ReadsOpen, ReadsOneFile
<1> QED BY <1>5, <1>6, <1>7, <1>8, <1>9

\* A path may go when every transfer under it is closed.
LEMMA ClosesInv ==
  ASSUME FsIInv, NEW p,
         uploads' = CloseUploads(uploads, p), reads' = CloseReads(reads, p),
         entry' \in {entry, [entry EXCEPT ![p] = 0]},
         UNCHANGED <<bytes, created, ok, moved, orphans>>
  PROVE  FsIInv'
<1> USE DEF FsIInv, FsInv
<1>1. /\ Leaves(uploads, uploads') /\ uploads' \in SUBSET Uploads /\ OneId(uploads')
      /\ \A t \in uploads : \E v \in uploads' : v.id = t.id /\ v.path = t.path
      /\ Leaves(reads, reads') /\ reads' \in SUBSET Reads
  BY CloseUploadsLeaves, CloseReadsLeaves, FsTypes
<1>2. /\ entry' \in [Paths -> 0 .. created]
      /\ \A q \in Paths : entry'[q] \in {0, entry[q]}
  <2>1. 0 \in 0 .. created
    BY FsTypes
  <2> QED BY <2>1 DEF FsTypeOK
<1>3. ASSUME NEW q \in Paths PROVE Owned(q)'
  <2>1. CASE entry'[q] = 0
    BY <2>1 DEF Owned
  <2>2. CASE entry'[q] = entry[q]
    BY <1>1, <2>2, OwnedStays DEF NothingLeftBehind
  <2> QED BY <1>2, <2>1, <2>2
<1>5. ok' \subseteq Files /\ moved' \subseteq Files /\ orphans' \subseteq Files
  BY DEF FsTypeOK
<1> QED BY <1>1, <1>2, <1>3, <1>5, LeavesInv DEF NothingLeftBehind

\* fs.write.begin without a staging file, like a delete of the staging path.
LEMMA WriteBeginFailsInv ==
  ASSUME FsIInv, NEW p \in Targets, NEW o \in BOOLEAN, WriteBeginFails(p, o)
  PROVE  FsIInv'
<1> USE DEF FsIInv, FsInv
<1>0. /\ uploads' = CloseUploads(uploads, Part(p)) /\ reads' = CloseReads(reads, Part(p))
      /\ entry' \in {entry, [entry EXCEPT ![Part(p)] = 0]}
      /\ UNCHANGED <<bytes, created, ok, moved, orphans>>
  BY DEF WriteBeginFails
<1> QED BY <1>0, ClosesInv

\* A chunk: the upload is not stale, so it is its own file that grows.
LEMMA DataInv ==
  ASSUME FsIInv, NEW u \in uploads, Data(u)
  PROVE  FsIInv' /\ bytes' = [bytes EXCEPT ![u.id] = Append(@, <<u.id, u.n + 1>>)]
<1> USE DEF FsIInv, FsInv
<1> DEFINE f == WriteFile(u)
           v == [u EXCEPT !.node = f, !.n = @ + 1]
<1>0. /\ ~u.stale /\ Len(bytes[f]) = u.n
      /\ bytes' = [bytes EXCEPT ![f] = Append(@, <<u.id, u.n + 1>>)]
      /\ uploads' = (uploads \ {u}) \cup {v}
      /\ UNCHANGED <<entry, reads, created, ok, moved, orphans>>
  BY DEF Data
<1>1. /\ u \in Uploads /\ u.id \in 1 .. created /\ u.node = u.id
      /\ u.id \in Files /\ u.n \in Nat /\ u.n + 1 \in Nat
      /\ entry[Part(u.path)] \in {0, u.id} /\ u.id \in 0 .. created
  <2>1. u \in Uploads /\ u.id \in 1 .. created /\ u.node = u.id /\ entry[Part(u.path)] \in {0, u.id}
    BY <1>0, FsTypes DEF OwnStaging
  <2>2. u.id \in Files /\ u.n \in Nat
    BY <2>1 DEF Uploads
  <2> QED BY <2>1, <2>2
<1>2. f = u.id
  BY <1>1 DEF WriteFile
<1>3. /\ v \in Uploads /\ v.id = u.id /\ v.path = u.path /\ v.node = u.id /\ v.n = u.n + 1
      /\ ~v.stale
  <2> HIDE DEF f
  <2>1. v = [u EXCEPT !.node = u.id, !.n = u.n + 1]
    BY <1>2
  <2> HIDE DEF v
  <2> QED BY <1>0, <1>1, <2>1 DEF Uploads
<1> HIDE DEF f, v
<1>4. /\ bytes[f] = Whole(f, u.n) /\ bytes' \in [Files -> Seq(Files \X Nat)]
      /\ bytes'[f] = Whole(f, u.n + 1) /\ Len(bytes'[f]) = u.n + 1
      /\ \A g \in Files \ {f} : bytes'[g] = bytes[g]
  <2>1. bytes[f] = Whole(f, u.n)
    BY <1>0, <1>1, <1>2 DEF FilesWhole
  <2>2. Append(bytes[f], <<u.id, u.n + 1>>) = Whole(f, u.n + 1)
    BY <1>1, <1>2, <2>1, NextChunk
  <2>3. Whole(f, u.n + 1) \in Seq(Files \X Nat) /\ Len(Whole(f, u.n + 1)) = u.n + 1
    BY <1>1, <1>2, FileWhole DEF Chunks
  <2>4. bytes' = [bytes EXCEPT ![f] = Whole(f, u.n + 1)]
    BY <1>0, <2>2
  <2> QED BY <1>2, <2>1, <2>3, <2>4 DEF FsTypeOK
<1>5. FsTypeOK'
  <2>1. IsFiniteSet(uploads') /\ Cardinality(uploads') <= Cardinality(uploads)
    BY <1>0, OneReplaced, FsTypes
  <2>2. Cardinality(uploads') + Cardinality(reads') <= MaxXfers
    BY <1>0, <2>1, FsTypes, FsAssumption, FS_CardinalityType
  <2>3. uploads' \subseteq Uploads
    BY <1>0, <1>3, FsTypes
  <2> QED BY <1>0, <1>4, <2>1, <2>2, <2>3 DEF FsTypeOK, Uploads
<1>6. NothingLeftBehind'
  <2> SUFFICES ASSUME NEW q \in Paths PROVE Owned(q)'
    BY DEF NothingLeftBehind
  <2>1. \A t \in uploads : \E s \in uploads' : s.id = t.id /\ s.path = t.path
    BY <1>0, <1>3
  <2> QED BY <1>0, <2>1, OwnedStays DEF NothingLeftBehind
<1>7. FilesWhole'
  <2>1. \A g \in Files : bytes'[g] = Whole(g, Len(bytes'[g]))
    BY <1>4 DEF FilesWhole
  <2>2. \A g \in Files : g > created => g # f
    BY <1>1, <1>2, FsTypes
  <2> QED BY <1>0, <2>1, <2>2 DEF FilesWhole
<1>8. OwnStaging'
  <2>1. ASSUME NEW t \in uploads \ {u}
        PROVE  t.id \in Files \ {f} /\ t.id \in 1 .. created
    BY <1>2, FsTypes DEF OwnStaging, Uploads
  <2>2. \A t \in uploads' : t \in uploads \ {u} \/ t = v
    BY <1>0
  <2>3. \A s, t \in uploads' : s.id = t.id => s = t
    BY <1>3, <2>2 DEF OwnStaging
  <2>4. \A t \in uploads' : ~t.stale => /\ t.node = t.id /\ Len(bytes'[t.id]) = t.n
                                        /\ entry[Part(t.path)] \in {0, t.id}
                                        /\ \A q \in Paths : entry[q] = t.id => q = Part(t.path)
    BY <1>0, <1>2, <1>3, <1>4 DEF OwnStaging
  <2>5. \A t \in uploads' : t.id \in 1 .. created
    BY <1>1, <1>3, <2>1, <2>2
  <2> QED BY <1>0, <2>3, <2>4, <2>5 DEF OwnStaging
<1>9. ReadsOpen' /\ ReadsOneFile'
  BY <1>0 DEF ReadsOpen, ReadsOneFile
<1>10. bytes' = [bytes EXCEPT ![u.id] = Append(@, <<u.id, u.n + 1>>)]
  BY <1>0, <1>2
<1> QED BY <1>5, <1>6, <1>7, <1>8, <1>9, <1>10

\* The staging path names nothing any more, or what it did and its upload is
\* noted.
LEMMA UnstageFacts ==
  ASSUME FsInv, NEW u \in uploads, NEW dir \in [Paths -> 0 .. created], Unstage(u, dir)
  PROVE  \E h : /\ h = 0 \/ (h = dir[Part(u.path)] /\ u.id \in orphans')
               /\ entry' = [dir EXCEPT ![Part(u.path)] = h]
               /\ entry' \in [Paths -> 0 .. created]
               /\ orphans \subseteq orphans' /\ orphans' \subseteq Files
<1>1. Part(u.path) \in Paths /\ u.id \in Files /\ 0 \in 0 .. created /\ orphans \subseteq Files
  BY FsTypes, PartFacts DEF Uploads, FsInv, FsTypeOK
<1>2. dir = [dir EXCEPT ![Part(u.path)] = dir[Part(u.path)]]
  BY <1>1
<1> QED BY <1>1, <1>2 DEF Unstage

\* An upload that ends takes with it what its staging path names, or is noted.
LEMMA DropInv ==
  ASSUME FsIInv, NEW u \in uploads, Drop(u),
         UNCHANGED <<bytes, reads, created, ok, moved>>
  PROVE  FsIInv'
<1> USE DEF FsIInv, FsInv
<1>0. PICK h : /\ h = 0 \/ (h = entry[Part(u.path)] /\ u.id \in orphans')
               /\ entry' = [entry EXCEPT ![Part(u.path)] = h]
               /\ entry' \in [Paths -> 0 .. created]
               /\ orphans \subseteq orphans' /\ orphans' \subseteq Files
  BY UnstageFacts DEF Drop, FsTypeOK
<1>1. uploads' = uploads \ {u}
  BY DEF Drop
<1>2. Leaves(uploads, uploads') /\ Leaves(reads, reads')
  BY <1>1, SomeLeft, FsTypes
<1>3. uploads' \in SUBSET Uploads /\ reads' \in SUBSET Reads /\ OneId(uploads')
  BY <1>1, FsTypes DEF OneId
<1>4. /\ entry' \in [Paths -> 0 .. created]
      /\ ok' \subseteq Files /\ moved' \subseteq Files /\ orphans' \subseteq Files
      /\ \A q \in Paths : entry'[q] \in {0, entry[q]}
      /\ \A q \in Paths : q # Part(u.path) => entry'[q] = entry[q]
      /\ \A q \in Paths : q = Part(u.path) => entry'[q] = 0 \/ u.id \in orphans'
  BY <1>0 DEF FsTypeOK
<1>5. ASSUME NEW q \in Paths PROVE Owned(q)'
  <2>1. CASE entry'[q] = 0
    BY <2>1 DEF Owned
  <2>2. CASE entry'[q] = entry[q] /\ (q # Part(u.path) \/ u.id \in orphans')
    <3>1. \A t \in uploads : Part(t.path) = q =>
            t.id \in orphans' \/ \E v \in uploads' : v.id = t.id /\ v.path = t.path
      BY <1>1, <2>2
    <3> QED BY <1>0, <2>2, <3>1, OwnedStays DEF NothingLeftBehind
  <2> QED BY <1>4, <2>1, <2>2
<1> QED BY <1>2, <1>3, <1>4, <1>5, LeavesInv DEF NothingLeftBehind

\* What Staged(u) says is known of the file: it is the upload's own, and whole.
LEMMA StagedOwn ==
  ASSUME FsInv, NEW u \in uploads, Staged(u)
  PROVE  /\ entry[Part(u.path)] = u.id /\ u.id \in Files
         /\ bytes[u.id] = Whole(u.id, u.size)
<1>1. /\ entry[Part(u.path)] = u.id /\ Len(bytes[u.id]) = u.size
  BY DEF Staged, FsInv, OwnStaging
<1>2. u.id \in Files
  BY FsTypes DEF Uploads
<1> QED BY <1>1, <1>2 DEF FsInv, FilesWhole

\* The ways a commit ends: the staging path names nothing any more, or what it
\* did and the upload is noted; the target what it did, nothing, or the file of
\* an upload that is now in ok.
LEMMA CommitInv ==
  ASSUME FsIInv, NEW u \in uploads, Staged(u),
         uploads' = CloseUploads(uploads, u.path) \ {u}, CommitCloses(u),
         NEW g, g \in {0, entry[u.path]} \/ (g = entry[Part(u.path)] /\ u.id \in ok'),
         NEW h, h = 0 \/ (h = entry[Part(u.path)] /\ u.id \in orphans'),
         entry' = [entry EXCEPT ![u.path] = g, ![Part(u.path)] = h],
         ok \subseteq ok', ok' \subseteq Files,
         orphans \subseteq orphans', orphans' \subseteq Files
  PROVE  FsIInv'
<1> USE DEF FsIInv, FsInv
<1> DEFINE us == CloseUploads(uploads, u.path)
<1>0. /\ reads' = CloseReads(reads, u.path) /\ UNCHANGED <<bytes, created, moved>>
      /\ u \in Uploads /\ u.path \in Targets
  BY FsTypes DEF CommitCloses, Uploads
<1>1. /\ Leaves(uploads, us) /\ us \in SUBSET Uploads /\ OneId(us)
      /\ \A v \in us : ~v.stale => v \in uploads /\ Part(v.path) # u.path
      /\ \A t \in uploads : \E v \in us : v.id = t.id /\ v.path = t.path
      /\ \A t \in uploads : Part(t.path) # u.path => t \in us
  BY CloseUploadsLeaves, FsTypes
<1>2. Leaves(reads, reads') /\ reads' \in SUBSET Reads
  BY <1>0, CloseReadsLeaves, FsTypes
<1> HIDE DEF us
<1>4. /\ Leaves(uploads, uploads') /\ uploads' \in SUBSET Uploads /\ OneId(uploads')
  <2>1. uploads' = us \ {u}
    BY DEF us
  <2>2. Leaves(us, uploads')
    BY <1>1, <2>1, SomeLeft DEF Leaves
  <2>3. Leaves(uploads, uploads')
    BY <1>1, <2>2, LeavesTrans, FsTypes
  <2> QED BY <1>1, <2>1, <2>3 DEF OneId
<1>5. /\ entry' \in [Paths -> 0 .. created]
      /\ \A q \in Paths : q \notin {u.path, Part(u.path)} => entry'[q] = entry[q]
      /\ entry'[Part(u.path)] = h /\ entry'[u.path] = g
  <2>1. /\ entry \in [Paths -> 0 .. created] /\ 0 \in 0 .. created
        /\ u.path \in Paths /\ Part(u.path) \in Paths /\ u.path # Part(u.path)
    BY <1>0, PartFacts, FsTypes DEF FsTypeOK
  <2>2. g \in 0 .. created /\ h \in 0 .. created
    BY <2>1
  <2> QED BY <2>1, <2>2
<1>6. ASSUME NEW t \in uploads, Part(t.path) # Part(u.path)
      PROVE  \E v \in uploads' : v.id = t.id /\ v.path = t.path
  <2>1. PICK v \in us : v.id = t.id /\ v.path = t.path
    BY <1>1
  <2>2. v # u
    BY <1>6, <2>1
  <2> QED BY <2>1, <2>2 DEF us
<1>7. ASSUME NEW q \in Paths PROVE Owned(q)'
  <2>1. CASE q = Part(u.path)
    <3>1. h = 0 \/ h \in orphans'
      BY StagedOwn
    <3> QED BY <1>5, <2>1, <3>1 DEF Owned
  <2>2. CASE q # Part(u.path) /\ entry'[q] = entry[q]
    <3>1. \A t \in uploads : Part(t.path) = q =>
            \E v \in uploads' : v.id = t.id /\ v.path = t.path
      BY <1>6, <2>2
    <3> QED BY <1>0, <2>2, <3>1, OwnedStays DEF NothingLeftBehind
  <2>3. CASE q = u.path /\ g # entry[u.path]
    <3>1. entry'[q] = 0 \/ entry'[q] \in ok'
      BY <1>5, <2>3, StagedOwn
    <3> QED BY <3>1 DEF Owned
  <2> QED BY <1>5, <2>1, <2>2, <2>3
<1>8. ASSUME NEW v \in uploads', ~v.stale, NEW q \in Paths
      PROVE  entry'[q] \in {0, entry[q]} \/ (q # Part(v.path) /\ entry'[q] # v.id)
  <2>1. v \in us /\ Part(v.path) # u.path /\ v # u
    BY <1>1, <1>8 DEF us
  <2>2. v.id # u.id
    BY <1>1, <2>1 DEF OneId
  <2>3. CASE q = u.path
    BY <1>5, <2>1, <2>2, StagedOwn
  <2>4. CASE q # u.path
    BY <1>5, <2>4
  <2> QED BY <2>3, <2>4
<1>9. moved' \subseteq Files
  BY <1>0 DEF FsTypeOK
<1> QED BY <1>0, <1>2, <1>4, <1>5, <1>7, <1>8, <1>9, LeavesInv DEF NothingLeftBehind

LEMMA CommitsInv ==
  ASSUME FsIInv, NEW u \in uploads, CommitExists(u) \/ CommitFails(u) \/ CommitDone(u)
  PROVE  FsIInv'
<1> USE DEF FsIInv, FsInv
<1>0. /\ u.path \in Paths /\ Part(u.path) \in Paths /\ u.path # Part(u.path)
      /\ ok \subseteq Files /\ u.id \in Files
  BY PartFacts DEF FsTypeOK
<1>1. CASE CommitExists(u)
  <2>1. PICK h : /\ h = 0 \/ (h = entry[Part(u.path)] /\ u.id \in orphans')
                 /\ entry' = [entry EXCEPT ![Part(u.path)] = h]
                 /\ orphans \subseteq orphans' /\ orphans' \subseteq Files
    BY <1>1, UnstageFacts DEF CommitExists, FsTypeOK
  <2>2. entry' = [entry EXCEPT ![u.path] = entry[u.path], ![Part(u.path)] = h]
    BY <1>0, <2>1 DEF FsTypeOK
  <2> DEFINE g == entry[u.path]
  <2>3. /\ g \in {0, entry[u.path]} /\ ok' = ok /\ Staged(u) /\ CommitCloses(u)
        /\ uploads' = CloseUploads(uploads, u.path) \ {u}
        /\ entry' = [entry EXCEPT ![u.path] = g, ![Part(u.path)] = h]
    BY <1>1, <2>2 DEF CommitExists
  <2>4. ok \subseteq ok' /\ ok' \subseteq Files
    BY <1>0, <2>3
  <2> HIDE DEF g
  <2> QED BY <2>1, <2>3, <2>4, CommitInv
<1>2. CASE CommitFails(u)
  <2>1. PICK dir \in {entry, [entry EXCEPT ![u.path] = 0]} : Unstage(u, dir)
    BY <1>2 DEF CommitFails
  <2>2. PICK g \in {0, entry[u.path]} : dir = [entry EXCEPT ![u.path] = g]
    BY <1>0, <2>1 DEF FsTypeOK
  <2>3. dir \in [Paths -> 0 .. created] /\ dir[Part(u.path)] = entry[Part(u.path)]
    BY <1>0, <2>2, FsTypes DEF FsTypeOK
  <2>4. PICK h : /\ h = 0 \/ (h = entry[Part(u.path)] /\ u.id \in orphans')
                 /\ entry' = [dir EXCEPT ![Part(u.path)] = h]
                 /\ orphans \subseteq orphans' /\ orphans' \subseteq Files
    BY <2>1, <2>3, UnstageFacts
  <2>5. entry' = [entry EXCEPT ![u.path] = g, ![Part(u.path)] = h]
    BY <2>2, <2>4
  <2>6. /\ Staged(u) /\ CommitCloses(u) /\ ok \subseteq ok' /\ ok' \subseteq Files
        /\ uploads' = CloseUploads(uploads, u.path) \ {u}
    BY <1>0, <1>2 DEF CommitFails
  <2>7. /\ g \in {0, entry[u.path]}
        /\ h = 0 \/ (h = entry[Part(u.path)] /\ u.id \in orphans')
        /\ orphans \subseteq orphans' /\ orphans' \subseteq Files
    BY <2>2, <2>4
  <2> QED BY <2>5, <2>6, <2>7, CommitInv
<1>3. CASE CommitDone(u)
  <2>1. ok' = ok \cup {u.id}
    BY <1>3 DEF CommitDone
  <2>2. ok' \subseteq Files /\ ok \subseteq ok' /\ u.id \in ok'
    BY <1>0, <2>1
  <2>3. orphans' = orphans /\ orphans \subseteq Files
    BY <1>3 DEF CommitDone, FsTypeOK
  <2> QED BY <1>3, <2>2, <2>3, CommitInv DEF CommitDone
<1> QED BY <1>1, <1>2, <1>3

\* fs.delete closes every transfer under the path before it may go.
LEMMA DeleteInv ==
  ASSUME FsIInv, NEW p \in Paths, Delete(p)
  PROVE  FsIInv'
<1> QED BY ClosesInv DEF Delete

\* fs.rename closes every transfer under either path.
LEMMA RenameInv ==
  ASSUME FsIInv, NEW p \in Paths, NEW q \in Paths, Rename(p, q)
  PROVE  FsIInv'
<1> USE DEF FsIInv, FsInv
<1> DEFINE us == CloseUploads(uploads, p)
           rs == CloseReads(reads, p)
<1>0. /\ uploads' = CloseUploads(us, q) /\ reads' = CloseReads(rs, q)
      /\ entry[p] # 0 /\ p # q
      /\ \/ /\ entry' = [entry EXCEPT ![q] = entry[p], ![p] = 0]
            /\ moved' = moved \cup {entry[p]}
         \/ UNCHANGED <<entry, moved>>
      /\ UNCHANGED <<bytes, created, ok, orphans>>
  BY DEF Rename
<1>1. /\ Leaves(uploads, us) /\ us \in SUBSET Uploads /\ OneId(us) /\ IsFiniteSet(us)
      /\ \A v \in us : ~v.stale => v \in uploads /\ Part(v.path) # p
      /\ \A t \in uploads : \E v \in us : v.id = t.id /\ v.path = t.path
      /\ Leaves(reads, rs) /\ rs \in SUBSET Reads /\ IsFiniteSet(rs)
  BY CloseUploadsLeaves, CloseReadsLeaves, FsTypes DEF Leaves
<1> HIDE DEF us, rs
<1>2. /\ Leaves(us, uploads') /\ uploads' \in SUBSET Uploads /\ OneId(uploads')
      /\ \A v \in uploads' : ~v.stale => v \in us /\ Part(v.path) # q
      /\ \A t \in us : \E v \in uploads' : v.id = t.id /\ v.path = t.path
      /\ Leaves(rs, reads') /\ reads' \in SUBSET Reads
  BY <1>0, <1>1, CloseUploadsLeaves, CloseReadsLeaves, FsTypes
<1>3. Leaves(uploads, uploads') /\ Leaves(reads, reads')
  BY <1>1, <1>2, LeavesTrans, FsTypes
<1>4. /\ entry' \in [Paths -> 0 .. created]
      /\ \A s \in Paths \ {p, q} : entry'[s] = entry[s]
      /\ \A s \in Paths : \/ entry'[s] \in {0, entry[s]}
                          \/ s = q /\ entry'[s] \in moved'
      /\ moved \subseteq moved' /\ moved' \subseteq Files
  <2>1. 0 \in 0 .. created /\ entry[p] \in 0 .. created /\ entry[p] \in Files
    <3>1. entry[p] \in 0 .. created
      BY DEF FsTypeOK
    <3> QED BY <1>0, <3>1, FsTypes, FsAssumption DEF Files
  <2> QED BY <1>0, <2>1 DEF FsTypeOK
<1>5. ASSUME NEW s \in Paths PROVE Owned(s)'
  <2>1. CASE entry'[s] = 0 \/ entry'[s] \in moved'
    BY <2>1 DEF Owned
  <2>2. CASE entry'[s] = entry[s]
    <3>1. \A t \in uploads : \E v \in uploads' : v.id = t.id /\ v.path = t.path
      BY <1>1, <1>2
    <3> QED BY <1>0, <2>2, <3>1, OwnedStays DEF NothingLeftBehind
  <2> QED BY <1>4, <2>1, <2>2
<1>6. ASSUME NEW v \in uploads', ~v.stale, NEW s \in Paths
      PROVE  entry'[s] \in {0, entry[s]} \/ (s # Part(v.path) /\ entry'[s] # v.id)
  <2>1. Part(v.path) \notin {p, q}
    BY <1>1, <1>2, <1>6
  <2>2. v \in uploads /\ entry[p] # v.id
    BY <1>1, <1>2, <1>6 DEF OwnStaging
  <2>3. s = q => entry'[s] \in {0, entry[s], entry[p]}
    BY <1>0 DEF FsTypeOK
  <2> QED BY <1>4, <2>1, <2>2, <2>3
<1>7. ok' \subseteq Files /\ orphans' \subseteq Files
  BY <1>0 DEF FsTypeOK
<1> QED BY <1>0, <1>2, <1>3, <1>4, <1>5, <1>6, <1>7, LeavesInv DEF NothingLeftBehind

\* Every transfer ends.
LEMMA EndsInv ==
  ASSUME FsIInv, uploads' = {}, reads' = {}, UNCHANGED <<bytes, created, ok, moved>>,
         orphans \subseteq orphans', orphans' \subseteq Files,
         entry' \in [Paths -> 0 .. created],
         \A p \in Paths :
           \/ entry'[p] = 0
           \/ /\ entry'[p] = entry[p]
              /\ \A u \in uploads : Part(u.path) = p /\ u.id = entry[p] => u.id \in orphans'
  PROVE  FsIInv'
<1> USE DEF FsIInv, FsInv
<1>1. Leaves(uploads, uploads') /\ Leaves(reads, reads')
  BY SomeLeft, FsTypes
<1>2. ASSUME NEW p \in Paths PROVE Owned(p)'
  <2>1. CASE entry'[p] = 0
    BY <2>1 DEF Owned
  <2>2. CASE entry'[p] # 0
    <3>1. Owned(p)
      BY DEF NothingLeftBehind
    <3> QED BY <3>1 DEF Owned
  <2> QED BY <2>1, <2>2
<1>3. OneId(uploads') /\ uploads' \in SUBSET Uploads /\ reads' \in SUBSET Reads
  BY DEF OneId
<1>4. ok' \subseteq Files /\ moved' \subseteq Files
  BY DEF FsTypeOK
<1> QED BY <1>1, <1>2, <1>3, <1>4, LeavesInv DEF NothingLeftBehind

LEMMA FsResetInv ==
  ASSUME FsIInv, FsReset
  PROVE  FsIInv'
<1> USE DEF FsIInv, FsInv
<1> DEFINE staging == {Part(u.path) : u \in uploads}
<1>0. uploads' = {} /\ reads' = {} /\ UNCHANGED <<bytes, created, ok, moved>>
  BY DEF FsReset
<1>1. PICK kept \in SUBSET staging :
        /\ entry' = [p \in Paths |-> IF p \in staging \ kept THEN 0 ELSE entry[p]]
        /\ orphans' = orphans \cup {u.id : u \in {v \in uploads : Part(v.path) \in kept}}
  BY DEF FsReset
<1>2. entry' \in [Paths -> 0 .. created]
  BY <1>1 DEF FsTypeOK
<1>3. orphans \subseteq orphans' /\ orphans' \subseteq Files
  BY <1>1, FsTypes DEF FsTypeOK, Uploads
<1>4. ASSUME NEW p \in Paths, entry'[p] # 0, NEW u \in uploads, Part(u.path) = p
      PROVE  u.id \in orphans'
  BY <1>1, <1>4
<1>5. \A p \in Paths : entry'[p] \in {0, entry[p]}
  BY <1>1
<1> QED BY <1>0, <1>2, <1>3, <1>4, <1>5, EndsInv

LEMMA PowerLossInv ==
  ASSUME FsIInv, PowerLoss
  PROVE  FsIInv'
<1> USE DEF FsIInv, FsInv
<1>0. /\ uploads' = {} /\ reads' = {} /\ UNCHANGED <<bytes, created, ok, moved>>
      /\ orphans' = orphans \cup Staging
      /\ \/ UNCHANGED entry
         \/ \E u \in uploads : entry' = [entry EXCEPT ![u.path] = 0]
  BY DEF PowerLoss
<1>1. /\ \A u \in uploads : u.path \in Paths /\ Part(u.path) \in Paths
      /\ 0 \in 0 .. created /\ \A i \in 0 .. created : i # 0 => i \in Files
  BY FsTypes, PartFacts, FsAssumption DEF Uploads, Files
<1>2. /\ entry' \in [Paths -> 0 .. created]
      /\ \A p \in Paths : entry'[p] \in {0, entry[p]}
  BY <1>0, <1>1 DEF FsTypeOK
<1>3. \A u \in uploads : entry[Part(u.path)] # 0 => entry[Part(u.path)] \in orphans'
  BY <1>0 DEF Staging
<1>4. orphans' \subseteq Files
  BY <1>0, <1>1 DEF Staging, FsTypeOK
<1>5. ASSUME NEW p \in Paths, entry'[p] # 0, NEW u \in uploads, Part(u.path) = p, u.id = entry[p]
      PROVE  u.id \in orphans'
  BY <1>2, <1>3, <1>5
<1> QED BY <1>0, <1>2, <1>4, <1>5, EndsInv

LEMMA FsInitInv == FsInit => FsIInv
<1> SUFFICES ASSUME FsInit PROVE FsIInv
  OBVIOUS
<1> DEFINE c == Cardinality(Existing)
<1>1. c \in Nat /\ c <= MaxFiles
  BY FsAssumption, FS_CardinalityType
<1>2. PICK at \in [Existing -> 1 .. c], k \in Sizes :
        /\ entry = [p \in Paths |-> IF p \in Existing THEN at[p] ELSE 0]
        /\ bytes = [f \in Files |-> IF f <= c THEN Whole(f, k) ELSE << >>]
        /\ created = c
        /\ uploads = {} /\ reads = {} /\ ok = {} /\ moved = {} /\ orphans = {}
  BY DEF FsInit
<1>3. k \in Nat
  BY FsAssumption
<1> HIDE DEF c
<1>4. entry \in [Paths -> 0 .. c]
  BY <1>1, <1>2
<1>5. bytes \in [Files -> Seq(Files \X Nat)] /\ FilesWhole
  <2>1. ASSUME NEW f \in Files
        PROVE  /\ bytes[f] \in Seq(Files \X Nat) /\ bytes[f] = Whole(f, Len(bytes[f]))
               /\ f > created => bytes[f] = << >>
    <3>1. f \in Nat
      BY DEF Files
    <3>2. CASE f <= c
      BY <1>1, <1>2, <1>3, <3>1, FileWhole DEF Chunks
    <3>3. CASE ~(f <= c)
      BY <1>2, <3>3, NoChunk
    <3> QED BY <3>2, <3>3
  <2> QED BY <1>2, <2>1 DEF FilesWhole
<1>6. FsTypeOK
  <2>1. Cardinality(uploads) + Cardinality(reads) <= MaxXfers /\ IsFiniteSet(uploads)
    BY <1>2, FS_EmptySet, FsAssumption
  <2> QED BY <1>1, <1>2, <1>5, <2>1 DEF FsTypeOK
<1>7. NothingLeftBehind
  BY <1>4 DEF NothingLeftBehind, Owned, c
<1> QED BY <1>2, <1>5, <1>6, <1>7 DEF FsIInv, FsInv, OwnStaging, ReadsOpen,
           ReadsOneFile

LEMMA FsNextInv == FsIInv /\ [FsNext]_fsVars => FsIInv'
<1> SUFFICES ASSUME FsIInv, [FsNext]_fsVars PROVE FsIInv'
  OBVIOUS
<1>1. CASE \E i \in ReadIds, p \in Paths : ReadBegin(i, p)
  BY <1>1, ReadBeginInv
<1>2. CASE \E r \in reads : ReadChunk(r) \/ ReadEnd(r)
  BY <1>2, ReadChunkInv, ReadEndInv
<1>3. CASE \E p \in Targets, k \in Sizes, o, b \in BOOLEAN : WriteBegin(p, k, o, b)
  BY <1>3, WriteBeginInv
<1>11. CASE \E p \in Targets, o \in BOOLEAN : WriteBeginFails(p, o)
  BY <1>11, WriteBeginFailsInv
<1>4. CASE \E u \in uploads : Data(u)
  BY <1>4, DataInv
<1>5. CASE \E u \in uploads : WriteEnd(u) \/ CommitRefused(u)
  BY <1>5, DropInv DEF WriteEnd, CommitRefused
<1>6. CASE \E u \in uploads : CommitExists(u) \/ CommitFails(u) \/ CommitDone(u)
  BY <1>6, CommitsInv
<1>7. CASE \E p \in Paths : Delete(p)
  BY <1>7, DeleteInv
<1>8. CASE \E p, q \in Paths : Rename(p, q)
  BY <1>8, RenameInv
<1>9. CASE FsReset \/ PowerLoss
  BY <1>9, FsResetInv, PowerLossInv
<1>10. CASE UNCHANGED fsVars
  BY <1>10 DEF fsVars, FsIInv, FsInv, FsTypeOK, NothingLeftBehind, Owned,
     FilesWhole, OwnStaging, ReadsOpen, ReadsOneFile
<1> QED BY <1>1, <1>2, <1>3, <1>4, <1>5, <1>6, <1>7, <1>8, <1>9, <1>10, <1>11 DEF FsNext

\* The types, MAX_XFERS, no file without an owner, and what a transfer that is
\* not stale may rely on, whatever uploads, reads and requests meet (handlers_fs.cpp).
THEOREM FsInvariant == FsSpec => []FsInv
<1>1. FsIInv => FsInv
  BY DEF FsIInv
<1> QED BY <1>1, FsInitInv, FsNextInv, PTL DEF FsSpec

\* What a read sends is a prefix of one file, although its path may be deleted,
\* renamed or replaced meanwhile (close_files_under()).
THEOREM ReadsSendOneFile == FsSpec => []ReadsOneFile
<1>1. FsIInv => ReadsOneFile
  BY DEF FsIInv
<1> QED BY <1>1, FsInitInv, FsNextInv, PTL DEF FsSpec

\* Only a commit that is answered ok adds to ok.
LEMMA CommitStep ==
  ASSUME FsIInv, [FsNext]_fsVars, NEW u \in uploads, u.id \in ok' \ ok
  PROVE  entry'[u.path] # 0 /\ bytes[entry'[u.path]] = Whole(u.id, u.size)
<1> USE DEF FsIInv, FsInv
<1>1. PICK w \in uploads : CommitDone(w)
  BY DEF FsNext, fsVars, ReadBegin, ReadChunk, ReadEnd, WriteBegin, WriteBeginFails, Data,
     WriteEnd, CommitRefused, CommitExists, CommitFails, Delete, Rename,
     FsReset, PowerLoss
<1>2. w = u
  BY <1>1, FsTypes DEF CommitDone, OneId
<1>3. Staged(u) /\ entry' = [entry EXCEPT ![u.path] = entry[Part(u.path)], ![Part(u.path)] = 0]
  BY <1>1, <1>2 DEF CommitDone
<1>4. u.path \in Paths /\ Part(u.path) \in Paths /\ u.path # Part(u.path)
  BY FsTypes, PartFacts DEF Uploads
<1>5. entry'[u.path] = u.id
  BY <1>3, <1>4, StagedOwn DEF FsTypeOK
<1>6. u.id # 0
  BY DEF OwnStaging
<1> QED BY <1>3, <1>5, <1>6, StagedOwn

\* fs.write.commit answered ok puts exactly its own upload's bytes under the
\* target, although another upload may take over the staging path.
THEOREM CommitsPublishTheirOwn == FsSpec => CommitsItsOwn
<1>1. FsIInv /\ [FsNext]_fsVars =>
        [\A u \in uploads :
           u.id \in ok' \ ok =>
             entry'[u.path] # 0 /\ bytes[entry'[u.path]] = Whole(u.id, u.size)]_fsVars
  BY CommitStep
<1> QED BY <1>1, FsInitInv, FsNextInv, PTL DEF FsSpec, CommitsItsOwn

\* A name without ".part" comes to stand for something else only in these steps.
LEMMA EntryStep ==
  ASSUME FsIInv, [FsNext]_fsVars, NEW m \in Names, entry[<<m, 0>>] # 0,
         entry'[<<m, 0>>] # entry[<<m, 0>>]
  PROVE  Replaced(<<m, 0>>)
<1> USE DEF FsIInv, FsInv
<1> DEFINE p == <<m, 0>>
<1>1. /\ p \in Paths
      /\ \A t \in Targets : Part(t) # p /\ Part(t) \in Paths /\ t \in Paths
      /\ \A u \in uploads : u.path \in Targets
  BY FsTypes, PartFacts, FsAssumption DEF Paths, Uploads
<1> HIDE DEF p
<1>11. entry[p] # 0 /\ entry'[p] # entry[p]
  BY DEF p
<1>2. ASSUME NEW u \in uploads, WriteEnd(u) \/ CommitRefused(u)
      PROVE  entry'[p] = entry[p]
  BY <1>1, <1>2 DEF WriteEnd, CommitRefused, Drop, Unstage, FsTypeOK
<1>3. ASSUME NEW q \in Targets, NEW k \in Sizes, NEW o \in BOOLEAN, NEW b \in BOOLEAN,
             WriteBegin(q, k, o, b)
      PROVE  entry'[p] = entry[p]
  BY <1>1, <1>3 DEF WriteBegin
<1>12. ASSUME NEW q \in Targets, NEW o \in BOOLEAN, WriteBeginFails(q, o)
      PROVE  entry'[p] = entry[p]
  BY <1>1, <1>12 DEF WriteBeginFails, FsTypeOK
<1>13. ASSUME NEW u \in uploads, CommitExists(u)
       PROVE  entry'[p] = entry[p]
  BY <1>1, <1>13 DEF CommitExists, Unstage, FsTypeOK
<1>4. ASSUME NEW u \in uploads, CommitFails(u) \/ CommitDone(u)
      PROVE  Replaced(p)
  <2>1. u.path = p
    BY <1>1, <1>4, <1>11 DEF CommitFails, CommitDone, Unstage, FsTypeOK
  <2>2. Staged(u) /\ u.overwrite
    BY <1>11, <1>4, <2>1 DEF CommitFails, CommitDone
  <2> QED BY <1>4, <2>1, <2>2 DEF Replaced
<1>5. ASSUME NEW q \in Paths, Delete(q)
      PROVE  Replaced(p)
  <2>1. q = p /\ entry'[p] = 0
    BY <1>1, <1>5, <1>11 DEF Delete, FsTypeOK
  <2> QED BY <1>5, <2>1 DEF Replaced
<1>6. ASSUME NEW q \in Paths, NEW r \in Paths, Rename(q, r)
      PROVE  Replaced(p)
  <2>1. q = p /\ entry'[p] = 0
    BY <1>1, <1>6, <1>11 DEF Rename, FsTypeOK
  <2> QED BY <1>6, <2>1 DEF Replaced
<1>7. ASSUME FsReset PROVE entry'[p] = entry[p]
  BY <1>1, <1>7 DEF FsReset
<1>8. ASSUME PowerLoss PROVE Replaced(p)
  <2>1. PICK u \in uploads : Staged(u) /\ u.overwrite /\ entry' = [entry EXCEPT ![u.path] = 0]
    BY <1>8 DEF PowerLoss
  <2>2. u.path = p
    BY <1>11, <2>1
  <2> QED BY <1>8, <2>1, <2>2 DEF Replaced
<1>10. CASE FsNext
  BY <1>2, <1>3, <1>4, <1>5, <1>6, <1>7, <1>8, <1>10, <1>12, <1>13 DEF FsNext, ReadBegin,
     ReadChunk, ReadEnd, Data, p
<1> QED BY <1>10 DEF fsVars

\* An upload writes to the file under its staging path, or under none.
LEMMA BytesStep ==
  ASSUME FsIInv, [FsNext]_fsVars, NEW m \in Names, entry[<<m, 0>>] # 0
  PROVE  bytes'[entry[<<m, 0>>]] = bytes[entry[<<m, 0>>]]
<1> USE DEF FsIInv, FsInv
<1>1. ASSUME NEW u \in uploads, Data(u)
      PROVE  bytes'[entry[<<m, 0>>]] = bytes[entry[<<m, 0>>]]
  <2>1. entry[<<m, 0>>] # u.id
    <3>1. <<m, 0>> \in Paths /\ Part(u.path) # <<m, 0>>
      BY FsTypes, PartFacts, FsAssumption DEF Paths, Uploads
    <3> QED BY <1>1, <3>1 DEF Data, OwnStaging
  <2>2. bytes' = [bytes EXCEPT ![u.id] = Append(@, <<u.id, u.n + 1>>)]
    BY <1>1, DataInv
  <2> QED BY <2>1, <2>2
<1> QED BY <1>1 DEF FsNext, fsVars, ReadBegin, ReadChunk, ReadEnd, WriteBegin,
           WriteBeginFails, WriteEnd, CommitRefused, CommitExists, CommitFails, CommitDone,
           CommitCloses, Delete, Rename, FsReset, PowerLoss

\* A file under a name without ".part" changes only by a commit, a delete, a
\* rename or a power loss in a commit, and its bytes never.
THEOREM FilesStay == FsSpec => KeepsFiles
<1> DEFINE Step ==
      \A n \in Names :
        LET p == <<n, 0>> IN
        entry[p] # 0 =>
          /\ entry'[p] # entry[p] => Replaced(p)
          /\ bytes'[entry[p]] = bytes[entry[p]]
<1>1. FsIInv /\ [FsNext]_fsVars => [Step]_fsVars
  <2> SUFFICES ASSUME FsIInv, [FsNext]_fsVars PROVE Step
    OBVIOUS
  <2> QED BY EntryStep, BytesStep
<1> HIDE DEF Step
<1>2. FsSpec => [][Step]_fsVars
  BY <1>1, FsInitInv, FsNextInv, PTL DEF FsSpec
<1> QED BY <1>2 DEF KeepsFiles, Step
==============================================================================
