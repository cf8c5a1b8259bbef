--------------------------- MODULE LinkTransportProofs ---------------------------
(***************************************************************************)
(* What the BLE transport promises, for any number of connections, app     *)
(* sessions and tasks and any length of the queues.                        *)
(*                                                                         *)
(* BleTransport: companion, epoch and service agree at every store of the  *)
(* link task, so the tx task lets at most the one packet in its hand into  *)
(* another session; and the event queue announces each app session before  *)
(* its packets, so the service takes none for another's.                   *)
(*                                                                         *)
(* LinkWake: a Wake in the queue, a waker about to queue one and the link  *)
(* task consuming one exclude each other, and g_wake_queued says that one  *)
(* of them is there; so a skipped wake leaves either something in the      *)
(* queue, or a waker that will put something there, or the overlap the     *)
(* specification records.                                                  *)
(***************************************************************************)
EXTENDS BleTransport, LinkWake, SequenceTheorems, TLAPS

USE DEF host, linkTask, txTask

-----------------------------------------------------------------------------
(* The stores left of an event *)

\* Tuples, for the provers.
LEMMA Tuple1 ==
  ASSUME NEW a
  PROVE  /\ <<a>> # << >> /\ Head(<<a>>) = a /\ Tail(<<a>>) = << >>
         /\ Len(<<a>>) = 1 /\ <<a>>[1] = a
OBVIOUS

LEMMA Tuple2 ==
  ASSUME NEW a, NEW b
  PROVE  /\ <<a, b>> # << >> /\ Head(<<a, b>>) = a /\ Tail(<<a, b>>) = <<b>>
         /\ Len(<<a, b>>) = 2 /\ <<a, b>>[2] = b
OBVIOUS

LEMMA Tuple3 ==
  ASSUME NEW a, NEW b, NEW c
  PROVE  /\ <<a, b, c>> # << >> /\ Head(<<a, b, c>>) = a /\ Tail(<<a, b, c>>) = <<b, c>>
         /\ Len(<<a, b, c>>) = 3 /\ <<a, b, c>>[3] = c
OBVIOUS

LEMMA Tuple4 ==
  ASSUME NEW a, NEW b, NEW c, NEW d
  PROVE  /\ <<a, b, c, d>> # << >> /\ Head(<<a, b, c, d>>) = a
         /\ Tail(<<a, b, c, d>>) = <<b, c, d>>
         /\ Len(<<a, b, c, d>>) = 4 /\ <<a, b, c, d>>[4] = d
OBVIOUS

LEMMA Tuple5 ==
  ASSUME NEW a, NEW b, NEW c, NEW d, NEW e
  PROVE  /\ <<a, b, c, d, e>> # << >> /\ Head(<<a, b, c, d, e>>) = a
         /\ Tail(<<a, b, c, d, e>>) = <<b, c, d, e>>
         /\ Len(<<a, b, c, d, e>>) = 5 /\ <<a, b, c, d, e>>[5] = e
OBVIOUS

\* The two lists of a session that is replaced, one after the other.
LEMMA Concat ==
  ASSUME NEW a, NEW b, NEW c, NEW d, NEW e
  PROVE  <<a, b>> \o <<c, d, e>> = <<a, b, c, d, e>>
<1> DEFINE S == {a, b, c, d, e}
           s == <<a, b>>
           t == <<c, d, e>>
           r == <<a, b, c, d, e>>
<1>1. /\ s \in Seq(S) /\ Len(s) = 2 /\ s[1] = a /\ s[2] = b
      /\ t \in Seq(S) /\ Len(t) = 3 /\ t[1] = c /\ t[2] = d /\ t[3] = e
      /\ r \in Seq(S) /\ Len(r) = 5
      /\ r[1] = a /\ r[2] = b /\ r[3] = c /\ r[4] = d /\ r[5] = e
  OBVIOUS
<1> HIDE DEF S, s, t, r
<1>2. /\ s \o t \in Seq(S) /\ Len(s \o t) = Len(s) + Len(t)
      /\ \A i \in 1 .. Len(s) + Len(t) :
           (s \o t)[i] = IF i <= Len(s) THEN s[i] ELSE t[i - Len(s)]
  BY <1>1, ConcatProperties
<1>3. \A i \in 1 .. 5 : (s \o t)[i] = r[i]
  <2>1. (s \o t)[1] = a /\ (s \o t)[2] = b
    BY <1>1, <1>2
  <2>2. (s \o t)[3] = c /\ (s \o t)[4] = d /\ (s \o t)[5] = e
    BY <1>1, <1>2
  <2>3. \A i \in 1 .. 5 : i = 1 \/ i = 2 \/ i = 3 \/ i = 4 \/ i = 5
    OBVIOUS
  <2> QED BY <1>1, <2>1, <2>2, <2>3
<1>4. Len(s \o t) = Len(r)
  BY <1>1, <1>2
<1>5. s \o t = r
  BY <1>1, <1>2, <1>3, <1>4, SeqEqual
<1> QED
  BY <1>5 DEF s, t, r

Last(s) == s[Len(s)]

\* What the lists of stores begin with, what is left, and what they end with.
LEMMA Todos ==
  /\ Down # << >> /\ Head(Down) = "clear companion" /\ Last(Down) = "service down"
  /\ Tail(Down) # << >> /\ Head(Tail(Down)) = "service down"
  /\ Tail(Tail(Down)) = << >> /\ Last(Tail(Down)) = "service down"
  /\ Down \o Up # << >> /\ Head(Down \o Up) = "clear companion"
  /\ Last(Down \o Up) = "service up"
  /\ Tail(Down \o Up) # << >> /\ Head(Tail(Down \o Up)) = "service down"
  /\ Tail(Tail(Down \o Up)) = Up /\ Last(Tail(Down \o Up)) = "service up"
  /\ Up # << >> /\ Head(Up) = "next epoch" /\ Last(Up) = "service up"
  /\ Tail(Up) # << >> /\ Head(Tail(Up)) = "set companion" /\ Last(Tail(Up)) = "service up"
  /\ Tail(Tail(Up)) # << >> /\ Head(Tail(Tail(Up))) = "service up"
  /\ Tail(Tail(Tail(Up))) = << >> /\ Last(Tail(Tail(Up))) = "service up"
<1> DEFINE a == "clear companion"
           b == "service down"
           c == "next epoch"
           d == "set companion"
           e == "service up"
<1>1. Down = <<a, b>> /\ Up = <<c, d, e>>
  BY DEF Down, Up
<1> HIDE DEF a, b, c, d, e
<1>3. Down \o Up = <<a, b, c, d, e>>
  BY <1>1, Concat
<1>6. /\ Down # << >> /\ Head(Down) = a /\ Last(Down) = b
      /\ Tail(Down) # << >> /\ Head(Tail(Down)) = b
      /\ Tail(Tail(Down)) = << >> /\ Last(Tail(Down)) = b
  BY <1>1 DEF Last
<1>7. /\ Down \o Up # << >> /\ Head(Down \o Up) = a /\ Last(Down \o Up) = e
      /\ Tail(Down \o Up) # << >> /\ Head(Tail(Down \o Up)) = b
      /\ Tail(Tail(Down \o Up)) = Up /\ Last(Tail(Down \o Up)) = e
  <2> DEFINE v == <<a, b, c, d, e>>
             w == <<b, c, d, e>>
  <2>2. w # << >> /\ Head(w) = b /\ Tail(w) = Up /\ w[Len(w)] = e
    BY <1>1, Tuple4
  <2> QED
    BY <1>3, <2>2 DEF Last
<1>8. /\ Up # << >> /\ Head(Up) = c /\ Last(Up) = e
      /\ Tail(Up) # << >> /\ Head(Tail(Up)) = d /\ Last(Tail(Up)) = e
      /\ Tail(Tail(Up)) # << >> /\ Head(Tail(Tail(Up))) = e
      /\ Tail(Tail(Tail(Up))) = << >> /\ Last(Tail(Tail(Up))) = e
  BY <1>1 DEF Last
<1> QED
  BY <1>6, <1>7, <1>8 DEF a, b, c, d, e

\* Each store and what it leaves.
LEMMA Doings ==
  ASSUME LinkControl, NEW s, Doing(s)
  PROVE  \/ s = "clear companion" /\ todo = Down /\ todo' = Tail(Down)
         \/ s = "clear companion" /\ todo = Down \o Up /\ todo' = Tail(Down \o Up)
         \/ s = "service down" /\ todo = Tail(Down) /\ todo' = << >>
         \/ s = "service down" /\ todo = Tail(Down \o Up) /\ todo' = Up
         \/ s = "next epoch" /\ todo = Up /\ todo' = Tail(Up)
         \/ s = "set companion" /\ todo = Tail(Up) /\ todo' = Tail(Tail(Up))
         \/ s = "service up" /\ todo = Tail(Tail(Up)) /\ todo' = << >>
<1>1. todo # << >> /\ Head(todo) = s /\ todo' = Tail(todo)
  BY DEF Doing
<1> QED
  BY <1>1, Todos DEF LinkControl

\* Whether a session is still to come up.
LEMMA ToCome ==
  ASSUME LinkControl
  PROVE  /\ todo \in {<< >>, Down, Tail(Down)} => ~UpToCome
         /\ todo \in {Down \o Up, Tail(Down \o Up), Up, Tail(Up), Tail(Tail(Up))} => UpToCome
BY Todos DEF UpToCome, Last

-----------------------------------------------------------------------------
(* Events and the session they find *)

\* Where the events before it stay and the link task serves nobody new, an
\* announcement stands.
LEMMA AnnouncedKept ==
  ASSUME NEW h \in Handles, NEW a, NEW i \in Nat,
         \A k \in 1 .. i - 1 : queue'[k] = queue[k],
         \A b \in 0 .. MaxApps : Serves(h, b)' => Serves(h, b),
         Announced(h, i, a)
  PROVE  Announced(h, i, a)'
<1>1. ASSUME NEW m \in Nat \ {0}, Quiet(h, m, i - 1)
      PROVE  Quiet(h, m, i - 1)'
  BY <1>1 DEF Quiet
<1>2. CASE Quiet(h, 1, i - 1)
  BY DEF Announced, Quiet
<1>3. ASSUME NEW j \in 1 .. i - 1, queue[j].kind = "Subscribe", queue[j].conn = h,
             queue[j].app = a, Quiet(h, j + 1, i - 1)
      PROVE  Announced(h, i, a)'
  <2>1. Quiet(h, j + 1, i - 1)'
    BY <1>1, <1>3
  <2> QED
    BY <1>3, <2>1 DEF Announced
<1> QED
  BY <1>2, <1>3 DEF Announced

\* One event further on, if that is no control event of the connection.
LEMMA AnnouncedPast ==
  ASSUME NEW h \in Handles, NEW a, NEW i \in Nat \ {0},
         \A k \in 1 .. i - 1 : queue'[k] = queue[k],
         ~ControlOn(queue'[i], h),
         \A b \in 0 .. MaxApps : Serves(h, b)' => Serves(h, b),
         Announced(h, i, a)
  PROVE  Announced(h, i + 1, a)'
<1>1. ASSUME NEW m \in Nat \ {0}, Quiet(h, m, i - 1)
      PROVE  Quiet(h, m, i)'
  BY <1>1 DEF Quiet
<1>2. CASE Quiet(h, 1, i - 1) /\ \A b \in 0 .. MaxApps : Serves(h, b) => b = a
  BY DEF Announced, Quiet
<1>3. ASSUME NEW j \in 1 .. i - 1, queue[j].kind = "Subscribe", queue[j].conn = h,
             queue[j].app = a, Quiet(h, j + 1, i - 1)
      PROVE  Announced(h, i + 1, a)'
  <2>1. Quiet(h, j + 1, i)'
    BY <1>1, <1>3
  <2> QED
    BY <1>3, <2>1 DEF Announced
<1> QED
  BY <1>2, <1>3 DEF Announced

\* Nothing is posted or handled.
LEMMA NonePosted ==
  ASSUME TypeOK, AppsAnnounced, queue' = queue, app' = app, lost' = lost,
         \A h \in Handles, b \in 0 .. MaxApps : Serves(h, b)' => Serves(h, b)
  PROVE  AppsAnnounced'
<1>2. ASSUME NEW i \in 1 .. Len(queue), queue[i].kind = "Packet", lost = 0
      PROVE  Announced(queue[i].conn, i, queue[i].app)'
  <2>1. queue[i] \in Events
    BY DEF TypeOK
  <2>2. queue[i].conn \in Handles
    BY <1>2, <2>1 DEF Events
  <2>3. Announced(queue[i].conn, i, queue[i].app)
    BY <1>2 DEF AppsAnnounced
  <2> QED
    BY <2>2, <2>3, AnnouncedKept
<1>3. ASSUME NEW h \in Handles, app[h] # 0, lost = 0
      PROVE  Announced(h, Len(queue) + 1, app[h])'
  <2>1. Announced(h, Len(queue) + 1, app[h])
    BY <1>3 DEF AppsAnnounced
  <2> QED
    BY <2>1, AnnouncedKept
<1> QED
  BY <1>2, <1>3 DEF AppsAnnounced

\* An event is posted.
LEMMA OnePosted ==
  ASSUME TypeOK, AppsAnnounced, NEW e \in Events, queue' = Append(queue, e),
         lost' = lost, UNCHANGED linkTask,
         e.kind = "Packet" => app[e.conn] = e.app /\ e.app # 0,
         \A h \in Handles : app'[h] # 0 =>
            \/ app'[h] = app[h] /\ ~ControlOn(e, h)
            \/ e.kind = "Subscribe" /\ e.conn = h /\ e.app = app'[h]
  PROVE  AppsAnnounced'
<1> PICK n \in Nat : n = Len(queue)
  OBVIOUS
<1>1. /\ Len(queue') = n + 1 /\ queue'[n + 1] = e
      /\ \A k \in 1 .. n : queue'[k] = queue[k] /\ queue[k] \in Events
  BY DEF TypeOK
<1>2. \A h, b : Serves(h, b)' <=> Serves(h, b)
  BY DEF Serves, UpToCome
<1>3. ASSUME NEW i \in 1 .. n + 1, NEW p, p = queue'[i], p.kind = "Packet", lost = 0
      PROVE  Announced(p.conn, i, p.app)'
  <2>1. p \in Events
    BY <1>1, <1>3
  <2>2. p.conn \in Handles
    BY <1>3, <2>1 DEF Events
  <2>3. Announced(p.conn, i, p.app)
    <3>1. CASE i \in 1 .. n
      BY <1>3, <3>1 DEF AppsAnnounced
    <3>2. CASE i = n + 1
      BY <1>3, <2>2 DEF AppsAnnounced
    <3> QED BY <3>1, <3>2
  <2>4. \A k \in 1 .. i - 1 : queue'[k] = queue[k]
    OBVIOUS
  <2> QED
    BY <1>2, <2>2, <2>3, <2>4, AnnouncedKept
<1>4. ASSUME NEW h \in Handles, NEW a, a = app'[h], a # 0, lost = 0
      PROVE  Announced(h, n + 2, a)'
  <2>1. CASE app'[h] = app[h] /\ ~ControlOn(e, h)
    <3>1. Announced(h, n + 1, a)
      BY <1>4, <2>1 DEF AppsAnnounced
    <3>2. Announced(h, (n + 1) + 1, a)'
      BY <1>2, <2>1, <3>1, AnnouncedPast
    <3> QED
      BY <3>2
  <2>2. CASE e.kind = "Subscribe" /\ e.conn = h /\ e.app = app'[h]
    <3>1. Quiet(h, (n + 1) + 1, (n + 2) - 1)'
      BY DEF Quiet
    <3> QED
      BY <1>4, <2>2, <3>1 DEF Announced
  <2> QED
    BY <1>4, <2>1, <2>2
<1>6. lost' = 0 => \A i \in 1 .. Len(queue') :
        queue'[i].kind = "Packet" => Announced(queue[i].conn, i, queue[i].app)'
  BY <1>1, <1>3
<1>7. lost' = 0 => \A h \in Handles :
        app'[h] # 0 => Announced(h, Len(queue) + 1, app[h])'
  BY <1>4
<1> QED
  BY <1>6, <1>7 DEF AppsAnnounced

\* What becomes of the event at the head of the queue.
LEMMA Received ==
  ASSUME TypeOK, Receive
  PROVE  /\ queue[1] \in Events
         /\ \/ /\ queue[1].kind = "Subscribe" /\ companion = queue[1].conn
               /\ todo' = Down \o Up /\ event' = queue[1]
            \/ /\ queue[1].kind = "Subscribe" /\ companion = NoHandle
               /\ todo' = Up /\ event' = queue[1]
            \/ /\ queue[1].kind \in {"Unsubscribe", "Disconnect"} /\ companion = queue[1].conn
               /\ todo' = Down /\ event' = queue[1]
            \/ /\ queue[1].kind = "Drop" /\ companion # NoHandle
               /\ todo' = Down /\ event' = queue[1]
            \/ /\ ControlOn(queue[1], companion) => companion = NoHandle
               /\ todo' = << >> /\ event' = NoEvent
<1> DEFINE e == queue[1]
<1>1. Head(queue) = e /\ e \in Events
  BY DEF TypeOK, Receive
<1> HIDE DEF e
<1>2. todo' = Stores(e) /\ event' = IF todo' = << >> THEN NoEvent ELSE e
  BY <1>1 DEF Receive
<1>3. CASE e.kind = "Subscribe" /\ companion = e.conn
  <2> DEFINE both == Down \o Up
  <2>1. Stores(e) = both
    BY <1>1, <1>3, BleAssumption DEF Stores, Events
  <2>2. both # << >>
    BY Todos
  <2> HIDE DEF both
  <2>3. todo' = both /\ event' = e
    BY <1>2, <2>1, <2>2
  <2> QED
    BY <1>1, <1>3, <2>3 DEF both
<1>4. CASE e.kind = "Subscribe" /\ companion # e.conn /\ companion = NoHandle /\ btOn
  BY <1>1, <1>2, <1>4 DEF Stores
<1>5. CASE e.kind \in {"Unsubscribe", "Disconnect"} /\ companion = e.conn
  BY <1>1, <1>2, <1>5, Todos DEF Stores, e
<1>6. CASE e.kind = "Drop" /\ companion # NoHandle
  BY <1>1, <1>2, <1>6, Todos DEF Stores, e
<1>7. CASE ~(\/ e.kind = "Subscribe" /\ companion = e.conn
             \/ e.kind = "Subscribe" /\ companion = NoHandle /\ btOn
             \/ e.kind \in {"Unsubscribe", "Disconnect"} /\ companion = e.conn
             \/ e.kind = "Drop" /\ companion # NoHandle)
  <2>1. Stores(e) = << >>
    BY <1>7 DEF Stores
  <2> QED
    BY <1>1, <1>2, <1>7, <2>1 DEF ControlOn, Controls
<1> QED
  BY <1>3, <1>4, <1>5, <1>6, <1>7

\* Whom the link task serves once it has handled the event.
LEMMA ServesNext ==
  ASSUME TypeOK, LinkControl, Receive, NEW h \in Handles, NEW b, Serves(h, b)'
  PROVE  /\ ~ControlOn(queue[1], h) => Serves(h, b)
         /\ queue[1].kind = "Subscribe" /\ queue[1].conn = h => queue[1].app = b
<1>1. todo = << >> /\ service' = service /\ (Serving \/ Silent)
  BY Todos DEF Receive, LinkControl
<1>2. ~UpToCome
  BY <1>1 DEF UpToCome
<1>3. CASE todo' \in {Down \o Up, Up} /\ event' = queue[1] /\ queue[1].kind = "Subscribe"
  <2>1. UpToCome'
    BY <1>3, Todos DEF UpToCome, Last
  <2> QED
    BY <1>3, <2>1 DEF Serves, ControlOn, Controls
<1>4. CASE todo' = Down
  <2>1. ~UpToCome' /\ todo' # << >>
    BY <1>4, Todos DEF UpToCome, Last
  <2> QED
    BY <2>1 DEF Serves
<1>5. CASE todo' = << >> /\ (ControlOn(queue[1], companion) => companion = NoHandle)
  <2>1. ~UpToCome'
    BY <1>5 DEF UpToCome
  <2>2. service.conn = h /\ service.app = b
    BY <1>1, <2>1 DEF Serves
  <2>3. companion = h
    BY <1>1, <2>2 DEF Serving, Silent, NoSession
  <2> QED
    BY <1>1, <1>2, <1>5, <2>2, <2>3, BleAssumption DEF Serves, ControlOn, Controls
<1> QED
  BY <1>3, <1>4, <1>5, Received

\* An event is handled.
LEMMA OneHandled ==
  ASSUME TypeOK, LinkControl, AppsAnnounced, Receive
  PROVE  AppsAnnounced'
<1> PICK n \in Nat : n + 1 = Len(queue)
  <2>1. Len(queue) \in Nat \ {0} /\ Len(queue) - 1 \in Nat
    BY DEF Receive
  <2> QED BY <2>1
<1>1. /\ Len(queue') = n /\ Len(queue) = n + 1 /\ lost' = lost /\ app' = app
      /\ \A k \in 1 .. n : queue'[k] = queue[k + 1] /\ queue[k + 1] \in Events
  BY DEF TypeOK, Receive
<1>2. ASSUME NEW h \in Handles, NEW a, NEW i \in 1 .. n + 1, Announced(h, i + 1, a)
      PROVE  Announced(h, i, a)'
  <2>1. ASSUME NEW m \in 1 .. i, Quiet(h, m + 1, (i + 1) - 1)
        PROVE  Quiet(h, m, i - 1)'
    <3>1. ASSUME NEW k \in m .. i - 1
          PROVE  ~ControlOn(queue'[k], h)
      <4>1. k + 1 \in m + 1 .. (i + 1) - 1 /\ k \in 1 .. n
        OBVIOUS
      <4> QED
        BY <1>1, <2>1, <4>1 DEF Quiet
    <3> QED
      BY <3>1 DEF Quiet
  <2>2. CASE Quiet(h, 1, (i + 1) - 1) /\ \A b \in 0 .. MaxApps : Serves(h, b) => b = a
    <3>1. ~ControlOn(queue[1], h) /\ Quiet(h, 1 + 1, (i + 1) - 1)
      BY <2>2 DEF Quiet
    <3>2. \A b \in 0 .. MaxApps : Serves(h, b)' => b = a
      BY <2>2, <3>1, ServesNext
    <3> QED
      BY <2>1, <3>1, <3>2 DEF Announced
  <2>3. ASSUME NEW j \in 1 .. (i + 1) - 1, queue[j].kind = "Subscribe", queue[j].conn = h,
               queue[j].app = a, Quiet(h, j + 1, (i + 1) - 1)
        PROVE  Announced(h, i, a)'
    <3>1. Quiet(h, j, i - 1)'
      BY <2>1, <2>3
    <3>2. CASE j = 1
      <4>1. \A b \in 0 .. MaxApps : Serves(h, b)' => b = a
        BY <2>3, <3>2, ServesNext
      <4> QED
        BY <3>1, <3>2, <4>1 DEF Announced
    <3>3. CASE j # 1
      <4>1. j - 1 \in 1 .. i - 1 /\ (j - 1) + 1 = j /\ j - 1 \in 1 .. n
        BY <3>3
      <4>2. queue'[j - 1] = queue[j]
        BY <1>1, <4>1
      <4> QED
        BY <2>3, <3>1, <4>1, <4>2 DEF Announced
    <3> QED
      BY <3>2, <3>3
  <2> QED
    BY <1>2, <2>2, <2>3 DEF Announced
<1>3. ASSUME NEW i \in 1 .. n, NEW p, p = queue'[i], p.kind = "Packet", lost = 0
      PROVE  Announced(p.conn, i, p.app)'
  <2>1. p = queue[i + 1] /\ p \in Events
    BY <1>1, <1>3
  <2>2. p.conn \in Handles
    BY <1>3, <2>1 DEF Events
  <2>3. Announced(p.conn, i + 1, p.app)
    BY <1>3, <2>1 DEF AppsAnnounced
  <2> QED
    BY <1>2, <2>2, <2>3
<1>4. ASSUME NEW h \in Handles, NEW a, a = app[h], a # 0, lost = 0
      PROVE  Announced(h, n + 1, a)'
  <2>1. Announced(h, (n + 1) + 1, a)
    BY <1>4 DEF AppsAnnounced
  <2> QED
    BY <1>2, <2>1
<1>5. lost' = 0 => \A i \in 1 .. Len(queue') :
        queue'[i].kind = "Packet" => Announced(queue[i].conn, i, queue[i].app)'
  BY <1>1, <1>3
<1>6. lost' = 0 => \A h \in Handles :
        app'[h] # 0 => Announced(h, Len(queue) + 1, app[h])'
  BY <1>1, <1>4
<1> QED
  BY <1>5, <1>6 DEF AppsAnnounced

-----------------------------------------------------------------------------
(* The inductive invariant *)

\* Nothing is in any queue at power-on.
LEMMA BleInitInv == Init => BleInv
<1> SUFFICES ASSUME Init PROVE BleInv
  OBVIOUS
<1> USE DEF Init
<1>1. TypeOK
  <2>1. app \in [Handles -> 0 .. MaxApps] /\ lost \in 0 .. MaxLost /\ apps \in 0 .. MaxApps
    BY BleAssumption
  <2>2. /\ queue \in Seq(Events)
        /\ Len(queue) <= QueueDepth
        /\ txq \in Seq(Packets)
        /\ Len(txq) <= TxDepth
    BY BleAssumption
  <2> QED
    BY <2>1, <2>2 DEF TypeOK
<1>2. LinkControl
  BY DEF LinkControl, Silent
<1>3. AtMostOneStray /\ OneChecked
  BY DEF AtMostOneStray, OneChecked
<1>4. AppsAnnounced
  BY DEF AppsAnnounced
<1> QED BY <1>1, <1>2, <1>3, <1>4 DEF BleInv

\* The host task posts what it sees; the link task and the tx task are where
\* they were.
LEMMA HostStepInv ==
  ASSUME BleInv, HostStep
  PROVE  BleInv'
<1> USE DEF BleInv
<1>1. UNCHANGED linkTask /\ UNCHANGED txTask /\ txq' = txq
  BY DEF HostStep, Connect, Subscribe, Unsubscribe, Write, Disconnect,
     SetEnabled
<1>2. LinkControl' /\ AtMostOneStray' /\ OneChecked'
  BY <1>1 DEF LinkControl, Serving, Silent, Coming, AtMostOneStray, OneChecked,
     OfTheSession
<1>3. ASSUME NEW e \in Events, queue' = Append(queue, e), Len(queue) < QueueDepth
      PROVE  queue' \in Seq(Events) /\ Len(queue') <= QueueDepth
  BY <1>3, BleAssumption DEF TypeOK
<1>4. ASSUME lost' = lost + 1
      PROVE  AppsAnnounced'
  BY <1>4 DEF TypeOK, AppsAnnounced
<1>5. ASSUME queue' = queue, app' = app, lost' = lost
      PROVE  AppsAnnounced'
  BY <1>1, <1>5, NonePosted DEF Serves, UpToCome
<1>6. ASSUME NEW kind, NEW h, NEW a, PostControl(kind, h, a),
             [kind |-> kind, conn |-> h, app |-> a] \in Events,
             kind # "Packet",
             \A g \in Handles : app'[g] # 0 =>
               \/ app'[g] = app[g] /\ ~(kind \in Controls /\ h = g)
               \/ kind = "Subscribe" /\ h = g /\ a = app'[g]
      PROVE  /\ queue' \in Seq(Events)
             /\ Len(queue') <= QueueDepth
             /\ lost' \in 0 .. MaxLost
             /\ AppsAnnounced'
  <2> DEFINE e == [kind |-> kind, conn |-> h, app |-> a]
  <2>1. e.kind = kind /\ e.conn = h /\ e.app = a
    OBVIOUS
  <2>2. CASE queue' = Append(queue, e) /\ Len(queue) < QueueDepth /\ lost' = lost
    <3>1. e \in Events
      BY <1>6
    <3> HIDE DEF e
    <3>2. AppsAnnounced'
      BY <1>1, <1>6, <2>1, <2>2, <3>1, OnePosted DEF ControlOn
    <3> QED
      BY <1>3, <2>2, <3>1, <3>2 DEF TypeOK
  <2>3. CASE queue' = queue /\ lost < MaxLost /\ lost' = lost + 1
    BY <1>4, <2>3, BleAssumption DEF TypeOK
  <2> QED
    BY <1>6, <2>2, <2>3 DEF PostControl
<1>7. ASSUME NEW h \in Handles, Connect(h)
      PROVE  TypeOK' /\ AppsAnnounced'
  BY <1>5, <1>7 DEF Connect, TypeOK
<1>8. ASSUME NEW h \in Handles, Subscribe(h)
      PROVE  TypeOK' /\ AppsAnnounced'
  <2>1. /\ apps' \in 0 .. MaxApps
        /\ apps' # 0
        /\ app' = [app EXCEPT ![h] = apps']
        /\ PostControl("Subscribe", h, apps')
    BY <1>8, BleAssumption DEF Subscribe, TypeOK
  <2>2. [kind |-> "Subscribe", conn |-> h, app |-> apps'] \in Events
    BY <2>1 DEF Events, Controls
  <2>3. PICK a : a = apps'
    OBVIOUS
  <2>4. /\ queue' \in Seq(Events)
        /\ Len(queue') <= QueueDepth
        /\ lost' \in 0 .. MaxLost
        /\ AppsAnnounced'
    BY <1>6, <2>1, <2>2 DEF TypeOK
  <2> QED
    BY <1>8, <2>1, <2>4 DEF TypeOK, Subscribe
<1>9. ASSUME NEW h \in Handles, Unsubscribe(h)
      PROVE  TypeOK' /\ AppsAnnounced'
  <2>1. [kind |-> "Unsubscribe", conn |-> h, app |-> app[h]] \in Events
    BY DEF Events, Controls, TypeOK
  <2>2. app' = [app EXCEPT ![h] = 0] /\ PostControl("Unsubscribe", h, app[h])
    BY <1>9 DEF Unsubscribe
  <2>3. /\ queue' \in Seq(Events)
        /\ Len(queue') <= QueueDepth
        /\ lost' \in 0 .. MaxLost
        /\ AppsAnnounced'
    BY <1>6, <2>1, <2>2 DEF TypeOK
  <2> QED
    BY <1>9, <2>3, BleAssumption DEF TypeOK, Unsubscribe
<1>10. ASSUME NEW h \in Handles, Disconnect(h)
      PROVE  TypeOK' /\ AppsAnnounced'
  <2>1. [kind |-> "Disconnect", conn |-> h, app |-> app[h]] \in Events
    BY DEF Events, Controls, TypeOK
  <2>2. app' = [app EXCEPT ![h] = 0] /\ PostControl("Disconnect", h, app[h])
    BY <1>10 DEF Disconnect
  <2>3. /\ queue' \in Seq(Events)
        /\ Len(queue') <= QueueDepth
        /\ lost' \in 0 .. MaxLost
        /\ AppsAnnounced'
    BY <1>6, <2>1, <2>2 DEF TypeOK
  <2> QED
    BY <1>10, <2>3, BleAssumption DEF TypeOK, Disconnect
<1>11. ASSUME NEW h \in Handles, Write(h)
      PROVE  TypeOK' /\ AppsAnnounced'
  <2> DEFINE e == [kind |-> "Packet", conn |-> h, app |-> app[h]]
  <2>1. e \in Events /\ e.kind = "Packet" /\ e.conn = h /\ e.app = app[h]
    BY DEF Events, TypeOK
  <2>2. app' = app /\ lost' = lost /\ app[h] # 0
    BY <1>11 DEF Write, PostPacket
  <2>3. CASE queue' = Append(queue, e) /\ Len(queue) < QueueDepth
    <3> HIDE DEF e
    <3>1. AppsAnnounced'
      BY <1>1, <2>1, <2>2, <2>3, OnePosted DEF ControlOn, Controls
    <3> QED
      BY <1>3, <1>11, <2>1, <2>3, <3>1 DEF Write, PostPacket, TypeOK
  <2>4. CASE queue' = queue
    BY <1>5, <1>11, <2>4 DEF Write, PostPacket, TypeOK
  <2> QED
    BY <1>11, <2>3, <2>4 DEF Write, PostPacket
<1>12. ASSUME SetEnabled
      PROVE  TypeOK' /\ AppsAnnounced'
  <2>1. CASE btOn
    <3>1. [kind |-> "Drop", conn |-> NoHandle, app |-> 0] \in Events /\ "Drop" \notin Controls
      BY DEF Events, Controls
    <3>2. app' = app /\ PostControl("Drop", NoHandle, 0)
      BY <1>12, <2>1 DEF SetEnabled
    <3>3. /\ queue' \in Seq(Events)
          /\ Len(queue') <= QueueDepth
          /\ lost' \in 0 .. MaxLost
          /\ AppsAnnounced'
      BY <1>6, <3>1, <3>2
    <3> QED
      BY <1>12, <3>3 DEF TypeOK, SetEnabled
  <2>2. CASE ~btOn
    BY <1>5, <1>12, <2>2 DEF TypeOK, SetEnabled
  <2> QED
    BY <2>1, <2>2
<1> QED
  BY <1>2, <1>7, <1>8, <1>9, <1>10, <1>11, <1>12 DEF HostStep

\* An event is taken from the queue; its stores are still to come.
LEMMA ReceiveInv ==
  ASSUME BleInv, Receive
  PROVE  BleInv'
<1> USE DEF BleInv
<1>1. AppsAnnounced'
  BY OneHandled
<1>2. TypeOK'
  <2>1. queue' \in Seq(Events) /\ Len(queue') <= QueueDepth
    BY BleAssumption DEF TypeOK, Receive
  <2> QED
    BY <2>1 DEF TypeOK, Receive
<1>3. LinkControl'
  <2>1. Serving \/ Silent
    BY Todos DEF LinkControl, Receive
  <2>2. Serving' <=> Serving
    BY DEF Serving, Receive
  <2>3. Silent' <=> Silent
    BY DEF Silent, Receive
  <2>4. queue[1].kind = "Subscribe" /\ event' = queue[1] => Coming' /\ queue[1].conn # NoHandle
    BY Received, BleAssumption DEF Coming, Events
  <2>5. companion # NoHandle => Serving
    BY <2>1 DEF Silent
  <2>6. companion = NoHandle => Silent
    BY <2>1 DEF Serving
  <2>7. companion' = companion
    BY DEF Receive
  <2>8. CASE /\ queue[1].kind \in {"Unsubscribe", "Disconnect"}
             /\ companion = queue[1].conn
             /\ todo' = Down
    <3>1. companion # NoHandle
      BY <2>8, Received, BleAssumption DEF Events
    <3> QED
      BY <2>2, <2>5, <2>8, <3>1 DEF LinkControl
  <2>9. CASE /\ queue[1].kind = "Subscribe"
             /\ companion = queue[1].conn
             /\ todo' = Down \o Up
             /\ event' = queue[1]
    BY <2>2, <2>4, <2>5, <2>7, <2>9 DEF LinkControl
  <2>10. CASE /\ queue[1].kind = "Subscribe"
              /\ companion = NoHandle
              /\ todo' = Up
              /\ event' = queue[1]
    BY <2>3, <2>4, <2>6, <2>10 DEF LinkControl
  <2>11. CASE companion # NoHandle /\ todo' = Down
    BY <2>2, <2>5, <2>11 DEF LinkControl
  <2>12. CASE todo' = << >>
    BY <2>1, <2>2, <2>3, <2>12 DEF LinkControl
  <2> QED
    BY <2>8, <2>9, <2>10, <2>11, <2>12, Received
<1>4. AtMostOneStray' /\ OneChecked'
  BY DEF AtMostOneStray, OneChecked, OfTheSession, Receive
<1> QED BY <1>1, <1>2, <1>3, <1>4

\* companion_down(), first store
LEMMA ClearCompanionInv ==
  ASSUME BleInv, ClearCompanion
  PROVE  BleInv'
<1> USE DEF BleInv
<1>1. \/ todo = Down /\ todo' = Tail(Down)
      \/ todo = Down \o Up /\ todo' = Tail(Down \o Up) /\ Coming
  BY Doings, Todos DEF ClearCompanion, LinkControl
<1>2. event' = event
  BY <1>1, Todos DEF ClearCompanion, Doing
<1>3. TypeOK'
  BY <1>2 DEF TypeOK, ClearCompanion
<1>4. LinkControl'
  BY <1>1, <1>2 DEF ClearCompanion, LinkControl, Coming
<1>5. AtMostOneStray' /\ OneChecked'
  <2>1. stray' = 0
    BY DEF ClearCompanion
  <2> QED
    BY <2>1 DEF AtMostOneStray, OneChecked
<1>6. \A h \in Handles, b \in 0 .. MaxApps : Serves(h, b)' => Serves(h, b)
  BY <1>1, <1>2, Todos DEF Serves, UpToCome, Last
<1>7. AppsAnnounced'
  BY <1>6, NonePosted DEF ClearCompanion
<1> QED BY <1>3, <1>4, <1>5, <1>7

\* service_on_disconnect()
LEMMA ServiceDownInv ==
  ASSUME BleInv, ServiceDown
  PROVE  BleInv'
<1> USE DEF BleInv
<1>1. /\ companion = NoHandle /\ service' = NoSession
      /\ \/ todo = Tail(Down) /\ todo' = << >>
         \/ todo = Tail(Down \o Up) /\ todo' = Up /\ Coming
  BY Doings, Todos DEF ServiceDown, LinkControl
<1>2. event' = event \/ (event' = NoEvent /\ todo' = << >>)
  BY DEF ServiceDown, Doing
<1>3. TypeOK'
  BY <1>2 DEF TypeOK, ServiceDown
<1>4. LinkControl'
  BY <1>1, <1>2 DEF ServiceDown, LinkControl, Silent, Coming
<1>5. AtMostOneStray' /\ OneChecked'
  BY DEF AtMostOneStray, OneChecked, OfTheSession, ServiceDown
<1>6. \A h \in Handles, b \in 0 .. MaxApps : Serves(h, b)' => Serves(h, b)
  BY <1>1, <1>2, Todos, BleAssumption DEF Serves, UpToCome, Last, NoSession
<1>7. AppsAnnounced'
  BY <1>6, NonePosted DEF ServiceDown
<1> QED BY <1>3, <1>4, <1>5, <1>7

\* companion_up(), first store: the packets queued so far are leftovers.
LEMMA NextEpochInv ==
  ASSUME BleInv, NextEpoch
  PROVE  BleInv'
<1> USE DEF BleInv
<1>1. todo = Up /\ todo' = Tail(Up) /\ Silent /\ Coming
  BY Doings, Todos DEF NextEpoch, LinkControl
<1>2. event' = event
  BY <1>1, Todos DEF NextEpoch, Doing
<1>3. TypeOK'
  <2>1. epoch' \in Nat /\ stray' \in Nat
    <3>1. epoch' = epoch + 1 /\ stray' = 0
      BY DEF NextEpoch
    <3> QED
      BY <3>1 DEF TypeOK
  <2> QED
    BY <1>2, <2>1 DEF TypeOK, NextEpoch
<1>4. LinkControl'
  <2>1. epoch' > 0
    <3>1. epoch' = epoch + 1
      BY DEF NextEpoch
    <3> QED
      BY <3>1 DEF TypeOK
  <2>2. Silent' /\ Coming'
    BY <1>1, <1>2 DEF NextEpoch, Silent, Coming
  <2> QED
    BY <1>1, <2>1, <2>2 DEF LinkControl
<1>5. AtMostOneStray' /\ OneChecked'
  <2>1. stray' = 0
    BY DEF NextEpoch
  <2> QED
    BY <2>1 DEF AtMostOneStray, OneChecked
<1>6. \A h \in Handles, b \in 0 .. MaxApps : Serves(h, b)' => Serves(h, b)
  BY <1>1, <1>2, Todos DEF Serves, UpToCome, Last
<1>7. AppsAnnounced'
  BY <1>6, NonePosted DEF NextEpoch
<1> QED BY <1>3, <1>4, <1>5, <1>7

\* companion_up(), second store
LEMMA SetCompanionInv ==
  ASSUME BleInv, SetCompanion
  PROVE  BleInv'
<1> USE DEF BleInv
<1>1. todo = Tail(Up) /\ todo' = Tail(Tail(Up)) /\ Silent /\ Coming /\ epoch > 0
  BY Doings, Todos DEF SetCompanion, LinkControl
<1>2. event' = event /\ companion' = event.conn /\ companion' # NoHandle
  BY <1>1, Todos, BleAssumption DEF SetCompanion, Doing, Coming
<1>3. TypeOK'
  BY <1>1, <1>2 DEF TypeOK, SetCompanion, Coming
<1>4. LinkControl'
  BY <1>1, <1>2 DEF SetCompanion, LinkControl, Silent, Coming
<1>5. AtMostOneStray' /\ OneChecked'
  BY <1>1 DEF AtMostOneStray, OneChecked, OfTheSession, Silent, SetCompanion
<1>6. \A h \in Handles, b \in 0 .. MaxApps : Serves(h, b)' => Serves(h, b)
  BY <1>1, <1>2, Todos DEF Serves, UpToCome, Last
<1>7. AppsAnnounced'
  BY <1>6, NonePosted DEF SetCompanion
<1> QED BY <1>3, <1>4, <1>5, <1>7

\* service_on_connect()
LEMMA ServiceUpInv ==
  ASSUME BleInv, ServiceUp
  PROVE  BleInv'
<1> USE DEF BleInv
<1>1. /\ todo = Tail(Tail(Up)) /\ todo' = << >> /\ Coming /\ epoch > 0
      /\ companion = event.conn /\ companion # NoHandle /\ event \in Events
  <2>1. todo = Tail(Tail(Up)) /\ todo' = << >>
    BY Doings DEF ServiceUp
  <2>2. Coming /\ epoch > 0 /\ companion = event.conn
    BY <2>1, Todos DEF LinkControl
  <2>3. event \in Events
    BY <2>2 DEF Coming, TypeOK, NoEvent
  <2> QED
    BY <2>1, <2>2, <2>3, BleAssumption DEF Coming
<1>2. event' = NoEvent /\ service' = [epoch |-> epoch, conn |-> event.conn, app |-> event.app]
  BY <1>1 DEF ServiceUp, Doing
<1>3. service' \in Sessions
  BY <1>1, <1>2 DEF TypeOK, Sessions, Events
<1>4. TypeOK'
  BY <1>2, <1>3 DEF TypeOK, ServiceUp
<1>5. LinkControl'
  <2>1. Serving'
    <3> QED
      BY <1>1 DEF ServiceUp, Serving
  <2> QED
    BY <1>1, <2>1 DEF LinkControl
<1>6. AtMostOneStray' /\ OneChecked'
  BY DEF AtMostOneStray, OneChecked, OfTheSession, ServiceUp
<1>7. \A h \in Handles, b \in 0 .. MaxApps : Serves(h, b)' => Serves(h, b)
  BY <1>1, <1>2, Todos DEF Serves, UpToCome, Last
<1>8. AppsAnnounced'
  BY <1>7, NonePosted DEF ServiceUp
<1> QED BY <1>4, <1>5, <1>6, <1>8

\* The service queues a packet of its session.
LEMMA SendInv ==
  ASSUME BleInv, Send
  PROVE  BleInv'
<1> USE DEF BleInv
<1>1. [epoch |-> service.epoch, conn |-> service.conn] \in Packets
  BY DEF Send, TypeOK, Sessions, NoSession, Packets
<1>2. txq' \in Seq(Packets) /\ Len(txq') <= TxDepth
  BY <1>1, BleAssumption DEF Send, TypeOK
<1>3. TypeOK'
  BY <1>2 DEF TypeOK, Send
<1>4. LinkControl' /\ AtMostOneStray' /\ OneChecked'
  BY DEF LinkControl, Serving, Silent, Coming, AtMostOneStray, OneChecked,
     OfTheSession, Send
<1>5. AppsAnnounced'
  BY NonePosted DEF Serves, UpToCome, Send
<1> QED BY <1>3, <1>4, <1>5

\* The tx task: what it notifies it has checked, and what it has checked is of
\* the session unless that ended since.
LEMMA TxStepInv ==
  ASSUME BleInv, TxStep
  PROVE  BleInv'
<1> USE DEF BleInv
<1>1. UNCHANGED host /\ UNCHANGED linkTask
  BY DEF TxStep, Take, CheckSession, Notify, NotifyFails, NotifyStalls
<1>2. LinkControl'
  BY <1>1 DEF LinkControl, Serving, Silent, Coming
<1>3. AppsAnnounced'
  BY <1>1, NonePosted DEF Serves, UpToCome
<1>4. CASE Take
  <2>1. txq' \in Seq(Packets) /\ Len(txq') <= TxDepth /\ packet' \in Packets
    BY <1>4, BleAssumption DEF Take, TypeOK
  <2> QED
    BY <1>2, <1>3, <1>4, <2>1 DEF Take, TypeOK, AtMostOneStray, OneChecked
<1>5. CASE CheckSession
  <2>1. Current(packet) => OfTheSession(packet)
    BY <1>5, BleAssumption DEF CheckSession, Current, OfTheSession, TypeOK,
       Packets
  <2> QED
    BY <1>2, <1>3, <1>5, <2>1 DEF CheckSession, TypeOK, AtMostOneStray,
       OneChecked, OfTheSession
<1>6. CASE Notify
  <2>1. TypeOK'
    <3>1. stray' \in Nat
      BY <1>6 DEF Notify, TypeOK
    <3> QED
      BY <1>6, <3>1 DEF Notify, TypeOK
  <2>2. AtMostOneStray' /\ OneChecked'
    BY <1>6 DEF Notify, AtMostOneStray, OneChecked
  <2> QED
    BY <1>2, <1>3, <2>1, <2>2
<1>7. CASE NotifyFails
  BY <1>2, <1>3, <1>7 DEF NotifyFails, TypeOK, AtMostOneStray, OneChecked
<1>8. CASE NotifyStalls
  <2>1. txq' \in Seq(Packets) /\ Len(txq') <= TxDepth
    BY <1>8, BleAssumption DEF NotifyStalls
  <2> QED
    BY <1>2, <1>3, <1>8, <2>1 DEF NotifyStalls, TypeOK, AtMostOneStray, OneChecked
<1> QED BY <1>4, <1>5, <1>6, <1>7, <1>8 DEF TxStep

\* Every step of the four tasks.
LEMMA BleNextInv ==
  ASSUME BleInv, [Next]_vars
  PROVE  BleInv'
<1>1. CASE UNCHANGED vars
  <2> USE DEF vars, BleInv
  <2>1. TypeOK' /\ LinkControl' /\ AtMostOneStray' /\ OneChecked'
    BY <1>1 DEF TypeOK, LinkControl, Serving, Silent, Coming, AtMostOneStray,
       OneChecked, OfTheSession
  <2>2. AppsAnnounced'
    BY <1>1, NonePosted DEF Serves, UpToCome
  <2> QED BY <2>1, <2>2
<1> QED
  BY <1>1, HostStepInv, ReceiveInv, ClearCompanionInv, ServiceDownInv,
     NextEpochInv, SetCompanionInv, ServiceUpInv, SendInv, TxStepInv DEF Next,
     LinkStep

\* However connections, app sessions and Bluetooth come and go: companion,
\* epoch and the service's session agree at every store of the link task, each
\* packet in the event queue follows the subscription of the app that wrote
\* it, and at most one packet of another session is notified per change of
\* session (link_transport_ble.cpp:277, 395).
THEOREM BleInvariant == Spec => []BleInv
BY BleInitInv, BleNextInv, PTL DEF Spec

\* Unless a control event was lost, a packet reaches the service only in the
\* session of the app that wrote it (link_transport_ble.cpp:395).
THEOREM PacketsStay == Spec => []PacketsOfTheSession
<1>1. BleInv => PacketsOfTheSession
  <2> SUFFICES ASSUME BleInv, lost = 0, todo = << >>, queue # << >>,
                      Head(queue).kind = "Packet",
                      Head(queue).conn = companion
               PROVE  Head(queue).app = service.app
    BY DEF PacketsOfTheSession
  <2> USE DEF BleInv
  <2>2. Announced(queue[1].conn, 1, queue[1].app)
    BY DEF AppsAnnounced
  <2>3. companion \in Handles /\ service \in Sessions /\ service.conn = companion
    <3>1. companion \in Handles
      BY DEF TypeOK, Events
    <3>2. Serving
      BY <3>1, Todos, BleAssumption DEF LinkControl, Silent
    <3> QED
      BY <3>2 DEF Serving, TypeOK, NoSession
  <2>4. Serves(companion, service.app)
    BY <2>3 DEF Serves, UpToCome
  <2> QED
    BY <2>2, <2>3, <2>4 DEF Announced, Sessions
<1> QED BY <1>1, BleInvariant, PTL

-----------------------------------------------------------------------------
(* Wake-ups of the link task (LinkWake). *)

-----------------------------------------------------------------------------
(* Wakes in a queue *)

\* What a queue with one more event holds.
LEMMA AppendWakes ==
  ASSUME NEW q \in Seq(Kinds), NEW e \in Kinds
  PROVE  /\ Append(q, e) \in Seq(Kinds) /\ Append(q, e) # << >>
         /\ Len(Append(q, e)) = Len(q) + 1
         /\ WakeIn(Append(q, e)) <=> WakeIn(q) \/ e = "Wake"
         /\ (AtMostOneWake(q) /\ (e = "Wake" => ~WakeIn(q))) => AtMostOneWake(Append(q, e))
<1> DEFINE r == Append(q, e)
<1>1. /\ r \in Seq(Kinds)
      /\ Len(q) \in Nat
      /\ Len(r) = Len(q) + 1
      /\ r[Len(q) + 1] = e
      /\ \A i \in 1 .. Len(q) : r[i] = q[i]
  OBVIOUS
<1>2. r # << >>
  BY <1>1
<1>3. WakeIn(r) <=> WakeIn(q) \/ e = "Wake"
  BY <1>1 DEF WakeIn
<1>4. (AtMostOneWake(q) /\ (e = "Wake" => ~WakeIn(q))) => AtMostOneWake(r)
  BY <1>1 DEF WakeIn, AtMostOneWake
<1> QED BY <1>1, <1>2, <1>3, <1>4

\* What a queue without its first event holds.
LEMMA TailWakes ==
  ASSUME NEW q \in Seq(Kinds), q # << >>
  PROVE  /\ Head(q) \in Kinds /\ Tail(q) \in Seq(Kinds) /\ Len(Tail(q)) <= Len(q)
         /\ AtMostOneWake(q) => AtMostOneWake(Tail(q))
         /\ Head(q) = "Wake" => WakeIn(q)
         /\ (Head(q) = "Wake" /\ AtMostOneWake(q)) => ~WakeIn(Tail(q))
         /\ Head(q) # "Wake" => (WakeIn(Tail(q)) <=> WakeIn(q))
<1> DEFINE t == Tail(q)
<1>1. /\ Head(q) \in Kinds /\ Head(q) = q[1]
      /\ t \in Seq(Kinds)
      /\ Len(q) \in Nat \ {0} /\ Len(t) + 1 = Len(q) /\ Len(t) \in Nat
      /\ \A i \in 1 .. Len(t) : t[i] = q[i + 1]
  OBVIOUS
<1>2. AtMostOneWake(q) => AtMostOneWake(t)
  <2>1. ASSUME NEW i \in 1 .. Len(t)
        PROVE  i + 1 \in 1 .. Len(q) /\ t[i] = q[i + 1]
    BY <1>1
  <2> QED BY <1>1, <2>1 DEF AtMostOneWake
<1>3. Head(q) = "Wake" => WakeIn(q)
  BY <1>1 DEF WakeIn
<1>4. (Head(q) = "Wake" /\ AtMostOneWake(q)) => ~WakeIn(t)
  <2>1. ASSUME NEW i \in 1 .. Len(t), t[i] = "Wake", q[1] = "Wake", AtMostOneWake(q)
        PROVE  FALSE
    <3>1. /\ 1 \in 1 .. Len(q)
          /\ i + 1 \in 1 .. Len(q) /\ q[i + 1] = "Wake"
      BY <1>1, <2>1
    <3>2. 1 = i + 1
      BY <2>1, <3>1 DEF AtMostOneWake
    <3> QED BY <3>2
  <2> QED BY <1>1, <2>1 DEF WakeIn
<1>5. ASSUME Head(q) # "Wake"
      PROVE  WakeIn(t) <=> WakeIn(q)
  <2>1. WakeIn(t) => WakeIn(q)
    <3>1. ASSUME NEW i \in 1 .. Len(t)
          PROVE  i + 1 \in 1 .. Len(q) /\ t[i] = q[i + 1]
      BY <1>1
    <3> QED BY <3>1 DEF WakeIn
  <2>2. ASSUME NEW i \in 1 .. Len(q), q[i] = "Wake"
        PROVE  WakeIn(t)
    <3>1. i # 1
      BY <1>1, <1>5, <2>2
    <3>2. PICK j \in 1 .. Len(t) : i = j + 1
      <4>1. (i - 1) \in 1 .. Len(t) /\ i = (i - 1) + 1
        BY <1>1, <3>1
      <4> QED BY <4>1
    <3>3. t[j] = "Wake"
      BY <1>1, <2>2, <3>2
    <3> QED BY <3>3 DEF WakeIn
  <2> QED BY <2>1, <2>2 DEF WakeIn
<1> QED BY <1>1, <1>2, <1>3, <1>4, <1>5

-----------------------------------------------------------------------------
(* The inductive invariant *)

LEMMA WakeInitInv == WakeInit => WakeInv
<1> SUFFICES ASSUME WakeInit
             PROVE  WakeInv
  OBVIOUS
<1>1. /\ events \in Seq(Kinds) /\ Len(events) = 0
      /\ ~WakeIn(events) /\ AtMostOneWake(events)
  BY DEF WakeInit, WakeIn, AtMostOneWake
<1>2. WakeTypeOK
  <2>1. Len(events) <= EventDepth
    BY <1>1, WakeAssumption
  <2>2. waker \in [Wakers -> {"idle", "exchange", "send", "refused"}]
    BY DEF WakeInit
  <2> QED BY <1>1, <2>1, <2>2 DEF WakeInit, WakeTypeOK
<1>3. LockHeld
  BY WakeAssumption DEF WakeInit, LockHeld, Wakers
<1>4. OneInFlight
  BY <1>1 DEF WakeInit, OneInFlight, Sending
<1>5. Pending /\ OverlapNeedsHook
  BY DEF WakeInit, Pending, OverlapNeedsHook
<1> QED BY <1>2, <1>3, <1>4, <1>5 DEF WakeInv

\* A worker takes the lock with its deadline; a hook does not.
LEMMA RegisterInv ==
  ASSUME WakeInv, NEW w \in Wakers, Register(w)
  PROVE  WakeInv'
<1> USE DEF WakeInv
<1>1. WakeTypeOK'
  BY DEF Register, WakeTypeOK
<1>2. LockHeld'
  BY WakeAssumption DEF Register, LockHeld, WakeTypeOK, Wakers
<1>3. OneInFlight'
  BY DEF Register, OneInFlight, Sending, WakeTypeOK
<1>4. Pending'
  BY DEF Register, Pending, WakeTypeOK
<1>5. OverlapNeedsHook'
  BY DEF Register, OverlapNeedsHook
<1> QED BY <1>1, <1>2, <1>3, <1>4, <1>5

\* A wake that is skipped finds one in flight.
LEMMA ExchangeInv ==
  ASSUME WakeInv, NEW w \in Wakers, Exchange(w)
  PROVE  WakeInv'
<1> USE DEF WakeInv
<1>1. WakeTypeOK'
  BY DEF Exchange, Return, WakeTypeOK
<1>2. LockHeld'
  BY WakeAssumption DEF Exchange, Return, LockHeld, WakeTypeOK, Wakers
<1>3. OneInFlight'
  BY DEF Exchange, Return, OneInFlight, Sending, WakeTypeOK
<1>4. Pending'
  <2>1. CASE wakeQueued
    <3>1. WakeIn(events) => events # << >>
      BY DEF WakeIn, WakeTypeOK
    <3>2. \A v \in Wakers : waker[v] = "send" => waker'[v] = "send"
      BY DEF Exchange, Return, WakeTypeOK
    <3>3. \A v \in Wakers : v # w => waker'[v] = waker[v]
      BY DEF Exchange, Return, WakeTypeOK
    <3>4. link = "receive" =>
            events # << >> \/ overlapped' \/ \E v \in Wakers : waker[v] = "send"
      BY <2>1, <3>1 DEF Exchange, OneInFlight, Sending
    <3> QED BY <3>2, <3>3, <3>4 DEF Exchange, Pending, WakeTypeOK
  <2>2. CASE ~wakeQueued
    BY <2>2 DEF Exchange, Pending, WakeTypeOK
  <2> QED BY <2>1, <2>2
<1>5. OverlapNeedsHook'
  <2>1. ASSUME NEW v \in Wakers, waker[v] = "refused", Hooks = {}
        PROVE  FALSE
    BY <2>1, WakeAssumption DEF Exchange, LockHeld, WakeTypeOK, Wakers
  <2> QED BY <2>1 DEF Exchange, OverlapNeedsHook
<1> QED BY <1>1, <1>2, <1>3, <1>4, <1>5

\* A Wake goes into the queue, or the full queue refuses it.
LEMMA SendWakeInv ==
  ASSUME WakeInv, NEW w \in Wakers, SendWake(w)
  PROVE  WakeInv'
<1> USE DEF WakeInv
<1>a. CASE Len(events) < EventDepth
  <2>1. /\ events' \in Seq(Kinds) /\ events' # << >>
        /\ Len(events') = Len(events) + 1
        /\ WakeIn(events')
        /\ ~WakeIn(events) /\ AtMostOneWake(events) => AtMostOneWake(events')
    <3>1. events' = Append(events, "Wake")
      BY <1>a DEF SendWake
    <3>2. events \in Seq(Kinds) /\ "Wake" \in Kinds
      BY DEF WakeTypeOK, Kinds
    <3> QED BY <3>1, <3>2, AppendWakes
  <2>2. WakeTypeOK'
    BY <1>a, <2>1, WakeAssumption DEF SendWake, Return, WakeTypeOK
  <2>3. LockHeld'
    BY <1>a, WakeAssumption DEF SendWake, Return, LockHeld, WakeTypeOK, Wakers
  <2>4. OneInFlight'
    BY <1>a, <2>1 DEF SendWake, Return, OneInFlight, Sending, WakeTypeOK
  <2>5. Pending'
    BY <2>1 DEF Pending
  <2>6. OverlapNeedsHook'
    BY DEF SendWake, OverlapNeedsHook
  <2> QED BY <2>2, <2>3, <2>4, <2>5, <2>6
<1>b. CASE ~(Len(events) < EventDepth)
  <2>1. /\ events # << >>
        /\ UNCHANGED <<events, lock, wakeQueued, registered, known, link, overlapped>>
    BY <1>b, WakeAssumption DEF SendWake, WakeTypeOK
  <2>2. waker' = [waker EXCEPT ![w] = "refused"] /\ waker[w] = "send"
    BY <1>b DEF SendWake
  <2>3. WakeTypeOK'
    BY <2>1, <2>2 DEF WakeTypeOK
  <2>4. LockHeld'
    BY <2>1, <2>2 DEF LockHeld, WakeTypeOK
  <2>5. OneInFlight'
    BY <2>1, <2>2 DEF OneInFlight, Sending, WakeTypeOK
  <2>6. Pending' /\ OverlapNeedsHook'
    BY <2>1 DEF Pending, OverlapNeedsHook
  <2> QED BY <2>3, <2>4, <2>5, <2>6
<1> QED BY <1>a, <1>b

\* The flag is taken back.
LEMMA RefusedInv ==
  ASSUME WakeInv, NEW w \in Wakers, Refused(w)
  PROVE  WakeInv'
<1> USE DEF WakeInv
<1>1. WakeTypeOK'
  BY DEF Refused, Return, WakeTypeOK
<1>2. LockHeld'
  BY WakeAssumption DEF Refused, Return, LockHeld, WakeTypeOK, Wakers
<1>3. OneInFlight'
  BY DEF Refused, Return, OneInFlight, Sending, WakeTypeOK
<1>4. Pending'
  BY DEF Refused, Return, Pending, WakeTypeOK
<1>5. OverlapNeedsHook'
  BY DEF Refused, OverlapNeedsHook
<1> QED BY <1>1, <1>2, <1>3, <1>4, <1>5

\* The host task's events are no Wakes.
LEMMA PostInv ==
  ASSUME WakeInv, Post
  PROVE  WakeInv'
<1> USE DEF WakeInv
<1>a. /\ events' \in Seq(Kinds) /\ events' # << >> /\ Len(events') = Len(events) + 1
      /\ WakeIn(events') <=> WakeIn(events)
      /\ AtMostOneWake(events) => AtMostOneWake(events')
  BY AppendWakes DEF Post, WakeTypeOK, Kinds
<1>1. WakeTypeOK'
  BY <1>a, WakeAssumption DEF Post, WakeTypeOK
<1>2. LockHeld'
  BY DEF Post, LockHeld
<1>3. OneInFlight'
  BY <1>a DEF Post, OneInFlight, Sending
<1>4. Pending'
  BY <1>a DEF Pending
<1>5. OverlapNeedsHook'
  BY DEF Post, OverlapNeedsHook
<1> QED BY <1>1, <1>2, <1>3, <1>4, <1>5

\* Taking the Wake out of the queue leaves it with the link task.
LEMMA TakeEventInv ==
  ASSUME WakeInv, TakeEvent
  PROVE  WakeInv'
<1> USE DEF WakeInv
<1>a. /\ Head(events) \in Kinds /\ events' \in Seq(Kinds) /\ Len(events') <= Len(events)
      /\ AtMostOneWake(events) => AtMostOneWake(events')
      /\ Head(events) = "Wake" => WakeIn(events)
      /\ (Head(events) = "Wake" /\ AtMostOneWake(events)) => ~WakeIn(events')
      /\ Head(events) # "Wake" => (WakeIn(events') <=> WakeIn(events))
  BY TailWakes DEF TakeEvent, WakeTypeOK
<1>1. WakeTypeOK'
  BY <1>a, WakeAssumption DEF TakeEvent, WakeTypeOK
<1>2. LockHeld'
  BY DEF TakeEvent, LockHeld
<1>3. OneInFlight'
  BY <1>a DEF TakeEvent, OneInFlight, Sending
<1>4. Pending'
  BY DEF TakeEvent, Pending
<1>5. OverlapNeedsHook'
  BY DEF TakeEvent, OverlapNeedsHook
<1> QED BY <1>1, <1>2, <1>3, <1>4, <1>5

\* Looking at the deadlines, with or without dealing with some, leaves none unknown.
LEMMA EvaluateInv ==
  ASSUME WakeInv, Tick \/ Evaluate \/ WaitOver
  PROVE  WakeInv'
<1> USE DEF WakeInv
<1>1. WakeTypeOK'
  BY DEF Tick, Evaluate, WaitOver, WakeTypeOK
<1>2. LockHeld'
  BY DEF Tick, Evaluate, WaitOver, LockHeld
<1>3. OneInFlight'
  BY DEF Tick, Evaluate, WaitOver, OneInFlight, Sending
<1>4. Pending'
  BY DEF Tick, Evaluate, WaitOver, Pending
<1>5. OverlapNeedsHook'
  BY DEF Tick, Evaluate, WaitOver, OverlapNeedsHook
<1> QED BY <1>1, <1>2, <1>3, <1>4, <1>5

\* The flag is cleared after the Wake has left the queue.
LEMMA ConsumeInv ==
  ASSUME WakeInv, Consume
  PROVE  WakeInv'
<1> USE DEF WakeInv
<1>1. WakeTypeOK'
  BY DEF Consume, WakeTypeOK
<1>2. LockHeld'
  BY DEF Consume, LockHeld
<1>3. OneInFlight'
  BY DEF Consume, OneInFlight, Sending
<1>4. Pending'
  BY DEF Consume, Pending
<1>5. OverlapNeedsHook'
  BY DEF Consume, OverlapNeedsHook
<1> QED BY <1>1, <1>2, <1>3, <1>4, <1>5

LEMMA WakeStepInv == WakeInv /\ [WakeNext]_wakeVars => WakeInv'
<1> SUFFICES ASSUME WakeInv, [WakeNext]_wakeVars
             PROVE  WakeInv'
  OBVIOUS
<1>1. ASSUME NEW w \in Wakers, Register(w)
      PROVE  WakeInv'
  BY <1>1, RegisterInv
<1>2. ASSUME NEW w \in Wakers, Exchange(w) \/ SendWake(w) \/ Refused(w)
      PROVE  WakeInv'
  BY <1>2, ExchangeInv, SendWakeInv, RefusedInv
<1>3. CASE Post
  BY <1>3, PostInv
<1>4. CASE Tick \/ Evaluate \/ WaitOver
  BY <1>4, EvaluateInv
<1>5. CASE TakeEvent
  BY <1>5, TakeEventInv
<1>6. CASE Consume
  BY <1>6, ConsumeInv
<1>7. CASE UNCHANGED wakeVars
  BY <1>7 DEF wakeVars, WakeInv, WakeTypeOK, LockHeld, OneInFlight, Sending, Pending,
              OverlapNeedsHook
<1> QED BY <1>1, <1>2, <1>3, <1>4, <1>5, <1>6, <1>7 DEF WakeNext, WakeLink

\* The invariant of the wake protocol (link_transport_ble.cpp, wake_link() and
\* link_task()) holds for any tasks and any queue: at most one Wake is in
\* flight, and the lock excludes the workers from each other.
THEOREM WakeInvariant == WakeSpec => []WakeInv
<1>1. WakeInit => WakeInv
  BY WakeInitInv
<1>2. WakeInv /\ [WakeNext]_wakeVars => WakeInv'
  BY WakeStepInv
<1> QED BY <1>1, <1>2, PTL DEF WakeSpec

\* wake_link() does what its comment says, but for a wake skipped for another's
\* that the full queue refused; among workers alone, without exception.
THEOREM EveryDeadlineNoticed == WakeSpec => []WakeNoticed
<1>1. WakeInv => overlapped \/ EveryWakeNoticed
  <2> SUFFICES ASSUME WakeInv, ~overlapped, link = "receive", events = << >>,
                      \A w \in Wakers : waker[w] = "idle"
               PROVE  known = registered
    BY DEF EveryWakeNoticed
  <2>1. ASSUME NEW w \in registered \ known
        PROVE  FALSE
    BY <2>1 DEF WakeInv, Pending, WakeTypeOK
  <2> QED BY <2>1 DEF WakeInv, WakeTypeOK
<1>2. WakeInv => WakeNoticed
  BY <1>1 DEF WakeNoticed, WakeInv, OverlapNeedsHook
<1>3. WakeSpec => []WakeInv
  BY WakeInvariant
<1> QED BY <1>2, <1>3, PTL
=============================================================================
