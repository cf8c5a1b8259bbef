------------------------------ MODULE BleTransport ------------------------------
(***************************************************************************)
(* Companion sessions over BLE (src/src/hal/link/link_transport_ble.cpp):  *)
(* the NimBLE host task posts GATT events to a bounded queue, the link     *)
(* task turns them into sessions of the link service one store at a time,  *)
(* and the tx task notifies what the service has queued.                   *)
(*                                                                         *)
(* The phone's side is what the host task sees of it: connections, and on  *)
(* a connection the app session that subscribed last. App sessions are     *)
(* numbered; the number is not on the wire and rides on events as history. *)
(* Packets have no contents. Packet sizes, MTU events, the connection      *)
(* band, wake-ups and the tick are left out.                               *)
(***************************************************************************)
EXTENDS Integers, Sequences

CONSTANTS
  Handles,     \* connection handles
  NoHandle,    \* NO_HANDLE
  MaxApps,     \* bound: app sessions
  QueueDepth,  \* g_queue
  TxDepth,     \* g_txq
  MaxLost      \* bound: control events lost to a queue full for 50 ms

ASSUME BleAssumption ==
  /\ NoHandle \notin Handles
  /\ MaxApps \in Nat /\ QueueDepth \in Nat \ {0} /\ TxDepth \in Nat \ {0}
  /\ MaxLost \in Nat

Apps == 1 .. MaxApps

VARIABLES
  connected,  \* handles with a connection
  app,        \* handle -> the app session subscribed on it, 0 for none
  apps,       \* app sessions so far
  alone,      \* history: handles whose app subscribed with Bluetooth on and
              \* nobody subscribed on another handle
  btOn,       \* g_bt_on
  queue,      \* g_queue: [kind, conn, app]
  lost,       \* control events lost
  companion,  \* g_companion
  epoch,      \* g_epoch
  todo,       \* link task: the stores left of the event it handles
  event,      \* link task: that event
  service,    \* the service's session: [epoch, conn, app], epoch 0 for none
  txq,        \* g_txq: [epoch, conn]
  packet,     \* tx task: the packet in hand, epoch 0 for none
  checked,    \* tx task: its session was still the current one
  stray       \* history: packets notified since the current session came up, or
              \* the last went down, that were not its own

host == <<connected, app, apps, alone, btOn, queue, lost>>
linkTask == <<companion, epoch, todo, event, service>>
txTask == <<packet, checked, stray>>
vars == <<host, linkTask, txq, txTask>>

NoSession == [epoch |-> 0, conn |-> NoHandle, app |-> 0]
NoPacket == [epoch |-> 0, conn |-> NoHandle]
NoEvent == [kind |-> "None", conn |-> NoHandle, app |-> 0]

Init ==
  /\ connected = {} /\ app = [h \in Handles |-> 0] /\ apps = 0 /\ alone = {}
  /\ btOn = TRUE /\ queue = << >> /\ lost = 0
  /\ companion = NoHandle /\ epoch = 0
  /\ todo = << >> /\ event = NoEvent /\ service = NoSession
  /\ txq = << >> /\ packet = NoPacket /\ checked = FALSE /\ stray = 0

-----------------------------------------------------------------------------
(* The host task: post() *)

\* A control event is queued, or waits for room and gives up.
PostControl(kind, h, a) ==
  \/ /\ Len(queue) < QueueDepth
     /\ queue' = Append(queue, [kind |-> kind, conn |-> h, app |-> a])
     /\ UNCHANGED lost
  \/ /\ Len(queue) = QueueDepth /\ lost < MaxLost
     /\ lost' = lost + 1
     /\ UNCHANGED queue

\* A packet is queued or dropped.
PostPacket(h) ==
  /\ IF Len(queue) < QueueDepth
     THEN queue' = Append(queue, [kind |-> "Packet", conn |-> h, app |-> app[h]])
     ELSE UNCHANGED queue
  /\ UNCHANGED lost

Connect(h) ==
  /\ btOn /\ h \notin connected
  /\ connected' = connected \cup {h}
  /\ UNCHANGED <<app, apps, alone, btOn, queue, lost, linkTask, txq, txTask>>

\* onSubscribe(): a new app session, on a fresh connection or, the system
\* keyboard having kept it up, on that of the last one.
Subscribe(h) ==
  /\ h \in connected /\ apps < MaxApps
  /\ apps' = apps + 1
  /\ app' = [app EXCEPT ![h] = apps']
  /\ alone' = IF btOn /\ \A g \in Handles \ {h} : app[g] = 0 THEN alone \cup {h} ELSE alone \ {h}
  /\ PostControl("Subscribe", h, apps')
  /\ UNCHANGED <<connected, btOn, linkTask, txq, txTask>>

\* onSubscribe() with notifications off
Unsubscribe(h) ==
  /\ app[h] # 0
  /\ app' = [app EXCEPT ![h] = 0]
  /\ alone' = alone \ {h}
  /\ PostControl("Unsubscribe", h, app[h])
  /\ UNCHANGED <<connected, apps, btOn, linkTask, txq, txTask>>

\* onWrite()
Write(h) ==
  /\ app[h] # 0
  /\ PostPacket(h)
  /\ UNCHANGED <<connected, app, apps, alone, btOn, linkTask, txq, txTask>>

\* on_disconnect()
Disconnect(h) ==
  /\ h \in connected
  /\ connected' = connected \ {h}
  /\ app' = [app EXCEPT ![h] = 0]
  /\ alone' = alone \ {h}
  /\ PostControl("Disconnect", h, app[h])
  /\ UNCHANGED <<apps, btOn, linkTask, txq, txTask>>

\* set_enabled(): off also asks the stack to drop the connections, which then
\* disconnect one by one.
SetEnabled ==
  /\ btOn' = ~btOn
  /\ alone' = {}
  /\ IF btOn THEN PostControl("Drop", NoHandle, 0) ELSE UNCHANGED <<queue, lost>>
  /\ UNCHANGED <<connected, app, apps, linkTask, txq, txTask>>

-----------------------------------------------------------------------------
(* The link task: handle() *)

\* companion_down() and companion_up() as the stores others can see.
Down == <<"clear companion", "service down">>
Up == <<"next epoch", "set companion", "service up">>

\* Mutation of Stores: a subscribe on the companion's own handle is ignored.
StoresKeepSession(e) ==
  IF companion # NoHandle
  THEN IF e.kind = "Drop" \/ (e.kind \in {"Unsubscribe", "Disconnect"} /\ e.conn = companion)
       THEN Down ELSE << >>
  ELSE IF e.kind = "Subscribe" /\ btOn THEN Up ELSE << >>

\* What an event makes the link task do.
Stores(e) ==
  CASE e.kind = "Subscribe" /\ companion = e.conn -> Down \o Up
    [] e.kind = "Subscribe" /\ companion = NoHandle /\ btOn -> Up
    [] e.kind \in {"Unsubscribe", "Disconnect"} /\ companion = e.conn -> Down
    [] e.kind = "Drop" /\ companion # NoHandle -> Down
    [] OTHER -> << >>

\* The next event, handled up to its first store. A packet goes to the service
\* here when it is the companion's.
Receive ==
  /\ todo = << >> /\ queue # << >>
  /\ queue' = Tail(queue)
  /\ todo' = Stores(Head(queue))
  /\ event' = IF todo' = << >> THEN NoEvent ELSE Head(queue)
  /\ UNCHANGED <<connected, app, apps, alone, btOn, lost, companion, epoch, service, txq, txTask>>

Doing(store) ==
  /\ todo # << >> /\ Head(todo) = store
  /\ todo' = Tail(todo)
  /\ event' = IF todo' = << >> THEN NoEvent ELSE event

ClearCompanion ==
  /\ Doing("clear companion")
  /\ companion' = NoHandle
  /\ stray' = 0
  /\ UNCHANGED <<host, epoch, service, txq, packet, checked>>

\* service_on_disconnect()
ServiceDown ==
  /\ Doing("service down")
  /\ service' = NoSession
  /\ UNCHANGED <<host, companion, epoch, txq, txTask>>

NextEpoch ==
  /\ Doing("next epoch")
  /\ epoch' = epoch + 1
  /\ stray' = 0
  /\ UNCHANGED <<host, companion, service, txq, packet, checked>>

SetCompanion ==
  /\ Doing("set companion")
  /\ companion' = event.conn
  /\ UNCHANGED <<host, epoch, service, txq, txTask>>

\* service_on_connect()
ServiceUp ==
  /\ Doing("service up")
  /\ service' = [epoch |-> epoch, conn |-> event.conn, app |-> event.app]
  /\ UNCHANGED <<host, companion, epoch, txq, txTask>>

-----------------------------------------------------------------------------
(* The service sends: send_packet(), any task *)

\* A packet of the service's session is queued, unless the queue is full or the
\* session's epoch has passed.
Send ==
  /\ service.epoch # 0 /\ service.epoch = epoch
  /\ Len(txq) < TxDepth
  /\ txq' = Append(txq, [epoch |-> service.epoch, conn |-> service.conn])
  /\ UNCHANGED <<host, linkTask, txTask>>

-----------------------------------------------------------------------------
(* The tx task *)

\* The next packet.
Take ==
  /\ packet = NoPacket /\ txq # << >>
  /\ packet' = Head(txq) /\ txq' = Tail(txq)
  /\ checked' = FALSE
  /\ UNCHANGED <<host, linkTask, stray>>

\* Mutation of Current: the epoch is not compared.
CurrentHandle(p) == p.conn = companion

\* The session of the packet is the current one.
Current(p) == p.epoch = epoch /\ p.conn = companion

\* What a notified packet should be, for the history.
OfTheSession(p) == companion # NoHandle /\ p.epoch = epoch

\* The check before notify(); leftovers of an old session are dropped.
CheckSession ==
  /\ packet # NoPacket /\ ~checked
  /\ IF Current(packet) THEN checked' = TRUE /\ UNCHANGED packet
                        ELSE packet' = NoPacket /\ UNCHANGED checked
  /\ UNCHANGED <<host, linkTask, txq, stray>>

\* notify() takes the packet.
Notify ==
  /\ checked
  /\ packet' = NoPacket /\ checked' = FALSE
  /\ stray' = IF OfTheSession(packet) THEN stray ELSE stray + 1
  /\ UNCHANGED <<host, linkTask, txq>>

\* No radio space: poll again.
NotifyFails ==
  /\ checked
  /\ checked' = FALSE
  /\ UNCHANGED <<host, linkTask, txq, packet, stray>>

\* No radio space for the stall budget: the packet and the queue are dropped.
NotifyStalls ==
  /\ checked
  /\ packet' = NoPacket /\ checked' = FALSE
  /\ txq' = << >>
  /\ UNCHANGED <<host, linkTask, stray>>

HostStep ==
  \/ \E h \in Handles :
       Connect(h) \/ Subscribe(h) \/ Unsubscribe(h) \/ Write(h) \/ Disconnect(h)
  \/ SetEnabled

LinkStep ==
  \/ Receive
  \/ ClearCompanion \/ ServiceDown
  \/ NextEpoch \/ SetCompanion \/ ServiceUp

TxStep == Take \/ CheckSession \/ Notify \/ NotifyFails \/ NotifyStalls

Next == HostStep \/ LinkStep \/ Send \/ TxStep

Spec == Init /\ [][Next]_vars

\* The link task is scheduled: its receive blocks only on an empty queue.
FairSpec == Spec /\ WF_vars(LinkStep)

-----------------------------------------------------------------------------
(* Properties *)

Controls == {"Subscribe", "Unsubscribe", "Disconnect"}
Events ==
  [kind : Controls \cup {"Packet"}, conn : Handles, app : 0 .. MaxApps]
    \cup {[kind |-> "Drop", conn |-> NoHandle, app |-> 0]}
Packets == [epoch : Nat \ {0}, conn : Handles]
Sessions == [epoch : Nat \ {0}, conn : Handles, app : 0 .. MaxApps]

\* Types and queue bounds.
TypeOK ==
  /\ connected \subseteq Handles /\ app \in [Handles -> 0 .. MaxApps]
  /\ apps \in 0 .. MaxApps /\ alone \subseteq Handles /\ btOn \in BOOLEAN
  /\ queue \in Seq(Events) /\ Len(queue) <= QueueDepth /\ lost \in 0 .. MaxLost
  /\ txq \in Seq(Packets) /\ Len(txq) <= TxDepth
  /\ companion \in Handles \cup {NoHandle} /\ epoch \in Nat
  /\ event \in Events \cup {NoEvent} /\ service \in Sessions \cup {NoSession}
  /\ packet \in Packets \cup {NoPacket} /\ checked \in BOOLEAN /\ stray \in Nat
  /\ checked => packet # NoPacket

\* Between events the service has a session exactly when the companion is set,
\* and of the current epoch; and where companion, epoch and service stand
\* before each store of an event.
Serving == companion # NoHandle /\ service.epoch = epoch /\ service.conn = companion
Silent == companion = NoHandle /\ service = NoSession
Coming == event.kind = "Subscribe" /\ event.conn \in Handles

LinkControl ==
  \/ todo = << >> /\ (Serving \/ Silent)
  \/ todo = Down /\ Serving
  \/ todo = Down \o Up /\ Serving /\ Coming /\ event.conn = companion
  \/ todo = Tail(Down) /\ companion = NoHandle
  \/ todo = Tail(Down \o Up) /\ companion = NoHandle /\ Coming
  \/ todo = Up /\ Silent /\ Coming
  \/ todo = Tail(Up) /\ Silent /\ Coming /\ epoch > 0
  \/ todo = Tail(Tail(Up)) /\ companion = event.conn /\ service = NoSession /\ Coming /\ epoch > 0

\* Once a session is up, or down, at most one packet of another still goes out:
\* the one the tx task had checked before (handler order of
\* link_transport_ble.cpp:277 and 282; "a resubscribe on the same handle never
\* receives the previous session's packets", line 111, but for that one).
AtMostOneStray == stray <= 1

\* That packet is the one in the tx task's hand.
OneChecked == checked => OfTheSession(packet) \/ stray = 0

\* The app session the link task serves, or will when the stores left are done.
UpToCome == todo # << >> /\ todo[Len(todo)] = "service up"
Serves(h, a) ==
  IF UpToCome THEN event.conn = h /\ event.app = a
  ELSE todo = << >> /\ service.conn = h /\ service.app = a

\* What the link task knows of a connection when it gets to an event: the last
\* control event before it, or else the session it serves.
ControlOn(e, h) == e.kind \in Controls /\ e.conn = h
Quiet(h, m, n) == \A k \in m .. n : ~ControlOn(queue[k], h)
Announced(h, i, a) ==
  \/ \E j \in 1 .. i - 1 :
       /\ queue[j].kind = "Subscribe" /\ queue[j].conn = h /\ queue[j].app = a
       /\ Quiet(h, j + 1, i - 1)
  \/ Quiet(h, 1, i - 1) /\ \A b \in 0 .. MaxApps : Serves(h, b) => b = a

\* Unless a control event was lost, that is the app session that writes, and
\* the one that wrote each packet in the queue.
AppsAnnounced ==
  lost = 0 =>
    /\ \A i \in 1 .. Len(queue) :
         queue[i].kind = "Packet" => Announced(queue[i].conn, i, queue[i].app)
    /\ \A h \in Handles : app[h] # 0 => Announced(h, Len(queue) + 1, app[h])

(* The types, where the link task stands, packets that stay with their     *)
(* session, and events that say whose packets follow: the inductive        *)
(* invariant.                                                              *)
BleInv == TypeOK /\ LinkControl /\ AtMostOneStray /\ OneChecked /\ AppsAnnounced

\* Unless a control event was lost, a packet that reaches the service was
\* written by the app session the service's session was opened for, even when
\* the app came back on the same connection.
PacketsOfTheSession ==
  \A e \in {queue[i] : i \in 1 .. Len(queue)} :
    (lost = 0 /\ todo = << >> /\ e = Head(queue) /\ e.kind = "Packet" /\ e.conn = companion)
      => e.app = service.app

\* An app session that subscribed beside no other, and stays, ends up with a
\* session of its own if no control event was lost.
SubscriberServed ==
  \A h \in Handles, a \in Apps :
    <>[](app[h] = a /\ h \in alone /\ lost = 0)
      => <>[](service.app = a \/ \E g \in Handles \ {h} : app[g] # 0)
=============================================================================
