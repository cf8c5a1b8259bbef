# Verification of the pager's link, storage and update protocols

The repository is the firmware of a pager (ESP32-S3, FreeRTOS, LVGL) whose network is a phone: over **PagerLink**, a
protocol on BLE (or, in the emulator, on TCP), the phone answers requests, moves files and updates the firmware. What
arrives ends on flash: notes on two volumes, encrypted under a passphrase that can change, and firmware in two slots.
This directory holds TLA+ models of that stack and of what it leaves on flash, translated from `src/src/hal/` and
`src/src/core/`, the TLC runs that check them on small instances, and TLAPS proofs of what should hold for every
instance. Paths below are relative to the directory that holds `src/`; a line number without a file belongs to the file
named just before it.

- `X.tla` models a component, `MCX.tla` and a `.cfg` instantiate it for TLC. A `...Proofs.tla` proves theorems about
  the components it extends: one, or two that belong together (section 6).
- `PROJECT.json` maps every definition to the source lines it stands for and lists runs, mutations, hazards, findings
  and theorems. A definition whose comment begins with "Mutation of" is never used by a specification: it is a
  plausible bug, and it shows that a property can fail. The property it is listed with must be violated when it
  replaces the definition it mutates.

Contents: [1 Inventory](#1-inventory) · [2 Plan](#2-plan) · [3 The modules](#3-the-modules) · [4 The runs](#4-the-runs)
· [5 Fairness](#5-fairness) · [6 The proofs](#6-the-proofs) · [7 Findings](#7-findings) ·
[8 What is not modelled](#8-what-is-not-modelled)

## 1 Inventory

### How the parts fit

```
   UI thread          worker jobs (note sync, chat, telegram, weather)        storage save task
       |  ui_post            | hw_link_call, hw_link_send_bytes, hw_link_accept_wait     | generation hook
       +----------------+----+-----------------------------------------------+           |
                        v                                                    |           v
   link service (one recursive mutex): Rpc | fs handlers | sends | accepts | events    wake_link()
                        |  XferSender / XferReceiver per transfer                        |
                        v                                                                |
              Segmenter / Reassembler (one pair per session)                             |
                        v                                                                v
   BLE transport:  g_txq -> tx task -> notify()          host task -> g_queue -> link task (service_on_*, service_tick)
```

Two rules make the grain of the models. Every entry into the service (`service_call`, `service_on_packet`,
`service_tick`, `service_on_connect`, ...) takes the service's recursive mutex, so an entry is one step unless it runs
callbacks that may re-enter it or blocks with the mutex held. The transport below has no such lock: its tasks share
atomics and FreeRTOS queues, so each access to one of those is a step.

### Components

| component | state it keeps | operations | what is hard | correct means |
|---|---|---|---|---|
| **Bulk engine** `link_xfer.cpp` | sender: acked, next, high, rewound, credits; receiver: next, last ACK, since-ACK count, gap flag | pump, on_ack, retransmit; on_data | lost DATA and ACKs, go-back-N, a timer racing late ACKs, credits that shrink, a failing read, write or send | the bytes arrive once and in order; the window bounds what is in flight; few ACKs per gap; the two never wait for each other |
| **Framing** `link_frame.cpp` | rolling counter; expected counter, partial message, discarding flag | send; feed, reset | lost packets, refused packets, counter wrap, oversize, new sessions | a fault costs the message it hit and nothing else |
| **RPC** `link_rpc.cpp` | pending table, next id | call, responses, tick, disconnect | ids and clock wrap, late responses, callbacks that call again, sends that fail | a callback per accepted request: one, the right one, in time |
| **File service** `handlers_fs.cpp` | open transfers with handles, stale marks, CRC; directory | read, write.begin/commit/abort, delete, rename, stall, disconnect | transfers that share a path, staging files, power loss, partial failure | a commit publishes its own bytes; reads do not mix files; nothing left behind |
| **Inbound transfers** `service_accept_*`, `hw_link_accept_wait` | table of receivers: early DATA, overflow, waiter, stall clock | open, expect (with replay), feed, close, stall, disconnect | DATA before its announcement, four ways to end racing for one callback | one verdict, "ok" only with the whole body, the worker always returns |
| **Outbound transfers** `service_send_bytes` | table of sends: sender, stall clock, callback | send, ACK, stall, disconnect | erasing during iteration, a clock read before callbacks | as above, for sends |
| **BLE transport, sessions** `link_transport_ble.cpp` | companion, epoch, `g_queue`, `g_txq`, Bluetooth switch | GATT callbacks, handle(), send_packet(), tx task, set_enabled() | four tasks and no lock, a connection that outlives the app's session, full queues | packets go to, and come from, the session they belong to; a subscriber gets a session |
| **BLE transport, wake-ups** `wake_link()` | `g_wake_queued`, a Wake in `g_queue`, the wait | wake, wait, consume | exchange, send and store are three steps, on any task, some without the lock | no deadline is slept through |
| **Events and subscribers** | last generation, coalescing windows, settings subscribers | tick, emit, subscribe | coalescing against a read in between | the last change is announced |
| **CRC cache, volumes** `crc_cache.cpp`, `fs_volume.cpp` | LRU keyed by path, size, time, generation | lookup, store | a stale key | never the CRC of another content |
| **Storage** `storage.cpp`, `storage_bulk.cpp` | one background save, idle bit, dirty mark in RAM and NVS, generation, two volumes | save, wait, evict, conditional delete, flush, persist | five tasks write the same notes; a flag and its event bit are two stores; power may go anywhere | the last text saved stays; a change leaves its mark; a conditional delete removes what it checked |
| **Notes encryption** `notes_crypto.cpp`, `secrets.cpp` | copies and staged copies on two volumes; canary, pending marker and secrets in NVS; session, key epoch | set, change, remove the passphrase, unlock and recover, lock, encrypt existing | power loss at any write, a card taken out, a read that fails, another task saving | every note opens under the passphrase of the canary; a change happens in one step |
| **Firmware update** `ota.cpp`, `ota_state.cpp`, `handlers_ota.cpp` | two slots, boot slot, previous slot, pending mark, boot count | apply, boot check, confirm | resets between two stores; job, check and confirm task share NVS without a lock | only what was asked for boots; a bad image rolls back |
| **Worker jobs, UI posts** `one_shot_job.h`, `ui_post.cpp` | running, detached, generation; bounded post queue | start, attach, teardown, abandon, post, drain, deliver | a job outliving its screen, a new run started beside an abandoned one, a full queue | each result goes to its own run once or is freed; every run ends |
| **Other handlers, JSON, TCP transport** | none between calls, or text | request and answer | little: synchronous | - |
| **Phone-backed services** `tg_link.cpp`, `notes_link.cpp`, ... | none of the protocol's | one RPC and at most one transfer per call | what RPC and transfers meet | - |
| **UI, apps, drivers, lilyhub server, iOS app** | screens, devices, HTTP caches, the mirrored engine | - | outside the protocol | - |

The statuses, with what each partly modelled component leaves out, are in `PROJECT.json` under "components"; section 8
repeats the reasons. What is hard to test in all of this is listed there line by line under "hazards", with the
property that watches it or a note on why none does yet.

## 2 Plan

The order follows the data: what everything else relies on comes first.

1. *(done)* **Transfer** (abstract), **BulkXfer**, its proofs: the engine under every transfer.
2. *(done)* **Framing**, its proofs: what the engine and RPC stand on.
3. *(done)* **LinkRpc**, its proofs: requests and callbacks.
4. *(done)* **FsTransfers**, its proofs: the file service on top of the engine, its chunks arriving once and in order
   because of 1.
5. *(done)* **AcceptTransfer**, its proofs: composes BulkXfer (EXTENDS) with the worker, the service's table and the
   session.
6. *(done)* **BleTransport**, its proofs: sessions and packets below all of it.
7. *(done)* **LinkWake**, its proofs: how the service's deadlines reach the sleeping link task.
8. *(done)* **NotesRekey**, against **NotesVault** (abstract), its proofs: setting, changing and removing the
   passphrase.
9. *(done)* **NoteSaves**, its proofs: saves, eviction, conditional delete, the dirty mark.
10. *(done)* **OtaBoot**, its proofs: update, boot check, confirmation.
11. *(done)* **OneShotJob**, against **OneCall** (abstract), its proofs: worker jobs and posts to the UI thread.
12. **Outbound sends and the tick**: `service_send_bytes`, the iteration of `service_tick`, coalesced events, and the
    receive queue shared by two uploads' windows (`QUEUE_DEPTH` against the credits `link_frame.cpp` grants).

Abstract specifications: Transfer for the engine, NotesVault for the encryption of notes, OneCall for a job. Each is
checked and proved as a refinement.

Theorems: every invariant and every action property that a run checks is proved (section 6). What is left to prove comes
with the models of item 12, and with abstract specifications of the file service (an upload replaces a file in one step)
and of the callbacks of Rpc.

## 3 The modules

### Transfer and BulkXfer: `link_xfer.cpp`

`BulkXfer` has an `XferSender` (`acked`, `next`, `high`, `rewound`, `credits`, `sState`), an `XferReceiver` (`rNext`,
`lastAck`, `sinceAck`, `gapAcked`, `rState`) and two FIFO links that lose messages. Offsets count chunks: both ends only
ever name chunk boundaries. Actions are the entries into the engine: `Begin` is the owner's first `pump()`,
`ReceiveAck` is `on_ack()` (split into `IgnoreAck`, `DuplicateAck`, `ProgressAck` along its early returns) with the pump
its owner makes next, `ReceiveData` is `on_data()` (`DataAfterDone`, `DataOutOfOrder`, `DataInOrder`) with the ACKs it
sends, `Retransmit` the timer. Each read, write and send may fail part of the way through a step, which leaves exactly
the prefix sent. CRC-32 is left out: the receiver computes it over what it stores, and `InOrderOnce` says that this is
the source. `Transfer` says what an owner sees of a transfer: chunks are delivered, the sender learns of them in order,
and ends with a verdict that is "Done" only when everything is delivered.

### Framing: `link_frame.cpp`

`Segmenter` (`seq`, the message under way) and `Reassembler` (`expected`, `partial`, `open`, `discarding`). A packet is
fed or lost in the step that sends it: packets keep their order, so what a Reassembler does depends only on which
arrive. `Arrives` is `feed()`, in the three ways it can end; `Abort` is a sink that refuses a packet; `Reconnect` is a
new session. Messages are runs of distinct pieces `<<m, i>>`, so mixing two messages, or dropping the middle of one,
would be seen. A loss run may have any length. The counter has 64 values (`link_frame.h` 36), and one session can lose
more than that in a row: `tx_flush()` drops a queue of up to 336 packets (`link_transport_ble.cpp` 252-289), a full
receive queue of 304 drops what comes. A run of exactly 64, or a multiple, does not show at the next packet. `turns`
counts the runs that got so far, `blind` says that the reassembler reads on after one that did not show, and `strays`
and `mixtures` what came of it, so that the properties can say that nothing comes of anything less.

### LinkRpc: the request side of `link_rpc.cpp`

`pending`, `next_id_`, the wrapping clock and ids, and a peer that answers late, never, or in any order. `tick()` and
`disconnect()` take the entries out of the table first and run their callbacks afterwards; the callbacks may `call()`
again while the lock is held. That is `running`: while it is not empty only callbacks act. The one assumption about the
peer is `InTime`: a response is less than a full round of ids (32768 requests) late. Without it an answer could meet
another request of the same id, and nothing in the protocol could tell.

### FsTransfers: `handlers_fs.cpp`

Directory entries name files, handles keep the file they were opened on, and a path is a name with a number of `.part`
suffixes, so that an upload to `a.part` meets the staging file of an upload to `a`. A handler is one action, with its
closing of other transfers' files (`close_files_under()`) and with `drop()`, which removes whatever the staging path
names. Any removal may fail, that of `drop()` included (`Unstage`; `FsReset` chooses which of the removals fail), and so
may the rename and the creation of a staging file (`WriteBeginFails`). What a failed removal leaves is an `orphan`.
`PowerLoss` may come between the removal and the rename of a commit. `bad` is a wrong CRC announced by the phone.

### AcceptTransfer: `link_service.cpp`, `link_call.cpp`

EXTENDS BulkXfer: the phone is its sender, the pager's receiver is inside an entry of `State::inbound`. `phase` follows
the entry: open (DATA is buffered in `early`), replaying (inside `service_accept_expect()`, which feeds what was
buffered while it holds the lock), live, spent (the callback has run, the entry stays until `close`), gone. The callback
`done` is taken by whichever comes first: the last DATA, a failed write, the stall timer, the disconnect.

### BleTransport: `link_transport_ble.cpp`

Four tasks. The NimBLE host task posts GATT events to a bounded queue; control events wait 50 ms for room and are then
lost, packets are dropped at once. The link task turns an event into stores that others see one at a time (`Stores`:
`companion_down()` clears the companion and then tells the service; `companion_up()` raises the epoch, sets the
companion, tells the service). Any task queues packets for the session it sees. The tx task takes a packet, checks its
epoch and handle, and notifies it, three steps. App sessions are numbered, a number that is not on the wire: it lets a
property say that a packet belongs to the session it arrives in even if the app came back on the connection the system
keyboard kept up.

### LinkWake: `wake_link()` and the wait of `link_task()`

`Exchange`, `SendWake` and `Refused` are the three accesses of `wake_link()`; `Evaluate` computes the wait, `TakeEvent`
takes an event, `Consume` clears the flag. A worker holds the service lock throughout; the storage hook, called by
whoever saved a file, does not. `known` is the deadlines the present wait was computed from. The queue is BleTransport's
`g_queue`, seen as what may fill it; the two modules' names do not collide, so that one module extends both.

### NotesRekey and NotesVault: `notes_crypto.cpp`

A note has up to two copies, one per volume, each with a key (a passphrase, plain, or torn) and a version; beside a
copy there may be a staged one (`raw_*` on the staged path). `pc` is the worker inside one of the calls, `goal` which
call it is: every call but `notes_crypto_set_passphrase` starts with the unlock, which settles an interrupted change
(`Walk`, then `Install`/`Unstage` forward or `Discard` back, `SettleSecrets`, `ClearSd`, `Clear`). A change marks
(`Mark`), stages (`Stage`, `StageSecret`), writes the canary (`Commit`) and settles forward (`Switch`). One action is
one write to a volume or NVS, and `Reset` may fall between any two. `Reaches` is what `raw_*` see: the card is in the
slot *and* the last mount found it; `card` and `online` differ after the card was moved. The key epoch is `overtaken`:
whether a lock landed after the unlock read it.

What may go wrong: a read or a write of a file fails (`Fails`, and `AfterFailedWrite` for what is left); a read returns
less than the file without an error (`ReadsShort`: `fs_read_all()` does not look, `fs_util.h` 22-39); an NVS write or
delete fails (`NvsFails`), those whose result the code ignores included: the canary of a first passphrase, the removal
of staged secrets and of the two markers. The reads of the canary and of the two markers are taken to succeed; a secret
slot's may fail, which leaves the secret out of the change (`StageSecret`).

Other tasks save while all this goes on. `SaveNote` encodes a text under the session's passphrase as it is then, and
`WriteNote` writes it to one volume and then to the other; `SaveSecret`, `WriteSecret` and `ClearSecret` are
`secret_store()`, whatever the worker is doing. Any step of a change may fall between the halves.

The code cannot keep its promise for all that this leads to. Two history variables collect the exceptions at the steps
where they arise, and the properties hold for everything else.

- `excused`, a set of copies: what a listing cannot reach because the card is out; what a call passes over because a
  read failed or came back short; what a failed write damaged; what another task wrote during a call, beside a staged
  copy, or under a passphrase that was changed since it was encoded; what is encrypted although the canary of a first
  passphrase was lost.
- `strayed`: the secret was stored under a passphrase that was changed since, or after the call had staged or erased the
  secrets (`TooLate`); or a step of the call could not read or delete it.

NotesVault is the promise: a passphrase, and what each copy opens to. The canary moves the passphrase in one step and
leaves every text; a text only becomes newer; a copy out of reach is lost and stays so. The refinement mapping takes the
canary for the passphrase and, for a copy, what the next unlock would make of it.

### NoteSaves: `storage.cpp`, with `handlers_fs.cpp` 550-600

Five tasks: the UI thread (editor and sleep), one task per background save, the eviction, the link task's conditional
delete. A step is one file write, one NVS write or one access to a shared flag: `Announce` clears the idle bit and then
sets `s_save_pending`, `SetIdle` clears the flag and then sets the bit, `Mark`/`MarkNvs` are the two halves of
`hw_set_filesystem_dirty(true)`, `Persist` the writes of `hw_filesystem_dirty_persist()` under its mutex. `PowerOn`
loses everything in RAM at any moment. Texts are versions, so that "the older text" can be said.

### OtaBoot: `ota.cpp`, `ota_state.cpp`, `handlers_ota.cpp`

Two slots, the boot slot (otadata), three NVS keys. The apply job hashes the file, erases the other slot, reads the file
a second time in two parts, switches the boot slot, stores `prev`, then the pending mark and the count; the boot check
decides with `OnBoot` (`ota_on_boot`), saves, switches back; the confirm task clears mark, count and target. Each store
is a step. The uploaded file may change under the job (`Upload`). Images outside `Good` crash after the boot check.
`hasty` records that an update was begun by an image that had not confirmed itself, and `gap` that, or that a reset fell
where the code has no answer (section 7). What is said of the image that boots excepts `hasty` only.

### OneShotJob and OneCall: `one_shot_job.h`, `ui_post.cpp`

The job's three fields, the workers it has created (`pc`, `ctxGen`, `res`), the bounded post queue and the batch
`ui_post_drain()` swaps out before it runs closures. `Start`, `Attach`, `Teardown`, `Abandon` may be called from inside
the job's own callback (`calling`). OneCall is what the app is promised: one run at a time is its own, whose result it
gets at most once and only while it waits. The mapping takes the worker that has the job's generation for the run the
app owns.

## 4 The runs

| run | specification | what it shows | bounds, and why they are enough |
|---|---|---|---|
| `xfer` | BulkXfer FairSpec | `XferInv`, `InOrderOnce`, `CreditWindow`, `AckBound`, refinement of Transfer, `Completes` | six chunks from 1 to 7, first window 4, later windows 3, an ACK every 2: more than a window, both window sizes, an unaligned end, a resumed start. Three losses each way lose a whole window and each re-ACK in turn; the timer fires with five messages on the link, more than a window; one fault at every place one can occur. The ACKs of a window and the answer to the gap behind it are three here (`WindowAcks` is two), so the one deadlock `Completes` names is reached, and no other. |
| `framing` | Framing Spec | `FrameInv`, `DeliversWhatArrived`, `OneResetPerFault` | counter period 3, loss runs up to 6 (two whole turns), messages of up to 5 packets where 4 fit, four messages: the counter wraps inside, between and across messages, and a message outlasts a turn |
| `rpc` | LinkRpc FairSpec | `RpcInv`, `RightAnswer`, `TimeoutIsDue`, `EveryCallReturns` | two pending of three ids, four calls: ids come round while one is outstanding; a clock of 8 with timeouts 1 and 3 wraps under deadlines |
| `fs` | FsTransfers FsSpec | `FsInv`, `ReadsOneFile`, `CommitsItsOwn`, `KeepsFiles` | one name with up to two suffixes gives the three paths an upload can collide on; any removal may fail; two transfers at once (one read, one upload or two uploads), two more files than there are at the start, sizes 0 and 2 |
| `accept` | AcceptTransfer AcceptFairSpec | `AcceptInv`, `DoneOnce`, `OkIsWhole`, `WorkerReturns` | three chunks where four may be buffered, so that one resent chunk still fits and two overflow; two losses each way, one fault, every stall and disconnect |
| `ble` | BleTransport FairSpec | `BleInv`, `PacketsOfTheSession`, `SubscriberServed` | two handles and two app sessions (the second on the same connection, a new one, or beside the first), both queues of two, one lost control event, Bluetooth off and on without bound |
| `wake` | LinkWake WakeSpec | `WakeInv`, `WakeNoticed` | two workers and two hooks against a queue of three: a full queue, two wakers overlapping in every order |
| `rekey` | NotesRekey Spec | `RekeyInv`, `NothingStranded`, `SecretFollows`, refinement of NotesVault (`OneStepChange`) | one note with up to two copies and one secret, starting plain, encrypted, on either volume or none; two passphrases, so that a change back meets what a change left. One reset, and beside it any two of: one failing or short access, two moves of the card (out and in), one save (the state constraint `AnyTwo`). Any number of calls. |
| `ota` | OtaBoot Spec | `OtaInv`, `BootsWhatWasAsked`, `SwitchesBack`, `RollsBack` | three images (shipped, newer, one that crashes), three updates (a bad one after a good one, and one more), the three boots of the code, three resets (one at each of them); the file changes without bound |
| `saves` | NoteSaves Spec | `SavesInv`, `LastSaveKept`, `DeletesWhatWasChecked` | one note (tasks meet only on one), two saves so that the second starts while the first signals, an eviction, a conditional delete, a power loss; sleeps and journal reads without bound |
| `saves_evict` | NoteSaves Spec | violates `EvictionKeepsSaves` | one save and one eviction |
| `job` | OneShotJob Spec | `JobInv`, refinement of OneCall (`OneAnswer`), `EveryRunEnds` | three workers: the job's and two abandoned ones; a queue of two, which they fill with one foreign closure; one worker that cannot be created |

Every module's type invariant is checked: `XferInv`, `FrameInv`, `RpcInv`, `FsInv`, `AcceptInv`, `BleInv`, `WakeInv`,
`RekeyInv`, `OtaInv`, `SavesInv` and `JobInv` are or contain it. Those that contain it also say something of the code:
`RpcInv` that a callback runs at most once and never for a refused request, `FsInv` that an ended upload leaves its
staging file only over a power loss or where the removal itself failed and that an upload that is not stale has its own
file open, `BleInv` that at most one packet of a session goes out after it and that companion, epoch and service agree
at each store, `AcceptInv` that a receiver buffers no more than may be announced, `RekeyInv` that no staged copy
outlives its change, `OtaInv` that an unconfirmed image is marked and has a proven slot to go back to, `SavesInv` that
an announced write has its mark on flash, `JobInv` that a result has one holder and that a busy job has its worker. All
are inductive (`OtaInv` together with `BootsWhatWasAsked`, `RekeyInv` with the two properties beside it, `FsInv` with
`ReadsOneFile`), and proved so in section 6.

Deadlock is not checked where the system really ends: a transfer is over (`xfer`), a call has returned (`accept`), the
bounded calls, saves and workers are used up (`rekey`, `saves`, `saves_evict`, `job`). Symmetry is used over the
passphrases in `rekey` and the saver tasks in `saves`, which check invariants and action properties only, and in which
no definition tells one from another. Both also have a `VIEW` (`Live`), which leaves out variables local to a call once
it has returned, and keeps of a generation only whether it has moved: no enabled step and no property reads what it
leaves out, and each such variable is assigned before it is read again.

**Bounds in the guards.** BulkXfer: `MaxDataLoss`, `MaxAckLoss`, `MaxFaults` bound the link's behaviour, `MaxInFlight`
when the timer fires (0 would be "only on a silent link"). Framing: `MaxLossRun`, which may be longer or shorter than
the counter's period, and `MaxMessages`. LinkRpc: `MaxCalls`, and `MaxAge`, how long the link task may be late.
FsTransfers: `MaxPart`, `MaxFiles`, `Sizes`. BleTransport: `MaxApps`, `MaxLost`; the epoch is bounded by the
subscriptions. NotesRekey: `MaxFaults`, `MaxResets`, `MaxMoves`, `MaxWrites`, and in `rekey` the constraint
`AnyTwo` over three of them; the theorems know no such constraint. OtaBoot: `MaxApplies`, `MaxResets`. NoteSaves:
`MaxSaves`, `MaxSweeps`, `MaxDeletes`, `MaxBoots`. OneShotJob: one worker per start, `MaxFailures`, `MaxPosts`. Nothing
else is bounded. The generations of a job and of the storage are naturals in the models, 32 bits in the code: that one
comes round while somebody still holds its old value takes 2^32 runs or writes.

**Properties worth a second look.**

- `AckBound` (at most two ACKs while the receiver waits for one offset) needs the inductive `AckAllowance`: an in-order
  ACK, the two of the first stray DATA, and none from later rewinds.
- `Completes` names the one state in which both ends may wait for each other for good (`Stalled`) and what it takes:
  more lost ACKs than a window carries (`WindowAcks`, of `Window` and `AckEvery` as granted, whatever the first window
  was). The grants of `link_frame.cpp` 290-316 give two lost ACKs at a window of one, three at two, five at sixteen.
  Every other finite loss is recovered from. `RetransmitRecovers`, which PROTOCOL.md 160-162 promises, does not hold
  (section 7).
- `DeliversWhatArrived` compares what was delivered with the messages all of whose packets arrived, both ways: nothing
  invented and nothing lost that should not be. A message glued over a loss that does not show is counted apart, and
  each takes a run of a whole turn of its own. `OneResetPerFault` likewise.
- `BleInv` states the guarantee the code does give for old packets; the comment above it (line 111 of
  `link_transport_ble.cpp`) promises none at all. The packet the tx task had checked before the session changed goes
  out.
- `KeepsFiles` says what may change a file under a real name at all, over every step of every handler. That nothing
  changes its bytes rests on `OwnStaging`: a file that an upload may still write to has no name but its staging path.
- `OneStepChange` says at once that a change is atomic, that recovery is idempotent and that no note goes back to an
  older text; `NothingStranded` says which passphrase opens it. Neither says that a copy in `excused` is lost, only that
  nothing is promised for it, and that it harms no other copy. Four claims the code's comments make without the
  exceptions are stated in the module, and each fails (section 7).
- `BootsWhatWasAsked` holds through resets, failed hashes and files that change. Only an update begun by an unconfirmed
  image is excepted, and there the image that boots may be one nobody asked for (section 7).
- `SwitchesBack` and `OtaInv` meet in the middle: one says when the rollback may act, the other that it can.
- `LastSaveKept` holds *through* an eviction and a conditional delete, for every note but those they removed a newer
  text of, and as long as no idle signal was late. `EvictionKeepsSaves`, `NothingSlips` and `WaitersWait` state the
  three cases without the exception; none holds, and `saves_evict` shows the one that loses a text.
- `EveryRunEnds` is what a job whose result was dropped at a full queue would break for good: the job stays busy.

## 5 Fairness

Only what the scheduler or the hardware gives is assumed, always weakly.

- **BulkXfer**: a message the link does not lose is delivered (BLE notifications and writes are acknowledged at the
  link layer; losses are queues that were full), and the retransmission timer fires while bytes are unacknowledged: the
  owner's tick runs at the service's next deadline (`link_service.cpp` 474, `link_transport_ble.cpp` link_task).
- **LinkRpc**: time passes, the link task ticks, a callback that was started returns. The peer owes nothing:
  `EveryCallReturns` holds if it never answers.
- **AcceptTransfer**: the task holding the lock goes on, the link task takes what arrives and ticks, time passes, and
  the phone stops sending some day. Nothing is assumed of the link's delivery of ACKs or of the worker.
- **BleTransport**: the link task runs (its receive blocks on an empty queue only). Nothing is assumed of the tx task
  or the host.
- **OtaBoot**: the bootloader and the boot check run (nothing can hold them up but a reset, of which there are finitely
  many), the confirm task's timer expires, the apply job runs, and a bad image crashes, which is what `Good` means. A
  bad image that ran for ever would confirm itself: the code cannot tell, and neither can the model.
- **OneShotJob**: the UI thread drains its queue every loop, the blocking call a worker makes returns (the calls have
  timeouts of their own: LinkRpc, AcceptTransfer), and a worker whose post was refused tries again every 20 ms
  (`one_shot_job.h` 145). Weak fairness is enough for the post because finitely many workers and foreign closures
  compete for the queue. Nothing is assumed of the user.
- **Framing, FsTransfers, LinkWake, NotesRekey, NoteSaves** state safety only.

## 6 The proofs

All of them are checked by `tlapm` with Z3, Zenon and, in the temporal steps, LS4. Their only assumptions are the
ASSUMEs on constants in the modules, which TLC evaluates in each run:

- `XferAssumption`: sizes and bounds are naturals, a window holds at least one chunk and never more than the first
  grant.
- `FrameAssumption`: the counter has at least two values and the partial buffer room for a packet. Nothing is assumed of
  how many packets are lost in a row.
- `RpcAssumption`: there are more ids than places in the table (32768 and 16); a timeout is at most half the range of
  the clock (the `int32_t` cast can tell no more), and the link task is never so late that the difference turns around.
- `AcceptAssumption`: what may be announced is a natural.
- `FsAssumption`: sizes are naturals, a path may have a suffix, there are finitely many files at the start and no more
  than the bound on files.
- `BleAssumption`: the word for "no connection" is no connection, and both queues have a place.
- `WakeAssumption`: tasks are distinct and the queue has a place.
- `RekeyAssumption`: the words for "no passphrase", "plain", "torn" and "no file" are not passphrases.
- `OtaAssumption`: the shipped image is good, a torn slot is no image, there is at least one boot.
- `SavesAssumption`: there is a note, and the savers are other tasks than the three that are named.
- `JobAssumption`: the names for "no worker" and "a foreign closure" are no workers, and the queue has a place.

The bounds that keep TLC's runs finite (`MaxFaults`, `MaxResets`, ...) are any naturals.

| theorem | module | argument |
|---|---|---|
| `XferInvariant`, then `StoresInOrderOnce`, `AcksAreBounded`, `DoneMeansComplete` | BulkXferProofs | The invariant `XferInv` holds three parts that the steps of one side touch separately (`ReceiverPart`, `SenderPart`, `LinkPart`). `InOrderOnce` needs nothing but the offset check. What is not inductive is the rest: the sender's `acked` stays below the receiver's `rNext` only because every ACK on the link names an offset the receiver had reached (`AcksOnLink`); the receiver's stays below what was sent because every DATA on the link does (`DataOnLink`); the ACK bound needs how many ACKs a gap still allows (`AckAllowance`). |
| `StaysInWindow` | BulkXferProofs | A conjunct of `XferInv`, in which a pump's limit and the rewound send point are related to `acked`. |
| `ImplementsTransfer` | BulkXferProofs | A step of BulkXfer maps to `Deliver` (in-order DATA), to `Confirm` (an ACK with progress, possibly failing in the pump after it), to `Fail`, or to a stutter. |
| `FrameInvariant`, then `DeliversExactly`, `ResetsAreBounded` | FramingProofs | While fewer packets than a turn of the counter are lost in a row the two counters differ by their number (`SeqTracks`), so a gap is seen iff something was lost. A message is in the partial buffer exactly as long as nothing of it was lost and it fits, or is read on blindly (`PartialIsPrefix`). What is blind, and a mixture in the making, has been paid for by a turn (`TurnsBudget`); each fault pays for one reset, now or later, and each packet read blindly for one more (`ResetBudget`). |
| `BleInvariant` | LinkTransportProofs | The guarantee for packets that go out, and what makes it inductive: `LinkControl` says at each store of the link task what companion, epoch and service are and which stores are still to come; `OneChecked` that the packet in the tx task's hand, once checked, belongs to the present session unless it ended since, and then none has gone astray yet. |
| `PacketsStay` | LinkTransportProofs | `AppsAnnounced`: whoever wrote a packet in the event queue, the last control event of that connection before the packet is the Subscribe of its app session; if there is none, the link task serves, or is about to serve, no other app on that connection. Events are appended at one end and taken at the other, so this is a statement about positions (`Quiet`, `Announced`), shifted by one when an event is taken. |
| `WakeInvariant`, then `EveryDeadlineNoticed` | LinkTransportProofs | A Wake in the queue, a waker about to queue one and the link task consuming one exclude each other, and `g_wake_queued` says that one of them is there (`OneInFlight`). So a waker that finds the flag set leaves something in the queue or a waker that will put something there; the exception, a waker already refused, is `overlapped`, and the lock keeps workers out of it (`Pending`, `OverlapNeedsHook`). |
| `AcceptInvariant`, then `AnsweredOnce`, `OkMeansWhole` | BulkXferProofs | Every step leaves the engine alone, or feeds its receiver one message, or is a step of the phone; the first and the last keep `XferInv` by the engine's lemmas. A message replayed from the buffer is one the engine never sees leave the link, so the invariant must know that it was sent (`early` holds offsets below `high`); then a feed is the receiver's own step. Nobody waits unless the receiver is replaying or live, so whichever of last DATA, stall and disconnect comes first finds `doneRuns` at 0 and leaves nobody waiting for the others. |
| `FsInvariant`, then `ReadsSendOneFile`, `CommitsPublishTheirOwn`, `FilesStay` | LinkServiceProofs | `NothingLeftBehind` is not inductive: when a commit renames a staging file, whose is it? `OwnStaging` answers: an upload that is not stale has its own file open, its staging path names that file or nothing, and no other path does. Every handler that takes a path from under a transfer marks it stale first (`CloseUploads`, `CloseReads`), so a handler leaves some of the transfers there were, some of them closed (`Leaves`), and one lemma covers all the steps that only do that and move entries (`LeavesInv`). A removal that fails leaves the file the staging path names, with its upload among the `orphans`. Files are what their uploads wrote (`FilesWhole`), so a read's next chunk is the next one of the file it has open (`ReadsOpen`). |
| `RpcInvariant` | LinkServiceProofs | A call is in one place: the table, the entries taken out of it, or answered (`Table`, `CallbackOnce`). A free id exists because the table holds fewer entries than there are ids; that `alloc_id()` finds the first one is a statement about a least element (`WFMin` of the library). |
| `AnswersItsOwn` | LinkServiceProofs | What the wire carries is an id; what must not happen is that it means two calls. `place` numbers the ids handed out: an id is its place modulo the ids (`Ids`), so that two calls with one id are at least a round apart, and an answer less than a round late is the younger one's. |
| `TimesOutWhenDue` | LinkServiceProofs | A deadline is the clock at the call plus the timeout, modulo its range (`Deadlines`); with `RpcAssumption` the sign of the difference is that of the difference without wrapping. |
| `OtaInvariant`, `BootsOnlyWhatWasAsked`, then `SwitchesBackInTime` | OtaBootProofs | `OtaInv` with `BootsWhatWasAsked`: where job, boot check and confirm task are (`Control`), what NVS holds beside the boot slot at each of their steps (`Deciding`, `MarkMeaning`, `RollingBack`), that a rollback target was confirmed and is whole (`WayBack`), which is why the slot an update erases is never it unless an unconfirmed image began the update (`hasty`, and with it `gap`). What is asked for needs only `hasty` (`Asked`): a refused update leaves an image nobody named in a slot nothing points to. A boot is counted before it decides, so the count the check sees is the number of boots. |
| `RekeyInvariant`, `NoneStranded`, `SecretsFollow` | NotesRekeyProofs | `NothingStranded` is not inductive: whether a copy opens depends on what the calls will do with its staged one. `Control` says what each position in a call implies for marker, canary and direction, and where there may be no canary (`Unverified`); `Listing` that a change has listed every copy before it marks and staged all it listed before it commits; `StagedOwn` whose a staged copy is and that it has its original's text; `Swept` that the settling has seen every copy before the marker goes; `Unwrapped` the same for removing the passphrase; `Secrets` that the staged secret is the change's; `Versions` that what a save has still to write (`Due`) is newer than what is there. What they say of copies they say of those outside `excused`, which only grows, and of the secret only while it is not `strayed`. Each action has one lemma with a step per conjunct. |
| `ImplementsNotesVault` | NotesRekeyProofs | Under the invariant a copy opens after every internal step to the version it opened to before (the lemmas named `...Same`), since a staged copy replaces its original only with the same text; the canary's write is `NewPassphrase` and leaves the vault; each write of a save, a listing that cannot reach a copy, a short read and a failed write are `Save`. |
| `SavesInvariant`, then `LastSaveStays`, `DeletesOnlyWhatWasChecked` | NoteSavesProofs | Who is where (`Control`); the mark on flash follows the one in RAM while the mutex is held (`Persisting`); as long as no idle signal was late there is one save (`OneSave`), texts not yet written are newer than every file and than what the eviction holds (`Newest`), and the last text of a note is on a volume or on its way (`OnItsWay`). The eviction removes what it has copied unless a save came in between (`Copying`, the other case is `lost`). For the delete: every write the generation does not show is one of the `Slips` (`Checking`). |
| `JobInvariant` | OneShotJobProofs | The workers' closures are in the queue, in the batch or being called, in one place each (`OneHolder`, by positions in the two sequences); generations only grow, and only the newest attached run has the job's; the job is busy exactly while that run is under way. |
| `ImplementsOneCall` | OneShotJobProofs | The run the app owns is the worker with the job's generation, of which `JobInv` says that it is unique; a result of another generation is a stutter. |

Only model-checked, and why: `Completes`, `EveryCallReturns`, `WorkerReturns`, `SubscriberServed`, `RollsBack` and
`EveryRunEnds` are liveness under fairness, which the prover does not handle. Every other property of the passing runs
is a theorem; `EvictionKeepsSaves` does not hold (section 7). No module declares a RECURSIVE operator; statements that
would need induction over data are not claimed.

**What the proofs changed in the models.** Each was a step where TLC's bounds, or a coarse statement, had hidden
something.

- `InstallFails` (NotesRekey) let a failed install overwrite the original from a torn staged copy. The code does not get
  there: it reads the staged copy and looks for its header before it writes the original (`notes_crypto.cpp` 759-766).
- `AcceptTypeOK` (AcceptTransfer) said that a spent entry buffers nothing. `service_accept_expect()` ends without
  clearing what was buffered when more is announced than may be (`link_service.cpp` 726-729): it stays until the close.
- `OkIsWhole` was stated for bodies from offset 0, of which the runs are; the theorem needs no such assumption.
- `OneSave` (NoteSaves) did not say that the UI thread, about to create a save's task, has set `s_save_pending`; without
  it a second save could not be excluded there.
- `BleInv` was the guarantee alone. It now says where the link task is between two stores, and that the event queue
  announces an app session before its packets; TLC checks all of it in `ble`.
- `KeepsFiles` excepted the bytes of a file that an upload has open. The proof shows that no file under a real name is
  one, so the exception went.
- `FsAssumption` did not say that there are finitely many files at the start.
- `Framing` once bounded a loss run by the counter's period. Without that bound `SeqTracks` has to stop at a whole turn,
  and everything that needed it had to say what happens then.

## 7 Findings

One is a run that ends with a counterexample: **an eviction can lose a save** (`saves_evict`).
`hw_prune_internal_storage()` reads a note, writes what it read to the card and removes the internal copy
(`storage.cpp` 1018-); nothing notices that the editor saved the note in between. The older text lands over the card's
copy and the newer internal one is removed. The comment at 1052-1054 says that such a race is "at worst a benign logical
race" and that "the note is preserved on SD either way".

The others were met while modelling. Each is a step of a model, and the properties that hold except it by name. Where a
document or a comment claims more, the claim is a definition of the module (its name is in the parentheses below) with
the remark that it does not hold: put alone into the module's `.cfg`, it makes TLC print the behaviour described.

*The link.*

- **A final ACK is not sent again** (`ReAcksWhenDone`, AcceptTransfer). `finish_inbound()` resets the receiver, and
  `inbound_feed()` then returns (`link_service.cpp` 235) before it would answer. `PROTOCOL.md` 154-156 says the final
  offset is re-ACKed for further DATA. The phone keeps resending and gives up although the pager has the whole body.
- **Two lost ACKs can stop a transfer** (`RetransmitRecovers`, BulkXfer). When the in-order ACKs of a window and the
  answer to the gap behind them are lost, every resent DATA is below the receiver's offset and dropped unanswered
  (`link_xfer.cpp` 228-235): the gap was answered already. The sender rewinds until its owner's stall timer ends the
  transfer. It takes two lost ACKs at a window of one (`Window = 1`, `AckEvery = 1`), five at the full window of
  sixteen. `PROTOCOL.md` 160-162 says that the timer "recovers a lost last DATA, a lost re-ACK or a lost final ACK".
- **A lost turn of the counter** (`NoResetPerPacket`, Framing). After a loss of exactly 64 packets that ends in the
  middle of a message, while nothing is open, the next packet has the expected counter: `feed()` sees no gap, does not
  enter the discard state (`link_frame.cpp` 215-219) and reports every packet that is left of the message. `PROTOCOL.md`
  52-53 says "one reset per fault, not one per remaining packet". With a message open, the two ends of the loss are
  glued into one message, which the CRC of a transfer or the JSON reader has to catch: `DeliversWhatArrived` says that
  each takes such a run.
- **A superseded upload removes its successor's staging file** (`OpenFilesStay`, FsTransfers, in three steps). Two
  `fs.write.begin` for one path: the first upload goes stale, and when it ends `drop()` (`handlers_fs.cpp` 98-103)
  removes the path, which by then is the second's open file; the second's commit fails with an i/o error. The comment
  there says "never remove a file we hold open". No wrong bytes are published: `CommitsItsOwn` holds.
- **A wake can be skipped** (`EveryWakeNoticed`, LinkWake). A storage hook's refused `xQueueSend()` and its reset of the
  flag are two steps (`link_transport_ble.cpp` 191); if the link task drains the queue and goes to sleep in between, a
  deadline registered meanwhile finds the flag set and queues nothing. The link task sleeps on to its old deadline, at
  worst `IDLE_TICK_MS` (10 s). `wake` and the theorem show that this overlap is the only way.
- The one stray packet of `BleInv`; a control event lost to a full queue leaves the companion set until that handle's
  next event (`PostControl`, excepted in `SubscriberServed`); an overwrite that loses power between removal and rename
  leaves neither file (`PowerLoss`), which no document excludes; `drop()` does not look whether its removal worked
  (`handlers_fs.cpp` 103), so a staging file can stay.

*The notes.*

- **A card pulled after the commit** (`InstalledAll`, NotesRekey). `settle_staged()` takes staged copies it cannot see
  for absent (`notes_crypto.cpp` 751-758), and the check against `hw_sd_online()` only knows the last mount: the pending
  mark is cleared and the card's notes stay under the old passphrase, against the comment at 738 ("True when nothing
  staged is left behind, i.e. the pending marker may go").
- **A token stored during a change** (`SecretsChange`). `secret_store()` (`secrets.cpp` 203-243) encrypts under the
  session's passphrase and looks neither for a change nor for what the slot holds. Stored after its slot was staged, or
  passed over as empty, it stays under the old passphrase and does not decrypt after the commit, which is what the
  comment at `notes_crypto.cpp` 1361 says was repaired. A slot whose read fails is passed over too (1368). The other way
  round, a token stored or cleared after its slot was staged is overwritten by the staged form of the one before
  (771-780).
- **A first passphrase whose canary is not stored** (`EncryptedUnderCanary`). `write_canary()` ignores what `putBytes`
  returns (262-273), `notes_crypto_set_passphrase()` (1112-1133) goes on, and the notes are encrypted with nothing that
  will unlock them after a lock or a reset. `notes_crypto.h` 92 has the canary written before.
- **Encryption disabled over a copy that cannot be read** (`DisabledIsPlain`). Only a failed write keeps encryption on
  (1459-1499): a copy whose probe, read or decryption fails stays encrypted, and the canary goes. `notes_crypto.h` 106
  says that any copy that could not be rewritten keeps it on.
- **A short read** (`ReadsShort`): `fs_read_all()` (`fs_util.h` 22-39) does not look how much it got, so a change may
  stage or install a truncated text for the note.
- **A save encoded before a change and written after it** (`SaveNote`, `WriteNote`): the text is encrypted under the
  session's passphrase long before its two writes (`storage.cpp` 1103-1127), and lands under one the canary no longer
  verifies, or plain beside an encrypted copy. What another task writes during a call is not staged either.
- The remaining copies in `excused`: one whose read fails while staging is left out of the change without a word, and
  encrypting and decrypting existing notes rewrites them in place, so that a failed write leaves them torn.
- `notes_crypto_change_passphrase()` publishes the new passphrase (1405-1411) without looking whether the session was
  locked meanwhile (`Switch`); the unlock does look (`Publish`).
- **The idle bit may come late** (`WaitersWait`, NoteSaves; excepted as `late`): `save_set_idle()` clears the flag under
  the lock and sets the bit after it (`storage.cpp` 1168-1175); a save that starts in between clears the bit first, and
  the late signal lets whoever waits for it pass, such as the flush before a sleep (`system.cpp` 799).
- **A conditional delete** (`NothingSlips`) notices a save by its generation and the pending flag (`handlers_fs.cpp`
  556-559). It misses a write announced before it read the generation and made during its CRC pass inline, the
  eviction's copy, which announces nothing before it writes, and whatever lands between the comparison and the removal
  (584-590), although the comment at 559 says that "no pager-side save can slip between check and remove". All are in
  `Slips`.
- **The persist's put-back** (`storage.cpp` 413-421): power lost after the mark was cleared and before it is set again
  forgets a write that announced itself meanwhile. The journal likewise clears the flag in RAM before it has read the
  notes (`ui_journal.cpp` 565, 662, 779-780), which the model takes as the end of the claim (`ClearDirty`).

*The update.*

- **Applied while unconfirmed** (`BootsPending`, OtaBoot; `hasty`). Nothing refuses an update while the running image
  has not confirmed itself: its confirm task may clear the new image's mark and target, and the slot the update erases
  is the one to roll back to. `PROTOCOL.md` 391 says "a freshly applied image boots *pending*".
- **A refused file is booted** (`RefusedIsNotBooted`, OtaBoot). The worst of it: the second pass writes the slot while
  it hashes (`handlers_ota.cpp` 78-103), and `esp_ota_abort()` does not erase what was written. If an unconfirmed image
  began the update and the file was replaced between the passes, the update is refused, the whole replacement stays in
  the slot the rollback goes to, and the third unconfirmed boot switches to an image no request named.
  `handlers_ota.cpp` 8 says that such a file "is refused rather than flashed". `BootsWhatWasAsked` and its theorem show
  that it takes an update by an unconfirmed image.
- **Unwatched moments** (`gap`): a reset after the boot slot was switched and before the mark is stored (`ota.cpp` 180)
  boots an image nothing watches; a reset after the boot check has cleared the mark and before it has switched back
  leaves the bad image in place.

## 8 What is not modelled

- **Data layout**: packet and message codecs, JSON, formatting, logging, ciphers and key derivation. Packet sizes and
  MTU events matter only for how many packets a message takes; Framing lets that be any number.
- **Incoming requests** in Rpc: dispatched synchronously under the lock, answered in the same step; their effects are
  the handlers', as in FsTransfers. `emit()` is one message.
- **Directories** (mkdir, list, stat, recursive delete), the CRC cache, the SD card's removal, and writes by the
  pager's own interface under the file service; the conditional delete is in NoteSaves, where the saves are.
- **Outbound sends, subscribers, coalesced events** around the engine: plan 12.
- **The transport's connection band, advertising, bonding, pairing and the keyboard profile**: hardware and stack
  behaviour; sessions are what they leave.
- **TCP transport**: serves the emulator over a reliable stream; what is above it is modelled.
- **Notes encryption**: the caches of derived keys and their prewarming, which the key epoch guards; more than one
  secret slot; reads of the canary and of the two markers in NVS that fail; which of two tokens a staged secret came
  from. A reset in the middle of a write is a failed write followed by a reset.
- **Note storage** (NoteSaves): failing and torn writes, the bulk copy between volumes, two sweeps at once, USB mass
  storage.
- **Firmware update**: failing NVS writes and flash reads, a crash before the boot check.
- **Worker jobs**: the emulator's count of workers in flight.
- **UI, drivers, the lilyhub server, the iOS app**: no state of the protocol. The phone's engine is the environment of
  AcceptTransfer (the map marks it external); its other behaviour is whatever the actions allow.

The map covers a small share of the repository's lines. Of some 330 000, all but about 60 000 are vendored
libraries with their examples, fonts and audio tables (`src/lib/`, `src/src/fonts/`); half of the rest is screens and
drivers.

## Running it

```
tlc -workers 2 -config xfer.cfg MCBulkXfer.tla
tlapm BulkXferProofs.tla
```
