----------------------------- MODULE NoteSaves ------------------------------
(***************************************************************************)
(* Notes on their two volumes (src/hal/storage.cpp): the editor's saves in *)
(* the background, the eviction of old notes to the card, the phone's      *)
(* conditional delete (src/hal/link/handlers_fs.cpp), the flush before a   *)
(* sleep, and the mark in NVS that makes the next boot rescan the notes.   *)
(* A step is one file write, one NVS write, or one access to the flags the *)
(* tasks share.                                                            *)
(*                                                                         *)
(* The editor and the sleep run on the UI thread, every save on a worker   *)
(* of its own, the eviction and the phone's requests on a task each.       *)
(***************************************************************************)
EXTENDS Integers

CONSTANTS
    Notes, Savers,  \* notes; tasks note_save
    MaxSaves,       \* texts the editor saves
    MaxSweeps,      \* notes evicted
    MaxDeletes,     \* conditional deletes
    MaxBoots        \* power losses, and sleeps that cut the power

Gone == -1          \* no such file

ASSUME SavesAssumption ==
    /\ Notes # {} /\ Savers \cap {"ui", "evict", "link"} = {}
    /\ {MaxSaves, MaxSweeps, MaxDeletes, MaxBoots} \subseteq Nat

Tasks == Savers \cup {"ui", "evict", "link"}
Vols  == {"ffat", "sd"}

VARIABLES
    files,              \* [Vols -> [Notes -> the version of the text]]
    nvsDirty,           \* NVS "fs"/"dirty"
    ramDirty, nvsSeen,  \* filesystem_dirty, nvs_dirty
    mutex,              \* s_nvs_dirty_mutex is held by the persist
    gen,                \* filesystem_generation
    pending, idleBit,   \* s_save_pending, SAVE_IDLE_BIT
    pc,                 \* [Tasks -> the next step]
    note, text,         \* [Tasks -> what the task works on]
    goal,               \* what the UI thread is about to do
    vol, want, gen0,    \* the link task's delete
    \* bounds and observation
    saves, sweeps, deletes, power,
    last,               \* [Notes -> the text last handed to a save]
    marked,             \* a write was announced since the flag was cleared
    late,               \* an idle signal came after the next save began
    lost,               \* notes the eviction or the phone removed
    inflight,           \* tasks writing when the link task began a delete
    slipped             \* a save the link task cannot notice wrote its file

flags == <<nvsDirty, ramDirty, nvsSeen, mutex, gen, marked>>
queue == <<pending, idleBit, late>>
local == <<pc, note, text, goal, vol, want, gen0>>
count == <<saves, sweeps, deletes, power>>
ghost == <<last, lost, inflight, slipped>>
vars  == <<files, flags, queue, local, count, ghost>>

Versions == 0 .. MaxSaves
NoNote   == CHOOSE n \in Notes : TRUE

TypeOK ==
    /\ files \in [Vols -> [Notes -> Versions \cup {Gone}]]
    /\ {nvsDirty, ramDirty, nvsSeen, mutex, pending, idleBit, marked, late}
           \subseteq BOOLEAN
    /\ gen \in Nat
    /\ pc \in [Tasks -> {"off", "wait", "mark", "lock", "clear", "set", "spawn",
                         "failed", "failedBit", "ffat", "sd", "idle", "bit",
                         "persist", "forget", "clean", "recheck", "redo",
                         "asleep", "copy", "remove", "crc", "check"}]
    /\ note \in [Tasks -> Notes] /\ text \in [Tasks -> Versions \cup {Gone}]
    /\ goal \in {"async", "inline", "sleep"}
    /\ vol \in Vols /\ want \in Versions /\ gen0 \in Nat
    /\ saves \in 0 .. MaxSaves /\ sweeps \in 0 .. MaxSweeps
    /\ deletes \in 0 .. MaxDeletes /\ power \in 0 .. MaxBoots
    /\ last \in [Notes -> Versions \cup {Gone}] /\ lost \subseteq Notes
    /\ inflight \subseteq Tasks /\ slipped \in BOOLEAN

Goto(t, label) == pc' = [pc EXCEPT ![t] = label]

\* A write the conditional delete cannot notice: announced before the delete
\* began, never announced (the eviction's), or made after the check.
Slips(t, v) ==
    slipped' = (slipped \/ /\ vol = v /\ note["link"] = note[t]
                           /\ \/ pc["link"] = "check" /\ t \in inflight \cup {"evict"}
                              \/ pc["link"] = "remove")

Write(v, n, ver) == files' = [files EXCEPT ![v][n] = ver]

-----------------------------------------------------------------------------
(* hw_set_filesystem_dirty *)

\* What the task does once the mark is made.
AfterMark(t) ==
    CASE t = "ui" /\ goal = "async"  -> "clear"
      [] t = "ui" /\ goal = "inline" -> "ffat"
      [] t \in Savers                -> "ffat"
      [] OTHER                       -> "off"

Mark(t) ==
    /\ pc[t] = "mark"
    /\ gen' = gen + 1
    /\ ramDirty' = TRUE
    /\ Goto(t, IF nvsSeen THEN AfterMark(t) ELSE "lock")
    /\ marked' = (marked \/ nvsSeen)
    /\ UNCHANGED <<files, nvsDirty, nvsSeen, mutex, queue, note, text, goal, vol,
                   want, gen0, count, ghost>>

MarkNvs(t) ==
    /\ pc[t] = "lock" /\ ~mutex
    /\ nvsDirty' = (nvsDirty \/ ~nvsSeen) /\ nvsSeen' = TRUE
    /\ marked' = ramDirty
    /\ Goto(t, AfterMark(t))
    /\ UNCHANGED <<files, ramDirty, mutex, gen, queue, note, text, goal, vol,
                   want, gen0, count, ghost>>

\* The journal has read the notes, or is about to.
ClearDirty ==
    /\ pc["ui"] = "off" /\ ramDirty
    /\ ramDirty' = FALSE /\ marked' = FALSE
    /\ UNCHANGED <<files, nvsDirty, nvsSeen, mutex, gen, queue, local, count,
                   ghost>>

\* Mutation of Persist: nothing looks at the mark in RAM after clearing NVS.
PersistOnce ==
    /\ \/ /\ pc["ui"] = "persist" /\ ~mutex
          /\ Goto("ui", IF ramDirty \/ ~nvsSeen THEN "asleep" ELSE "forget")
          /\ UNCHANGED <<nvsDirty, nvsSeen>>
       \/ /\ pc["ui"] = "forget"
          /\ nvsSeen' = FALSE /\ nvsDirty' = FALSE /\ Goto("ui", "asleep")
    /\ UNCHANGED <<files, ramDirty, mutex, gen, marked, queue, note, text, goal,
                   vol, want, gen0, count, ghost>>

\* hw_filesystem_dirty_persist
Persist ==
    /\ \/ /\ pc["ui"] = "persist" /\ ~mutex
          /\ IF ramDirty \/ ~nvsSeen THEN Goto("ui", "asleep") /\ UNCHANGED mutex
             ELSE Goto("ui", "forget") /\ mutex' = TRUE
          /\ UNCHANGED <<nvsDirty, nvsSeen>>
       \/ /\ pc["ui"] = "forget" /\ nvsSeen' = FALSE /\ Goto("ui", "clean")
          /\ UNCHANGED <<nvsDirty, mutex>>
       \/ /\ pc["ui"] = "clean" /\ nvsDirty' = FALSE /\ Goto("ui", "recheck")
          /\ UNCHANGED <<nvsSeen, mutex>>
       \/ /\ pc["ui"] = "recheck"
          /\ IF ramDirty THEN Goto("ui", "redo") /\ UNCHANGED mutex
             ELSE Goto("ui", "asleep") /\ mutex' = FALSE
          /\ UNCHANGED <<nvsDirty, nvsSeen>>
       \/ /\ pc["ui"] = "redo"
          /\ nvsDirty' = TRUE /\ nvsSeen' = TRUE /\ mutex' = FALSE
          /\ Goto("ui", "asleep")
    /\ UNCHANGED <<files, ramDirty, gen, marked, queue, note, text, goal, vol,
                   want, gen0, count, ghost>>

-----------------------------------------------------------------------------
(* The UI thread: hw_save_preferred_file_async and hw_save_flush. *)

\* Mutation of Begin: a second save does not wait for the first.
BeginNoWait(what, next) ==
    /\ pc["ui"] = "off" /\ goal' = what
    /\ Goto("ui", next)

\* wait_save: blocks only if a save is under way, and then on the idle bit.
Begin(what, next) ==
    /\ pc["ui"] = "off" /\ goal' = what
    /\ Goto("ui", IF pending THEN "wait" ELSE next)

SaveAsync ==
    /\ Begin("async", "mark")
    /\ saves < MaxSaves /\ saves' = saves + 1
    /\ \E n \in Notes :
        /\ note' = [note EXCEPT !["ui"] = n]
        /\ text' = [text EXCEPT !["ui"] = saves']
        /\ last' = [last EXCEPT ![n] = saves']
    /\ UNCHANGED <<files, flags, queue, vol, want, gen0, sweeps, deletes, power,
                   lost, inflight, slipped>>

Sleep ==
    /\ Begin("sleep", "persist")
    /\ UNCHANGED <<files, flags, queue, note, text, vol, want, gen0, count, ghost>>

Waited ==
    /\ pc["ui"] = "wait" /\ idleBit
    /\ Goto("ui", IF goal = "sleep" THEN "persist" ELSE "mark")
    /\ UNCHANGED <<files, flags, queue, note, text, goal, vol, want, gen0, count,
                   ghost>>

Announce ==
    /\ \/ /\ pc["ui"] = "clear" /\ idleBit' = FALSE /\ Goto("ui", "set")
          /\ UNCHANGED pending
       \/ /\ pc["ui"] = "set" /\ pending' = TRUE /\ Goto("ui", "spawn")
          /\ UNCHANGED idleBit
    /\ UNCHANGED <<files, flags, late, note, text, goal, vol, want, gen0, count,
                   ghost>>

Spawn ==
    /\ pc["ui"] = "spawn"
    /\ \E w \in Savers :
        /\ pc[w] = "off"
        /\ pc' = [pc EXCEPT ![w] = "mark", !["ui"] = "off"]
        /\ note' = [note EXCEPT ![w] = note["ui"]]
        /\ text' = [text EXCEPT ![w] = text["ui"]]
    /\ UNCHANGED <<files, flags, queue, goal, vol, want, gen0, count, ghost>>

\* No memory for the task: idle is signalled before the save is made inline.
SpawnFails ==
    /\ \/ pc["ui"] = "spawn" /\ pending' = FALSE /\ Goto("ui", "failed")
          /\ UNCHANGED <<idleBit, goal>>
       \/ pc["ui"] = "failed" /\ idleBit' = TRUE /\ Goto("ui", "mark")
          /\ goal' = "inline" /\ UNCHANGED pending
    /\ UNCHANGED <<files, flags, late, note, text, vol, want, gen0, count, ghost>>

-----------------------------------------------------------------------------
(* save_preferred_file_impl, and the end of save_task. *)

SaveFile(t) ==
    /\ \/ /\ pc[t] = "ffat" /\ Write("ffat", note[t], text[t]) /\ Goto(t, "sd")
          /\ lost' = lost \ {note[t]}
          /\ Slips(t, "ffat")
       \/ /\ pc[t] = "sd" /\ Write("sd", note[t], text[t])
          /\ Goto(t, IF t = "ui" THEN "off" ELSE "idle")
          /\ Slips(t, "sd") /\ UNCHANGED lost
    /\ UNCHANGED <<flags, queue, note, text, goal, vol, want, gen0, count, last,
                   inflight>>

\* save_set_idle: the flag under the lock, the bit after it.
SetIdle(w) ==
    /\ \/ pc[w] = "idle" /\ Goto(w, "bit") /\ pending' = FALSE
          /\ UNCHANGED <<idleBit, late>>
       \/ pc[w] = "bit" /\ Goto(w, "off") /\ idleBit' = TRUE
          /\ late' = (late \/ pending \/ pc["ui"] = "set")
          /\ UNCHANGED pending
    /\ UNCHANGED <<files, flags, note, text, goal, vol, want, gen0, count, ghost>>

-----------------------------------------------------------------------------
(* hw_prune_internal_storage: evict_one for one note. *)

EvictRead ==
    /\ pc["evict"] = "off"
    /\ sweeps < MaxSweeps /\ sweeps' = sweeps + 1
    /\ \E n \in Notes :
        /\ files["ffat"][n] # Gone
        /\ note' = [note EXCEPT !["evict"] = n]
        /\ text' = [text EXCEPT !["evict"] = files["ffat"][n]]
    /\ Goto("evict", "copy")
    /\ UNCHANGED <<files, flags, queue, goal, vol, want, gen0, saves, deletes,
                   power, ghost>>

EvictCopy ==
    /\ pc["evict"] = "copy"
    /\ Write("sd", note["evict"], text["evict"])
    /\ Slips("evict", "sd")
    /\ Goto("evict", "remove")
    /\ UNCHANGED <<flags, queue, note, text, goal, vol, want, gen0, count, last,
                   lost, inflight>>

\* Removes whatever the file holds by now.
EvictRemove ==
    /\ pc["evict"] = "remove"
    /\ LET n == note["evict"] IN
        /\ Write("ffat", n, Gone)
        /\ lost' = IF files["ffat"][n] \in {text["evict"], files["sd"][n]} THEN lost
                   ELSE lost \cup {n}
    /\ Goto("evict", "mark")
    /\ UNCHANGED <<flags, queue, note, text, goal, vol, want, gen0, count, last,
                   inflight, slipped>>

-----------------------------------------------------------------------------
(* fs.delete with a CRC. *)

\* The phone names the text it has a copy of.
Delete ==
    /\ pc["link"] = "off"
    /\ deletes < MaxDeletes /\ deletes' = deletes + 1
    /\ \E n \in Notes, v \in Vols, ver \in Versions :
        /\ files[v][n] # Gone
        /\ note' = [note EXCEPT !["link"] = n] /\ vol' = v /\ want' = ver
    /\ gen0' = gen
    /\ inflight' = {t \in Tasks : pc[t] \in {"lock", "ffat", "sd"}}
    /\ slipped' = FALSE
    /\ Goto("link", "crc")
    /\ UNCHANGED <<files, flags, queue, text, goal, saves, sweeps, power, last,
                   lost>>

HashFile ==
    /\ pc["link"] = "crc"
    /\ text' = [text EXCEPT !["link"] = files[vol][note["link"]]]
    /\ Goto("link", IF text'["link"] = Gone THEN "off" ELSE "check")
    /\ UNCHANGED <<files, flags, queue, note, goal, vol, want, gen0, count, ghost>>

\* Mutation of CheckFile: the generation is not compared.
CheckNoGeneration ==
    /\ pc["link"] = "check"
    /\ Goto("link", IF text["link"] = want /\ ~pending THEN "remove" ELSE "off")
    /\ UNCHANGED <<files, flags, queue, note, text, goal, vol, want, gen0, count,
                   ghost>>

CheckFile ==
    /\ pc["link"] = "check"
    /\ Goto("link", IF text["link"] = want /\ ~pending /\ gen = gen0
                    THEN "remove" ELSE "off")
    /\ UNCHANGED <<files, flags, queue, note, text, goal, vol, want, gen0, count,
                   ghost>>

Remove ==
    /\ pc["link"] = "remove"
    /\ Write(vol, note["link"], Gone)
    /\ lost' = lost \cup {note["link"]}
    /\ Goto("link", "mark")
    /\ UNCHANGED <<flags, queue, note, text, goal, vol, want, gen0, count, last,
                   inflight, slipped>>

-----------------------------------------------------------------------------
(* Power. *)

\* The light sleep ends.
Wake ==
    /\ pc["ui"] = "asleep"
    /\ Goto("ui", "off")
    /\ UNCHANGED <<files, flags, queue, note, text, goal, vol, want, gen0, count,
                   ghost>>

\* Power returns after a deep sleep or a loss at any moment; what the user can
\* lose is what had not been written.  A loss between the two writes of a
\* persist that puts the mark back forgets the mark.
PowerOn ==
    /\ power < MaxBoots /\ power' = power + 1
    /\ pc' = [t \in Tasks |-> "off"]
    /\ pending' = FALSE /\ idleBit' = TRUE /\ mutex' = FALSE
    /\ ramDirty' = nvsDirty /\ nvsSeen' = nvsDirty
    /\ late' = FALSE
    /\ marked' = (marked /\ pc["ui"] \notin {"recheck", "redo"})
    /\ last' = [n \in Notes |-> IF files["ffat"][n] # Gone THEN files["ffat"][n]
                                ELSE files["sd"][n]]
    /\ UNCHANGED <<files, nvsDirty, gen, note, text, goal, vol, want, gen0, saves,
                   sweeps, deletes, lost, inflight, slipped>>

Init ==
    /\ files = [v \in Vols |-> [n \in Notes |-> 0]]
    /\ nvsDirty = FALSE /\ ramDirty = FALSE /\ nvsSeen = FALSE /\ mutex = FALSE
    /\ gen = 0 /\ pending = FALSE /\ idleBit = TRUE
    /\ pc = [t \in Tasks |-> "off"]
    /\ note = [t \in Tasks |-> NoNote] /\ text = [t \in Tasks |-> 0]
    /\ goal = "async" /\ vol = "ffat" /\ want = 0 /\ gen0 = 0
    /\ saves = 0 /\ sweeps = 0 /\ deletes = 0 /\ power = 0
    /\ last = [n \in Notes |-> 0]
    /\ marked = FALSE /\ late = FALSE /\ lost = {}
    /\ inflight = {} /\ slipped = FALSE

Next ==
    \/ \E t \in Tasks : Mark(t) \/ MarkNvs(t) \/ SaveFile(t)
    \/ \E w \in Savers : SetIdle(w)
    \/ SaveAsync \/ Sleep \/ Waited \/ Announce \/ Spawn \/ SpawnFails
    \/ ClearDirty \/ Persist
    \/ EvictRead \/ EvictCopy \/ EvictRemove
    \/ Delete \/ HashFile \/ CheckFile \/ Remove
    \/ Wake \/ PowerOn

Spec == Init /\ [][Next]_vars

-----------------------------------------------------------------------------
(* Properties *)

\* What the readers find: the internal copy, or the card's.
Found(n) == IF files["ffat"][n] # Gone THEN files["ffat"][n] ELSE files["sd"][n]
Kept(n)  == last[n] = Found(n)

Saving(t) == pc[t] \in {"mark", "lock", "ffat", "sd"}

\* No save is on its way, or the pager believes so and sleeps.
Settled ==
    \/ pc["ui"] = "asleep"
    \/ pc["ui"] = "off" /\ \A w \in Savers : ~Saving(w)

(* The text the editor saved last is the one that stays, and a sleep waits *)
(* for it (storage.cpp:1147, system.cpp:799), whatever the eviction does   *)
(* meanwhile.  Not covered: an idle signal that comes late, and the notes  *)
(* in `lost'.                                                              *)
LastSaveKept == Settled /\ ~late => \A n \in Notes \ lost : Kept(n)

(* A write announced by hw_set_filesystem_dirty(true) leaves the mark in   *)
(* NVS until the journal has been brought up to date (storage.cpp:362),    *)
(* except for the moment in which a persist puts it back.                  *)
MarkedOnFlash == marked => nvsDirty \/ pc["ui"] \in {"recheck", "redo"}

\* Where a task can be.
Control ==
    /\ \A w \in Savers : pc[w] \in {"off", "mark", "lock", "ffat", "sd", "idle", "bit"}
    /\ pc["evict"] \in {"off", "copy", "remove", "mark", "lock"}
    /\ pc["link"] \in {"off", "crc", "check", "remove", "mark", "lock"}
    /\ pc["ui"] \notin {"idle", "bit", "copy", "remove", "crc", "check"}
    /\ pc["ui"] \in {"mark", "lock"} => goal # "sleep"
    /\ pc["ui"] = "wait" => goal # "inline"

\* What the flags in RAM say of the mark in NVS, and who holds the mutex.
Persisting ==
    /\ marked => ramDirty
    /\ nvsSeen => nvsDirty
    /\ mutex <=> pc["ui"] \in {"forget", "clean", "recheck", "redo"}
    /\ pc["ui"] \in {"clean", "recheck", "redo"} => ~nvsSeen

\* A save is on its way for as long as s_save_pending says, unless an idle
\* signal comes late: then the UI thread may begin the next one before it.
Busy(w) == pc[w] \in {"mark", "lock", "ffat", "sd", "idle"}

OneSave ==
    ~late =>
        /\ \A w \in Savers : Busy(w) => pending /\ pc["ui"] \in {"off", "wait"}
        /\ \A w, x \in Savers : Busy(w) /\ Busy(x) => w = x
        /\ pending => pc["ui"] \in {"off", "wait", "spawn"}
        /\ pc["ui"] = "spawn" => pending
        /\ pending \/ pc["ui"] = "set" => ~idleBit

\* The task has a text of which nothing is written yet.
Writers == Savers \cup {"ui"}
Unwritten(t) ==
    \/ pc[t] \in {"mark", "lock", "clear", "set", "spawn", "failed", "ffat"}
    \/ pc[t] = "wait" /\ goal = "async"

Evicting(n) == pc["evict"] \in {"copy", "remove"} /\ note["evict"] = n

\* Versions count the saves.
Numbered ==
    /\ \A v \in Vols, n \in Notes : files[v][n] <= saves
    /\ \A t \in Tasks : text[t] <= saves
    /\ \A t \in Writers \cup {"evict"} : text[t] # Gone

\* A text not written yet is newer than the files and than what the eviction
\* has read of them, and the UI thread's is the newest.
Newest ==
    ~late =>
        /\ \A t \in Writers : Unwritten(t) =>
            /\ \A v \in Vols : files[v][note[t]] < text[t]
            /\ Evicting(note[t]) => text["evict"] < text[t]
        /\ Unwritten("ui") => \A w \in Savers : Busy(w) => text[w] < text["ui"]

\* The text handed over last is on a volume or on its way.
Coming(n) == \E t \in Writers : Unwritten(t) /\ note[t] = n

OnItsWay ==
    ~late =>
        /\ Unwritten("ui") \/ pc["ui"] = "sd" => last[note["ui"]] = text["ui"]
        /\ \A w \in Savers : Saving(w) =>
            \/ last[note[w]] = text[w]
            \/ Unwritten("ui") /\ note["ui"] = note[w]
        /\ \A t \in Writers : pc[t] = "sd" => note[t] \in lost \/ Found(note[t]) = text[t]
        /\ \A n \in Notes \ lost : Kept(n) \/ Coming(n)

\* The eviction removes a file that is still there, and one it has copied.
Copying ==
    /\ \A n \in Notes \ lost : Evicting(n) => files["ffat"][n] # Gone
    /\ ~late => \A n \in Notes \ lost :
        pc["evict"] = "remove" /\ note["evict"] = n /\ files["ffat"][n] = text["evict"] =>
            files["sd"][n] = text["evict"]

\* A write that the conditional delete must notice has moved the generation.
Checking ==
    /\ pc["link"] \in {"crc", "check"} =>
        /\ gen0 <= gen
        /\ \A t \in Tasks \ inflight : pc[t] \in {"lock", "ffat", "sd"} => gen0 < gen
    /\ pc["link"] = "check" =>
        slipped \/ gen0 < gen \/ files[vol][note["link"]] \in {text["link"], Gone}
    /\ pc["link"] = "remove" =>
        slipped \/ files[vol][note["link"]] \in {want, Gone}

(* The types, the mark, and what the saves, the eviction and the delete    *)
(* rely on.                                                                *)
SavesInv ==
    /\ TypeOK /\ MarkedOnFlash
    /\ Control /\ Persisting /\ OneSave /\ Numbered /\ Newest /\ OnItsWay
    /\ Copying /\ Checking

(* A conditional delete removes the text the phone named, or a save that   *)
(* the check cannot notice came in between (handlers_fs.cpp:556).          *)
DeletesWhatWasChecked ==
    [][pc["link"] = "remove" /\ pc'["link"] = "mark" =>
           slipped \/ files[vol][note["link"]] \in {want, Gone}]_vars

(* storage.cpp:1049: "A remove racing a scan is at worst a benign logical  *)
(* race ... and the note is preserved on SD either way."                   *)
EvictionKeepsSaves ==
    pc["evict"] = "off" /\ Settled /\ ~late => \A n \in Notes : Kept(n)

(* storage.cpp:1159: "Waiters block on SAVE_IDLE_BIT (set while no save is *)
(* in flight)", so that the text saved last stays and a sleep waits for    *)
(* it.  The idle signal of the save before can come late.                  *)
WaitersWait == Settled => \A n \in Notes \ lost : Kept(n)

(* handlers_fs.cpp:559: "no pager-side save can slip between check and     *)
(* remove".  One that begins after the check can.                          *)
NothingSlips == pc["link"] = "remove" => files[vol][note["link"]] \in {want, Gone}

=============================================================================
