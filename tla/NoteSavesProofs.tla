--------------------------- MODULE NoteSavesProofs ---------------------------
(***************************************************************************)
(* Proofs about NoteSaves, for any number of notes, save tasks, sweeps,    *)
(* conditional deletes and power losses: the invariant the five tasks keep *)
(* in whatever order their steps fall, the last save that stays, and the   *)
(* conditional delete that removes what it checked.                        *)
(***************************************************************************)
EXTENDS NoteSaves, TLAPS

USE DEF flags, queue, local, count, ghost

-----------------------------------------------------------------------------
(* The inductive invariant, one lemma for each action *)

\* The mark in RAM is set before the one in NVS.
LEMMA MarkInv ==
  ASSUME SavesInv, NEW t \in Tasks, Mark(t)
  PROVE  SavesInv'
<1> USE DEF SavesInv, Mark, AfterMark, Goto
<1>1. Persisting' /\ OneSave' /\ Numbered' /\ Newest' /\ Copying'
  BY DEF Persisting, OneSave, Busy, Numbered, Newest, Unwritten, Evicting,
     Copying
<1>2. TypeOK'
  BY DEF TypeOK
<1>3. Control'
  BY SavesAssumption DEF Control
<1>4. MarkedOnFlash'
  BY DEF TypeOK, Persisting, MarkedOnFlash
<1>5. OnItsWay'
  BY DEF TypeOK, Control, OnItsWay, Unwritten, Writers, Found, Kept, Coming,
     Saving
<1>6. Checking'
  BY DEF TypeOK, Checking
<1> QED
  BY <1>1, <1>2, <1>3, <1>4, <1>5, <1>6

\* The mark in NVS waits for the mutex; with it the write is announced.
LEMMA MarkNvsInv ==
  ASSUME SavesInv, NEW t \in Tasks, MarkNvs(t)
  PROVE  SavesInv'
<1> USE DEF SavesInv, MarkNvs, AfterMark, Goto
<1>1. OneSave' /\ Numbered' /\ Newest' /\ Copying' /\ Checking'
  BY DEF OneSave, Busy, Numbered, Newest, Unwritten, Evicting, Copying, Checking
<1>2. MarkedOnFlash'
  BY DEF Persisting, MarkedOnFlash
<1>3. TypeOK'
  BY DEF TypeOK
<1>4. Control'
  BY SavesAssumption DEF Control
<1>5. Persisting'
  BY DEF TypeOK, Persisting, Tasks
<1>6. OnItsWay'
  BY DEF TypeOK, Control, OnItsWay, Unwritten, Writers, Found, Kept, Coming,
     Saving
<1> QED
  BY <1>1, <1>2, <1>3, <1>4, <1>5, <1>6

\* A save writes its text to one volume, the internal one first.
LEMMA SaveFileInv ==
  ASSUME SavesInv, NEW t \in Tasks, SaveFile(t)
  PROVE  SavesInv'
<1> USE DEF SavesInv, SaveFile, Goto, Write, Slips
<1>1. {nvsDirty', ramDirty', nvsSeen', mutex', pending', idleBit', marked',
      late', slipped'} \subseteq BOOLEAN
  BY DEF TypeOK
<1>2. TypeOK'
  BY <1>1 DEF TypeOK, Vols
<1>3. Control'
  BY DEF TypeOK, Control, Tasks
<1>4. Persisting'
  BY DEF TypeOK, Persisting, Tasks
<1>5. MarkedOnFlash'
  BY DEF TypeOK, MarkedOnFlash, Tasks
<1>6. OneSave'
  BY DEF TypeOK, Control, OneSave, Busy, Tasks
<1>7. Numbered'
  BY DEF TypeOK, Numbered, Vols
<1>8. Newest'
  BY DEF TypeOK, Control, OneSave, Newest, Busy, Unwritten, Writers, Evicting,
     Tasks, Versions
<1>9. OnItsWay'
  BY DEF TypeOK, Control, OneSave, Numbered, OnItsWay, Busy, Unwritten, Writers,
     Found, Kept, Coming, Saving, Tasks, Vols
<1>10. Copying'
  BY DEF TypeOK, Control, Numbered, Newest, OnItsWay, Copying, Unwritten,
     Writers, Evicting, Found, Tasks, Vols, Versions
<1>11. Checking'
  <2>1. t \in Writers /\ pc[t] \in {"ffat", "sd"}
    BY DEF Control, Tasks, Writers
  <2>2. PICK v \in Vols : /\ Write(v, note[t], text[t]) /\ Slips(t, v)
    BY DEF Vols
  <2>3. \/ files'[vol][note["link"]] = files[vol][note["link"]]
        \/ vol = v /\ note["link"] = note[t]
    BY <2>2
  <2>4. vol = v /\ note["link"] = note[t] /\ pc["link"] = "remove" => slipped'
    BY <2>2
  <2>5. vol = v /\ note["link"] = note[t] /\ pc["link"] = "check" /\ t \in inflight => slipped'
    BY <2>2
  <2>6. slipped => slipped'
    OBVIOUS
  <2>7. /\ UNCHANGED <<note, text, vol, want, gen, gen0, inflight>>
        /\ pc'["link"] = pc["link"]
        /\ \A u \in Tasks : pc'[u] \in {"lock", "ffat", "sd"} =>
                            pc[u] \in {"lock", "ffat", "sd"}
    BY <2>1, SavesAssumption DEF TypeOK, Tasks, Writers
  <2> HIDE DEF SaveFile, Write, Slips
  <2> QED
    BY <2>1, <2>3, <2>4, <2>5, <2>6, <2>7 DEF Checking
<1> QED
  BY <1>2, <1>3, <1>4, <1>5, <1>6, <1>7, <1>8, <1>9, <1>10, <1>11

\* The save's end: the flag under its lock, the idle bit after it, unless it
\* is overtaken.
LEMMA SetIdleInv ==
  ASSUME SavesInv, NEW w \in Savers, SetIdle(w)
  PROVE  SavesInv'
<1> USE DEF SavesInv, SetIdle, Goto
<1>1. Numbered'
  BY DEF Numbered
<1>2. TypeOK'
  BY DEF TypeOK
<1>3. Control'
  BY DEF TypeOK, Control, Tasks
<1>4. Persisting'
  BY DEF TypeOK, Persisting, Tasks
<1>5. MarkedOnFlash'
  BY DEF TypeOK, MarkedOnFlash, Tasks
<1>6. OneSave'
  <2>1. CASE pc[w] = "idle"
    <3>1. /\ pc' = [pc EXCEPT ![w] = "bit"] /\ pending' = FALSE
          /\ late' = late /\ idleBit' = idleBit
      BY <2>1
    <3>2. pc'["ui"] = pc["ui"] /\ \A x \in Savers : Busy(x)' => Busy(x) /\ x # w
      BY SavesAssumption DEF TypeOK, Tasks, Busy
    <3>3. Busy(w)
      BY <2>1 DEF Busy
    <3> HIDE DEF SetIdle, SavesInv
    <3> QED
      BY <3>1, <3>2, <3>3 DEF OneSave, SavesInv
  <2>2. CASE pc[w] = "bit"
    <3>1. /\ pc' = [pc EXCEPT ![w] = "off"] /\ idleBit' = TRUE /\ pending' = pending
          /\ late' = (late \/ pending \/ pc["ui"] = "set")
      BY <2>2
    <3>2. pc'["ui"] = pc["ui"] /\ \A x \in Savers : Busy(x)' => Busy(x)
      BY <3>1, SavesAssumption DEF Busy
    <3> HIDE DEF SetIdle, SavesInv
    <3> QED
      BY <3>1, <3>2 DEF OneSave, SavesInv
  <2> QED
    BY <2>1, <2>2
<1>7. Newest'
  BY DEF TypeOK, Newest, Busy, Unwritten, Writers, Evicting, Tasks
<1>8. OnItsWay'
  BY DEF TypeOK, OnItsWay, Unwritten, Writers, Found, Kept, Coming, Saving,
     Tasks
<1>9. Copying'
  BY DEF TypeOK, Copying, Evicting, Tasks
<1>10. Checking'
  BY DEF TypeOK, Checking, Tasks
<1> QED
  BY <1>1, <1>2, <1>3, <1>4, <1>5, <1>6, <1>7, <1>8, <1>9, <1>10

\* The editor hands over the newest text.
LEMMA SaveAsyncInv ==
  ASSUME SavesInv, SaveAsync
  PROVE  SavesInv'
<1> USE DEF SavesInv, SaveAsync, Begin, Goto
<1>1. Persisting' /\ MarkedOnFlash' /\ Copying' /\ Checking'
  BY DEF Persisting, MarkedOnFlash, Copying, Evicting, Checking
<1>2. TypeOK'
  BY SavesAssumption DEF TypeOK, Tasks, Versions
<1>3. Control'
  BY SavesAssumption DEF Control
<1>4. OneSave'
  BY SavesAssumption DEF OneSave, Busy
<1>5. Numbered'
  BY DEF TypeOK, Numbered, Versions, Gone
<1>6. Newest'
  BY SavesAssumption DEF TypeOK, Control, Numbered, Newest, Unwritten, Writers,
     Evicting, Tasks, Versions, Gone
<1>7. OnItsWay'
  BY DEF TypeOK, OnItsWay, Unwritten, Writers, Found, Kept, Coming, Saving,
     Tasks
<1> QED
  BY <1>1, <1>2, <1>3, <1>4, <1>5, <1>6, <1>7

\* A sleep begins by flushing.
LEMMA SleepInv ==
  ASSUME SavesInv, Sleep
  PROVE  SavesInv'
<1> USE DEF SavesInv, Sleep, Begin, Goto
<1>1. Persisting' /\ MarkedOnFlash' /\ OneSave' /\ Numbered' /\ Newest' /\ Copying'
      /\ Checking'
  BY DEF Persisting, MarkedOnFlash, OneSave, Busy, Numbered, Newest, Unwritten,
     Evicting, Copying, Checking
<1>2. TypeOK'
  BY DEF TypeOK
<1>3. Control'
  BY SavesAssumption DEF Control
<1>4. OnItsWay'
  BY DEF Control, OnItsWay, Unwritten, Writers, Found, Kept, Coming, Saving
<1> QED
  BY <1>1, <1>2, <1>3, <1>4

\* Who has seen the idle bit has seen no save, unless it came late.
LEMMA WaitedInv ==
  ASSUME SavesInv, Waited
  PROVE  SavesInv'
<1> USE DEF SavesInv, Waited, Goto
<1>1. Control' /\ Persisting' /\ MarkedOnFlash' /\ Numbered' /\ Copying' /\
      Checking'
  BY DEF Control, Persisting, MarkedOnFlash, Numbered, Copying, Evicting,
     Checking
<1>2. TypeOK'
  BY DEF TypeOK
<1>3. OneSave'
  BY DEF Control, OneSave, Busy
<1>4. Newest'
  BY DEF TypeOK, Control, Newest, Busy, Unwritten, Evicting
<1>5. OnItsWay'
  BY DEF TypeOK, Control, OnItsWay, Unwritten, Found, Kept, Coming, Saving
<1> QED
  BY <1>1, <1>2, <1>3, <1>4, <1>5

\* The idle bit is cleared before the flag is set.
LEMMA AnnounceInv ==
  ASSUME SavesInv, Announce
  PROVE  SavesInv'
<1> USE DEF SavesInv, Announce, Goto
<1>1. MarkedOnFlash' /\ Numbered'
  BY DEF MarkedOnFlash, Numbered
<1>2. TypeOK'
  BY DEF TypeOK
<1>3. Control'
  BY DEF TypeOK, Control, Tasks
<1>4. Persisting'
  BY DEF TypeOK, Persisting
<1>5. OneSave'
  BY DEF TypeOK, OneSave, Busy, Tasks
<1>6. Newest'
  BY DEF TypeOK, Newest, Busy, Unwritten, Writers, Evicting, Tasks
<1>7. OnItsWay'
  BY DEF TypeOK, OnItsWay, Unwritten, Writers, Found, Kept, Coming, Saving,
     Tasks
<1>8. Copying'
  BY DEF TypeOK, Copying, Evicting, Tasks
<1>9. Checking'
  BY DEF TypeOK, Checking, Tasks
<1> QED
  BY <1>1, <1>2, <1>3, <1>4, <1>5, <1>6, <1>7, <1>8, <1>9

\* The text moves from the UI thread to the save's task.
LEMMA SpawnInv ==
  ASSUME SavesInv, Spawn
  PROVE  SavesInv'
<1> USE DEF SavesInv, Spawn
<1>1. MarkedOnFlash'
  BY DEF MarkedOnFlash
<1>2. TypeOK'
  BY DEF TypeOK, Tasks
<1>3. Control'
  BY DEF TypeOK, Control, Tasks
<1>4. Persisting'
  BY DEF TypeOK, Persisting, Tasks
<1>5. OneSave'
  <2>1. PICK w \in Savers : pc' = [pc EXCEPT ![w] = "mark", !["ui"] = "off"]
    OBVIOUS
  <2>2. pc'["ui"] = "off" /\ \A x \in Savers : Busy(x)' => Busy(x) \/ x = w
    BY <2>1 DEF TypeOK, Tasks, Busy
  <2>3. pc["ui"] = "spawn" /\ UNCHANGED <<pending, idleBit, late>>
    OBVIOUS
  <2>4. ~late => pending /\ ~idleBit /\ \A x \in Savers : ~Busy(x)
    BY DEF OneSave
  <2> HIDE DEF Spawn, SavesInv
  <2> QED
    BY <2>2, <2>3, <2>4 DEF OneSave
<1>6. Numbered'
  BY DEF Numbered, Writers, Tasks
<1>7. Newest'
  BY DEF TypeOK, Newest, Unwritten, Writers, Evicting, Tasks
<1>8. OnItsWay'
  BY DEF TypeOK, Persisting, OneSave, OnItsWay, Busy, Unwritten, Writers, Found,
     Kept, Coming, Saving, Tasks
<1>9. Copying'
  BY DEF TypeOK, Copying, Evicting, Tasks
<1>10. Checking'
  BY DEF TypeOK, Checking, Tasks
<1> QED
  BY <1>1, <1>2, <1>3, <1>4, <1>5, <1>6, <1>7, <1>8, <1>9, <1>10

\* Without a task the UI thread saves itself.
LEMMA SpawnFailsInv ==
  ASSUME SavesInv, SpawnFails
  PROVE  SavesInv'
<1> USE DEF SavesInv, SpawnFails, Goto
<1>1. MarkedOnFlash' /\ Numbered'
  BY DEF MarkedOnFlash, Numbered
<1>2. TypeOK'
  BY DEF TypeOK
<1>3. Control'
  BY DEF TypeOK, Control, Tasks
<1>4. Persisting'
  BY DEF TypeOK, Persisting
<1>5. OneSave'
  BY DEF TypeOK, Control, OneSave, Busy, Tasks
<1>6. Newest'
  BY DEF TypeOK, Control, Newest, Busy, Unwritten, Writers, Evicting, Tasks
<1>7. OnItsWay'
  BY DEF TypeOK, Control, OnItsWay, Unwritten, Writers, Found, Kept, Coming,
     Saving, Tasks
<1>8. Copying'
  BY DEF TypeOK, Copying, Evicting, Tasks
<1>9. Checking'
  BY DEF TypeOK, Checking, Tasks
<1> QED
  BY <1>1, <1>2, <1>3, <1>4, <1>5, <1>6, <1>7, <1>8, <1>9

\* The journal has been brought up to date.
LEMMA ClearDirtyInv ==
  ASSUME SavesInv, ClearDirty
  PROVE  SavesInv'
<1> USE DEF SavesInv, ClearDirty
<1>1. Control' /\ Persisting' /\ MarkedOnFlash' /\ OneSave' /\ Numbered' /\ Newest'
      /\ OnItsWay' /\ Copying' /\ Checking'
  BY DEF Control, Persisting, MarkedOnFlash, OneSave, Busy, Numbered, Newest,
     Unwritten, Evicting, OnItsWay, Found, Kept, Coming, Saving, Copying,
     Checking
<1>2. TypeOK'
  BY DEF TypeOK
<1> QED
  BY <1>1, <1>2

\* The persist clears the mark under the mutex and puts it back if a write
\* came in between.
LEMMA PersistInv ==
  ASSUME SavesInv, Persist
  PROVE  SavesInv'
<1> USE DEF SavesInv, Persist, Goto
<1>1. Numbered'
  BY DEF Numbered
<1>2. TypeOK'
  BY DEF TypeOK
<1>3. Control'
  BY DEF TypeOK, Control, Tasks
<1>4. Persisting'
  BY DEF TypeOK, Persisting, Tasks
<1>5. MarkedOnFlash'
  BY DEF TypeOK, Persisting, MarkedOnFlash, Tasks
<1>6. OneSave'
  BY DEF TypeOK, OneSave, Busy, Tasks
<1>7. Newest'
  BY DEF TypeOK, Newest, Unwritten, Writers, Evicting, Tasks
<1>8. OnItsWay'
  BY DEF TypeOK, OnItsWay, Unwritten, Writers, Found, Kept, Coming, Saving,
     Tasks
<1>9. Copying'
  BY DEF TypeOK, Copying, Evicting, Tasks
<1>10. Checking'
  BY DEF TypeOK, Checking, Tasks
<1> QED
  BY <1>1, <1>2, <1>3, <1>4, <1>5, <1>6, <1>7, <1>8, <1>9, <1>10

\* The eviction reads a note of the internal volume.
LEMMA EvictReadInv ==
  ASSUME SavesInv, EvictRead
  PROVE  SavesInv'
<1> USE DEF SavesInv, EvictRead, Goto
<1>1. Persisting' /\ MarkedOnFlash' /\ OneSave' /\ OnItsWay' /\ Checking'
  BY DEF Persisting, MarkedOnFlash, OneSave, Busy, OnItsWay, Unwritten, Found,
     Kept, Coming, Saving, Checking
<1>2. TypeOK'
  BY SavesAssumption DEF TypeOK, Tasks, Vols
<1>3. Control'
  BY SavesAssumption DEF Control
<1>4. Numbered'
  BY DEF Numbered, Vols
<1>5. Newest'
  BY DEF TypeOK, Newest, Busy, Unwritten, Evicting, Vols
<1>6. Copying'
  BY DEF TypeOK, Copying, Evicting
<1> QED
  BY <1>1, <1>2, <1>3, <1>4, <1>5, <1>6

\* It writes what it has read to the card.
LEMMA EvictCopyInv ==
  ASSUME SavesInv, EvictCopy
  PROVE  SavesInv'
<1> USE DEF SavesInv, EvictCopy, Goto, Write, Slips
<1>1. Control' /\ Persisting' /\ MarkedOnFlash' /\ OneSave' /\ Newest'
  BY DEF Control, Persisting, MarkedOnFlash, OneSave, Busy, Newest, Unwritten,
     Evicting
<1>2. TypeOK'
  BY SavesAssumption DEF TypeOK, Tasks
<1>3. Numbered'
  BY DEF Numbered, Tasks
<1>4. OnItsWay'
  BY DEF TypeOK, OnItsWay, Copying, Unwritten, Evicting, Found, Kept, Coming,
     Saving
<1>5. Copying'
  BY DEF TypeOK, Copying, Evicting, Vols
<1>6. Checking'
  <2>1. \/ files'[vol][note["link"]] = files[vol][note["link"]]
        \/ vol = "sd" /\ note["link"] = note["evict"]
    OBVIOUS
  <2>2. vol = "sd" /\ note["link"] = note["evict"] /\ pc["link"] \in {"check", "remove"}
          => slipped'
    OBVIOUS
  <2>3. slipped => slipped'
    OBVIOUS
  <2>4. UNCHANGED <<note, text, vol, want, gen, gen0, inflight>>
        /\ pc' = [pc EXCEPT !["evict"] = "remove"] /\ pc["evict"] = "copy"
    OBVIOUS
  <2> HIDE DEF EvictCopy
  <2> QED
    BY <2>1, <2>2, <2>3, <2>4 DEF Checking
<1> QED
  BY <1>1, <1>2, <1>3, <1>4, <1>5, <1>6

\* And removes the internal file, whatever it is by now.
LEMMA EvictRemoveInv ==
  ASSUME SavesInv, EvictRemove
  PROVE  SavesInv'
<1> USE DEF SavesInv, EvictRemove, Goto, Write
<1>1. Control' /\ Persisting' /\ MarkedOnFlash' /\ Checking'
  BY DEF Control, Persisting, MarkedOnFlash, Checking
<1>2. TypeOK'
  BY DEF TypeOK, Tasks
<1>3. OneSave'
  BY DEF Control, OneSave, Busy
<1>4. Numbered'
  BY DEF TypeOK, Numbered, Gone
<1>5. Newest'
  BY DEF TypeOK, Control, Newest, Busy, Unwritten, Writers, Evicting, Tasks,
     Versions, Gone
<1>6. OnItsWay'
  BY SavesAssumption DEF TypeOK, OnItsWay, Copying, Unwritten, Found, Kept,
     Coming, Saving
<1>7. Copying'
  BY DEF TypeOK, Copying, Evicting, Tasks
<1> QED
  BY <1>1, <1>2, <1>3, <1>4, <1>5, <1>6, <1>7

\* The conditional delete reads the generation.
LEMMA DeleteInv ==
  ASSUME SavesInv, Delete
  PROVE  SavesInv'
<1> USE DEF SavesInv, Delete, Goto
<1>1. {nvsDirty', ramDirty', nvsSeen', mutex', pending', idleBit', marked',
      late', slipped'} \subseteq BOOLEAN
  BY DEF TypeOK
<1>2. Persisting' /\ MarkedOnFlash' /\ OneSave' /\ Numbered' /\ Newest' /\ OnItsWay'
      /\ Copying'
  BY DEF Persisting, MarkedOnFlash, OneSave, Busy, Numbered, Newest, Unwritten,
     Evicting, OnItsWay, Found, Kept, Coming, Saving, Copying
<1>3. TypeOK'
  BY <1>1, SavesAssumption DEF TypeOK, Tasks
<1>4. Control'
  BY SavesAssumption DEF Control
<1>5. Checking'
  BY DEF TypeOK, Checking
<1> QED
  BY <1>2, <1>3, <1>4, <1>5

\* It reads the file.
LEMMA HashFileInv ==
  ASSUME SavesInv, HashFile
  PROVE  SavesInv'
<1> USE DEF SavesInv, HashFile, Goto
<1>1. Control' /\ Persisting' /\ MarkedOnFlash' /\ OneSave' /\ Newest' /\ OnItsWay'
      /\ Copying'
  BY DEF Control, Persisting, MarkedOnFlash, OneSave, Busy, Newest, Unwritten,
     Evicting, OnItsWay, Found, Kept, Coming, Saving, Copying
<1>2. TypeOK'
  BY DEF TypeOK, Tasks
<1>3. Numbered'
  BY DEF TypeOK, Control, Numbered, Writers
<1>4. Checking'
  BY DEF TypeOK, Checking
<1> QED
  BY <1>1, <1>2, <1>3, <1>4

\* The check: nothing pending, the generation as before.
LEMMA CheckFileInv ==
  ASSUME SavesInv, CheckFile
  PROVE  SavesInv'
<1> USE DEF SavesInv, CheckFile, Goto
<1>1. Control' /\ Persisting' /\ MarkedOnFlash' /\ OneSave' /\ Numbered' /\ Newest'
      /\ OnItsWay' /\ Copying'
  BY DEF Control, Persisting, MarkedOnFlash, OneSave, Busy, Numbered, Newest,
     Unwritten, Evicting, OnItsWay, Found, Kept, Coming, Saving, Copying
<1>2. TypeOK'
  BY DEF TypeOK
<1>3. Checking'
  BY DEF TypeOK, Checking
<1> QED
  BY <1>1, <1>2, <1>3

\* The file goes.
LEMMA RemoveInv ==
  ASSUME SavesInv, Remove
  PROVE  SavesInv'
<1> USE DEF SavesInv, Remove, Goto, Write
<1>1. Control' /\ Persisting' /\ MarkedOnFlash' /\ Copying' /\ Checking'
  BY DEF Control, Persisting, MarkedOnFlash, Copying, Evicting, Checking
<1>2. TypeOK'
  BY DEF TypeOK, Tasks
<1>3. OneSave'
  BY DEF Control, OneSave, Busy
<1>4. Numbered'
  BY DEF TypeOK, Numbered, Gone
<1>5. Newest'
  BY DEF TypeOK, Control, Newest, Busy, Unwritten, Writers, Evicting, Tasks,
     Versions, Gone
<1>6. OnItsWay'
  BY DEF Control, OnItsWay, Unwritten, Found, Kept, Coming, Saving
<1> QED
  BY <1>1, <1>2, <1>3, <1>4, <1>5, <1>6

\* The pager wakes with its RAM.
LEMMA WakeInv ==
  ASSUME SavesInv, Wake
  PROVE  SavesInv'
<1> USE DEF SavesInv, Wake, Goto
<1>1. Control' /\ Persisting' /\ MarkedOnFlash' /\ OneSave' /\ Numbered' /\ Newest'
      /\ OnItsWay' /\ Copying' /\ Checking'
  BY DEF Control, Persisting, MarkedOnFlash, OneSave, Busy, Numbered, Newest,
     Unwritten, Evicting, OnItsWay, Found, Kept, Coming, Saving, Copying,
     Checking
<1>2. TypeOK'
  BY DEF TypeOK
<1> QED
  BY <1>1, <1>2

\* Without it nothing is under way, and the marks are those of NVS.
LEMMA PowerOnInv ==
  ASSUME SavesInv, PowerOn
  PROVE  SavesInv'
<1> USE DEF SavesInv, PowerOn
<1>1. {nvsDirty', ramDirty', nvsSeen', mutex', pending', idleBit', marked',
      late', slipped'} \subseteq BOOLEAN
  BY DEF TypeOK
<1>2. MarkedOnFlash' /\ Numbered'
  BY DEF MarkedOnFlash, Numbered
<1>3. TypeOK'
  BY <1>1, SavesAssumption DEF TypeOK, Vols
<1>4. Control'
  BY DEF Control, Tasks
<1>5. Persisting'
  BY DEF Persisting, MarkedOnFlash, Tasks
<1>6. OneSave'
  BY DEF OneSave, Busy, Tasks
<1>7. Newest'
  BY DEF Newest, Unwritten, Writers, Tasks
<1>8. OnItsWay'
  BY DEF OnItsWay, Unwritten, Writers, Found, Kept, Saving, Tasks
<1>9. Copying'
  BY DEF Copying, Evicting, Tasks
<1>10. Checking'
  BY DEF Checking, Tasks
<1> QED
  BY <1>2, <1>3, <1>4, <1>5, <1>6, <1>7, <1>8, <1>9, <1>10

-----------------------------------------------------------------------------
(* The specification. *)

\* Nothing is under way.
LEMMA InitInv ==
  ASSUME Init
  PROVE  SavesInv
<1> USE DEF Init, SavesInv
<1>1. NoNote \in Notes
  BY SavesAssumption DEF NoNote
<1>2. {nvsDirty, ramDirty, nvsSeen, mutex, pending, idleBit, marked, late,
      slipped} \subseteq BOOLEAN
  OBVIOUS
<1>3. TypeOK
  BY <1>1, <1>2, SavesAssumption DEF TypeOK, Vols, Versions
<1>5. Control /\ Persisting /\ MarkedOnFlash
  BY DEF Control, Persisting, MarkedOnFlash, Tasks
<1>6. OneSave /\ Numbered /\ Newest
  BY DEF OneSave, Busy, Numbered, Gone, Newest, Unwritten, Writers, Tasks
<1>7. OnItsWay
  BY DEF OnItsWay, Unwritten, Saving, Writers, Tasks, Kept, Found, Vols
<1>8. Copying /\ Checking
  BY DEF Copying, Evicting, Checking, Tasks
<1> QED
  BY <1>3, <1>5, <1>6, <1>7, <1>8

\* Every step of every task keeps the invariant.
LEMMA NextInv ==
  ASSUME SavesInv, [Next]_vars
  PROVE  SavesInv'
<1>1. CASE \E t \in Tasks : Mark(t) \/ MarkNvs(t) \/ SaveFile(t)
  BY <1>1, MarkInv, MarkNvsInv, SaveFileInv
<1>2. CASE \E w \in Savers : SetIdle(w)
  BY <1>2, SetIdleInv
<1>3. CASE \/ SaveAsync \/ Sleep \/ Waited \/ Announce \/ Spawn \/ SpawnFails
           \/ ClearDirty \/ Persist
  BY <1>3, SaveAsyncInv, SleepInv, WaitedInv, AnnounceInv, SpawnInv,
     SpawnFailsInv, ClearDirtyInv, PersistInv
<1>4. CASE \/ EvictRead \/ EvictCopy \/ EvictRemove
           \/ Delete \/ HashFile \/ CheckFile \/ Remove
  BY <1>4, EvictReadInv, EvictCopyInv, EvictRemoveInv, DeleteInv, HashFileInv,
     CheckFileInv, RemoveInv
<1>5. CASE Wake \/ PowerOn
  BY <1>5, WakeInv, PowerOnInv
<1>6. CASE UNCHANGED vars
  <2> USE <1>6 DEF vars, SavesInv
  <2>1. TypeOK' /\ Control' /\ Persisting' /\ MarkedOnFlash' /\ OneSave' /\ Numbered'
    BY DEF TypeOK, Control, Persisting, MarkedOnFlash, OneSave, Busy, Numbered
  <2>2. Newest'
    BY DEF Newest, Unwritten, Evicting, Busy
  <2>3. Copying'
    BY DEF Copying, Evicting
  <2>4. Checking'
    BY DEF Checking
  <2>5. OnItsWay'
    <3>2. ASSUME NEW n PROVE Found(n)' = Found(n)
      BY DEF Found
    <3>3. ASSUME NEW n PROVE Kept(n)' <=> Kept(n)
      BY <3>2 DEF Kept
    <3>4. ASSUME NEW t PROVE (Unwritten(t)' <=> Unwritten(t)) /\ (Saving(t)' <=> Saving(t))
      BY DEF Unwritten, Saving
    <3>5. ASSUME NEW n PROVE Coming(n)' <=> Coming(n)
      BY <3>4 DEF Coming
    <3> QED
      BY <3>2, <3>3, <3>4, <3>5 DEF OnItsWay
  <2> QED
    BY <2>1, <2>2, <2>3, <2>4, <2>5
<1> QED BY <1>1, <1>2, <1>3, <1>4, <1>5, <1>6 DEF Next

\* In whatever order the editor, its save tasks, the eviction, a conditional
\* delete, the persist of the dirty mark and power losses fall: a write that
\* was announced has its mark on flash, at most one save is under way unless
\* an idle signal came late, and the last text of a note is on a volume or on
\* its way (storage.cpp:395-430, 1155-1175).
THEOREM SavesInvariant == Spec => []SavesInv
<1>1. Init => SavesInv
  BY InitInv
<1>2. SavesInv /\ [Next]_vars => SavesInv'
  BY NextInv
<1> QED
  BY <1>1, <1>2, PTL DEF Spec

-----------------------------------------------------------------------------
(* What follows from it *)

\* With no save under way the last text has nowhere to be but on a volume.
LEMMA SettledIsKept == SavesInv => LastSaveKept
<1> SUFFICES ASSUME SavesInv, Settled, ~late, NEW n \in Notes \ lost
             PROVE  Kept(n)
  BY DEF LastSaveKept
<1>1. Kept(n) \/ Coming(n)
  BY DEF SavesInv, OnItsWay
<1>2. ~Unwritten("ui")
  BY DEF Settled, Unwritten
<1>3. ASSUME NEW w \in Savers
      PROVE  ~Unwritten(w)
  BY DEF SavesInv, Settled, Saving, Control, OneSave, Busy, Unwritten
<1> QED
  BY <1>1, <1>2, <1>3 DEF Coming, Writers

\* storage.cpp:1147, system.cpp:799: once the saves have ended, and when the
\* pager sleeps, the newest text of each note is on a volume.
THEOREM LastSaveStays == Spec => []LastSaveKept
BY SavesInvariant, SettledIsKept, PTL

\* The file that goes is the one that was checked.
LEMMA RemoveStep ==
  ASSUME SavesInv, [Next]_vars, pc["link"] = "remove"
  PROVE  slipped \/ files[vol][note["link"]] \in {want, Gone}
BY DEF SavesInv, Checking

\* handlers_fs.cpp:556-559: a conditional delete removes the text it was asked
\* to, or a write the check cannot notice came in between.
THEOREM DeletesOnlyWhatWasChecked == Spec => DeletesWhatWasChecked
<1>1. SavesInv /\ [Next]_vars =>
        [pc["link"] = "remove" /\ pc'["link"] = "mark" =>
             slipped \/ files[vol][note["link"]] \in {want, Gone}]_vars
  BY RemoveStep
<1> QED
  BY <1>1, SavesInvariant, PTL DEF Spec, DeletesWhatWasChecked
=============================================================================
