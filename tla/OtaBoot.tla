------------------------------ MODULE OtaBoot -------------------------------
(***************************************************************************)
(* The firmware update (src/hal/link/handlers_ota.cpp) and the rollback of *)
(* an image that does not confirm itself (src/hal/ota.cpp, ota_state.cpp). *)
(* There are two slots; the boot slot, the rollback target `prev' and the  *)
(* boot count are on flash, each written by a step of its own, and a reset *)
(* may fall between any two steps.  The apply job, the boot check and the  *)
(* confirm task of the running image share them without a lock.            *)
(*                                                                         *)
(* An image outside Good crashes after the boot check and before it has    *)
(* run for kOtaConfirmMs, every time it boots.                             *)
(***************************************************************************)
EXTENDS Integers

CONSTANTS
    Images, Good,       \* firmware images; those that run
    Factory,            \* the image the pager was shipped with
    kOtaMaxBoots,       \* 3
    MaxApplies,         \* ota.apply requests
    MaxResets           \* resets of an image that runs

Torn   == "torn"        \* an erased or partly written slot, a file that is gone
NoSlot == "noslot"      \* NVS "prev" is empty; no image runs

ASSUME OtaAssumption ==
    /\ Good \subseteq Images /\ Factory \in Good /\ Torn \notin Images
    /\ kOtaMaxBoots \in Nat \ {0}
    /\ {MaxApplies, MaxResets} \subseteq Nat

Slots    == {"app0", "app1"}
Other(s) == CHOOSE t \in Slots : t # s

VARIABLES
    flash,              \* [Slots -> image]
    boot,               \* otadata: the slot the next boot runs
    pending, boots, prev,       \* NVS namespace "ota"
    file,               \* the uploaded image file
    running,            \* the slot that runs, NoSlot between two boots
    check, state, action,       \* hw_ota_boot_check: its step, s and a
    confirm,            \* confirm_task: its next step
    job, sha, first,    \* the apply job: its next step, the hash requested,
                        \*   and the part of the file written so far
    applies, resets,    \* bounds
    asked,              \* images whose hash a request named
    proven,             \* slots whose image has confirmed itself
    tries,              \* boots of the boot slot since it was written, capped
    hasty,              \* an image that had not confirmed itself began an update
    gap                 \* a step outside what the rollback covers was taken

nvs   == <<pending, boots, prev>>
checker == <<check, state, action>>
worker == <<job, sha, first>>
ghost == <<asked, proven, tries, hasty>>
vars  == <<flash, boot, nvs, file, running, checker, confirm, worker, applies,
           resets, ghost, gap>>

TypeOK ==
    /\ flash \in [Slots -> Images \cup {Torn}] /\ boot \in Slots
    /\ pending \in BOOLEAN /\ boots \in 0 .. kOtaMaxBoots
    /\ prev \in Slots \cup {NoSlot}
    /\ {file, first} \subseteq Images \cup {Torn} /\ sha \in Images
    /\ running \in Slots \cup {NoSlot}
    /\ check \in {"load", "pending", "boots", "switch", "prev", "done"}
    /\ state \in [pending : BOOLEAN, boots : 0 .. kOtaMaxBoots]
    /\ action \in {"None", "Count", "Rollback"}
    /\ confirm \in {"off", "wait", "pending", "boots", "prev"}
    /\ job \in {"none", "verify", "begin", "write", "rest", "switch", "prev",
                "pending", "boots", "reboot"}
    /\ asked \subseteq Images /\ proven \subseteq Slots
    /\ tries \in 0 .. kOtaMaxBoots /\ hasty \in BOOLEAN /\ gap \in BOOLEAN
    /\ applies \in 0 .. MaxApplies /\ resets \in 0 .. MaxResets

\* Slots that hold a valid image.
Whole == {s \in Slots : flash[s] # Torn}

Up == running # NoSlot /\ check = "done"

-----------------------------------------------------------------------------
(* Boot. *)

\* Every task of the image that ran is gone.
PowerOff ==
    /\ running' = NoSlot
    /\ check' = "load" /\ confirm' = "off" /\ job' = "none"
    /\ first' = Torn /\ action' = "None" /\ state' = [pending |-> FALSE, boots |-> 0]
    /\ UNCHANGED sha

\* The bootloader.
Start ==
    /\ running = NoSlot
    /\ running' = boot
    /\ tries' = IF tries < kOtaMaxBoots THEN tries + 1 ELSE tries
    /\ UNCHANGED <<flash, boot, nvs, file, checker, confirm, worker, applies,
                   resets, asked, proven, hasty, gap>>

\* Mutation of OnBoot: one boot too few.
OnBootEarly(s, maxBoots) ==
    IF ~s.pending THEN <<[pending |-> FALSE, boots |-> 0], "None">>
    ELSE IF s.boots + 1 >= maxBoots - 1
         THEN <<[pending |-> FALSE, boots |-> 0], "Rollback">>
         ELSE <<[pending |-> TRUE, boots |-> s.boots + 1], "Count">>

\* ota_on_boot
OnBoot(s, maxBoots) ==
    IF ~s.pending THEN <<[pending |-> FALSE, boots |-> 0], "None">>
    ELSE IF s.boots + 1 >= maxBoots
         THEN <<[pending |-> FALSE, boots |-> 0], "Rollback">>
         ELSE <<[pending |-> TRUE, boots |-> s.boots + 1], "Count">>

Decide(maxBoots) ==
    LET next == OnBoot([pending |-> pending, boots |-> boots], maxBoots)
    IN  state' = next[1] /\ action' = next[2]

Check ==
    /\ running # NoSlot /\ check = "load"
    /\ Decide(kOtaMaxBoots)
    /\ check' = "pending"
    /\ UNCHANGED <<flash, boot, nvs, file, running, confirm, worker, applies,
                   resets, ghost, gap>>

\* Mutation of SaveState: the count is not stored.
SaveStateForgets ==
    /\ running # NoSlot
    /\ check \in {"pending", "boots"}
    /\ pending' = state.pending
    /\ check' = IF action = "Rollback" THEN "switch" ELSE "done"
    /\ confirm' = IF action = "Count" THEN "wait" ELSE "off"
    /\ UNCHANGED <<flash, boot, boots, prev, file, running, state, action,
                   worker, applies, resets, ghost, gap>>

\* save_state, and the confirm task of a boot that counts.
SaveState ==
    /\ running # NoSlot
    /\ \/ /\ check = "pending"
          /\ pending' = state.pending
          /\ check' = "boots"
          /\ UNCHANGED <<boots, confirm>>
       \/ /\ check = "boots"
          /\ boots' = state.boots
          /\ check' = IF action = "Rollback" THEN "switch" ELSE "done"
          /\ confirm' = IF action = "Count" THEN "wait" ELSE "off"
          /\ UNCHANGED pending
    /\ UNCHANGED <<flash, boot, prev, file, running, state, action, worker,
                   applies, resets, ghost, gap>>

\* esp_ota_set_boot_partition refuses a slot without a valid image.
SwitchBack ==
    /\ running # NoSlot /\ check = "switch"
    /\ \/ /\ prev \in Whole
          /\ boot' = prev
          /\ check' = "prev"
       \/ /\ prev \notin Whole
          /\ check' = "done"
          /\ UNCHANGED boot
    /\ UNCHANGED <<flash, nvs, file, running, state, action, confirm, worker,
                   applies, resets, ghost, gap>>

Restart ==
    /\ running # NoSlot /\ check = "prev"
    /\ prev' = NoSlot
    /\ PowerOff
    /\ UNCHANGED <<flash, boot, pending, boots, file, applies, resets, ghost, gap>>

BootStep == Start \/ Check \/ SaveState \/ SwitchBack \/ Restart

-----------------------------------------------------------------------------
(* confirm_task *)

Confirm ==
    /\ Up
    /\ \/ /\ confirm = "wait" /\ flash[running] \in Good
          /\ confirm' = IF pending THEN "pending" ELSE "off"
          /\ UNCHANGED <<nvs, proven>>
       \/ /\ confirm = "pending" /\ confirm' = "boots"
          /\ pending' = FALSE /\ proven' = proven \cup {running}
          /\ UNCHANGED <<boots, prev>>
       \/ /\ confirm = "boots" /\ confirm' = "prev"
          /\ boots' = 0
          /\ UNCHANGED <<pending, prev, proven>>
       \/ /\ confirm = "prev" /\ confirm' = "off"
          /\ prev' = NoSlot
          /\ UNCHANGED <<pending, boots, proven>>
    /\ UNCHANGED <<flash, boot, file, running, checker, worker, applies, resets,
                   asked, tries, hasty, gap>>

-----------------------------------------------------------------------------
(* ota.apply *)

\* handle_ota_apply: refused while a job runs, or without the file.
Apply ==
    /\ Up /\ job = "none" /\ file # Torn
    /\ applies < MaxApplies /\ applies' = applies + 1
    /\ \E h \in Images : sha' = h /\ asked' = asked \cup {h}
    /\ job' = "verify" /\ first' = Torn
    /\ UNCHANGED <<flash, boot, nvs, file, running, checker, confirm, resets,
                   proven, tries, hasty, gap>>

\* The first pass only hashes.
Verify ==
    /\ job = "verify"
    /\ job' = IF file = sha THEN "begin" ELSE "none"
    /\ UNCHANGED <<flash, boot, nvs, file, running, checker, confirm, sha, first,
                   applies, resets, ghost, gap>>

\* hw_ota_slot_begin erases the slot, which is the rollback target while the
\* image that runs has not confirmed itself: nothing refuses it.
SlotBegin ==
    /\ job = "begin"
    /\ flash' = [flash EXCEPT ![Other(running)] = Torn]
    /\ proven' = proven \ {Other(running)}
    /\ hasty' = (hasty \/ confirm # "off") /\ gap' = (gap \/ hasty')
    /\ job' = "write"
    /\ UNCHANGED <<boot, nvs, file, running, checker, confirm, sha, first,
                   applies, resets, asked, tries>>

SlotWrite ==
    /\ job = "write"
    /\ first' = file
    /\ job' = IF file = Torn THEN "none" ELSE "rest"
    /\ UNCHANGED <<flash, boot, nvs, file, running, checker, confirm, sha,
                   applies, resets, ghost, gap>>

\* Mutation of Rest: the second pass does not compare the hash.
RestUnhashed ==
    /\ job = "rest"
    /\ flash' = [flash EXCEPT ![Other(running)] = IF file = first THEN file ELSE Torn]
    /\ job' = "switch"
    /\ UNCHANGED <<boot, nvs, file, running, checker, confirm, sha, first,
                   applies, resets, ghost, gap>>

\* The rest of the file; the slot holds an image if both parts are of one,
\* and the second pass must find the hash again.
Rest ==
    /\ job = "rest"
    /\ flash' = [flash EXCEPT ![Other(running)] = IF file = first THEN file ELSE Torn]
    /\ job' = IF first = sha /\ file = sha THEN "switch" ELSE "none"
    /\ UNCHANGED <<boot, nvs, file, running, checker, confirm, sha, first,
                   applies, resets, ghost, gap>>

\* hw_ota_slot_finish: esp_ota_end validates the image, and the slot becomes
\* the boot slot.
SlotFinish ==
    /\ job = "switch"
    /\ \/ /\ Other(running) \in Whole
          /\ boot' = Other(running)
          /\ tries' = 0
          /\ job' = "prev"
       \/ job' = "none" /\ UNCHANGED <<boot, tries>>
    /\ UNCHANGED <<flash, nvs, file, running, checker, confirm, sha, first,
                   applies, resets, asked, proven, hasty, gap>>

\* Mutation of StorePrev: the slot updated is stored as the one to go back to.
StorePrevNext(slot) ==
    /\ job = "prev"
    /\ prev' = Other(slot)
    /\ job' = "pending"
    /\ UNCHANGED <<flash, boot, pending, boots, file, running, checker, confirm,
                   sha, first, applies, resets, ghost, gap>>

StorePrev(slot) ==
    /\ job = "prev"
    /\ prev' = slot
    /\ job' = "pending"
    /\ UNCHANGED <<flash, boot, pending, boots, file, running, checker, confirm,
                   sha, first, applies, resets, ghost, gap>>

\* ota_mark_applied and save_state
MarkApplied ==
    /\ \/ job = "pending" /\ pending' = TRUE /\ job' = "boots" /\ UNCHANGED boots
       \/ job = "boots" /\ boots' = 0 /\ job' = "reboot" /\ UNCHANGED pending
    /\ UNCHANGED <<flash, boot, prev, file, running, checker, confirm, sha, first,
                   applies, resets, ghost, gap>>

Reboot ==
    /\ job = "reboot"
    /\ PowerOff
    /\ UNCHANGED <<flash, boot, nvs, file, applies, resets, ghost, gap>>

JobStep ==
    \/ Verify \/ SlotBegin \/ SlotWrite \/ Rest \/ SlotFinish
    \/ StorePrev(running) \/ MarkApplied \/ Reboot

-----------------------------------------------------------------------------

\* The phone uploads another image, or removes the file.
Upload ==
    /\ file' \in (Images \cup {Torn}) \ {file}
    /\ UNCHANGED <<flash, boot, nvs, running, checker, confirm, worker, applies,
                   resets, ghost, gap>>

\* Between the switch of the boot slot and the pending mark, and between the
\* cleared mark and the switch back, a reset leaves an image that nothing
\* watches.
Unwatched ==
    \/ job \in {"prev", "pending"}
    \/ action = "Rollback" /\ check \in {"boots", "switch"}

Reset ==
    /\ running # NoSlot
    /\ resets < MaxResets /\ resets' = resets + 1
    /\ gap' = (gap \/ Unwatched)
    /\ PowerOff
    /\ UNCHANGED <<flash, boot, nvs, file, applies, ghost>>

Crash ==
    /\ Up /\ flash[running] \notin Good
    /\ gap' = (gap \/ Unwatched)
    /\ PowerOff
    /\ UNCHANGED <<flash, boot, nvs, file, applies, resets, ghost>>

Init ==
    /\ boot \in Slots /\ running = NoSlot
    /\ flash = [s \in Slots |-> IF s = boot THEN Factory ELSE Torn]
    /\ pending = FALSE /\ boots = 0 /\ prev = NoSlot
    /\ file = Torn
    /\ check = "load" /\ confirm = "off" /\ job = "none"
    /\ state = [pending |-> FALSE, boots |-> 0] /\ action = "None"
    /\ sha = Factory /\ first = Torn
    /\ applies = 0 /\ resets = 0
    /\ asked = {Factory} /\ proven = {boot} /\ tries = 0 /\ hasty = FALSE /\ gap = FALSE

Next == BootStep \/ Confirm \/ Apply \/ JobStep \/ Upload \/ Reset \/ Crash

\* The boot check and the tasks run, and an image that does not run crashes.
Fairness ==
    /\ WF_vars(BootStep) /\ WF_vars(Confirm) /\ WF_vars(JobStep) /\ WF_vars(Crash)

Spec == Init /\ [][Next]_vars /\ Fairness

-----------------------------------------------------------------------------
(* Properties *)

(* Whatever changes in the file between the two passes, whatever a refused *)
(* update left in the other slot, and wherever a reset falls, the boot     *)
(* slot holds an image whose hash a request named, as long as no update    *)
(* was begun by an image that had not confirmed itself.                    *)
BootsWhatWasAsked == ~hasty => flash[boot] \in asked

(* "a file that changed between the passes is refused rather than flashed" *)
(* (handlers_ota.cpp:8).  It does not hold: the second pass has written    *)
(* what it refuses, esp_ota_abort leaves it there, and when the image that *)
(* runs has not confirmed itself that slot is where its third boot goes.   *)
RefusedIsNotBooted == flash[boot] \in asked

(* An image that has not confirmed itself is marked, and the rollback has  *)
(* a target that did: the state the third boot relies on (ota.cpp:66).     *)
(* Not covered: `gap'.                                                     *)
WayBack ==
    ~gap /\ boot \notin proven =>
        \/ Unwatched
        \/ pending /\ prev = Other(boot) /\ prev \in proven \cap Whole

\* The update has switched the boot slot; it has at least erased the other.
Switched == job \in {"prev", "pending", "boots", "reboot"}
Erased   == job \in {"write", "rest", "switch"} \/ Switched

\* What runs, which task is where, and what the boot slot is to both.
Control ==
    /\ running = NoSlot => check = "load" /\ confirm = "off" /\ job = "none"
    /\ check # "done" => confirm = "off" /\ job = "none"
    /\ running # NoSlot /\ Switched => boot = Other(running)
    /\ running # NoSlot /\ ~Switched /\ check # "prev" => boot = running
    /\ boot \in Whole
    /\ job # "none" => sha \in asked
    /\ job = "switch" => flash[Other(running)] = sha

\* The boot check has decided by what is still in NVS, or is being written.
Deciding ==
    /\ boots < kOtaMaxBoots
    /\ check = "load" => action = "None"
    /\ check \in {"pending", "boots"} =>
        /\ action = "Count"    => /\ pending /\ state.pending
                                  /\ state.boots = boots + 1
                                  /\ state.boots < kOtaMaxBoots
        /\ action = "Rollback" => /\ pending <=> check = "pending"
                                  /\ ~state.pending /\ state.boots = 0
        /\ action = "None"     => ~pending /\ ~state.pending /\ state.boots = 0
    /\ check = "switch" => action = "Rollback"
    /\ check \in {"switch", "prev"} => ~pending

\* What the mark and the count say of the boot slot, of the task that clears
\* them and of the update that sets them.
MarkMeaning ==
    /\ pending => boot \notin proven /\ boots <= tries
    /\ pending /\ running # NoSlot /\ check \in {"load", "pending", "boots"} => boots < tries
    /\ Up /\ confirm = "off" /\ job \notin {"boots", "reboot"} => ~pending
    /\ Up /\ confirm \in {"off", "prev"} => boots = 0
    /\ confirm = "wait" => pending
    /\ confirm \in {"boots", "prev"} => ~pending
    /\ Erased => confirm = "off" /\ running \in proven /\ Other(running) \notin proven
    /\ job = "pending" => prev = running

\* The boot check has decided to roll back and not switched yet.
RollsTo == action = "Rollback" /\ check \in {"pending", "boots", "switch"}

\* A rollback that has begun has where to go, and has waited long enough.
RollingBack ==
    /\ RollsTo =>
        /\ boot \notin proven /\ prev = Other(boot) /\ prev \in proven
        /\ tries = kOtaMaxBoots
    /\ check = "prev" => boot \in proven

ProvenWasAsked == \A s \in proven : flash[s] \in asked

\* Where a rollback would go holds an image that was asked for: no update
\* touches the other slot while a mark or a rollback stands.
AskedTarget ==
    /\ flash[boot] \in asked /\ (running # NoSlot => flash[running] \in asked)
    /\ Erased => confirm = "off"
    /\ Up /\ confirm \notin {"wait", "pending"} /\ job \notin {"boots", "reboot"} => ~pending
    /\ job = "pending" => prev = running
    /\ prev # NoSlot /\ (pending \/ RollsTo) => flash[prev] \in asked

Asked == (hasty => gap) /\ (~hasty => AskedTarget)

(* The types of the state, and the marks a boot relies on. *)
OtaInv ==
    /\ TypeOK /\ Control /\ Deciding /\ WayBack /\ Asked
    /\ ~gap => MarkMeaning /\ RollingBack /\ ProvenWasAsked

(* The boot slot changes outside an update only after kOtaMaxBoots boots   *)
(* of an image that did not confirm itself, to one that did.               *)
SwitchesBack ==
    [][boot' # boot /\ job = "none" /\ ~gap =>
           /\ tries = kOtaMaxBoots /\ boot \notin proven
           /\ boot' \in proven]_vars

(* An image that does not run does not stay the boot image.                *)
RollsBack == (flash[boot] \notin Good) ~> (flash[boot] \in Good \/ gap)

(* PROTOCOL.md 6.7: "A freshly applied image boots pending."  It does not  *)
(* hold while the image that applies it has not confirmed itself.          *)
BootsPending == check = "pending" /\ boot \notin proven => action # "None"
=============================================================================
