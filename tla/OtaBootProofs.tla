---------------------------- MODULE OtaBootProofs ----------------------------
(***************************************************************************)
(* Proofs about OtaBoot, for every set of images, every number of boots    *)
(* before a rollback and any number of requests and resets.                *)
(*                                                                         *)
(* The invariant is OtaInv; Asked in it gives BootsWhatWasAsked without    *)
(* the exceptions of the rest (gap).  The argument for the way back runs   *)
(* through WayBack: an unconfirmed boot slot is marked and its rollback    *)
(* target confirmed, except while a step that a reset would expose         *)
(* (Unwatched) is under way.  Control and Deciding say what the boot check *)
(* and the apply job have read and not yet written; MarkMeaning ties the   *)
(* count in NVS to the boots there were.                                   *)
(***************************************************************************)
EXTENDS OtaBoot, TLAPS

USE DEF nvs, checker, worker, ghost

-----------------------------------------------------------------------------
(* The invariant, and one lemma for each action. *)

\* There are two slots.
LEMMA SlotFacts ==
  /\ \A s \in Slots : Other(s) \in Slots /\ Other(s) # s /\ Other(Other(s)) = s
  /\ \A s, t \in Slots : t = s \/ t = Other(s)
BY DEF Slots, Other

IInv == OtaInv

\* A boot counts against the image before the boot check does: the count
\* stays behind.
LEMMA StartInv ==
  ASSUME IInv, Start
  PROVE  IInv'
<1> USE DEF IInv, OtaInv, RollsTo, Start, Up
<1>1. /\ Control' /\ Deciding' /\ WayBack' /\ Asked'
      /\ ~gap' => ProvenWasAsked'
  BY DEF Control, Switched, Whole, Deciding, WayBack, Unwatched, ProvenWasAsked,
     Asked, AskedTarget
<1>2. TypeOK'
  BY OtaAssumption DEF TypeOK
<1>3. ~gap' => MarkMeaning'
  BY DEF TypeOK, Control, Deciding, MarkMeaning, Switched, Erased
<1>4. ~gap' => RollingBack'
  BY DEF Control, RollingBack
<1> QED
  BY <1>1, <1>2, <1>3, <1>4

\* The boot check decides by the mark and the count; a count at its limit is
\* a boot at its limit.
LEMMA CheckInv ==
  ASSUME IInv, Check
  PROVE  IInv'
<1> USE DEF IInv, OtaInv, RollsTo, Check, Decide, OnBoot, Up
<1>1. /\ Control' /\ WayBack' /\ Asked'
      /\ ~gap' => MarkMeaning' /\ ProvenWasAsked'
  BY DEF Control, Switched, Whole, WayBack, Unwatched, MarkMeaning, Erased,
     ProvenWasAsked, Asked, AskedTarget
<1>2. TypeOK'
  BY OtaAssumption DEF TypeOK
<1>3. Deciding'
  BY OtaAssumption DEF TypeOK, Deciding
<1>4. ~gap' => RollingBack'
  BY OtaAssumption DEF TypeOK, Control, WayBack, MarkMeaning, RollingBack,
     Unwatched
<1> QED
  BY <1>1, <1>2, <1>3, <1>4

\* The mark is stored before the count: between the two a rollback has lost
\* its mark but knows its target.
LEMMA SaveStateInv ==
  ASSUME IInv, SaveState
  PROVE  IInv'
<1> USE DEF IInv, OtaInv, RollsTo, SaveState, Up
<1>1. /\ Control'
      /\ ~gap' => RollingBack' /\ ProvenWasAsked'
  BY DEF Control, Switched, Whole, RollingBack, ProvenWasAsked
<1>2. TypeOK'
  BY DEF TypeOK
<1>3. Deciding'
  BY OtaAssumption DEF TypeOK, Deciding
<1>4. WayBack'
  BY DEF TypeOK, Deciding, WayBack, Unwatched, Whole
<1>5. ~gap' => MarkMeaning'
  BY DEF TypeOK, Control, Deciding, MarkMeaning, Switched, Erased
<1>6. Asked'
  BY OtaAssumption DEF TypeOK, Control, Deciding, Erased, Switched, Asked, AskedTarget
<1> QED
  BY <1>1, <1>2, <1>3, <1>4, <1>5, <1>6

\* The target of a rollback is whole and was confirmed, so the switch back is
\* not refused.
LEMMA SwitchBackInv ==
  ASSUME IInv, SwitchBack
  PROVE  IInv'
<1> USE DEF IInv, OtaInv, RollsTo, SwitchBack, Up
<1>1. /\ Control' /\ Deciding'
      /\ ~gap' => ProvenWasAsked'
  BY DEF Control, Switched, Whole, Deciding, ProvenWasAsked
<1>2. TypeOK'
  BY DEF TypeOK, Whole
<1>3. WayBack'
  BY OtaAssumption DEF TypeOK, Deciding, WayBack, RollingBack, ProvenWasAsked,
     Whole
<1>4. ~gap' => MarkMeaning'
  BY OtaAssumption DEF TypeOK, Deciding, MarkMeaning, RollingBack,
     ProvenWasAsked, Switched, Erased, Whole
<1>5. ~gap' => RollingBack'
  BY DEF Deciding, RollingBack
<1>6. Asked'
  <2>1. action = "Rollback" /\ ~pending /\ confirm = "off" /\ job = "none"
    BY DEF Control, Deciding
  <2>2. prev \in Whole => prev \in Slots /\ prev # NoSlot
    BY DEF Whole, Slots, NoSlot
  <2> QED BY <2>1, <2>2 DEF Erased, Switched, Asked, AskedTarget
<1> QED
  BY <1>1, <1>2, <1>3, <1>4, <1>5, <1>6

\* The restart of a rollback leaves a boot slot that was confirmed, and no
\* target.
LEMMA RestartInv ==
  ASSUME IInv, Restart
  PROVE  IInv'
<1> USE DEF IInv, OtaInv, RollsTo, Restart, PowerOff, Up
<1>1. /\ Control' /\ Deciding' /\ Asked'
      /\ ~gap' => MarkMeaning' /\ RollingBack' /\ ProvenWasAsked'
  BY DEF Control, Whole, Deciding, MarkMeaning, Switched, Erased, RollingBack,
     ProvenWasAsked, Asked, AskedTarget
<1>2. TypeOK'
  BY OtaAssumption DEF TypeOK
<1>3. WayBack'
  BY DEF WayBack, RollingBack
<1> QED
  BY <1>1, <1>2, <1>3

\* An image is confirmed by the clearing of its mark.
LEMMA ConfirmInv ==
  ASSUME IInv, Confirm
  PROVE  IInv'
<1> USE DEF IInv, OtaInv, RollsTo, Confirm, Up
<1>1. /\ pending' \in BOOLEAN /\ gap' \in BOOLEAN
      /\ state' \in [pending : BOOLEAN, boots : 0 .. kOtaMaxBoots]
  BY DEF TypeOK
<1>2. /\ Control'
      /\ ~gap' => MarkMeaning' /\ RollingBack'
  BY DEF Control, Switched, Whole, MarkMeaning, Erased, RollingBack
<1>3. TypeOK'
  BY <1>1, OtaAssumption DEF TypeOK
<1>4. Deciding'
  BY OtaAssumption DEF Deciding
<1>5. WayBack'
  BY DEF Control, WayBack, MarkMeaning, Unwatched, Erased, Whole
<1>6. ~gap' => ProvenWasAsked'
  BY DEF Control, MarkMeaning, ProvenWasAsked, Erased, Asked, AskedTarget
<1>7. Asked'
  <2>1. confirm # "off" /\ ~hasty => job \notin {"pending", "boots", "reboot"}
    BY DEF Erased, Switched, Asked, AskedTarget
  <2> QED BY <1>1, <2>1 DEF Erased, Switched, Asked, AskedTarget
<1> QED
  BY <1>2, <1>3, <1>4, <1>5, <1>6, <1>7

\* A request names the hash the job works for.
LEMMA ApplyInv ==
  ASSUME IInv, Apply
  PROVE  IInv'
<1> USE DEF IInv, OtaInv, RollsTo, Apply, Up
<1>1. /\ Control' /\ Deciding' /\ WayBack' /\ Asked'
      /\ ~gap' => MarkMeaning' /\ RollingBack' /\ ProvenWasAsked'
  BY DEF Control, Switched, Whole, Deciding, WayBack, Unwatched, MarkMeaning,
     Erased, RollingBack, ProvenWasAsked, Asked, AskedTarget
<1>2. TypeOK'
  BY OtaAssumption DEF TypeOK
<1> QED
  BY <1>1, <1>2

\* The first pass does not write.
LEMMA VerifyInv ==
  ASSUME IInv, Verify
  PROVE  IInv'
<1> USE DEF IInv, OtaInv, RollsTo, Verify, Up
<1>1. /\ Control' /\ Deciding' /\ WayBack' /\ Asked'
      /\ ~gap' => MarkMeaning' /\ RollingBack' /\ ProvenWasAsked'
  BY DEF Control, Switched, Whole, Deciding, WayBack, Unwatched, MarkMeaning,
     Erased, RollingBack, ProvenWasAsked, Asked, AskedTarget
<1>2. TypeOK'
  BY DEF TypeOK
<1> QED
  BY <1>1, <1>2

\* The slot erased is not the boot slot, and while the running image is
\* confirmed it is no rollback target.
LEMMA SlotBeginInv ==
  ASSUME IInv, SlotBegin
  PROVE  IInv'
<1> USE DEF IInv, OtaInv, RollsTo, SlotBegin, Up
<1>1. Deciding'
  BY DEF Deciding
<1>2. TypeOK'
  BY DEF TypeOK
<1>3. Control'
  BY SlotFacts DEF Control, Switched, Whole
<1>4. WayBack'
  BY SlotFacts DEF TypeOK, Control, WayBack, MarkMeaning, Unwatched, Switched
<1>5. ~gap' => MarkMeaning'
  <2> SUFFICES ASSUME ~gap' PROVE MarkMeaning'
    OBVIOUS
  <2>1. ~gap /\ confirm = "off" /\ check = "done" /\ running # NoSlot
    BY DEF Control
  <2>2. ~pending /\ boots = 0
    BY <2>1 DEF MarkMeaning
  <2>3. boot = running /\ running \in proven
    BY <2>2 DEF Control, Switched, WayBack, Unwatched
  <2> QED
    BY <2>3, SlotFacts DEF TypeOK, MarkMeaning
<1>6. ~gap' => RollingBack'
  BY DEF Control, RollingBack
<1>7. ~gap' => ProvenWasAsked'
  BY DEF TypeOK, ProvenWasAsked
<1>8. Asked'
  <2>1. running \in Slots /\ Other(running) \in Slots /\ Other(running) # running
    BY SlotFacts DEF TypeOK, Control
  <2>2. check = "done" /\ boot = running /\ running # NoSlot
    BY DEF Control, Switched
  <2>3. ~hasty' => confirm = "off" /\ ~hasty /\ ~pending
    BY <2>1, <2>2 DEF TypeOK, Asked, AskedTarget
  <2> QED BY <2>1, <2>2, <2>3 DEF TypeOK, Erased, Switched, Asked, AskedTarget
<1> QED
  BY <1>1, <1>2, <1>3, <1>4, <1>5, <1>6, <1>7, <1>8

\* The first part of the file is written.
LEMMA SlotWriteInv ==
  ASSUME IInv, SlotWrite
  PROVE  IInv'
<1> USE DEF IInv, OtaInv, RollsTo, SlotWrite, Up
<1>1. /\ Control' /\ Deciding' /\ WayBack' /\ Asked'
      /\ ~gap' => MarkMeaning' /\ RollingBack' /\ ProvenWasAsked'
  BY DEF Control, Switched, Whole, Deciding, WayBack, Unwatched, MarkMeaning,
     Erased, RollingBack, ProvenWasAsked, Asked, AskedTarget
<1>2. TypeOK'
  BY DEF TypeOK
<1> QED
  BY <1>1, <1>2

\* What the second pass accepts has the hash asked for, whatever happened to
\* the file.
LEMMA RestInv ==
  ASSUME IInv, Rest
  PROVE  IInv'
<1> USE DEF IInv, OtaInv, RollsTo, Rest, Up
<1>1. /\ pending' \in BOOLEAN /\ gap' \in BOOLEAN
      /\ state' \in [pending : BOOLEAN, boots : 0 .. kOtaMaxBoots]
  BY DEF TypeOK
<1>2. /\ Deciding'
      /\ ~gap' => MarkMeaning' /\ RollingBack'
  BY DEF Deciding, MarkMeaning, Erased, RollingBack
<1>3. TypeOK'
  BY <1>1 DEF TypeOK
<1>4. Control'
  BY SlotFacts DEF TypeOK, Control, Switched, Whole
<1>5. WayBack'
  BY DEF WayBack, MarkMeaning, Unwatched, Erased, Whole
<1>6. ~gap' => ProvenWasAsked'
  BY DEF MarkMeaning, ProvenWasAsked, Erased
<1>7. Asked'
  <2>1. /\ running \in Slots /\ Other(running) \in Slots /\ Other(running) # running
        /\ check = "done" /\ boot = running /\ running # NoSlot
    BY SlotFacts DEF TypeOK, Control, Switched
  <2>2. ~hasty => confirm = "off" /\ ~pending
    BY <2>1 DEF Erased, Asked, AskedTarget
  <2> QED BY <1>3, <2>1, <2>2 DEF TypeOK, Erased, Switched, Asked, AskedTarget
<1> QED
  BY <1>2, <1>3, <1>4, <1>5, <1>6, <1>7

\* The boot slot moves to an image whose hash was asked for; until the mark
\* is stored nothing watches it.
LEMMA SlotFinishInv ==
  ASSUME IInv, SlotFinish
  PROVE  IInv'
<1> USE DEF IInv, OtaInv, RollsTo, SlotFinish, Up
<1>1. /\ Control' /\ Deciding' /\ WayBack'
      /\ ~gap' => ProvenWasAsked'
  BY DEF Control, Switched, Whole, Deciding, WayBack, Unwatched, ProvenWasAsked
<1>2. TypeOK'
  BY OtaAssumption DEF TypeOK, Whole
<1>3. ~gap' => MarkMeaning'
  BY DEF Control, MarkMeaning, Erased
<1>4. ~gap' => RollingBack'
  BY DEF Control, RollingBack
<1>5. Asked'
  BY SlotFacts DEF TypeOK, Control, Erased, Switched, Asked, AskedTarget
<1> QED
  BY <1>1, <1>2, <1>3, <1>4, <1>5

\* The rollback target is the image that runs.
LEMMA StorePrevInv ==
  ASSUME IInv, StorePrev(running)
  PROVE  IInv'
<1> USE DEF IInv, OtaInv, RollsTo, StorePrev, Up
<1>1. /\ Control' /\ Deciding' /\ WayBack' /\ Asked'
      /\ ~gap' => MarkMeaning' /\ ProvenWasAsked'
  BY DEF Control, Switched, Whole, Deciding, WayBack, Unwatched, MarkMeaning,
     Erased, ProvenWasAsked, Asked, AskedTarget
<1>2. TypeOK'
  BY DEF TypeOK
<1>3. ~gap' => RollingBack'
  BY DEF Control, RollingBack
<1> QED
  BY <1>1, <1>2, <1>3

\* With the mark the way back is complete.
LEMMA MarkAppliedInv ==
  ASSUME IInv, MarkApplied
  PROVE  IInv'
<1> USE DEF IInv, OtaInv, RollsTo, MarkApplied, Up
<1>1. /\ pending' \in BOOLEAN /\ gap' \in BOOLEAN
      /\ state' \in [pending : BOOLEAN, boots : 0 .. kOtaMaxBoots]
  BY DEF TypeOK
<1>2. /\ Control'
      /\ ~gap' => RollingBack' /\ ProvenWasAsked'
  BY DEF Control, Switched, Whole, RollingBack, ProvenWasAsked
<1>3. TypeOK'
  BY <1>1, OtaAssumption DEF TypeOK
<1>4. Deciding'
  BY OtaAssumption DEF Control, Deciding
<1>5. WayBack'
  BY OtaAssumption, SlotFacts DEF TypeOK, WayBack, MarkMeaning, ProvenWasAsked,
     Unwatched, Switched, Erased, Whole
<1>6. ~gap' => MarkMeaning'
  BY DEF TypeOK, Control, MarkMeaning, Switched, Erased
<1>7. Asked'
  BY <1>1 DEF Control, Erased, Switched, Asked, AskedTarget
<1> QED
  BY <1>2, <1>3, <1>4, <1>5, <1>6, <1>7

\* The update ends in a boot that will count.
LEMMA RebootInv ==
  ASSUME IInv, Reboot
  PROVE  IInv'
<1> USE DEF IInv, OtaInv, RollsTo, Reboot, PowerOff, Up
<1>1. /\ Control' /\ Deciding' /\ Asked'
      /\ ~gap' => MarkMeaning' /\ RollingBack' /\ ProvenWasAsked'
  BY DEF Control, Whole, Deciding, MarkMeaning, Switched, Erased, RollingBack,
     ProvenWasAsked, Asked, AskedTarget
<1>2. TypeOK'
  BY OtaAssumption DEF TypeOK
<1>3. WayBack'
  BY DEF Control, WayBack, Unwatched, Whole
<1> QED
  BY <1>1, <1>2, <1>3

\* The file is not what boots.
LEMMA UploadInv ==
  ASSUME IInv, Upload
  PROVE  IInv'
<1> USE DEF IInv, OtaInv, RollsTo, Upload, Up
<1>1. /\ Control' /\ Deciding' /\ WayBack' /\ Asked'
      /\ ~gap' => MarkMeaning' /\ RollingBack' /\ ProvenWasAsked'
  BY DEF Control, Switched, Whole, Deciding, WayBack, Unwatched, MarkMeaning,
     Erased, RollingBack, ProvenWasAsked, Asked, AskedTarget
<1>2. TypeOK'
  BY DEF TypeOK
<1> QED
  BY <1>1, <1>2

\* A reset loses the tasks and keeps what is on flash.
LEMMA ResetInv ==
  ASSUME IInv, Reset
  PROVE  IInv'
<1> USE DEF IInv, OtaInv, RollsTo, Reset, PowerOff, Up
<1>1. /\ Control' /\ Deciding' /\ WayBack' /\ Asked'
      /\ ~gap' => MarkMeaning' /\ RollingBack' /\ ProvenWasAsked'
  BY DEF Control, Whole, Deciding, WayBack, MarkMeaning, Switched, Erased,
     RollingBack, ProvenWasAsked, Asked, AskedTarget
<1>2. TypeOK'
  BY OtaAssumption DEF TypeOK
<1> QED
  BY <1>1, <1>2

\* So does a crash.
LEMMA CrashInv ==
  ASSUME IInv, Crash
  PROVE  IInv'
<1> USE DEF IInv, OtaInv, RollsTo, Crash, PowerOff, Up
<1>1. /\ Control' /\ Deciding' /\ WayBack' /\ Asked'
      /\ ~gap' => MarkMeaning' /\ RollingBack' /\ ProvenWasAsked'
  BY DEF Control, Whole, Deciding, WayBack, MarkMeaning, Switched, Erased,
     RollingBack, ProvenWasAsked, Asked, AskedTarget
<1>2. TypeOK'
  BY OtaAssumption DEF TypeOK
<1> QED
  BY <1>1, <1>2

-----------------------------------------------------------------------------
(* The specification. *)

\* A pager as it is shipped.
LEMMA InitInv ==
  ASSUME Init
  PROVE  IInv
<1> USE DEF Init, IInv, OtaInv, RollsTo
<1>1. TypeOK
  <2>1. Factory \in Images /\ 0 \in 0 .. kOtaMaxBoots /\ 0 \in 0 .. MaxApplies
        /\ 0 \in 0 .. MaxResets
    BY OtaAssumption
  <2> QED
    BY <2>1 DEF TypeOK
<1>2. flash[boot] = Factory /\ boot \in Whole
  BY OtaAssumption DEF Whole
<1>3. Control /\ Deciding /\ WayBack
  BY <1>2, OtaAssumption DEF Control, Deciding, WayBack
<1>4. MarkMeaning /\ RollingBack
  BY DEF MarkMeaning, RollingBack, Erased, Switched
<1>5. ProvenWasAsked /\ Asked
  BY DEF ProvenWasAsked, Asked, AskedTarget, RollsTo, Erased, Switched
<1> QED BY <1>1, <1>3, <1>4, <1>5

\* Every step of the boot, of the tasks and of the world keeps the invariant.
LEMMA NextInv ==
  ASSUME IInv, [Next]_vars
  PROVE  IInv'
<1>1. CASE BootStep
  BY <1>1, StartInv, CheckInv, SaveStateInv, SwitchBackInv, RestartInv DEF
     BootStep
<1>2. CASE JobStep
  BY <1>2, VerifyInv, SlotBeginInv, SlotWriteInv, RestInv, SlotFinishInv,
     StorePrevInv, MarkAppliedInv, RebootInv DEF JobStep
<1>3. CASE Confirm \/ Apply \/ Upload \/ Reset \/ Crash
  BY <1>3, ConfirmInv, ApplyInv, UploadInv, ResetInv, CrashInv
<1>4. CASE UNCHANGED vars
  BY <1>4 DEF vars, IInv, OtaInv, TypeOK, Control, Deciding, WayBack,
     MarkMeaning, RollingBack, ProvenWasAsked, Asked, AskedTarget, RollsTo,
     Unwatched, Switched, Erased, Up, Whole
<1> QED BY <1>1, <1>2, <1>3, <1>4 DEF Next

\* Only the switch back of a boot check moves the boot slot with no update
\* running, and it has waited for its boots and knows where to go.
LEMMA SwitchesBackStep ==
  ASSUME IInv, Next, boot' # boot, job = "none", ~gap
  PROVE  tries = kOtaMaxBoots /\ boot \notin proven /\ boot' \in proven
<1>1. SwitchBack
  BY DEF Next, BootStep, Start, Check, SaveState, Restart, Confirm, Apply,
     JobStep, Verify, SlotBegin, SlotWrite, Rest, SlotFinish, StorePrev,
     MarkApplied, Reboot, Upload, Reset, Crash
<1>2. check = "switch" /\ boot' = prev
  BY <1>1 DEF SwitchBack
<1>3. action = "Rollback"
  BY <1>2 DEF IInv, OtaInv, Deciding
<1> QED
  BY <1>2, <1>3 DEF IInv, OtaInv, RollingBack, RollsTo

\* The types, the marks a boot relies on and the way back hold at every
\* instant of an update and of a rollback (ota.cpp:66, handlers_ota.cpp).
THEOREM OtaInvariant == Spec => []OtaInv
<1>1. Init => IInv
  BY InitInv
<1>2. IInv /\ [Next]_vars => IInv'
  BY NextInv
<1>3. IInv => OtaInv
  BY DEF IInv
<1> QED
  BY <1>1, <1>2, <1>3, PTL DEF Spec

\* Only an image whose hash a request named is booted, however the file
\* changed between the two passes of the update (handlers_ota.cpp:8) and
\* wherever a reset fell, as long as no update was begun by an image that had
\* not confirmed itself.
THEOREM BootsOnlyWhatWasAsked == Spec => []BootsWhatWasAsked
<1>1. Init => IInv
  BY InitInv
<1>2. IInv /\ [Next]_vars => IInv'
  BY NextInv
<1>3. IInv => BootsWhatWasAsked
  BY DEF IInv, OtaInv, Asked, AskedTarget, BootsWhatWasAsked
<1> QED
  BY <1>1, <1>2, <1>3, PTL DEF Spec

\* Outside an update the boot slot changes only after kOtaMaxBoots boots of an
\* image that has not confirmed itself, and to one that has (ota.cpp:66).
THEOREM SwitchesBackInTime == Spec => SwitchesBack
<1>1. Init => IInv
  BY InitInv
<1>2. IInv /\ [Next]_vars => IInv'
  BY NextInv
<1>3. IInv /\ [Next]_vars =>
        [boot' # boot /\ job = "none" /\ ~gap =>
             /\ tries = kOtaMaxBoots /\ boot \notin proven
             /\ boot' \in proven]_vars
  BY SwitchesBackStep
<1> QED
  BY <1>1, <1>2, <1>3, PTL DEF Spec, SwitchesBack
=============================================================================
