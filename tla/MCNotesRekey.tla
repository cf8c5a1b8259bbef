---------------------------- MODULE MCNotesRekey ----------------------------
(***************************************************************************)
(* NotesRekey for TLC: two passphrases and one note with a copy on each    *)
(* volume.                                                                 *)
(***************************************************************************)
EXTENDS NotesRekey, TLC

Symmetry == Permutations(Keys)

\* The variables local to a call are dead once it has returned.
Live == <<disk, slot, session, pc, count, excused, strayed, saving,
          IF saving = "none" THEN {} ELSE <<note, ink>>,
          IF pc = "idle" THEN {} ELSE <<goal, ret, key, newKey, known, todo,
                                        fwd, complete, failed>>,
          IF pc # "idle" /\ (pc \in {"walk", "publish"} \/ ret = "publish")
          THEN overtaken ELSE FALSE,
          IF pc = "unstage" THEN cur ELSE {}>>

\* A reset beside any two of a failure, a move of the card and a save.
AnyTwo == faults + moves + writes <= 2
=============================================================================
