---------------------------- MODULE MCNoteSaves -----------------------------
(***************************************************************************)
(* NoteSaves for TLC: one note and two saver tasks, of which the second is *)
(* needed only while the first is signalling that it is idle.              *)
(***************************************************************************)
EXTENDS NoteSaves, TLC

Symmetry == Permutations(Savers)

\* What a task works on is dead once it is done, and of the generation only
\* matters whether it is still the one the delete has read.
Live == <<files, nvsDirty, ramDirty, nvsSeen, mutex, marked, queue, pc, count,
          last, lost,
          [t \in Tasks |-> IF pc[t] \in {"off", "persist", "asleep"} THEN {}
                           ELSE <<note[t], text[t]>>],
          IF pc["ui"] = "off" THEN {} ELSE goal,
          IF pc["link"] \in {"off", "mark", "lock"} THEN {}
          ELSE <<vol, want, gen = gen0, inflight, slipped>>>>
=============================================================================
