------------------------------ MODULE OneCall -------------------------------
(***************************************************************************)
(* What a one-shot job promises the app that starts it                     *)
(* (src/core/one_shot_job.h): one run at a time is the app's; its result   *)
(* is given at most once, to an app that is still there and has not given  *)
(* the run up.                                                             *)
(***************************************************************************)
CONSTANTS Workers, NoWorker

VARIABLES
    owned,      \* the run whose result the app may get
    there,      \* the app waits for it
    given       \* runs whose result the app has got

Init == owned = NoWorker /\ there = FALSE /\ given = {}

Ask ==
    /\ owned = NoWorker
    /\ owned' \in Workers \ given
    /\ there' = TRUE /\ UNCHANGED given

Leave  == there' = FALSE /\ UNCHANGED <<owned, given>>
Return == owned # NoWorker /\ there' = TRUE /\ UNCHANGED <<owned, given>>

\* The run ends, or is given up.
Answer ==
    /\ owned # NoWorker
    /\ owned' = NoWorker /\ there' = FALSE
    /\ given' \in {given, IF there THEN given \cup {owned} ELSE given}

Next == Ask \/ Leave \/ Return \/ Answer

Spec == Init /\ [][Next]_<<owned, there, given>>
=============================================================================
