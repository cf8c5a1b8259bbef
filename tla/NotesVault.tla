----------------------------- MODULE NotesVault -----------------------------
(***************************************************************************)
(* What the encryption of the notes promises its user: there is one        *)
(* passphrase at a time, setting, changing or removing it is one step that *)
(* leaves every note as it was, and a note's text changes only when it is  *)
(* saved.  A copy the program cannot reach may be lost, and stays so.      *)
(***************************************************************************)
EXTENDS Naturals

CONSTANTS Copies, Passphrases, Versions, Gone, Lost

VARIABLES pass,     \* what opens the notes
          vault     \* the version each copy opens to

Init == /\ pass \in Passphrases
        /\ vault \in [Copies -> {Gone} \cup Versions]

NewPassphrase == pass' \in Passphrases /\ UNCHANGED vault

\* One save brings some copies to a version newer than theirs; the copies out
\* of reach are lost.
Save ==
    /\ \E v \in Versions, W \in SUBSET Copies, L \in SUBSET Copies :
        /\ \A p \in W : vault[p] \in Versions => vault[p] < v
        /\ vault' = [p \in Copies |-> IF p \in L \/ vault[p] = Lost THEN Lost
                                      ELSE IF p \in W THEN v ELSE vault[p]]
    /\ UNCHANGED pass

Next == NewPassphrase \/ Save

Spec == Init /\ [][Next]_<<pass, vault>>
=============================================================================
