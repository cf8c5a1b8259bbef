-------------------------- MODULE NotesRekeyProofs --------------------------
(***************************************************************************)
(* Proofs about NotesRekey, for any number of notes and passphrases and    *)
(* any bound on resets, failed writes, card moves and saves: the invariant *)
(* a change of passphrase rests on, and the refinement of NotesVault.      *)
(***************************************************************************)
EXTENDS NotesRekey, TLAPS

USE DEF disk, slot, sess, ram, save, apart, count, SecretOpens, Unverified,
        Stray, NvsFails, ReadsShort, Cut

-----------------------------------------------------------------------------
(* The inductive invariant. *)

\* RekeyInv with the two properties of the run and without NoLeftovers, which
\* follows from StagedOwn and Secrets.  Its parts are inductive together, not
\* one by one.
IInv ==
    /\ TypeOK /\ Control /\ StagedOwn /\ NothingStranded /\ Listing /\ Swept
    /\ Unwrapped /\ Secrets /\ SecretFollows /\ Versions

\* The card's copies are copies.
LEMMA Sd == OnSd \subseteq Copies
BY DEF OnSd, Copies, Vols

\* The flags keep their type.
LEMMA Bools ==
  ASSUME TypeOK
  PROVE  /\ pendSd \in BOOLEAN /\ card \in BOOLEAN /\ online \in BOOLEAN
         /\ overtaken \in BOOLEAN /\ fwd \in BOOLEAN
         /\ complete \in BOOLEAN /\ failed \in BOOLEAN /\ strayed \in BOOLEAN
BY DEF TypeOK

\* No step but a save's changes what is still to be written.
LEMMA SameDue ==
  ASSUME UNCHANGED save
  PROVE  \A p : Due(p)' = Due(p)
BY DEF Due

\* What a write, whole or torn, makes of the files.
LEMMA NewFile ==
  ASSUME NEW f \in [Copies -> Files], NEW p \in Copies, NEW k \in Keys \cup {Plain}
  PROVE  /\ [f EXCEPT ![p].key = k] \in [Copies -> Files]
         /\ [f EXCEPT ![p] = Broken] \in [Copies -> Files]
         /\ [f EXCEPT ![p] = [key |-> k, ver |-> Cut]] \in [Copies -> Files]
         /\ [f[p] EXCEPT !.ver = Cut] \in Files
         /\ [f[p] EXCEPT !.key = k] \in Files
         /\ [f EXCEPT ![p] = [f[p] EXCEPT !.key = k]] \in [Copies -> Files]
<1>1. 0 \in 0 .. MaxWrites
  BY RekeyAssumption
<1>2. f[p] \in Files /\ Broken \in Files /\ [key |-> k, ver |-> Cut] \in Files
  BY <1>1 DEF Files, Broken
<1> QED
  BY <1>2 DEF Files

\* The unlock found a marker: it settles forward exactly if the marker names
\* the passphrase that opened.
LEMMA WalkInv ==
  ASSUME IInv, Walk
  PROVE  IInv'
<1> USE DEF IInv, Walk, Goto, Excuse, Settle, Listed, Mounted
<1>1. Control' /\ StagedOwn' /\ NothingStranded' /\ Listing' /\ Unwrapped' /\
      Secrets' /\ SecretFollows' /\ Versions'
  BY SameDue DEF Control, Changing, Wiping, Sweeping, StagedOwn, NothingStranded, Opens,
     WillOpen, Listing, Unwrapped, Secrets, Clearing, SecretFollows, Versions
<1>2. TypeOK'
  BY Sd DEF TypeOK
<1>3. Swept'
  BY RekeyAssumption DEF TypeOK, StagedOwn, NothingStranded, Opens, WillOpen,
     Swept, Over, Clearing
<1> QED
  BY <1>1, <1>2, <1>3

\* The unlock succeeded, unless a lock overtook it.
LEMMA PublishInv ==
  ASSUME IInv, Publish
  PROVE  IInv'
<1> USE DEF IInv, Publish, Goto
<1>1. Control' /\ StagedOwn' /\ NothingStranded' /\ Listing' /\ Swept' /\ Unwrapped'
      /\ Secrets' /\ SecretFollows' /\ Versions'
  BY SameDue DEF Control, Settling, Clearing, Changing, Wiping, Sweeping, StagedOwn,
     NothingStranded, Opens, WillOpen, Listing, Swept, Unwrapped, Secrets,
     SecretFollows, Versions
<1>2. TypeOK'
  BY DEF TypeOK
<1> QED
  BY <1>1, <1>2

\* A change and a removal start from a listing; what it cannot reach is out
\* of reach.
LEMMA ListInv ==
  ASSUME IInv, List
  PROVE  IInv'
<1> USE DEF IInv, List, Goto, Excuse, Settle, Listed, Mounted
<1>1. Control' /\ StagedOwn' /\ NothingStranded' /\ Listing' /\ Swept' /\ Unwrapped'
      /\ Secrets' /\ SecretFollows' /\ Versions'
  BY SameDue DEF Control, Settling, Clearing, Changing, Sweeping, StagedOwn,
     NothingStranded, Opens, WillOpen, Listing, Swept, Unwrapped, Wiping,
     Secrets, SecretFollows, Versions
<1>2. TypeOK'
  BY Sd DEF TypeOK
<1> QED
  BY <1>1, <1>2

\* A copy without a staged one is as it should be, or out of reach.
LEMMA PassOverInv ==
  ASSUME IInv, PassOver
  PROVE  IInv'
<1> USE DEF IInv, PassOver, Exists, Reaches, Excuse
<1>1. Control' /\ StagedOwn' /\ NothingStranded' /\ Listing' /\ Unwrapped' /\
      Secrets' /\ SecretFollows' /\ Versions'
  BY SameDue DEF Control, Settling, Clearing, Changing, Wiping, Sweeping, StagedOwn,
     NothingStranded, Opens, WillOpen, Listing, Unwrapped, Secrets,
     SecretFollows, Versions
<1>2. TypeOK'
  BY DEF TypeOK
<1>3. Swept'
  BY DEF TypeOK, Control, Opens, Listing, Swept, Over, Settling, Clearing,
     Changing
<1> QED
  BY <1>1, <1>2, <1>3

\* A staged copy has its original's text and the committed passphrase.
LEMMA InstallInv ==
  ASSUME IInv, Install
  PROVE  IInv'
<1> USE DEF IInv, Install, Exists, Reaches, Works, Goto, Excuse
<1>0. {pendSd', card', online', overtaken', fwd', complete', failed', strayed'} \subseteq BOOLEAN
  BY DEF TypeOK
<1>1. PICK p \in todo :
        /\ staged[p].key \in Keys
        /\ \/ orig' = [orig EXCEPT ![p] = staged[p]] /\ UNCHANGED excused
           \/ orig' = [orig EXCEPT ![p] = [staged[p] EXCEPT !.ver = Cut]] /\ Excuse({p})
        /\ cur' = p /\ todo' = todo \ {p}
  OBVIOUS
<1>2. p \in Copies /\ excused \subseteq excused' /\ faults' \in 0 .. MaxFaults
      /\ \A q \in Copies \ excused' : orig'[q] = IF q = p THEN staged[p] ELSE orig[q]
  BY <1>1, RekeyAssumption DEF TypeOK
<1>3. orig' \in [Copies -> Files]
  <2>1. staged[p] \in Files /\ [staged[p] EXCEPT !.ver = Cut] \in Files
    BY <1>2 DEF TypeOK, Files
  <2> QED
    BY <1>1, <2>1 DEF TypeOK
<1>4. Control' /\ Listing' /\ Unwrapped' /\ Secrets' /\ SecretFollows'
  BY <1>1, <1>2 DEF Control, Settling, Changing, Wiping, Sweeping, Listing, Unwrapped,
     Clearing, Secrets, SecretFollows
<1>5. TypeOK'
  BY <1>0, <1>1, <1>2, <1>3 DEF TypeOK
<1>6. StagedOwn'
  BY <1>2 DEF StagedOwn
<1>7. NothingStranded'
  BY <1>1, <1>2, RekeyAssumption DEF Control, StagedOwn, NothingStranded, Opens, WillOpen,
     Settling
<1>8. Swept'
  BY <1>1, <1>2, RekeyAssumption DEF TypeOK, Control, StagedOwn, Opens, Swept, Over,
     Settling, Clearing
<1>9. Versions'
  BY <1>1, <1>2, SameDue DEF TypeOK, Versions, Files
<1> QED
  BY <1>4, <1>5, <1>6, <1>7, <1>8, <1>9

\* A failed install leaves the staged copy, and the settling incomplete.
LEMMA InstallFailsInv ==
  ASSUME IInv, InstallFails
  PROVE  IInv'
<1> USE DEF IInv, InstallFails, Exists, Reaches, Fails, AfterFailedWrite, Broken
<1>1. {pendSd', card', online', overtaken', fwd', complete', failed', strayed'} \subseteq BOOLEAN
  BY DEF TypeOK
<1>2. Control' /\ Swept' /\ Unwrapped' /\ Secrets' /\ SecretFollows'
  BY DEF Control, Settling, Changing, Wiping, Sweeping, Swept, Clearing,
     Unwrapped, Secrets, SecretFollows
<1>3. TypeOK'
  BY <1>1, RekeyAssumption DEF TypeOK, Files
<1>4. StagedOwn'
  BY DEF TypeOK, StagedOwn, Torn, None
<1>5. NothingStranded'
  BY RekeyAssumption DEF TypeOK, Control, StagedOwn, NothingStranded, Opens,
     WillOpen, Settling
<1>6. Listing'
  BY DEF Control, Listing, Settling, Changing, Sweeping
<1>7. Versions'
  BY SameDue DEF TypeOK, Versions
<1> QED
  BY <1>2, <1>3, <1>4, <1>5, <1>6, <1>7

\* The staged copy goes after its original has the new passphrase.
LEMMA UnstageInv ==
  ASSUME IInv, Unstage
  PROVE  IInv'
<1> USE DEF IInv, Unstage, RemoveStaged, Exists, Reaches, Works, Fails, Goto, Excuse, Absent
<1>1. {pendSd', card', online', overtaken', fwd', complete', failed', strayed'} \subseteq BOOLEAN
  BY DEF TypeOK
<1>2. Control' /\ Listing' /\ Unwrapped' /\ Secrets' /\ SecretFollows'
  BY DEF Control, Settling, Changing, Wiping, Sweeping, Listing, Unwrapped,
     Clearing, Secrets, SecretFollows
<1>3. TypeOK'
  BY <1>1, RekeyAssumption DEF TypeOK, Files
<1>4. StagedOwn'
  BY DEF TypeOK, StagedOwn
<1>5. NothingStranded'
  BY DEF TypeOK, NothingStranded, Opens, WillOpen, Swept
<1>6. Swept'
  BY DEF TypeOK, Control, Opens, Swept, Over, Settling, Clearing
<1>7. Versions'
  BY SameDue DEF TypeOK, Versions
<1> QED
  BY <1>2, <1>3, <1>4, <1>5, <1>6, <1>7

\* Rolling back, no staged copy is what opens.
LEMMA DiscardInv ==
  ASSUME IInv, Discard
  PROVE  IInv'
<1> USE DEF IInv, Discard, RemoveStaged, Exists, Reaches, Works, Fails, Absent
<1>1. {pendSd', card', online', overtaken', fwd', complete', failed', strayed'} \subseteq BOOLEAN
  BY DEF TypeOK
<1>2. Control' /\ Listing' /\ Unwrapped' /\ Secrets' /\ SecretFollows'
  BY DEF Control, Settling, Clearing, Changing, Wiping, Sweeping, Listing,
     Unwrapped, Secrets, SecretFollows
<1>3. TypeOK'
  BY <1>1, RekeyAssumption DEF TypeOK, Files
<1>4. StagedOwn'
  BY DEF TypeOK, StagedOwn
<1>5. NothingStranded'
  BY DEF Control, NothingStranded, Opens, WillOpen, Settling, Sweeping
<1>6. Swept'
  BY DEF TypeOK, Control, NothingStranded, Opens, WillOpen, Swept, Over,
     Settling, Clearing
<1>7. Versions'
  BY SameDue DEF TypeOK, Versions
<1> QED
  BY <1>2, <1>3, <1>4, <1>5, <1>6, <1>7

\* The staged secret follows the direction.
LEMMA SettleSecretsInv ==
  ASSUME IInv, SettleSecrets
  PROVE  IInv'
<1> USE DEF IInv, SettleSecrets, SettleSecret, NvsFails, Goto
<1>1. {pendSd', card', online', overtaken', fwd', complete', failed', strayed'} \subseteq BOOLEAN
  BY DEF TypeOK
<1>2. Control' /\ StagedOwn' /\ NothingStranded' /\ Listing' /\ Swept' /\ Unwrapped'
      /\ Versions'
  BY SameDue DEF Control, Settling, Clearing, Changing, Wiping, Sweeping, StagedOwn,
     NothingStranded, Opens, WillOpen, Listing, Swept, Over, Unwrapped, Versions
<1>3. TypeOK'
  BY <1>1, RekeyAssumption DEF TypeOK
<1>4. Secrets'
  BY DEF Control, Secrets, SecretFollows, Settling, Clearing, Wiping, Sweeping
<1>5. SecretFollows'
  BY DEF Control, Secrets, SecretFollows, Settling
<1> QED
  BY <1>2, <1>3, <1>4, <1>5

\* Only a complete settling goes on to clear the marker.
LEMMA SettledInv ==
  ASSUME IInv, Settled
  PROVE  IInv'
<1> USE DEF IInv, Settled, Goto
<1>1. Control' /\ StagedOwn' /\ NothingStranded' /\ SecretFollows' /\ Versions'
  BY SameDue DEF Control, Settling, Clearing, Changing, Wiping, Sweeping, StagedOwn,
     NothingStranded, Opens, WillOpen, SecretFollows, Versions
<1>2. TypeOK'
  BY DEF TypeOK
<1>3. Listing'
  BY DEF Control, Listing, Settling, Changing, Sweeping
<1>4. Swept'
  BY DEF Control, Opens, Swept, Over, Settling, Clearing
<1>5. Unwrapped'
  BY DEF Control, Unwrapped, Settling, Wiping
<1>6. Secrets'
  BY DEF Control, Secrets, Settling, Clearing, Wiping
<1> QED
  BY <1>1, <1>2, <1>3, <1>4, <1>5, <1>6

\* The card's announcement goes first.
LEMMA ClearSdInv ==
  ASSUME IInv, ClearSd
  PROVE  IInv'
<1> USE DEF IInv, ClearSd, Goto
<1>0. {pendSd', card', online', overtaken', fwd', complete', failed', strayed'} \subseteq BOOLEAN
  BY DEF TypeOK
<1>1. Control' /\ NothingStranded' /\ Listing' /\ Swept' /\ Unwrapped' /\ Secrets'
      /\ SecretFollows' /\ Versions'
  BY SameDue DEF Control, Settling, Clearing, Changing, Wiping, Sweeping,
     NothingStranded, Opens, WillOpen, Listing, Swept, Over, Unwrapped, Secrets,
     SecretFollows, Versions
<1>2. TypeOK'
  BY <1>0, RekeyAssumption DEF TypeOK
<1>3. StagedOwn'
  BY DEF StagedOwn, Swept, Over, Clearing
<1> QED
  BY <1>1, <1>2, <1>3

\* The marker goes when nothing is left of the change.
LEMMA ClearInv ==
  ASSUME IInv, Clear
  PROVE  IInv'
<1> USE DEF IInv, Clear, Goto
<1>0. {pendSd', card', online', overtaken', fwd', complete', failed', strayed'} \subseteq BOOLEAN
  BY DEF TypeOK
<1>1. Control' /\ Versions'
  BY SameDue DEF Control, Settling, Clearing, Changing, Sweeping, Wiping, Versions
<1>2. TypeOK'
  BY <1>0, RekeyAssumption DEF TypeOK
<1>3. StagedOwn'
  BY DEF StagedOwn, Swept, Over, Clearing
<1>4. NothingStranded'
  BY DEF NothingStranded, Opens, Swept, Over, Clearing
<1>5. Listing'
  BY DEF Control, Listing, Clearing, Changing, Sweeping
<1>6. Swept'
  BY DEF Control, Swept, Settling, Clearing
<1>7. Unwrapped'
  BY DEF Control, Unwrapped, Clearing, Wiping
<1>8. Secrets'
  BY DEF Control, Secrets, Clearing, Wiping
<1>9. SecretFollows'
  BY DEF Secrets, SecretFollows, Clearing
<1> QED
  BY <1>1, <1>2, <1>3, <1>4, <1>5, <1>6, <1>7, <1>8, <1>9

\* The marker names the new passphrase before anything is staged.
LEMMA MarkInv ==
  ASSUME IInv, Mark
  PROVE  IInv'
<1> USE DEF IInv, Mark, NvsFails, Goto
<1>1. {pendSd', card', online', overtaken', fwd', complete', failed', strayed'} \subseteq BOOLEAN
  BY DEF TypeOK
<1>2. Control' /\ Listing' /\ Unwrapped' /\ Versions'
  BY SameDue DEF Control, Settling, Clearing, Changing, Wiping, Sweeping, Listing,
     Unwrapped, Versions
<1>3. TypeOK'
  BY <1>1, RekeyAssumption DEF TypeOK
<1>4. StagedOwn'
  BY DEF Control, StagedOwn
<1>5. NothingStranded'
  BY DEF Control, NothingStranded, Opens, WillOpen
<1>6. Swept'
  BY DEF Control, StagedOwn, NothingStranded, Opens, WillOpen, Swept, Over
<1>7. Secrets'
  BY DEF Control, Secrets, Clearing, Wiping
<1>8. SecretFollows'
  BY DEF Control, SecretFollows
<1> QED
  BY <1>2, <1>3, <1>4, <1>5, <1>6, <1>7, <1>8

\* A staged copy is new, and its original stays.
LEMMA StageInv ==
  ASSUME IInv, Stage
  PROVE  IInv'
<1> USE DEF IInv, Stage, Works, Reaches, Excuse
<1>0. {pendSd', card', online', overtaken', fwd', complete', failed', strayed'} \subseteq BOOLEAN
  BY DEF TypeOK
<1>1. PICK p \in todo :
        /\ orig[p].key \in {key, Plain}
        /\ \/ staged' = [staged EXCEPT ![p] = [orig[p] EXCEPT !.key = newKey]]
              /\ UNCHANGED excused
           \/ staged' = [staged EXCEPT ![p] = [key |-> newKey, ver |-> Cut]]
              /\ Excuse({p})
        /\ todo' = todo \ {p}
  OBVIOUS
<1>a. p \in Copies /\ newKey \in Keys /\ orig[p] \in Files
  BY <1>1 DEF TypeOK, Control, Changing
<1>2. /\ excused \subseteq excused'
      /\ faults' \in 0 .. MaxFaults
      /\ excused' \subseteq Copies
      /\ \A q \in Copies : staged'[q].key = (IF q = p THEN newKey ELSE staged[q].key)
      /\ \A q \in Copies \ excused' :
            staged'[q].ver = (IF q = p THEN orig[p].ver ELSE staged[q].ver)
  BY <1>1, <1>a, RekeyAssumption DEF TypeOK, Files
<1>3. staged' \in [Copies -> Files]
  <2>1. [orig[p] EXCEPT !.key = newKey] \in Files /\ [key |-> newKey, ver |-> Cut] \in Files
    BY <1>a DEF Files
  <2> QED
    BY <1>1, <2>1 DEF TypeOK
<1>4. Control' /\ Swept' /\ Unwrapped' /\ Secrets' /\ SecretFollows'
  BY <1>1, <1>a, <1>2 DEF Control, Settling, Clearing, Changing, Wiping, Sweeping, Swept,
     Unwrapped, Secrets, SecretFollows
<1>5. TypeOK'
  BY <1>0, <1>1, <1>a, <1>2, <1>3 DEF TypeOK
<1>6. StagedOwn'
  BY <1>1, <1>a, <1>2, RekeyAssumption DEF Control, StagedOwn, Listing, Changing
<1>7. NothingStranded'
  BY <1>1, <1>a, <1>2 DEF Control, NothingStranded, Opens, WillOpen
<1>8. Listing'
  BY <1>1, <1>a, <1>2 DEF TypeOK, Listing, Changing, Sweeping
<1>9. Versions'
  BY <1>1, <1>a, <1>2, SameDue DEF TypeOK, Versions, Files
<1> QED
  BY <1>4, <1>5, <1>6, <1>7, <1>8, <1>9

\* A copy that cannot be read is given up.
LEMMA StageSkipsInv ==
  ASSUME IInv, StageSkips
  PROVE  IInv'
<1> USE DEF IInv, StageSkips, Fails, Reaches, Excuse
<1>1. Control' /\ StagedOwn' /\ NothingStranded' /\ Swept' /\ Unwrapped' /\ Secrets'
      /\ SecretFollows' /\ Versions'
  BY SameDue DEF Control, Settling, Clearing, Changing, Wiping, Sweeping, StagedOwn,
     NothingStranded, Opens, WillOpen, Swept, Unwrapped, Secrets, SecretFollows,
     Versions
<1>2. TypeOK'
  BY RekeyAssumption DEF TypeOK
<1>3. Listing'
  BY DEF TypeOK, Control, NothingStranded, Opens, WillOpen, Listing, Changing
<1> QED
  BY <1>1, <1>2, <1>3

\* A failed staging is rolled back under the old passphrase.
LEMMA StageFailsInv ==
  ASSUME IInv, StageFails
  PROVE  IInv'
<1> USE DEF IInv, StageFails, Fails, Reaches, AfterFailedWrite, Broken, Settle
<1>1. {pendSd', card', online', overtaken', fwd', complete', failed', strayed'} \subseteq BOOLEAN
  BY DEF TypeOK
<1>2. Listing' /\ Unwrapped' /\ Secrets' /\ SecretFollows'
  BY DEF Listing, Changing, Unwrapped, Wiping, Secrets, Clearing, SecretFollows
<1>3. TypeOK'
  BY <1>1, RekeyAssumption DEF TypeOK, Files
<1>4. Control'
  BY RekeyAssumption DEF Control, Changing, Wiping, Sweeping
<1>5. StagedOwn'
  BY RekeyAssumption DEF TypeOK, Control, StagedOwn, Listing, Changing
<1>6. NothingStranded'
  BY DEF Control, NothingStranded, Opens, WillOpen, Changing
<1>7. Swept'
  BY DEF TypeOK, StagedOwn, Opens, Listing, Swept, Over, Clearing, Changing
<1>8. Versions'
  BY SameDue DEF TypeOK, Versions
<1> QED
  BY <1>2, <1>3, <1>4, <1>5, <1>6, <1>7, <1>8

\* The secret is staged after every copy.
LEMMA StageSecretInv ==
  ASSUME IInv, StageSecret
  PROVE  IInv'
<1> USE DEF IInv, StageSecret, NvsFails, Goto, Settle
<1>1. {pendSd', card', online', overtaken', fwd', complete', failed', strayed'} \subseteq BOOLEAN
  BY DEF TypeOK
<1>2. StagedOwn' /\ NothingStranded' /\ Listing' /\ Unwrapped' /\ Versions'
  BY SameDue DEF StagedOwn, NothingStranded, Opens, WillOpen, Listing, Changing,
     Unwrapped, Clearing, Wiping, Versions
<1>3. TypeOK'
  BY <1>1, RekeyAssumption DEF TypeOK
<1>4. Control'
  BY RekeyAssumption DEF Control, Settling, Clearing, Changing, Wiping, Sweeping
<1>5. Swept'
  BY DEF StagedOwn, Opens, Listing, Swept, Over, Settling, Clearing, Changing
<1>6. Secrets'
  BY DEF Control, Secrets, SecretFollows, Clearing, Changing, Wiping
<1>7. SecretFollows'
  BY DEF Control, SecretFollows
<1> QED
  BY <1>2, <1>3, <1>4, <1>5, <1>6, <1>7

\* The canary write: every listed copy has a staged one under the new
\* passphrase.
LEMMA CommitInv ==
  ASSUME IInv, Commit
  PROVE  IInv'
<1> USE DEF IInv, Commit, NvsFails, Goto, Settle
<1>1. {pendSd', card', online', overtaken', fwd', complete', failed', strayed'} \subseteq BOOLEAN
  BY DEF TypeOK
<1>2. StagedOwn' /\ Listing' /\ Unwrapped' /\ Versions'
  BY SameDue DEF StagedOwn, Listing, Changing, Unwrapped, Clearing, Wiping, Versions
<1>3. TypeOK'
  BY <1>1, RekeyAssumption DEF TypeOK
<1>4. Control'
  BY RekeyAssumption DEF Control, Settling, Clearing, Changing, Wiping, Sweeping
<1>5. NothingStranded'
  BY RekeyAssumption DEF Control, NothingStranded, Opens, WillOpen, Listing,
     Changing
<1>6. Swept'
  BY DEF StagedOwn, Opens, Listing, Swept, Over, Settling, Clearing, Changing
<1>7. Secrets'
  BY RekeyAssumption DEF Control, Secrets, Clearing, Changing, Wiping
<1>8. SecretFollows'
  BY DEF Control, Secrets, SecretFollows
<1> QED
  BY <1>2, <1>3, <1>4, <1>5, <1>6, <1>7, <1>8

\* The session takes the new passphrase and the settling goes forward.
LEMMA SwitchInv ==
  ASSUME IInv, Switch
  PROVE  IInv'
<1> USE DEF IInv, Switch, Settle
<1>1. Control' /\ StagedOwn' /\ NothingStranded' /\ Listing' /\ Unwrapped' /\
      Secrets' /\ SecretFollows' /\ Versions'
  BY SameDue DEF Control, Changing, Wiping, Sweeping, StagedOwn, NothingStranded, Opens,
     WillOpen, Listing, Unwrapped, Secrets, Clearing, SecretFollows, Versions
<1>2. TypeOK'
  BY DEF TypeOK
<1>3. Swept'
  BY DEF StagedOwn, Opens, Listing, Swept, Over, Clearing, Changing
<1> QED
  BY <1>1, <1>2, <1>3

\* A removal decrypts in place.
LEMMA UnwrapInv ==
  ASSUME IInv, Unwrap
  PROVE  IInv'
<1> USE DEF IInv, Unwrap, Works, Fails, Reaches, AfterFailedWrite, Broken, Excuse
<1>1. {pendSd', card', online', overtaken', fwd', complete', failed', strayed'} \subseteq BOOLEAN
  BY DEF TypeOK
<1>2. Control' /\ Listing' /\ Swept' /\ Secrets' /\ SecretFollows'
  BY DEF Control, Settling, Clearing, Changing, Sweeping, Listing, Swept,
     Secrets, Wiping, SecretFollows
<1>3. TypeOK'
  BY <1>1, RekeyAssumption DEF TypeOK, Files, NoKey
<1>4. StagedOwn'
  BY DEF Control, StagedOwn
<1>5. NothingStranded'
  BY DEF TypeOK, NothingStranded, Opens, WillOpen, Files
<1>6. Unwrapped'
  BY DEF TypeOK, Unwrapped, Clearing, Wiping, Files
<1>7. Versions'
  BY SameDue, Sd DEF TypeOK, Versions, Files
<1> QED
  BY <1>2, <1>3, <1>4, <1>5, <1>6, <1>7

\* What is plain or out of reach is left.
LEMMA UnwrapSkipsInv ==
  ASSUME IInv, UnwrapSkips
  PROVE  IInv'
<1> USE DEF IInv, UnwrapSkips, Fails, Reaches, Excuse
<1>1. Control' /\ StagedOwn' /\ NothingStranded' /\ Listing' /\ Swept' /\ Secrets'
      /\ SecretFollows' /\ Versions'
  BY SameDue DEF Control, Settling, Clearing, Changing, Sweeping, StagedOwn,
     NothingStranded, Opens, WillOpen, Listing, Swept, Secrets, Wiping,
     SecretFollows, Versions
<1>2. TypeOK'
  BY RekeyAssumption DEF TypeOK
<1>3. Unwrapped'
  BY DEF Control, NothingStranded, Opens, WillOpen, Unwrapped, Clearing, Wiping
<1> QED
  BY <1>1, <1>2, <1>3

\* The secret is erased before the canary.
LEMMA EraseInv ==
  ASSUME IInv, Erase
  PROVE  IInv'
<1> USE DEF IInv, Erase, Goto
<1>0. {pendSd', card', online', overtaken', fwd', complete', failed', strayed'} \subseteq BOOLEAN
  BY DEF TypeOK
<1>1. Control' /\ StagedOwn' /\ NothingStranded' /\ Listing' /\ Unwrapped' /\
      SecretFollows' /\ Versions'
  BY SameDue DEF Control, Settling, Clearing, Changing, Sweeping, StagedOwn,
     NothingStranded, Opens, WillOpen, Listing, Unwrapped, Wiping,
     SecretFollows, Versions
<1>2. TypeOK'
  BY <1>0, RekeyAssumption DEF TypeOK
<1>3. Swept'
  BY DEF Control, StagedOwn, NothingStranded, Opens, WillOpen, Swept, Over
<1>4. Secrets'
  BY DEF Control, Secrets, Clearing, Wiping
<1> QED
  BY <1>1, <1>2, <1>3, <1>4

\* The canary goes when every copy within reach is plain.
LEMMA WipeInv ==
  ASSUME IInv, Wipe
  PROVE  IInv'
<1> USE DEF IInv, Wipe, Goto
<1>0. {pendSd', card', online', overtaken', fwd', complete', failed', strayed'} \subseteq BOOLEAN
  BY DEF TypeOK
<1>1. Control' /\ StagedOwn' /\ Listing' /\ Swept' /\ Unwrapped' /\ Secrets' /\
      Versions'
  BY SameDue DEF Control, Settling, Clearing, Changing, Wiping, Sweeping, StagedOwn,
     Listing, Swept, Unwrapped, Secrets, Versions
<1>2. TypeOK'
  BY <1>0, RekeyAssumption DEF TypeOK
<1>3. NothingStranded'
  BY DEF NothingStranded, Opens, Unwrapped, Wiping
<1>4. SecretFollows'
  BY DEF Secrets, SecretFollows, Wiping
<1> QED
  BY <1>1, <1>2, <1>3, <1>4

\* The encryption of existing notes starts from a listing.
LEMMA ListPlainInv ==
  ASSUME IInv, ListPlain
  PROVE  IInv'
<1> USE DEF IInv, ListPlain, Goto, Listed, Mounted
<1>1. Control' /\ StagedOwn' /\ NothingStranded' /\ Listing' /\ Swept' /\ Unwrapped'
      /\ Secrets' /\ SecretFollows' /\ Versions'
  BY SameDue DEF Control, Settling, Clearing, Changing, Wiping, Sweeping, StagedOwn,
     NothingStranded, Opens, WillOpen, Listing, Swept, Unwrapped, Secrets,
     SecretFollows, Versions
<1>2. TypeOK'
  BY DEF TypeOK
<1> QED
  BY <1>1, <1>2

\* It rewrites a plain copy in place.
LEMMA WrapInv ==
  ASSUME IInv, Wrap
  PROVE  IInv'
<1> USE DEF IInv, Wrap, Works, Fails, Reaches, AfterFailedWrite, Broken, Excuse
<1>0. {pendSd', card', online', overtaken', fwd', complete', failed', strayed'} \subseteq BOOLEAN
  BY DEF TypeOK
<1>1. PICK p \in todo :
        /\ \/ /\ orig[p].key = Plain
              /\ \/ /\ orig' = [orig EXCEPT ![p].key = key]
                    /\ Excuse(IF canary = key THEN {} ELSE {p})
                 \/ /\ orig' = [orig EXCEPT ![p] = [key |-> key, ver |-> Cut]]
                    /\ Excuse({p})
                 \/ orig' = [orig EXCEPT ![p] = Broken] /\ Excuse({p})
           \/ orig' = orig /\ excused' = excused
        /\ todo' = todo \ {p}
  OBVIOUS
<1>2. p \in Copies /\ key \in Keys /\ faults' \in 0 .. MaxFaults
      /\ excused \subseteq excused' /\ excused' \subseteq Copies
  BY <1>1, RekeyAssumption DEF TypeOK, Control
<1>3. orig' \in [Copies -> Files]
  <2>1. orig \in [Copies -> Files]
    BY DEF TypeOK
  <2>2. /\ [orig EXCEPT ![p].key = key] \in [Copies -> Files]
        /\ [orig EXCEPT ![p] = Broken] \in [Copies -> Files]
        /\ [orig EXCEPT ![p] = [key |-> key, ver |-> Cut]] \in [Copies -> Files]
    BY <1>2, <2>1, NewFile
  <2> HIDE DEF Excuse
  <2> QED
    BY <1>1, <2>1, <2>2
<1>4. \A q \in Copies \ excused' :
        /\ orig'[q].ver = orig[q].ver
        /\ orig'[q].key = None <=> orig[q].key = None
        /\ orig'[q] = orig[q] \/ (orig'[q].key = canary /\ orig[q].key = Plain)
  BY <1>1, <1>2, RekeyAssumption DEF TypeOK, Files, Plain, None
<1>5. Control' /\ Listing' /\ Swept' /\ Unwrapped' /\ Secrets' /\ SecretFollows'
  BY <1>1 DEF Control, Settling, Clearing, Changing, Wiping, Sweeping, Listing, Swept,
     Unwrapped, Secrets, SecretFollows
<1>6. TypeOK'
  BY <1>0, <1>1, <1>2, <1>3 DEF TypeOK
<1>7. StagedOwn'
  BY <1>2, <1>4, RekeyAssumption DEF StagedOwn, Plain, Torn
<1>8. NothingStranded'
  BY <1>2, <1>4, RekeyAssumption DEF TypeOK, NothingStranded, Opens, WillOpen, Control
<1>9. Versions'
  <2>1. \A q \in Copies : orig'[q].ver = orig[q].ver \/ orig'[q].ver \in {-1, 0}
    BY <1>1, <1>2 DEF TypeOK, Files
  <2> QED
    BY <2>1, SameDue DEF TypeOK, Versions
<1> QED
  BY <1>5, <1>6, <1>7, <1>8, <1>9

\* And ends.
LEMMA WrappedInv ==
  ASSUME IInv, Wrapped
  PROVE  IInv'
<1> USE DEF IInv, Wrapped, Goto
<1>1. Control' /\ StagedOwn' /\ NothingStranded' /\ Listing' /\ Swept' /\ Unwrapped'
      /\ Secrets' /\ SecretFollows' /\ Versions'
  BY SameDue DEF Control, Settling, Clearing, Changing, Wiping, Sweeping, StagedOwn,
     NothingStranded, Opens, WillOpen, Listing, Swept, Unwrapped, Secrets,
     SecretFollows, Versions
<1>2. TypeOK'
  BY DEF TypeOK
<1> QED
  BY <1>1, <1>2

\* An unlock works with the canary's passphrase.
LEMMA UnlockInv ==
  ASSUME IInv, Unlock
  PROVE  IInv'
<1> USE DEF IInv, Unlock, Begin
<1>1. StagedOwn' /\ NothingStranded' /\ Listing' /\ Swept' /\ Unwrapped' /\ Secrets'
      /\ SecretFollows' /\ Versions'
  BY SameDue DEF StagedOwn, NothingStranded, Opens, WillOpen, Listing, Settling,
     Changing, Sweeping, Swept, Clearing, Unwrapped, Wiping, Secrets,
     SecretFollows, Versions
<1>2. TypeOK'
  BY DEF TypeOK
<1>3. Control'
  BY RekeyAssumption DEF Control, Settling, Clearing, Changing, Wiping, Sweeping
<1> QED
  BY <1>1, <1>2, <1>3

\* So does a removal.
LEMMA DisableInv ==
  ASSUME IInv, Disable
  PROVE  IInv'
<1> USE DEF IInv, Disable, Begin
<1>1. StagedOwn' /\ NothingStranded' /\ Listing' /\ Swept' /\ Unwrapped' /\ Secrets'
      /\ SecretFollows' /\ Versions'
  BY SameDue DEF StagedOwn, NothingStranded, Opens, WillOpen, Listing, Settling,
     Changing, Sweeping, Swept, Clearing, Unwrapped, Wiping, Secrets,
     SecretFollows, Versions
<1>2. TypeOK'
  BY DEF TypeOK
<1>3. Control'
  BY RekeyAssumption DEF Control, Settling, Clearing, Changing, Wiping, Sweeping
<1> QED
  BY <1>1, <1>2, <1>3

\* So does a change, to another one.
LEMMA ChangeInv ==
  ASSUME IInv, Change
  PROVE  IInv'
<1> USE DEF IInv, Change, Begin
<1>1. StagedOwn' /\ NothingStranded' /\ Listing' /\ Swept' /\ Unwrapped' /\ Secrets'
      /\ SecretFollows' /\ Versions'
  BY SameDue DEF StagedOwn, NothingStranded, Opens, WillOpen, Listing, Settling,
     Changing, Sweeping, Swept, Clearing, Unwrapped, Wiping, Secrets,
     SecretFollows, Versions
<1>2. TypeOK'
  BY DEF TypeOK
<1>3. Control'
  BY RekeyAssumption DEF Control, Settling, Clearing, Wiping, Sweeping
<1> QED
  BY <1>1, <1>2, <1>3

\* The first passphrase: no copy is under one, no marker is set.
LEMMA SetPassphraseInv ==
  ASSUME IInv, SetPassphrase
  PROVE  IInv'
<1> USE DEF IInv, SetPassphrase
<1>0. {pendSd', card', online', overtaken', fwd', complete', failed', strayed'} \subseteq BOOLEAN
  BY DEF TypeOK
<1>1. StagedOwn' /\ NothingStranded' /\ Listing' /\ Swept' /\ Unwrapped' /\ Secrets'
      /\ Versions'
  BY SameDue DEF StagedOwn, NothingStranded, Opens, WillOpen, Listing, Settling,
     Changing, Sweeping, Swept, Clearing, Unwrapped, Wiping, Secrets, Versions
<1>2. TypeOK'
  BY <1>0, RekeyAssumption DEF TypeOK
<1>3. Control'
  BY RekeyAssumption DEF Control, Settling, Clearing, Changing, Sweeping
<1>4. SecretFollows'
  BY DEF Secrets, SecretFollows
<1> QED
  BY <1>1, <1>2, <1>3, <1>4

\* A card that came back brings plain copies.
LEMMA EncryptSdInv ==
  ASSUME IInv, EncryptSd
  PROVE  IInv'
<1> USE DEF IInv, EncryptSd, Mounted
<1>1. Control' /\ StagedOwn' /\ NothingStranded' /\ Listing' /\ Swept' /\ Unwrapped'
      /\ Secrets' /\ SecretFollows' /\ Versions'
  BY SameDue DEF Control, Settling, Clearing, Changing, Wiping, Sweeping, StagedOwn,
     NothingStranded, Opens, WillOpen, Listing, Swept, Unwrapped, Secrets,
     SecretFollows, Versions, TypeOK
<1>2. TypeOK'
  BY DEF TypeOK
<1> QED
  BY <1>1, <1>2

\* A lock ends the session, not the call.
LEMMA LockInv ==
  ASSUME IInv, Lock
  PROVE  IInv'
<1> USE DEF IInv, Lock, Goto
<1>1. Control' /\ StagedOwn' /\ NothingStranded' /\ Listing' /\ Swept' /\ Unwrapped'
      /\ Secrets' /\ SecretFollows' /\ Versions'
  BY SameDue DEF Control, Settling, Clearing, Changing, Wiping, Sweeping, StagedOwn,
     NothingStranded, Opens, WillOpen, Listing, Swept, Over, Unwrapped, Secrets,
     SecretFollows, Versions
<1>2. TypeOK'
  BY DEF TypeOK
<1> QED
  BY <1>1, <1>2

\* A save encodes under the session's passphrase.
LEMMA SaveNoteInv ==
  ASSUME IInv, SaveNote
  PROVE  IInv'
<1> USE DEF IInv, SaveNote
<1>1. Control' /\ StagedOwn' /\ NothingStranded' /\ Listing' /\ Swept' /\ Unwrapped'
      /\ Secrets' /\ SecretFollows'
  BY DEF Control, Settling, Clearing, Changing, Wiping, Sweeping, StagedOwn,
     NothingStranded, Opens, WillOpen, Listing, Swept, Over, Unwrapped, Secrets,
     SecretFollows
<1>2. TypeOK'
  BY RekeyAssumption DEF TypeOK
<1>3. Versions'
  <2>1. writes' = writes + 1 /\ writes \in Nat
    BY RekeyAssumption DEF TypeOK
  <2>2. \A p \in Copies : orig[p].ver \in Int /\ staged[p].ver \in Int
    BY RekeyAssumption DEF TypeOK, Files
  <2> QED
    BY <2>1, <2>2 DEF Versions, Due, Copies, Vols
<1> QED
  BY <1>1, <1>2, <1>3

\* It writes what it encoded; during a call, or under another passphrase, what
\* it writes is lost to the promise.
LEMMA WriteNoteInv ==
  ASSUME IInv, WriteNote
  PROVE  IInv'
<1> USE DEF IInv, WriteNote
<1> DEFINE p == <<note, saving>>
<1>0. {pendSd', card', online', overtaken', fwd', complete', failed', strayed'} \subseteq BOOLEAN
  BY DEF TypeOK
<1>1. /\ p \in Copies /\ writes \in 0 .. MaxWrites /\ ink \in Keys \cup {Plain}
      /\ Due(p)
  BY DEF TypeOK, Copies, Vols, Due
<1>2. /\ \/ /\ orig' = [orig EXCEPT ![p] = [key |-> ink, ver |-> writes]]
            /\ \/ p \in excused'
               \/ pc = "idle" /\ staged[p].key = None /\ ink \in {Plain, canary}
         \/ orig' = [orig EXCEPT ![p] = Broken] /\ p \in excused'
         \/ orig' = orig
      /\ excused \subseteq excused' /\ excused' \subseteq Copies
      /\ faults' \in 0 .. MaxFaults
  BY <1>1, RekeyAssumption DEF TypeOK, Works, Fails, AfterFailedWrite, Excuse
<1>3. orig' \in [Copies -> Files]
  <2>1. [key |-> ink, ver |-> writes] \in Files /\ Broken \in Files
    BY <1>1, RekeyAssumption DEF Files, Broken
  <2> QED
    BY <1>2, <2>1 DEF TypeOK
<1>4. \A q \in Copies \ excused' :
        \/ orig'[q] = orig[q]
        \/ /\ pc = "idle" /\ staged[q].key = None
           /\ orig'[q].key \in {Plain, canary} /\ orig'[q].key # NoKey
  BY <1>1, <1>2, RekeyAssumption DEF TypeOK, NoKey, Plain
<1>5. Control' /\ Secrets' /\ SecretFollows'
  BY DEF Control, Settling, Clearing, Changing, Wiping, Sweeping, Secrets,
     SecretFollows
<1>6. TypeOK'
  BY <1>0, <1>1, <1>2, <1>3 DEF TypeOK
<1>7. StagedOwn'
  BY <1>2, <1>4 DEF StagedOwn
<1>8. NothingStranded'
  BY <1>2, <1>4 DEF NothingStranded, Opens, WillOpen
<1>9. Listing' /\ Swept' /\ Unwrapped'
  <2>1. Listing'
    BY <1>2, <1>4 DEF TypeOK, Listing, Changing, Settling, Sweeping
  <2>2. Swept'
    BY <1>2, <1>4 DEF TypeOK, Swept, Over, Opens, Settling, Clearing
  <2>3. Unwrapped'
    BY <1>2, <1>4 DEF TypeOK, Unwrapped, Clearing, Wiping
  <2> QED
    BY <2>1, <2>2, <2>3
<1>10. Versions'
  <2>1. \A q \in Copies : /\ Due(q)' => Due(q) /\ q # p
                          /\ q # p => orig'[q] = orig[q]
                          /\ orig'[q] = orig[q] \/ orig'[q].ver \in {0, writes}
    BY <1>1, <1>2 DEF TypeOK, Due, Copies, Vols, Broken
  <2> QED
    BY <1>1, <2>1 DEF TypeOK, Versions
<1> QED
  BY <1>5, <1>6, <1>7, <1>8, <1>9, <1>10

\* A token is encrypted under the session's passphrase,
LEMMA SaveSecretInv ==
  ASSUME IInv, SaveSecret
  PROVE  IInv'
<1> USE DEF IInv, SaveSecret
<1>1. Control' /\ StagedOwn' /\ NothingStranded' /\ Listing' /\ Swept' /\ Unwrapped'
      /\ Secrets' /\ SecretFollows'
  BY DEF Control, Settling, Clearing, Changing, Wiping, Sweeping, StagedOwn,
     NothingStranded, Opens, WillOpen, Listing, Swept, Over, Unwrapped, Secrets,
     SecretFollows
<1>2. TypeOK'
  BY RekeyAssumption DEF TypeOK
<1>3. Versions'
  <2>1. writes' = writes + 1 /\ writes \in Nat
    BY RekeyAssumption DEF TypeOK
  <2>2. \A p \in Copies : orig[p].ver \in Int /\ staged[p].ver \in Int
    BY RekeyAssumption DEF TypeOK, Files
  <2> QED
    BY <2>1, <2>2 DEF Versions, Due, Copies, Vols
<1> QED
  BY <1>1, <1>2, <1>3

\* and stored, in time for the call that runs or else astray.
LEMMA WriteSecretInv ==
  ASSUME IInv, WriteSecret
  PROVE  IInv'
<1> USE DEF IInv, WriteSecret, TooLate, NvsFails
<1>0. {pendSd', card', online', overtaken', fwd', complete', failed', strayed'} \subseteq BOOLEAN
  BY DEF TypeOK
<1>1. Control' /\ StagedOwn' /\ NothingStranded' /\ Listing' /\ Swept' /\ Unwrapped'
  BY DEF Control, Settling, Clearing, Changing, Wiping, Sweeping, StagedOwn,
     NothingStranded, Opens, WillOpen, Listing, Swept, Over, Unwrapped
<1>2. TypeOK'
  BY <1>0, RekeyAssumption DEF TypeOK
<1>3. Secrets' /\ SecretFollows'
  BY DEF TypeOK, Secrets, SecretFollows, Control, Wiping, Clearing, Settling
<1>4. Versions'
  BY DEF TypeOK, Versions, Due, Copies, Vols
<1> QED
  BY <1>1, <1>2, <1>3, <1>4

\* A token that is cleared needs no passphrase.
LEMMA ClearSecretInv ==
  ASSUME IInv, ClearSecret
  PROVE  IInv'
<1> USE DEF IInv, ClearSecret
<1>1. Control' /\ StagedOwn' /\ NothingStranded' /\ Listing' /\ Swept' /\ Unwrapped'
      /\ Versions'
  BY SameDue DEF Control, Settling, Clearing, Changing, Wiping, Sweeping, StagedOwn,
     NothingStranded, Opens, WillOpen, Listing, Swept, Over, Unwrapped, Versions
<1>2. TypeOK'
  BY DEF TypeOK
<1>3. Secrets' /\ SecretFollows'
  BY DEF Secrets, SecretFollows, Control, Wiping, Clearing
<1> QED
  BY <1>1, <1>2, <1>3

\* The card in the slot and the last mount differ.
LEMMA MoveCardInv ==
  ASSUME IInv, MoveCard
  PROVE  IInv'
<1> USE DEF IInv, MoveCard
<1>1. Control' /\ StagedOwn' /\ NothingStranded' /\ Listing' /\ Swept' /\ Unwrapped'
      /\ Secrets' /\ SecretFollows' /\ Versions'
  BY SameDue DEF Control, Settling, Clearing, Changing, Wiping, Sweeping, StagedOwn,
     NothingStranded, Opens, WillOpen, Listing, Swept, Over, Unwrapped, Secrets,
     SecretFollows, Versions
<1>2. TypeOK'
  BY RekeyAssumption DEF TypeOK
<1> QED
  BY <1>1, <1>2

\* Until the next mount.
LEMMA RemountInv ==
  ASSUME IInv, Remount
  PROVE  IInv'
<1> USE DEF IInv, Remount
<1>1. Control' /\ StagedOwn' /\ NothingStranded' /\ Listing' /\ Swept' /\ Unwrapped'
      /\ Secrets' /\ SecretFollows' /\ Versions'
  BY SameDue DEF Control, Settling, Clearing, Changing, Wiping, Sweeping, StagedOwn,
     NothingStranded, Opens, WillOpen, Listing, Swept, Over, Unwrapped, Secrets,
     SecretFollows, Versions
<1>2. TypeOK'
  BY DEF TypeOK
<1> QED
  BY <1>1, <1>2

\* A reset keeps what is on flash and on the card.
LEMMA ResetInv ==
  ASSUME IInv, Reset
  PROVE  IInv'
<1> USE DEF IInv, Reset
<1>1. {pendSd', card', online', overtaken', fwd', complete', failed', strayed'} \subseteq BOOLEAN
  BY DEF TypeOK
<1>2. Control' /\ StagedOwn' /\ NothingStranded' /\ Listing' /\ Swept' /\ Unwrapped'
      /\ Secrets' /\ SecretFollows'
  BY DEF Control, Settling, Clearing, Changing, Wiping, Sweeping, StagedOwn,
     NothingStranded, Opens, WillOpen, Listing, Swept, Unwrapped, Secrets,
     SecretFollows
<1>3. TypeOK'
  BY <1>1, RekeyAssumption DEF TypeOK
<1>4. Versions'
  BY DEF TypeOK, Versions, Due, Copies, Vols
<1> QED
  BY <1>2, <1>3, <1>4

-----------------------------------------------------------------------------
(* The specification. *)

\* The notes start plain or under the canary's passphrase.
LEMMA InitInv ==
  ASSUME Init
  PROVE  IInv
<1> USE DEF Init
<1>1. TypeOK
  <2>2. {pendSd, card, online, overtaken, fwd, complete, failed, strayed} \subseteq BOOLEAN
    OBVIOUS
  <2>3. orig \in [Copies -> Files] /\ staged \in [Copies -> Files]
    BY RekeyAssumption DEF Files, Absent
  <2> QED
    BY <2>2, <2>3, RekeyAssumption DEF TypeOK
<1>2. Control
  BY DEF Control, Changing, Sweeping, Settling
<1>3. StagedOwn /\ NothingStranded
  BY DEF StagedOwn, NothingStranded, Opens, Absent
<1>4. Listing /\ Swept /\ Unwrapped
  BY DEF Listing, Swept, Unwrapped, Changing, Sweeping, Clearing, Wiping
<1>5. Secrets /\ SecretFollows
  BY DEF Secrets, SecretFollows, Wiping
<1>6. Versions
  BY DEF Versions, Absent, Due, Copies, Vols
<1> QED BY <1>1, <1>2, <1>3, <1>4, <1>5, <1>6 DEF IInv

\* Every write of the worker and every step of the world around it keeps the
\* invariant.
LEMMA NextInv ==
  ASSUME IInv, [Next]_vars
  PROVE  IInv'
<1>1. CASE Worker
  BY <1>1, WalkInv, PublishInv, ListInv, PassOverInv, InstallInv,
     InstallFailsInv, UnstageInv, DiscardInv, SettleSecretsInv, SettledInv,
     ClearSdInv, ClearInv, MarkInv, StageInv, StageSkipsInv, StageFailsInv,
     StageSecretInv, CommitInv, SwitchInv, UnwrapInv, UnwrapSkipsInv,
     EraseInv, WipeInv, ListPlainInv, WrapInv, WrappedInv DEF Worker
<1>2. CASE Environment
  BY <1>2, UnlockInv, DisableInv, ChangeInv, SetPassphraseInv, EncryptSdInv,
     LockInv, SaveNoteInv, WriteNoteInv, SaveSecretInv, WriteSecretInv,
     ClearSecretInv, MoveCardInv, RemountInv, ResetInv
     DEF Environment
<1>3. CASE UNCHANGED vars
  BY <1>3 DEF vars, IInv, TypeOK, Control, StagedOwn, NothingStranded, Opens,
     WillOpen, Listing, Swept, Over, Unwrapped, Secrets, SecretFollows,
     Versions, Due, Settling, Clearing, Changing, Wiping, Sweeping
<1> QED BY <1>1, <1>2, <1>3 DEF Next

\* A staged copy belongs to the change the marker names: without a marker
\* there is none.
LEMMA NothingLeft == IInv => NoLeftovers
BY DEF IInv, NoLeftovers, StagedOwn, Secrets

\* The inductive invariant.
LEMMA IInvHolds == Spec => []IInv
<1>1. Init => IInv
  BY InitInv
<1>2. IInv /\ [Next]_vars => IInv'
  BY NextInv
<1> QED
  BY <1>1, <1>2, PTL DEF Spec

\* At every instant of an unlock, a change of passphrase, a decryption of
\* the notes or an encryption of them, and after a reset at any of these: the
\* marker, the staged copies, the staged secret and the lists in memory tell
\* one story of where the change stands (notes_crypto.cpp:1229-1280), and no
\* staged copy outlives its change, except the copies in `excused' and a secret
\* that is `strayed'.
THEOREM RekeyInvariant == Spec => []RekeyInv
<1>1. IInv => RekeyInv
  BY NothingLeft DEF IInv, RekeyInv
<1> QED
  BY <1>1, IInvHolds, PTL

\* notes_crypto.cpp:1232 of the notes: however a change is interrupted, each
\* copy outside `excused' opens with the passphrase the canary verifies, or will
\* after the next unlock has installed its staged copy.
THEOREM NoneStranded == Spec => []NothingStranded
<1>1. IInv => NothingStranded
  BY DEF IInv
<1> QED
  BY <1>1, IInvHolds, PTL

\* notes_crypto.cpp:1232 of the stored token: whenever it is saved or cleared,
\* it opens with the passphrase the canary verifies, or its staged form does,
\* unless it is `strayed': saved too late for the change that runs, or not
\* readable or deletable for one.
THEOREM SecretsFollow == Spec => []SecretFollows
<1>1. IInv => SecretFollows
  BY DEF IInv
<1> QED
  BY <1>1, IInvHolds, PTL

-----------------------------------------------------------------------------
(* The refinement of NotesVault. *)

\* The canary stands, and every copy still within reach is worth what it was.
Same ==
    /\ canary' = canary /\ excused \subseteq excused'
    /\ \A p \in Copies \ excused' : Recovered(p)' = Recovered(p)

\* A step that keeps every copy within reach and the canary is a stutter of
\* the vault, or loses copies.
LEMMA SameIsAStep ==
  ASSUME IInv, Same
  PROVE  [Vault!Next]_<<canary, [p \in Copies |-> Recovered(p)]>>
<1> DEFINE vault == [p \in Copies |-> Recovered(p)]
<1>1. 0 \in 0 .. MaxWrites
  BY RekeyAssumption
<1>3. \A p \in excused' : Recovered(p)' = -2
  BY DEF Recovered
<1>4. vault' = [p \in Copies |-> IF p \in excused' \/ vault[p] = -2 THEN -2
                                 ELSE IF p \in {} THEN 0 ELSE vault[p]]
  BY <1>3 DEF Same
<1>5. excused' \cap Copies \in SUBSET Copies /\ {} \in SUBSET Copies
  OBVIOUS
<1>6. vault' = [p \in Copies |-> IF p \in excused' \cap Copies \/ vault[p] = -2 THEN -2
                                 ELSE IF p \in {} THEN 0 ELSE vault[p]]
  BY <1>4
<1>7. canary' = canary
  BY DEF Same
<1> HIDE DEF vault
<1>8. Vault!Save
  BY <1>1, <1>5, <1>6, <1>7 DEF Vault!Save, vault
<1> QED
  BY <1>8 DEF Vault!Next

\* Steps in RAM.
LEMMA UntouchedIsSame ==
  ASSUME UNCHANGED <<orig, staged, canary, pending>>, excused \subseteq excused'
  PROVE  Same
BY DEF Same, Recovered, WillOpen

\* The original becomes what the copy already opened to.
LEMMA InstallSame ==
  ASSUME IInv, Install
  PROVE  Same
<1>1. PICK p \in Copies :
        /\ staged[p].key \in Keys
        /\ \/ orig' = [orig EXCEPT ![p] = staged[p]] /\ UNCHANGED excused
           \/ /\ orig' = [orig EXCEPT ![p] = [staged[p] EXCEPT !.ver = Cut]]
              /\ Excuse({p})
  BY DEF Install, IInv, TypeOK
<1>2. /\ UNCHANGED <<staged, canary, pending>> /\ excused \subseteq excused'
      /\ \A q \in Copies \ excused' : orig'[q] = IF q = p THEN staged[p] ELSE orig[q]
  BY <1>1 DEF Install, Excuse, IInv, TypeOK
<1> QED
  BY <1>1, <1>2, RekeyAssumption DEF Same, Recovered, WillOpen, Opens, IInv, TypeOK,
     StagedOwn, NothingStranded, Plain, Torn

\* The staged copy is still what opens.
LEMMA InstallFailsSame ==
  ASSUME IInv, InstallFails
  PROVE  Same
BY RekeyAssumption DEF Same, Recovered, WillOpen, IInv, TypeOK, Control,
   StagedOwn, Settling, InstallFails, AfterFailedWrite

\* Its original opens to the same text.
LEMMA UnstageSame ==
  ASSUME IInv, Unstage
  PROVE  Same
BY RekeyAssumption DEF Same, Recovered, WillOpen, IInv, TypeOK, StagedOwn,
   Swept, Unstage, RemoveStaged, Excuse, Absent

\* It was not what opened.
LEMMA DiscardSame ==
  ASSUME IInv, Discard
  PROVE  Same
BY DEF Same, Recovered, WillOpen, IInv, Control, Settling, Sweeping, Discard

\* Nothing staged is left for the marker to speak of.
LEMMA ClearSame ==
  ASSUME IInv, Clear
  PROVE  Same
BY RekeyAssumption DEF Same, Recovered, WillOpen, IInv, TypeOK, Swept, Over,
   Clearing, Clear

\* Nothing is staged yet.
LEMMA MarkSame ==
  ASSUME IInv, Mark
  PROVE  Same
BY RekeyAssumption DEF Same, Recovered, WillOpen, IInv, TypeOK, Control,
   StagedOwn, Mark

\* The marker is not the canary's: the original opens.
LEMMA StageSame ==
  ASSUME IInv, Stage
  PROVE  Same
<1>1. /\ UNCHANGED <<orig, canary, pending>> /\ excused \subseteq excused'
      /\ canary # pending
  BY DEF Stage, Excuse, IInv, Control, Changing
<1> QED
  BY <1>1 DEF Same, Recovered, WillOpen

\* A torn staged copy opens nothing.
LEMMA StageFailsSame ==
  ASSUME IInv, StageFails
  PROVE  Same
BY DEF Same, Recovered, WillOpen, IInv, Control, Changing, StageFails

\* Decrypting keeps the text; a failed write loses it.
LEMMA UnwrapSame ==
  ASSUME IInv, Unwrap
  PROVE  Same
BY RekeyAssumption DEF Same, Recovered, WillOpen, IInv, TypeOK, Files, NoKey,
   Plain, None, Unwrap, AfterFailedWrite, Excuse

\* So does encrypting.
LEMMA WrapSame ==
  ASSUME IInv, Wrap
  PROVE  Same
BY RekeyAssumption DEF Same, Recovered, WillOpen, IInv, TypeOK, Files, NoKey,
   Plain, None, Wrap, AfterFailedWrite, Excuse

\* The canary write alone moves the notes to another passphrase, and leaves
\* every one of them as it was.
LEMMA NewPassphraseStep ==
  ASSUME IInv, Commit \/ Wipe \/ SetPassphrase
  PROVE  [Vault!Next]_<<canary, [p \in Copies |-> Recovered(p)]>>
<1>1. canary' \in Keys \cup {NoKey} /\ excused' = excused
  BY DEF Commit, Wipe, SetPassphrase, IInv, TypeOK
<1>2. ASSUME NEW p \in Copies \ excused
      PROVE  Recovered(p)' = Recovered(p)
  <2> USE <1>1, <1>2 DEF Recovered, WillOpen, IInv
  <2>1. CASE Wipe \/ SetPassphrase
    <3>1. pending = NoKey /\ UNCHANGED <<orig, staged, pending>>
      BY <2>1 DEF Control, Wiping, Wipe, SetPassphrase
    <3> QED
      BY <3>1
  <2>2. CASE Commit
    <3>1. pending = newKey /\ newKey # canary /\ UNCHANGED <<orig, staged, pending>>
      BY <2>2 DEF Control, Commit, Changing
    <3>2. orig[p].key # Torn
      BY <3>1, RekeyAssumption DEF NothingStranded, Opens, TypeOK, Plain, Torn, None
    <3>4. staged[p].key = newKey => staged[p].ver = orig[p].ver /\ orig[p].key # None
      BY <2>2, <3>2, RekeyAssumption DEF StagedOwn, Control, Commit, Changing
    <3> QED
      BY <3>1, <3>4
  <2> QED
    BY <2>1, <2>2
<1>3. \A p \in Copies : Recovered(p)' = Recovered(p)
  BY <1>1, <1>2 DEF Recovered
<1> QED
  BY <1>1, <1>3 DEF Vault!Next, Vault!NewPassphrase

\* A save is the copies it writes, with the next version; what it writes while
\* a change runs, or under another passphrase, is lost to the promise.
LEMMA WriteNoteStep ==
  ASSUME IInv, WriteNote
  PROVE  [Vault!Next]_<<canary, [p \in Copies |-> Recovered(p)]>>
<1> DEFINE vault == [p \in Copies |-> Recovered(p)]
           at == <<note, saving>>
<1>1. /\ at \in Copies /\ Due(at) /\ writes \in 0 .. MaxWrites /\ ink \in Keys \cup {Plain}
      /\ UNCHANGED <<staged, canary, pending, writes>>
      /\ excused \subseteq excused' /\ excused' \subseteq Copies
  BY DEF WriteNote, IInv, TypeOK, Excuse, Copies, Vols, Due
<1>2. \/ /\ orig' = [orig EXCEPT ![at] = [key |-> ink, ver |-> writes]]
         /\ at \in excused' \/ staged[at].key = None
      \/ orig' = [orig EXCEPT ![at] = Broken] /\ at \in excused'
      \/ orig' = orig
  BY <1>1 DEF WriteNote, IInv, TypeOK, Fails, AfterFailedWrite, Excuse
<1> DEFINE W == IF orig' = orig THEN {} ELSE {at} \ excused'
           L == excused'
<1>3. \A p \in W : staged[p].key = None /\ orig'[p].key # None /\ orig'[p].ver = writes
  BY <1>1, <1>2, RekeyAssumption DEF IInv, TypeOK, Plain, None
<1>4. \A p \in Copies \ (W \cup L) : orig'[p] = orig[p]
  BY <1>2 DEF IInv, TypeOK
<1>5. \A p \in Copies : vault[p] = -2 => p \in L
  BY <1>1 DEF IInv, TypeOK, Files, Recovered
<1>6. \A p \in W : vault[p] \in 0 .. MaxWrites => vault[p] < writes
  BY <1>1 DEF IInv, Versions, Recovered
<1>7. vault' = [p \in Copies |-> IF p \in L \/ vault[p] = -2 THEN -2
                                 ELSE IF p \in W THEN writes ELSE vault[p]]
  <2>1. ASSUME NEW p \in Copies
        PROVE  Recovered(p)' = IF p \in L \/ vault[p] = -2 THEN -2
                               ELSE IF p \in W THEN writes ELSE vault[p]
    <3>1. CASE p \in L
      BY <3>1 DEF Recovered
    <3>2. CASE p \in W
      BY <3>2, <1>1, <1>3, <1>5, RekeyAssumption DEF Recovered, WillOpen, IInv,
         TypeOK
    <3>3. CASE p \notin W \cup L
      BY <3>3, <1>1, <1>4 DEF Recovered, WillOpen
    <3> QED
      BY <3>1, <3>2, <3>3
  <2> QED
    BY <2>1
<1> HIDE DEF vault, W, L
<1>8. W \in SUBSET Copies /\ L \in SUBSET Copies
  BY <1>1 DEF W, L
<1>9. Vault!Save
  BY <1>1, <1>6, <1>7, <1>8 DEF Vault!Save, vault
<1> QED
  BY <1>9 DEF Vault!Next

\* Every step is a step of the vault or a stutter.
LEMMA OneStep ==
  ASSUME IInv, [Next]_vars
  PROVE  [Vault!Next]_<<canary, [p \in Copies |-> Recovered(p)]>>
<1>1. CASE Commit \/ Wipe \/ SetPassphrase
  BY <1>1, NewPassphraseStep
<1>2. CASE WriteNote
  BY <1>2, WriteNoteStep
<1>3. CASE \/ Install \/ InstallFails \/ Unstage \/ Discard \/ Clear
           \/ Mark \/ Stage \/ StageFails \/ Unwrap \/ Wrap
  BY <1>3, InstallSame, InstallFailsSame, UnstageSame, DiscardSame, ClearSame,
     MarkSame, StageSame, StageFailsSame, UnwrapSame, WrapSame, SameIsAStep
<1>4. CASE \/ Walk \/ Publish \/ List \/ PassOver \/ SettleSecrets
           \/ Settled \/ ClearSd \/ StageSkips \/ StageSecret \/ Switch
           \/ UnwrapSkips \/ Erase \/ ListPlain \/ Wrapped
  <2>1. UNCHANGED <<orig, staged, canary, pending>> /\ excused \subseteq excused'
    BY <1>4 DEF Walk, Publish, List, PassOver, SettleSecrets, Settled, ClearSd,
       StageSkips, StageSecret, Switch, UnwrapSkips, Erase, ListPlain,
       Wrapped, Excuse
  <2> QED
    BY <2>1, UntouchedIsSame, SameIsAStep
<1>5. CASE \/ Unlock \/ Disable \/ Change \/ EncryptSd \/ Lock
           \/ SaveNote \/ SaveSecret \/ WriteSecret \/ ClearSecret
           \/ MoveCard \/ Remount \/ Reset \/ UNCHANGED vars
  <2>1. UNCHANGED <<orig, staged, canary, pending>> /\ excused \subseteq excused'
    BY <1>5 DEF Unlock, Disable, Change, Begin, EncryptSd, Lock, SaveNote,
       SaveSecret, WriteSecret, ClearSecret, MoveCard, Remount, Reset, vars
  <2> QED
    BY <2>1, UntouchedIsSame, SameIsAStep
<1> QED
  BY <1>1, <1>2, <1>3, <1>4, <1>5 DEF Next, Worker, Environment

\* A change of passphrase happens at one instant, the write of the canary:
\* before it every note within reach opens with the old passphrase, after it
\* with the new one, and no other step gives a note an older text
\* (notes_crypto.cpp:1241-1280).
THEOREM ImplementsNotesVault == Spec => OneStepChange
<1>1. Init => Vault!Init
  <2> SUFFICES ASSUME Init PROVE Vault!Init
    OBVIOUS
  <2>1. IInv
    BY InitInv
  <2>2. \A p \in Copies : Recovered(p) \in {-1} \cup 0 .. MaxWrites
    BY <2>1 DEF Init, Recovered, IInv, TypeOK, Files
  <2> QED
    BY <2>1, <2>2 DEF Vault!Init, IInv, TypeOK
<1>2. IInv /\ [Next]_vars => [Vault!Next]_<<canary, [p \in Copies |-> Recovered(p)]>>
  BY OneStep
<1> QED
  BY <1>1, <1>2, IInvHolds, PTL DEF Spec, OneStepChange, Vault!Spec
=============================================================================
