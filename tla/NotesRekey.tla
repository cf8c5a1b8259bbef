----------------------------- MODULE NotesRekey -----------------------------
(***************************************************************************)
(* Encryption of the notes (src/hal/notes_crypto.cpp): setting a           *)
(* passphrase, changing it, disabling encryption, and the unlock that      *)
(* finishes or undoes a change that was cut short.  A note has up to two   *)
(* copies, one on the internal flash and one on the SD card; beside each   *)
(* copy a change may leave a staged copy.  The passphrase that opens the   *)
(* notes is the one the canary in NVS verifies.                            *)
(*                                                                         *)
(* One action is one write to a volume or to NVS, so that a reset may fall *)
(* between any two of them; a write that fails, or that the reset cuts     *)
(* short, leaves the file torn.  Reads of the canary and of the two        *)
(* markers in NVS are taken to succeed.                                    *)
(***************************************************************************)
EXTENDS Integers

CONSTANTS
    Names,          \* protected notes (and the journal index)
    Keys,           \* passphrases
    MaxFaults,      \* reads, writes and deletes that fail
    MaxResets,      \* resets and power cuts
    MaxMoves,       \* times the card is taken out or put back
    MaxWrites       \* notes and tokens saved by other tasks

NoKey == "nokey"        \* no canary, no marker, a locked session
Plain == "plain"        \* a copy that is not encrypted
Torn  == "torn"         \* a copy whose write did not complete
None  == "none"         \* no such file

ASSUME RekeyAssumption ==
    /\ Keys \cap {NoKey, Plain, Torn, None} = {}
    /\ {MaxFaults, MaxResets, MaxMoves, MaxWrites} \subseteq Nat

Vols   == {"ffat", "sd"}
Copies == Names \X Vols
OnSd   == Names \X {"sd"}

\* A file: the passphrase it is encrypted under and the version of the note.
Cut    == -1        \* the text of a note whose read came back short
Files  == [key : Keys \cup {Plain, Torn, None}, ver : {Cut} \cup 0 .. MaxWrites]
Absent == [key |-> None, ver |-> 0]
Broken == [key |-> Torn, ver |-> 0]

VARIABLES
    \* on the volumes and in NVS
    orig, staged,       \* [Copies -> Files]
    canary,             \* the passphrase the canary verifies
    pending, pendSd,    \* NVS "pending" and "pend_sd"
    secret, stgSecret,  \* a secret slot and its staged re-encryption
    \* the card
    card,               \* TRUE while it is in the slot
    online,             \* HW_SD_ONLINE: what the last mount found
    \* in RAM
    session,            \* g_passphrase, NoKey while locked
    overtaken,          \* g_key_epoch has moved since the unlock read it
    pc, goal, ret,      \* the call running on the worker, and its parts
    key, newKey,        \* its passphrases
    known, todo, cur,   \* copies listed, still to do, being installed
    fwd, complete,      \* settle_staged: roll_forward and its result
    failed,             \* notes_crypto_disable: write_failed
    saving, note, ink,  \* a save of another task: what it writes next, of
                        \* which note, encoded under which passphrase
    \* bounds and observation
    faults, resets, moves, writes,
    excused,            \* copies outside the protocol's reach, see Excuse
    strayed             \* the secret is, see Stray

disk  == <<orig, staged, canary, pending, pendSd, secret, stgSecret>>
slot  == <<card, online>>
sess  == <<session, overtaken>>
ram   == <<sess, pc, goal, ret, key, newKey, known, todo, cur, fwd,
           complete, failed>>
save  == <<saving, note, ink>>
apart == <<save, strayed>>
count == <<faults, resets, moves, writes>>
vars  == <<disk, slot, ram, count, excused, apart>>

TypeOK ==
    /\ orig \in [Copies -> Files] /\ staged \in [Copies -> Files]
    /\ {canary, pending, session, secret, stgSecret, key, newKey}
           \subseteq Keys \cup {NoKey}
    /\ {pendSd, card, online, overtaken, fwd, complete, failed, strayed}
           \subseteq BOOLEAN
    /\ saving \in {"none", "ffat", "sd", "secret"}
    /\ note \in Names /\ ink \in Keys \cup {Plain}
    /\ saving = "secret" => ink # Plain
    /\ pc \in {"idle", "walk", "settle", "unstage", "unsecret",
               "settled", "clearSd", "clear", "publish", "list", "mark",
               "marker", "stage", "commit", "switch", "plain",
               "wipe", "lock", "wrap"}
    /\ goal \in {"unlock", "change", "disable", "encrypt", "encryptSd"}
    /\ ret \in {"idle", "publish", "mark", "wipe"}
    /\ known \subseteq Copies /\ todo \subseteq Copies /\ cur \in Copies
    /\ excused \subseteq Copies
    /\ faults \in 0 .. MaxFaults /\ resets \in 0 .. MaxResets
    /\ moves \in 0 .. MaxMoves /\ writes \in 0 .. MaxWrites

-----------------------------------------------------------------------------
(* The volumes, seen through raw_read, raw_write, raw_exists, raw_remove.  *)

Reaches(p) == p \in OnSd => card /\ online

\* raw_exists: a card that does not answer has no files.
Exists(files, p) == Reaches(p) /\ files[p].key # None

\* Whether an access to p works; one that is refused although the volume
\* answers counts against MaxFaults.
Works(p) == Reaches(p) /\ UNCHANGED faults
Fails(p) == \/ ~Reaches(p) /\ UNCHANGED faults
            \/ Reaches(p) /\ faults < MaxFaults /\ faults' = faults + 1

\* What a write that failed leaves of the file.
AfterFailedWrite(files, p) ==
    IF Reaches(p) THEN [files EXCEPT ![p] = Broken] ELSE files

NvsFails == faults < MaxFaults /\ faults' = faults + 1

\* fs_read_all ignores how much it read: the tail of the text is then zeros.
ReadsShort(p) == Reaches(p) /\ faults < MaxFaults /\ faults' = faults + 1

\* enumerate_names mounts the card unless it is believed to be mounted.
Mounted == online \/ card
Listed(isUp) == {p \in Copies : orig[p].key # None /\ (p \in OnSd => card /\ isUp)}

\* Copies no step can reach: what a listing or a read leaves out because the
\* card is out or refuses, what a read or a write leaves damaged, what another
\* task writes during a call or under a passphrase that has been changed since,
\* and what is encrypted although the canary of a first passphrase was lost.
Excuse(S) == excused' = excused \cup S

\* The secret after a step that the protocol does not account for.
Stray(when) == strayed' = (strayed \/ when)

-----------------------------------------------------------------------------
(* Control of the worker. *)

Goto(label) == pc' = label /\ UNCHANGED <<goal, ret>>

\* Mutation of Settle: nobody looks whether the card is there.
SettleAnyway(forward, copies, label, isUp) ==
    /\ pc' = "settle" /\ ret' = label /\ fwd' = forward /\ todo' = copies
    /\ complete' = TRUE
    /\ UNCHANGED goal

\* Enter settle_staged(forward, copies), to go on at label afterwards.
Settle(forward, copies, label, isUp) ==
    /\ pc' = "settle" /\ ret' = label /\ fwd' = forward /\ todo' = copies
    /\ complete' = ~(pendSd /\ ~isUp)
    /\ UNCHANGED goal

\* notes_crypto_unlock, called by the lock screen or as the first step of a
\* change or of disabling: a wrong passphrase ends here.
Begin(what, k, nk) ==
    /\ pc = "idle" /\ canary = k
    /\ pc' = IF pending = NoKey THEN "publish" ELSE "walk"
    /\ goal' = what /\ key' = k /\ newKey' = nk /\ overtaken' = FALSE
    /\ known' = {}
    /\ UNCHANGED <<disk, slot, session, ret, todo, cur, fwd, complete, failed,
                   count, excused, apart>>

Unlock  == \E k \in Keys : Begin("unlock", k, NoKey)
Disable == \E k \in Keys : Begin("disable", k, NoKey)
Change  == \E k, nk \in Keys : k # nk /\ Begin("change", k, nk)

\* Mutation of Walk: forward whatever the marker says.
WalkInstalls ==
    /\ pc = "walk"
    /\ online' = Mounted
    /\ known' = Listed(Mounted)
    /\ Settle(TRUE, Listed(Mounted), "publish", Mounted)
    /\ Excuse(IF Mounted /\ ~card THEN {p \in OnSd : staged[p].key # None} ELSE {})
    /\ UNCHANGED <<disk, card, sess, key, newKey, apart, cur, failed, count>>

\* recover_pending_change: the marker tells which way to go.
Walk ==
    /\ pc = "walk"
    /\ online' = Mounted
    /\ known' = Listed(Mounted)
    /\ Settle(pending = key, Listed(Mounted), "publish", Mounted)
    /\ Excuse(IF Mounted /\ ~card THEN {p \in OnSd : staged[p].key # None} ELSE {})
    /\ UNCHANGED <<disk, card, sess, key, newKey, apart, cur, failed, count>>

\* A lock that landed meanwhile wins over the unlock; a new passphrase is
\* published whatever happened.
Publish ==
    /\ pc = "publish"
    /\ IF overtaken /\ goal # "encrypt"
       THEN Goto("idle") /\ UNCHANGED session
       ELSE /\ session' = key
            /\ Goto(IF goal = "unlock" \/ pending # NoKey THEN "idle" ELSE "list")
    /\ UNCHANGED <<disk, slot, overtaken, key, newKey, apart, known, todo, cur, fwd, complete,
                   failed, count, excused>>

\* Both bulk operations start from a listing; a change first drops what an
\* earlier rollback left.
List ==
    /\ pc = "list"
    /\ online' = Mounted
    /\ known' = Listed(Mounted)
    /\ Excuse(OnSd \ Listed(Mounted))
    /\ \/ /\ goal = "change"
          /\ Settle(FALSE, Listed(Mounted), "mark", Mounted)
          /\ UNCHANGED failed
       \/ /\ goal = "disable"
          /\ todo' = Listed(Mounted) /\ failed' = FALSE
          /\ Goto("plain")
          /\ UNCHANGED <<fwd, complete>>
    /\ UNCHANGED <<disk, card, sess, key, newKey, apart, cur, count>>

-----------------------------------------------------------------------------
(* settle_staged *)

\* A staged copy that is not there, or cannot be seen, is passed over.
PassOver ==
    /\ pc = "settle"
    /\ \E p \in todo :
        /\ ~Exists(staged, p)
        /\ todo' = todo \ {p}
        /\ Excuse(IF Reaches(p) THEN {} ELSE {p})
    /\ UNCHANGED <<disk, slot, sess, pc, goal, ret, key, newKey, apart, known, cur,
                   fwd, complete, failed, count>>

\* Roll forward: the original is rewritten in place with the staged bytes, as
\* many of them as were read.
Install ==
    /\ pc = "settle" /\ fwd
    /\ \E p \in todo :
        /\ Exists(staged, p) /\ staged[p].key \in Keys
        /\ \/ /\ Works(p)
              /\ orig' = [orig EXCEPT ![p] = staged[p]]
              /\ UNCHANGED excused
           \/ /\ ReadsShort(p)
              /\ orig' = [orig EXCEPT ![p] = [staged[p] EXCEPT !.ver = Cut]]
              /\ Excuse({p})
        /\ cur' = p /\ todo' = todo \ {p}
    /\ Goto("unstage")
    /\ UNCHANGED <<staged, canary, pending, pendSd, secret, stgSecret, slot,
                   sess, key, newKey, apart, known, fwd, complete, failed, resets,
                   moves, writes>>

\* The staged copy cannot be read, has no magic, or the rewrite fails.
InstallFails ==
    /\ pc = "settle" /\ fwd
    /\ \E p \in todo :
        /\ Exists(staged, p)
        /\ \/ staged[p].key \in Keys /\ Fails(p)
              /\ orig' \in {orig, AfterFailedWrite(orig, p)}
           \/ staged[p].key \notin Keys
              /\ (Fails(p) \/ UNCHANGED faults) /\ UNCHANGED orig
        /\ todo' = todo \ {p}
    /\ complete' = FALSE
    /\ UNCHANGED <<staged, canary, pending, pendSd, secret, stgSecret, slot,
                   sess, pc, goal, ret, key, newKey, apart, known, cur, fwd, failed,
                   resets, moves, writes, excused>>

RemoveStaged(p) ==
    \/ /\ Works(p)
       /\ staged' = [staged EXCEPT ![p] = Absent]
       /\ UNCHANGED complete
    \/ /\ ~Exists(staged, p)              \* raw_remove: nothing to remove
       /\ UNCHANGED <<staged, complete, faults>>
    \/ /\ Reaches(p) /\ Fails(p)
       /\ complete' = FALSE
       /\ UNCHANGED staged

Unstage ==
    /\ pc = "unstage"
    /\ RemoveStaged(cur)
    /\ Goto("settle")
    /\ Excuse(IF Reaches(cur) THEN {} ELSE {cur})
    /\ UNCHANGED <<orig, canary, pending, pendSd, secret, stgSecret, slot,
                   sess, key, newKey, apart, known, todo, cur, fwd, failed, resets,
                   moves, writes>>

\* Roll back: the staged copy goes.
Discard ==
    /\ pc = "settle" /\ ~fwd
    /\ \E p \in todo :
        /\ Exists(staged, p)
        /\ RemoveStaged(p)
        /\ todo' = todo \ {p}
    /\ UNCHANGED <<orig, canary, pending, pendSd, secret, stgSecret, slot,
                   sess, pc, goal, ret, key, newKey, apart, known, cur, fwd, failed,
                   resets, moves, writes, excused>>

\* A staged secret that cannot be read is passed over; one that cannot be
\* deleted stays.
SettleSecret ==
    \/ /\ pc = "settle" /\ todo = {}
       /\ \/ stgSecret = NoKey /\ Goto("settled") /\ UNCHANGED <<secret, complete, faults>>
          \/ /\ stgSecret # NoKey /\ fwd
             /\ \/ secret' = stgSecret /\ Goto("unsecret") /\ UNCHANGED <<complete, faults>>
                \/ NvsFails /\ complete' = FALSE /\ Goto("settled") /\ UNCHANGED secret
          \/ /\ stgSecret # NoKey /\ ~fwd
             /\ Goto("unsecret") /\ UNCHANGED <<secret, complete, faults>>
       /\ UNCHANGED <<stgSecret, strayed>>
    \/ /\ pc = "settle" /\ todo = {} /\ stgSecret # NoKey
       /\ NvsFails /\ Stray(TRUE)
       /\ Goto("settled")
       /\ UNCHANGED <<secret, stgSecret, complete>>
    \/ /\ pc = "unsecret"
       /\ \/ stgSecret' = NoKey /\ UNCHANGED <<faults, strayed>>
          \/ NvsFails /\ Stray(TRUE) /\ UNCHANGED stgSecret
       /\ Goto("settled")
       /\ UNCHANGED <<secret, complete>>

SettleSecrets ==
    /\ SettleSecret
    /\ UNCHANGED <<orig, staged, canary, pending, pendSd, slot, sess, key,
                   newKey, save, known, todo, cur, fwd, failed, resets, moves, writes,
                   excused>>

\* Mutation of Settled: the marker goes though a staged copy is left.
SettledForgetsCard ==
    /\ pc = "settled"
    /\ Goto(IF ret # "mark" THEN "clearSd" ELSE ret)
    /\ UNCHANGED <<disk, slot, sess, key, newKey, apart, known, todo, cur, fwd,
                   complete, failed, count, excused>>

\* clear_pending follows a settle that left nothing behind, except after the
\* sweep a change starts with, whose result is ignored.
Settled ==
    /\ pc = "settled"
    /\ Goto(IF ret # "mark" /\ complete THEN "clearSd" ELSE ret)
    /\ UNCHANGED <<disk, slot, sess, key, newKey, apart, known, todo, cur, fwd,
                   complete, failed, count, excused>>

\* clear_pending ignores a delete that fails.
ClearSd ==
    /\ pc = "clearSd"
    /\ \/ pendSd' = FALSE /\ UNCHANGED faults
       \/ NvsFails /\ UNCHANGED pendSd
    /\ Goto("clear")
    /\ UNCHANGED <<orig, staged, canary, pending, secret, stgSecret, slot,
                   sess, key, newKey, apart, known, todo, cur, fwd, complete, failed,
                   resets, moves, writes, excused>>

Clear ==
    /\ pc = "clear"
    /\ \/ pending' = NoKey /\ UNCHANGED faults
       \/ NvsFails /\ UNCHANGED pending
    /\ Goto(ret)
    /\ UNCHANGED <<orig, staged, canary, pendSd, secret, stgSecret, slot,
                   sess, key, newKey, apart, known, todo, cur, fwd, complete, failed,
                   resets, moves, writes, excused>>

-----------------------------------------------------------------------------
(* notes_crypto_change_passphrase *)

\* Step 0: "pend_sd", then "pending"; a refused write clears both.
Mark ==
    /\ \/ /\ pc = "mark"
          /\ \/ pendSd' = (known \cap OnSd # {}) /\ Goto("marker") /\ UNCHANGED faults
             \/ NvsFails /\ pc' = "clearSd" /\ ret' = "idle" /\ UNCHANGED <<pendSd, goal>>
          /\ UNCHANGED <<pending, todo>>
       \/ /\ pc = "marker"
          /\ \/ pending' = newKey /\ todo' = known /\ Goto("stage") /\ UNCHANGED faults
             \/ NvsFails /\ pc' = "clearSd" /\ ret' = "idle" /\ UNCHANGED <<pending, todo, goal>>
          /\ UNCHANGED pendSd
    /\ UNCHANGED <<orig, staged, canary, secret, stgSecret, slot, sess, key,
                   newKey, apart, known, cur, fwd, complete, failed, resets, moves,
                   writes, excused>>

\* Step 1: a copy that can be read and opens under the old passphrase, or is
\* not encrypted, is staged under the new one; so is what a short read makes
\* of its text.
Stage ==
    /\ pc = "stage"
    /\ \E p \in todo :
        /\ orig[p].key \in {key, Plain}
        /\ \/ /\ Works(p)
              /\ staged' = [staged EXCEPT ![p] = [orig[p] EXCEPT !.key = newKey]]
              /\ UNCHANGED excused
           \/ /\ ReadsShort(p)
              /\ staged' = [staged EXCEPT ![p] = [key |-> newKey, ver |-> Cut]]
              /\ Excuse({p})
        /\ todo' = todo \ {p}
    /\ UNCHANGED <<orig, canary, pending, pendSd, secret, stgSecret, slot,
                   sess, pc, goal, ret, key, newKey, apart, known, cur, fwd,
                   complete, failed, resets, moves, writes>>

\* A copy that cannot be read, or whose short read does not decrypt, is left
\* out, and so is one under another passphrase; the change goes on.
StageSkips ==
    /\ pc = "stage"
    /\ \E p \in todo :
        /\ \/ orig[p].key \notin {key, Plain} /\ UNCHANGED <<faults, excused>>
           \/ Fails(p) /\ Excuse({p})
        /\ todo' = todo \ {p}
    /\ UNCHANGED <<disk, slot, sess, pc, goal, ret, key, newKey, apart, known, cur,
                   fwd, complete, failed, resets, moves, writes>>

\* A copy that cannot be staged ends the change: what was staged is discarded.
StageFails ==
    /\ pc = "stage"
    /\ \E p \in todo :
        /\ orig[p].key \in {key, Plain}
        /\ Fails(p)
        /\ staged' \in {staged, AfterFailedWrite(staged, p)}
    /\ Settle(FALSE, known, "idle", online)
    /\ UNCHANGED <<orig, canary, pending, pendSd, secret, stgSecret, slot,
                   sess, key, newKey, apart, known, cur, failed, resets, moves,
                   writes, excused>>

\* A secret that cannot be read is left out.
StageSecret ==
    /\ pc = "stage" /\ todo = {}
    /\ \/ /\ stgSecret' = IF secret = key THEN newKey ELSE stgSecret
          /\ Goto("commit")
          /\ UNCHANGED <<faults, fwd, todo, complete, strayed>>
       \/ /\ NvsFails /\ Stray(secret # NoKey) /\ UNCHANGED stgSecret
          /\ Goto("commit")
          /\ UNCHANGED <<fwd, todo, complete>>
       \/ /\ NvsFails /\ UNCHANGED <<stgSecret, strayed>>
          /\ Settle(FALSE, known, "idle", online)
    /\ UNCHANGED <<orig, staged, canary, pending, pendSd, secret, slot, sess,
                   key, newKey, save, known, cur, failed, resets, moves, writes, excused>>

\* Step 2: one NVS write replaces the canary.  A refused write is read back.
Commit ==
    /\ pc = "commit"
    /\ \/ canary' = newKey /\ Goto("switch") /\ UNCHANGED <<faults, fwd, todo, complete>>
       \/ /\ NvsFails
          /\ \/ canary' = newKey /\ Goto("switch") /\ UNCHANGED <<fwd, todo, complete>>
             \/ UNCHANGED canary /\ Settle(FALSE, known, "idle", online)
    /\ UNCHANGED <<orig, staged, pending, pendSd, secret, stgSecret, slot,
                   sess, key, newKey, apart, known, cur, failed, resets, moves,
                   writes, excused>>

\* Step 3.
Switch ==
    /\ pc = "switch"
    /\ session' = newKey
    /\ Settle(TRUE, known, "idle", online)
    /\ UNCHANGED <<disk, slot, overtaken, key, newKey, apart, known, cur, failed, count,
                   excused>>

-----------------------------------------------------------------------------
(* notes_crypto_disable *)

\* The copies under the passphrase are rewritten in place, decrypted; by bad
\* luck what a short read returns decrypts too.
Unwrap ==
    /\ pc = "plain"
    /\ \E p \in todo :
        /\ orig[p].key = key
        /\ \/ /\ Works(p)
              /\ orig' = [orig EXCEPT ![p].key = Plain]
              /\ UNCHANGED <<failed, excused>>
           \/ /\ ReadsShort(p)
              /\ orig' = [orig EXCEPT ![p] = [key |-> Plain, ver |-> Cut]]
              /\ Excuse({p})
              /\ UNCHANGED failed
           \/ /\ Fails(p)
              /\ orig' \in {orig, AfterFailedWrite(orig, p)}
              /\ failed' = TRUE
              /\ Excuse(IF orig' = orig THEN {} ELSE {p})
        /\ todo' = todo \ {p}
    /\ UNCHANGED <<staged, canary, pending, pendSd, secret, stgSecret, slot,
                   sess, pc, goal, ret, key, newKey, apart, known, cur, fwd,
                   complete, resets, moves, writes>>

\* A copy that is plain already, or under another passphrase, is left; so is
\* one whose probe or read fails, or comes back short: none of these counts as
\* a failed rewrite.
UnwrapSkips ==
    /\ pc = "plain"
    /\ \E p \in todo :
        /\ \/ orig[p].key # key /\ UNCHANGED <<faults, excused>>
           \/ Fails(p) /\ Excuse({p})
        /\ todo' = todo \ {p}
    /\ UNCHANGED <<disk, slot, sess, pc, goal, ret, key, newKey, apart, known, cur,
                   fwd, complete, failed, resets, moves, writes>>

\* Mutation of Erase: the secrets stay.
EraseKeepsSecret ==
    /\ pc = "plain" /\ todo = {}
    /\ IF failed THEN Goto("idle") ELSE pc' = "clearSd" /\ ret' = "wipe" /\ UNCHANGED goal
    /\ UNCHANGED <<disk, slot, sess, key, newKey, apart, known, todo, cur, fwd,
                   complete, failed, count, excused>>

\* A failed rewrite keeps encryption on.  A secret that cannot be erased stays.
Erase ==
    /\ pc = "plain" /\ todo = {}
    /\ \/ failed /\ Goto("idle") /\ UNCHANGED <<secret, faults, strayed>>
       \/ /\ ~failed
          /\ pc' = "clearSd" /\ ret' = "wipe" /\ UNCHANGED goal
          /\ \/ secret' = NoKey /\ UNCHANGED <<faults, strayed>>
             \/ NvsFails /\ Stray(secret # NoKey) /\ UNCHANGED secret
    /\ UNCHANGED <<orig, staged, canary, pending, pendSd, stgSecret, slot,
                   sess, key, newKey, save, known, todo, cur, fwd, complete, failed,
                   resets, moves, writes, excused>>

\* erase_canary: a canary that cannot be erased stays, and opens nothing but
\* the session.
Wipe ==
    /\ pc = "wipe"
    /\ \/ canary' = NoKey /\ UNCHANGED faults
       \/ NvsFails /\ UNCHANGED canary
    /\ Goto("lock")
    /\ UNCHANGED <<orig, staged, pending, pendSd, secret, stgSecret, slot,
                   sess, key, newKey, apart, known, todo, cur, fwd, complete, failed,
                   resets, moves, writes, excused>>

-----------------------------------------------------------------------------
(* notes_crypto_set_passphrase, then notes_crypto_encrypt_existing; and    *)
(* notes_crypto_encrypt_sd for a card that was out.                        *)

\* write_canary ignores the result of its write: the call goes on to open the
\* session and encrypt the notes whether there is a canary or not.
SetPassphrase ==
    /\ pc = "idle" /\ canary = NoKey
    /\ \E k \in Keys :
        /\ key' = k
        /\ \/ canary' = k /\ UNCHANGED faults
           \/ NvsFails /\ UNCHANGED canary
    /\ goal' = "encrypt" /\ pc' = "publish"
    /\ UNCHANGED <<orig, staged, pending, pendSd, secret, stgSecret, slot,
                   sess, ret, newKey, apart, known, todo, cur, fwd, complete,
                   failed, resets, moves, writes, excused>>

EncryptSd ==
    /\ pc = "idle" /\ canary # NoKey /\ session # NoKey
    /\ Mounted
    /\ goal' = "encryptSd" /\ pc' = "list" /\ key' = session
    /\ online' = Mounted
    /\ UNCHANGED <<disk, card, sess, ret, newKey, apart, known, todo, cur, fwd,
                   complete, failed, count, excused>>

\* notes_crypto_encrypt_existing does nothing once the session is locked.
ListPlain ==
    /\ pc = "list" /\ goal \in {"encrypt", "encryptSd"}
    /\ IF goal = "encrypt" /\ session = NoKey
       THEN Goto("idle") /\ UNCHANGED <<online, todo>>
       ELSE /\ online' = Mounted
            /\ todo' = Listed(Mounted) \ (IF goal = "encryptSd" THEN Copies \ OnSd ELSE {})
            /\ Goto("wrap")
    /\ UNCHANGED <<disk, card, sess, key, newKey, apart, known, cur, fwd, complete,
                   failed, count, excused>>

\* Plain copies are rewritten in place, encrypted; a copy that fails stays as
\* the failed write left it.
Wrap ==
    /\ pc = "wrap"
    /\ \E p \in todo :
        /\ \/ /\ orig[p].key = Plain /\ Works(p)
              /\ orig' = [orig EXCEPT ![p].key = key]
              /\ Excuse(IF canary = key THEN {} ELSE {p})
           \/ /\ orig[p].key = Plain /\ ReadsShort(p)
              /\ orig' = [orig EXCEPT ![p] = [key |-> key, ver |-> Cut]]
              /\ Excuse({p})
           \/ /\ orig[p].key = Plain /\ Fails(p)
              /\ orig' \in {orig, AfterFailedWrite(orig, p)}
              /\ Excuse(IF orig' = orig THEN {} ELSE {p})
           \/ orig[p].key # Plain /\ UNCHANGED <<orig, faults, excused>>
        /\ todo' = todo \ {p}
    /\ UNCHANGED <<staged, canary, pending, pendSd, secret, stgSecret, slot,
                   sess, pc, goal, ret, key, newKey, apart, known, cur, fwd,
                   complete, failed, resets, moves, writes>>

Wrapped ==
    /\ pc = "wrap" /\ todo = {}
    /\ Goto("idle")
    /\ UNCHANGED <<disk, slot, sess, key, newKey, apart, known, todo, cur, fwd,
                   complete, failed, count, excused>>

-----------------------------------------------------------------------------
(* Other tasks, the card, and power. *)

\* notes_crypto_lock: the user, a sleep, or the end of notes_crypto_disable.
Lock ==
    /\ session' = NoKey /\ overtaken' = TRUE
    /\ IF pc = "lock"
       THEN Goto("idle")
       ELSE (session # NoKey \/ ~overtaken) /\ UNCHANGED <<pc, goal, ret>>
    /\ UNCHANGED <<disk, slot, key, newKey, apart, known, todo, cur, fwd, complete,
                   failed, count, excused>>

\* save_preferred_file_impl encodes the text under the session's passphrase,
\* or leaves it plain while there is no canary; it is refused while the notes
\* are locked.
SaveNote ==
    /\ saving = "none"
    /\ writes < MaxWrites /\ writes' = writes + 1
    /\ canary = NoKey \/ session # NoKey
    /\ ink' = IF canary = NoKey THEN Plain ELSE session
    /\ note' \in Names /\ saving' = "ffat"
    /\ UNCHANGED <<disk, slot, ram, strayed, faults, resets, moves, excused>>

\* It then writes the internal copy and the one on the card, at its own pace.
WriteNote ==
    /\ saving \in Vols
    /\ LET p == <<note, saving>> IN
        \/ /\ Works(p)
           /\ orig' = [orig EXCEPT ![p] = [key |-> ink, ver |-> writes]]
           /\ Excuse(IF \/ pc # "idle" \/ staged[p].key # None
                        \/ ink \notin {Plain, canary}
                     THEN {p} ELSE {})
        \/ /\ Fails(p)
           /\ orig' \in {orig, AfterFailedWrite(orig, p)}
           /\ Excuse(IF orig' = orig THEN {} ELSE {p})
    /\ saving' = IF saving = "ffat" THEN "sd" ELSE "none"
    /\ UNCHANGED <<staged, canary, pending, pendSd, secret, stgSecret, slot, ram,
                   note, ink, strayed, resets, moves, writes>>

\* secret_store, whatever else runs: a token is encrypted under the session's
\* passphrase,
SaveSecret ==
    /\ saving = "none"
    /\ writes < MaxWrites /\ writes' = writes + 1
    /\ canary # NoKey /\ session # NoKey
    /\ ink' = session /\ saving' = "secret"
    /\ UNCHANGED <<disk, slot, ram, note, strayed, faults, resets, moves, excused>>

\* A change that has staged the secrets, or a removal that has erased them, does
\* not come back for one stored afterwards.
TooLate == \/ pc = "commit" /\ stgSecret # newKey
           \/ pc = "wipe"
           \/ pc \in {"clearSd", "clear"} /\ ret = "wipe"

\* and then stored, replacing the one before; a failed write keeps that one.
WriteSecret ==
    /\ saving = "secret" /\ saving' = "none"
    /\ \/ /\ secret' = ink
          /\ strayed' = (ink # canary \/ TooLate \/ (strayed /\ stgSecret # NoKey))
          /\ UNCHANGED faults
       \/ NvsFails /\ UNCHANGED <<secret, strayed>>
    /\ UNCHANGED <<orig, staged, canary, pending, pendSd, stgSecret, slot, ram,
                   note, ink, resets, moves, writes, excused>>

\* secret_store of an empty value.
ClearSecret ==
    /\ secret # NoKey /\ secret' = NoKey
    /\ strayed' = (strayed /\ stgSecret # NoKey)
    /\ UNCHANGED <<orig, staged, canary, pending, pendSd, stgSecret, slot, ram,
                   save, count, excused>>

MoveCard ==
    /\ moves < MaxMoves /\ moves' = moves + 1
    /\ card' = ~card
    /\ UNCHANGED <<disk, online, ram, apart, faults, resets, writes, excused>>

\* hw_mount_sd after a sleep.
Remount ==
    /\ online # card /\ online' = card
    /\ UNCHANGED <<disk, card, ram, apart, count, excused>>

Reset ==
    /\ resets < MaxResets /\ resets' = resets + 1
    /\ online' = card
    /\ session' = NoKey /\ overtaken' = FALSE /\ pc' = "idle" /\ known' = {} /\ todo' = {}
    /\ saving' = "none"
    /\ UNCHANGED <<disk, card, goal, ret, key, newKey, note, ink, strayed, cur, fwd, complete,
                   failed, faults, moves, writes, excused>>

-----------------------------------------------------------------------------

Init ==
    /\ canary \in Keys \cup {NoKey}
    /\ orig \in [Copies -> {Absent, [key |-> Plain, ver |-> 0]} \cup
                               (IF canary = NoKey THEN {}
                                ELSE {[key |-> canary, ver |-> 0]})]
    /\ staged = [p \in Copies |-> Absent]
    /\ pending = NoKey /\ pendSd = FALSE
    /\ secret \in {NoKey, canary} /\ stgSecret = NoKey
    /\ card \in BOOLEAN /\ online = card
    /\ session = NoKey /\ overtaken = FALSE /\ key = NoKey /\ newKey = NoKey
    /\ pc = "idle" /\ goal = "unlock" /\ ret = "idle"
    /\ known = {} /\ todo = {} /\ cur \in Copies
    /\ fwd = FALSE /\ complete = FALSE /\ failed = FALSE
    /\ saving = "none" /\ note \in Names /\ ink = Plain
    /\ faults = 0 /\ resets = 0 /\ moves = 0 /\ writes = 0
    /\ excused = {} /\ strayed = FALSE

Worker ==
    \/ Walk \/ Publish \/ List
    \/ PassOver \/ Install \/ InstallFails \/ Unstage \/ Discard
    \/ SettleSecrets \/ Settled \/ ClearSd \/ Clear
    \/ Mark \/ Stage \/ StageSkips \/ StageFails \/ StageSecret \/ Commit \/ Switch
    \/ Unwrap \/ UnwrapSkips \/ Erase \/ Wipe
    \/ ListPlain \/ Wrap \/ Wrapped

Environment ==
    \/ Unlock \/ Disable \/ Change \/ SetPassphrase \/ EncryptSd
    \/ Lock \/ SaveNote \/ WriteNote \/ SaveSecret \/ WriteSecret \/ ClearSecret
    \/ MoveCard \/ Remount \/ Reset

Next == Worker \/ Environment

Spec == Init /\ [][Next]_vars

-----------------------------------------------------------------------------
(* Properties *)

\* The copy opens with the passphrase the canary verifies, or with none.
Opens(p) == orig[p].key \in {None, Plain} \/ (canary # NoKey /\ orig[p].key = canary)

\* The next unlock installs the staged copy, and that one opens.
WillOpen(p) == canary # NoKey /\ pending = canary /\ staged[p].key = canary

(* At every instant of a change, and after a reset at any of them, each    *)
(* copy within reach opens with the passphrase the canary verifies or will *)
(* after the next unlock: notes_crypto.cpp:1232, with `excused' the exact  *)
(* set of copies the promise does not cover.                               *)
NothingStranded == \A p \in Copies \ excused : Opens(p) \/ WillOpen(p)

SecretOpens ==
    secret # NoKey => secret = canary \/ (pending = canary /\ stgSecret = canary)

(* The secret follows the canary in the same way, whenever it is saved or      *)
(* cleared, except while `strayed': it was stored under a passphrase that has  *)
(* been changed since or after the call had passed the secrets over, or a      *)
(* step of the call could not read or delete it.                               *)
SecretFollows == strayed \/ SecretOpens

(* No staged copy outlives its change: left behind, a later change would   *)
(* install it over a newer note.                                           *)
NoLeftovers ==
    pc = "idle" /\ pending = NoKey =>
        /\ strayed \/ stgSecret = NoKey
        /\ \A p \in Copies \ excused : staged[p].key = None

\* What the worker is doing.
Settling == pc \in {"settle", "unstage", "unsecret", "settled"}
Clearing == pc \in {"clearSd", "clear"}
Changing == pc \in {"mark", "marker", "stage", "commit", "switch"}
Wiping   == pc = "wipe" \/ (Clearing /\ ret = "wipe")
Sweeping == Settling /\ ret = "mark"

\* The first passphrase is being set, and its canary was lost.
Unverified == canary = NoKey /\ goal = "encrypt"

\* The passphrases a call works with, and what the marker says of the change
\* it is in.
Control ==
    /\ canary = NoKey => /\ pending = NoKey
                         /\ \/ pc \in {"idle", "lock"}
                            \/ Unverified /\ pc \in {"publish", "list", "wrap"}
    /\ pc = "publish" /\ goal = "encrypt" => pending = NoKey
    /\ pc \in {"walk", "plain"} \/ Settling \/ Clearing =>
           goal \in {"unlock", "change", "disable"}
    /\ session # NoKey => \/ session = canary \/ canary = NoKey \/ pc = "switch"
                          \/ pc = "publish" /\ goal = "encrypt"
    /\ \/ pc \in {"walk", "publish", "list", "plain", "wrap", "wipe", "lock"}
       \/ Changing /\ pc # "switch"
       \/ (Settling \/ Clearing) /\ ret # "idle"
       => key \in Keys /\ (key = canary \/ Unverified \/ pc = "lock")
    /\ goal = "change" /\ pc # "idle" => newKey \in Keys \ {key}
    /\ Changing \/ Sweeping => goal = "change"
    /\ \/ pc \in {"mark", "marker", "plain"} \/ Sweeping \/ Wiping
       \/ pc = "list" /\ goal \in {"change", "disable"}
       => pending = NoKey
    /\ pc = "walk" => pending # NoKey
    /\ pc \in {"stage", "commit", "switch"} => pending = newKey
    /\ pc = "switch" => canary = newKey
    /\ Settling => /\ ret \in {"publish", "idle", "mark"}
                   /\ ret # "mark" => pending # NoKey
                   /\ fwd <=> ret # "mark" /\ pending = canary
    /\ Clearing => ret \in {"publish", "idle", "wipe"}
    /\ pc = "unstage" => fwd
    /\ pc \in {"unsecret", "settled"} => todo = {}

\* A staged copy belongs to the change the marker names, and holds the text of
\* its original; one on the card is announced by "pend_sd".
StagedOwn ==
    \A p \in Copies \ excused : staged[p].key # None =>
        /\ staged[p].key \in {pending, Torn} /\ pending # NoKey
        /\ orig[p].key # None
        /\ p \in OnSd => pendSd
        /\ staged[p].key # Torn /\ orig[p].key # Torn => staged[p].ver = orig[p].ver

\* A change lists every copy there is before it marks, and has staged every
\* one it listed when it commits.
Listing ==
    /\ Changing \/ Sweeping =>
        \A p \in Copies \ excused : p \in known <=> orig[p].key # None
    /\ pc \in {"marker", "stage"} /\ known \cap OnSd # {} => pendSd
    /\ pc = "stage" => todo \subseteq known
    /\ pc \in {"stage", "commit"} =>
        \A p \in known \ excused : staged[p].key = newKey \/ (pc = "stage" /\ p \in todo)

\* Nothing is left of a change that the settling has found complete, and
\* nothing is left when the marker is cleared.
Over(p) == Opens(p) /\ staged[p].key = None

Swept ==
    /\ Settling /\ ret # "mark" /\ complete =>
        \A p \in Copies \ excused : p \in todo \/ Over(p) \/ (pc = "unstage" /\ p = cur)
    /\ Clearing => \A p \in Copies \ excused : Over(p)
    /\ pc = "unstage" /\ cur \notin excused => orig[cur].key = canary

\* Disabling encryption wipes the canary after every copy is plain.
Unwrapped ==
    /\ pc = "plain" =>
        \A p \in Copies \ excused : p \in todo \/ failed \/ orig[p].key \in {None, Plain}
    /\ Wiping => \A p \in Copies \ excused : orig[p].key \in {None, Plain}

\* The staged secret belongs to the change, and goes with it.
Secrets ==
    \/ strayed
    \/ /\ stgSecret # NoKey => stgSecret = pending
       /\ canary = NoKey \/ Wiping => secret = NoKey
       /\ pc = "commit" /\ secret # NoKey => stgSecret = newKey
       /\ pc = "unsecret" => secret \in {NoKey, canary}
       /\ (pc = "settled" /\ complete) \/ Clearing => stgSecret = NoKey

\* The save under way has still to write the copy.
Due(p) == p[1] = note /\ (saving = p[2] \/ saving = "ffat")

\* No text is newer than the last save, and what is to be written is newer than
\* all of them.
Versions ==
    \A p \in Copies :
        /\ orig[p].ver <= writes /\ staged[p].ver <= writes
        /\ Due(p) => orig[p].ver < writes /\ staged[p].ver < writes /\ 0 < writes

(* The types of the state, nothing left over, and where a change stands: what *)
(* each step of it relies on.                                                 *)
RekeyInv ==
    /\ TypeOK /\ NoLeftovers
    /\ Control /\ StagedOwn /\ Listing /\ Swept /\ Unwrapped /\ Secrets /\ Versions

\* What the user has of a copy: what it opens to once an interrupted change
\* is settled.
Recovered(p) ==
    IF p \in excused THEN -2
    ELSE IF WillOpen(p) THEN staged[p].ver
    ELSE IF orig[p].key = None THEN -1 ELSE orig[p].ver

Vault == INSTANCE NotesVault WITH
    Passphrases <- Keys \cup {NoKey}, Versions <- 0 .. MaxWrites,
    Gone <- -1, Lost <- -2,
    pass <- canary, vault <- [p \in Copies |-> Recovered(p)]

(* The staged change implements a change in one step: whatever is reset or *)
(* refused on the way, the canary write alone moves the notes from one     *)
(* passphrase to the next, and no note goes back to an older text.         *)
OneStepChange == Vault!Spec

(* The exceptions of `excused' and `strayed', one by one: what the code says   *)
(* of itself without them.  None of the four holds.                            *)

(* notes_crypto.cpp:738: the marker goes only when nothing staged is left, so  *)
(* no original stays under another passphrase beside a staged copy that the    *)
(* canary's opens.  On a card that was pulled it does.                         *)
InstalledAll ==
    pc = "idle" /\ pending = NoKey =>
        \A p \in Copies : canary # NoKey /\ staged[p].key = canary => Opens(p)

(* notes_crypto.cpp:1361: the secrets change with the notes and go on          *)
(* decrypting.  One that is stored after its slot was staged does not.         *)
SecretsChange ==
    goal = "change" /\ pc \in {"settle", "settled", "clearSd", "clear"} => SecretOpens

(* notes_crypto.h:92: notes are encrypted after the canary is written.  A      *)
(* canary write that is refused does not stop the encryption.                  *)
EncryptedUnderCanary ==
    pc = "wrap" => canary # NoKey \/ \A p \in Copies : orig[p].key \notin Keys

(* notes_crypto.h:106: encryption stays on when a copy could not be rewritten  *)
(* as plaintext.  One that could not be read does not count.                   *)
DisabledIsPlain ==
    pc = "lock" => canary # NoKey \/ \A p \in known : orig[p].key \notin Keys
=============================================================================
