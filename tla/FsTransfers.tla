------------------------------ MODULE FsTransfers ------------------------------
(***************************************************************************)
(* The fs.* service of the pager (src/src/hal/link/handlers_fs.cpp) over   *)
(* one volume: reads and uploads side by side, staging files, and the      *)
(* requests that delete, rename or replace a file a transfer has open.     *)
(*                                                                         *)
(* A directory entry names a file; an open handle keeps the file it was    *)
(* opened on. A path is a name and the number of ".part" suffixes on it.   *)
(* The bytes of a file are chunks <<f, i>>: chunk i of what was first      *)
(* written as file f. The volume is flat and stays mounted (the internal   *)
(* one does); the bulk engine below is BulkXfer, so a transfer here gets   *)
(* its chunks once and in order. Every handler runs in the link task under *)
(* the service lock, hence the grain. Time is left out: a stall may be     *)
(* noticed whenever a transfer exists.                                     *)
(***************************************************************************)
EXTENDS Integers, Sequences, FiniteSets

CONSTANTS
  Names,     \* file names
  MaxPart,   \* bound: ".part" suffixes on a path
  Existing,  \* paths of the files there are at the start
  ReadIds,   \* the even transfer ids the phone uses
  MaxXfers,  \* MAX_XFERS
  Sizes,     \* bound: sizes in chunks
  MaxFiles   \* bound: files ever created

Paths == Names \X (0 .. MaxPart)
Targets == Names \X (0 .. (MaxPart - 1))
Files == 1 .. MaxFiles

ASSUME FsAssumption ==
  /\ MaxPart \in Nat \ {0} /\ MaxXfers \in Nat \ {0} /\ MaxFiles \in Nat
  /\ Sizes \subseteq Nat
  /\ Existing \subseteq Paths /\ IsFiniteSet(Existing) /\ Cardinality(Existing) <= MaxFiles

VARIABLES
  entry,    \* path -> the file it names, 0 for none
  bytes,    \* file -> its chunks
  uploads,  \* transfers phone -> pager
  reads,    \* transfers pager -> phone
  created,  \* files created so far
  ok,       \* history: uploads (by the file they created) whose commit succeeded
  moved,    \* history: files the phone renamed
  orphans   \* history: files left over by a power loss or a removal that failed

fsVars == <<entry, bytes, uploads, reads, created, ok, moved, orphans>>

\* Whole(f, k): the first k chunks of file f as its writer has them.
Whole(f, k) == [i \in 1 .. k |-> <<f, i>>]

FsInit ==
  \E at \in [Existing -> 1 .. Cardinality(Existing)], k \in Sizes :
    /\ \A p, q \in Existing : at[p] = at[q] => p = q
    /\ entry = [p \in Paths |-> IF p \in Existing THEN at[p] ELSE 0]
    /\ bytes = [f \in Files |-> IF f <= Cardinality(Existing) THEN Whole(f, k) ELSE << >>]
    /\ created = Cardinality(Existing)
    /\ uploads = {} /\ reads = {} /\ ok = {} /\ moved = {} /\ orphans = {}

Part(p) == <<p[1], p[2] + 1>>

-----------------------------------------------------------------------------
(* Helpers *)

\* Mutation of Closed: the handle is closed, the transfer not marked stale.
ClosedOnly(t) == [t EXCEPT !.node = 0]

\* The transfer's file is closed and the transfer marked stale.
Closed(t) == [t EXCEPT !.node = 0, !.stale = TRUE]

\* close_files_under(target)
CloseUploads(us, target) ==
  {IF Part(u.path) = target THEN Closed(u) ELSE u : u \in us}
CloseReads(rs, target) == {IF r.path = target THEN Closed(r) ELSE r : r \in rs}

\* drop()'s removal of whatever the staging path of u names, in the directory
\* dir. When it fails nobody is told, and the file stays.
Unstage(u, dir) ==
  \/ entry' = [dir EXCEPT ![Part(u.path)] = 0] /\ UNCHANGED orphans
  \/ dir[Part(u.path)] # 0 /\ entry' = dir /\ orphans' = orphans \cup {u.id}

\* drop(): the upload ends.
Drop(u) == uploads' = uploads \ {u} /\ Unstage(u, entry)

\* A transfer slot is free.
Room == Cardinality(uploads) + Cardinality(reads) < MaxXfers

-----------------------------------------------------------------------------
(* Reads *)

\* fs.read: the announced size is the size now.
ReadBegin(id, p) ==
  /\ \A r \in reads : r.id # id
  /\ Room
  /\ entry[p] # 0
  /\ reads' = reads \cup {[id |-> id, path |-> p, size |-> Len(bytes[entry[p]]),
                           node |-> entry[p], stale |-> FALSE, got |-> << >>]}
  /\ UNCHANGED <<entry, bytes, uploads, created, ok, moved, orphans>>

\* The file read_at() and write_at() work on: the open one, or the path opened
\* again. 0 when there is none.
ReadFile(r) == IF r.node # 0 THEN r.node ELSE entry[r.path]

\* The next chunk goes to the phone.
ReadChunk(r) ==
  LET f == ReadFile(r) IN
  /\ Len(r.got) < r.size /\ ~r.stale
  /\ f # 0 /\ Len(r.got) < Len(bytes[f])
  /\ reads' = (reads \ {r}) \cup
              {[r EXCEPT !.node = f, !.got = Append(@, bytes[f][Len(r.got) + 1])]}
  /\ UNCHANGED <<entry, bytes, uploads, created, ok, moved, orphans>>

\* A read ends: all acknowledged, stale or unreadable at the next chunk,
\* aborted, or stalled.
ReadEnd(r) ==
  /\ reads' = reads \ {r}
  /\ UNCHANGED <<entry, bytes, uploads, created, ok, moved, orphans>>

-----------------------------------------------------------------------------
(* Uploads *)

\* fs.write.begin: a new staging file; whoever staged there before goes stale.
WriteBegin(p, size, overwrite, bad) ==
  /\ Room
  /\ created < MaxFiles
  /\ entry[p] # 0 => overwrite
  /\ created' = created + 1
  /\ entry' = [entry EXCEPT ![Part(p)] = created']
  /\ uploads' = CloseUploads(uploads, Part(p)) \cup
                {[id |-> created', path |-> p, size |-> size, overwrite |-> overwrite,
                  bad |-> bad, node |-> created', stale |-> FALSE, n |-> 0]}
  /\ reads' = CloseReads(reads, Part(p))
  /\ UNCHANGED <<bytes, ok, moved, orphans>>

\* fs.write.begin when the staging file cannot be opened: transfers under its
\* path are closed, and an older one is removed unless that fails too.
WriteBeginFails(p, overwrite) ==
  /\ Room
  /\ entry[p] # 0 => overwrite
  /\ entry' \in {entry, [entry EXCEPT ![Part(p)] = 0]}
  /\ uploads' = CloseUploads(uploads, Part(p)) /\ reads' = CloseReads(reads, Part(p))
  /\ UNCHANGED <<bytes, created, ok, moved, orphans>>

WriteFile(u) == IF u.node # 0 THEN u.node ELSE entry[Part(u.path)]

\* The next chunk is appended.
Data(u) ==
  LET f == WriteFile(u) IN
  /\ u.n < u.size /\ ~u.stale
  /\ f # 0 /\ Len(bytes[f]) = u.n
  /\ bytes' = [bytes EXCEPT ![f] = Append(@, <<u.id, u.n + 1>>)]
  /\ uploads' = (uploads \ {u}) \cup {[u EXCEPT !.node = f, !.n = @ + 1]}
  /\ UNCHANGED <<entry, reads, created, ok, moved, orphans>>

\* fs.write.abort, the stall check, or a chunk that cannot be written: no
\* space, or the transfer is stale.
WriteEnd(u) ==
  /\ Drop(u)
  /\ UNCHANGED <<bytes, reads, created, ok, moved>>

\* Mutation of Staged: the stale mark and the length of the file go unchecked.
StagedUnchecked(u) == u.n = u.size /\ entry[Part(u.path)] # 0 /\ ~u.bad

\* The checks of fs.write.commit before it touches the target: all bytes in, the
\* staging file still this transfer's and as long, the CRC right.
Staged(u) ==
  /\ u.n = u.size
  /\ ~u.stale
  /\ entry[Part(u.path)] # 0 /\ Len(bytes[entry[Part(u.path)]]) = u.size
  /\ ~u.bad

\* fs.write.commit refused: the upload is dropped.
CommitRefused(u) ==
  /\ ~Staged(u)
  /\ Drop(u)
  /\ UNCHANGED <<bytes, reads, created, ok, moved>>

\* Closing whoever has the target open.
CommitCloses(u) ==
  /\ reads' = CloseReads(reads, u.path)
  /\ UNCHANGED <<bytes, created, moved>>

\* fs.write.commit: the target exists by now and may not be replaced.
CommitExists(u) ==
  /\ Staged(u) /\ entry[u.path] # 0 /\ ~u.overwrite
  /\ uploads' = CloseUploads(uploads, u.path) \ {u}
  /\ Unstage(u, entry)
  /\ CommitCloses(u) /\ UNCHANGED ok

\* fs.write.commit: the target cannot be removed, or it is gone and the rename
\* fails. Either way the upload is dropped.
CommitFails(u) ==
  /\ Staged(u)
  /\ entry[u.path] # 0 => u.overwrite
  /\ uploads' = CloseUploads(uploads, u.path) \ {u}
  /\ \E dir \in {entry, [entry EXCEPT ![u.path] = 0]} : Unstage(u, dir)
  /\ CommitCloses(u) /\ UNCHANGED ok

\* Mutation of CommitDone: overwrite is not checked again.
CommitDoneReplaces(u) ==
  /\ Staged(u)
  /\ uploads' = CloseUploads(uploads, u.path) \ {u}
  /\ entry' = [entry EXCEPT ![u.path] = entry[Part(u.path)], ![Part(u.path)] = 0]
  /\ ok' = ok \cup {u.id}
  /\ CommitCloses(u) /\ UNCHANGED orphans

\* fs.write.commit: the target is removed and the staging file takes its name.
CommitDone(u) ==
  /\ Staged(u)
  /\ entry[u.path] # 0 => u.overwrite
  /\ uploads' = CloseUploads(uploads, u.path) \ {u}
  /\ entry' = [entry EXCEPT ![u.path] = entry[Part(u.path)], ![Part(u.path)] = 0]
  /\ ok' = ok \cup {u.id}
  /\ CommitCloses(u) /\ UNCHANGED orphans

-----------------------------------------------------------------------------
(* Requests on files *)

\* fs.delete; a removal that fails has closed the transfers all the same.
Delete(p) ==
  /\ entry[p] # 0
  /\ uploads' = CloseUploads(uploads, p) /\ reads' = CloseReads(reads, p)
  /\ entry' \in {entry, [entry EXCEPT ![p] = 0]}
  /\ UNCHANGED <<bytes, created, ok, moved, orphans>>

\* fs.rename, which may fail in the same way.
Rename(from, to) ==
  /\ entry[from] # 0 /\ entry[to] = 0 /\ from # to
  /\ uploads' = CloseUploads(CloseUploads(uploads, from), to)
  /\ reads' = CloseReads(CloseReads(reads, from), to)
  /\ \/ /\ entry' = [entry EXCEPT ![to] = entry[from], ![from] = 0]
        /\ moved' = moved \cup {entry[from]}
     \/ UNCHANGED <<entry, moved>>
  /\ UNCHANGED <<bytes, created, ok, orphans>>

-----------------------------------------------------------------------------
(* The link and the power *)

\* Mutation of FsReset: transfers end but their staging files stay.
FsResetErases ==
  /\ uploads' = {} /\ reads' = {}
  /\ UNCHANGED <<entry, bytes, created, ok, moved, orphans>>

\* fs_reset() drops every transfer; the removals of the staging paths in kept fail.
FsReset ==
  LET staging == {Part(u.path) : u \in uploads} IN
  /\ uploads # {} \/ reads # {}
  /\ uploads' = {} /\ reads' = {}
  /\ \E kept \in SUBSET staging :
       /\ entry' = [p \in Paths |-> IF p \in staging \ kept THEN 0 ELSE entry[p]]
       /\ orphans' = orphans \cup {u.id : u \in {v \in uploads : Part(v.path) \in kept}}
  /\ UNCHANGED <<bytes, created, ok, moved>>

\* Files staged by a live upload.
Staging == {entry[Part(u.path)] : u \in uploads} \ {0}

\* The power goes: transfers end, nothing is cleaned up; possibly between the
\* removal and the rename of a commit.
PowerLoss ==
  /\ uploads' = {} /\ reads' = {}
  /\ orphans' = orphans \cup Staging
  /\ \/ UNCHANGED entry
     \/ \E u \in uploads :
          /\ Staged(u) /\ u.overwrite
          /\ entry' = [entry EXCEPT ![u.path] = 0]
  /\ UNCHANGED <<bytes, created, ok, moved>>

FsNext ==
  \/ \E id \in ReadIds, p \in Paths : ReadBegin(id, p)
  \/ \E r \in reads : ReadChunk(r) \/ ReadEnd(r)
  \/ \E p \in Targets, k \in Sizes, o, b \in BOOLEAN : WriteBegin(p, k, o, b)
  \/ \E p \in Targets, o \in BOOLEAN : WriteBeginFails(p, o)
  \/ \E u \in uploads :
       \/ Data(u) \/ WriteEnd(u)
       \/ CommitRefused(u) \/ CommitExists(u) \/ CommitFails(u) \/ CommitDone(u)
  \/ \E p \in Paths : Delete(p)
  \/ \E p, q \in Paths : Rename(p, q)
  \/ FsReset \/ PowerLoss

FsSpec == FsInit /\ [][FsNext]_fsVars

-----------------------------------------------------------------------------
(* Properties *)

\* Types, and never more than MAX_XFERS transfers at once.
FsTypeOK ==
  /\ entry \in [Paths -> 0 .. created]
  /\ bytes \in [Files -> Seq(Files \X Nat)]
  /\ uploads \subseteq [id : Files, path : Targets, size : Sizes, overwrite : BOOLEAN,
                        bad : BOOLEAN, node : 0 .. created, stale : BOOLEAN, n : Nat]
  /\ reads \subseteq [id : ReadIds, path : Paths, size : Nat, node : 0 .. created,
                      stale : BOOLEAN, got : Seq(Files \X Nat)]
  /\ created \in 0 .. MaxFiles
  /\ ok \subseteq Files /\ moved \subseteq Files /\ orphans \subseteq Files
  /\ IsFiniteSet(uploads) /\ IsFiniteSet(reads)
  /\ Cardinality(uploads) + Cardinality(reads) <= MaxXfers

\* An interrupted upload leaves nothing behind (PROTOCOL.md 6.1): every file
\* there is came from the start, was committed or renamed by the phone, is
\* being staged by a live upload, or was left over by a power loss or by a
\* removal that failed when the upload that created it ended.
Owned(p) ==
  \/ entry[p] \in {0} \cup 1 .. Cardinality(Existing)
  \/ entry[p] \in ok \cup moved \cup orphans
  \/ \E u \in uploads : Part(u.path) = p /\ u.id = entry[p]

NothingLeftBehind == \A p \in Paths : Owned(p)

\* A file holds the chunks of the upload that created it, from the first on,
\* and nothing before it is created.
FilesWhole ==
  /\ \A f \in Files : bytes[f] = Whole(f, Len(bytes[f]))
  /\ \A f \in Files : f > created => bytes[f] = << >>

\* Uploads create different files. One that is not stale has its own file open,
\* as far as it came; its staging path names that file or none, and no other path
\* does.
OwnStaging ==
  /\ \A u, v \in uploads : u.id = v.id => u = v
  /\ \A u \in uploads :
       /\ u.id \in 1 .. created
       /\ ~u.stale => /\ u.node = u.id /\ Len(bytes[u.id]) = u.n
                      /\ entry[Part(u.path)] \in {0, u.id}
                      /\ \A p \in Paths : entry[p] = u.id => p = Part(u.path)

\* A read that is not stale has a file open and has sent of no other.
ReadsOpen ==
  \A r \in reads : ~r.stale => r.node # 0 /\ r.got = Whole(r.node, Len(r.got))

\* The types, MAX_XFERS, no file without an owner, and what a transfer that is
\* not stale may rely on: every request that takes a path from under it marks it.
FsInv == FsTypeOK /\ NothingLeftBehind /\ FilesWhole /\ OwnStaging /\ ReadsOpen

\* A commit that is answered ok has put exactly the bytes of its own upload
\* under the target, even when another upload has taken over the staging path.
CommitsItsOwn ==
  [][\A u \in uploads :
       u.id \in ok' \ ok =>
         entry'[u.path] # 0 /\ bytes[entry'[u.path]] = Whole(u.id, u.size)]_fsVars

\* What a read sends is a prefix of one file as it was written, never part of
\* one file and part of what took its path (the comment at close_files_under).
ReadsOneFile ==
  \A r \in reads : \E f \in Files : r.got = Whole(f, Len(r.got))

\* The steps in which a path comes to name another file, or none: a commit to
\* it with overwrite (or a power loss in one), a delete, a rename.
Replaced(p) ==
  \/ \E u \in uploads : /\ u.path = p /\ u.overwrite /\ Staged(u)
                        /\ CommitFails(u) \/ CommitDone(u) \/ PowerLoss
  \/ entry'[p] = 0 /\ (Delete(p) \/ \E q \in Paths : Rename(p, q))

\* A file under a name without ".part" is touched only on request: nothing but
\* those steps changes what the name stands for, and nothing changes its bytes.
KeepsFiles ==
  [][\A n \in Names :
       LET p == <<n, 0>> IN
       entry[p] # 0 =>
         /\ entry'[p] # entry[p] => Replaced(p)
         /\ bytes'[entry[p]] = bytes[entry[p]]]_fsVars

\* A file that a transfer has open keeps its directory entry ("never remove a
\* file we hold open", handlers_fs.cpp:101). It does not hold: two uploads to one path share a
\* staging path, and drop() of the older one removes the newer one's file.
OpenFilesStay ==
  \A u \in uploads : u.node # 0 => entry[Part(u.path)] = u.node
=============================================================================
