---------------------------- MODULE JobStoreFile -----------------------------
(***************************************************************************)
(* JobStore.save and JobStore.load on the file of one job, call by call of *)
(* the operating system: layer1_orchestration/execution/job_store.py.      *)
(*                                                                         *)
(* A save writes <job_id>.json.tmp and renames it to <job_id>.json.  Both  *)
(* are names in a directory; what a process has open, locks and writes is  *)
(* the inode behind the name.  open(tmp, "w") empties the inode before     *)
(* flock is asked for it.  A record of several blocks leaves the buffer of *)
(* the file object one block at a time.                                    *)
(*                                                                         *)
(* The modules above this one treat save and load as one step each.        *)
(***************************************************************************)
EXTENDS Integers, Sequences

CONSTANTS
  Writers, Readers,  \* processes that save, or load, the job
  Inodes,
  None,
  MaxSaves,          \* bound: calls of save
  Blocks             \* blocks of the version with a given number

ASSUME StoreAssumption ==
  /\ MaxSaves \in Nat
  /\ Blocks \in [1..MaxSaves -> Nat \ {0}]
  /\ None \notin Inodes
  /\ Writers \cap Readers = {}

VARIABLES
  path, tmp,  \* the inodes of the two names, None while there is no such file
  data,       \* of each inode, its blocks
  holders,    \* of each inode, who holds a flock on it
  fd,         \* of each process, the inode it has open
  pc,         \* of each process, where in save or load it is
  version,    \* of each writer, the version it saves
  offset,     \* of each writer, the blocks it has written
  got,        \* of each reader, the blocks json.load has read
  saves,      \* calls of save so far
  returned    \* the last version whose save has returned

vars == <<path, tmp, data, holders, fd, pc, version, offset, got, saves, returned>>

Procs == Writers \cup Readers
Versions == 1..MaxSaves
Block == Versions \X (Nat \ {0}) \cup {<<>>}

Record(v) == [i \in 1..Blocks[v] |-> <<v, i>>]

Whole(content) == \E v \in Versions : content = Record(v)

\* The version a file holds, for a file that is whole.
Decoded(content) == CHOOSE v \in Versions : content = Record(v)

\* A write past the end of a file that was emptied leaves a hole.
Overwritten(content, n, b) ==
  [i \in 1..(IF Len(content) > n THEN Len(content) ELSE n) |->
    IF i = n THEN b ELSE IF i <= Len(content) THEN content[i] ELSE <<>>]

Unused(i) == i \notin {path, tmp} /\ \A p \in Procs : fd[p] # i

Init ==
  /\ path = None /\ tmp = None
  /\ data = [i \in Inodes |-> <<>>]
  /\ holders = [i \in Inodes |-> {}]
  /\ fd = [p \in Procs |-> None]
  /\ pc = [p \in Procs |-> "idle"]
  /\ version = [w \in Writers |-> 0]
  /\ offset = [w \in Writers |-> 0]
  /\ got = [r \in Readers |-> <<>>]
  /\ saves = 0 /\ returned = 0

-----------------------------------------------------------------------------
(* save *)

\* open(tmp, "w"): the leftover of a save that died is used again, emptied.
TmpInode(i) == IF tmp = None THEN Unused(i) ELSE i = tmp

\* Mutant: the leftover of a save that died is not emptied.
Kept(i) == data

Emptied(i) == [data EXCEPT ![i] = <<>>]

OpenTmp(w) ==
  /\ pc[w] = "idle"
  /\ saves < MaxSaves
  /\ \E i \in Inodes :
       /\ TmpInode(i)
       /\ tmp' = i
       /\ data' = Emptied(i)
       /\ fd' = [fd EXCEPT ![w] = i]
  /\ saves' = saves + 1
  /\ version' = [version EXCEPT ![w] = saves + 1]
  /\ offset' = [offset EXCEPT ![w] = 0]
  /\ pc' = [pc EXCEPT ![w] = "lock"]
  /\ UNCHANGED <<path, holders, got, returned>>

LockExclusive(w) ==
  /\ pc[w] = "lock"
  /\ holders[fd[w]] = {}
  /\ holders' = [holders EXCEPT ![fd[w]] = {w}]
  /\ pc' = [pc EXCEPT ![w] = "write"]
  /\ UNCHANGED <<path, tmp, data, fd, version, offset, got, saves, returned>>

WriteBlock(w) ==
  /\ pc[w] = "write"
  /\ offset[w] < Blocks[version[w]]
  /\ data' = [data EXCEPT ![fd[w]] =
                Overwritten(@, offset[w] + 1, <<version[w], offset[w] + 1>>)]
  /\ offset' = [offset EXCEPT ![w] = @ + 1]
  /\ UNCHANGED <<path, tmp, holders, fd, pc, version, got, saves, returned>>

\* Mutant: the old file is removed first, and the save may die before the new
\* one has its name.
CloseTmpAndRemove(w) ==
  /\ pc[w] = "write"
  /\ offset[w] = Blocks[version[w]]
  /\ holders' = [holders EXCEPT ![fd[w]] = @ \ {w}]
  /\ fd' = [fd EXCEPT ![w] = None]
  /\ pc' = [pc EXCEPT ![w] = "rename"]
  /\ path' = None
  /\ UNCHANGED <<tmp, data, version, offset, got, saves, returned>>

\* flush and fsync have returned; the lock is given up and the file closed.
CloseTmp(w) ==
  /\ pc[w] = "write"
  /\ offset[w] = Blocks[version[w]]
  /\ holders' = [holders EXCEPT ![fd[w]] = @ \ {w}]
  /\ fd' = [fd EXCEPT ![w] = None]
  /\ pc' = [pc EXCEPT ![w] = "rename"]
  /\ UNCHANGED <<path, tmp, data, version, offset, got, saves, returned>>

\* Mutant: the contents are copied over the file that is there.
RenameByCopy(w) ==
  /\ pc[w] = "rename"
  /\ IF path = None
       THEN path' = tmp /\ data' = data
       ELSE path' = path /\ data' = [data EXCEPT ![path] = data[tmp]]
  /\ returned' = version[w]
  /\ tmp' = None
  /\ pc' = [pc EXCEPT ![w] = "idle"]
  /\ UNCHANGED <<holders, fd, version, offset, got, saves>>

\* os.rename raises when another save has taken the temporary file away.
Rename(w) ==
  /\ pc[w] = "rename"
  /\ IF tmp = None
       THEN UNCHANGED <<path, returned>>
       ELSE /\ path' = tmp
            /\ returned' = version[w]
  /\ tmp' = None
  /\ pc' = [pc EXCEPT ![w] = "idle"]
  /\ UNCHANGED <<data, holders, fd, version, offset, got, saves>>

\* Mutant: the file is not closed when json.dump, flush or fsync raises.
StopUnclosed(w) ==
  /\ pc[w] # "idle"
  /\ holders' = [i \in Inodes |-> holders[i] \ {w}]
  /\ pc' = [pc EXCEPT ![w] = "idle"]
  /\ UNCHANGED <<path, tmp, data, fd, version, offset, got, saves, returned>>

\* The process dies, or json.dump, flush or fsync raises.
Stop(w) ==
  /\ pc[w] # "idle"
  /\ holders' = [i \in Inodes |-> holders[i] \ {w}]
  /\ fd' = [fd EXCEPT ![w] = None]
  /\ pc' = [pc EXCEPT ![w] = "idle"]
  /\ UNCHANGED <<path, tmp, data, version, offset, got, saves, returned>>

-----------------------------------------------------------------------------
(* load *)

\* Without a file, load returns None.
FindNothing(r) ==
  /\ pc[r] = "idle"
  /\ path = None
  /\ UNCHANGED vars

OpenPath(r) ==
  /\ pc[r] = "idle"
  /\ path # None
  /\ fd' = [fd EXCEPT ![r] = path]
  /\ pc' = [pc EXCEPT ![r] = "lock"]
  /\ UNCHANGED <<path, tmp, data, holders, version, offset, got, saves, returned>>

LockShared(r) ==
  /\ pc[r] = "lock"
  /\ holders[fd[r]] \subseteq Readers
  /\ holders' = [holders EXCEPT ![fd[r]] = @ \cup {r}]
  /\ pc' = [pc EXCEPT ![r] = "read"]
  /\ UNCHANGED <<path, tmp, data, fd, version, offset, got, saves, returned>>

Read(r) ==
  /\ pc[r] = "read"
  /\ got' = [got EXCEPT ![r] = data[fd[r]]]
  /\ pc' = [pc EXCEPT ![r] = "close"]
  /\ UNCHANGED <<path, tmp, data, holders, fd, version, offset, saves, returned>>

ClosePath(r) ==
  /\ pc[r] = "close"
  /\ holders' = [holders EXCEPT ![fd[r]] = @ \ {r}]
  /\ fd' = [fd EXCEPT ![r] = None]
  /\ got' = [got EXCEPT ![r] = <<>>]
  /\ pc' = [pc EXCEPT ![r] = "idle"]
  /\ UNCHANGED <<path, tmp, data, version, offset, saves, returned>>

Next ==
  \/ \E w \in Writers :
       \/ OpenTmp(w) \/ LockExclusive(w) \/ WriteBlock(w)
       \/ CloseTmp(w) \/ Rename(w) \/ Stop(w)
  \/ \E r \in Readers :
       \/ FindNothing(r) \/ OpenPath(r)
       \/ LockShared(r) \/ Read(r) \/ ClosePath(r)

Spec == Init /\ [][Next]_vars

-----------------------------------------------------------------------------
(* Properties *)

Typed ==
  /\ path \in Inodes \cup {None} /\ tmp \in Inodes \cup {None}
  /\ data \in [Inodes -> Seq(Block)]
  /\ holders \in [Inodes -> SUBSET Procs]
  /\ fd \in [Procs -> Inodes \cup {None}]
  /\ pc \in [Procs -> {"idle", "lock", "write", "rename", "read", "close"}]
  /\ version \in [Writers -> Versions \cup {0}]
  /\ offset \in [Writers -> Nat]
  /\ got \in [Readers -> Seq(Block)]
  /\ saves \in Versions \cup {0}
  /\ returned \in Versions \cup {0}

\* Whatever way a save or load ends, raising half way included, it leaves no
\* file open and no lock held that the next one would wait for.
NothingLeftOpen ==
  \A p \in Procs : pc[p] = "idle" => fd[p] = None /\ \A i \in Inodes : p \notin holders[i]

\* The types of the state, and that no call leaves a file open or locked.
TypeOK == Typed /\ NothingLeftOpen

\* The stored file is a complete record whenever it exists, so no load of it
\* raises JSONDecodeError; the file locking of save is there for this
\* (job_store.py:22).
StoredIsReadable == path # None => Whole(data[path])

\* What save has returned from is never lost to a later save that dies half way.
SavedIsKept == returned # 0 => path # None /\ Decoded(data[path]) >= returned

\* The version a load will return, 0 for a reader outside of load.
ViewOf(r) ==
  IF fd[r] = None THEN 0
  ELSE IF pc[r] = "close" THEN Decoded(got[r]) ELSE Decoded(data[fd[r]])

StoredVersion == IF path = None THEN 0 ELSE Decoded(data[path])

Views == [r \in Readers |-> ViewOf(r)]

Atomic == INSTANCE AtomicStore WITH
  Saved <- Versions, stored <- StoredVersion, view <- Views

\* Save and load appear atomic, crashes of the writer included: the modules
\* that load and save records in one step rest on this.
ImplementsAtomicStore == Atomic!Spec
=============================================================================
