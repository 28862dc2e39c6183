--------------------------- MODULE JobStoreProofs ----------------------------
(***************************************************************************)
(* JobStoreFile implements AtomicStore when one process saves the job, for *)
(* any number of readers, any records and a writer that may die anywhere.  *)
(***************************************************************************)
EXTENDS JobStoreFile, TLAPS

SingleWriter == \A u, w \in Writers : u = w

Saving == {"lock", "write", "rename"}
Loading == {"lock", "read", "close"}

Partial(v, n) == [i \in 1..n |-> <<v, i>>]

WriterFits(w) ==
  /\ pc[w] \in Saving \cup {"idle"}
  /\ pc[w] \in {"idle", "rename"} => fd[w] = None
  /\ pc[w] \in {"lock", "write"} => fd[w] = tmp
  /\ pc[w] \in Saving =>
       tmp \in Inodes /\ version[w] \in Versions /\ version[w] = saves
  /\ pc[w] = "lock" => offset[w] = 0 /\ data[tmp] = <<>>
  /\ pc[w] = "write" =>
       offset[w] <= Blocks[version[w]] /\ data[tmp] = Partial(version[w], offset[w])
  /\ pc[w] = "rename" => data[tmp] = Record(version[w])

\* What a reader has open is a whole record that nobody writes any more.
ReaderFits(r) ==
  /\ pc[r] \in Loading \cup {"idle"}
  /\ pc[r] = "idle" <=> fd[r] = None
  /\ fd[r] # None => fd[r] # tmp /\ Whole(data[fd[r]])
  /\ pc[r] = "close" => got[r] = data[fd[r]]

PathFits ==
  path # None =>
    /\ path # tmp
    /\ Whole(data[path])
    /\ Decoded(data[path]) <= saves
    /\ \A w \in Writers : pc[w] \in Saving => Decoded(data[path]) < saves

IInv ==
  /\ Typed
  /\ \A w \in Writers : WriterFits(w)
  /\ \A r \in Readers : ReaderFits(r)
  /\ PathFits
  /\ SavedIsKept

-----------------------------------------------------------------------------
(* Records *)

LEMMA RecordIsSeq ==
  ASSUME NEW v \in Versions, NEW n \in Nat
  PROVE  /\ Partial(v, n) \in Seq(Block)
         /\ Len(Partial(v, n)) = n
         /\ \A i \in 1..n : Partial(v, n)[i] = <<v, i>>
<1>1. \A i \in 1..n : <<v, i>> \in Block
  BY DEF Block
<1>. QED BY <1>1 DEF Partial

LEMMA RecordIsPartial ==
  ASSUME NEW v \in Versions
  PROVE  Blocks[v] \in Nat \ {0} /\ Record(v) = Partial(v, Blocks[v])
  BY StoreAssumption DEF Versions, Record, Partial

\* The first block tells two records apart.
LEMMA DecodedRecord ==
  ASSUME NEW v \in Versions
  PROVE  Whole(Record(v)) /\ Decoded(Record(v)) = v
<1>1. \A u \in Versions : Record(u)[1] = <<u, 1>>
  BY RecordIsPartial DEF Record
<1>2. \A u \in Versions : Record(u) = Record(v) => u = v
  <2>. SUFFICES ASSUME NEW u \in Versions, Record(u) = Record(v)
                PROVE  u = v
    OBVIOUS
  <2>1. <<u, 1>> = <<v, 1>>
    BY <1>1
  <2>. QED BY <2>1
<1>. QED BY <1>2 DEF Whole, Decoded

LEMMA DecodedWhole ==
  ASSUME NEW content, Whole(content)
  PROVE  Decoded(content) \in Versions
  BY DecodedRecord DEF Whole

LEMMA OneBlockMore ==
  ASSUME NEW v \in Versions, NEW n \in Nat
  PROVE  Overwritten(Partial(v, n), n + 1, <<v, n + 1>>) = Partial(v, n + 1)
<1>1. Len(Partial(v, n)) = n
  BY RecordIsSeq
<1>2. ASSUME NEW i \in 1..(n + 1), i # n + 1
      PROVE  i <= n /\ Partial(v, n)[i] = <<v, i>>
  BY <1>2, RecordIsSeq
<1>. QED BY <1>1, <1>2 DEF Overwritten, Partial

-----------------------------------------------------------------------------
(* The invariant *)

LEMMA InitInv == Init => IInv
<1>. SUFFICES ASSUME Init
              PROVE  IInv
  OBVIOUS
<1>1. <<>> \in Seq(Block) /\ 0 \in Versions \cup {0}
  BY StoreAssumption DEF Versions
<1>2. Typed
  BY <1>1 DEF Init, Typed
<1>3. (\A w \in Writers : WriterFits(w)) /\ \A r \in Readers : ReaderFits(r)
  BY StoreAssumption DEF Init, WriterFits, ReaderFits, Procs, Saving
<1>. QED BY <1>2, <1>3 DEF IInv, PathFits, SavedIsKept, Init

\* Every other process goes on as before when one takes a step that leaves
\* the inodes it knows alone.
LEMMA OtherReaderFits ==
  ASSUME NEW r \in Readers, ReaderFits(r),
         pc'[r] = pc[r], fd'[r] = fd[r], got'[r] = got[r],
         fd[r] # None => fd[r] # tmp' /\ data'[fd[r]] = data[fd[r]]
  PROVE  ReaderFits(r)'
<1>1. fd[r] # None => Whole(data[fd[r]])' 
  BY DEF ReaderFits, Whole, Record, Versions
<1>. QED BY <1>1 DEF ReaderFits, Loading

LEMMA ReaderStepWriterFits ==
  ASSUME Typed, NEW r \in Readers, NEW w \in Writers, WriterFits(w),
         \E n : pc' = [pc EXCEPT ![r] = n], \E i : fd' = [fd EXCEPT ![r] = i],
         UNCHANGED <<tmp, data, version, offset, saves>>
  PROVE  WriterFits(w)'
<1>1. r # w
  BY StoreAssumption
<1>2. pc'[w] = pc[w] /\ fd'[w] = fd[w]
  BY <1>1 DEF Typed, Procs
<1>. QED BY <1>2 DEF WriterFits, Saving, Partial, Record, Versions

LEMMA ReaderInv ==
  ASSUME IInv, NEW r \in Readers,
         OpenPath(r) \/ LockShared(r) \/ Read(r) \/ ClosePath(r)
  PROVE  IInv'
<1>. r \in Procs /\ r \notin Writers /\ Typed /\ ReaderFits(r) /\ PathFits
  BY StoreAssumption DEF Procs, IInv
<1>0. UNCHANGED <<path, tmp, data, version, offset, saves, returned>>
  BY DEF OpenPath, LockShared, Read, ClosePath
<1>1. Typed'
  <2>1. CASE OpenPath(r)
    BY <2>1, <1>0 DEF OpenPath, Typed
  <2>2. CASE LockShared(r)
    BY <2>2, <1>0 DEF LockShared, Typed, Versions, Block
  <2>3. CASE Read(r)
    <3>1. fd[r] \in Inodes
      BY <2>3 DEF Read, ReaderFits, Typed
    <3>. QED BY <2>3, <3>1, <1>0 DEF Read, Typed
  <2>4. CASE ClosePath(r)
    <3>1. <<>> \in Seq(Block)
      OBVIOUS
    <3>. QED BY <2>4, <3>1, <1>0 DEF ClosePath, Typed
  <2>. QED BY <2>1, <2>2, <2>3, <2>4
<1>2. ASSUME NEW w \in Writers
      PROVE  WriterFits(w)'
  <2>1. WriterFits(w)
    BY DEF IInv
  <2>2. \E n : pc' = [pc EXCEPT ![r] = n]
    BY DEF OpenPath, LockShared, Read, ClosePath
  <2>3. \E i : fd' = [fd EXCEPT ![r] = i]
    <3>1. CASE OpenPath(r)
      BY <3>1 DEF OpenPath
    <3>2. CASE ClosePath(r)
      BY <3>2 DEF ClosePath
    <3>3. CASE fd' = fd
      <4>1. fd' = [fd EXCEPT ![r] = fd[r]]
        BY <3>3 DEF Typed
      <4>. QED BY <4>1
    <3>. QED BY <3>1, <3>2, <3>3 DEF LockShared, Read
  <2>. QED BY <2>1, <2>2, <2>3, <1>0, ReaderStepWriterFits
<1>3. ASSUME NEW q \in Readers, q # r
      PROVE  ReaderFits(q)'
  <2>1. q \in Procs /\ ReaderFits(q)
    BY DEF Procs, IInv
  <2>2. pc'[q] = pc[q] /\ fd'[q] = fd[q] /\ got'[q] = got[q]
    BY <1>3, <2>1 DEF OpenPath, LockShared, Read, ClosePath, Typed
  <2>. QED BY <2>1, <2>2, <1>0, OtherReaderFits DEF ReaderFits
<1>4. ReaderFits(r)'
  <2>1. CASE OpenPath(r)
    <3>1. pc'[r] = "lock" /\ fd'[r] = path /\ path # None /\ path # tmp
      BY <2>1 DEF OpenPath, Typed, PathFits
    <3>2. Whole(data[path])'
      BY <2>1, <1>0 DEF OpenPath, PathFits, Whole, Record, Versions
    <3>. QED BY <3>1, <3>2, <1>0 DEF ReaderFits, Loading
  <2>2. CASE LockShared(r) \/ Read(r)
    <3>1. /\ pc'[r] \in {"read", "close"} /\ pc[r] # "idle" /\ fd'[r] = fd[r]
          /\ pc'[r] = "close" => got'[r] = data[fd[r]]
      BY <2>2 DEF LockShared, Read, Typed
    <3>2. Whole(data[fd[r]])'
      BY <3>1, <1>0 DEF ReaderFits, Whole, Record, Versions
    <3>. QED BY <3>1, <3>2, <1>0 DEF ReaderFits, Loading
  <2>3. CASE ClosePath(r)
    BY <2>3 DEF ClosePath, ReaderFits, Typed, Loading
  <2>. QED BY <2>1, <2>2, <2>3
<1>5. PathFits'
  <2>1. \A w \in Writers : pc'[w] = pc[w]
    BY DEF OpenPath, LockShared, Read, ClosePath, Typed, Procs
  <2>. QED BY <2>1, <1>0 DEF PathFits, Saving, Whole, Decoded, Record, Versions
<1>6. SavedIsKept'
  BY <1>0 DEF IInv, SavedIsKept, Decoded, Record, Versions
<1>. QED BY <1>1, <1>2, <1>3, <1>4, <1>5, <1>6 DEF IInv

LEMMA OpenTmpInv ==
  ASSUME SingleWriter, IInv, NEW w \in Writers, OpenTmp(w)
  PROVE  IInv'
<1>. w \in Procs /\ w \notin Readers /\ Typed /\ WriterFits(w) /\ PathFits
  BY StoreAssumption DEF Procs, IInv
<1>1. PICK i \in Inodes :
        /\ TmpInode(i) /\ tmp' = i
        /\ data' = [data EXCEPT ![i] = <<>>] /\ fd' = [fd EXCEPT ![w] = i]
  BY DEF OpenTmp, Emptied
<1>2. /\ pc[w] = "idle" /\ saves < MaxSaves /\ saves' = saves + 1
      /\ version' = [version EXCEPT ![w] = saves + 1]
      /\ offset' = [offset EXCEPT ![w] = 0]
      /\ pc' = [pc EXCEPT ![w] = "lock"]
      /\ UNCHANGED <<path, holders, got, returned>>
  BY DEF OpenTmp
<1>3. saves + 1 \in Versions
  BY <1>2, StoreAssumption DEF Typed, Versions
<1>4. Typed'
  <2>1. data' \in [Inodes -> Seq(Block)]
    <3>1. <<>> \in Seq(Block)
      OBVIOUS
    <3>. QED BY <1>1, <3>1 DEF Typed
  <2>2. version' \in [Writers -> Versions \cup {0}] /\ saves' \in Versions \cup {0}
    BY <1>2, <1>3 DEF Typed
  <2>3. Block' = Block /\ Versions' = Versions
    BY DEF Block, Versions
  <2>. QED BY <1>1, <1>2, <2>1, <2>2, <2>3 DEF Typed
<1>5. path # i /\ \A r \in Readers : fd[r] # i
  BY <1>1, <1>2 DEF TmpInode, Unused, IInv, PathFits, ReaderFits, Procs
<1>6. ASSUME NEW u \in Writers
      PROVE  WriterFits(u)'
  <2>1. u = w
    BY DEF SingleWriter
  <2>2. /\ pc'[w] = "lock" /\ fd'[w] = i /\ version'[w] = saves' /\ offset'[w] = 0
        /\ data'[i] = <<>>
    BY <1>1, <1>2 DEF Typed
  <2>. QED BY <1>1, <1>2, <1>3, <2>1, <2>2 DEF WriterFits, Saving, Versions
<1>7. ASSUME NEW r \in Readers
      PROVE  ReaderFits(r)'
  <2>1. r \in Procs /\ ReaderFits(r) /\ r # w
    BY DEF Procs, IInv
  <2>2. pc'[r] = pc[r] /\ fd'[r] = fd[r] /\ got'[r] = got[r]
    BY <1>1, <1>2, <2>1 DEF Typed
  <2>3. fd[r] # None => fd[r] # tmp' /\ data'[fd[r]] = data[fd[r]]
    BY <1>1, <1>5, <2>1 DEF Typed
  <2>. QED BY <2>1, <2>2, <2>3, OtherReaderFits
<1>8. PathFits' /\ SavedIsKept'
  <2>1. path # None => data'[path] = data[path]
    BY <1>1, <1>5 DEF Typed
  <2>2. path # None => Whole(data'[path]) /\ Decoded(data'[path]) = Decoded(data[path])
    BY <2>1 DEF PathFits
  <2>3. Whole(data[path])' <=> Whole(data'[path])
    BY <1>2 DEF Whole, Record, Versions
  <2>4. Decoded(data[path])' = Decoded(data'[path])
    BY <1>2 DEF Decoded, Record, Versions
  <2>5. path # None => Decoded(data[path]) \in Nat
    BY DecodedWhole DEF PathFits, Versions
  <2>6. PathFits'
    BY <1>1, <1>2, <1>3, <1>5, <2>2, <2>3, <2>4, <2>5 DEF PathFits, Typed, Versions
  <2>7. SavedIsKept'
    BY <1>2, <2>2, <2>4 DEF IInv, SavedIsKept
  <2>. QED BY <2>6, <2>7
<1>. QED BY <1>4, <1>6, <1>7, <1>8 DEF IInv

LEMMA WriteBlockInv ==
  ASSUME SingleWriter, IInv, NEW w \in Writers, WriteBlock(w)
  PROVE  IInv'
<1>. w \in Procs /\ w \notin Readers /\ Typed /\ WriterFits(w) /\ PathFits
  BY StoreAssumption DEF Procs, IInv
<1>. DEFINE v == version[w]  n == offset[w]
<1>1. /\ pc[w] = "write" /\ fd[w] = tmp /\ tmp \in Inodes /\ v \in Versions
      /\ n \in Nat /\ n < Blocks[v] /\ data[tmp] = Partial(v, n)
  BY DEF WriteBlock, WriterFits, Saving, Typed
<1>2. /\ data' = [data EXCEPT ![tmp] = Partial(v, n + 1)]
      /\ offset' = [offset EXCEPT ![w] = n + 1]
      /\ UNCHANGED <<path, tmp, holders, fd, pc, version, got, saves, returned>>
  <2>1. Overwritten(data[tmp], n + 1, <<v, n + 1>>) = Partial(v, n + 1)
    BY <1>1, OneBlockMore
  <2>. QED BY <1>1, <2>1 DEF WriteBlock
<1>3. Partial(v, n + 1) \in Seq(Block)
  BY <1>1, RecordIsSeq
<1>4. Typed'
  <2>1. data' \in [Inodes -> Seq(Block)] /\ offset' \in [Writers -> Nat]
    BY <1>1, <1>2, <1>3 DEF Typed
  <2>2. Block' = Block /\ Versions' = Versions
    BY DEF Block, Versions
  <2>. QED BY <1>2, <2>1, <2>2 DEF Typed
<1>5. ASSUME NEW u \in Writers
      PROVE  WriterFits(u)'
  <2>1. u = w
    BY DEF SingleWriter
  <2>2. offset'[w] = n + 1 /\ data'[tmp] = Partial(v, n + 1) /\ n + 1 <= Blocks[v]
    BY <1>1, <1>2, RecordIsPartial DEF Typed
  <2>3. Partial(v, n + 1) = Partial(version[w], offset[w])'
    BY <1>2, <2>2 DEF Partial
  <2>. QED BY <1>1, <1>2, <2>1, <2>2, <2>3 DEF WriterFits, Saving, Versions
<1>6. ASSUME NEW i \in Inodes, i # tmp
      PROVE  /\ data'[i] = data[i]
             /\ Whole(data[i])' <=> Whole(data[i])
             /\ Decoded(data[i])' = Decoded(data[i])
  BY <1>2, <1>6 DEF Typed, Whole, Decoded, Record, Versions
<1>7. ASSUME NEW r \in Readers
      PROVE  ReaderFits(r)'
  <2>1. r \in Procs /\ ReaderFits(r)
    BY DEF Procs, IInv
  <2>2. fd[r] # None => fd[r] # tmp' /\ data'[fd[r]] = data[fd[r]]
    BY <1>2, <1>6, <2>1 DEF ReaderFits, Typed
  <2>. QED BY <1>2, <2>1, <2>2, OtherReaderFits
<1>8. PathFits' /\ SavedIsKept'
  BY <1>2, <1>6 DEF PathFits, IInv, SavedIsKept, Typed
<1>. QED BY <1>4, <1>5, <1>7, <1>8 DEF IInv

\* A step of the writer that leaves the two files alone.
LEMMA WriterQuietInv ==
  ASSUME SingleWriter, IInv, NEW w \in Writers, Typed', WriterFits(w)',
         UNCHANGED <<path, tmp, data, got, saves, returned>>,
         \E n : pc' = [pc EXCEPT ![w] = n], \E i : fd' = [fd EXCEPT ![w] = i],
         pc'[w] \in Saving => pc[w] \in Saving
  PROVE  IInv'
<1>. w \in Procs /\ w \notin Readers /\ Typed /\ PathFits
  BY StoreAssumption DEF Procs, IInv
<1>1. \A u \in Writers : WriterFits(u)'
  BY DEF SingleWriter
<1>2. ASSUME NEW r \in Readers
      PROVE  ReaderFits(r)'
  <2>1. r \in Procs /\ ReaderFits(r) /\ r # w
    BY DEF Procs, IInv
  <2>2. pc'[r] = pc[r] /\ fd'[r] = fd[r]
    BY <2>1 DEF Typed
  <2>. QED BY <2>1, <2>2, OtherReaderFits DEF ReaderFits
<1>3. PathFits'
  <2>1. \A u \in Writers : u = w
    BY DEF SingleWriter
  <2>. QED BY <2>1 DEF PathFits, Whole, Decoded, Record, Versions
<1>4. SavedIsKept'
  BY DEF IInv, SavedIsKept, Decoded, Record, Versions
<1>. QED BY <1>1, <1>2, <1>3, <1>4 DEF IInv

LEMMA RenameInv ==
  ASSUME SingleWriter, IInv, NEW w \in Writers, Rename(w)
  PROVE  /\ IInv'
         /\ path' # None /\ Decoded(data[path])' = version[w]
         /\ path # None => Decoded(data[path]) < version[w]
<1>. w \in Procs /\ w \notin Readers /\ Typed /\ WriterFits(w) /\ PathFits
  BY StoreAssumption DEF Procs, IInv
<1>1. /\ pc[w] = "rename" /\ fd[w] = None /\ tmp \in Inodes /\ tmp # None
      /\ version[w] \in Versions /\ version[w] = saves /\ data[tmp] = Record(version[w])
  BY StoreAssumption DEF Rename, WriterFits, Saving
<1>2. /\ path' = tmp /\ tmp' = None /\ returned' = version[w]
      /\ pc' = [pc EXCEPT ![w] = "idle"]
      /\ UNCHANGED <<data, holders, fd, version, offset, got, saves>>
  BY <1>1 DEF Rename
<1>3. Whole(data[path])' /\ Decoded(data[path])' = version[w]
  <2>1. data'[path'] = Record(version[w])
    BY <1>1, <1>2
  <2>2. Whole(data'[path']) /\ Decoded(data'[path']) = version[w]
    BY <1>1, <2>1, DecodedRecord
  <2>. QED BY <2>2 DEF Whole, Decoded, Record, Versions
<1>4. Typed'
  BY <1>1, <1>2 DEF Typed, Versions, Block
<1>5. ASSUME NEW u \in Writers
      PROVE  WriterFits(u)' /\ pc'[u] = "idle"
  <2>1. u = w
    BY DEF SingleWriter
  <2>. QED BY <1>1, <1>2, <2>1 DEF WriterFits, Saving, Typed
<1>6. ASSUME NEW r \in Readers
      PROVE  ReaderFits(r)'
  <2>1. r \in Procs /\ ReaderFits(r) /\ r # w
    BY DEF Procs, IInv
  <2>2. pc'[r] = pc[r]
    BY <1>2, <2>1 DEF Typed
  <2>. QED BY <1>2, <2>1, <2>2, OtherReaderFits DEF ReaderFits
<1>7. PathFits' /\ SavedIsKept'
  BY <1>1, <1>2, <1>3, <1>5, StoreAssumption DEF PathFits, SavedIsKept, Saving, Versions
<1>8. path # None => Decoded(data[path]) < version[w]
  BY <1>1 DEF PathFits, Saving
<1>. QED BY <1>1, <1>2, <1>3, <1>4, <1>5, <1>6, <1>7, <1>8 DEF IInv

LEMMA WriterInv ==
  ASSUME SingleWriter, IInv, NEW w \in Writers,
         \/ OpenTmp(w) \/ LockExclusive(w) \/ WriteBlock(w)
         \/ CloseTmp(w) \/ Rename(w) \/ Stop(w)
  PROVE  IInv'
<1>. w \in Procs /\ Typed /\ WriterFits(w)
  BY DEF Procs, IInv
<1>1. CASE LockExclusive(w)
  <2>1. /\ pc[w] = "lock" /\ pc' = [pc EXCEPT ![w] = "write"] /\ fd[w] \in Inodes
        /\ fd' = fd /\ UNCHANGED <<path, tmp, data, version, offset, got, saves, returned>>
    BY <1>1 DEF LockExclusive, WriterFits, Saving
  <2>2. Typed'
    BY <1>1, <2>1 DEF LockExclusive, Typed, Versions, Block
  <2>3. Partial(version[w], 0) = <<>>
    BY DEF Partial
  <2>4. WriterFits(w)'
    <3>1. pc'[w] = "write" /\ fd'[w] = tmp' /\ tmp' \in Inodes
      BY <2>1 DEF Typed, WriterFits, Saving
    <3>2. /\ version[w] \in Versions /\ version[w] = saves
          /\ offset[w] = 0 /\ data[tmp] = <<>>
      BY <2>1 DEF WriterFits, Saving
    <3>3. Blocks[version[w]] \in Nat
      BY <3>2, RecordIsPartial
    <3>4. (offset[w] <= Blocks[version[w]] /\ data[tmp] = Partial(version[w], offset[w]))'
      BY <2>1, <2>3, <3>2, <3>3 DEF Partial
    <3>. QED BY <2>1, <3>1, <3>2, <3>4 DEF WriterFits, Saving, Versions
  <2>5. fd' = [fd EXCEPT ![w] = fd[w]]
    BY <2>1 DEF Typed
  <2>. QED BY <2>1, <2>2, <2>4, <2>5, WriterQuietInv DEF Saving
<1>2. CASE CloseTmp(w)
  <2>1. /\ pc[w] = "write" /\ offset[w] = Blocks[version[w]] /\ fd[w] \in Inodes
        /\ pc' = [pc EXCEPT ![w] = "rename"] /\ fd' = [fd EXCEPT ![w] = None]
        /\ UNCHANGED <<path, tmp, data, version, offset, got, saves, returned>>
    BY <1>2 DEF CloseTmp, WriterFits, Saving
  <2>2. Typed'
    BY <1>2, <2>1 DEF CloseTmp, Typed, Versions, Block
  <2>3. /\ version[w] \in Versions /\ version[w] = saves /\ tmp \in Inodes
        /\ data[tmp] = Record(version[w])
    BY <2>1, RecordIsPartial DEF WriterFits, Saving
  <2>4. WriterFits(w)'
    BY <2>1, <2>3 DEF WriterFits, Saving, Typed, Record, Versions
  <2>. QED BY <2>1, <2>2, <2>4, WriterQuietInv DEF Saving
<1>3. CASE Stop(w)
  <2>1. /\ pc' = [pc EXCEPT ![w] = "idle"] /\ fd' = [fd EXCEPT ![w] = None]
        /\ UNCHANGED <<path, tmp, data, version, offset, got, saves, returned>>
    BY <1>3 DEF Stop
  <2>2. Typed'
    BY <1>3, <2>1 DEF Stop, Typed, Versions, Block
  <2>3. WriterFits(w)' /\ pc'[w] \notin Saving
    BY <2>1 DEF WriterFits, Saving, Typed
  <2>. QED BY <2>1, <2>2, <2>3, WriterQuietInv
<1>. QED BY <1>1, <1>2, <1>3, OpenTmpInv, WriteBlockInv, RenameInv

LEMMA NextInv ==
  ASSUME SingleWriter, IInv, [Next]_vars
  PROVE  IInv'
<1>1. CASE UNCHANGED vars
  <2>1. /\ path' = path /\ tmp' = tmp /\ data' = data /\ holders' = holders
        /\ fd' = fd /\ pc' = pc /\ version' = version /\ offset' = offset
        /\ got' = got /\ saves' = saves /\ returned' = returned
    BY <1>1 DEF vars
  <2>2. Typed'
    BY <2>1 DEF IInv, Typed
  <2>3. ASSUME NEW w \in Writers
        PROVE  WriterFits(w)'
    BY <2>1, <2>3 DEF IInv, WriterFits
  <2>4. ASSUME NEW r \in Readers
        PROVE  ReaderFits(r)'
    BY <2>1, <2>4 DEF IInv, ReaderFits, Whole
  <2>5. PathFits' /\ SavedIsKept'
    BY <2>1 DEF IInv, PathFits, SavedIsKept, Whole, Decoded
  <2>. QED BY <2>2, <2>3, <2>4, <2>5 DEF IInv
<1>2. CASE Next
  BY <1>1, <1>2, WriterInv, ReaderInv DEF Next, FindNothing
<1>. QED BY <1>1, <1>2

THEOREM StoreInvariance ==
  ASSUME SingleWriter
  PROVE  Spec => []IInv
<1>1. Init => IInv
  BY InitInv
<1>2. IInv /\ [Next]_vars => IInv'
  BY NextInv
<1>. QED BY <1>1, <1>2, PTL DEF Spec

\* Who holds a lock has the file open.
HoldersHaveOpen == \A i \in Inodes : \A p \in holders[i] : fd[p] = i

LEMMA IdleHoldsNothing ==
  ASSUME IInv, HoldersHaveOpen, NEW p \in Procs, pc[p] = "idle", NEW i \in Inodes
  PROVE  fd[p] = None /\ p \notin holders[i]
<1>1. fd[p] = None
  BY DEF IInv, Procs, WriterFits, ReaderFits
<1>. QED BY <1>1, StoreAssumption DEF HoldersHaveOpen

LEMMA HoldersInv ==
  ASSUME IInv, HoldersHaveOpen, [Next]_vars
  PROVE  HoldersHaveOpen'
<1>. Typed /\ Writers \subseteq Procs /\ Readers \subseteq Procs
  BY DEF IInv, Procs
<1>1. CASE holders' = holders /\ fd' = fd
  BY <1>1 DEF HoldersHaveOpen
<1>2. ASSUME NEW p \in Procs, pc[p] = "idle", holders' = holders,
             \E i : fd' = [fd EXCEPT ![p] = i]
      PROVE  HoldersHaveOpen'
  <2>1. \A i \in Inodes : p \notin holders[i]
    BY <1>2, IdleHoldsNothing
  <2>2. \A q \in Procs \ {p} : fd'[q] = fd[q]
    BY <1>2 DEF Typed
  <2>. QED BY <1>2, <2>1, <2>2 DEF HoldersHaveOpen, Typed
<1>3. ASSUME NEW p \in Procs, fd[p] \in Inodes, fd' = fd,
             \A i \in Inodes \ {fd[p]} : holders'[i] = holders[i],
             holders'[fd[p]] \subseteq holders[fd[p]] \cup {p}
      PROVE  HoldersHaveOpen'
  BY <1>3 DEF HoldersHaveOpen
<1>4. ASSUME NEW p \in Procs, fd' = [fd EXCEPT ![p] = None],
             \A i \in Inodes : holders'[i] \subseteq holders[i] /\ (fd[p] = i => p \notin holders'[i])
      PROVE  HoldersHaveOpen'
  <2>1. \A q \in Procs \ {p} : fd'[q] = fd[q]
    BY <1>4 DEF Typed
  <2>. QED BY <1>4, <2>1 DEF HoldersHaveOpen, Typed
<1>5. ASSUME NEW w \in Writers,
             \/ OpenTmp(w) \/ LockExclusive(w) \/ WriteBlock(w)
             \/ CloseTmp(w) \/ Rename(w) \/ Stop(w)
      PROVE  HoldersHaveOpen'
  <2>1. pc[w] \in {"lock", "write"} => fd[w] \in Inodes
    BY DEF IInv, WriterFits, Saving
  <2>2. CASE OpenTmp(w)
    BY <1>2, <2>2 DEF OpenTmp
  <2>3. CASE LockExclusive(w)
    BY <1>3, <2>1, <2>3 DEF LockExclusive, Typed
  <2>4. CASE WriteBlock(w) \/ Rename(w)
    BY <1>1, <2>4 DEF WriteBlock, Rename
  <2>5. CASE CloseTmp(w)
    BY <1>4, <2>1, <2>5 DEF CloseTmp, Typed
  <2>6. CASE Stop(w)
    BY <1>4, <2>6 DEF Stop, Typed
  <2>. QED BY <1>5, <2>2, <2>3, <2>4, <2>5, <2>6
<1>6. ASSUME NEW r \in Readers,
             FindNothing(r) \/ OpenPath(r) \/ LockShared(r) \/ Read(r) \/ ClosePath(r)
      PROVE  HoldersHaveOpen'
  <2>1. pc[r] # "idle" => fd[r] \in Inodes
    BY DEF IInv, ReaderFits, Typed
  <2>2. CASE FindNothing(r) \/ Read(r)
    BY <1>1, <2>2 DEF FindNothing, Read, vars
  <2>3. CASE OpenPath(r)
    BY <1>2, <2>3 DEF OpenPath
  <2>4. CASE LockShared(r)
    BY <1>3, <2>1, <2>4 DEF LockShared, Typed
  <2>5. CASE ClosePath(r)
    BY <1>4, <2>1, <2>5 DEF ClosePath, Typed
  <2>. QED BY <1>6, <2>2, <2>3, <2>4, <2>5
<1>7. CASE UNCHANGED vars
  BY <1>1, <1>7 DEF vars
<1>. QED BY <1>5, <1>6, <1>7 DEF Next

\* The variables of the store's files keep their types, and no save or load
\* ends with a file open or a lock held, wherever it dies or raises.
THEOREM StoreTypeOK ==
  ASSUME SingleWriter
  PROVE  Spec => []TypeOK
<1>1. Init => HoldersHaveOpen
  BY DEF Init, HoldersHaveOpen
<1>2. IInv /\ HoldersHaveOpen => TypeOK
  <2>. SUFFICES ASSUME IInv, HoldersHaveOpen PROVE TypeOK
    OBVIOUS
  <2>1. ASSUME NEW p \in Procs, pc[p] = "idle"
        PROVE  fd[p] = None /\ \A i \in Inodes : p \notin holders[i]
    <3>1. fd[p] = None
      BY <2>1 DEF IInv, Procs, WriterFits, ReaderFits
    <3>. QED BY <2>1, <3>1, IdleHoldsNothing
  <2>. QED BY <2>1 DEF IInv, TypeOK, NothingLeftOpen
<1>3. IInv /\ HoldersHaveOpen /\ [Next]_vars => HoldersHaveOpen'
  BY HoldersInv
<1>. QED BY <1>1, <1>2, <1>3, StoreInvariance, PTL DEF Spec

\* While one process saves the job, its file is a whole record whenever it
\* exists, however many processes load it and wherever the saving one dies.
THEOREM StoreReadable ==
  ASSUME SingleWriter
  PROVE  Spec => []StoredIsReadable
<1>1. IInv => StoredIsReadable
  BY DEF IInv, PathFits, StoredIsReadable
<1>. QED BY <1>1, StoreInvariance, PTL

\* While one process saves the job, a save that has returned is not lost to a
\* later one that dies.
THEOREM StoreKept ==
  ASSUME SingleWriter
  PROVE  Spec => []SavedIsKept
<1>1. IInv => SavedIsKept
  BY DEF IInv
<1>. QED BY <1>1, StoreInvariance, PTL

-----------------------------------------------------------------------------
(* The refinement *)

\* What a reader will return is what the inode it has open holds.
LEMMA ViewIs ==
  ASSUME NEW r \in Readers, ReaderFits(r)
  PROVE  ViewOf(r) = IF fd[r] = None THEN 0 ELSE Decoded(data[fd[r]])
  BY DEF ReaderFits, ViewOf

LEMMA ViewIsNext ==
  ASSUME NEW r \in Readers, ReaderFits(r)'
  PROVE  ViewOf(r)' = IF fd'[r] = None THEN 0 ELSE Decoded(data'[fd'[r]])
<1>1. (pc[r] = "close" => got[r] = data[fd[r]])'
  BY DEF ReaderFits
<1>2. CASE fd'[r] = None
  BY <1>2 DEF ViewOf
<1>3. CASE fd'[r] # None /\ pc'[r] = "close"
  <2>1. ViewOf(r)' = Decoded(got[r])'
    BY <1>3 DEF ViewOf
  <2>2. got'[r] = data'[fd'[r]]
    BY <1>1, <1>3
  <2>. QED BY <1>3, <2>1, <2>2 DEF Decoded, Record, Versions
<1>4. CASE fd'[r] # None /\ pc'[r] # "close"
  <2>1. ViewOf(r)' = Decoded(data[fd[r]])'
    BY <1>4 DEF ViewOf
  <2>. QED BY <1>4, <2>1 DEF Decoded, Record, Versions
<1>. QED BY <1>2, <1>3, <1>4

LEMMA StoredIsNext ==
  StoredVersion' = IF path' = None THEN 0 ELSE Decoded(data'[path'])
  BY DEF StoredVersion, Decoded, Record, Versions

\* Only Rename changes what is stored, and what a reader sees it sees until
\* it closes the file.
LEMMA FilesKept ==
  ASSUME SingleWriter, IInv, NEW w \in Writers,
         \/ OpenTmp(w) \/ LockExclusive(w) \/ WriteBlock(w)
         \/ CloseTmp(w) \/ Rename(w) \/ Stop(w)
  PROVE  /\ ~Rename(w) => path' = path /\ (path # None => data'[path] = data[path])
         /\ \A r \in Readers :
              fd'[r] = fd[r] /\ (fd[r] # None => data'[fd[r]] = data[fd[r]])
<1>. w \in Procs /\ w \notin Readers /\ Readers \subseteq Procs /\ Typed /\ PathFits
     /\ WriterFits(w) /\ \A r \in Readers : ReaderFits(r)
  BY StoreAssumption DEF Procs, IInv
<1>1. CASE OpenTmp(w)
  <2>1. PICK i \in Inodes : TmpInode(i) /\ data' = [data EXCEPT ![i] = <<>>]
                            /\ fd' = [fd EXCEPT ![w] = i]
    BY <1>1 DEF OpenTmp, Emptied
  <2>2. path # i /\ \A r \in Readers : fd[r] # i
    BY <2>1 DEF TmpInode, Unused, PathFits, ReaderFits
  <2>. QED BY <1>1, <2>1, <2>2 DEF OpenTmp, Typed
<1>2. CASE WriteBlock(w)
  <2>1. fd[w] = tmp /\ (path # None => path # tmp)
    BY <1>2 DEF WriteBlock, WriterFits, PathFits
  <2>2. fd[w] = tmp /\ \A r \in Readers : fd[r] # None => fd[r] # tmp
    BY <1>2 DEF WriteBlock, WriterFits, ReaderFits
  <2>. QED BY <1>2, <2>1, <2>2 DEF WriteBlock, Typed
<1>3. CASE LockExclusive(w) \/ CloseTmp(w) \/ Rename(w) \/ Stop(w)
  BY <1>3 DEF LockExclusive, CloseTmp, Rename, Stop, Typed
<1>. QED BY <1>1, <1>2, <1>3

LEMMA WriterImplements ==
  ASSUME SingleWriter, IInv, IInv', NEW w \in Writers,
         \/ OpenTmp(w) \/ LockExclusive(w) \/ WriteBlock(w)
         \/ CloseTmp(w) \/ Rename(w) \/ Stop(w)
  PROVE  Atomic!Put \/ UNCHANGED <<StoredVersion, Views>>
<1>1. UNCHANGED Views
  <2>1. \A r \in Readers : ViewOf(r)' = ViewOf(r)
    BY FilesKept, ViewIs, ViewIsNext DEF IInv
  <2>. QED BY <2>1 DEF Views
<1>2. CASE ~Rename(w)
  <2>1. UNCHANGED StoredVersion
    BY <1>2, FilesKept, StoredIsNext DEF StoredVersion
  <2>. QED BY <1>1, <2>1
<1>3. CASE Rename(w)
  <2>1. path' # None /\ Decoded(data[path])' = version[w]
        /\ (path # None => Decoded(data[path]) < version[w])
    BY <1>3, RenameInv
  <2>2. version[w] \in Versions
    BY <1>3 DEF Rename, IInv, WriterFits, Saving
  <2>3. StoredVersion' = version[w]
    BY <2>1 DEF StoredVersion
  <2>4. version[w] > StoredVersion
    BY <2>1, <2>2, DecodedWhole DEF StoredVersion, IInv, PathFits, Versions
  <2>. QED BY <1>1, <2>2, <2>3, <2>4 DEF Atomic!Put
<1>. QED BY <1>2, <1>3

LEMMA ReaderImplements ==
  ASSUME IInv, IInv', NEW r \in Readers,
         OpenPath(r) \/ LockShared(r) \/ Read(r) \/ ClosePath(r)
  PROVE  Atomic!Look(r) \/ Atomic!Return(r) \/ UNCHANGED <<StoredVersion, Views>>
<1>. r \in Procs /\ Typed /\ \A q \in Readers : ReaderFits(q) /\ ReaderFits(q)' /\ q \in Procs
  BY DEF Procs, IInv
<1>1. UNCHANGED <<path, data>> /\ \E i : fd' = [fd EXCEPT ![r] = i]
  BY DEF OpenPath, LockShared, Read, ClosePath, Typed
<1>2. UNCHANGED StoredVersion
  BY <1>1, StoredIsNext DEF StoredVersion
<1>3. \A q \in Readers : q # r => ViewOf(q)' = ViewOf(q)
  <2>. SUFFICES ASSUME NEW q \in Readers, q # r
                PROVE  ViewOf(q)' = ViewOf(q)
    OBVIOUS
  <2>1. fd'[q] = fd[q]
    BY <1>1 DEF Typed
  <2>. QED BY <1>1, <2>1, ViewIs, ViewIsNext
<1>4. Views' = [Views EXCEPT ![r] = ViewOf(r)']
  BY <1>3 DEF Views
<1>5. Views[r] = ViewOf(r)
  BY DEF Views
<1>6. CASE OpenPath(r)
  <2>1. path # None /\ fd[r] = None /\ fd'[r] = path
    BY <1>6 DEF OpenPath, ReaderFits, Typed
  <2>2. ViewOf(r) = 0 /\ ViewOf(r)' = StoredVersion
    BY <1>1, <2>1, ViewIs, ViewIsNext DEF StoredVersion
  <2>3. StoredVersion # 0
    BY <2>1, DecodedWhole DEF StoredVersion, IInv, PathFits, Versions
  <2>. QED BY <1>2, <1>4, <1>5, <2>2, <2>3 DEF Atomic!Look
<1>7. CASE ClosePath(r)
  <2>1. fd[r] # None /\ fd'[r] = None
    BY <1>7 DEF ClosePath, ReaderFits, Typed
  <2>2. ViewOf(r) # 0
    BY <2>1, ViewIs, DecodedWhole DEF ReaderFits, Versions
  <2>3. ViewOf(r)' = 0
    BY <2>1, ViewIsNext
  <2>. QED BY <1>2, <1>4, <1>5, <2>2, <2>3 DEF Atomic!Return
<1>8. CASE LockShared(r) \/ Read(r)
  <2>1. fd' = fd
    BY <1>8 DEF LockShared, Read
  <2>2. ViewOf(r)' = ViewOf(r)
    BY <1>1, <2>1, ViewIs, ViewIsNext
  <2>3. UNCHANGED Views
    BY <1>3, <2>2 DEF Views
  <2>. QED BY <1>2, <2>3
<1>. QED BY <1>6, <1>7, <1>8

\* Save and load are atomic while one process saves the job: a load returns
\* the record of one instant and a save that dies leaves the old one.
THEOREM StoreIsAtomic ==
  ASSUME SingleWriter
  PROVE  Spec => ImplementsAtomicStore
<1>1. Init => Atomic!Init
  <2>. SUFFICES ASSUME Init
                PROVE  Atomic!Init
    OBVIOUS
  <2>1. \A r \in Readers : ViewOf(r) = 0
    BY DEF Init, ViewOf, Procs
  <2>. QED BY <2>1 DEF Init, Atomic!Init, StoredVersion, Views
<1>2. IInv /\ IInv' /\ [Next]_vars => [Atomic!Next]_(Atomic!vars)
  <2>. SUFFICES ASSUME IInv, IInv', [Next]_vars
                PROVE  Atomic!Next \/ UNCHANGED <<StoredVersion, Views>>
    BY DEF Atomic!vars
  <2>1. CASE UNCHANGED vars
    <3>1. \A r \in Readers : ViewOf(r)' = ViewOf(r)
      BY <2>1 DEF vars, ViewOf, Decoded, Record, Versions
    <3>. QED BY <2>1, <3>1 DEF vars, Views, StoredVersion, Decoded, Record, Versions
  <2>2. ASSUME NEW w \in Writers,
               \/ OpenTmp(w) \/ LockExclusive(w) \/ WriteBlock(w)
               \/ CloseTmp(w) \/ Rename(w) \/ Stop(w)
        PROVE  Atomic!Put \/ UNCHANGED <<StoredVersion, Views>>
    BY <2>2, WriterImplements
  <2>3. ASSUME NEW r \in Readers,
               OpenPath(r) \/ LockShared(r) \/ Read(r) \/ ClosePath(r)
        PROVE  Atomic!Look(r) \/ Atomic!Return(r) \/ UNCHANGED <<StoredVersion, Views>>
    BY <2>3, ReaderImplements
  <2>. QED BY <2>1, <2>2, <2>3 DEF Next, FindNothing, Atomic!Next
<1>. QED BY <1>1, <1>2, StoreInvariance, PTL DEF Spec, ImplementsAtomicStore, Atomic!Spec
=============================================================================
