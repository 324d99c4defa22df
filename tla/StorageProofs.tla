---------------------------- MODULE StorageProofs ----------------------------
(***************************************************************************)
(* What the hub keeps on disk.  The cache: its index on disk against the   *)
(* index in memory, and the room it takes after a gc, for any keys, runs,  *)
(* limits and clock readings; the index is proved together with the facts  *)
(* that make it inductive (the clock is never zero, and no timestamp or    *)
(* save lies in the future).  The uploads: what a row says of its file,    *)
(* for any labels, clients, blocks and downloads, over either store.       *)
(***************************************************************************)
EXTENDS CacheManager, Uploads, FiniteSetTheorems, SequenceTheorems, TLAPS

-----------------------------------------------------------------------------
(* The cache                                                               *)

\* The part of the type invariant that the index needs.
IndexTypes ==
  /\ mem \in [Keys -> Nat] /\ disk \in [Keys -> Nat]
  /\ lastSave \in Nat
  /\ now \in Nat /\ now > 0
  /\ loop \in {"free", "saving"}
  /\ job \in [Runs -> Keys \cup {NoKey}]
  /\ pc \in [Runs -> Control]

\* A run that looks or indexes has a key.
BusyHasKey == \A r \in Runs : pc[r] # "idle" => job[r] \in Keys

\* No time stamp lies in the future, and an entry's saved stamp never passes the
\* one in memory. While a prune is half done the index on disk still has the
\* entries it dropped, so the order is stated for those in memory only.
StampsInOrder ==
  /\ lastSave <= now
  /\ \A k \in Keys : /\ mem[k] <= now /\ disk[k] <= now
                     /\ mem[k] > 0 => /\ 0 < disk[k] /\ disk[k] <= mem[k]
                                      /\ disk[k] < mem[k] => mem[k] <= lastSave + Interval

IndexInv == IndexTypes /\ BusyHasKey /\ StampsInOrder /\ IndexPersisted

LEMMA InitIndexInv == Init => IndexInv
BY ConstantsAssumption
   DEF Init, IndexInv, IndexTypes, BusyHasKey, StampsInOrder, IndexPersisted, Present, Control

\* A step of a run keeps the index: only a hit and an insertion write to it.
LEMMA RunKeepsIndex ==
  ASSUME IndexInv, NEW r \in Runs, Run(r)
  PROVE  IndexInv'
<1> USE ConstantsAssumption
    DEF IndexInv, IndexTypes, BusyHasKey, StampsInOrder, IndexPersisted, Present, Control,
        Putting, index
<1>1. ASSUME NEW k \in Keys, Submit(r, k) PROVE IndexInv'
  BY <1>1 DEF Submit, Move
<1>2. CASE Miss(r)
  BY <1>2 DEF Miss, Move
<1>3. CASE Hit(r)
  <2>1. job[r] \in Keys /\ mem[job[r]] > 0 /\ loop = "free" /\ pc[r] = "looking"
    BY <1>3 DEF Hit, Leave, Move, Servable
  <2>2. mem' = [mem EXCEPT ![job[r]] = now] /\ loop' = loop /\ now' = now
    BY <1>3 DEF Hit
  <2>3. CASE now - lastSave > Interval
    <3>1. disk' = mem' /\ lastSave' = now
      BY <1>3, <2>3 DEF Hit, Persist
    <3> QED BY <1>3, <2>1, <2>2, <3>1 DEF Hit, Leave, Move
  <2>4. CASE ~(now - lastSave > Interval)
    <3>1. disk' = disk /\ lastSave' = lastSave
      BY <1>3, <2>4 DEF Hit, Persist
    <3> QED BY <1>3, <2>1, <2>2, <2>4, <3>1 DEF Hit, Leave, Move
  <2> QED BY <2>3, <2>4
<1>4. CASE NoOutput(r)
  BY <1>4 DEF NoOutput, Leave, Move
<1>5. CASE StartCopy(r)
  BY <1>5 DEF StartCopy, Move
<1>6. CASE EndCopy(r)
  <2>1. UNCHANGED <<mem, disk, lastSave, loop, now>>
    BY <1>6 DEF EndCopy
  <2>2. \/ Leave(r, "copying")
        \/ Move(r, "copying", "indexing") /\ job' = job
    BY <1>6 DEF EndCopy
  <2> QED BY <2>1, <2>2 DEF Leave, Move
<1>7. CASE Index(r)
  <2>1. job[r] \in Keys /\ pc[r] = "indexing"
    BY <1>7 DEF Index, Leave, Move
  <2> QED BY <1>7, <2>1 DEF Index, Leave, Move
<1> QED BY <1>1, <1>2, <1>3, <1>4, <1>5, <1>6, <1>7 DEF Run

\* Dropping entries and unlinking files leaves the runs where they are.
LEMMA DropKeepsIndex ==
  ASSUME IndexInv, NEW ks, Drop(ks), loop = "free",
         UNCHANGED <<disk, lastSave, now, pc, job>>,
         loop' = "saving" \/ (loop' = "free" /\ mem' = mem)
  PROVE  IndexInv'
BY DEF IndexInv, IndexTypes, BusyHasKey, StampsInOrder, IndexPersisted, Present, Drop

LEMMA GcKeepsIndex ==
  ASSUME IndexInv, NEW age, NEW cap, Gc(age, cap)
  PROVE  IndexInv'
<1>1. PICK ks : Drop(ks) /\ loop' = IF Swept(ks) = {} THEN "free" ELSE "saving"
  BY DEF Gc
<1>2. Swept(ks) = {} => mem' = mem
  <2>1. Swept(ks) = {} => ks = {}
    BY DEF Swept, PathsOf
  <2> QED BY <1>1, <2>1 DEF Drop, IndexInv, IndexTypes
<1>3. UNCHANGED <<disk, lastSave, now, pc, job>> /\ loop = "free"
  BY DEF Gc
<1> QED BY <1>1, <1>2, <1>3, DropKeepsIndex

LEMMA PruneKeepsIndex ==
  ASSUME IndexInv, Prune
  PROVE  IndexInv'
<1>1. CASE SaveIndex
  BY <1>1 DEF SaveIndex, runs, IndexInv, IndexTypes, BusyHasKey, StampsInOrder,
              IndexPersisted, Present
<1>2. CASE Validate
  BY <1>2 DEF Validate, runs, Drop, IndexInv, IndexTypes, BusyHasKey, StampsInOrder,
              IndexPersisted, Present
<1>3. ASSUME NEW m \in Models, RemoveModel(m)
      PROVE  IndexInv'
  BY <1>3, DropKeepsIndex DEF RemoveModel
<1> QED BY <1>1, <1>2, <1>3 DEF Prune

LEMMA NextKeepsIndex == IndexInv /\ [Next]_vars => IndexInv'
<1> SUFFICES ASSUME IndexInv, [Next]_vars PROVE IndexInv'
  OBVIOUS
<1>1. CASE UNCHANGED vars
  BY <1>1 DEF vars, index, runs, IndexInv, IndexTypes, BusyHasKey, StampsInOrder,
              IndexPersisted, Present
<1>2. CASE Tick
  BY <1>2 DEF Tick, index, runs, IndexInv, IndexTypes, BusyHasKey, StampsInOrder,
              IndexPersisted, Present
<1>3. CASE Restart
  BY <1>3 DEF Restart, IndexInv, IndexTypes, BusyHasKey, StampsInOrder, IndexPersisted,
              Present, Control
<1> QED BY <1>1, <1>2, <1>3, RunKeepsIndex, PruneKeepsIndex, GcKeepsIndex DEF Next

LEMMA IndexInvariant == Spec => []IndexInv
BY InitIndexInv, NextKeepsIndex, PTL DEF Spec

\* Whenever no prune is half done, index.json names exactly the entries of the
\* running process.
THEOREM IndexAlwaysPersisted == Spec => []IndexPersisted
<1>1. IndexInv => IndexPersisted
  BY DEF IndexInv
<1> QED BY <1>1, IndexInvariant, PTL

\* A hit that a crash would forget came within the throttle interval of a save.
THEOREM RecencyAlwaysPersisted == Spec => []RecencyPersisted
<1>1. IndexInv => RecencyPersisted
  BY DEF IndexInv, IndexTypes, StampsInOrder, IndexPersisted, RecencyPersisted, Present
<1> QED BY <1>1, IndexInvariant, PTL

----------------------------------------------------------------------------
(* Types *)

\* What is on disk and who wrote it; the clock stays within its bound.
FileTypes ==
  /\ now \in Time
  /\ limit \in Caps \cup {0} /\ begun \subseteq Paths
  /\ files \in [Paths -> {"none", "partial"} \cup Vers]
  /\ torn \subseteq Runs

LEMMA UnlinkTypes ==
  ASSUME FileTypes, NEW ps, Unlink(ps), now' = now,
         limit' \in Caps \cup {0}, begun' \subseteq Paths
  PROVE  FileTypes'
BY DEF FileTypes, Unlink, Writers

LEMMA RunKeepsFiles ==
  ASSUME IndexInv, FileTypes, NEW r \in Runs, Run(r)
  PROVE  FileTypes'
<1>1. pc[r] # "idle" => job[r] \in Keys /\ Path(job[r]) \in Paths /\ job[r].ver \in Vers
  BY DEF IndexInv, BusyHasKey, Paths, Vers
<1>2. CASE StartCopy(r)
  <2>1. pc[r] = "converting" /\ now' = now
    BY <1>2 DEF StartCopy, Move
  <2>2. torn' \subseteq Runs
    BY <1>2 DEF StartCopy, Writers, FileTypes
  <2> QED BY <1>1, <1>2, <2>1, <2>2 DEF StartCopy, FileTypes
<1>3. CASE EndCopy(r)
  <2> DEFINE p == Path(job[r])
  <2>1. pc[r] = "copying" /\ now' = now /\ torn' = torn \ {r} /\ UNCHANGED <<limit, begun>>
    BY <1>3 DEF EndCopy, since
  <2>2. PICK content \in {"none", "partial", files[p], job[r].ver} :
          files' = [files EXCEPT ![p] = content]
    BY <1>3 DEF EndCopy
  <2>3. content \in {"none", "partial"} \cup Vers
    BY <1>1, <2>1 DEF FileTypes
  <2> QED BY <1>1, <2>1, <2>2, <2>3 DEF FileTypes
<1>4. CASE UNCHANGED <<files, torn, now, since>>
  BY <1>4 DEF FileTypes, since
<1> QED BY <1>2, <1>3, <1>4 DEF Run, Submit, Miss, Hit, NoOutput, Index

LEMMA NextKeepsFiles == IndexInv /\ FileTypes /\ [Next]_vars => FileTypes'
<1> SUFFICES ASSUME IndexInv, FileTypes, [Next]_vars PROVE FileTypes'
  OBVIOUS
<1>1. CASE UNCHANGED vars
  BY <1>1 DEF vars, runs, since, FileTypes
<1>2. CASE Tick
  BY <1>2, ConstantsAssumption DEF Tick, runs, since, FileTypes, Time
<1>3. CASE Restart
  BY <1>3 DEF Restart, since, FileTypes
<1>4. CASE SaveIndex \/ Validate
  BY <1>4 DEF SaveIndex, Validate, runs, since, FileTypes
<1>5. ASSUME NEW m \in Models, RemoveModel(m)
      PROVE  FileTypes'
  BY <1>5, UnlinkTypes DEF RemoveModel, since, FileTypes
<1>6. ASSUME NEW age, NEW cap \in Caps, Gc(age, cap)
      PROVE  FileTypes'
  <2>1. limit' \in Caps \cup {0} /\ begun' \subseteq Paths
    BY <1>6 DEF Gc, since, FileTypes
  <2> QED BY <1>6, <2>1, UnlinkTypes DEF Gc
<1> QED BY <1>1, <1>2, <1>3, <1>4, <1>5, <1>6, RunKeepsFiles DEF Next, Prune

LEMMA FilesInvariant == Spec => [](IndexInv /\ FileTypes)
<1>1. Init => FileTypes
  BY ConstantsAssumption DEF Init, FileTypes, Time
<1> QED BY <1>1, IndexInvariant, NextKeepsFiles, PTL DEF Spec

\* Every variable keeps its type: in particular no file is ever the output of a
\* version nobody quantized, and no stamp leaves the clock's range.
THEOREM TypeCorrect == Spec => []TypeOK
<1>1. IndexInv /\ FileTypes => TypeOK
  <2> SUFFICES ASSUME IndexInv, FileTypes PROVE TypeOK
    OBVIOUS
  <2>1. \A x \in Nat : x <= now => x \in Time
    BY ConstantsAssumption DEF FileTypes, Time
  <2> QED BY <2>1 DEF IndexInv, IndexTypes, StampsInOrder, FileTypes, TypeOK
<1> QED BY <1>1, FilesInvariant, PTL

----------------------------------------------------------------------------
(* The room the cache takes *)

\* Sharing only helps: a set of entries has at least as many members as it has
\* files.
LEMMA FewerPaths ==
  ASSUME NEW ks, IsFiniteSet(ks)
  PROVE  IsFiniteSet(PathsOf(ks)) /\ Cardinality(PathsOf(ks)) <= Cardinality(ks)
<1> DEFINE path == [k \in ks |-> Path(k)]
<1>1. path \in Surjection(ks, PathsOf(ks))
  BY DEF Surjection, PathsOf
<1> HIDE DEF path
<1> QED BY <1>1, FS_Surjection

\* What the entries ks \ E still name is no more than gc counts, even though gc
\* counts a shared file once for each entry and subtracts it once.
LEMMA CountedIsEnough ==
  ASSUME NEW ks, IsFiniteSet(ks), NEW E \in SUBSET ks, NEW stored
  PROVE  LET left == (PathsOf(ks \ E) \cap stored) \ PathsOf(E)
         IN  IsFiniteSet(left) /\ Cardinality(left) <= Counted(ks, E, stored)
<1> DEFINE left == (PathsOf(ks \ E) \cap stored) \ PathsOf(E)
           gone == PathsOf(E) \cap stored
           named == {k \in ks : Path(k) \in stored}
<1>1. IsFiniteSet(named) /\ PathsOf(named) = left \cup gone /\ left \cap gone = {}
  <2>1. IsFiniteSet(named)
    BY FS_Subset
  <2> QED BY <2>1 DEF PathsOf
<1>2. /\ IsFiniteSet(PathsOf(named))
      /\ Cardinality(PathsOf(named)) <= Cardinality(named)
  BY <1>1, FewerPaths
<1>3. IsFiniteSet(left) /\ IsFiniteSet(gone)
  BY <1>1, <1>2, FS_Subset
<1>4. Cardinality(PathsOf(named)) = Cardinality(left) + Cardinality(gone)
  <2>1. Cardinality(left \cup gone) =
          Cardinality(left) + Cardinality(gone) - Cardinality(left \cap gone)
    BY <1>3, FS_Union
  <2>2. Cardinality(left \cap gone) = 0
    BY <1>1, FS_EmptySet
  <2>3. Cardinality(left) \in Nat /\ Cardinality(gone) \in Nat
    BY <1>3, FS_CardinalityType
  <2> HIDE DEF left, gone, named
  <2> QED BY <1>1, <2>1, <2>2, <2>3
<1>5. /\ Cardinality(left) \in Nat /\ Cardinality(gone) \in Nat
      /\ Cardinality(named) \in Nat
  BY <1>1, <1>3, FS_CardinalityType
<1>6. Counted(ks, E, stored) = Cardinality(named) - Cardinality(gone)
  BY DEF Counted
<1> HIDE DEF left, gone, named
<1>7. Cardinality(left) <= Counted(ks, E, stored)
  BY <1>2, <1>4, <1>5, <1>6
<1> QED BY <1>3, <1>7 DEF left

\* A gc with a size limit keeps no more files than that, those of the puts under
\* way included.
LEMMA GcKeepsWithinCap ==
  ASSUME NEW age, NEW cap \in Caps \ {0}, NEW ks \in Victims(age, cap)
  PROVE  Cardinality({p \in Paths : files[p] # "none"} \ Swept(ks)) <= cap
<1> DEFINE aged == Aged(age)
           rest == {k \in Keys : Present(k)} \ aged
           ondisk == {p \in Paths : files[p] # "none"}
           stored == ondisk \ PathsOf(aged)
           kept == ondisk \ Swept(ks)
<1>0. cap \in Nat
  BY ConstantsAssumption
<1>1. PICK E \in SUBSET rest : ks = aged \cup E /\ Evicted(cap, rest, E, stored)
  BY DEF Victims
<1>2. kept \subseteq (PathsOf(rest \ E) \cap stored) \ PathsOf(E)
  <2>1. PathsOf(ks) = PathsOf(aged) \cup PathsOf(E)
    BY <1>1 DEF PathsOf
  <2>2. {k \in Keys : Present(k)} \ ks = rest \ E
    BY <1>1
  <2>3. kept \subseteq PathsOf(rest \ E) /\ kept \cap PathsOf(ks) = {}
    BY <2>2 DEF Swept, Orphans
  <2> QED BY <2>1, <2>3
<1>3. IsFiniteSet(rest)
  BY ConstantsAssumption, FS_Subset
<1>4. CASE E = rest
  <2>1. kept = {}
    BY <1>2, <1>4 DEF PathsOf
  <2> QED BY <1>0, <2>1, FS_EmptySet
<1>5. CASE Counted(rest, E, stored) <= cap
  <2> DEFINE left == (PathsOf(rest \ E) \cap stored) \ PathsOf(E)
  <2> HIDE DEF rest, stored, kept
  <2>1. IsFiniteSet(left) /\ Cardinality(left) <= Counted(rest, E, stored)
    BY <1>3, CountedIsEnough
  <2>2. IsFiniteSet(kept) /\ Cardinality(kept) <= Cardinality(left)
    BY <1>2, <2>1, FS_Subset
  <2>3. Counted(rest, E, stored) \in Int
    <3>1. IsFiniteSet({k \in rest : Path(k) \in stored}) /\ IsFiniteSet(PathsOf(E))
      <4>1. IsFiniteSet(E)
        BY <1>3, FS_Subset
      <4> QED BY <1>3, <4>1, FS_Subset, FewerPaths
    <3>2. IsFiniteSet(PathsOf(E) \cap stored)
      BY <3>1, FS_Subset
    <3> QED BY <3>1, <3>2, FS_CardinalityType DEF Counted
  <2>4. Cardinality(left) \in Nat /\ Cardinality(kept) \in Nat
    BY <2>1, <2>2, FS_CardinalityType
  <2>5. Cardinality(kept) <= cap
    BY <1>0, <1>5, <2>1, <2>2, <2>3, <2>4
  <2> QED BY <2>5 DEF kept
<1> QED BY <1>1, <1>4, <1>5 DEF Evicted

\* The files that count against the limit of the last gc.
Old == {p \in Paths : files[p] # "none"} \ begun

\* The file of an undisturbed copy exists, so that its end makes none appear.
CopyWhole ==
  \A r \in Runs : pc[r] = "copying" /\ r \notin torn => files[Path(job[r])] # "none"

LEMMA FinitePaths == IsFiniteSet(Paths)
<1>1. PathsOf(Keys) = Paths
  BY DEF PathsOf, Paths
<1> QED BY <1>1, ConstantsAssumption, FewerPaths

LEMMA UnlinkKeepsCopies ==
  ASSUME IndexInv, FileTypes, CopyWhole, NEW ps, Unlink(ps), UNCHANGED <<pc, job>>
  PROVE  CopyWhole' /\ {p \in Paths : files'[p] # "none"} = {p \in Paths : files[p] # "none"} \ ps
<1>1. \A r \in Runs : pc[r] = "copying" => Path(job[r]) \in Paths
  BY DEF IndexInv, BusyHasKey, Paths
<1> QED BY <1>1 DEF Unlink, Writers, CopyWhole, FileTypes

\* A step of a run makes no file appear but the one whose copy it begins.
LEMMA RunKeepsOld ==
  ASSUME IndexInv, FileTypes, CopyWhole, NEW r \in Runs, Run(r)
  PROVE  CopyWhole' /\ limit' = limit /\ Old' \subseteq Old
<1>0. \A s \in Runs : pc[s] # "idle" => /\ job[s] \in Keys /\ Path(job[s]) \in Paths
                                        /\ job[s].ver \notin {"none", "partial"}
  BY ConstantsAssumption DEF IndexInv, BusyHasKey, Paths
<1>1. pc \in [Runs -> Control] /\ job \in [Runs -> Keys \cup {NoKey}]
  BY DEF IndexInv, IndexTypes
<1>2. CASE StartCopy(r)
  <2>1. /\ pc[r] = "converting" /\ pc' = [pc EXCEPT ![r] = "copying"] /\ job' = job
        /\ files' = [files EXCEPT ![Path(job[r])] = "partial"]
        /\ torn \subseteq torn'
        /\ begun' = begun \cup {Path(job[r])} /\ limit' = limit
    BY <1>2 DEF StartCopy, Move
  <2>2. Old' \subseteq Old
    BY <1>0, <2>1 DEF Old, FileTypes
  <2>3. CopyWhole'
    BY <1>0, <1>1, <2>1 DEF CopyWhole, FileTypes
  <2> QED BY <2>1, <2>2, <2>3
<1>3. CASE EndCopy(r)
  <2> DEFINE p == Path(job[r])
  <2>1. /\ pc[r] = "copying" /\ torn' = torn \ {r}
        /\ UNCHANGED <<limit, begun>>
    BY <1>3 DEF EndCopy, since
  <2>2. PICK content \in IF r \notin torn           THEN {job[r].ver}
                         ELSE IF files[p] = "none" THEN {"none"}
                         ELSE {files[p], "partial", job[r].ver} :
          files' = [files EXCEPT ![p] = content]
    BY <1>3 DEF EndCopy
  <2>3. content = "none" <=> files[p] = "none"
    BY <1>0, <2>1, <2>2 DEF CopyWhole
  <2>4. /\ \A s \in Runs \ {r} : pc'[s] = pc[s] /\ job'[s] = job[s]
        /\ pc'[r] \in {"idle", "indexing"}
    BY <1>1, <1>3 DEF EndCopy, Leave, Move
  <2>5. \A q \in Paths : files'[q] = "none" <=> files[q] = "none"
    BY <1>0, <2>1, <2>2, <2>3 DEF FileTypes
  <2> QED BY <1>0, <2>1, <2>4, <2>5 DEF Old, CopyWhole
<1>4. CASE Submit(r, job'[r]) \/ Miss(r) \/ Hit(r) \/ NoOutput(r) \/ Index(r)
  <2>1. UNCHANGED <<files, torn, limit, begun>>
    BY <1>4 DEF Submit, Miss, Hit, NoOutput, Index, since
  <2>2. /\ \A s \in Runs \ {r} : pc'[s] = pc[s] /\ job'[s] = job[s]
        /\ pc'[r] \in Control \ {"copying"}
    BY <1>1, <1>4 DEF Submit, Miss, Hit, NoOutput, Index, Leave, Move, Control, Putting
  <2> QED BY <2>1, <2>2 DEF Old, CopyWhole
<1>5. ASSUME NEW k \in Keys, Submit(r, k)
      PROVE  Submit(r, job'[r])
  BY <1>1, <1>5 DEF Submit, Move
<1> QED BY <1>2, <1>3, <1>4, <1>5 DEF Run

LEMMA FewerIsSmaller ==
  ASSUME NEW A, NEW B, B \subseteq Paths, A \subseteq B, NEW n \in Nat, Cardinality(B) <= n
  PROVE  Cardinality(A) <= n
<1>1. IsFiniteSet(B)
  BY FinitePaths, FS_Subset
<1>2. /\ Cardinality(A) <= Cardinality(B)
      /\ Cardinality(A) \in Nat /\ Cardinality(B) \in Nat
  BY <1>1, FS_Subset, FS_CardinalityType
<1> QED BY <1>2

BudgetInv == CopyWhole /\ DiskWithinBudget

LEMMA GcKeepsBudget ==
  ASSUME IndexInv, FileTypes, BudgetInv, NEW age \in {0, MaxAge}, NEW cap \in Caps, Gc(age, cap)
  PROVE  BudgetInv'
<1>1. PICK ks \in Victims(age, cap) : Unlink(Swept(ks))
  BY DEF Gc
<1>2. UNCHANGED <<pc, job>>
  BY DEF Gc
<1>3. /\ CopyWhole'
      /\ {p \in Paths : files'[p] # "none"} = {p \in Paths : files[p] # "none"} \ Swept(ks)
  BY <1>1, <1>2, UnlinkKeepsCopies DEF BudgetInv
<1>4. CASE cap = 0
  <2>1. limit' = limit /\ begun' = begun
    BY <1>4 DEF Gc, since
  <2>2. Old' \subseteq Old /\ Old \subseteq Paths
    BY <1>3, <2>1 DEF Old
  <2>3. limit \in Nat
    BY ConstantsAssumption DEF FileTypes
  <2>4. Cardinality(Old) <= limit
    BY DEF BudgetInv, DiskWithinBudget, Old
  <2>5. Cardinality(Old') <= limit
    BY <2>2, <2>3, <2>4, FewerIsSmaller
  <2> QED BY <1>3, <2>1, <2>5 DEF BudgetInv, DiskWithinBudget, Old
<1>5. CASE cap # 0
  <2>1. limit' = cap /\ begun' = {}
    BY <1>5 DEF Gc
  <2>2. Cardinality({p \in Paths : files[p] # "none"} \ Swept(ks)) <= cap
    BY <1>5, GcKeepsWithinCap
  <2>3. {p \in Paths : files'[p] # "none"} \ begun'
          = {p \in Paths : files[p] # "none"} \ Swept(ks)
    BY <1>3, <2>1
  <2> QED BY <1>3, <2>1, <2>2, <2>3 DEF BudgetInv, DiskWithinBudget
<1> QED BY <1>4, <1>5

LEMMA NextKeepsBudget == IndexInv /\ FileTypes /\ BudgetInv /\ [Next]_vars => BudgetInv'
<1> SUFFICES ASSUME IndexInv, FileTypes, BudgetInv, [Next]_vars PROVE BudgetInv'
  OBVIOUS
<1>1. ASSUME CopyWhole', limit' = limit, Old' \subseteq Old
      PROVE  BudgetInv'
  <2>1. limit \in Nat /\ Old \subseteq Paths /\ Cardinality(Old) <= limit
    BY ConstantsAssumption DEF FileTypes, BudgetInv, DiskWithinBudget, Old
  <2>2. Cardinality(Old') <= limit
    BY <1>1, <2>1, FewerIsSmaller
  <2> QED BY <1>1, <2>2 DEF BudgetInv, DiskWithinBudget, Old
<1>2. CASE UNCHANGED vars \/ Tick \/ SaveIndex \/ Validate
  <2>1. UNCHANGED <<files, pc, job, torn, limit, begun>>
    BY <1>2 DEF vars, runs, since, Tick, SaveIndex, Validate
  <2> QED BY <1>1, <2>1 DEF BudgetInv, CopyWhole, Old
<1>3. CASE Restart
  <2>1. UNCHANGED <<files, limit, begun>> /\ pc' = [r \in Runs |-> "idle"]
    BY <1>3 DEF Restart, since
  <2>2. CopyWhole'
    BY <2>1 DEF CopyWhole
  <2> QED BY <1>1, <2>1, <2>2 DEF Old
<1>4. ASSUME NEW m \in Models, RemoveModel(m)
      PROVE  BudgetInv'
  <2>1. PICK ps : Unlink(ps) /\ UNCHANGED <<pc, job, limit, begun>>
    BY <1>4 DEF RemoveModel, since
  <2>2. /\ CopyWhole'
        /\ {p \in Paths : files'[p] # "none"} = {p \in Paths : files[p] # "none"} \ ps
    BY <2>1, UnlinkKeepsCopies DEF BudgetInv
  <2> QED BY <1>1, <2>1, <2>2 DEF Old
<1>5. ASSUME NEW r \in Runs, Run(r)
      PROVE  BudgetInv'
  BY <1>1, <1>5, RunKeepsOld DEF BudgetInv
<1> QED BY <1>2, <1>3, <1>4, <1>5, GcKeepsBudget DEF Next, Prune

\* After a gc with a size limit no more files than that are on disk, but for
\* those whose copy began later, whatever puts, prunes, crashes and lost indexes
\* come between.
THEOREM DiskAlwaysWithinBudget == Spec => []DiskWithinBudget
<1>1. Init => BudgetInv
  <2> SUFFICES ASSUME Init PROVE BudgetInv
    OBVIOUS
  <2>1. Cardinality({}) = 0
    BY FS_EmptySet
  <2>2. {p \in Paths : files[p] # "none"} \ begun = {} /\ limit = 0
    BY DEF Init
  <2> QED BY <2>1, <2>2 DEF Init, BudgetInv, CopyWhole, DiskWithinBudget
<1>2. BudgetInv => DiskWithinBudget
  BY DEF BudgetInv
<1>3. Init /\ [][Next]_vars /\ [](IndexInv /\ FileTypes) => []BudgetInv
  BY <1>1, NextKeepsBudget, PTL
<1> QED BY <1>2, <1>3, FilesInvariant, PTL DEF Spec

-----------------------------------------------------------------------------
(* Uploads                                                                 *)

LEMMA Grows ==
  ASSUME NEW S, NEW d \in Seq(S), NEW b \in S
  PROVE  /\ Append(d, b) \in Seq(S)
         /\ Len(Append(d, b)) = Len(d) + 1
         /\ Append(d, b) # <<>>
         /\ Patched(d, Len(d), b) = Append(d, b)
<1>1. Append(d, b) \in Seq(S) /\ Len(Append(d, b)) = Len(d) + 1 /\ Append(d, b) # <<>>
  BY AppendProperties
<1>2. Len(d) \in Nat /\ \A i \in 1..Len(d) : d[i] \in S
  BY LenProperties, ElementOfSeq
<1>3. Patched(d, Len(d), b) = [i \in 1..(Len(d) + 1) |-> IF i = Len(d) + 1 THEN b ELSE d[i]]
  BY <1>2 DEF Patched
<1>4. Patched(d, Len(d), b) \in [1..(Len(d) + 1) -> S]
  BY <1>2, <1>3
<1>5. Patched(d, Len(d), b) \in Seq(S) /\ Len(Patched(d, Len(d), b)) = Len(d) + 1
  BY <1>2, <1>4
<1>6. \A i \in 1..(Len(d) + 1) : Patched(d, Len(d), b)[i] = Append(d, b)[i]
  BY <1>2, <1>3, AppendProperties
<1>7. Patched(d, Len(d), b) = Append(d, b)
  BY <1>1, <1>5, <1>6, SeqEqual
<1> QED
  BY <1>1, <1>7

LEMMA PatchedFits ==
  ASSUME UploadsAssumption, NEW d \in Content, NEW n \in 0..(MaxBlocks - 1), NEW b \in Payloads
  PROVE  Patched(d, n, b) \in Content
<1> DEFINE S == Payloads \cup {Hole}
           m == IF Len(d) > n THEN Len(d) ELSE n + 1
<1>1. d \in Seq(S) /\ Len(d) \in Nat /\ Len(d) <= MaxBlocks + 1
  BY LenProperties DEF Content
<1>2. m \in Nat /\ m <= MaxBlocks + 1
  BY <1>1 DEF UploadsAssumption
<1>3. \A i \in 1..Len(d) : d[i] \in S
  BY <1>1, ElementOfSeq
<1>4. Patched(d, n, b) = [i \in 1..m |-> IF i = n + 1 THEN b ELSE IF i <= Len(d) THEN d[i] ELSE Hole]
  BY DEF Patched
<1>5. \A i \in 1..m : (IF i = n + 1 THEN b ELSE IF i <= Len(d) THEN d[i] ELSE Hole) \in S
  BY <1>3, <1>1, <1>2
<1> HIDE DEF m
<1>6. Patched(d, n, b) \in [1..m -> S]
  BY <1>4, <1>5
<1>7. Patched(d, n, b) \in Seq(S) /\ Len(Patched(d, n, b)) = m
  BY <1>2, <1>6
<1> QED
  BY <1>2, <1>7 DEF Content

LEMMA Small ==
  ASSUME UploadsAssumption, NEW p \in Payloads
  PROVE  /\ <<>> \in Content
         /\ <<p>> \in Content /\ <<Hole, p>> \in Content
         /\ \A k \in 1..MaxBlocks : /\ [i \in 1..k |-> p] \in Content
                                    /\ Len([i \in 1..k |-> p]) = k
<1>1. <<>> \in Content /\ <<p>> \in Content /\ <<Hole, p>> \in Content
  BY DEF UploadsAssumption, Content
<1>2. ASSUME NEW k \in 1..MaxBlocks
      PROVE  [i \in 1..k |-> p] \in Content /\ Len([i \in 1..k |-> p]) = k
  <2>1. [i \in 1..k |-> p] \in [1..k -> Payloads \cup {Hole}] /\ k \in Nat
    BY DEF UploadsAssumption
  <2>2. [i \in 1..k |-> p] \in Seq(Payloads \cup {Hole}) /\ Len([i \in 1..k |-> p]) = k
    BY <2>1
  <2> QED
    BY <2>2 DEF Content, UploadsAssumption
<1> QED
  BY <1>1, <1>2

LEMMA AllThere ==
  ASSUME UploadsAssumption, NEW c \in [Sizes -> Payloads \cup {None}], NEW k \in 1..MaxBlocks + 1,
         ~Contains(SubSeq(c, 1, k), None)
  PROVE  SubSeq(c, 1, k) \in Content /\ Len(SubSeq(c, 1, k)) = k
<1> DEFINE S == Payloads \cup {None}
           d == SubSeq(c, 1, k)
<1>1. c \in Seq(S) /\ Len(c) = MaxBlocks + 1
  BY DEF UploadsAssumption, Sizes
<1>2. d \in Seq(S) /\ Len(d) = k /\ k \in Nat
  BY <1>1, SubSeqProperties DEF UploadsAssumption
<1>3. \A i \in 1..Len(d) : d[i] \in S
  BY <1>2, ElementOfSeq
<1>4. \A i \in 1..Len(d) : d[i] # None
  BY <1>2 DEF Contains
<1> HIDE DEF d
<1>5. d \in [1..k -> Payloads \cup {Hole}]
  BY <1>2, <1>3, <1>4
<1>6. d \in Seq(Payloads \cup {Hole})
  BY <1>2, <1>5
<1>7. d \in Content /\ Len(d) = k
  BY <1>2, <1>6 DEF Content, UploadsAssumption
<1> QED
  BY <1>7 DEF d

LEMMA Shapes ==
  ASSUME UploadsAssumption
  PROVE  /\ Idle \in Requests /\ Deleting \in Requests /\ Unused \in Fetches
         /\ \A l \in Labels, p \in Payloads : Streaming(l, p) \in Requests
         /\ \A l \in Labels, n \in Sizes : Assembling(l, n) \in Requests
         /\ \A l \in Labels, d \in Content :
              Len(d) <= MaxBlocks => Recording(l, d) \in Requests
<1>1. <<>> \in Content /\ Len(<<>>) = 0
  BY DEF Content, UploadsAssumption
<1>2. 0 \in 0..(MaxBlocks + 1) /\ 0 <= MaxBlocks /\ Sizes \subseteq 0..(MaxBlocks + 1)
  BY DEF Sizes, UploadsAssumption
<1>3. Idle \in Requests
  BY <1>1, <1>2 DEF Requests, Idle
<1>4. Deleting \in Requests
  BY <1>1, <1>2 DEF Requests, Deleting
<1>5. Unused \in Fetches
  BY <1>1 DEF Fetches, Unused, None
<1>6. \A l \in Labels, p \in Payloads : Streaming(l, p) \in Requests
  BY <1>1, <1>2 DEF Requests, Streaming
<1>7. \A l \in Labels, n \in Sizes : Assembling(l, n) \in Requests
  BY <1>1, <1>2 DEF Requests, Assembling
<1>8. \A l \in Labels, d \in Content : Len(d) <= MaxBlocks => Recording(l, d) \in Requests
  BY <1>2 DEF Requests, Recording
<1> QED
  BY <1>3, <1>4, <1>5, <1>6, <1>7, <1>8

LEMMA Detached ==
  ASSUME NEW r \in [Slots -> Requests], NEW l, NEW at
  PROVE  /\ Detach(r, l, at) \in [Slots -> Requests]
         /\ \A x \in Slots : /\ Detach(r, l, at)[x].at = r[x].at
                             /\ Detach(r, l, at)[x].label = r[x].label
                             /\ Detach(r, l, at)[x].got = r[x].got
                             /\ r[x].label # l => Detach(r, l, at)[x] = r[x]
<1>1. ASSUME NEW q \in Requests
      PROVE  LET d == [q EXCEPT !.attached = FALSE]
             IN d \in Requests /\ d.at = q.at /\ d.label = q.label /\ d.got = q.got
  BY DEF Requests
<1> QED
  BY <1>1 DEF Detach

LEMMA Longer ==
  ASSUME UploadsAssumption, NEW r \in Requests, NEW b \in Payloads,
         r.at \in {"stream", "assemble"}, Len(r.got) < MaxBlocks + (IF r.at = "stream" THEN 0 ELSE 1)
  PROVE  [r EXCEPT !.got = Append(@, b)] \in Requests
<1>1. r.got \in Seq(Payloads \cup {Hole}) /\ Len(r.got) \in Nat
  BY LenProperties DEF Requests, Content
<1>2. Append(r.got, b) \in Seq(Payloads \cup {Hole}) /\ Len(Append(r.got, b)) = Len(r.got) + 1
  BY <1>1, Grows
<1>3. Append(r.got, b) \in Content /\ (r.at = "stream" => Len(Append(r.got, b)) <= MaxBlocks)
  BY <1>1, <1>2 DEF Content, UploadsAssumption
<1> QED
  BY <1>3 DEF Requests

LEMMA TypesStart == ASSUME UploadsAssumption PROVE UploadsInit => UploadsTypeOK
<1>1. Absent \in File
  BY DEF Absent, File, Content, UploadsAssumption
<1> QED
  BY <1>1, Shapes DEF UploadsInit, UploadsTypeOK

\* What a step may do to the requests and the files, one action at a time.
LEMMA RequestTypes ==
  ASSUME UploadsAssumption, UploadsTypeOK, NEW s \in Slots,
         \/ UploadOpen(s) \/ UploadBlock(s) \/ UploadEnd(s) \/ UploadObject(s) \/ UploadNothing(s)
         \/ CreateRow(s) \/ Chunk(s) \/ ReadChunk(s) \/ Replace(s) \/ AssembleObject(s)
         \/ DeleteFiles(s) \/ DeleteRow(s)
  PROVE  UploadsTypeOK'
<1> USE DEF UploadsTypeOK
<1>a. Absent \in File /\ \A d \in Content : Holding(d) \in File
  BY DEF Absent, Holding, File, Content, UploadsAssumption
<1>b. <<>> \in Content
  BY DEF Content, UploadsAssumption
<1>c. ASSUME NEW l \in Labels, Touch(s, l) PROVE touched' \subseteq Labels
  BY <1>c DEF Touch
<1>d. Done(s) \in [Slots -> Requests]
  BY Shapes DEF Done
<1>e. req[s] \in Requests
  OBVIOUS
<1>f. req[s].at \in {"stream", "assemble", "row"} => req[s].label \in Labels
  BY <1>e DEF Requests
<1>g. req[s].got \in Content /\ Len(req[s].got) \in Nat
  BY <1>e, LenProperties DEF Requests, Content
<1>1. CASE UploadOpen(s)
  <2> PICK l \in Labels, p \in Payloads :
        /\ file' = [file EXCEPT ![l] = Holding(<<>>)]
        /\ Touch(s, l)
        /\ req' = [req EXCEPT ![s] = Streaming(l, p)]
    BY <1>1 DEF UploadOpen
  <2> QED
    BY <1>1, <1>a, <1>b, <1>c, Shapes DEF UploadOpen
<1>2. CASE UploadBlock(s)
  <2> DEFINE l == req[s].label
             n == Len(req[s].got)
  <2>1. l \in Labels /\ req[s].at = "stream" /\ req[s].payload \in Payloads /\ n <= MaxBlocks
    BY <1>2, <1>e DEF UploadBlock, Requests
  <2>2. UNCHANGED <<store, model, row, chunks, fetched, part, task>>
    BY <1>2 DEF UploadBlock
  <2>3. CASE n = MaxBlocks
    <3>1. file' = [file EXCEPT ![l] = Absent] /\ Touch(s, l) /\ req' = Detach(Done(s), l, "stream")
      BY <1>2, <2>3 DEF UploadBlock
    <3> QED
      BY <3>1, <2>1, <2>2, <1>a, <1>c, <1>d, Detached
  <2>4. CASE n # MaxBlocks
    <3>1. n \in 0..(MaxBlocks - 1)
      BY <2>1, <2>4, <1>g DEF UploadsAssumption
    <3>2. /\ file' = IF req[s].attached
                       THEN [file EXCEPT ![l].data = Patched(@, n, req[s].payload)] ELSE file
          /\ req' = [req EXCEPT ![s].got = Append(@, req[s].payload)]
          /\ UNCHANGED touched
      BY <1>2, <2>4 DEF UploadBlock
    <3>3. [req[s] EXCEPT !.got = Append(@, req[s].payload)] \in Requests
      BY <2>1, <3>1, <1>e, Longer DEF UploadsAssumption
    <3>4. req' \in [Slots -> Requests]
      BY <3>2, <3>3
    <3>5. file[l] \in File /\ file[l].data \in Content
      BY <2>1 DEF File
    <3>6. Patched(file[l].data, n, req[s].payload) \in Content
      BY <3>1, <3>5, <2>1, PatchedFits
    <3>7. [file[l] EXCEPT !.data = Patched(@, n, req[s].payload)] \in File
      BY <3>5, <3>6 DEF File
    <3>8. file' \in [Labels -> File]
      BY <3>2, <3>7, <2>1
    <3> QED
      BY <2>2, <3>2, <3>4, <3>8
  <2> QED
    BY <2>3, <2>4
<1>3. CASE UploadEnd(s)
  <2>1. Recording(req[s].label, req[s].got) \in Requests
    BY <1>3, <1>e, <1>f, <1>g, Shapes DEF UploadEnd, Requests
  <2> QED
    BY <1>3, <2>1 DEF UploadEnd
<1>4. CASE UploadObject(s)
  <2> PICK l \in Labels, p \in Payloads, k \in 1..MaxBlocks :
        /\ file' = [file EXCEPT ![l] = Holding([i \in 1..k |-> p])]
        /\ Touch(s, l)
        /\ req' = [req EXCEPT ![s] = Recording(l, [i \in 1..k |-> p])]
    BY <1>4 DEF UploadObject
  <2> DEFINE d == [i \in 1..k |-> p]
  <2>a. d \in Content /\ Len(d) = k
    BY Small
  <2> HIDE DEF d
  <2>1. d \in Content /\ Len(d) <= MaxBlocks
    BY <2>a DEF UploadsAssumption
  <2>2. Recording(l, d) \in Requests
    BY <2>1, Shapes
  <2>3. Holding(d) \in File
    BY <2>1, <1>a
  <2> USE DEF d
  <2> QED
    BY <1>4, <2>2, <2>3, <1>c DEF UploadObject
<1>5. CASE UploadNothing(s)
  <2> PICK l \in Labels : row[l] = NoRow /\ row' = [row EXCEPT ![l].at = "nowhere"]
    BY <1>5 DEF UploadNothing
  <2>1. [NoRow EXCEPT !.at = "nowhere"] \in Rows
    BY <1>b DEF NoRow, Rows
  <2> QED
    BY <1>5, <2>1 DEF UploadNothing
<1>6. CASE CreateRow(s)
  <2>1. [at |-> "disk", hash |-> req[s].got] \in Rows
    BY <1>g DEF Rows
  <2> QED
    BY <1>6, <2>1, <1>d, <1>f DEF CreateRow
<1>7. CASE Chunk(s)
  <2> PICK l \in Labels, p \in Payloads, total \in Sizes, i \in Sizes :
        /\ WriteChunk(l, i, p)
        /\ req' = IF i < total THEN req ELSE [req EXCEPT ![s] = Assembling(l, total)]
    BY <1>7 DEF Chunk
  <2>1. req' \in [Slots -> Requests]
    BY Shapes
  <2>2. chunks' \in [Labels -> [Sizes -> Payloads \cup {None}]]
    BY DEF WriteChunk
  <2> QED
    BY <1>7, <2>1, <2>2 DEF Chunk
<1>8. CASE ReadChunk(s)
  <2> DEFINE b == chunks[req[s].label][Len(req[s].got) + 1]
  <2>1. /\ req[s].at = "assemble" /\ Len(req[s].got) < req[s].size
        /\ UNCHANGED <<store, model, row, file, fetched, part, task, touched>>
    BY <1>8 DEF ReadChunk
  <2>2. CASE b = None
    <3>1. chunks' = [chunks EXCEPT ![req[s].label] = [i \in Sizes |-> None]] /\ req' = Done(s)
      BY <1>8, <2>2 DEF ReadChunk
    <3> QED
      BY <2>1, <3>1, <1>d
  <2>3. CASE b # None
    <3>1. UNCHANGED chunks /\ req' = [req EXCEPT ![s].got = Append(@, b)]
      BY <1>8, <2>3 DEF ReadChunk
    <3>2. Len(req[s].got) + 1 \in Sizes /\ Len(req[s].got) < MaxBlocks + 1
      BY <2>1, <1>e, <1>g DEF Requests, Sizes, UploadsAssumption
    <3>3. b \in Payloads
      BY <3>2, <2>3, <2>1, <1>f
    <3>4. [req[s] EXCEPT !.got = Append(@, b)] \in Requests
      BY <3>2, <3>3, <2>1, <1>e, Longer
    <3> QED
      BY <2>1, <3>1, <3>4
  <2> QED
    BY <2>2, <2>3
<1>9. CASE Replace(s)
  <2> DEFINE r == req[s]
  <2>1. /\ r.at = "assemble" /\ Len(r.got) = r.size
        /\ chunks' = [chunks EXCEPT ![r.label] = [i \in Sizes |-> None]]
        /\ UNCHANGED <<store, model, row, fetched, part, task>>
    BY <1>9 DEF Replace
  <2>2. CASE r.attached
    <3>1. /\ file' = [file EXCEPT ![r.label] = Holding(r.got)]
          /\ Touch(s, r.label)
          /\ req' = [Detach(req, r.label, "stream") EXCEPT ![s] = Placed(r, r.got)]
      BY <1>9, <2>2 DEF Replace
    <3>2. Placed(r, r.got) \in Requests
      BY <2>1, <1>f, <1>g, Shapes DEF Placed, UploadsAssumption
    <3>3. req' \in [Slots -> Requests]
      BY <3>1, <3>2, Detached
    <3> QED
      BY <2>1, <3>1, <3>3, <1>a, <1>c, <1>f, <1>g
  <2>3. CASE ~r.attached
    <3>1. req' = Done(s) /\ UNCHANGED <<file, touched>>
      BY <1>9, <2>3 DEF Replace
    <3> QED
      BY <2>1, <3>1, <1>d
  <2> QED
    BY <2>2, <2>3
<1>10. CASE AssembleObject(s)
  <2> DEFINE r == req[s]
             data == SubSeq(chunks[r.label], 1, r.size)
  <2>1. /\ r.at = "assemble"
        /\ chunks' = [chunks EXCEPT ![r.label] = [i \in Sizes |-> IF i <= r.size THEN None ELSE @[i]]]
        /\ UNCHANGED <<store, model, row, fetched, part, task>>
    BY <1>10 DEF AssembleObject
  <2>2. chunks' \in [Labels -> [Sizes -> Payloads \cup {None}]]
    <3>1. [i \in Sizes |-> IF i <= r.size THEN None ELSE chunks[r.label][i]]
            \in [Sizes -> Payloads \cup {None}]
      BY <2>1, <1>f
    <3> QED
      BY <2>1, <3>1
  <2>3. CASE Contains(data, None)
    BY <1>10, <2>1, <2>2, <2>3, <1>d DEF AssembleObject
  <2>4. CASE ~Contains(data, None)
    <3>1. /\ file' = [file EXCEPT ![r.label] = Holding(data)]
          /\ Touch(s, r.label)
          /\ req' = [req EXCEPT ![s] = Placed(r, data)]
      BY <1>10, <2>4 DEF AssembleObject
    <3>2. r.size \in 1..MaxBlocks + 1
      BY <2>1, <1>e DEF Requests, Sizes
    <3>3. data \in Content /\ Len(data) = r.size
      BY <3>2, <2>4, <2>1, <1>f, AllThere
    <3>4. Placed(r, data) \in Requests
      <4> HIDE DEF data
      <4> QED
        BY <3>2, <3>3, <2>1, <1>f, Shapes DEF Placed, UploadsAssumption
    <3> HIDE DEF data
    <3> QED
      BY <2>1, <2>2, <3>1, <3>3, <3>4, <1>a, <1>c, <1>f
  <2> QED
    BY <2>3, <2>4
<1>11. CASE DeleteFiles(s)
  <2>1. req' \in [Slots -> Requests]
    <3>1. ASSUME NEW x \in Slots PROVE [req[x] EXCEPT !.attached = FALSE] \in Requests
      BY ZenonT(60) DEF Requests
    <3> QED
      BY <1>11, <3>1, Shapes DEF DeleteFiles
  <2>2. file' \in [Labels -> File] /\ touched' \subseteq Labels
    BY <1>11, <1>a DEF DeleteFiles
  <2>3. fetched' \in [Labels -> File] /\ part' \subseteq Labels
    BY <1>11, <1>a DEF DeleteFiles
  <2> QED
    BY <1>11, <2>1, <2>2, <2>3 DEF DeleteFiles
<1>12. CASE DeleteRow(s)
  BY <1>12, <1>d DEF DeleteRow
<1> QED
  BY <1>1, <1>2, <1>3, <1>4, <1>5, <1>6, <1>7, <1>8, <1>9, <1>10, <1>11, <1>12

\* What a download sends and where a step of it goes.
LEMMA FetchParts ==
  ASSUME NEW t \in Tasks, UrlFetch(t)
  PROVE  LET l == task[t].label
             busy == \E x \in Tasks \ {t} : task[x].label = l /\ task[x].at \in {"fetch", "row", "mark"}
         IN /\ task[t].at = "fetch"
            /\ UNCHANGED <<store, model, row, file, chunks, req>>
            /\ \/ \E p \in Payloads, data \in Seq(Payloads \cup {Hole}) :
                    /\ data \in {<<Hole, p>>, <<p>>}
                    /\ fetched' = [fetched EXCEPT ![l] = Holding(data)]
                    /\ task' = [task EXCEPT ![t].at = "row", ![t].got = data]
                    /\ part' = part \ {l}
                    /\ touched' = IF row[l].at = "fetched" \/ busy
                                      \/ \E x \in Slots : req[x].at = "delete"
                                    THEN touched \cup {l} ELSE touched
               \/ /\ fetched' = [fetched EXCEPT ![l] = Absent]
                  /\ task' = [task EXCEPT ![t].at = "fail"]
                  /\ part' = part \ {l}
                  /\ touched' = IF row[l].at = "fetched" \/ busy THEN touched \cup {l} ELSE touched
               \/ /\ task' = [task EXCEPT ![t].at = "fail"]
                  /\ \E left \in {{}, {l}} : part' = part \cup left
                  /\ UNCHANGED <<fetched, touched>>
<1> DEFINE l == task[t].label
           busy == \E x \in Tasks \ {t} : task[x].label = l /\ task[x].at \in {"fetch", "row", "mark"}
<1>1. \A p \in Payloads, mixed \in BOOLEAN :
        LET data == IF mixed THEN <<Hole, p>> ELSE <<p>>
        IN data \in Seq(Payloads \cup {Hole}) /\ data \in {<<Hole, p>>, <<p>>}
  <2>1. \A p \in Payloads : /\ <<Hole, p>> \in Seq(Payloads \cup {Hole})
                            /\ <<p>> \in Seq(Payloads \cup {Hole})
    OBVIOUS
  <2> QED
    BY <2>1, Zenon
<1>2. (IF l \in part \/ busy THEN BOOLEAN ELSE {FALSE}) \subseteq BOOLEAN
  OBVIOUS
<1> QED
  BY <1>1, <1>2 DEF UrlFetch

LEMMA TaskTypes ==
  ASSUME UploadsAssumption, UploadsTypeOK, NEW t \in Tasks,
         UrlStart(t) \/ UrlFetch(t) \/ UrlRow(t) \/ UrlMark(t)
  PROVE  UploadsTypeOK'
<1> USE DEF UploadsTypeOK
<1>a. Absent \in File /\ \A d \in Content : Holding(d) \in File
  BY DEF Absent, Holding, File, Content, UploadsAssumption
<1>b. <<>> \in Content
  BY DEF Content, UploadsAssumption
<1>c. task[t] \in Fetches
  OBVIOUS
<1>d. task[t].at # "new" => task[t].label \in Labels /\ task[t].status # None
  BY <1>c DEF Fetches
<1>1. CASE UrlStart(t)
  <2> PICK l \in Labels :
        task' = [task EXCEPT ![t] = [at |-> "fetch", status |-> "pending", label |-> l, got |-> <<>>]]
    BY <1>1 DEF UrlStart
  <2>1. [at |-> "fetch", status |-> "pending", label |-> l, got |-> <<>>] \in Fetches
    BY <1>b DEF Fetches, None
  <2> QED
    BY <1>1, <2>1 DEF UrlStart
<1>2. CASE UrlFetch(t)
  <2> DEFINE l == task[t].label
  <2>1. task[t].at = "fetch" /\ l \in Labels /\ UNCHANGED <<store, model, row, file, chunks, req>>
    BY <1>2, <1>d, FetchParts
  <2>2. CASE \E p \in Payloads, data \in Seq(Payloads \cup {Hole}) :
                    /\ data \in {<<Hole, p>>, <<p>>}
                    /\ fetched' = [fetched EXCEPT ![l] = Holding(data)]
                    /\ task' = [task EXCEPT ![t].at = "row", ![t].got = data]
                    /\ part' = part \ {l}
                    /\ touched' \in {touched, touched \cup {l}}
    <3> PICK p \in Payloads, data \in Seq(Payloads \cup {Hole}) :
                    /\ data \in {<<Hole, p>>, <<p>>}
                    /\ fetched' = [fetched EXCEPT ![l] = Holding(data)]
                    /\ task' = [task EXCEPT ![t].at = "row", ![t].got = data]
                    /\ part' = part \ {l}
                    /\ touched' \in {touched, touched \cup {l}}
      BY <2>2
    <3>1. data \in Content
      BY Small
    <3>2. [task[t] EXCEPT !.at = "row", !.got = data] \in Fetches
      BY <2>1, <1>c, <3>1 DEF Fetches
    <3>3. fetched' \in [Labels -> File] /\ task' \in [Tasks -> Fetches]
      BY <3>1, <3>2, <1>a, <2>1
    <3> QED
      BY <2>1, <3>3
  <2>3. CASE /\ fetched' = [fetched EXCEPT ![l] = Absent] \/ UNCHANGED fetched
             /\ task' = [task EXCEPT ![t].at = "fail"]
             /\ part' \in {part \ {l}, part, part \cup {l}}
             /\ touched' \in {touched, touched \cup {l}}
    <3>1. [task[t] EXCEPT !.at = "fail"] \in Fetches
      BY <2>1, <1>c DEF Fetches
    <3>2. fetched' \in [Labels -> File] /\ task' \in [Tasks -> Fetches]
      BY <3>1, <2>3, <1>a, <2>1
    <3> QED
      BY <2>1, <2>3, <3>2
  <2> QED
    BY <1>2, <2>2, <2>3, FetchParts, ZenonT(60)
<1>3. CASE UrlRow(t)
  <2>1. [at |-> "fetched", hash |-> task[t].got] \in Rows
    BY <1>c DEF Fetches, Rows
  <2>2. [task[t] EXCEPT !.at = "mark", !.got = <<>>] \in Fetches
    BY <1>3, <1>b, <1>c DEF Fetches, UrlRow
  <2>3. task' \in [Tasks -> Fetches]
    BY <1>3, <2>2 DEF UrlRow
  <2>4. row' \in [Labels -> Rows \cup {NoRow}] /\ (~model => UNCHANGED row)
    BY <1>3, <2>1 DEF UrlRow
  <2> QED
    BY <1>3, <2>3, <2>4 DEF UrlRow
<1>4. CASE UrlMark(t)
  <2> PICK st \in {"completed", "failed"} :
        task' = [task EXCEPT ![t].at = "ended", ![t].status = st]
    BY <1>4 DEF UrlMark
  <2>1. task[t].at # "new"
    BY <1>4 DEF UrlMark
  <2>2. [task[t] EXCEPT !.at = "ended", !.status = st] \in Fetches
    BY <1>c, <1>d, <2>1 DEF Fetches, None
  <2>3. task' \in [Tasks -> Fetches]
    BY <2>2
  <2> QED
    BY <1>4, <2>3 DEF UrlMark
<1> QED
  BY <1>1, <1>2, <1>3, <1>4

LEMMA RestartTypes ==
  ASSUME UploadsAssumption, UploadsTypeOK, UploadsRestart
  PROVE  UploadsTypeOK'
<1> USE DEF UploadsTypeOK
<1>1. req' \in [Slots -> Requests]
  BY Shapes DEF UploadsRestart
<1>2. ASSUME NEW t \in Tasks, task[t].at # "new"
      PROVE  [task[t] EXCEPT !.at = "ended", !.got = <<>>] \in Fetches /\ task[t].label \in Labels
  <2>1. task[t] \in Fetches /\ <<>> \in Content
    BY DEF Content, UploadsAssumption
  <2> QED
    BY <1>2, <2>1 DEF Fetches
<1>3. task' \in [Tasks -> Fetches]
  BY <1>2 DEF UploadsRestart
<1>4. part' \subseteq Labels
  <2>1. {task[t].label : t \in {x \in Tasks : task[x].at = "fetch"}} \subseteq Labels
    <3>1. \A t \in Tasks : task[t].at = "fetch" => task[t].label \in Labels
      BY <1>2
    <3> QED
      BY <3>1
  <2> QED
    BY <2>1 DEF UploadsRestart
<1> QED
  BY <1>1, <1>3, <1>4 DEF UploadsRestart

LEMMA TypesKept ==
  ASSUME UploadsAssumption, UploadsTypeOK, [UploadsNext]_uploadsVars
  PROVE  UploadsTypeOK'
<1>1. CASE UNCHANGED uploadsVars
  BY <1>1 DEF uploadsVars, UploadsTypeOK
<1> QED
  BY <1>1, RequestTypes, TaskTypes, RestartTypes DEF UploadsNext

-----------------------------------------------------------------------------
(* What is known of a label nobody else has touched.                       *)

Writing(s, l) == req[s].label = l /\ req[s].at \in {"stream", "row"}
Fetched(t, l) == task[t].label = l /\ task[t].at = "row"

RowRight(l) ==
  /\ row[l].at = "disk" => file[l] = Holding(row[l].hash)
  /\ row[l].at = "fetched" => fetched[l] = Holding(row[l].hash)

\* One request writes the file at a time, it has its bytes there, and the row
\* that is to name them is not there yet.
WriterRight(s, l) ==
  Writing(s, l) => /\ file[l] = Holding(req[s].got)
                   /\ row[l].at # "disk"
                   /\ req[s].at = "stream" => req[s].attached
                   /\ \A x \in Slots : Writing(x, l) => x = s

\* Likewise for a download whose file is in place.
FetcherRight(t, l) ==
  Fetched(t, l) => /\ fetched[l] = Holding(task[t].got)
                   /\ row[l].at # "fetched"
                   /\ \A x \in Tasks : Fetched(x, l) => x = t

\* From the removal of the files on there is none.
Emptied(l) == ~model \/ (\E s \in Slots : req[s].at = "delete") => ~file[l].there

LabelRight(l) ==
  l \notin touched => /\ RowRight(l)
                      /\ \A s \in Slots : WriterRight(s, l)
                      /\ \A t \in Tasks : FetcherRight(t, l)
                      /\ Emptied(l)

\* A download that was started keeps its model, and has its version in the end.
TasksAgree ==
  \A t \in Tasks : /\ task[t].status # None => model
                   /\ task[t].at = "mark" => row[task[t].label] # NoRow
                   /\ task[t].status = "completed" => row[task[t].label] # NoRow

UploadsInv == UploadsTypeOK /\ TasksAgree /\ \A l \in Labels : LabelRight(l)

\* A step that changes no file and no row of the label, and starts no writing
\* and no deletion, leaves what is known.
LEMMA Bystander ==
  ASSUME NEW l \in Labels, LabelRight(l), touched \subseteq touched',
         file'[l] = file[l], row'[l] = row[l], fetched'[l] = fetched[l], model' = model,
         \A x \in Slots : /\ Writing(x, l)' => /\ Writing(x, l)
                                               /\ req'[x].got = req[x].got
                                               /\ req'[x].at = "stream" =>
                                                    /\ req[x].at = "stream"
                                                    /\ req'[x].attached = req[x].attached
                          /\ req'[x].at = "delete" => req[x].at = "delete",
         \A t \in Tasks : Fetched(t, l)' => Fetched(t, l) /\ task'[t].got = task[t].got
  PROVE  LabelRight(l)'
<1> SUFFICES ASSUME l \notin touched'
             PROVE  /\ RowRight(l)'
                    /\ \A s \in Slots : WriterRight(s, l)'
                    /\ \A t \in Tasks : FetcherRight(t, l)'
                    /\ Emptied(l)'
  BY DEF LabelRight
<1>1. /\ RowRight(l)
      /\ \A s \in Slots : WriterRight(s, l)
      /\ \A t \in Tasks : FetcherRight(t, l)
      /\ Emptied(l)
  BY DEF LabelRight
<1>2. RowRight(l)'
  BY <1>1 DEF RowRight, Holding
<1>3. ASSUME NEW s \in Slots PROVE WriterRight(s, l)'
  <2>1. WriterRight(s, l)
    BY <1>1
  <2>2. SUFFICES ASSUME Writing(s, l)'
                 PROVE  /\ file'[l] = Holding(req'[s].got)
                        /\ row'[l].at # "disk"
                        /\ req'[s].at = "stream" => req'[s].attached
                        /\ \A x \in Slots : Writing(x, l)' => x = s
    BY DEF WriterRight, Holding
  <2> QED
    BY <2>1, <2>2 DEF WriterRight
<1>4. ASSUME NEW t \in Tasks PROVE FetcherRight(t, l)'
  <2>1. FetcherRight(t, l)
    BY <1>1
  <2>2. SUFFICES ASSUME Fetched(t, l)'
                 PROVE  /\ fetched'[l] = Holding(task'[t].got)
                        /\ row'[l].at # "fetched"
                        /\ \A x \in Tasks : Fetched(x, l)' => x = t
    BY DEF FetcherRight, Holding
  <2> QED
    BY <2>1, <2>2 DEF FetcherRight
<1>5. Emptied(l)'
  BY <1>1 DEF Emptied
<1> QED
  BY <1>2, <1>3, <1>4, <1>5

\* The request that has a label to itself may replace or remove its file.
LEMMA Alone ==
  ASSUME NEW l \in Labels, LabelRight(l), touched \subseteq touched',
         NEW s \in Slots, ~Shared(s, l) \/ l \in touched',
         UNCHANGED <<model, row, fetched, task>>,
         \A x \in Slots \ {s} : req'[x].at = req[x].at /\ req'[x].label = req[x].label,
         req'[s].at # "delete",
         Writing(s, l)' => /\ file'[l] = Holding(req'[s].got)
                           /\ req'[s].at = "stream" => req'[s].attached
  PROVE  LabelRight(l)'
<1> SUFFICES ASSUME l \notin touched'
             PROVE  /\ RowRight(l)'
                    /\ \A x \in Slots : WriterRight(x, l)'
                    /\ \A t \in Tasks : FetcherRight(t, l)'
                    /\ Emptied(l)'
  BY DEF LabelRight
<1>1. /\ RowRight(l)
      /\ \A t \in Tasks : FetcherRight(t, l)
  BY DEF LabelRight
<1>2. /\ row[l].at # "disk" /\ model
      /\ \A x \in Slots \ {s} : req[x].label # l /\ req[x].at # "delete"
  BY DEF Shared
<1>3. RowRight(l)'
  BY <1>1, <1>2 DEF RowRight, Holding
<1>4. \A x \in Slots : Writing(x, l)' => x = s
  BY <1>2 DEF Writing
<1>5. ASSUME NEW x \in Slots PROVE WriterRight(x, l)'
  <2>1. SUFFICES ASSUME Writing(x, l)'
                 PROVE  /\ file'[l] = Holding(req'[x].got)
                        /\ row'[l].at # "disk"
                        /\ req'[x].at = "stream" => req'[x].attached
                        /\ \A y \in Slots : Writing(y, l)' => y = x
    BY DEF WriterRight, Holding
  <2>2. x = s
    BY <2>1, <1>4
  <2> QED
    BY <2>1, <2>2, <1>2, <1>4
<1>6. ASSUME NEW t \in Tasks PROVE FetcherRight(t, l)'
  BY <1>1 DEF FetcherRight, Fetched, Holding
<1>7. Emptied(l)'
  BY <1>2 DEF Emptied
<1> QED
  BY <1>3, <1>5, <1>6, <1>7

\* A step of a request keeps what is known of every label.
LEMMA RequestLabels ==
  ASSUME UploadsAssumption, UploadsInv, UploadsTypeOK', NEW l \in Labels, NEW s \in Slots,
         \/ UploadOpen(s) \/ UploadBlock(s) \/ UploadEnd(s) \/ UploadObject(s) \/ UploadNothing(s)
         \/ CreateRow(s) \/ Chunk(s) \/ ReadChunk(s) \/ Replace(s) \/ AssembleObject(s)
         \/ DeleteFiles(s) \/ DeleteRow(s)
  PROVE  LabelRight(l)'
<1>a. LabelRight(l) /\ UploadsTypeOK
  BY DEF UploadsInv
<1>b. /\ req \in [Slots -> Requests] /\ row \in [Labels -> Rows \cup {NoRow}]
      /\ file \in [Labels -> File] /\ req' \in [Slots -> Requests]
  BY DEF UploadsInv, UploadsTypeOK
<1>c. /\ Idle.at = "idle" /\ Deleting.at = "delete"
      /\ Done(s) = [req EXCEPT ![s] = Idle]
  BY DEF Idle, Deleting, Done
<1>d. \A m \in Labels : Touch(s, m) => /\ touched \subseteq touched'
                                       /\ ~Shared(s, m) \/ m \in touched'
  BY DEF Touch
<1>1. CASE UploadOpen(s)
  <2> PICK m \in Labels, p \in Payloads :
        /\ file' = [file EXCEPT ![m] = Holding(<<>>)]
        /\ Touch(s, m)
        /\ req' = [req EXCEPT ![s] = Streaming(m, p)]
    BY <1>1 DEF UploadOpen
  <2>1. UNCHANGED <<model, row, fetched, task>>
    BY <1>1 DEF UploadOpen
  <2>2. CASE l = m
    <3>1. /\ req'[s].got = <<>> /\ req'[s].attached /\ req'[s].at = "stream"
      BY <1>b DEF Streaming
    <3>2. file'[l] = Holding(<<>>)
      BY <1>b, <2>2
    <3> QED
      BY <1>a, <1>b, <1>d, <2>1, <2>2, <3>1, <3>2, Alone
  <2>3. CASE l # m
    <3>1. ~Writing(s, l)' /\ req'[s].at # "delete"
      BY <1>b, <2>3 DEF Writing, Streaming
    <3>2. \A x \in Slots \ {s} : req'[x] = req[x]
      BY <1>b
    <3> QED
      BY <1>a, <1>b, <1>d, <2>1, <2>3, <3>1, <3>2, Bystander DEF Writing, Fetched
  <2> QED
    BY <2>2, <2>3
<1>2. CASE UploadBlock(s)
  <2> DEFINE m == req[s].label
             n == Len(req[s].got)
  <2>1. m \in Labels /\ req[s].at = "stream" /\ UNCHANGED <<model, row, fetched, task>>
    BY <1>2, <1>b DEF UploadBlock, Requests
  <2>2. CASE n = MaxBlocks
    <3>1. file' = [file EXCEPT ![m] = Absent] /\ Touch(s, m) /\ req' = Detach(Done(s), m, "stream")
      BY <1>2, <2>2 DEF UploadBlock
    <3>2. Done(s) \in [Slots -> Requests] /\ Done(s)[s] = Idle /\ \A x \in Slots \ {s} : Done(s)[x] = req[x]
      BY <1>b, <1>c, Shapes
    <3>3. \A x \in Slots : /\ req'[x].at = Done(s)[x].at /\ req'[x].label = Done(s)[x].label
                           /\ req'[x].got = Done(s)[x].got
                           /\ Done(s)[x].label # m => req'[x] = Done(s)[x]
      BY <3>1, <3>2, Detached
    <3>4. ~Writing(s, l)' /\ req'[s].at # "delete"
      BY <1>c, <3>2, <3>3 DEF Writing
    <3>5. CASE l = m
      BY <1>a, <1>d, <2>1, <3>1, <3>2, <3>3, <3>4, <3>5, Alone
    <3>6. CASE l # m
      <4>1. file'[l] = file[l]
        BY <1>b, <3>1, <3>6
      <4>2. \A x \in Slots : /\ Writing(x, l)' => /\ Writing(x, l)
                                                  /\ req'[x] = req[x]
                             /\ req'[x].at = "delete" => req[x].at = "delete"
        BY <3>2, <3>3, <3>4, <3>6 DEF Writing
      <4> QED
        BY <1>a, <1>d, <2>1, <3>1, <4>1, <4>2, Bystander DEF Fetched
    <3> QED
      BY <3>5, <3>6
  <2>3. CASE n # MaxBlocks
    <3>1. /\ file' = IF req[s].attached
                       THEN [file EXCEPT ![m].data = Patched(@, n, req[s].payload)] ELSE file
          /\ req' = [req EXCEPT ![s].got = Append(@, req[s].payload)]
          /\ UNCHANGED touched
      BY <1>2, <2>3 DEF UploadBlock
    <3>2. /\ \A x \in Slots \ {s} : req'[x] = req[x]
          /\ req'[s].got = Append(req[s].got, req[s].payload)
          /\ req'[s].at = "stream" /\ req'[s].label = m /\ req'[s].attached = req[s].attached
      BY <1>b, <2>1, <3>1 DEF Requests
    <3>3. CASE l # m
      <4>1. file'[l] = file[l]
        BY <1>b, <3>1, <3>3
      <4>2. ~Writing(s, l)' /\ req'[s].at # "delete"
        BY <3>2, <3>3 DEF Writing
      <4> QED
        BY <1>a, <2>1, <3>1, <3>2, <4>1, <4>2, Bystander DEF Writing, Fetched
    <3>4. CASE l = m
      <4> SUFFICES ASSUME l \notin touched
                   PROVE  /\ RowRight(l)'
                          /\ \A x \in Slots : WriterRight(x, l)'
                          /\ \A t \in Tasks : FetcherRight(t, l)'
                          /\ Emptied(l)'
        BY <3>1 DEF LabelRight
      <4>1. /\ RowRight(l) /\ WriterRight(s, l) /\ Writing(s, l)
            /\ \A t \in Tasks : FetcherRight(t, l)
            /\ Emptied(l)
        BY <1>a, <2>1, <3>4 DEF LabelRight, Writing
      <4>2. /\ file[l] = Holding(req[s].got) /\ row[l].at # "disk" /\ req[s].attached
            /\ \A x \in Slots : Writing(x, l) => x = s
        BY <4>1, <2>1 DEF WriterRight
      <4>3. /\ req[s].got \in Seq(Payloads \cup {Hole})
            /\ req[s].payload \in Payloads \cup {Hole}
        BY <1>b, <2>1 DEF Requests, Content
      <4>4. Patched(req[s].got, n, req[s].payload) = Append(req[s].got, req[s].payload)
        BY <4>3, Grows
      <4>5. file'[l] = [file[l] EXCEPT !.data = Patched(@, n, req[s].payload)]
        BY <1>b, <3>1, <3>4, <4>2
      <4>6. file'[l] = Holding(req'[s].got)
        <5> DEFINE d == Append(req[s].got, req[s].payload)
        <5>a. file[l] \in File
          BY <1>b
        <5>b. file[l].there /\ file[l].data = req[s].got
          BY <4>2 DEF Holding
        <5>1. file[l] \in File /\ file[l].there
          BY <5>a, <5>b
        <5>c. req'[s].got = d
          BY <3>2
        <5>2. file'[l] = [file[l] EXCEPT !.data = d] /\ req'[s].got = d
          BY <5>c, <5>b, <4>4, <4>5
        <5> HIDE DEF d
        <5>3. file'[l] = [there |-> TRUE, data |-> d]
          BY <5>1, <5>2 DEF File
        <5> QED
          BY <5>2, <5>3 DEF Holding
      <4>7. \A x \in Slots : Writing(x, l)' => x = s
        BY <4>2, <3>2 DEF Writing
      <4>8. RowRight(l)'
        BY <4>1, <4>2, <2>1 DEF RowRight, Holding
      <4>9. ASSUME NEW x \in Slots PROVE WriterRight(x, l)'
        <5>1. SUFFICES ASSUME Writing(x, l)'
                       PROVE  /\ file'[l] = Holding(req'[x].got)
                              /\ row'[l].at # "disk"
                              /\ req'[x].at = "stream" => req'[x].attached
                              /\ \A y \in Slots : Writing(y, l)' => y = x
          BY DEF WriterRight, Holding
        <5>2. x = s
          BY <4>7, <5>1
        <5> QED
          BY <5>2, <4>2, <4>6, <4>7, <3>2, <2>1
      <4>10. ASSUME NEW t \in Tasks PROVE FetcherRight(t, l)'
        BY <4>1, <2>1 DEF FetcherRight, Fetched, Holding
      <4>11. Emptied(l)'
        <5>1. file[l].there
          BY <4>2 DEF Holding
        <5>2. model /\ \A x \in Slots : req[x].at # "delete"
          BY <4>1, <5>1 DEF Emptied
        <5> QED
          BY <5>2, <2>1, <3>2 DEF Emptied
      <4> QED
        BY <4>8, <4>9, <4>10, <4>11
    <3> QED
      BY <3>3, <3>4
  <2> QED
    BY <2>2, <2>3
<1>3. CASE UploadEnd(s)
  <2>1. /\ req[s].at = "stream" /\ req' = [req EXCEPT ![s] = Recording(req[s].label, req[s].got)]
        /\ UNCHANGED <<model, row, file, fetched, task, touched>>
    BY <1>3 DEF UploadEnd
  <2>2. /\ req'[s].at = "row" /\ req'[s].label = req[s].label /\ req'[s].got = req[s].got
        /\ \A x \in Slots \ {s} : req'[x] = req[x]
    BY <1>b, <2>1 DEF Recording
  <2> QED
    BY <1>a, <2>1, <2>2, Bystander DEF Writing, Fetched
<1>4. CASE UploadObject(s)
  <2> PICK m \in Labels, p \in Payloads, k \in 1..MaxBlocks :
        /\ file' = [file EXCEPT ![m] = Holding([i \in 1..k |-> p])]
        /\ Touch(s, m)
        /\ req' = [req EXCEPT ![s] = Recording(m, [i \in 1..k |-> p])]
    BY <1>4 DEF UploadObject
  <2> DEFINE d == [i \in 1..k |-> p]
  <2>1. UNCHANGED <<model, row, fetched, task>>
    BY <1>4 DEF UploadObject
  <2>2. /\ req'[s].at = "row" /\ req'[s].label = m /\ req'[s].got = d
        /\ \A x \in Slots \ {s} : req'[x] = req[x]
    BY <1>b DEF Recording
  <2> HIDE DEF d
  <2>3. CASE l = m
    <3>1. file'[l] = Holding(d)
      BY <1>b, <2>3 DEF d
    <3> QED
      BY <1>a, <1>d, <2>1, <2>2, <2>3, <3>1, Alone
  <2>4. CASE l # m
    <3>1. file'[l] = file[l] /\ touched \subseteq touched'
      BY <1>b, <1>d, <2>4
    <3>2. ~Writing(s, l)'
      BY <2>2, <2>4 DEF Writing
    <3> QED
      BY <1>a, <2>1, <2>2, <3>1, <3>2, Bystander DEF Writing, Fetched
  <2> QED
    BY <2>3, <2>4
<1>5. CASE UploadNothing(s)
  <2> PICK m \in Labels : row[m] = NoRow /\ row' = [row EXCEPT ![m].at = "nowhere"]
    BY <1>5 DEF UploadNothing
  <2>1. UNCHANGED <<model, file, fetched, req, task, touched>>
    BY <1>5 DEF UploadNothing
  <2>2. CASE l # m
    BY <1>a, <1>b, <2>1, <2>2, Bystander DEF Writing, Fetched
  <2>3. CASE l = m
    <3>1. row'[l].at = "nowhere"
      BY <1>b, <2>3 DEF NoRow
    <3> QED
      BY <1>a, <2>1, <3>1
         DEF LabelRight, RowRight, WriterRight, FetcherRight, Emptied, Writing, Fetched, Holding
  <2> QED
    BY <2>2, <2>3
<1>6. CASE CreateRow(s)
  <2> DEFINE m == req[s].label
  <2>1. /\ req[s].at = "row" /\ req' = Done(s)
        /\ row' = IF model /\ row[m] = NoRow
                    THEN [row EXCEPT ![m] = [at |-> "disk", hash |-> req[s].got]] ELSE row
        /\ UNCHANGED <<model, file, fetched, task, touched>>
    BY <1>6 DEF CreateRow
  <2>2. /\ req'[s].at = "idle" /\ \A x \in Slots \ {s} : req'[x] = req[x]
    BY <1>b, <1>c, <2>1
  <2>3. CASE UNCHANGED row \/ l # m
    <3>1. row'[l] = row[l]
      BY <1>b, <2>1, <2>3
    <3> QED
      BY <1>a, <2>1, <2>2, <3>1, Bystander DEF Writing, Fetched
  <2>4. CASE ~UNCHANGED row /\ l = m
    <3>1. row'[l] = [at |-> "disk", hash |-> req[s].got]
      BY <1>b, <2>1, <2>4
    <3> SUFFICES ASSUME l \notin touched
                 PROVE  /\ RowRight(l)'
                        /\ \A x \in Slots : WriterRight(x, l)'
                        /\ \A t \in Tasks : FetcherRight(t, l)'
                        /\ Emptied(l)'
      BY <2>1 DEF LabelRight
    <3>2. /\ WriterRight(s, l) /\ Writing(s, l)
          /\ \A t \in Tasks : FetcherRight(t, l)
          /\ Emptied(l)
      BY <1>a, <2>1, <2>4 DEF LabelRight, Writing
    <3>3. RowRight(l)'
      BY <3>1, <3>2, <2>1 DEF RowRight, WriterRight, Holding
    <3>4. \A x \in Slots : ~Writing(x, l)'
      BY <2>2, <3>2 DEF WriterRight, Writing
    <3>5. ASSUME NEW t \in Tasks PROVE FetcherRight(t, l)'
      BY <3>1, <3>2, <2>1 DEF FetcherRight, Fetched, Holding
    <3>6. Emptied(l)'
      BY <3>2, <2>1, <2>2 DEF Emptied
    <3> QED
      BY <3>3, <3>4, <3>5, <3>6 DEF WriterRight
  <2> QED
    BY <2>3, <2>4
<1>7. CASE Chunk(s)
  <2>1. /\ UNCHANGED <<model, row, file, fetched, task, touched>>
        /\ \E m \in Labels, total \in Sizes : req' \in {req, [req EXCEPT ![s] = Assembling(m, total)]}
    BY <1>7 DEF Chunk
  <2>2. \A x \in Slots : req'[x] = req[x] \/ req'[x].at = "assemble"
    BY <1>b, <2>1 DEF Assembling
  <2> QED
    BY <1>a, <2>1, <2>2, Bystander DEF Writing, Fetched
<1>8. CASE ReadChunk(s)
  <2>1. /\ UNCHANGED <<model, row, file, fetched, task, touched>> /\ req[s].at = "assemble"
        /\ \E b : req' \in {Done(s), [req EXCEPT ![s].got = Append(@, b)]}
    BY <1>8 DEF ReadChunk
  <2>2. \A x \in Slots : req'[x] = req[x] \/ req'[x].at \in {"idle", "assemble"}
    BY <1>b, <1>c, <2>1 DEF Requests
  <2> QED
    BY <1>a, <2>1, <2>2, Bystander DEF Writing, Fetched
<1>9. CASE Replace(s) \/ AssembleObject(s)
  <2> DEFINE m == req[s].label
  <2>1. req[s].at = "assemble" /\ m \in Labels /\ UNCHANGED <<model, row, fetched, task>>
    BY <1>9, <1>b DEF Replace, AssembleObject, Requests
  <2>2. CASE req' = Done(s) /\ UNCHANGED <<file, touched>>
    <3>1. \A x \in Slots : req'[x] = req[x] \/ req'[x].at = "idle"
      BY <1>b, <1>c, <2>2
    <3> QED
      BY <1>a, <2>1, <2>2, <3>1, Bystander DEF Writing, Fetched
  <2>3. ASSUME NEW d,
               file' = [file EXCEPT ![m] = Holding(d)], Touch(s, m),
               req'[s] = Placed(req[s], d),
               \A x \in Slots \ {s} : /\ req'[x].at = req[x].at /\ req'[x].label = req[x].label
                                      /\ req'[x].got = req[x].got
                                      /\ req[x].label # m => req'[x] = req[x]
        PROVE  LabelRight(l)'
    <3>1. /\ req'[s].at \in {"idle", "row"}
          /\ req'[s].at = "row" => req'[s].label = m /\ req'[s].got = d
      BY <2>3, <1>c DEF Placed, Recording
    <3>2. CASE l = m
      <4>1. file'[l] = Holding(d)
        BY <1>b, <2>3, <3>2
      <4> QED
        BY <1>a, <1>d, <2>1, <2>3, <3>1, <3>2, <4>1, Alone DEF Writing
    <3>3. CASE l # m
      <4>1. file'[l] = file[l] /\ touched \subseteq touched'
        BY <1>b, <1>d, <2>1, <2>3, <3>3
      <4>2. \A x \in Slots : /\ Writing(x, l)' => Writing(x, l) /\ req'[x] = req[x]
                             /\ req'[x].at = "delete" => req[x].at = "delete"
        BY <2>3, <3>1, <3>3 DEF Writing
      <4> QED
        BY <1>a, <2>1, <4>1, <4>2, Bystander DEF Fetched
    <3> QED
      BY <3>2, <3>3
  <2>4. CASE Replace(s)
    <3>1. CASE req[s].attached
      <4>1. /\ file' = [file EXCEPT ![m] = Holding(req[s].got)] /\ Touch(s, m)
            /\ req' = [Detach(req, m, "stream") EXCEPT ![s] = Placed(req[s], req[s].got)]
        BY <2>4, <3>1 DEF Replace
      <4>2. /\ Detach(req, m, "stream") \in [Slots -> Requests]
            /\ \A x \in Slots : /\ Detach(req, m, "stream")[x].at = req[x].at
                                /\ Detach(req, m, "stream")[x].label = req[x].label
                                /\ Detach(req, m, "stream")[x].got = req[x].got
                                /\ req[x].label # m => Detach(req, m, "stream")[x] = req[x]
        BY <1>b, Detached
      <4>3. /\ req'[s] = Placed(req[s], req[s].got)
            /\ \A x \in Slots \ {s} : req'[x] = Detach(req, m, "stream")[x]
        BY <4>1, <4>2
      <4> QED
        BY <2>3, <4>1, <4>2, <4>3
    <3>2. CASE ~req[s].attached
      <4>1. req' = Done(s) /\ UNCHANGED <<file, touched>>
        BY <2>4, <3>2 DEF Replace
      <4> QED
        BY <2>2, <4>1
    <3> QED
      BY <3>1, <3>2
  <2>5. CASE AssembleObject(s)
    <3> DEFINE data == SubSeq(chunks[m], 1, req[s].size)
    <3>1. CASE Contains(data, None)
      BY <2>2, <2>5, <3>1 DEF AssembleObject
    <3>2. CASE ~Contains(data, None)
      <4>1. /\ file' = [file EXCEPT ![m] = Holding(data)] /\ Touch(s, m)
            /\ req' = [req EXCEPT ![s] = Placed(req[s], data)]
        BY <2>5, <3>2 DEF AssembleObject
      <4> HIDE DEF data
      <4>2. req'[s] = Placed(req[s], data) /\ \A x \in Slots \ {s} : req'[x] = req[x]
        BY <1>b, <4>1
      <4> QED
        BY <2>3, <4>1, <4>2
    <3> QED
      BY <3>1, <3>2
  <2> QED
    BY <1>9, <2>4, <2>5
<1>10. CASE DeleteFiles(s)
  <2>1. /\ model /\ UNCHANGED <<model, row, task>>
        /\ file' = [x \in Labels |-> Absent]
        /\ touched' = touched \cup {x \in Labels : row[x] # NoRow \/ Shared(s, x)
                               \/ \E t \in Tasks : task[t].label = x}
        /\ req' = [x \in Slots |-> IF x = s THEN Deleting
                                   ELSE [req[x] EXCEPT !.attached = FALSE]]
    BY <1>10 DEF DeleteFiles
  <2> SUFFICES ASSUME l \notin touched'
               PROVE  /\ RowRight(l)'
                      /\ \A x \in Slots : WriterRight(x, l)'
                      /\ \A t \in Tasks : FetcherRight(t, l)'
                      /\ Emptied(l)'
    BY DEF LabelRight
  <2>2. row[l] = NoRow /\ ~Shared(s, l) /\ \A t \in Tasks : task[t].label # l
    BY <2>1
  <2>3. RowRight(l)'
    BY <2>1, <2>2 DEF RowRight, NoRow, None
  <2>4. \A x \in Slots \ {s} : req[x].label # l
    BY <2>2 DEF Shared
  <2>5. \A x \in Slots \ {s} : req'[x].label = req[x].label
    BY <1>b, <2>1 DEF Requests
  <2>6. \A x \in Slots : ~Writing(x, l)'
    BY <1>c, <2>1, <2>4, <2>5 DEF Writing
  <2>7. \A t \in Tasks : ~Fetched(t, l)'
    BY <2>1, <2>2 DEF Fetched
  <2>8. Emptied(l)'
    BY <2>1 DEF Emptied, Absent
  <2> QED
    BY <2>3, <2>6, <2>7, <2>8 DEF WriterRight, FetcherRight
<1>11. CASE DeleteRow(s)
  <2>1. /\ req[s].at = "delete" /\ req' = Done(s)
        /\ UNCHANGED <<file, fetched, task, touched>>
        /\ \/ UNCHANGED <<model, row>>
           \/ row' = [x \in Labels |-> NoRow]
    BY <1>11 DEF DeleteRow
  <2>2. \A x \in Slots : req'[x] = req[x] \/ req'[x].at = "idle"
    BY <1>b, <1>c, <2>1
  <2>3. CASE UNCHANGED <<model, row>>
    BY <1>a, <2>1, <2>2, <2>3, Bystander DEF Writing, Fetched
  <2>4. CASE row' = [x \in Labels |-> NoRow]
    <3> SUFFICES ASSUME l \notin touched
                 PROVE  /\ RowRight(l)'
                        /\ \A x \in Slots : WriterRight(x, l)'
                        /\ \A t \in Tasks : FetcherRight(t, l)'
                        /\ Emptied(l)'
      BY <2>1 DEF LabelRight
    <3>1. /\ \A x \in Slots : WriterRight(x, l)
          /\ \A t \in Tasks : FetcherRight(t, l)
          /\ Emptied(l)
      BY <1>a DEF LabelRight
    <3>2. row'[l].at = "none"
      BY <2>4 DEF NoRow, None
    <3>3. RowRight(l)'
      BY <3>2 DEF RowRight
    <3>4. \A x \in Slots : Writing(x, l)' => Writing(x, l) /\ req'[x] = req[x]
      BY <2>2 DEF Writing
    <3>5. ASSUME NEW x \in Slots PROVE WriterRight(x, l)'
      BY <3>1, <3>2, <3>4, <2>1 DEF WriterRight, Holding
    <3>6. ASSUME NEW t \in Tasks PROVE FetcherRight(t, l)'
      BY <3>1, <3>2, <2>1 DEF FetcherRight, Fetched, Holding
    <3>7. Emptied(l)'
      BY <3>1, <2>1 DEF Emptied
    <3> QED
      BY <3>3, <3>5, <3>6, <3>7
  <2> QED
    BY <2>1, <2>3, <2>4
<1> QED
  BY <1>1, <1>2, <1>3, <1>4, <1>5, <1>6, <1>7, <1>8, <1>9, <1>10, <1>11

\* A step of a download keeps what is known of every label.
LEMMA TaskLabels ==
  ASSUME UploadsAssumption, UploadsInv, UploadsTypeOK', NEW l \in Labels, NEW t \in Tasks,
         UrlStart(t) \/ UrlFetch(t) \/ UrlRow(t) \/ UrlMark(t)
  PROVE  LabelRight(l)'
<1>a. LabelRight(l)
  BY DEF UploadsInv
<1>b. /\ task \in [Tasks -> Fetches] /\ row \in [Labels -> Rows \cup {NoRow}]
      /\ fetched \in [Labels -> File] /\ task' \in [Tasks -> Fetches]
  BY DEF UploadsInv, UploadsTypeOK
<1>1. CASE UrlStart(t) \/ UrlMark(t)
  <2>1. UNCHANGED <<model, row, file, fetched, req, touched>>
    BY <1>1 DEF UrlStart, UrlMark
  <2>2. \A x \in Tasks : task'[x] = task[x] \/ task'[x].at \in {"fetch", "ended"}
    BY <1>1, <1>b DEF UrlStart, UrlMark, Fetches
  <2> QED
    BY <1>a, <2>1, <2>2, Bystander DEF Writing, Fetched
<1>2. CASE UrlFetch(t)
  <2> DEFINE m == task[t].label
             busy == \E x \in Tasks \ {t} : task[x].label = m /\ task[x].at \in {"fetch", "row", "mark"}
  <2>1. task[t].at = "fetch" /\ m \in Labels /\ UNCHANGED <<model, row, file, req>>
    BY <1>2, <1>b, FetchParts DEF Fetches, None
  <2>2. ASSUME NEW d, NEW at \in {"row", "fail"},
               fetched' = [fetched EXCEPT ![m] = d],
               task'[t].at = at /\ task'[t].label = m,
               at = "row" => d = Holding(task'[t].got),
               \A x \in Tasks \ {t} : task'[x] = task[x],
               touched \subseteq touched',
               row[m].at = "fetched" \/ busy => m \in touched'
        PROVE  LabelRight(l)'
    <3>1. CASE l # m
      <4>1. fetched'[l] = fetched[l] /\ ~Fetched(t, l)'
        BY <1>b, <2>2, <3>1 DEF Fetched
      <4> QED
        BY <1>a, <2>1, <2>2, <4>1, Bystander DEF Writing, Fetched
    <3>2. CASE l = m
      <4> SUFFICES ASSUME l \notin touched'
                   PROVE  /\ RowRight(l)'
                          /\ \A x \in Slots : WriterRight(x, l)'
                          /\ \A x \in Tasks : FetcherRight(x, l)'
                          /\ Emptied(l)'
        BY DEF LabelRight
      <4>1. /\ RowRight(l) /\ \A x \in Slots : WriterRight(x, l)
            /\ Emptied(l)
        BY <1>a, <2>2 DEF LabelRight
      <4>2. row[l].at # "fetched" /\ ~busy /\ fetched'[l] = d
        BY <1>b, <2>2, <3>2
      <4>3. RowRight(l)'
        BY <4>1, <4>2, <2>1 DEF RowRight, Holding
      <4>4. ASSUME NEW x \in Slots PROVE WriterRight(x, l)'
        BY <4>1, <2>1 DEF WriterRight, Writing, Holding
      <4>5. \A x \in Tasks : Fetched(x, l)' => x = t
        BY <4>2, <2>2, <3>2 DEF Fetched
      <4>6. ASSUME NEW x \in Tasks PROVE FetcherRight(x, l)'
        <5>1. SUFFICES ASSUME Fetched(x, l)'
                       PROVE  /\ fetched'[l] = Holding(task'[x].got)
                              /\ row'[l].at # "fetched"
                              /\ \A y \in Tasks : Fetched(y, l)' => y = x
          BY DEF FetcherRight, Holding
        <5>2. x = t /\ at = "row"
          BY <5>1, <4>5, <2>2 DEF Fetched
        <5> QED
          BY <5>2, <4>2, <4>5, <2>1, <2>2
      <4>7. Emptied(l)'
        BY <4>1, <2>1 DEF Emptied
      <4> QED
        BY <4>3, <4>4, <4>6, <4>7
    <3> QED
      BY <3>1, <3>2
  <2>3. ASSUME NEW d, fetched' = [fetched EXCEPT ![m] = Holding(d)],
               task' = [task EXCEPT ![t].at = "row", ![t].got = d],
               touched' = IF row[m].at = "fetched" \/ busy \/ \E x \in Slots : req[x].at = "delete"
                          THEN touched \cup {m} ELSE touched
        PROVE  LabelRight(l)'
    <3>1. /\ task'[t].at = "row" /\ task'[t].label = m /\ task'[t].got = d
          /\ \A x \in Tasks \ {t} : task'[x] = task[x]
      BY <1>b, <2>3 DEF Fetches
    <3>2. touched \subseteq touched' /\ (row[m].at = "fetched" \/ busy => m \in touched')
      BY <2>3
    <3> HIDE DEF busy
    <3> QED
      BY <2>2, <2>3, <3>1, <3>2
  <2>4. ASSUME fetched' = [fetched EXCEPT ![m] = Absent],
               task' = [task EXCEPT ![t].at = "fail"],
               touched' = IF row[m].at = "fetched" \/ busy THEN touched \cup {m} ELSE touched
        PROVE  LabelRight(l)'
    <3>1. /\ task'[t].at = "fail" /\ task'[t].label = m
          /\ \A x \in Tasks \ {t} : task'[x] = task[x]
      BY <1>b, <2>4 DEF Fetches
    <3>2. touched \subseteq touched' /\ (row[m].at = "fetched" \/ busy => m \in touched')
      BY <2>4
    <3> HIDE DEF busy
    <3> QED
      BY <2>2, <2>4, <3>1, <3>2
  <2>5. CASE task' = [task EXCEPT ![t].at = "fail"] /\ UNCHANGED <<fetched, touched>>
    <3>1. \A x \in Tasks : task'[x] = task[x] \/ task'[x].at = "fail"
      BY <1>b, <2>5 DEF Fetches
    <3> QED
      BY <1>a, <2>1, <2>5, <3>1, Bystander DEF Writing, Fetched
  <2> QED
    BY <1>2, <2>3, <2>4, <2>5, FetchParts
<1>3. CASE UrlRow(t)
  <2> DEFINE m == task[t].label
  <2>1. /\ task[t].at = "row" /\ UNCHANGED <<model, file, fetched, req, touched>>
        /\ row' = IF model /\ row[m] = NoRow
                    THEN [row EXCEPT ![m] = [at |-> "fetched", hash |-> task[t].got]] ELSE row
        /\ task' = [task EXCEPT ![t].at = "mark", ![t].got = <<>>]
    BY <1>3 DEF UrlRow
  <2>2. task'[t].at = "mark" /\ \A x \in Tasks \ {t} : task'[x] = task[x]
    BY <1>b, <2>1 DEF Fetches
  <2>3. CASE UNCHANGED row \/ l # m
    <3>1. row'[l] = row[l]
      BY <1>b, <2>1, <2>3
    <3>2. \A x \in Tasks : Fetched(x, l)' => Fetched(x, l) /\ task'[x].got = task[x].got
      BY <2>2 DEF Fetched
    <3>3. \A x \in Slots : Writing(x, l)' => Writing(x, l)
      BY <2>1 DEF Writing
    <3> QED
      BY <1>a, <2>1, <3>1, <3>2, <3>3, Bystander
  <2>4. CASE ~UNCHANGED row /\ l = m
    <3>1. row'[l] = [at |-> "fetched", hash |-> task[t].got]
      BY <1>b, <2>1, <2>4
    <3> SUFFICES ASSUME l \notin touched
                 PROVE  /\ RowRight(l)'
                        /\ \A x \in Slots : WriterRight(x, l)'
                        /\ \A x \in Tasks : FetcherRight(x, l)'
                        /\ Emptied(l)'
      BY <2>1 DEF LabelRight
    <3>2. /\ FetcherRight(t, l) /\ Fetched(t, l)
          /\ \A x \in Slots : WriterRight(x, l)
          /\ Emptied(l)
      BY <1>a, <2>1, <2>4 DEF LabelRight, Fetched
    <3>3. RowRight(l)'
      BY <3>1, <3>2, <2>1 DEF RowRight, FetcherRight, Holding
    <3>4. \A x \in Tasks : ~Fetched(x, l)'
      BY <2>2, <3>2 DEF FetcherRight, Fetched
    <3>5. ASSUME NEW x \in Slots PROVE WriterRight(x, l)'
      BY <3>1, <3>2, <2>1 DEF WriterRight, Writing, Holding
    <3>6. Emptied(l)'
      BY <3>2, <2>1 DEF Emptied
    <3> QED
      BY <3>3, <3>4, <3>5, <3>6 DEF FetcherRight
  <2> QED
    BY <2>3, <2>4
<1> QED
  BY <1>1, <1>2, <1>3

LEMMA RestartLabels ==
  ASSUME UploadsInv, NEW l \in Labels, UploadsRestart
  PROVE  LabelRight(l)'
<1>1. LabelRight(l) /\ task \in [Tasks -> Fetches]
  BY DEF UploadsInv, UploadsTypeOK
<1>2. \A x \in Slots : req'[x].at = "idle"
  BY DEF UploadsRestart, Idle
<1>3. \A t \in Tasks : task'[t].at \in {"new", "ended"}
  BY <1>1 DEF UploadsRestart, Fetches
<1> QED
  BY <1>1, <1>2, <1>3, Bystander DEF UploadsRestart, Writing, Fetched

LEMMA RequestTasks ==
  ASSUME UploadsInv, NEW s \in Slots,
         \/ UploadOpen(s) \/ UploadBlock(s) \/ UploadEnd(s) \/ UploadObject(s) \/ UploadNothing(s)
         \/ CreateRow(s) \/ Chunk(s) \/ ReadChunk(s) \/ Replace(s) \/ AssembleObject(s)
         \/ DeleteFiles(s) \/ DeleteRow(s)
  PROVE  TasksAgree'
<1>1. UNCHANGED task
  BY DEF UploadOpen, UploadBlock, UploadEnd, UploadObject, UploadNothing, CreateRow, Chunk,
         ReadChunk, Replace, AssembleObject, DeleteFiles, DeleteRow
<1>2. /\ row \in [Labels -> Rows \cup {NoRow}] /\ req \in [Slots -> Requests]
      /\ \A t \in Tasks : task[t].at = "mark" \/ task[t].status = "completed" =>
                            task[t].status # None /\ task[t].label \in Labels
      /\ TasksAgree
  BY DEF UploadsInv, UploadsTypeOK, Fetches, None
<1>3. CASE DeleteRow(s) /\ ~UNCHANGED <<model, row>>
  BY <1>1, <1>2, <1>3 DEF DeleteRow, TasksAgree
<1>4. CASE ~DeleteRow(s) \/ UNCHANGED <<model, row>>
  <2>1. UNCHANGED model
    BY <1>4 DEF UploadOpen, UploadBlock, UploadEnd, UploadObject, UploadNothing, CreateRow, Chunk,
                ReadChunk, Replace, AssembleObject, DeleteFiles
  <2>2. \A l \in Labels : row[l] # NoRow => row'[l] # NoRow
    <3>1. CASE UploadNothing(s)
      BY <1>2, <3>1 DEF UploadNothing
    <3>2. CASE CreateRow(s)
      BY <1>2, <3>2 DEF CreateRow, NoRow, None
    <3>3. CASE ~UploadNothing(s) /\ ~CreateRow(s)
      BY <1>4, <3>3 DEF UploadOpen, UploadBlock, UploadEnd, UploadObject, Chunk,
                        ReadChunk, Replace, AssembleObject, DeleteFiles
    <3> QED
      BY <3>1, <3>2, <3>3
  <2> QED
    BY <1>1, <1>2, <2>1, <2>2 DEF TasksAgree
<1> QED
  BY <1>3, <1>4

LEMMA TaskTasks ==
  ASSUME UploadsInv, NEW t \in Tasks,
         UrlStart(t) \/ UrlFetch(t) \/ UrlRow(t) \/ UrlMark(t)
  PROVE  TasksAgree'
<1>1. /\ row \in [Labels -> Rows \cup {NoRow}] /\ task \in [Tasks -> Fetches]
      /\ \A x \in Tasks : task[x].at # "new" <=> task[x].status # None
      /\ TasksAgree
  BY DEF UploadsInv, UploadsTypeOK, Fetches
<1>2. CASE UrlStart(t)
  <2>1. /\ UNCHANGED <<model, row>> /\ model /\ task'[t].at = "fetch" /\ task'[t].status = "pending"
        /\ \A x \in Tasks \ {t} : task'[x] = task[x]
    BY <1>1, <1>2 DEF UrlStart
  <2> QED
    BY <1>1, <2>1 DEF TasksAgree
<1>3. CASE UrlFetch(t)
  <2>1. task[t].at = "fetch" /\ UNCHANGED <<model, row>>
    BY <1>3, FetchParts
  <2>2. /\ \A x \in Tasks \ {t} : task'[x] = task[x]
        /\ task'[t].at \in {"row", "fail"} /\ task'[t].label = task[t].label
        /\ task'[t].status = task[t].status
    <3>1. \E d : task' \in {[task EXCEPT ![t].at = "row", ![t].got = d], [task EXCEPT ![t].at = "fail"]}
      BY <1>3, FetchParts
    <3> QED
      BY <1>1, <3>1 DEF Fetches
  <2> QED
    BY <1>1, <2>1, <2>2 DEF TasksAgree
<1>4. CASE UrlRow(t)
  <2>1. /\ task[t].at = "row" /\ UNCHANGED model
        /\ row' = IF model /\ row[task[t].label] = NoRow
                    THEN [row EXCEPT ![task[t].label] = [at |-> "fetched", hash |-> task[t].got]] ELSE row
        /\ task' = [task EXCEPT ![t].at = "mark", ![t].got = <<>>]
    BY <1>4 DEF UrlRow
  <2>2. /\ task'[t].at = "mark" /\ task'[t].label = task[t].label /\ task'[t].status = task[t].status
        /\ \A x \in Tasks \ {t} : task'[x] = task[x]
    BY <1>1, <2>1 DEF Fetches
  <2>3. model /\ task[t].label \in Labels
    BY <1>1, <2>1 DEF TasksAgree, Fetches
  <2>4. \A l \in Labels : row[l] # NoRow => row'[l] # NoRow
    BY <1>1, <2>1
  <2>5. row'[task[t].label] # NoRow
    BY <1>1, <2>1, <2>3 DEF NoRow, None
  <2>6. \A x \in Tasks : task[x].status # None => task[x].label \in Labels
    BY <1>1 DEF Fetches
  <2> QED
    BY <1>1, <2>1, <2>2, <2>3, <2>4, <2>5, <2>6 DEF TasksAgree, None
<1>5. CASE UrlMark(t)
  <2>1. /\ task[t].at \in {"mark", "fail"} /\ UNCHANGED <<model, row>>
        /\ task'[t].at = "ended" /\ task'[t].label = task[t].label
        /\ task'[t].status = "completed" => task[t].at = "mark"
        /\ \A x \in Tasks \ {t} : task'[x] = task[x]
    BY <1>1, <1>5 DEF UrlMark, Fetches
  <2> QED
    BY <1>1, <2>1 DEF TasksAgree
<1> QED
  BY <1>2, <1>3, <1>4, <1>5

LEMMA RestartTasks == UploadsInv /\ UploadsRestart => TasksAgree'
<1> SUFFICES ASSUME UploadsInv, UploadsRestart PROVE TasksAgree'
  OBVIOUS
<1>1. task \in [Tasks -> Fetches] /\ TasksAgree
  BY DEF UploadsInv, UploadsTypeOK
<1>2. \A t \in Tasks : /\ task'[t].label = task[t].label /\ task'[t].status = task[t].status
                       /\ task'[t].at \in {"new", "ended"}
  BY <1>1 DEF UploadsRestart, Fetches
<1> QED
  BY <1>1, <1>2 DEF TasksAgree, UploadsRestart

LEMMA UploadsInvHolds == ASSUME UploadsAssumption PROVE UploadsSpec => []UploadsInv
<1>1. UploadsInit => UploadsInv
  <2> SUFFICES ASSUME UploadsInit PROVE UploadsInv
    OBVIOUS
  <2>1. UploadsTypeOK
    BY TypesStart
  <2>2. TasksAgree
    BY DEF UploadsInit, Unused, TasksAgree, None
  <2>3. ASSUME NEW l \in Labels PROVE LabelRight(l)
    BY DEF UploadsInit, LabelRight, RowRight, WriterRight, FetcherRight, Emptied, Writing, Fetched,
           NoRow, None, Idle, Unused, Absent
  <2> QED
    BY <2>1, <2>2, <2>3 DEF UploadsInv
<1>2. UploadsInv /\ [UploadsNext]_uploadsVars => UploadsInv'
  <2> SUFFICES ASSUME UploadsInv, [UploadsNext]_uploadsVars PROVE UploadsInv'
    OBVIOUS
  <2>1. UploadsTypeOK'
    BY TypesKept DEF UploadsInv
  <2>2. TasksAgree'
    <3>1. CASE UNCHANGED uploadsVars
      BY <3>1 DEF UploadsInv, TasksAgree, uploadsVars
    <3> QED
      BY <3>1, RequestTasks, TaskTasks, RestartTasks DEF UploadsNext
  <2>3. ASSUME NEW l \in Labels PROVE LabelRight(l)'
    <3>1. CASE UNCHANGED uploadsVars
      BY <3>1, Bystander DEF UploadsInv, uploadsVars, Writing, Fetched
    <3> QED
      BY <3>1, <2>1, RequestLabels, TaskLabels, RestartLabels DEF UploadsNext
  <2> QED
    BY <2>1, <2>2, <2>3 DEF UploadsInv
<1> QED
  BY <1>1, <1>2, PTL DEF UploadsSpec

\* Rows and files are well formed, and a row's file holds the bytes its hash
\* was computed from, unless another actor has written or removed it: for any
\* number of labels, clients, blocks and downloads, over either store.
THEOREM FilesAlwaysRecorded == UploadsSpec => []FilesRecorded
<1>1. UploadsInv => FilesRecorded
  BY DEF UploadsInv, LabelRight, RowRight, FilesRecorded, RecordedBytes
<1> QED
  BY <1>1, UploadsAssumption, UploadsInvHolds, PTL

\* A completed download has its version, and the files of a deleted model are
\* gone.
THEOREM DeletionAlwaysTrue == UploadsSpec => []DeletionTrue
<1>1. UploadsInv => CompletedListed
  BY DEF UploadsInv, TasksAgree, CompletedListed
<1>2. UploadsInv => NoOrphanFiles
  BY DEF UploadsInv, LabelRight, Emptied, NoOrphanFiles
<1> QED
  BY <1>1, <1>2, UploadsAssumption, UploadsInvHolds, PTL DEF DeletionTrue
==============================================================================
