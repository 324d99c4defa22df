---------------------------- MODULE CacheManager ----------------------------
(***************************************************************************)
(* The quantize level of the cache (cache/manager.py), the quantize runs   *)
(* that look into it and fill it (server/tasks.py) and the requests that   *)
(* prune it (server/routers/cache.py; deleting a model purges it too).     *)
(*                                                                         *)
(* An entry's key is (model, bits, source version); its file's name is     *)
(* made of the model and the bits alone.  Lookups and pruning run on the   *)
(* event loop, put() in a worker thread: the lock is held while the index  *)
(* changes, but not while a file is copied and hashed.                     *)
(***************************************************************************)
EXTENDS Naturals, FiniteSets

CONSTANTS
  Keys,          \* [model, bits, ver] triples that are quantized
  Runs,          \* concurrent quantize runs
  Interval,      \* _ACCESS_PERSIST_INTERVAL
  MaxAge,        \* max_age_days
  Caps,          \* values of max_size_gb, in files; 0 is "no limit"
  MaxTime        \* bound: clock readings

ASSUME ConstantsAssumption ==
  /\ IsFiniteSet(Keys) /\ Interval \in Nat /\ MaxAge \in Nat \ {0}
  /\ Caps \subseteq Nat /\ MaxTime \in Nat /\ Interval < MaxTime
  /\ \A k \in Keys : k.ver \notin {"none", "partial"}

Path(k) == <<k.model, k.bits>>
Paths   == {Path(k) : k \in Keys}
Models  == {k.model : k \in Keys}
Vers    == {k.ver : k \in Keys}

VARIABLES
  mem,       \* CacheManager._index: last_accessed of each entry, 0 if absent
  disk,      \* the same in index.json
  files,     \* contents of each path: "none", "partial" or a version's weights
  lastSave,  \* _last_index_save
  loop,      \* "free", or "saving" when a prune has still to write the index
  now,       \* the clock
  pc,        \* where each run stands
  job,       \* the key a run quantizes
  torn,      \* runs whose copy was truncated or unlinked under them
  limit,     \* history: the size limit of the last gc that had one
  begun      \* history: the paths whose copy was begun since that gc

index == <<mem, disk, lastSave>>
runs  == <<pc, job, torn>>
since == <<limit, begun>>
vars  == <<index, files, loop, now, runs, since>>

Putting == {"copying", "indexing"}
Control == {"idle", "looking", "converting"} \cup Putting

NoKey == [model |-> "none", bits |-> 0, ver |-> "none"]

Move(r, from, to) == pc[r] = from /\ pc' = [pc EXCEPT ![r] = to]

Leave(r, from) ==
  /\ Move(r, from, "idle")
  /\ job' = [job EXCEPT ![r] = NoKey]

Present(k) == mem[k] > 0

Writers(ps) == {r \in Runs : pc[r] = "copying" /\ Path(job[r]) \in ps}

Unlink(ps) ==
  /\ files' = [p \in Paths |-> IF p \in ps THEN "none" ELSE files[p]]
  /\ torn' = torn \cup Writers(ps)

----------------------------------------------------------------------------
(* A quantize run *)

Submit(r, k) ==
  /\ Move(r, "idle", "looking")
  /\ job' = [job EXCEPT ![r] = k]
  /\ UNCHANGED <<index, files, loop, now, torn, since>>

\* has() is false when the file is missing, so get() never heals such an entry.
Servable(k) == Present(k) /\ files[Path(k)] # "none"

Miss(r) ==
  /\ Move(r, "looking", "converting")
  /\ loop = "free" /\ ~Servable(job[r])
  /\ UNCHANGED <<index, files, loop, now, job, torn, since>>

\* Mutant: a hit is recorded in memory only (before E-R4).
PersistNothing(changed) == UNCHANGED <<disk, lastSave>>

\* A hit writes the index only when the last write is old enough.
Persist(changed) ==
  IF now - lastSave > Interval
  THEN disk' = changed /\ lastSave' = now
  ELSE UNCHANGED <<disk, lastSave>>

Hit(r) ==
  /\ Leave(r, "looking")
  /\ loop = "free" /\ Servable(job[r])
  /\ mem' = [mem EXCEPT ![job[r]] = now]
  /\ Persist(mem')
  /\ UNCHANGED <<files, loop, now, torn, since>>

\* The conversion yields no path: nothing is cached.
NoOutput(r) ==
  /\ Leave(r, "converting")
  /\ UNCHANGED <<index, files, loop, now, torn, since>>

\* copy2 truncates the file, also one that another thread is writing.
StartCopy(r) ==
  /\ Move(r, "converting", "copying")
  /\ files' = [files EXCEPT ![Path(job[r])] = "partial"]
  /\ LET others == Writers({Path(job[r])})
     IN torn' = torn \cup others \cup (IF others = {} THEN {} ELSE {r})
  /\ begun' = begun \cup {Path(job[r])}
  /\ UNCHANGED <<index, loop, now, job, limit>>

\* A disturbed copy ends in whatever the writers left, in a mixture of theirs,
\* or nowhere: then hashing the file raises, and the run only logs that.
EndCopy(r) ==
  LET p == Path(job[r]) IN
  /\ pc[r] = "copying"
  /\ \E content \in IF r \notin torn           THEN {job[r].ver}
                    ELSE IF files[p] = "none" THEN {"none"}
                    ELSE {files[p], "partial", job[r].ver} :
       /\ files' = [files EXCEPT ![p] = content]
       /\ IF content = "none" THEN Leave(r, "copying")
          ELSE Move(r, "copying", "indexing") /\ UNCHANGED job
  /\ torn' = torn \ {r}
  /\ UNCHANGED <<index, loop, now, since>>

\* Mutant: the entry is written to the index but the index is not saved.
IndexMemory(r) ==
  /\ loop = "free"
  /\ Leave(r, "indexing")
  /\ mem' = [mem EXCEPT ![job[r]] = now]
  /\ UNCHANGED <<disk, lastSave, files, loop, now, torn, since>>

\* Mutant: the entry is stamped with the end of its grace period.
IndexAhead(r) ==
  /\ loop = "free"
  /\ Leave(r, "indexing")
  /\ mem' = [mem EXCEPT ![job[r]] = now + Interval]
  /\ disk' = mem' /\ lastSave' = now
  /\ UNCHANGED <<files, loop, now, torn, since>>

\* Under the lock: the entry, and index.json replaced atomically (E-R1).
Index(r) ==
  /\ loop = "free"
  /\ Leave(r, "indexing")
  /\ mem' = [mem EXCEPT ![job[r]] = now]
  /\ disk' = mem' /\ lastSave' = now
  /\ UNCHANGED <<files, loop, now, torn, since>>

Run(r) ==
  \/ \E k \in Keys : Submit(r, k)
  \/ Miss(r) \/ Hit(r) \/ NoOutput(r)
  \/ StartCopy(r) \/ EndCopy(r) \/ Index(r)

----------------------------------------------------------------------------
(* Pruning: the entries and the files go first, the index is saved last *)

Drop(ks) == mem' = [k \in Keys |-> IF k \in ks THEN 0 ELSE mem[k]]

Aged(maxAge) == {k \in Keys : Present(k) /\ maxAge > 0 /\ now - mem[k] > maxAge}

PathsOf(ks) == {Path(k) : k \in ks}

\* What gc believes is left of the entries ks after evicting E: each entry
\* counts its file once, and a file is subtracted when it goes.
Counted(ks, E, stored) ==
  Cardinality({k \in ks : Path(k) \in stored}) - Cardinality(PathsOf(E) \cap stored)

\* E is evicted in the order of last_accessed, and no longer than necessary.
Evicted(cap, ks, E, stored) ==
  /\ \A e \in E, k \in ks \ E : mem[e] <= mem[k]
  /\ Counted(ks, E, stored) <= cap \/ E = ks
  /\ E # {} => \E last \in E : /\ \A e \in E : mem[e] <= mem[last]
                               /\ Counted(ks, E \ {last}, stored) > cap

\* Mutant: gc never looks at the file system (before E-R6).
OrphansIgnored(kept) == {}

\* _reconcile_orphans: files no entry names, one being copied included
Orphans(kept) == {p \in Paths : files[p] # "none"} \ PathsOf(kept)

\* The entries gc may drop: the aged ones, then some by size (E-R4)
Victims(maxAge, cap) ==
  LET aged == Aged(maxAge)
      rest == {k \in Keys : Present(k)} \ aged
      stored == {p \in Paths : files[p] # "none"} \ PathsOf(aged)
  IN {aged \cup E : E \in {E \in SUBSET rest :
                             IF cap = 0 THEN E = {} ELSE Evicted(cap, rest, E, stored)}}

\* The files that go with the entries ks: theirs, and every one that no entry
\* names (E-R6)
Swept(ks) == PathsOf(ks) \cup Orphans({k \in Keys : Present(k)} \ ks)

Gc(maxAge, cap) ==
  /\ loop = "free"
  /\ UNCHANGED <<disk, lastSave, now, pc, job>>
  /\ \E ks \in Victims(maxAge, cap) :
       /\ Drop(ks) /\ Unlink(Swept(ks))
       /\ loop' = IF Swept(ks) = {} THEN "free" ELSE "saving"
  /\ IF cap = 0 THEN UNCHANGED since ELSE limit' = cap /\ begun' = {}

\* DELETE /cache/{model_id}, and DELETE of the model itself
RemoveModel(m) ==
  LET ks == {k \in Keys : k.model = m /\ Present(k)} IN
  /\ loop = "free" /\ ks # {}
  /\ Drop(ks) /\ Unlink(PathsOf(ks))
  /\ loop' = "saving"
  /\ UNCHANGED <<disk, lastSave, now, pc, job, since>>

SaveIndex ==
  /\ loop = "saving"
  /\ loop' = "free"
  /\ disk' = mem /\ lastSave' = now
  /\ UNCHANGED <<mem, files, now, runs, since>>

\* Entries without a file are dropped; a wrong hash is only reported.
Validate ==
  /\ loop = "free" /\ \E k \in Keys : Present(k) /\ ~Servable(k)
  /\ Drop({k \in Keys : Present(k) /\ ~Servable(k)})
  /\ disk' = mem' /\ lastSave' = now
  /\ UNCHANGED <<files, loop, now, runs, since>>

Prune == SaveIndex \/ Validate \/ \E m \in Models : RemoveModel(m)

----------------------------------------------------------------------------
Tick == now < MaxTime /\ now' = now + 1 /\ UNCHANGED <<index, files, loop, runs, since>>

\* The process restarts and loads the index, or finds it gone (removed by
\* hand, or quarantined as corrupt, E-R1).
Restart ==
  /\ disk' \in {disk, [k \in Keys |-> 0]}
  /\ mem' = disk'
  /\ lastSave' = 0 /\ loop' = "free"
  /\ pc' = [r \in Runs |-> "idle"]
  /\ job' = [r \in Runs |-> NoKey] /\ torn' = {}
  /\ UNCHANGED <<files, now, since>>

Init ==
  /\ mem = [k \in Keys |-> 0] /\ disk = mem
  /\ files = [p \in Paths |-> "none"]
  /\ lastSave = 0 /\ loop = "free" /\ now = Interval + 1
  /\ pc = [r \in Runs |-> "idle"]
  /\ job = [r \in Runs |-> NoKey] /\ torn = {}
  /\ limit = 0 /\ begun = {}

Next ==
  \/ \E r \in Runs : Run(r)
  \/ Prune
  \/ \E age \in {0, MaxAge}, cap \in Caps : Gc(age, cap)
  \/ Tick
  \/ Restart

Spec == Init /\ [][Next]_vars

----------------------------------------------------------------------------
(* Properties *)

Time == 0 .. MaxTime

\* Every variable keeps its type.
TypeOK ==
  /\ mem \in [Keys -> Time] /\ disk \in [Keys -> Time]
  /\ files \in [Paths -> {"none", "partial"} \cup Vers]
  /\ lastSave \in Time /\ now \in Time
  /\ loop \in {"free", "saving"}
  /\ pc \in [Runs -> Control]
  /\ job \in [Runs -> Keys \cup {NoKey}]
  /\ torn \subseteq Runs
  /\ limit \in Caps \cup {0} /\ begun \subseteq Paths

\* Whenever no prune is half done, index.json names exactly the entries of the
\* running process: a crash loses none of them and resurrects none.
IndexPersisted ==
  loop = "free" => \A k \in Keys : Present(k) <=> disk[k] > 0

\* A hit that a crash would forget is recent: it came within the throttle
\* interval of a save (E-R4).
RecencyPersisted ==
  loop = "free" =>
    \A k \in Keys : /\ disk[k] <= mem[k]
                    /\ disk[k] < mem[k] => mem[k] <= lastSave + Interval

\* After a gc with a size limit no more files than that are on disk, but for
\* those whose copy began later: a put whose file gc did not count, because no
\* entry named it yet, does not bring it back, and neither do entries that share
\* a file, crashes in the middle of a put or a prune, or a lost index (E-R4,
\* E-R6).
DiskWithinBudget ==
  Cardinality({p \in Paths : files[p] # "none"} \ begun) <= limit
=============================================================================
