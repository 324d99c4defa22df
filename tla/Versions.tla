------------------------------ MODULE Versions ------------------------------
(***************************************************************************)
(* The rows of model_versions and the directories of their weights: the    *)
(* status machine (server/routers/versions.py, db/crud.py), the merge of a *)
(* branch (branches.py) and the two sweeps that reclaim disk space, dedup  *)
(* and cleanup (system.py).                                                *)
(*                                                                         *)
(* Every request has a database session of its own.  A row that a session  *)
(* has loaded stays as it was loaded: the SELECT ... FOR UPDATE that       *)
(* precedes a status change finds the object in the session's identity map *)
(* and does not overwrite it, so its checks look at the row as the request *)
(* read it first.  SQLite has no row locks at all; those of PostgreSQL only *)
(* remove behaviours of this module.                                       *)
(***************************************************************************)
EXTENDS Naturals, FiniteSets

CONSTANTS
  Versions,     \* the versions there may be
  Uploaded,     \* those of them that are uploaded; the others come from merges
  Managed,      \* bound: the versions that requests name
  ModelOf,      \* the model each belongs to
  Weights,      \* file hashes
  Branches,
  MergeLabel,   \* the version that merging a branch with a given head creates
  Scores,       \* benchmark scores
  L1,           \* EVALUATION_THRESHOLDS["l1"]
  Thresholds,   \* those of the levels clients name, 0 for an unknown one
  Requests,     \* concurrent requests
  Ops,          \* the endpoints in use
  MayCrash      \* whether the process may die

Operations == {"status", "retire", "promote", "dedup", "cleanup", "merge"}

Models == {ModelOf[v] : v \in Versions}

ASSUME ConstantsAssumption ==
  /\ "none" \notin Versions
  /\ Uploaded \subseteq Versions /\ Managed \subseteq Versions
  /\ Ops \subseteq Operations /\ MayCrash \in BOOLEAN
  /\ MergeLabel \in [Branches -> [Uploaded -> Versions \ Uploaded]]
  /\ Scores \subseteq Nat /\ 0 \in Scores
  /\ Thresholds \subseteq Nat /\ L1 \in Thresholds \ {0}

VARIABLES
  row,      \* model_versions
  dirs,     \* versions whose directory exists
  branch,   \* model_branches
  after,    \* <<m, n>>: m is listed after n, that is, updated before n
  pc, job,  \* where each request stands, and what it has been asked
  view,     \* status and score of the rows its session has loaded
  tested,   \* history: the versions that have been TESTING
  vetted,   \* history: those that have had a score of at least L1
  retired,  \* history: those that have been RETIRED
  cut       \* history: the uploaded ones that have not been, and whose directory
            \* a dedup removed that then died or met a database error

requests == <<pc, job, view>>
history  == <<tested, vetted, retired, cut>>
vars     == <<row, dirs, branch, after, requests, history>>

None  == "none"
NoRow == [status |-> None, score |-> 0, path |-> None, hash |-> None]
Unread == [status |-> None, score |-> 0]
NoJob == [op |-> None, v |-> None, target |-> None, bar |-> 0, todo |-> {},
          b |-> None, path |-> None, hash |-> None]

Exists(v) == row[v] # NoRow

\* EVALUATION_THRESHOLDS.get(approval_level, 0.0) lets an unknown level pass.
LevelsKnown == \A t \in Thresholds : L1 <= t

----------------------------------------------------------------------------
(* Statuses *)

Statuses == {"draft", "testing", "published", "deprecated", "retired"}

\* VALID_TRANSITIONS
Transitions(s) ==
  CASE s = "draft"      -> {"testing", "retired"}
    [] s = "testing"    -> {"published", "draft", "retired"}
    [] s = "published"  -> {"deprecated", "retired"}
    [] s = "deprecated" -> {"published", "retired"}
    [] s = "retired"    -> {}

\* PROMOTE_FLOW
Promoted(s) == IF s = "draft" THEN "testing" ELSE "published"

\* Mutant: promotion does not look at the score.
AllowedUnscored(seen, target, bar) ==
  /\ seen # Unread /\ target \in Transitions(seen.status)

\* The checks of update_version_status, on the row as the session knows it
Allowed(seen, target, bar) ==
  /\ seen # Unread /\ target \in Transitions(seen.status)
  /\ target = "published" => seen.score >= bar

----------------------------------------------------------------------------
(* Requests *)

Unloaded == [v \in Versions |-> Unread]

Read(v) == [status |-> row[v].status, score |-> row[v].score]

Loaded(vs) == [v \in Versions |-> IF v \in vs THEN Read(v) ELSE Unread]

Begin(r, j, point, vs) ==
  /\ pc[r] = "idle" /\ j.op \in Ops
  /\ pc' = [pc EXCEPT ![r] = point]
  /\ job' = [job EXCEPT ![r] = j]
  /\ view' = [view EXCEPT ![r] = Loaded(vs)]
  /\ UNCHANGED <<row, dirs, branch, after, history>>

End(r) ==
  /\ pc' = [pc EXCEPT ![r] = "idle"]
  /\ job' = [job EXCEPT ![r] = NoJob]
  /\ view' = [view EXCEPT ![r] = Unloaded]

GoTo(r, point) == pc' = [pc EXCEPT ![r] = point]

\* A sweep goes on with its next version, any other request is over.
Proceed(r) ==
  IF job[r].op \in {"dedup", "cleanup"} THEN GoTo(r, "sweeping") /\ UNCHANGED <<job, view>>
  ELSE End(r)

\* PUT status
ChangeStatus(r, v, target, bar) ==
  /\ Exists(v)
  /\ Begin(r, [NoJob EXCEPT !.op = "status", !.v = v, !.target = target, !.bar = bar],
           "checking", {v})

Rollback(r, v) == ChangeStatus(r, v, "published", L1)

Deprecate(r, v) == ChangeStatus(r, v, "deprecated", L1)

\* Retire is the only one that does not read the row beforehand.
Retire(r, v) ==
  Begin(r, [NoJob EXCEPT !.op = "retire", !.v = v, !.target = "retired"], "checking", {})

Promote(r, v) ==
  /\ row[v].status \in {"draft", "testing"}
  /\ Begin(r, [NoJob EXCEPT !.op = "promote", !.v = v, !.target = Promoted(row[v].status),
                            !.bar = L1],
           "checking", {v})

\* The SELECT of update_version_status, then its checks
Check(r) ==
  LET v == job[r].v
      seen == IF view[r][v] = Unread THEN Read(v) ELSE view[r][v]
  IN
  /\ pc[r] = "checking"
  /\ \/ /\ Allowed(seen, job[r].target, job[r].bar)
        /\ GoTo(r, "flipping")
        /\ view' = [view EXCEPT ![r][v] = Unread]    \* not looked at again
        /\ UNCHANGED job
     \/ ~Allowed(seen, job[r].target, job[r].bar) /\ Proceed(r)
  /\ UNCHANGED <<row, dirs, branch, after, history>>

SetStatus(v, s) ==
  /\ row' = [row EXCEPT ![v].status = s]
  /\ tested' = IF s = "testing" THEN tested \cup {v} ELSE tested
  /\ retired' = IF s = "retired" THEN retired \cup {v} ELSE retired
  /\ cut' = cut \ retired'

\* A dedup has removed the directory of v and is about to retire v.
Retiring(r, v) ==
  /\ pc[r] \in {"checking", "flipping"}
  /\ job[r].op = "dedup" /\ job[r].v = v

\* The commit writes the status column whatever it is by now.  A promotion
\* to TESTING goes on with the row as it reads after the commit.
Flip(r) ==
  LET v == job[r].v IN
  /\ pc[r] = "flipping"
  /\ SetStatus(v, job[r].target)
  /\ \/ /\ job[r].op = "promote" /\ job[r].target = "testing"
        /\ GoTo(r, "refreshing") /\ UNCHANGED <<job, view>>
     \/ /\ job[r].op = "dedup"
        /\ GoTo(r, "clearing") /\ UNCHANGED <<job, view>>
     \/ /\ job[r].op \in {"status", "retire"} \/ job[r].target = "published"
        /\ End(r)
  /\ UNCHANGED <<dirs, branch, after, vetted>>

Refresh(r) ==
  /\ pc[r] = "refreshing"
  /\ GoTo(r, "checking")
  /\ job' = [job EXCEPT ![r].target = "published"]
  /\ view' = [view EXCEPT ![r] = Loaded({job[r].v})]
  /\ UNCHANGED <<row, dirs, branch, after, history>>

----------------------------------------------------------------------------
(* Sweeps *)

\* The version of a group of duplicates that is listed last: models come by
\* updated_at, the versions of one model in no order.
ListedLast(v) ==
  \A u \in Versions :
    row[u].hash = row[v].hash => <<ModelOf[u], ModelOf[v]>> \notin after

\* POST /system/scan-duplicates with dry_run=false.  Retired versions, whose
\* hash is kept, are in the groups too.
Dedup(r, keep) ==
  /\ \A v \in keep : Exists(v) /\ ListedLast(v)
  /\ \A v \in Versions : Exists(v) =>
       Cardinality({k \in keep : row[k].hash = row[v].hash}) = 1
  /\ LET todo == {v \in Versions : Exists(v)} \ keep IN
       /\ todo # {}
       /\ Begin(r, [NoJob EXCEPT !.op = "dedup", !.todo = todo], "sweeping", todo)

\* Mutant: cleanup offers every version that has a file.
CandidatesAll == {v \in Versions : Exists(v) /\ row[v].path # None}

Candidates == {v \in Versions : row[v].status = "retired" /\ row[v].path # None}

\* POST /system/cleanup with dry_run=false
Cleanup(r) ==
  /\ Candidates # {}
  /\ Begin(r, [NoJob EXCEPT !.op = "cleanup", !.todo = Candidates], "sweeping", {})

\* delete_version_files removes the version's own directory, whatever its row
\* names, and before the row is touched.
Unlink(r, v) ==
  /\ pc[r] = "sweeping" /\ v \in job[r].todo
  /\ dirs' = dirs \ {v}
  /\ job' = [job EXCEPT ![r].v = v, ![r].todo = @ \ {v}, ![r].target = "retired"]
  /\ GoTo(r, IF job[r].op = "dedup" THEN "checking" ELSE "clearing")
  /\ UNCHANGED <<row, branch, after, view, history>>

Clear(r) ==
  /\ pc[r] = "clearing"
  /\ row' = [row EXCEPT ![job[r].v].path = None]
  /\ GoTo(r, "sweeping")
  /\ UNCHANGED <<dirs, branch, after, job, view, history>>

Cut(vs) == cut' = cut \cup ((vs \cap Uploaded) \ retired) /\ UNCHANGED <<tested, vetted, retired>>

\* A statement raises.  A single request is answered 500; a sweep counts the
\* version as failed and goes on with the next, but after a commit that raised
\* its session refuses every statement, as nobody rolls it back.
Raise(r) ==
  /\ pc[r] \in {"checking", "flipping", "refreshing", "clearing", "creating", "closing"}
  /\ IF job[r].op \in {"dedup", "cleanup"}
     THEN GoTo(r, IF pc[r] = "checking" THEN "sweeping" ELSE "broken") /\ UNCHANGED <<job, view>>
     ELSE End(r)
  /\ Cut({v \in Versions : Retiring(r, v)})
  /\ UNCHANGED <<row, dirs, branch, after>>

\* With such a session the files of the other versions still go.
UnlinkOnly(r, v) ==
  /\ pc[r] = "broken" /\ v \in job[r].todo
  /\ dirs' = dirs \ {v}
  /\ job' = [job EXCEPT ![r].todo = @ \ {v}]
  /\ Cut(IF job[r].op = "dedup" THEN {v} ELSE {})
  /\ UNCHANGED <<row, branch, after, pc, view>>

Swept(r) ==
  /\ pc[r] \in {"sweeping", "broken"} /\ job[r].todo = {}
  /\ End(r)
  /\ UNCHANGED <<row, dirs, branch, after, history>>

----------------------------------------------------------------------------
(* Branches *)

Merge(r, b) ==
  /\ branch[b].status = "active" /\ branch[b].head # None
  /\ LET head == branch[b].head IN
       Begin(r, [NoJob EXCEPT !.op = "merge", !.v = head, !.b = b,
                              !.path = row[head].path, !.hash = row[head].hash],
             "creating", {})

\* Mutant: the branch is closed before its version is created.
CreateNothing(r) ==
  /\ pc[r] = "creating"
  /\ GoTo(r, "closing")
  /\ UNCHANGED <<row, dirs, branch, after, job, view, history>>

\* In a session of its own: a draft that shares the head's file, unless the
\* label is taken, which counts as merged already.
Create(r) ==
  LET t == MergeLabel[job[r].b][job[r].v] IN
  /\ pc[r] = "creating"
  /\ \/ Exists(t) /\ UNCHANGED row
     \/ /\ ~Exists(t)
        /\ row' = [row EXCEPT ![t] =
                     [status |-> "draft", score |-> 0,
                      path |-> job[r].path, hash |-> job[r].hash]]
  /\ GoTo(r, "closing")
  /\ UNCHANGED <<dirs, branch, after, job, view, history>>

Close(r) ==
  /\ pc[r] = "closing"
  /\ branch' = [branch EXCEPT ![job[r].b].status = "merged"]
  /\ End(r)
  /\ UNCHANGED <<row, dirs, after, history>>

\* PATCH: a new head and any status.  Bounds: "archived" is like "merged", heads
\* are uploaded versions, and a head is not taken back.
Patch(b, head, status) ==
  /\ Exists(head)
  /\ branch' = [branch EXCEPT ![b] = [status |-> status, head |-> head]]
  /\ UNCHANGED <<row, dirs, after, requests, history>>

----------------------------------------------------------------------------
(* What else happens *)

\* An upload, from the first byte to its row
Upload(v, w) ==
  /\ ~Exists(v)
  /\ row' = [row EXCEPT ![v] = [status |-> "draft", score |-> 0, path |-> v, hash |-> w]]
  /\ dirs' = dirs \cup {v}
  /\ UNCHANGED <<branch, after, requests, history>>

\* Mutant: a score is added to the one before.
ScoreAdded(v, s) ==
  /\ Exists(v)
  /\ row' = [row EXCEPT ![v].score = @ + s]
  /\ vetted' = IF row'[v].score >= L1 THEN vetted \cup {v} ELSE vetted
  /\ UNCHANGED <<dirs, branch, after, requests, tested, retired, cut>>

\* PUT benchmark or metrics
Score(v, s) ==
  /\ Exists(v)
  /\ row' = [row EXCEPT ![v].score = s]
  /\ vetted' = IF s >= L1 THEN vetted \cup {v} ELSE vetted
  /\ UNCHANGED <<dirs, branch, after, requests, tested, retired, cut>>

\* A download of the model, or an edit, moves its updated_at.
Touch(m) ==
  /\ after' = {p \in after : p[1] # m} \cup {<<n, m>> : n \in Models \ {m}}
  /\ UNCHANGED <<row, dirs, branch, requests, history>>

Crash ==
  /\ MayCrash
  /\ pc' = [r \in Requests |-> "idle"]
  /\ job' = [r \in Requests |-> NoJob]
  /\ view' = [r \in Requests |-> Unloaded]
  /\ Cut({v \in Versions : \E r \in Requests : Retiring(r, v)})
  /\ UNCHANGED <<row, dirs, branch, after>>

Init ==
  /\ row = [v \in Versions |-> NoRow] /\ dirs = {}
  /\ branch = [b \in Branches |-> [status |-> "active", head |-> None]]
  /\ after \in SUBSET (Models \X Models)
  /\ \A m, n \in Models : (<<m, n>> \in after) <=> (m # n /\ <<n, m>> \notin after)
  /\ \A l, m, n \in Models : <<l, m>> \in after /\ <<m, n>> \in after => <<l, n>> \in after
  /\ pc = [r \in Requests |-> "idle"]
  /\ job = [r \in Requests |-> NoJob]
  /\ view = [r \in Requests |-> Unloaded]
  /\ tested = {} /\ vetted = {} /\ retired = {} /\ cut = {}

Request(r) ==
  \/ \E v \in Managed, s \in Statuses, t \in Thresholds : ChangeStatus(r, v, s, t)
  \/ \E v \in Managed :
       Rollback(r, v) \/ Deprecate(r, v) \/ Retire(r, v) \/ Promote(r, v)
  \/ Check(r) \/ Flip(r) \/ Refresh(r)
  \/ (\E keep \in SUBSET Versions : Dedup(r, keep)) \/ Cleanup(r)
  \/ (\E v \in Versions : Unlink(r, v) \/ UnlinkOnly(r, v))
  \/ Clear(r) \/ Raise(r) \/ Swept(r)
  \/ (\E b \in Branches : Merge(r, b)) \/ Create(r) \/ Close(r)

Next ==
  \/ \E r \in Requests : Request(r)
  \/ \E v \in Uploaded, w \in Weights : Upload(v, w)
  \/ \E v \in Managed, s \in Scores : Score(v, s)
  \/ \E b \in Branches, v \in Uploaded, s \in {"active", "merged"} : Patch(b, v, s)
  \/ \E m \in Models : Touch(m)
  \/ Crash

Spec == Init /\ [][Next]_vars

----------------------------------------------------------------------------
(* Properties *)

Row == [status : Statuses, score : Scores, path : Versions \cup {None}, hash : Weights]

Job == [op : Operations \cup {None}, v : Versions \cup {None}, target : Statuses \cup {None},
        bar : Thresholds \cup {0}, todo : SUBSET Versions, b : Branches \cup {None},
        path : Versions \cup {None}, hash : Weights \cup {None}]

Seen == [status : Statuses, score : Scores]

Control == {"idle", "checking", "flipping", "refreshing", "sweeping", "clearing", "broken",
            "creating", "closing"}

\* Every variable keeps its type.
TypeOK ==
  /\ row \in [Versions -> Row \cup {NoRow}]
  /\ dirs \subseteq Versions
  /\ branch \in [Branches -> [status : {"active", "merged"}, head : Uploaded \cup {None}]]
  /\ after \subseteq Models \X Models
  /\ pc \in [Requests -> Control]
  /\ job \in [Requests -> Job]
  /\ view \in [Requests -> [Versions -> Seen \cup {Unread}]]
  /\ tested \subseteq Versions /\ vetted \subseteq Versions /\ retired \subseteq Versions
  /\ cut \subseteq Uploaded

\* However requests race and whatever their sessions remember: a version that
\* is PUBLISHED has been TESTING before, and, unless clients name levels that
\* are not in the table, has once had a score that meets the lowest threshold.
PublishedWasTested ==
  \A v \in Versions :
    row[v].status = "published" => v \in tested /\ (LevelsKnown => v \in vetted)

\* What an uploaded version has lost to a sweep, it has lost because it was
\* RETIRED: its row gives up the file only afterwards, and its directory is gone
\* only afterwards too, or while the dedup that removed it is about to retire it,
\* or because that dedup died or met a database error in between.  A dedup
\* whose status change is refused has met a version that was RETIRED.
ReclaimedWasRetired ==
  \A v \in Uploaded : Exists(v) =>
    /\ row[v].path = None => v \in retired
    /\ v \notin dirs => v \in retired \cup cut \/ \E r \in Requests : Retiring(r, v)

\* A merge that reports success has left a version in the history of the
\* model, whatever crashes, re-merges and reopened branches came before (R-P2).
MergeLeavesVersion ==
  [][\A r \in Requests : Close(r) => Exists(MergeLabel[job[r].b][job[r].v])]_vars
=============================================================================
