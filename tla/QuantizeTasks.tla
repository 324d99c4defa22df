---------------------------- MODULE QuantizeTasks ----------------------------
(***************************************************************************)
(* The background quantize runner (fusion_model_hub/server/tasks.py), the  *)
(* quantize_tasks rows it drives (db/crud.py) and the part of the startup  *)
(* reconciliation that repairs those rows (server/app.py).                 *)
(*                                                                         *)
(* A hub process keeps an asyncio task per submitted job and a semaphore;  *)
(* the rows, the model versions and their links live in a database that    *)
(* several hub processes may share and that survives their crashes.  One   *)
(* action is one stretch of code between two awaits that another actor can *)
(* observe: a commit, a semaphore operation, an external call.             *)
(*                                                                         *)
(* The quantize cache is seen only through its answer (hit or miss), and   *)
(* the Fusion-MLX conversion only through its outcome.                     *)
(***************************************************************************)
EXTENDS Naturals, FiniteSets

CONSTANTS
  Hubs,          \* hub processes sharing the database
  NumTasks,      \* bound: rows ever created in quantize_tasks
  Sources,       \* ids of the model versions that may be quantized
  Submissions,   \* the requests clients make: subset of Request
  KnownFormats,  \* target formats ModelFormat() accepts
  Concurrency,   \* _QUANTIZE_CONCURRENCY
  PageSize,      \* page_size of the reconciliation queries
  ForeignKeys,   \* does the database enforce foreign keys?
  DbFaults,      \* may a statement or commit raise?
  MaxBoots       \* bound: process starts, over all hubs

Request == [src : Sources, bits : {2, 4, 6, 8}, format : STRING]

ASSUME ConstantsAssumption ==
  /\ Hubs # {} /\ IsFiniteSet(Hubs)
  /\ NumTasks \in Nat /\ MaxBoots \in Nat
  /\ Submissions \subseteq Request
  /\ Concurrency \in Nat \ {0}
  /\ PageSize \in Nat \ {0}
  /\ ForeignKeys \in BOOLEAN /\ DbFaults \in BOOLEAN

\* Rows are numbered in the order they are committed (created_at).
Tasks == 1 .. NumTasks

VARIABLES
  \* the shared database
  status,     \* QuantizeTask.status, "none" before the row exists
  req,        \* the request stored in the row
  link,       \* is QuantizeTask.output_version_id set?
  outputs,    \* tasks whose output ModelVersion row exists
  sources,    \* source versions (and their models) that exist
  \* each process
  hub,        \* "down", "failing", "resuming" or "serving"
  pc,         \* where the asyncio task of a job stands in this process
  free,       \* _quantize_semaphore._value
  worklist,   \* rows the startup loop still has to visit
  \* the outside
  events,     \* webhook events dispatched: <<name, task>>
  boots       \* process starts so far

db    == <<status, req, link, outputs, sources>>
procs == <<hub, pc, free, worklist>>
vars  == <<status, req, link, outputs, sources, hub, pc, free, worklist, events, boots>>

TaskStatus == {"pending", "running", "completed", "failed"}
Terminal   == {"completed", "failed"}

\* Control points of _run_quantize.  "submitted" is the request handler after
\* the row is committed and before asyncio.create_task; "idle" means that the
\* process has no asyncio task for the row.
InSlot  == {"starting", "reading", "converting", "finishing", "rejecting",
            "announcing", "checking"}
Control == {"idle", "submitted", "queued", "failing", "marking"} \cup InSlot

NoRequest == [src |-> "none", bits |-> 0, format |-> "none"]

----------------------------------------------------------------------------
(* Helpers *)

RowsIn(st) == {t \in Tasks : status[t] = st}

\* ORDER BY created_at DESC LIMIT n
Newest(S, n) == {t \in S : Cardinality({u \in S : u > t}) < n}

\* uq_model_version: the label is "<source version>-<bits>bit", unique per model
LabelTaken(t) == \E u \in outputs : /\ req[u].src = req[t].src
                                    /\ req[u].bits = req[t].bits

Move(h, t, from, to) == /\ pc[h][t] = from
                        /\ pc' = [pc EXCEPT ![h][t] = to]

\* Mutant: the slot is given back twice.
ReleaseTwice(h) == free' = [free EXCEPT ![h] = @ + 2]

Release(h) == free' = [free EXCEPT ![h] = @ + 1]

----------------------------------------------------------------------------
(* Submission: POST /quantize *)

SubmitCommit(h, r) ==
  /\ hub[h] = "serving"
  /\ r.src \in sources \/ ~ForeignKeys
  /\ \E t \in Tasks :
       /\ status[t] = "none"
       /\ \A u \in Tasks : u < t => status[u] # "none"
       /\ status' = [status EXCEPT ![t] = "pending"]
       /\ req' = [req EXCEPT ![t] = r]
       /\ pc' = [pc EXCEPT ![h][t] = "submitted"]
  /\ UNCHANGED <<link, outputs, sources, hub, free, worklist, events, boots>>

Spawn(h, t) ==
  /\ Move(h, t, "submitted", "queued")
  /\ UNCHANGED <<db, hub, free, worklist, events, boots>>

----------------------------------------------------------------------------
(* The worker *)

\* async with sem: wait for a slot
Acquire(h, t) ==
  /\ free[h] > 0
  /\ Move(h, t, "queued", "starting")
  /\ free' = [free EXCEPT ![h] = @ - 1]
  /\ UNCHANGED <<db, hub, worklist, events, boots>>

\* Mutant: acquire and release called by hand, without try/finally.
RaiseKeepingSlot(h, t, from) ==
  /\ Move(h, t, from, "failing")
  /\ UNCHANGED <<db, hub, free, worklist, events, boots>>

\* An exception leaves the semaphore block before the handler runs.
Raise(h, t, from) ==
  /\ Move(h, t, from, "failing")
  /\ Release(h)
  /\ UNCHANGED <<db, hub, worklist, events, boots>>

MarkRunning(h, t) ==
  /\ Move(h, t, "starting", "reading")
  /\ status' = [status EXCEPT ![t] = "running"]
  /\ UNCHANGED <<req, link, outputs, sources, hub, free, worklist, events, boots>>

ReadSource(h, t) ==
  /\ req[t].src \in sources => req[t].format \in KnownFormats
  /\ Move(h, t, "reading",
          IF req[t].src \in sources THEN "converting" ELSE "rejecting")
  /\ UNCHANGED <<db, hub, free, worklist, events, boots>>

\* ModelFormat(target_format) raises ValueError
UnknownFormat(h, t) ==
  /\ req[t].src \in sources /\ req[t].format \notin KnownFormats
  /\ Raise(h, t, "reading")

\* A cache hit or a successful conversion yields an output path; a failed,
\* timed out or path-less conversion is reported as a result, not raised.
Convert(h, t) ==
  /\ \E next \in {"finishing", "rejecting"} : Move(h, t, "converting", next)
  /\ UNCHANGED <<db, hub, free, worklist, events, boots>>

\* Mutant: the version commits in a transaction of its own and the task update
\* in it is lost (the code before H4).
FinishVersionOnly(h, t) ==
  /\ req[t].src \in sources /\ ~LabelTaken(t)
  /\ Move(h, t, "finishing", "announcing")
  /\ outputs' = outputs \cup {t}
  /\ UNCHANGED <<status, req, link, sources, hub, free, worklist, events, boots>>

\* One transaction: the output version and the COMPLETED row land together.
Finish(h, t) ==
  /\ req[t].src \in sources /\ ~LabelTaken(t)
  /\ Move(h, t, "finishing", "announcing")
  /\ outputs' = outputs \cup {t}
  /\ status' = [status EXCEPT ![t] = "completed"]
  /\ link' = [link EXCEPT ![t] = TRUE]
  /\ UNCHANGED <<req, sources, hub, free, worklist, events, boots>>

\* create_version returns None when the model is gone ...
ModelGone(h, t) ==
  /\ req[t].src \notin sources
  /\ Move(h, t, "finishing", "rejecting")
  /\ UNCHANGED <<db, hub, free, worklist, events, boots>>

\* ... and raises VersionConflictError when the label is taken.
LabelConflict(h, t) ==
  /\ req[t].src \in sources /\ LabelTaken(t)
  /\ Raise(h, t, "finishing")

\* The early returns: source gone, no valid output, no output version.
Reject(h, t) ==
  /\ Move(h, t, "rejecting", "idle")
  /\ status' = [status EXCEPT ![t] = "failed"]
  /\ Release(h)
  /\ UNCHANGED <<req, link, outputs, sources, hub, worklist, events, boots>>

\* A statement or commit of the run raises; its transaction is rolled back.
DbFault(h, t) ==
  /\ DbFaults
  /\ \E from \in {"starting", "reading", "finishing", "rejecting"} : Raise(h, t, from)

AnnounceDone(h, t) ==
  /\ Move(h, t, "announcing", "checking")
  /\ events' = events \cup {<<"quantize.completed", t>>}
  /\ UNCHANGED <<db, hub, free, worklist, boots>>

\* Mutant: an exception of the benchmark trigger reaches the outer handler.
PostChecksRaise(h, t) ==
  /\ Move(h, t, "checking", "failing")
  /\ Release(h)
  /\ UNCHANGED <<db, hub, worklist, events, boots>>

\* Benchmark trigger and precision-loss check; the scores are not modelled,
\* so the warning may or may not be due.  Every failure here is swallowed.
PostChecks(h, t) ==
  /\ Move(h, t, "checking", "idle")
  /\ Release(h)
  /\ events' \in {events, events \cup {<<"quantize.precision_warning", t>>}}
  /\ UNCHANGED <<db, hub, worklist, boots>>

\* except Exception: dispatch first, then mark the row
AnnounceFailure(h, t) ==
  /\ Move(h, t, "failing", "marking")
  /\ events' = events \cup {<<"quantize.failed", t>>}
  /\ UNCHANGED <<db, hub, free, worklist, boots>>

MarkFailed(h, t) ==
  /\ Move(h, t, "marking", "idle")
  /\ status' = [status EXCEPT ![t] = "failed"]
  /\ UNCHANGED <<req, link, outputs, sources, hub, free, worklist, events, boots>>

\* The update in the handler raises too and is only logged.
LoseFailure(h, t) ==
  /\ DbFaults
  /\ Move(h, t, "marking", "idle")
  /\ UNCHANGED <<db, hub, free, worklist, events, boots>>

----------------------------------------------------------------------------
(* Process lifecycle *)

\* Lifespan startup: list the RUNNING rows, newest first, one page.
Boot(h) ==
  /\ hub[h] = "down" /\ boots < MaxBoots
  /\ boots' = boots + 1
  /\ hub' = [hub EXCEPT ![h] = "failing"]
  /\ worklist' = [worklist EXCEPT ![h] = Newest(RowsIn("running"), PageSize)]
  /\ UNCHANGED <<db, pc, free, events>>

IsNext(h, t) == t \in worklist[h] /\ \A u \in worklist[h] : u <= t

\* update_quantize_task commits each orphan by itself.
FailOrphan(h, t) ==
  /\ hub[h] = "failing" /\ IsNext(h, t)
  /\ status' = [status EXCEPT ![t] = "failed"]
  /\ worklist' = [worklist EXCEPT ![h] = @ \ {t}]
  /\ UNCHANGED <<req, link, outputs, sources, hub, pc, free, events, boots>>

ListPending(h) ==
  /\ hub[h] = "failing" /\ worklist[h] = {}
  /\ hub' = [hub EXCEPT ![h] = "resuming"]
  /\ worklist' = [worklist EXCEPT ![h] = Newest(RowsIn("pending"), PageSize)]
  /\ UNCHANGED <<db, pc, free, events, boots>>

\* claim_quantize_task: conditional UPDATE ... WHERE status = PENDING
Claim(t) == /\ status[t] = "pending"
            /\ status' = [status EXCEPT ![t] = "running"]

\* resume_quantize: claim, then spawn ...
Resume(h, t) ==
  /\ hub[h] = "resuming" /\ IsNext(h, t)
  /\ Claim(t)
  /\ pc' = [pc EXCEPT ![h][t] = "queued"]
  /\ worklist' = [worklist EXCEPT ![h] = @ \ {t}]
  /\ UNCHANGED <<req, link, outputs, sources, hub, free, events, boots>>

\* ... a lost claim or an exception skips the row.
SkipResume(h, t) ==
  /\ hub[h] = "resuming" /\ IsNext(h, t)
  /\ status[t] # "pending" \/ DbFaults
  /\ worklist' = [worklist EXCEPT ![h] = @ \ {t}]
  /\ UNCHANGED <<db, hub, pc, free, events, boots>>

Serve(h) ==
  /\ hub[h] = "resuming" /\ worklist[h] = {}
  /\ hub' = [hub EXCEPT ![h] = "serving"]
  /\ UNCHANGED <<db, pc, free, worklist, events, boots>>

\* The process dies or shuts down (shutdown does not drain the runner), or an
\* unguarded reconciliation query raises during startup.  The guard on boots
\* bounds crashes: the last start is never followed by one.
Crash(h) ==
  /\ hub[h] # "down" /\ boots < MaxBoots
  /\ hub' = [hub EXCEPT ![h] = "down"]
  /\ pc' = [pc EXCEPT ![h] = [t \in Tasks |-> "idle"]]
  /\ free' = [free EXCEPT ![h] = Concurrency]
  /\ worklist' = [worklist EXCEPT ![h] = {}]
  /\ UNCHANGED <<db, events, boots>>

\* DELETE /models/{id}: cascades to the versions unless a quantize_tasks row
\* references one of them and foreign keys are enforced.
DeleteModel(s) ==
  /\ s \in sources
  /\ ForeignKeys => \A t \in Tasks : status[t] # "none" => req[t].src # s
  /\ \E h \in Hubs : hub[h] = "serving"
  /\ sources' = sources \ {s}
  /\ outputs' = {t \in outputs : req[t].src # s}
  /\ UNCHANGED <<status, req, link, procs, events, boots>>

----------------------------------------------------------------------------
Init ==
  /\ status = [t \in Tasks |-> "none"]
  /\ req = [t \in Tasks |-> NoRequest]
  /\ link = [t \in Tasks |-> FALSE]
  /\ outputs = {}
  /\ sources = Sources
  /\ hub = [h \in Hubs |-> "down"]
  /\ pc = [h \in Hubs |-> [t \in Tasks |-> "idle"]]
  /\ free = [h \in Hubs |-> Concurrency]
  /\ worklist = [h \in Hubs |-> {}]
  /\ events = {}
  /\ boots = 0

Worker(h, t) ==
  \/ Spawn(h, t)       \/ Acquire(h, t)        \/ MarkRunning(h, t)
  \/ ReadSource(h, t)  \/ UnknownFormat(h, t)  \/ Convert(h, t)
  \/ Finish(h, t)      \/ ModelGone(h, t)      \/ LabelConflict(h, t)
  \/ Reject(h, t)      \/ DbFault(h, t)        \/ AnnounceDone(h, t)
  \/ PostChecks(h, t)  \/ AnnounceFailure(h, t)
  \/ MarkFailed(h, t)  \/ LoseFailure(h, t)

Startup(h) ==
  \/ Boot(h) \/ ListPending(h) \/ Serve(h)
  \/ \E t \in Tasks : FailOrphan(h, t) \/ Resume(h, t) \/ SkipResume(h, t)

Next ==
  \/ \E h \in Hubs, r \in Submissions : SubmitCommit(h, r)
  \/ \E h \in Hubs, t \in Tasks : Worker(h, t)
  \/ \E h \in Hubs : Startup(h) \/ Crash(h)
  \/ \E s \in Sources : DeleteModel(s)

Spec == Init /\ [][Next]_vars

\* The event loop runs every ready coroutine, the MLX client has timeouts, and
\* the supervisor restarts a dead process; nothing obliges a client to submit.
Fairness ==
  /\ \A h \in Hubs : WF_vars(Startup(h))
  /\ \A h \in Hubs, t \in Tasks : WF_vars(Worker(h, t))

FairSpec == Spec /\ Fairness

----------------------------------------------------------------------------
(* Properties *)

\* Every variable keeps its type.
TypeOK ==
  /\ status \in [Tasks -> TaskStatus \cup {"none"}]
  /\ req \in [Tasks -> Submissions \cup {NoRequest}]
  /\ link \in [Tasks -> BOOLEAN]
  /\ outputs \subseteq Tasks
  /\ sources \subseteq Sources
  /\ hub \in [Hubs -> {"down", "failing", "resuming", "serving"}]
  /\ pc \in [Hubs -> [Tasks -> Control]]
  /\ free \in [Hubs -> 0 .. Concurrency]
  /\ worklist \in [Hubs -> SUBSET Tasks]
  /\ events \subseteq ({"quantize.completed", "quantize.failed",
                        "quantize.precision_warning"} \X Tasks)
  /\ boots \in 0 .. MaxBoots

\* Tasks this hub's semaphore currently admits
Holders(h) == {t \in Tasks : pc[h][t] \in InSlot}

\* Every way out of _run_quantize, exceptions included, gives its slot back:
\* what the semaphore counts as taken is exactly what is inside the block.
SlotsAccounted == \A h \in Hubs : free[h] + Cardinality(Holders(h)) = Concurrency

\* No output version is ever left without a task that points at it, whatever
\* crashes between the statements and whoever else runs the task (the single
\* transaction of H4).
NoOrphanOutput == \A t \in outputs : link[t]

\* With one hub process and foreign keys enforced: a row is COMPLETED exactly
\* when its output version exists.
CompletedIffOutput == \A t \in Tasks : status[t] = "completed" <=> t \in outputs

\* A completion announced to webhooks is durable, and no task is announced
\* both as completed and as failed.
AnnouncementsTrue ==
  \A t \in Tasks :
    /\ <<"quantize.completed", t>> \in events => status[t] = "completed"
    /\ <<"quantize.failed", t>> \in events => status[t] # "completed"

\* A finished row is never changed again.
TerminalIsFinal ==
  [][\A t \in Tasks : status[t] \in Terminal => status'[t] = status[t]]_vars

\* Every submitted task is eventually completed or failed, across restarts.
EveryTaskEnds ==
  \A t \in Tasks : status[t] = "pending" ~> status[t] \in Terminal
=============================================================================
