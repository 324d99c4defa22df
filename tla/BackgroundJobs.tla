--------------------------- MODULE BackgroundJobs ---------------------------
(***************************************************************************)
(* The background jobs of one hub process other than quantization:         *)
(*   - evaluations, driven through Fusion-Bench by server/eval_tasks.py;   *)
(*   - LoRA merges (_run_merge in server/routers/quantize.py);             *)
(*   - cluster fan-outs (_run in server/routers/cluster.py);               *)
(* and the part of _reconcile_orphaned_tasks (server/app.py) that repairs  *)
(* their rows after a restart.                                             *)
(*                                                                         *)
(* Fusion-Bench, Fusion-MLX and the peer hubs are seen through the answers *)
(* they may give; an answer may also be lost after the work was accepted.  *)
(***************************************************************************)
EXTENDS Naturals, FiniteSets

CONSTANTS
  Evals, Merges, Fanouts,   \* the jobs that may be submitted
  Nodes,                    \* cluster nodes a fan-out may target
  EvalSlots,                \* _EVAL_CONCURRENCY
  RunnerEnabled,            \* eval_runner_enabled
  DbFaults,                 \* control points whose update of the row may raise
  MaxBoots                  \* bound: process starts

Jobs == Evals \cup Merges \cup Fanouts

ASSUME ConstantsAssumption ==
  /\ IsFiniteSet(Jobs) /\ IsFiniteSet(Nodes)
  /\ Evals \cap Merges = {} /\ Evals \cap Fanouts = {} /\ Merges \cap Fanouts = {}
  /\ EvalSlots \in Nat \ {0} /\ MaxBoots \in Nat
  /\ RunnerEnabled \in BOOLEAN
  /\ DbFaults \subseteq {"starting", "resolving", "storing", "queued", "working",
                   "finishing", "failing"}

VARIABLES
  status,      \* the status column of each row, "none" before it exists
  outputs,     \* merges whose output version exists
  benchTasks,  \* how many Fusion-Bench tasks an evaluation has started
  targets,     \* target nodes a fan-out has still to visit
  accepted,    \* nodes that accepted a fan-out
  refused,     \* nodes that did not
  hub,         \* "down", a startup phase or "serving"
  pc,          \* where the job's coroutine stands, "idle" without one
  worklist,    \* PENDING evaluations startup will resume
  boots,
  lost         \* history: runners since the last start that a database error
               \* ended before they could end their row

rows    == <<status, outputs>>
outside == <<benchTasks, targets, accepted, refused>>
process == <<hub, worklist, boots, lost>>
vars    == <<rows, outside, process, pc>>

\* Inside `async with _get_eval_semaphore()`
InSlot == {"starting", "posting", "polling", "fetching", "storing", "failing"}

Move(j, from, to) == pc[j] = from /\ pc' = [pc EXCEPT ![j] = to]

SetStatus(j, st) == status' = [status EXCEPT ![j] = st]

\* An update whose exception is only logged.
TryStatus(j, st, point) ==
  \/ SetStatus(j, st)
  \/ point \in DbFaults /\ UNCHANGED status

Lose(j) == lost' = lost \cup {j}

\* A query or update whose exception reaches the runner's handler, and leaves it a
\* session to work with: an evaluation takes a new one for every update, a merge
\* and a fan-out go on with their own after a SELECT that raised or a label that
\* was taken.  A waiting evaluation has not touched the database yet.
DbFault(j) ==
  /\ pc[j] \in DbFaults \ {"starting", "failing"}
  /\ j \in Evals => pc[j] = "storing"
  /\ j \in Merges => pc[j] # "working"
  /\ pc' = [pc EXCEPT ![j] = "failing"]
  /\ UNCHANGED <<rows, outside, process>>

\* A flush or commit of a merge or a fan-out raises.  Nothing rolls the session
\* back, so the update to FAILED in the handler raises as well, and the coroutine
\* ends.  A merge commits nothing while it works, a fan-out only its verdict.
CommitRaises(j) ==
  /\ j \in Merges \cup Fanouts
  /\ pc[j] \in DbFaults \cap {"queued", "working", "finishing"}
  /\ j \in Merges => pc[j] # "working"
  /\ j \in Fanouts /\ pc[j] = "working" => targets[j] = {}
  /\ pc' = [pc EXCEPT ![j] = "idle"]
  /\ Lose(j)
  /\ UNCHANGED <<rows, outside, hub, worklist, boots>>

\* Mutant: the handler only logs.
FailSilently(j) ==
  /\ Move(j, "failing", "idle")
  /\ UNCHANGED <<rows, outside, process>>

\* The handlers mark the row FAILED; if that raises too, nothing else does.
Fail(j) ==
  /\ Move(j, "failing", "idle")
  /\ \/ SetStatus(j, "failed") /\ UNCHANGED lost
     \/ "failing" \in DbFaults /\ Lose(j) /\ UNCHANGED status
  /\ UNCHANGED <<outputs, outside, hub, worklist, boots>>

----------------------------------------------------------------------------
(* Evaluations *)

\* POST /evaluations: with the runner disabled no coroutine is created.
CreateEval(e) ==
  /\ hub = "serving" /\ status[e] = "none"
  /\ SetStatus(e, "pending")
  /\ pc' = [pc EXCEPT ![e] = IF RunnerEnabled THEN "queued" ELSE "idle"]
  /\ UNCHANGED <<outputs, outside, process>>

AcquireSlot(e) ==
  /\ Cardinality({d \in Evals : pc[d] \in InSlot}) < EvalSlots
  /\ Move(e, "queued", "starting")
  /\ UNCHANGED <<rows, outside, process>>

\* The lookup of the model name that follows is outside the try block: its
\* exception ends the coroutine.
FlipRunning(e) ==
  /\ TryStatus(e, "running", "starting")
  /\ \/ Move(e, "starting", "posting") /\ UNCHANGED lost
     \/ "resolving" \in DbFaults /\ Move(e, "starting", "idle") /\ Lose(e)
  /\ UNCHANGED <<outputs, outside, hub, worklist, boots>>

\* POST /api/v1/tasks at Fusion-Bench.
PostBench(e) ==
  /\ Move(e, "posting", "polling")
  /\ benchTasks' = [benchTasks EXCEPT ![e] = @ + 1]
  /\ UNCHANGED <<rows, targets, accepted, refused, process>>

\* Rejected, unreachable, no task id, or the answer is lost (the task started).
PostRefused(e) ==
  /\ Move(e, "posting", "failing")
  /\ benchTasks' \in {benchTasks, [benchTasks EXCEPT ![e] = @ + 1]}
  /\ UNCHANGED <<rows, targets, accepted, refused, process>>

\* 120 polls, five seconds apart; a timeout counts as a failure.
Poll(e) ==
  /\ \E next \in {"fetching", "failing"} : Move(e, "polling", next)
  /\ UNCHANGED <<rows, outside, process>>

\* A result that cannot be fetched is stored as score 0.
FetchResult(e) ==
  /\ Move(e, "fetching", "storing")
  /\ UNCHANGED <<rows, outside, process>>

StoreResult(e) ==
  /\ Move(e, "storing", "idle")
  /\ SetStatus(e, "completed")
  /\ UNCHANGED <<outputs, outside, process>>

Evaluate(e) ==
  \/ AcquireSlot(e) \/ FlipRunning(e) \/ PostBench(e) \/ PostRefused(e)
  \/ Poll(e) \/ FetchResult(e) \/ StoreResult(e)

----------------------------------------------------------------------------
(* LoRA merges and fan-outs: the row first, then a coroutine *)

CreateJob(j) ==
  /\ hub = "serving" /\ status[j] = "none"
  /\ SetStatus(j, "pending")
  /\ pc' = [pc EXCEPT ![j] = "queued"]
  /\ \E chosen \in SUBSET Nodes :
       targets' = IF j \in Fanouts THEN [targets EXCEPT ![j] = chosen] ELSE targets
  /\ UNCHANGED <<outputs, benchTasks, accepted, refused, process>>

BeginJob(j) ==
  /\ Move(j, "queued", "working")
  /\ SetStatus(j, "running")
  /\ UNCHANGED <<outputs, outside, process>>

\* POST /v1/merge-adapter: an output path, or an error, a timeout, no path.
MergeAdapter(m) ==
  /\ \E next \in {"finishing", "failing"} : Move(m, "working", next)
  /\ UNCHANGED <<rows, outside, process>>

\* Mutant: the version is committed on its own, before the task (before P1-17).
FinishMergeSplit(m) ==
  \/ /\ pc[m] = "finishing" /\ m \notin outputs
     /\ outputs' = outputs \cup {m}
     /\ UNCHANGED <<status, outside, process, pc>>
  \/ /\ m \in outputs
     /\ Move(m, "finishing", "idle")
     /\ SetStatus(m, "completed")
     /\ UNCHANGED <<outputs, outside, process>>

\* Output version and COMPLETED row in one transaction.
FinishMerge(m) ==
  /\ Move(m, "finishing", "idle")
  /\ outputs' = outputs \cup {m}
  /\ SetStatus(m, "completed")
  /\ UNCHANGED <<outside, process>>

\* POST /cluster/remote-sync at one target; a vanished node counts as refused.
VisitNode(f, n) ==
  /\ pc[f] = "working" /\ n \in targets[f]
  /\ targets' = [targets EXCEPT ![f] = @ \ {n}]
  /\ \/ accepted' = [accepted EXCEPT ![f] = @ \cup {n}] /\ UNCHANGED refused
     \/ refused' = [refused EXCEPT ![f] = @ \cup {n}] /\ UNCHANGED accepted
  /\ UNCHANGED <<rows, benchTasks, process, pc>>

\* Mutant: no special case for an empty target list (before R11).
VerdictIgnoringEmpty(f) ==
  IF refused[f] = {} THEN "completed" ELSE IF accepted[f] # {} THEN "partial" ELSE "failed"

Verdict(f) ==
  CASE refused[f] = {} /\ accepted[f] # {} -> "completed"
    [] refused[f] # {} /\ accepted[f] # {} -> "partial"
    [] OTHER                               -> "failed"

FinishFanout(f) ==
  /\ targets[f] = {}
  /\ Move(f, "working", "idle")
  /\ SetStatus(f, Verdict(f))
  /\ UNCHANGED <<outputs, outside, process>>

Merge(m) == BeginJob(m) \/ MergeAdapter(m) \/ FinishMerge(m)

Fanout(f) == BeginJob(f) \/ (\E n \in Nodes : VisitNode(f, n)) \/ FinishFanout(f)

----------------------------------------------------------------------------
(* Startup: _reconcile_orphaned_tasks, in the order of the code *)

Boot ==
  /\ hub = "down" /\ boots < MaxBoots
  /\ boots' = boots + 1
  /\ hub' = "failing evals"
  /\ lost' = {}
  /\ UNCHANGED <<rows, outside, worklist, pc>>

\* Updates of single rows, each with its own commit.
FailRow(j, phase, orphaned) ==
  /\ hub = phase /\ status[j] \in orphaned
  /\ SetStatus(j, "failed")
  /\ UNCHANGED <<outputs, outside, process, pc>>

\* Mutant: RUNNING evaluations are resumed as well.
ListEvalsWithRunning ==
  /\ hub = "failing evals"
  /\ hub' = "failing merges"
  /\ worklist' = {e \in Evals : status[e] \in {"pending", "running"}}
  /\ UNCHANGED <<rows, outside, boots, lost, pc>>

\* Mutant: the PENDING rows of every table are listed.
ListEveryPending ==
  /\ hub = "failing evals" /\ \A e \in Evals : status[e] # "running"
  /\ hub' = "failing merges"
  /\ worklist' = {j \in Jobs : status[j] = "pending"}
  /\ UNCHANGED <<rows, outside, boots, lost, pc>>

ListEvals ==
  /\ hub = "failing evals" /\ \A e \in Evals : status[e] # "running"
  /\ hub' = "failing merges"
  /\ worklist' = {e \in Evals : status[e] = "pending"}
  /\ UNCHANGED <<rows, outside, boots, lost, pc>>

MergeOrphans == {"running", "pending"}

\* All fan-outs fail in one transaction, once no orphaned merge is left.
FailFanouts ==
  /\ hub = "failing merges" /\ \A m \in Merges : status[m] \notin MergeOrphans
  /\ hub' = "resuming"
  /\ status' = [j \in Jobs |->
       IF j \in Fanouts /\ status[j] \in {"running", "pending"} THEN "failed" ELSE status[j]]
  /\ UNCHANGED <<outputs, outside, worklist, boots, lost, pc>>

\* resume_evaluation: neither a claim nor a look at eval_runner_enabled
ResumeEval(e) ==
  /\ hub = "resuming" /\ e \in worklist
  /\ worklist' = worklist \ {e}
  /\ pc' = [pc EXCEPT ![e] = "queued"]
  /\ UNCHANGED <<rows, outside, hub, boots, lost>>

Serve ==
  /\ hub = "resuming" /\ worklist = {}
  /\ hub' = "serving"
  /\ UNCHANGED <<rows, outside, worklist, boots, lost, pc>>

Startup ==
  \/ Boot \/ ListEvals \/ FailFanouts \/ Serve
  \/ \E e \in Evals : FailRow(e, "failing evals", {"running"}) \/ ResumeEval(e)
  \/ \E m \in Merges : FailRow(m, "failing merges", MergeOrphans)

\* The guard on boots bounds crashes: the last start is never followed by one.
Crash ==
  /\ hub # "down" /\ boots < MaxBoots
  /\ hub' = "down"
  /\ pc' = [j \in Jobs |-> "idle"]
  /\ worklist' = {}
  /\ UNCHANGED <<rows, outside, boots, lost>>

----------------------------------------------------------------------------
Init ==
  /\ status = [j \in Jobs |-> "none"]
  /\ outputs = {}
  /\ benchTasks = [e \in Evals |-> 0]
  /\ targets = [f \in Fanouts |-> {}]
  /\ accepted = [f \in Fanouts |-> {}]
  /\ refused = [f \in Fanouts |-> {}]
  /\ hub = "down"
  /\ pc = [j \in Jobs |-> "idle"]
  /\ worklist = {}
  /\ boots = 0
  /\ lost = {}

Run(j) == \/ j \in Evals /\ Evaluate(j)
          \/ j \in Merges /\ Merge(j)
          \/ j \in Fanouts /\ Fanout(j)
          \/ DbFault(j)
          \/ CommitRaises(j)
          \/ Fail(j)

Next ==
  \/ \E e \in Evals : CreateEval(e)
  \/ \E j \in Merges \cup Fanouts : CreateJob(j)
  \/ \E j \in Jobs : Run(j)
  \/ Startup
  \/ Crash

Spec == Init /\ [][Next]_vars

\* The event loop runs ready coroutines, every HTTP client has a timeout, and
\* the supervisor restarts a dead process.
FairSpec == Spec /\ WF_vars(Startup) /\ \A j \in Jobs : WF_vars(Run(j))

----------------------------------------------------------------------------
(* Properties *)

\* Every variable keeps its type.
TypeOK ==
  /\ status \in [Jobs -> {"none", "pending", "running", "completed", "partial", "failed"}]
  /\ outputs \subseteq Merges
  /\ benchTasks \in [Evals -> Nat]
  /\ targets \in [Fanouts -> SUBSET Nodes]
  /\ accepted \in [Fanouts -> SUBSET Nodes]
  /\ refused \in [Fanouts -> SUBSET Nodes]
  /\ hub \in {"down", "failing evals", "failing merges", "resuming", "serving"}
  /\ pc \in [Jobs -> {"idle", "queued", "working", "finishing"} \cup InSlot]
  /\ worklist \subseteq Evals
  /\ boots \in 0 .. MaxBoots
  /\ lost \subseteq Jobs

\* No evaluation ever starts a second Fusion-Bench task, across any number of
\* restarts, as long as the flip to RUNNING commits.
BenchAtMostOnce == \A e \in Evals : benchTasks[e] <= 1

\* A fan-out reads completed only if every node it was aimed at accepted it and
\* there was one, and partial only if nodes disagreed (R11).
VerdictEarned ==
  \A f \in Fanouts :
    /\ status[f] = "completed" => /\ targets[f] = {} /\ refused[f] = {}
                                  /\ accepted[f] # {}
    /\ status[f] = "partial" => accepted[f] # {} /\ refused[f] # {}

Unfinished(j) == status[j] \in {"pending", "running"}

\* While the hub serves, an unfinished row has a coroutine that will end it, or
\* its runner has met a database error since the last start: no restart leaves a
\* row "stuck RUNNING forever" (E-D2, R4), whatever it interrupts.
NoStuckRow ==
  RunnerEnabled /\ hub = "serving" =>
    \A j \in Jobs : Unfinished(j) => pc[j] # "idle" \/ j \in lost

\* A restart neither repeats what may have been done nor strands what was not.
RestartIsSafe == BenchAtMostOnce /\ NoStuckRow

\* Every job submitted is eventually over, across restarts, unless a database
\* error ends its runner; a start then ends the row, or runs the job again.
EveryJobEnds ==
  RunnerEnabled =>
    \A j \in Jobs : Unfinished(j) /\ j \notin lost ~>
      status[j] \in {"completed", "partial", "failed"} \/ j \in lost

\* A partial fan-out is a finished one, and only merges have a product of their
\* own: the other jobs' product is their final row.
jobState == [j \in Jobs |-> IF status[j] = "partial" THEN "completed" ELSE status[j]]

jobProduct == outputs \cup {j \in Jobs \ Merges : status[j] \in {"completed", "partial"}}

Lifecycle == INSTANCE JobLifecycle WITH state <- jobState, product <- jobProduct

\* The three runners implement the promise of JobLifecycle: no row changes once
\* it has ended, and a merge is completed exactly when its output exists.
ImplementsLifecycle == Lifecycle!Spec
=============================================================================
