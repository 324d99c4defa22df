------------------------ MODULE BackgroundJobsProofs ------------------------
(***************************************************************************)
(* Theorems about BackgroundJobs, for any evaluations, merges, fan-outs,   *)
(* nodes, slots and restarts, and any choice of failing database updates   *)
(* except where a theorem names the one that must not fail.                *)
(***************************************************************************)
EXTENDS BackgroundJobs, TLAPS

\* Who may be at which control point: the three coroutines share only the
\* waiting and the failing one.
PointsApart ==
  /\ \A e \in Evals : pc[e] \in {"idle", "queued"} \cup InSlot
  /\ \A m \in Merges : pc[m] \in {"idle", "queued", "working", "finishing", "failing"}
  /\ \A f \in Fanouts : pc[f] \in {"idle", "queued", "working", "failing"}

\* No coroutine exists before startup resumes or serves.
QuietStart ==
  hub \in {"down", "failing evals", "failing merges"} => \A j \in Jobs : pc[j] = "idle"

Types == TypeOK /\ PointsApart

----------------------------------------------------------------------------
(* Types *)

\* What counting, adding and removing do to the functions of the model.
LEMMA CountUp ==
  ASSUME NEW S, NEW c \in [S -> Nat], NEW x \in S
  PROVE  [c EXCEPT ![x] = @ + 1] \in [S -> Nat]
OBVIOUS

LEMMA AddOne ==
  ASSUME NEW S, NEW R, NEW f \in [S -> SUBSET R], NEW x \in S, NEW n \in R
  PROVE  /\ [f EXCEPT ![x] = @ \cup {n}] \in [S -> SUBSET R]
         /\ [f EXCEPT ![x] = @ \ {n}] \in [S -> SUBSET R]
OBVIOUS

LEMMA NextBoot ==
  ASSUME NEW b \in 0 .. MaxBoots, b < MaxBoots
  PROVE  b + 1 \in 0 .. MaxBoots
BY ConstantsAssumption

LEMMA InitTypes == Init => Types /\ QuietStart
BY ConstantsAssumption DEF Init, Types, TypeOK, PointsApart, QuietStart, Jobs, InSlot

LEMMA EvaluateKeepsTypes ==
  ASSUME Types, NEW e \in Evals, Evaluate(e)
  PROVE  Types'
<1> USE ConstantsAssumption
    DEF Types, TypeOK, PointsApart, Jobs, InSlot, Move, SetStatus, TryStatus, Lose, rows, outside,
        process
<1>1. CASE AcquireSlot(e)
  BY <1>1 DEF AcquireSlot
<1>2. CASE FlipRunning(e)
  BY <1>2, ZenonT(60) DEF FlipRunning
<1>0. [benchTasks EXCEPT ![e] = @ + 1] \in [Evals -> Nat]
  BY CountUp
<1>3. CASE PostBench(e)
  <2>1. benchTasks' \in [Evals -> Nat] /\ pc' = [pc EXCEPT ![e] = "polling"]
    BY <1>0, <1>3 DEF PostBench
  <2> QED BY <1>3, <2>1 DEF PostBench
<1>4. CASE PostRefused(e)
  <2>1. benchTasks' \in [Evals -> Nat] /\ pc' = [pc EXCEPT ![e] = "failing"]
    BY <1>0, <1>4 DEF PostRefused
  <2> QED BY <1>4, <2>1 DEF PostRefused
<1>5. CASE Poll(e)
  BY <1>5, ZenonT(60) DEF Poll
<1>6. CASE FetchResult(e)
  BY <1>6 DEF FetchResult
<1>7. CASE StoreResult(e)
  BY <1>7 DEF StoreResult
<1> QED BY <1>1, <1>2, <1>3, <1>4, <1>5, <1>6, <1>7 DEF Evaluate

\* The verdict on a fan-out is a final status.
LEMMA VerdictType ==
  ASSUME NEW f \in Fanouts
  PROVE  Verdict(f) \in {"completed", "partial", "failed"}
BY DEF Verdict

LEMMA JobKeepsTypes ==
  ASSUME Types, NEW j \in Jobs,
         \/ j \in Merges /\ Merge(j)
         \/ j \in Fanouts /\ Fanout(j)
         \/ DbFault(j)
         \/ CommitRaises(j)
         \/ Fail(j)
  PROVE  Types'
<1> USE ConstantsAssumption
    DEF Types, TypeOK, PointsApart, Jobs, InSlot, Move, SetStatus, TryStatus, Lose, rows, outside,
        process
<1>1. CASE DbFault(j)
  BY <1>1 DEF DbFault
<1>8. CASE CommitRaises(j)
  BY <1>8 DEF CommitRaises
<1>2. CASE Fail(j)
  BY <1>2 DEF Fail
<1>3. CASE (j \in Merges \/ j \in Fanouts) /\ BeginJob(j)
  BY <1>3 DEF BeginJob
<1>4. CASE j \in Merges /\ MergeAdapter(j)
  BY <1>4, ZenonT(60) DEF MergeAdapter
<1>5. CASE j \in Merges /\ FinishMerge(j)
  BY <1>5 DEF FinishMerge
<1>6. ASSUME NEW n \in Nodes, j \in Fanouts, VisitNode(j, n)
      PROVE  Types'
  <2>0. \/ accepted' = [accepted EXCEPT ![j] = @ \cup {n}] /\ refused' = refused
        \/ refused' = [refused EXCEPT ![j] = @ \cup {n}] /\ accepted' = accepted
    BY <1>6 DEF VisitNode
  <2>1. accepted' \in [Fanouts -> SUBSET Nodes] /\ refused' \in [Fanouts -> SUBSET Nodes]
    <3>1. [accepted EXCEPT ![j] = @ \cup {n}] \in [Fanouts -> SUBSET Nodes]
      BY <1>6, AddOne
    <3>2. [refused EXCEPT ![j] = @ \cup {n}] \in [Fanouts -> SUBSET Nodes]
      BY <1>6, AddOne
    <3> QED BY <2>0, <3>1, <3>2
  <2>2. targets' \in [Fanouts -> SUBSET Nodes]
    BY <1>6, AddOne DEF VisitNode
  <2>3. UNCHANGED <<status, outputs, benchTasks, hub, worklist, boots, lost, pc>>
    BY <1>6 DEF VisitNode
  <2> QED BY <2>1, <2>2, <2>3
<1>7. CASE j \in Fanouts /\ FinishFanout(j)
  BY <1>7, VerdictType DEF FinishFanout
<1> QED BY <1>1, <1>2, <1>3, <1>4, <1>5, <1>6, <1>7, <1>8 DEF Merge, Fanout

LEMMA StartupKeepsTypes ==
  ASSUME Types, Startup
  PROVE  Types'
<1> USE ConstantsAssumption
    DEF Types, TypeOK, PointsApart, Jobs, InSlot, SetStatus, rows, outside, process
<1>1. CASE Boot
  <2>1. boots' \in 0 .. MaxBoots
    BY <1>1, NextBoot DEF Boot
  <2> QED BY <1>1, <2>1 DEF Boot
<1>2. CASE ListEvals
  BY <1>2 DEF ListEvals
<1>3. CASE FailFanouts
  BY <1>3 DEF FailFanouts
<1>4. CASE Serve
  BY <1>4 DEF Serve
<1>5. ASSUME NEW j \in Jobs, NEW phase, NEW orphaned, FailRow(j, phase, orphaned)
      PROVE  Types'
  BY <1>5 DEF FailRow
<1>6. ASSUME NEW e \in Evals, ResumeEval(e)
      PROVE  Types'
  BY <1>6 DEF ResumeEval
<1> QED BY <1>1, <1>2, <1>3, <1>4, <1>5, <1>6 DEF Startup

LEMMA NextKeepsTypes == Types /\ [Next]_vars => Types'
<1> SUFFICES ASSUME Types, [Next]_vars PROVE Types'
  OBVIOUS
<1> USE ConstantsAssumption
    DEF Types, TypeOK, PointsApart, Jobs, InSlot, SetStatus, rows, outside, process
<1>1. CASE UNCHANGED vars
  BY <1>1 DEF vars
<1>2. ASSUME NEW e \in Evals, CreateEval(e)
      PROVE  Types'
  BY <1>2 DEF CreateEval
<1>3. ASSUME NEW j \in Merges \cup Fanouts, CreateJob(j)
      PROVE  Types'
  BY <1>3 DEF CreateJob
<1>4. CASE Crash
  BY <1>4 DEF Crash
<1>5. ASSUME NEW j \in Jobs, Run(j)
      PROVE  Types'
  BY <1>5, EvaluateKeepsTypes, JobKeepsTypes DEF Run
<1> QED BY <1>1, <1>2, <1>3, <1>4, <1>5, StartupKeepsTypes DEF Next

\* Every variable keeps its type, whatever fails.
THEOREM TypeCorrect == Spec => []TypeOK
<1>1. Types => TypeOK
  BY DEF Types
<1> QED BY <1>1, InitTypes, NextKeepsTypes, PTL DEF Spec

LEMMA TypesInvariant == Spec => []Types
BY InitTypes, NextKeepsTypes, PTL DEF Spec

----------------------------------------------------------------------------
(* Fan-outs *)

\* While its coroutine is alive a fan-out has no verdict yet.
FanoutInv ==
  /\ VerdictEarned
  /\ \A f \in Fanouts :
       pc[f] \in {"queued", "working", "failing"} => status[f] \notin {"completed", "partial"}

\* Steps of the other jobs do not touch a fan-out.
LEMMA OthersKeepFanouts ==
  ASSUME FanoutInv,
         \A f \in Fanouts : status'[f] = status[f] /\ pc'[f] = pc[f],
         UNCHANGED <<targets, accepted, refused>>
  PROVE  FanoutInv'
BY DEF FanoutInv, VerdictEarned

LEMMA FanoutKeepsVerdict ==
  ASSUME Types, FanoutInv, NEW f \in Fanouts,
         Fanout(f) \/ DbFault(f) \/ CommitRaises(f) \/ Fail(f)
  PROVE  FanoutInv'
<1> USE DEF FanoutInv, VerdictEarned, Types, TypeOK, Jobs, Move, SetStatus, TryStatus,
            rows, outside, process
<1>1. CASE BeginJob(f)
  BY <1>1 DEF BeginJob
<1>2. ASSUME NEW n \in Nodes, VisitNode(f, n)
      PROVE  FanoutInv'
  <2>1. status[f] \notin {"completed", "partial"} /\ UNCHANGED <<status, pc>>
    BY <1>2 DEF VisitNode
  <2>2. \A g \in Fanouts : g # f =>
          targets'[g] = targets[g] /\ accepted'[g] = accepted[g] /\ refused'[g] = refused[g]
    BY <1>2 DEF VisitNode
  <2> QED BY <2>1, <2>2
<1>3. CASE FinishFanout(f)
  BY <1>3 DEF FinishFanout, Verdict
<1>4. CASE DbFault(f)
  <2>1. pc[f] \in {"queued", "working"}
    BY <1>4, ConstantsAssumption DEF DbFault, PointsApart
  <2>2. /\ pc' = [pc EXCEPT ![f] = "failing"]
        /\ UNCHANGED <<status, targets, accepted, refused>>
    BY <1>4 DEF DbFault
  <2> QED BY <2>1, <2>2
<1>5. CASE Fail(f)
  BY <1>5 DEF Fail
<1>6. CASE CommitRaises(f)
  <2>1. /\ pc' = [pc EXCEPT ![f] = "idle"]
        /\ UNCHANGED <<status, targets, accepted, refused>>
    BY <1>6 DEF CommitRaises
  <2> QED BY <2>1
<1> QED BY <1>1, <1>2, <1>3, <1>4, <1>5, <1>6 DEF Fanout

LEMMA NextKeepsVerdicts == Types /\ FanoutInv /\ [Next]_vars => FanoutInv'
<1> SUFFICES ASSUME Types, FanoutInv, [Next]_vars PROVE FanoutInv'
  OBVIOUS
<1>1. CASE UNCHANGED vars
  BY <1>1 DEF vars, rows, outside, process, FanoutInv, VerdictEarned
<1>0. /\ status = [j \in Jobs |-> status[j]] /\ pc = [j \in Jobs |-> pc[j]]
      /\ Fanouts \subseteq Jobs
      /\ \A f \in Fanouts : f \notin Evals /\ f \notin Merges
  BY ConstantsAssumption DEF Types, TypeOK, Jobs
<1>2. ASSUME NEW e \in Evals, CreateEval(e)
      PROVE  FanoutInv'
  <2>1. \A f \in Fanouts : status'[f] = status[f] /\ pc'[f] = pc[f]
    BY <1>2, <1>0 DEF CreateEval, SetStatus
  <2>2. UNCHANGED <<targets, accepted, refused>>
    BY <1>2 DEF CreateEval, outside
  <2> QED BY <2>1, <2>2, OthersKeepFanouts
<1>3. ASSUME NEW j \in Merges \cup Fanouts, CreateJob(j)
      PROVE  FanoutInv'
  <2>1. /\ status[j] = "none" /\ status' = [status EXCEPT ![j] = "pending"]
        /\ pc' = [pc EXCEPT ![j] = "queued"]
        /\ UNCHANGED <<accepted, refused>>
        /\ \A f \in Fanouts : f # j => targets'[f] = targets[f]
    BY <1>3 DEF CreateJob, SetStatus, Types, TypeOK
  <2> QED BY <2>1 DEF FanoutInv, VerdictEarned, Types, TypeOK, Jobs
<1>4. ASSUME NEW e \in Evals, Evaluate(e)
      PROVE  FanoutInv'
  <2>1. \A f \in Fanouts : status'[f] = status[f] /\ pc'[f] = pc[f]
    BY <1>4, <1>0 DEF Evaluate, AcquireSlot, FlipRunning, PostBench, PostRefused, Poll,
               FetchResult, StoreResult, rows, Move, SetStatus, TryStatus
  <2>2. UNCHANGED <<targets, accepted, refused>>
    BY <1>4 DEF Evaluate, AcquireSlot, FlipRunning, PostBench, PostRefused, Poll,
               FetchResult, StoreResult, outside
  <2> QED BY <2>1, <2>2, OthersKeepFanouts
<1>5. ASSUME NEW m \in Merges, Merge(m)
      PROVE  FanoutInv'
  <2>1. \A f \in Fanouts : status'[f] = status[f] /\ pc'[f] = pc[f]
    BY <1>5, <1>0 DEF Merge, BeginJob, MergeAdapter, FinishMerge, rows, Move, SetStatus
  <2>2. UNCHANGED <<targets, accepted, refused>>
    BY <1>5 DEF Merge, BeginJob, MergeAdapter, FinishMerge, outside
  <2> QED BY <2>1, <2>2, OthersKeepFanouts
<1>6. ASSUME NEW j \in Evals \cup Merges, DbFault(j) \/ CommitRaises(j) \/ Fail(j)
      PROVE  FanoutInv'
  <2>1. \A f \in Fanouts : status'[f] = status[f] /\ pc'[f] = pc[f]
    BY <1>6, <1>0 DEF DbFault, CommitRaises, Fail, rows, Move, SetStatus
  <2>2. UNCHANGED <<targets, accepted, refused>>
    BY <1>6 DEF DbFault, CommitRaises, Fail, outside
  <2> QED BY <2>1, <2>2, OthersKeepFanouts
<1>7. ASSUME NEW j \in Evals \cup Merges, NEW phase, NEW orphaned,
             FailRow(j, phase, orphaned)
      PROVE  FanoutInv'
  <2>1. \A f \in Fanouts : status'[f] = status[f] /\ pc'[f] = pc[f]
    BY <1>7, <1>0 DEF FailRow, SetStatus
  <2>2. UNCHANGED <<targets, accepted, refused>>
    BY <1>7 DEF FailRow, outside
  <2> QED BY <2>1, <2>2, OthersKeepFanouts
<1>8. ASSUME NEW e \in Evals, ResumeEval(e)
      PROVE  FanoutInv'
  <2>1. \A f \in Fanouts : status'[f] = status[f] /\ pc'[f] = pc[f]
    BY <1>8, <1>0 DEF ResumeEval, rows
  <2>2. UNCHANGED <<targets, accepted, refused>>
    BY <1>8 DEF ResumeEval, outside
  <2> QED BY <2>1, <2>2, OthersKeepFanouts
<1>9. CASE FailFanouts
  BY <1>9 DEF FailFanouts, FanoutInv, VerdictEarned, Types, TypeOK, Jobs, outside
<1>10. CASE Boot \/ ListEvals \/ Serve
  BY <1>10 DEF Boot, ListEvals, Serve, rows, outside, FanoutInv, VerdictEarned
<1>11. CASE Crash
  BY <1>11 DEF Crash, rows, outside, FanoutInv, VerdictEarned, Jobs
<1> QED BY <1>1, <1>2, <1>3, <1>4, <1>5, <1>6, <1>7, <1>8, <1>9, <1>10, <1>11,
           FanoutKeepsVerdict DEF Next, Run, Startup, Jobs

\* A fan-out reads completed only if it had a target and all accepted it, and
\* partial only if they disagreed.
THEOREM VerdictsEarned == Spec => []VerdictEarned
<1>1. Init => FanoutInv
  BY DEF Init, FanoutInv, VerdictEarned, Jobs
<1>2. FanoutInv => VerdictEarned
  BY DEF FanoutInv
<1> QED BY <1>1, <1>2, TypesInvariant, NextKeepsVerdicts, PTL DEF Spec
----------------------------------------------------------------------------
(* Restarts and the promise to the client *)

\* The claim "pending until running" of a row survives a failing database only
\* if the flip to RUNNING does not fail silently.
FlipCommits == "starting" \notin DbFaults

\* What a row says of its coroutine, of the tasks it started at Fusion-Bench
\* and of its product.
RowTrue(j) ==
  /\ pc[j] \in {"queued", "starting"} => status[j] = "pending"
  /\ pc[j] \in {"posting", "polling", "fetching", "storing", "working", "finishing"}
       => status[j] = "running"
  /\ pc[j] = "failing" => status[j] \in {"pending", "running"}
  /\ j \in Evals => /\ benchTasks[j] <= 1
                    /\ status[j] \in {"none", "pending"} => benchTasks[j] = 0
                    /\ pc[j] = "posting" => benchTasks[j] = 0
  /\ j \in Merges => /\ status[j] # "partial"
                     /\ j \in outputs <=> status[j] = "completed"
  /\ j \in worklist => status[j] = "pending" /\ pc[j] = "idle"

RowsTrue == QuietStart /\ \A j \in Jobs : RowTrue(j)

\* How far the repair of the rows has come.
Recovered ==
  /\ hub \in {"failing merges", "resuming"} =>
       \A e \in Evals : pc[e] = "idle" =>
         \/ status[e] # "running" /\ (status[e] = "pending" => e \in worklist)
         \/ e \in lost
  /\ hub = "resuming" =>
       \A j \in Merges \cup Fanouts : status[j] \notin {"pending", "running"}
  /\ NoStuckRow

\* A step of one job keeps the rows of the others true.
LEMMA OneRow ==
  ASSUME \A i \in Jobs : RowTrue(i), NEW j \in Jobs, RowTrue(j)',
         \A i \in Jobs \ {j} :
           /\ status'[i] = status[i] /\ pc'[i] = pc[i]
           /\ i \in outputs' <=> i \in outputs
           /\ i \in Evals => benchTasks'[i] = benchTasks[i]
           /\ i \in worklist' => i \in worklist
  PROVE  (\A i \in Jobs : RowTrue(i))'
<1> SUFFICES ASSUME NEW i \in Jobs, i # j PROVE RowTrue(i)'
  OBVIOUS
<1> QED BY DEF RowTrue

\* A step that touches no row and no coroutine, and resumes nothing new.
LEMMA RowsUntouched ==
  ASSUME \A i \in Jobs : RowTrue(i), UNCHANGED <<rows, benchTasks, pc>>,
         worklist' \subseteq worklist
  PROVE  (\A i \in Jobs : RowTrue(i))'
BY DEF RowTrue, rows

\* One coroutine moves: what that does to the functions of the model.
LEMMA OneMoves ==
  ASSUME Types, NEW j \in Jobs, NEW to, pc' = [pc EXCEPT ![j] = to]
  PROVE  pc'[j] = to /\ \A i \in Jobs \ {j} : pc'[i] = pc[i]
BY DEF Types, TypeOK

LEMMA OneWrites ==
  ASSUME Types, NEW j \in Jobs, NEW st, status' = [status EXCEPT ![j] = st]
  PROVE  status'[j] = st /\ \A i \in Jobs \ {j} : status'[i] = status[i]
BY DEF Types, TypeOK

LEMMA EvaluateKeepsRows ==
  ASSUME FlipCommits, Types, RowsTrue, NEW e \in Evals, Evaluate(e)
  PROVE  RowsTrue'
<1> USE DEF RowsTrue
<1>0. /\ e \in Jobs /\ e \notin Merges /\ RowTrue(e) /\ benchTasks[e] \in Nat
      /\ pc[e] # "idle" /\ UNCHANGED <<outputs, hub, worklist, boots>>
  BY ConstantsAssumption
     DEF Jobs, Types, TypeOK, Evaluate, AcquireSlot, FlipRunning, PostBench, PostRefused, Poll,
         FetchResult, StoreResult, Move, rows, process
<1>1. QuietStart'
  BY <1>0 DEF QuietStart, process
<1>2. \A i \in Jobs \ {e} :
        /\ status'[i] = status[i] /\ pc'[i] = pc[i]
        /\ i \in Evals => benchTasks'[i] = benchTasks[i]
  BY <1>0, ConstantsAssumption
     DEF Jobs, Types, TypeOK, Evaluate, AcquireSlot, FlipRunning, PostBench, PostRefused, Poll,
         FetchResult, StoreResult, Move, SetStatus, TryStatus, rows, outside
<1>3. RowTrue(e)'
  <2> USE <1>0 DEF RowTrue, process
  <2>1. CASE AcquireSlot(e)
    BY <2>1, OneMoves DEF AcquireSlot, Move, rows, outside
  <2>2. CASE FlipRunning(e)
    <3>1. /\ pc[e] = "starting" /\ status'[e] = "running"
          /\ pc'[e] \in {"posting", "idle"} /\ benchTasks' = benchTasks
      <4>1. pc[e] = "starting" /\ pc'[e] \in {"posting", "idle"}
        BY <2>2, OneMoves DEF FlipRunning, Move
      <4>2. status' = [status EXCEPT ![e] = "running"] /\ benchTasks' = benchTasks
        BY <2>2 DEF FlipRunning, FlipCommits, TryStatus, SetStatus, outside
      <4> QED BY <4>1, <4>2, OneWrites
    <3> QED BY <3>1
  <2>3. CASE PostBench(e)
    <3>1. /\ pc[e] = "posting" /\ pc'[e] = "polling" /\ status' = status
          /\ benchTasks'[e] = benchTasks[e] + 1
      BY <2>3, OneMoves DEF PostBench, Move, rows, Types, TypeOK
    <3> QED BY <3>1
  <2>4. CASE PostRefused(e)
    <3>1. /\ pc[e] = "posting" /\ pc'[e] = "failing" /\ status' = status
          /\ benchTasks'[e] \in {benchTasks[e], benchTasks[e] + 1}
      BY <2>4, OneMoves DEF PostRefused, Move, rows, Types, TypeOK
    <3> QED BY <3>1
  <2>5. CASE Poll(e)
    BY <2>5, OneMoves DEF Poll, Move, rows, outside
  <2>6. CASE FetchResult(e)
    BY <2>6, OneMoves DEF FetchResult, Move, rows, outside
  <2>7. CASE StoreResult(e)
    <3>1. /\ pc[e] = "storing" /\ pc'[e] = "idle" /\ status'[e] = "completed"
          /\ benchTasks' = benchTasks
      BY <2>7, OneMoves, OneWrites DEF StoreResult, Move, SetStatus, outside
    <3> QED BY <3>1
  <2> QED BY <2>1, <2>2, <2>3, <2>4, <2>5, <2>6, <2>7 DEF Evaluate
<1>4. (\A i \in Jobs : RowTrue(i))'
  BY <1>0, <1>2, <1>3, OneRow DEF process
<1> QED BY <1>1, <1>4

LEMMA JobKeepsRows ==
  ASSUME Types, RowsTrue, NEW j \in Jobs,
         \/ j \in Merges /\ Merge(j)
         \/ j \in Fanouts /\ Fanout(j)
         \/ DbFault(j)
         \/ CommitRaises(j)
         \/ Fail(j)
  PROVE  RowsTrue'
<1> USE DEF RowsTrue
<1>0. /\ RowTrue(j) /\ pc[j] # "idle" /\ UNCHANGED <<benchTasks, hub, worklist, boots>>
      /\ j \in Merges => j \notin Evals /\ j \notin Fanouts
      /\ j \in Fanouts => j \notin Evals /\ j \notin Merges
  BY ConstantsAssumption
     DEF Merge, Fanout, BeginJob, MergeAdapter, FinishMerge, VisitNode, FinishFanout, DbFault,
         CommitRaises, Fail, Move, outside, process
<1>1. QuietStart'
  BY <1>0 DEF QuietStart, process
<1>2. \A i \in Jobs \ {j} :
        /\ status'[i] = status[i] /\ pc'[i] = pc[i]
        /\ i \in outputs' <=> i \in outputs
  BY DEF Types, TypeOK, Merge, Fanout, BeginJob, MergeAdapter, FinishMerge, VisitNode,
         FinishFanout, DbFault, CommitRaises, Fail, Move, SetStatus, rows
<1>3. RowTrue(j)'
  <2> USE <1>0 DEF RowTrue, process
  <2>1. CASE DbFault(j)
    <3>1. /\ pc[j] \in {"storing", "queued", "working", "finishing"}
          /\ j \in Evals => pc[j] = "storing"
      BY <2>1, ConstantsAssumption DEF DbFault, Types, PointsApart, Jobs, InSlot
    <3> QED BY <2>1, <3>1, OneMoves DEF DbFault, rows
  <2>2. CASE Fail(j)
    <3>1. /\ pc[j] = "failing" /\ pc'[j] = "idle" /\ outputs' = outputs
          /\ status'[j] \in {"failed", status[j]}
      BY <2>2, OneMoves, OneWrites, ZenonT(60) DEF Fail, Move, SetStatus
    <3> QED BY <3>1
  <2>8. CASE CommitRaises(j)
    <3>1. pc'[j] = "idle" /\ UNCHANGED <<status, outputs>>
      BY <2>8, OneMoves DEF CommitRaises, rows
    <3> QED BY <3>1
  <2>3. CASE (j \in Merges \/ j \in Fanouts) /\ BeginJob(j)
    <3>1. /\ pc[j] = "queued" /\ pc'[j] = "working" /\ status'[j] = "running"
          /\ outputs' = outputs
      BY <2>3, OneMoves, OneWrites, ZenonT(60) DEF BeginJob, Move, SetStatus
    <3> QED BY <2>3, <3>1
  <2>4. CASE j \in Merges /\ MergeAdapter(j)
    BY <2>4, OneMoves DEF MergeAdapter, Move, rows
  <2>5. CASE j \in Merges /\ FinishMerge(j)
    <3>1. /\ pc[j] = "finishing" /\ pc'[j] = "idle" /\ status'[j] = "completed"
          /\ j \in outputs'
      BY <2>5, OneMoves, OneWrites, ZenonT(60) DEF FinishMerge, Move, SetStatus
    <3> QED BY <2>5, <3>1
  <2>6. ASSUME NEW n \in Nodes, VisitNode(j, n)
        PROVE  RowTrue(j)'
    BY <2>6 DEF VisitNode, rows
  <2>7. CASE j \in Fanouts /\ FinishFanout(j)
    <3>1. /\ pc[j] = "working" /\ pc'[j] = "idle"
          /\ status'[j] \in {"completed", "partial", "failed"}
      BY <2>7, VerdictType, OneMoves, OneWrites, ZenonT(60) DEF FinishFanout, Move, SetStatus
    <3> QED BY <2>7, <3>1
  <2> QED BY <2>1, <2>2, <2>3, <2>4, <2>5, <2>6, <2>7, <2>8 DEF Merge, Fanout
<1>4. (\A i \in Jobs : RowTrue(i))'
  BY <1>0, <1>2, <1>3, OneRow DEF process
<1> QED BY <1>1, <1>4

LEMMA StartupKeepsRows ==
  ASSUME Types, RowsTrue, Startup
  PROVE  RowsTrue'
<1> USE DEF RowsTrue
<1>1. CASE Boot
  BY <1>1, RowsUntouched DEF Boot, QuietStart, rows, outside
<1>2. CASE ListEvals
  <2>1. QuietStart'
    BY <1>2 DEF ListEvals, QuietStart
  <2>2. ASSUME NEW i \in Jobs PROVE RowTrue(i)'
    BY <1>2 DEF ListEvals, QuietStart, RowTrue, rows, outside
  <2> QED BY <2>1, <2>2
<1>3. CASE FailFanouts
  <2>1. QuietStart'
    BY <1>3 DEF FailFanouts, QuietStart
  <2>2. ASSUME NEW i \in Jobs PROVE RowTrue(i)'
    <3>1. RowTrue(i) /\ pc[i] = "idle" /\ UNCHANGED <<outputs, benchTasks, worklist, pc>>
      BY <1>3 DEF FailFanouts, QuietStart, outside
    <3>2. CASE i \in Fanouts
      <4>1. i \notin Evals /\ i \notin Merges /\ i \notin worklist
        BY <3>2, ConstantsAssumption DEF Types, TypeOK
      <4> QED BY <3>1, <4>1 DEF RowTrue
    <3>3. CASE i \notin Fanouts
      <4>1. status'[i] = status[i]
        BY <1>3, <3>3 DEF FailFanouts
      <4> QED BY <3>1, <4>1 DEF RowTrue
    <3> QED BY <3>2, <3>3
  <2> QED BY <2>1, <2>2
<1>4. CASE Serve
  BY <1>4, RowsUntouched DEF Serve, QuietStart, rows, outside
<1>5. ASSUME NEW j \in Jobs, NEW phase \in {"failing evals", "failing merges"}, NEW orphaned,
             FailRow(j, phase, orphaned), orphaned \subseteq {"pending", "running"},
             j \notin worklist
      PROVE  RowsTrue'
  <2>1. /\ status[j] \in {"pending", "running"} /\ hub = phase
        /\ UNCHANGED <<outputs, benchTasks, pc, worklist, hub>>
        /\ status'[j] = "failed" /\ \A i \in Jobs \ {j} : status'[i] = status[i]
    BY <1>5, OneWrites DEF FailRow, SetStatus, outside, process
  <2>2. QuietStart' /\ pc[j] = "idle"
    BY <2>1 DEF QuietStart
  <2>3. RowTrue(j)'
    BY <2>1, <2>2, <1>5 DEF RowTrue
  <2> QED BY <2>1, <2>2, <2>3, OneRow
<1>6. ASSUME NEW e \in Evals, ResumeEval(e)
      PROVE  RowsTrue'
  <2>1. /\ e \in Jobs /\ e \in worklist /\ worklist' = worklist \ {e} /\ hub' = hub
        /\ hub = "resuming" /\ pc'[e] = "queued" /\ \A i \in Jobs \ {e} : pc'[i] = pc[i]
        /\ UNCHANGED <<status, outputs, benchTasks>>
    BY <1>6, OneMoves DEF ResumeEval, Jobs, rows, outside
  <2>2. RowTrue(e)'
    BY <2>1 DEF RowTrue
  <2> QED BY <2>1, <2>2, OneRow DEF QuietStart
<1>7. ASSUME NEW e \in Evals, FailRow(e, "failing evals", {"running"})
      PROVE  RowsTrue'
  <2>1. e \in Jobs /\ e \notin worklist
    BY <1>7 DEF Jobs, FailRow, RowTrue
  <2> QED BY <1>7, <2>1, <1>5
<1>8. ASSUME NEW m \in Merges, FailRow(m, "failing merges", MergeOrphans)
      PROVE  RowsTrue'
  <2>1. m \in Jobs /\ m \notin worklist
    BY ConstantsAssumption DEF Jobs, Types, TypeOK
  <2> QED BY <1>8, <2>1, <1>5 DEF MergeOrphans
<1> QED BY <1>1, <1>2, <1>3, <1>4, <1>6, <1>7, <1>8 DEF Startup

LEMMA NextKeepsRows == FlipCommits /\ Types /\ RowsTrue /\ [Next]_vars => RowsTrue'
<1> SUFFICES ASSUME FlipCommits, Types, RowsTrue, [Next]_vars PROVE RowsTrue'
  OBVIOUS
<1> USE DEF RowsTrue
<1>1. CASE UNCHANGED vars
  BY <1>1, RowsUntouched DEF vars, rows, outside, process, QuietStart
<1>2. ASSUME NEW j \in Jobs, j \in Evals \/ j \in Merges \cup Fanouts,
             j \in Evals => CreateEval(j), j \in Merges \cup Fanouts => CreateJob(j)
      PROVE  RowsTrue'
  <2>1. /\ hub = "serving" /\ status[j] = "none" /\ UNCHANGED <<outputs, benchTasks, process>>
        /\ status'[j] = "pending" /\ \A i \in Jobs \ {j} : status'[i] = status[i]
        /\ pc'[j] \in {"idle", "queued"} /\ \A i \in Jobs \ {j} : pc'[i] = pc[i]
    BY <1>2, OneMoves, OneWrites DEF CreateEval, CreateJob, SetStatus, outside
  <2>2. RowTrue(j)'
    BY <2>1 DEF RowTrue, process
  <2> QED BY <2>1, <2>2, OneRow DEF QuietStart, process
<1>3. CASE Crash
  <2>1. ASSUME NEW i \in Jobs PROVE RowTrue(i)'
    BY <1>3 DEF Crash, RowTrue, rows, outside
  <2> QED BY <1>3, <2>1 DEF Crash, QuietStart
<1>4. ASSUME NEW j \in Jobs, Run(j)
      PROVE  RowsTrue'
  BY <1>4, EvaluateKeepsRows, JobKeepsRows DEF Run
<1>5. ASSUME NEW e \in Evals, CreateEval(e)
      PROVE  RowsTrue'
  BY <1>2, <1>5, ConstantsAssumption DEF Jobs
<1>6. ASSUME NEW j \in Merges \cup Fanouts, CreateJob(j)
      PROVE  RowsTrue'
  BY <1>2, <1>6, ConstantsAssumption DEF Jobs
<1> QED BY <1>1, <1>3, <1>4, <1>5, <1>6, StartupKeepsRows DEF Next

LEMMA RowsInvariant == ASSUME FlipCommits PROVE Spec => [](Types /\ RowsTrue)
<1>1. Init => RowsTrue
  BY ConstantsAssumption DEF Init, RowsTrue, QuietStart, RowTrue, Jobs
<1>2. Types /\ RowsTrue /\ [Next]_vars => RowsTrue'
  BY NextKeepsRows
<1> QED BY <1>1, <1>2, TypesInvariant, PTL DEF Spec

LEMMA EveryJobKeepsRecovery ==
  ASSUME Types, RowsTrue, Recovered, NEW j \in Jobs, pc[j] # "idle",
         hub' = hub, worklist' = worklist,
         lost \subseteq lost',
         \A i \in Jobs \ {j} : status'[i] = status[i] /\ pc'[i] = pc[i],
         pc'[j] = "idle" => status'[j] \notin {"pending", "running"} \/ j \in lost'
  PROVE  Recovered'
<1>1. status[j] \in {"pending", "running"}
  BY DEF RowsTrue, RowTrue, Types, TypeOK, InSlot
<1>2. \A e \in Evals : e \in Jobs /\ e \notin Merges \cup Fanouts
  BY ConstantsAssumption DEF Jobs
<1>3. j \in Evals \/ hub # "resuming"
  BY <1>1 DEF Recovered, Jobs
<1>4. (NoStuckRow)'
  BY DEF Recovered, NoStuckRow, Unfinished
<1>5. ASSUME NEW e \in Evals, hub \in {"failing merges", "resuming"}, pc'[e] = "idle"
      PROVE  \/ status'[e] # "running" /\ (status'[e] = "pending" => e \in worklist)
             \/ e \in lost'
  BY <1>2, <1>5 DEF Recovered
<1>6. ASSUME NEW i \in Merges \cup Fanouts, hub = "resuming"
      PROVE  status'[i] \notin {"pending", "running"}
  BY <1>2, <1>3, <1>6 DEF Recovered, Jobs
<1> QED BY <1>4, <1>5, <1>6 DEF Recovered

LEMMA RunKeepsRecovery ==
  ASSUME Types, RowsTrue, Recovered, NEW j \in Jobs, Run(j)
  PROVE  Recovered'
<1> USE DEF Types, TypeOK, Run, Evaluate, AcquireSlot, FlipRunning, PostBench,
            PostRefused, Poll, FetchResult, StoreResult, Merge, Fanout, BeginJob, MergeAdapter,
            FinishMerge, VisitNode, FinishFanout, DbFault, CommitRaises, Fail, Move
<1>1. pc[j] # "idle"
  BY ConstantsAssumption
<1>2. hub' = hub /\ worklist' = worklist /\ lost \subseteq lost'
  BY DEF process, Lose
<1>3. \A i \in Jobs \ {j} : status'[i] = status[i] /\ pc'[i] = pc[i]
  BY DEF SetStatus, TryStatus, rows
<1>4. ASSUME pc'[j] = "idle" PROVE status'[j] \notin {"pending", "running"} \/ j \in lost'
  BY <1>4, VerdictType DEF SetStatus, TryStatus, Lose
<1> QED BY <1>1, <1>2, <1>3, <1>4, EveryJobKeepsRecovery

LEMMA StartupKeepsRecovery ==
  ASSUME Types, RowsTrue, Recovered, Startup
  PROVE  Recovered'
<1>0. \A e \in Evals : e \in Jobs /\ e \notin Merges \cup Fanouts
  BY ConstantsAssumption DEF Jobs
<1> USE DEF Recovered, NoStuckRow, Unfinished
<1>1. CASE Boot
  BY <1>1 DEF Boot
<1>2. CASE ListEvals
  BY <1>2, <1>0 DEF ListEvals, rows
<1>3. CASE FailFanouts
  <2>1. /\ hub = "failing merges" /\ hub' = "resuming"
        /\ UNCHANGED <<pc, worklist, lost>>
        /\ \A m \in Merges : status[m] \notin {"pending", "running"}
    BY <1>3 DEF FailFanouts, MergeOrphans
  <2>2. \A i \in Jobs :
          status'[i] = IF i \in Fanouts /\ status[i] \in {"running", "pending"} THEN "failed"
                                                                              ELSE status[i]
    BY <1>3 DEF FailFanouts
  <2> QED BY <2>1, <2>2, <1>0 DEF Jobs
<1>4. CASE Serve
  BY <1>4 DEF Serve, rows, Jobs
<1>5. ASSUME NEW e \in Evals, FailRow(e, "failing evals", {"running"})
      PROVE  Recovered'
  BY <1>5 DEF FailRow, process
<1>6. ASSUME NEW m \in Merges, FailRow(m, "failing merges", MergeOrphans)
      PROVE  Recovered'
  <2>1. /\ hub = "failing merges" /\ UNCHANGED <<hub, worklist, lost, pc>>
        /\ \A e \in Evals : status'[e] = status[e]
    BY <1>6, <1>0 DEF FailRow, SetStatus, process, Types, TypeOK
  <2> QED BY <2>1
<1>7. ASSUME NEW e \in Evals, ResumeEval(e)
      PROVE  Recovered'
  <2>1. /\ hub' = "resuming" /\ hub = "resuming" /\ worklist' = worklist \ {e}
        /\ UNCHANGED <<status, lost>> /\ pc'[e] = "queued" /\ \A i \in Jobs \ {e} : pc'[i] = pc[i]
    BY <1>7, <1>0, OneMoves DEF ResumeEval, rows
  <2> QED BY <2>1, <1>0
<1> QED BY <1>1, <1>2, <1>3, <1>4, <1>5, <1>6, <1>7 DEF Startup

LEMMA NextKeepsRecovery ==
  ASSUME Types, RowsTrue, Recovered, [Next]_vars
  PROVE  Recovered'
<1>1. CASE UNCHANGED vars
  BY <1>1 DEF vars, rows, process, Recovered, NoStuckRow, Unfinished
<1>2. ASSUME NEW e \in Evals, CreateEval(e)
      PROVE  Recovered'
  <2>1. /\ hub = "serving" /\ hub' = hub /\ lost' = lost /\ e \in Jobs
        /\ pc' = [pc EXCEPT ![e] = IF RunnerEnabled THEN "queued" ELSE "idle"]
        /\ \A i \in Jobs \ {e} : status'[i] = status[i]
    BY <1>2 DEF CreateEval, process, SetStatus, Types, TypeOK, Jobs
  <2> QED BY <2>1, OneMoves DEF Recovered, NoStuckRow, Unfinished
<1>3. ASSUME NEW j \in Merges \cup Fanouts, CreateJob(j)
      PROVE  Recovered'
  <2>1. /\ hub = "serving" /\ hub' = hub /\ lost' = lost /\ j \in Jobs
        /\ pc' = [pc EXCEPT ![j] = "queued"]
        /\ \A i \in Jobs \ {j} : status'[i] = status[i]
    BY <1>3 DEF CreateJob, process, SetStatus, Types, TypeOK, Jobs
  <2> QED BY <2>1, OneMoves DEF Recovered, NoStuckRow, Unfinished
<1>4. CASE Crash
  BY <1>4 DEF Crash, Recovered, NoStuckRow
<1> QED BY <1>1, <1>2, <1>3, <1>4, RunKeepsRecovery, StartupKeepsRecovery DEF Next

\* A restart neither repeats what may have been done nor strands what was not: for
\* any number of jobs, slots and restarts, any crash point, and any updates that
\* raise but the flip of an evaluation to RUNNING.
THEOREM RestartAlwaysSafe == ASSUME FlipCommits PROVE Spec => []RestartIsSafe
<1>1. Init => Recovered
  BY DEF Init, Recovered, NoStuckRow, Unfinished
<1>2. Types /\ RowsTrue /\ Recovered /\ [Next]_vars => Recovered'
  BY NextKeepsRecovery
<1>3. RowsTrue /\ Recovered => RestartIsSafe
  BY DEF RowsTrue, RowTrue, Recovered, RestartIsSafe, BenchAtMostOnce, Jobs
<1>4. Spec => [](Types /\ RowsTrue)
  BY RowsInvariant
<1> QED BY <1>1, <1>2, <1>3, <1>4, PTL DEF Spec

\* No Fusion-Bench task is ever started twice, whatever else fails, as long as
\* the flip to RUNNING commits.
THEOREM BenchNeverRepeated == ASSUME FlipCommits PROVE Spec => []BenchAtMostOnce
<1>1. RowsTrue => BenchAtMostOnce
  BY DEF RowsTrue, RowTrue, BenchAtMostOnce, Jobs
<1> QED BY <1>1, RowsInvariant, PTL

----------------------------------------------------------------------------
(* The runners implement JobLifecycle *)

\* The row a client sees, when one row is written.
LEMMA ClientSees ==
  ASSUME Types, NEW j \in Jobs, NEW st, status' = [status EXCEPT ![j] = st]
  PROVE  /\ jobState' = [jobState EXCEPT ![j] = IF st = "partial" THEN "completed" ELSE st]
         /\ jobState[j] = IF status[j] = "partial" THEN "completed" ELSE status[j]
BY DEF jobState, Types, TypeOK

\* The four ways a row is written, each a step of the promise.
LEMMA SubmitsOrBegins ==
  ASSUME Types, NEW j \in Jobs, NEW st, status' = [status EXCEPT ![j] = st], outputs' = outputs,
         \/ status[j] = "none" /\ st = "pending"
         \/ status[j] = "pending" /\ st = "running"
  PROVE  Lifecycle!Next
<1>1. jobProduct' = jobProduct
  BY DEF jobProduct, Types, TypeOK
<1>2. Lifecycle!Submit(j) \/ Lifecycle!Begin(j)
  BY <1>1, ClientSees DEF Lifecycle!Submit, Lifecycle!Begin
<1> QED BY <1>2 DEF Lifecycle!Next

LEMMA Completes ==
  ASSUME Types, NEW j \in Jobs, NEW st \in {"completed", "partial"}, status[j] = "running",
         status' = [status EXCEPT ![j] = st],
         outputs' = IF j \in Merges THEN outputs \cup {j} ELSE outputs
  PROVE  Lifecycle!Next
<1>1. jobProduct' = jobProduct \cup {j}
  BY DEF jobProduct, Types, TypeOK
<1>2. Lifecycle!Complete(j)
  BY <1>1, ClientSees DEF Lifecycle!Complete
<1> QED BY <1>2 DEF Lifecycle!Next

LEMMA Abandons ==
  ASSUME Types, NEW gone \in SUBSET Jobs, \A j \in gone : status[j] \in {"pending", "running"},
         status' = [j \in Jobs |-> IF j \in gone THEN "failed" ELSE status[j]],
         outputs' = outputs
  PROVE  Lifecycle!Next
<1>1. jobProduct' = jobProduct
  BY DEF jobProduct, Types, TypeOK
<1>2. jobState' = [j \in Jobs |-> IF j \in gone THEN "failed" ELSE jobState[j]]
  BY DEF jobState, Types, TypeOK
<1>3. \A j \in gone : jobState[j] \in {"pending", "running"}
  BY DEF jobState
<1>4. Lifecycle!Abandon(gone)
  BY <1>1, <1>2, <1>3 DEF Lifecycle!Abandon
<1> QED BY <1>4 DEF Lifecycle!Next

LEMMA AbandonsOne ==
  ASSUME Types, NEW j \in Jobs, status[j] \in {"pending", "running"},
         status' = [status EXCEPT ![j] = "failed"], outputs' = outputs
  PROVE  Lifecycle!Next
<1>1. status' = [i \in Jobs |-> IF i \in {j} THEN "failed" ELSE status[i]]
  BY DEF Types, TypeOK
<1> QED BY <1>1, Abandons

\* What a client sees is a function of the rows alone.
LEMMA RowsKept ==
  ASSUME UNCHANGED rows
  PROVE  UNCHANGED Lifecycle!vars
BY DEF rows, Lifecycle!vars, jobState, jobProduct

LEMMA RunIsStep ==
  ASSUME FlipCommits, Types, RowsTrue, NEW j \in Jobs, Run(j)
  PROVE  [Lifecycle!Next]_(Lifecycle!vars)
<1>0. RowTrue(j)
  BY DEF RowsTrue
<1>1. CASE UNCHANGED rows
  BY <1>1, RowsKept
<1>2. CASE j \in Evals /\ FlipRunning(j)
  <2>1. /\ status[j] = "pending" /\ outputs' = outputs
        /\ status' = [status EXCEPT ![j] = "running"]
    BY <1>0, <1>2 DEF FlipRunning, TryStatus, SetStatus, FlipCommits, Move, RowTrue
  <2> QED BY <2>1, SubmitsOrBegins
<1>3. CASE j \in Evals /\ StoreResult(j)
  <2>1. /\ status[j] = "running" /\ outputs' = outputs /\ j \notin Merges
        /\ status' = [status EXCEPT ![j] = "completed"]
    BY <1>0, <1>3, ConstantsAssumption DEF StoreResult, SetStatus, Move, RowTrue
  <2> QED BY <2>1, Completes
<1>4. CASE BeginJob(j)
  <2>1. /\ status[j] = "pending" /\ outputs' = outputs
        /\ status' = [status EXCEPT ![j] = "running"]
    BY <1>0, <1>4 DEF BeginJob, SetStatus, Move, RowTrue
  <2> QED BY <2>1, SubmitsOrBegins
<1>5. CASE j \in Merges /\ FinishMerge(j)
  <2>1. /\ status[j] = "running" /\ outputs' = outputs \cup {j}
        /\ status' = [status EXCEPT ![j] = "completed"]
    BY <1>0, <1>5 DEF FinishMerge, SetStatus, Move, RowTrue
  <2> QED BY <1>5, <2>1, Completes
<1>6. CASE j \in Fanouts /\ FinishFanout(j)
  <2>1. /\ status[j] = "running" /\ outputs' = outputs /\ j \notin Merges
        /\ status' = [status EXCEPT ![j] = Verdict(j)]
    BY <1>0, <1>6, ConstantsAssumption DEF FinishFanout, SetStatus, Move, RowTrue
  <2>2. CASE Verdict(j) = "failed"
    BY <2>1, <2>2, AbandonsOne
  <2>3. CASE Verdict(j) \in {"completed", "partial"}
    BY <2>1, <2>3, Completes
  <2> QED BY <1>6, <2>2, <2>3, VerdictType
<1>7. CASE Fail(j)
  <2>1. status[j] \in {"pending", "running"} /\ outputs' = outputs
    BY <1>0, <1>7 DEF Fail, Move, RowTrue
  <2>2. status' = [status EXCEPT ![j] = "failed"] \/ status' = status
    BY <1>7 DEF Fail, SetStatus
  <2> QED BY <2>1, <2>2, AbandonsOne, RowsKept DEF rows
<1> QED BY <1>1, <1>2, <1>3, <1>4, <1>5, <1>6, <1>7
        DEF Run, Evaluate, AcquireSlot, PostBench, PostRefused, Poll, FetchResult, Merge,
            MergeAdapter, Fanout, VisitNode, DbFault, CommitRaises

LEMMA StartupIsStep ==
  ASSUME Types, Startup
  PROVE  [Lifecycle!Next]_(Lifecycle!vars)
<1>1. CASE UNCHANGED rows
  BY <1>1, RowsKept
<1>2. ASSUME NEW j \in Jobs, NEW phase, NEW orphaned, FailRow(j, phase, orphaned),
             orphaned \subseteq {"pending", "running"}
      PROVE  [Lifecycle!Next]_(Lifecycle!vars)
  <2>1. /\ status[j] \in {"pending", "running"} /\ outputs' = outputs
        /\ status' = [status EXCEPT ![j] = "failed"]
    BY <1>2 DEF FailRow, SetStatus
  <2> QED BY <2>1, AbandonsOne
<1>3. CASE FailFanouts
  <2> DEFINE gone == {j \in Fanouts : status[j] \in {"running", "pending"}}
  <2>1. gone \in SUBSET Jobs /\ \A j \in gone : status[j] \in {"pending", "running"}
    BY DEF Jobs
  <2>2. status' = [j \in Jobs |-> IF j \in gone THEN "failed" ELSE status[j]]
    BY <1>3 DEF FailFanouts
  <2>3. outputs' = outputs
    BY <1>3 DEF FailFanouts
  <2> HIDE DEF gone
  <2> QED BY <2>1, <2>2, <2>3, Abandons
<1>4. ASSUME NEW e \in Evals, FailRow(e, "failing evals", {"running"})
      PROVE  [Lifecycle!Next]_(Lifecycle!vars)
  BY <1>2, <1>4 DEF Jobs
<1>5. ASSUME NEW m \in Merges, FailRow(m, "failing merges", MergeOrphans)
      PROVE  [Lifecycle!Next]_(Lifecycle!vars)
  BY <1>2, <1>5 DEF Jobs, MergeOrphans
<1> QED BY <1>1, <1>3, <1>4, <1>5 DEF Startup, Boot, ListEvals, Serve, ResumeEval

\* Every step of the three runners, of startup and of a crash is a step of the
\* promise or leaves what the client sees alone.
LEMMA NextIsStep ==
  ASSUME FlipCommits, Types, RowsTrue, [Next]_vars
  PROVE  [Lifecycle!Next]_(Lifecycle!vars)
<1>1. CASE UNCHANGED rows
  BY <1>1, RowsKept
<1>2. ASSUME NEW j \in Jobs, status[j] = "none", SetStatus(j, "pending"), outputs' = outputs
      PROVE  [Lifecycle!Next]_(Lifecycle!vars)
  BY <1>2, SubmitsOrBegins DEF SetStatus
<1>3. ASSUME NEW e \in Evals, CreateEval(e)
      PROVE  [Lifecycle!Next]_(Lifecycle!vars)
  BY <1>2, <1>3 DEF CreateEval, Jobs
<1>4. ASSUME NEW j \in Merges \cup Fanouts, CreateJob(j)
      PROVE  [Lifecycle!Next]_(Lifecycle!vars)
  BY <1>2, <1>4 DEF CreateJob, Jobs
<1> QED BY <1>1, <1>3, <1>4, RunIsStep, StartupIsStep DEF Next, Crash, vars

\* The three runners implement the promise of JobLifecycle, as long as the flip
\* to RUNNING of an evaluation commits: else the row goes from pending to
\* completed.
THEOREM RunnersImplementLifecycle == ASSUME FlipCommits PROVE Spec => ImplementsLifecycle
<1>1. Init => Lifecycle!Init
  BY DEF Init, Lifecycle!Init, jobState, jobProduct
<1>2. Types /\ RowsTrue /\ [Next]_vars => [Lifecycle!Next]_(Lifecycle!vars)
  BY NextIsStep
<1> QED BY <1>1, <1>2, RowsInvariant, PTL DEF Spec, ImplementsLifecycle, Lifecycle!Spec

\* What every implementation of JobLifecycle inherits.
LEMMA StepKeepsPromise ==
  ASSUME Lifecycle!TypeOK, Lifecycle!ProductWhenCompleted, [Lifecycle!Next]_(Lifecycle!vars)
  PROVE  (Lifecycle!TypeOK)' /\ (Lifecycle!ProductWhenCompleted)'
<1> USE DEF Lifecycle!TypeOK, Lifecycle!ProductWhenCompleted, Lifecycle!States
<1>1. CASE UNCHANGED Lifecycle!vars
  BY <1>1 DEF Lifecycle!vars
<1>2. ASSUME NEW j \in Jobs,
             Lifecycle!Submit(j) \/ Lifecycle!Begin(j) \/ Lifecycle!Complete(j)
      PROVE  (Lifecycle!TypeOK)' /\ (Lifecycle!ProductWhenCompleted)'
  BY <1>2 DEF Lifecycle!Submit, Lifecycle!Begin, Lifecycle!Complete
<1>3. ASSUME NEW gone \in SUBSET Jobs, Lifecycle!Abandon(gone)
      PROVE  (Lifecycle!TypeOK)' /\ (Lifecycle!ProductWhenCompleted)'
  BY <1>3 DEF Lifecycle!Abandon
<1> QED BY <1>1, <1>2, <1>3 DEF Lifecycle!Next

LEMMA PromiseInvariant ==
  Lifecycle!Spec => [](Lifecycle!TypeOK /\ Lifecycle!ProductWhenCompleted)
<1>1. Lifecycle!Init => Lifecycle!TypeOK /\ Lifecycle!ProductWhenCompleted
  BY DEF Lifecycle!Init, Lifecycle!TypeOK, Lifecycle!ProductWhenCompleted, Lifecycle!States
<1> QED BY <1>1, StepKeepsPromise, PTL DEF Lifecycle!Spec

\* A job reads completed exactly while its product exists.
THEOREM ProductAlwaysMatches ==
  ASSUME FlipCommits PROVE Spec => []Lifecycle!ProductWhenCompleted
BY PromiseInvariant, RunnersImplementLifecycle, PTL DEF ImplementsLifecycle

\* A row that a client has once read as ended is final, across restarts.
THEOREM EndedAlwaysFinal == ASSUME FlipCommits PROVE Spec => Lifecycle!EndedIsFinal
<1>1. Lifecycle!TypeOK /\ [Lifecycle!Next]_(Lifecycle!vars) =>
        [\A j \in Jobs : jobState[j] \in Lifecycle!Ended =>
           jobState'[j] = jobState[j] /\ (j \in jobProduct' <=> j \in jobProduct)
        ]_(Lifecycle!vars)
  <2> SUFFICES ASSUME Lifecycle!TypeOK, Lifecycle!Next, NEW j \in Jobs,
                      jobState[j] \in Lifecycle!Ended
               PROVE  jobState'[j] = jobState[j] /\ (j \in jobProduct' <=> j \in jobProduct)
    OBVIOUS
  <2> USE DEF Lifecycle!TypeOK, Lifecycle!Ended
  <2>1. ASSUME NEW i \in Jobs,
               Lifecycle!Submit(i) \/ Lifecycle!Begin(i) \/ Lifecycle!Complete(i)
        PROVE  jobState'[j] = jobState[j] /\ (j \in jobProduct' <=> j \in jobProduct)
    BY <2>1 DEF Lifecycle!Submit, Lifecycle!Begin, Lifecycle!Complete
  <2>2. ASSUME NEW gone \in SUBSET Jobs, Lifecycle!Abandon(gone)
        PROVE  jobState'[j] = jobState[j] /\ (j \in jobProduct' <=> j \in jobProduct)
    BY <2>2 DEF Lifecycle!Abandon
  <2> QED BY <2>1, <2>2 DEF Lifecycle!Next
<1>2. Lifecycle!Spec => Lifecycle!EndedIsFinal
  BY <1>1, PromiseInvariant, PTL DEF Lifecycle!Spec, Lifecycle!EndedIsFinal
<1> QED BY <1>2, RunnersImplementLifecycle, PTL DEF ImplementsLifecycle
=============================================================================
