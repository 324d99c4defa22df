------------------------- MODULE QuantizeTasksProofs -------------------------
(***************************************************************************)
(* Theorems about QuantizeTasks, for every number of hubs, tasks, slots    *)
(* and restarts.                                                           *)
(*                                                                         *)
(*   - TypeCorrect, SlotsAlwaysAccounted: proved together, since a slot    *)
(*     may be given back only because somebody holds one.                  *)
(*   - OutputsAlwaysLinked: the output-version guarantee, which holds even *)
(*     when several hubs share the database.                               *)
(*   - LoneHubCompletes, LoneHubFinal: what a lone hub process adds (with  *)
(*     two of them the runs exhibit counterexamples to the fence).         *)
(***************************************************************************)
EXTENDS QuantizeTasks, FiniteSetTheorems, TLAPS

----------------------------------------------------------------------------
(* Inductive invariants *)

\* A coroutine exists only for a committed row and only once the process lists
\* pending rows; the startup loop never visits a row the process already runs.
OwnerInv ==
  \A h \in Hubs :
    /\ \A t \in Tasks : pc[h][t] # "idle" => /\ status[t] # "none"
                                             /\ hub[h] \in {"resuming", "serving"}
    /\ \A t \in worklist[h] : status[t] # "none" /\ pc[h][t] = "idle"

\* The output-version guarantee, strengthened: a row whose output exists is
\* never handed to a new request.
OutputInv == \A t \in outputs : link[t] /\ status[t] # "none"

\* What the control point of a coroutine says of its row, with one hub.
RowAgrees ==
  \A h \in Hubs, t \in Tasks :
    /\ pc[h][t] = "submitted" => status[t] = "pending"
    /\ pc[h][t] \in {"queued", "starting", "failing", "marking"}
         => status[t] \in {"pending", "running"}
    /\ pc[h][t] \in {"reading", "converting", "finishing", "rejecting"}
         => status[t] = "running"
    /\ pc[h][t] \in {"announcing", "checking"} => status[t] = "completed"

\* The startup loop visits only rows that no coroutine of the hub owns and
\* whose status is still the one they were listed with.
WorklistAgrees ==
  \A h \in Hubs :
    /\ hub[h] \in {"down", "failing"} => \A t \in Tasks : pc[h][t] = "idle"
    /\ \A t \in worklist[h] :
         \/ hub[h] = "failing" /\ status[t] = "running"
         \/ hub[h] = "resuming" /\ status[t] = "pending" /\ pc[h][t] = "idle"

SingleInv == CompletedIffOutput /\ RowAgrees /\ WorklistAgrees

----------------------------------------------------------------------------
(* Slots and types *)

\* The holders of a hub's slots are finitely many.
LEMMA HoldersFinite ==
  ASSUME NEW h \in Hubs
  PROVE  IsFiniteSet(Holders(h)) /\ IsFiniteSet(Holders(h)')
<1>1. IsFiniteSet(Tasks)
  BY FS_Interval, ConstantsAssumption DEF Tasks
<1>2. Holders(h) \subseteq Tasks /\ Holders(h)' \subseteq Tasks
  BY DEF Holders
<1> QED BY <1>1, <1>2, FS_Subset

\* While a coroutine is inside the semaphore block there is room to give its
\* slot back.
LEMMA RoomToRelease ==
  ASSUME TypeOK, SlotsAccounted, NEW h \in Hubs, NEW t \in Tasks, pc[h][t] \in InSlot
  PROVE  free[h] + 1 \in 0 .. Concurrency
<1>1. t \in Holders(h)
  BY DEF Holders
<1>2. Cardinality(Holders(h)) \in Nat \ {0}
  BY <1>1, HoldersFinite, FS_CardinalityType, FS_EmptySet
<1>3. free[h] \in Nat /\ Concurrency \in Nat
  BY ConstantsAssumption DEF TypeOK
<1> QED BY <1>2, <1>3 DEF SlotsAccounted

\* Each step leaves every hub's slots alone, takes one, gives one back, or
\* (crash) starts afresh.
SlotEffect(h) ==
  \/ free'[h] = free[h] /\ Holders(h)' = Holders(h)
  \/ \E t \in Tasks : /\ t \notin Holders(h)
                      /\ free'[h] = free[h] - 1
                      /\ Holders(h)' = Holders(h) \cup {t}
  \/ \E t \in Holders(h) : /\ free'[h] = free[h] + 1
                           /\ Holders(h)' = Holders(h) \ {t}
  \/ free'[h] = Concurrency /\ Holders(h)' = {}

\* A step with such an effect keeps the slots accounted for.
LEMMA SlotEffectSuffices ==
  ASSUME TypeOK, SlotsAccounted, NEW h \in Hubs, SlotEffect(h)
  PROVE  free'[h] + Cardinality(Holders(h)') = Concurrency
<1> DEFINE H == Holders(h)
<1>1. IsFiniteSet(H) /\ Cardinality(H) \in Nat /\ free[h] \in Nat /\ Concurrency \in Nat
  BY HoldersFinite, FS_CardinalityType, ConstantsAssumption DEF TypeOK
<1>2. free[h] + Cardinality(H) = Concurrency
  BY DEF SlotsAccounted
<1>3. CASE free'[h] = free[h] /\ Holders(h)' = H
  BY <1>2, <1>3
<1>4. ASSUME NEW t \in Tasks, t \notin H, free'[h] = free[h] - 1,
             Holders(h)' = H \cup {t}
      PROVE  free'[h] + Cardinality(Holders(h)') = Concurrency
  <2>1. Cardinality(H \cup {t}) = Cardinality(H) + 1
    BY <1>1, <1>4, FS_AddElement
  <2> HIDE DEF H
  <2> QED BY <1>1, <1>2, <1>4, <2>1
<1>5. ASSUME NEW t \in H, free'[h] = free[h] + 1, Holders(h)' = H \ {t}
      PROVE  free'[h] + Cardinality(Holders(h)') = Concurrency
  <2>1. Cardinality(H \ {t}) = Cardinality(H) - 1
    BY <1>1, <1>5, FS_RemoveElement
  <2> HIDE DEF H
  <2> QED BY <1>1, <1>2, <1>5, <2>1
<1>6. CASE free'[h] = Concurrency /\ Holders(h)' = {}
  BY <1>1, <1>6, FS_EmptySet
<1> QED BY <1>3, <1>4, <1>5, <1>6 DEF SlotEffect

\* What each kind of step does to the slots of every hub.
LEMMA StepHasSlotEffect ==
  ASSUME TypeOK, OwnerInv, Next, NEW h \in Hubs
  PROVE  SlotEffect(h)
<1> USE DEF SlotEffect, Holders, TypeOK
<1>1. ASSUME NEW g \in Hubs, NEW r \in Submissions, SubmitCommit(g, r)
      PROVE  SlotEffect(h)
  <2>1. PICK t \in Tasks : pc' = [pc EXCEPT ![g][t] = "submitted"] /\ status[t] = "none"
    BY <1>1 DEF SubmitCommit
  <2>2. pc[g][t] = "idle"
    BY <2>1 DEF OwnerInv
  <2> QED BY <1>1, <2>1, <2>2 DEF SubmitCommit, InSlot
<1>2. ASSUME NEW g \in Hubs, NEW t \in Tasks, Worker(g, t)
      PROVE  SlotEffect(h)
  <2>0. ASSUME NEW from \in InSlot, Raise(g, t, from)
        PROVE  SlotEffect(h)
    BY <2>0 DEF Raise, Release, Move, InSlot, db
  <2>1. CASE Spawn(g, t)
    BY <2>1 DEF Spawn, Move, InSlot, db
  <2>2. CASE Acquire(g, t)
    BY <2>2 DEF Acquire, Move, InSlot, db
  <2>3. CASE MarkRunning(g, t)
    BY <2>3 DEF MarkRunning, Move, InSlot
  <2>4. CASE ReadSource(g, t)
    BY <2>4 DEF ReadSource, Move, InSlot, db
  <2>5. CASE UnknownFormat(g, t)
    BY <2>5, <2>0 DEF UnknownFormat, InSlot
  <2>6. CASE Convert(g, t)
    BY <2>6 DEF Convert, Move, InSlot, db
  <2>7. CASE Finish(g, t)
    BY <2>7 DEF Finish, Move, InSlot
  <2>8. CASE ModelGone(g, t)
    BY <2>8 DEF ModelGone, Move, InSlot, db
  <2>9. CASE LabelConflict(g, t)
    BY <2>9, <2>0 DEF LabelConflict, InSlot
  <2>10. CASE Reject(g, t)
    BY <2>10 DEF Reject, Release, Move, InSlot
  <2>11. CASE DbFault(g, t)
    BY <2>11, <2>0 DEF DbFault, InSlot
  <2>12. CASE AnnounceDone(g, t)
    BY <2>12 DEF AnnounceDone, Move, InSlot, db
  <2>13. CASE PostChecks(g, t)
    BY <2>13 DEF PostChecks, Release, Move, InSlot, db
  <2>14. CASE AnnounceFailure(g, t)
    BY <2>14 DEF AnnounceFailure, Move, InSlot, db
  <2>15. CASE MarkFailed(g, t)
    BY <2>15 DEF MarkFailed, Move, InSlot
  <2>16. CASE LoseFailure(g, t)
    BY <2>16 DEF LoseFailure, Move, InSlot, db
  <2> QED BY <1>2, <2>1, <2>2, <2>3, <2>4, <2>5, <2>6, <2>7, <2>8, <2>9, <2>10, <2>11,
          <2>12, <2>13, <2>14, <2>15, <2>16 DEF Worker
<1>3. ASSUME NEW g \in Hubs, Startup(g)
      PROVE  SlotEffect(h)
  <2>1. CASE Boot(g)
    BY <2>1 DEF Boot, db
  <2>2. CASE ListPending(g)
    BY <2>2 DEF ListPending, db
  <2>3. CASE Serve(g)
    BY <2>3 DEF Serve, db
  <2>4. ASSUME NEW t \in Tasks, FailOrphan(g, t)
        PROVE  SlotEffect(h)
    BY <2>4 DEF FailOrphan
  <2>5. ASSUME NEW t \in Tasks, Resume(g, t)
        PROVE  SlotEffect(h)
    <3>1. pc[g][t] = "idle"
      BY <2>5 DEF OwnerInv, Resume, IsNext
    <3> QED BY <2>5, <3>1 DEF Resume, InSlot
  <2>6. ASSUME NEW t \in Tasks, SkipResume(g, t)
        PROVE  SlotEffect(h)
    BY <2>6 DEF SkipResume, db
  <2> QED BY <1>3, <2>1, <2>2, <2>3, <2>4, <2>5, <2>6 DEF Startup
<1>4. ASSUME NEW g \in Hubs, Crash(g)
      PROVE  SlotEffect(h)
  BY <1>4 DEF Crash, InSlot, db
<1>5. ASSUME NEW s \in Sources, DeleteModel(s)
      PROVE  SlotEffect(h)
  BY <1>5 DEF DeleteModel, procs
<1> QED BY <1>1, <1>2, <1>3, <1>4, <1>5 DEF Next

\* The type invariant is preserved by every step of a state whose slots are
\* accounted for.
LEMMA StepKeepsTypes ==
  ASSUME TypeOK, SlotsAccounted, Next
  PROVE  TypeOK'
<1> USE DEF TypeOK
<1>1. ASSUME NEW h \in Hubs, NEW r \in Submissions, SubmitCommit(h, r)
      PROVE  TypeOK'
  BY <1>1 DEF SubmitCommit, Control, TaskStatus
<1>2. ASSUME NEW h \in Hubs, NEW t \in Tasks, Worker(h, t)
      PROVE  TypeOK'
  <2>0. ASSUME NEW from \in InSlot, Raise(h, t, from)
        PROVE  TypeOK'
    <3>1. free[h] + 1 \in 0 .. Concurrency
      BY <2>0, RoomToRelease DEF Raise, Move
    <3> QED BY <2>0, <3>1 DEF Raise, Release, Move, Control, db
  <2>1. CASE Spawn(h, t)
    BY <2>1 DEF Spawn, Move, Control, db
  <2>2. CASE Acquire(h, t)
    <3>1. free[h] - 1 \in 0 .. Concurrency
      BY <2>2, ConstantsAssumption DEF Acquire
    <3> QED BY <2>2, <3>1 DEF Acquire, Move, Control, InSlot, db
  <2>3. CASE MarkRunning(h, t)
    BY <2>3 DEF MarkRunning, Move, Control, InSlot, TaskStatus
  <2>4. CASE ReadSource(h, t)
    BY <2>4 DEF ReadSource, Move, Control, InSlot, db
  <2>5. CASE UnknownFormat(h, t)
    BY <2>5, <2>0 DEF UnknownFormat, InSlot
  <2>6. CASE Convert(h, t)
    BY <2>6 DEF Convert, Move, Control, InSlot, db
  <2>7. CASE Finish(h, t)
    BY <2>7 DEF Finish, Move, Control, InSlot, TaskStatus
  <2>8. CASE ModelGone(h, t)
    BY <2>8 DEF ModelGone, Move, Control, InSlot, db
  <2>9. CASE LabelConflict(h, t)
    BY <2>9, <2>0 DEF LabelConflict, InSlot
  <2>10. CASE Reject(h, t)
    <3>1. free[h] + 1 \in 0 .. Concurrency
      BY <2>10, RoomToRelease DEF Reject, Move, InSlot
    <3> QED BY <2>10, <3>1 DEF Reject, Release, Move, Control, TaskStatus
  <2>11. CASE DbFault(h, t)
    BY <2>11, <2>0 DEF DbFault, InSlot
  <2>12. CASE AnnounceDone(h, t)
    BY <2>12 DEF AnnounceDone, Move, Control, InSlot, db
  <2>13. CASE PostChecks(h, t)
    <3>1. free[h] + 1 \in 0 .. Concurrency
      BY <2>13, RoomToRelease DEF PostChecks, Move, InSlot
    <3> QED BY <2>13, <3>1 DEF PostChecks, Release, Move, Control, db
  <2>14. CASE AnnounceFailure(h, t)
    BY <2>14 DEF AnnounceFailure, Move, Control, db
  <2>15. CASE MarkFailed(h, t)
    BY <2>15 DEF MarkFailed, Move, Control, TaskStatus
  <2>16. CASE LoseFailure(h, t)
    BY <2>16 DEF LoseFailure, Move, Control, db
  <2> QED BY <1>2, <2>1, <2>2, <2>3, <2>4, <2>5, <2>6, <2>7, <2>8, <2>9, <2>10, <2>11,
          <2>12, <2>13, <2>14, <2>15, <2>16 DEF Worker
<1>3. ASSUME NEW h \in Hubs, Startup(h)
      PROVE  TypeOK'
  <2>1. boots < MaxBoots => boots + 1 \in 0 .. MaxBoots
    BY ConstantsAssumption
  <2>2. \A n : \A S \in SUBSET Tasks : Newest(S, n) \subseteq Tasks
    BY DEF Newest
  <2>3. CASE Boot(h)
    BY <2>1, <2>2, <2>3 DEF Boot, RowsIn, db
  <2>4. CASE ListPending(h)
    BY <2>2, <2>4 DEF ListPending, RowsIn, db
  <2>7. CASE Serve(h)
    BY <2>7 DEF Serve, db
  <2>8. ASSUME NEW t \in Tasks, SkipResume(h, t)
        PROVE  TypeOK'
    BY <2>8 DEF SkipResume, db
  <2>5. ASSUME NEW t \in Tasks, FailOrphan(h, t)
        PROVE  TypeOK'
    BY <2>5 DEF FailOrphan, TaskStatus
  <2>6. ASSUME NEW t \in Tasks, Resume(h, t)
        PROVE  TypeOK'
    BY <2>6 DEF Resume, Claim, TaskStatus, Control
  <2> QED BY <1>3, <2>3, <2>4, <2>5, <2>6, <2>7, <2>8 DEF Startup
<1>4. ASSUME NEW h \in Hubs, Crash(h)
      PROVE  TypeOK'
  BY <1>4, ConstantsAssumption DEF Crash, Control, db
<1>5. ASSUME NEW s \in Sources, DeleteModel(s)
      PROVE  TypeOK'
  BY <1>5 DEF DeleteModel, procs
<1> QED BY <1>1, <1>2, <1>3, <1>4, <1>5 DEF Next

\* Ownership is preserved by every step.
LEMMA StepKeepsOwners ==
  ASSUME TypeOK, OwnerInv, Next
  PROVE  OwnerInv'
<1> USE DEF TypeOK, OwnerInv
<1>1. ASSUME NEW g \in Hubs, NEW r \in Submissions, SubmitCommit(g, r)
      PROVE  OwnerInv'
  <2>1. PICK t \in Tasks : /\ pc' = [pc EXCEPT ![g][t] = "submitted"]
                           /\ status[t] = "none"
                           /\ status' = [status EXCEPT ![t] = "pending"]
    BY <1>1 DEF SubmitCommit
  <2> QED BY <1>1, <2>1 DEF SubmitCommit
<1>2. ASSUME NEW g \in Hubs, NEW t \in Tasks, Worker(g, t)
      PROVE  OwnerInv'
  <2>0. ASSUME NEW from \in InSlot, Raise(g, t, from)
        PROVE  OwnerInv'
    BY <2>0 DEF Raise, Move, InSlot, db
  <2>1. CASE Spawn(g, t)
    BY <2>1 DEF Spawn, Move, db
  <2>2. CASE Acquire(g, t)
    BY <2>2 DEF Acquire, Move, db
  <2>3. CASE MarkRunning(g, t)
    BY <2>3 DEF MarkRunning, Move
  <2>4. CASE ReadSource(g, t)
    BY <2>4 DEF ReadSource, Move, db
  <2>5. CASE UnknownFormat(g, t)
    BY <2>5, <2>0 DEF UnknownFormat, InSlot
  <2>6. CASE Convert(g, t)
    BY <2>6 DEF Convert, Move, db
  <2>7. CASE Finish(g, t)
    BY <2>7 DEF Finish, Move
  <2>8. CASE ModelGone(g, t)
    BY <2>8 DEF ModelGone, Move, db
  <2>9. CASE LabelConflict(g, t)
    BY <2>9, <2>0 DEF LabelConflict, InSlot
  <2>10. CASE Reject(g, t)
    BY <2>10 DEF Reject, Move
  <2>11. CASE DbFault(g, t)
    BY <2>11, <2>0 DEF DbFault, InSlot
  <2>12. CASE AnnounceDone(g, t)
    BY <2>12 DEF AnnounceDone, Move, db
  <2>13. CASE PostChecks(g, t)
    BY <2>13 DEF PostChecks, Move, db
  <2>14. CASE AnnounceFailure(g, t)
    BY <2>14 DEF AnnounceFailure, Move, db
  <2>15. CASE MarkFailed(g, t)
    BY <2>15 DEF MarkFailed, Move
  <2>16. CASE LoseFailure(g, t)
    BY <2>16 DEF LoseFailure, Move, db
  <2> QED BY <1>2, <2>1, <2>2, <2>3, <2>4, <2>5, <2>6, <2>7, <2>8, <2>9, <2>10, <2>11,
          <2>12, <2>13, <2>14, <2>15, <2>16 DEF Worker
<1>3. ASSUME NEW g \in Hubs, Startup(g)
      PROVE  OwnerInv'
  <2>0. \A t : /\ t \in Newest(RowsIn("running"), PageSize)
                    => t \in Tasks /\ status[t] = "running"
               /\ t \in Newest(RowsIn("pending"), PageSize)
                    => t \in Tasks /\ status[t] = "pending"
    BY DEF Newest, RowsIn
  <2>1. CASE Boot(g)
    BY <2>0, <2>1 DEF Boot, db
  <2>2. CASE ListPending(g)
    BY <2>0, <2>2 DEF ListPending, db
  <2>3. CASE Serve(g)
    BY <2>3 DEF Serve, db
  <2>4. ASSUME NEW t \in Tasks, FailOrphan(g, t)
        PROVE  OwnerInv'
    BY <2>4 DEF FailOrphan
  <2>5. ASSUME NEW t \in Tasks, Resume(g, t)
        PROVE  OwnerInv'
    BY <2>5 DEF Resume, Claim
  <2>6. ASSUME NEW t \in Tasks, SkipResume(g, t)
        PROVE  OwnerInv'
    BY <2>6 DEF SkipResume, db
  <2> QED BY <1>3, <2>1, <2>2, <2>3, <2>4, <2>5, <2>6 DEF Startup
<1>4. ASSUME NEW g \in Hubs, Crash(g)
      PROVE  OwnerInv'
  BY <1>4 DEF Crash, db
<1>5. ASSUME NEW s \in Sources, DeleteModel(s)
      PROVE  OwnerInv'
  BY <1>5 DEF DeleteModel, procs
<1> QED BY <1>1, <1>2, <1>3, <1>4, <1>5 DEF Next

\* Initially nothing is taken.
LEMMA InitHolds == Init => TypeOK /\ SlotsAccounted /\ OwnerInv
<1> SUFFICES ASSUME Init PROVE TypeOK /\ SlotsAccounted /\ OwnerInv
  OBVIOUS
<1>1. TypeOK
  BY ConstantsAssumption DEF Init, TypeOK, Control, TaskStatus
<1>2. \A h \in Hubs : Holders(h) = {}
  BY DEF Init, Holders, InSlot
<1>3. SlotsAccounted
  BY <1>2, FS_EmptySet, ConstantsAssumption, SMTT(30) DEF Init, SlotsAccounted
<1>4. OwnerInv
  BY DEF Init, OwnerInv
<1> QED BY <1>1, <1>3, <1>4

\* Types, slots and ownership together are inductive.
LEMMA TypesAndSlots == Spec => [](TypeOK /\ SlotsAccounted /\ OwnerInv)
<1> DEFINE I == TypeOK /\ SlotsAccounted /\ OwnerInv
<1>1. I /\ [Next]_vars => I'
  <2> SUFFICES ASSUME TypeOK, SlotsAccounted, OwnerInv, [Next]_vars
               PROVE  TypeOK' /\ SlotsAccounted' /\ OwnerInv'
    OBVIOUS
  <2>1. CASE Next
    <3>1. TypeOK' /\ OwnerInv'
      BY <2>1, StepKeepsTypes, StepKeepsOwners
    <3>2. ASSUME NEW h \in Hubs
          PROVE  free'[h] + Cardinality(Holders(h)') = Concurrency
      BY <2>1, StepHasSlotEffect, SlotEffectSuffices
    <3> QED BY <3>1, <3>2 DEF SlotsAccounted
  <2>2. CASE UNCHANGED vars
    BY <2>2 DEF vars, TypeOK, SlotsAccounted, Holders, OwnerInv
  <2> QED BY <2>1, <2>2
<1> QED BY <1>1, InitHolds, PTL DEF Spec

\* Every variable keeps its type; in particular the semaphore's counter stays
\* between zero and _QUANTIZE_CONCURRENCY.
THEOREM TypeCorrect == Spec => []TypeOK
  BY TypesAndSlots, PTL

\* No path out of the semaphore block of _run_quantize leaks or duplicates a
\* slot, for any number of jobs, hubs and crashes.
THEOREM SlotsAlwaysAccounted == Spec => []SlotsAccounted
  BY TypesAndSlots, PTL

----------------------------------------------------------------------------
(* Output versions *)

\* The steps that touch neither outputs nor requests, nor forget a row.
OutputsUntouched ==
  /\ UNCHANGED <<outputs, req, link>>
  /\ \A t \in Tasks : status[t] # "none" => status'[t] # "none"

\* Such a step keeps the output invariant.
LEMMA UntouchedSuffices ==
  ASSUME TypeOK, OutputInv, OutputsUntouched
  PROVE  OutputInv'
BY DEF TypeOK, OutputInv, OutputsUntouched

\* The output invariant is preserved by every step.
LEMMA StepKeepsOutputs ==
  ASSUME TypeOK, OutputInv, Next
  PROVE  OutputInv'
<1> USE DEF TypeOK
<1>1. ASSUME NEW g \in Hubs, NEW r \in Submissions, SubmitCommit(g, r)
      PROVE  OutputInv'
  <2>1. PICK t \in Tasks : /\ req' = [req EXCEPT ![t] = r]
                           /\ status[t] = "none"
                           /\ status' = [status EXCEPT ![t] = "pending"]
    BY <1>1 DEF SubmitCommit
  <2> QED BY <1>1, <2>1 DEF SubmitCommit, OutputInv
<1>2. ASSUME NEW g \in Hubs, NEW t \in Tasks, Worker(g, t)
      PROVE  OutputInv'
  <2>0. ASSUME NEW from \in InSlot, Raise(g, t, from)
        PROVE  OutputInv'
    BY <2>0, UntouchedSuffices DEF Raise, OutputsUntouched, db
  <2>1. CASE Spawn(g, t)
    BY <2>1, UntouchedSuffices DEF Spawn, OutputsUntouched, db
  <2>2. CASE Acquire(g, t)
    BY <2>2, UntouchedSuffices DEF Acquire, OutputsUntouched, db
  <2>3. CASE MarkRunning(g, t)
    BY <2>3, UntouchedSuffices DEF MarkRunning, OutputsUntouched
  <2>4. CASE ReadSource(g, t)
    BY <2>4, UntouchedSuffices DEF ReadSource, OutputsUntouched, db
  <2>5. CASE UnknownFormat(g, t)
    BY <2>5, <2>0 DEF UnknownFormat, InSlot
  <2>6. CASE Convert(g, t)
    BY <2>6, UntouchedSuffices DEF Convert, OutputsUntouched, db
  <2>7. CASE Finish(g, t)
    <3>1. outputs' = outputs \cup {t} /\ link' = [link EXCEPT ![t] = TRUE]
          /\ status' = [status EXCEPT ![t] = "completed"]
      BY <2>7 DEF Finish
    <3> QED BY <3>1 DEF OutputInv
  <2>8. CASE ModelGone(g, t)
    BY <2>8, UntouchedSuffices DEF ModelGone, OutputsUntouched, db
  <2>9. CASE LabelConflict(g, t)
    BY <2>9, <2>0 DEF LabelConflict, InSlot
  <2>10. CASE Reject(g, t)
    BY <2>10, UntouchedSuffices DEF Reject, OutputsUntouched
  <2>11. CASE DbFault(g, t)
    BY <2>11, <2>0 DEF DbFault, InSlot
  <2>12. CASE AnnounceDone(g, t)
    BY <2>12, UntouchedSuffices DEF AnnounceDone, OutputsUntouched, db
  <2>13. CASE PostChecks(g, t)
    BY <2>13, UntouchedSuffices DEF PostChecks, OutputsUntouched, db
  <2>14. CASE AnnounceFailure(g, t)
    BY <2>14, UntouchedSuffices DEF AnnounceFailure, OutputsUntouched, db
  <2>15. CASE MarkFailed(g, t)
    BY <2>15, UntouchedSuffices DEF MarkFailed, OutputsUntouched
  <2>16. CASE LoseFailure(g, t)
    BY <2>16, UntouchedSuffices DEF LoseFailure, OutputsUntouched, db
  <2> QED BY <1>2, <2>1, <2>2, <2>3, <2>4, <2>5, <2>6, <2>7, <2>8, <2>9, <2>10, <2>11,
          <2>12, <2>13, <2>14, <2>15, <2>16 DEF Worker
<1>3. ASSUME NEW g \in Hubs, Startup(g)
      PROVE  OutputInv'
  <2>1. CASE Boot(g)
    BY <2>1, UntouchedSuffices DEF Boot, OutputsUntouched, db
  <2>2. CASE ListPending(g)
    BY <2>2, UntouchedSuffices DEF ListPending, OutputsUntouched, db
  <2>3. CASE Serve(g)
    BY <2>3, UntouchedSuffices DEF Serve, OutputsUntouched, db
  <2>4. ASSUME NEW t \in Tasks, FailOrphan(g, t)
        PROVE  OutputInv'
    BY <2>4, UntouchedSuffices DEF FailOrphan, OutputsUntouched
  <2>5. ASSUME NEW t \in Tasks, Resume(g, t)
        PROVE  OutputInv'
    BY <2>5, UntouchedSuffices DEF Resume, Claim, OutputsUntouched
  <2>6. ASSUME NEW t \in Tasks, SkipResume(g, t)
        PROVE  OutputInv'
    BY <2>6, UntouchedSuffices DEF SkipResume, OutputsUntouched, db
  <2> QED BY <1>3, <2>1, <2>2, <2>3, <2>4, <2>5, <2>6 DEF Startup
<1>4. ASSUME NEW g \in Hubs, Crash(g)
      PROVE  OutputInv'
  BY <1>4, UntouchedSuffices DEF Crash, OutputsUntouched, db
<1>5. ASSUME NEW s \in Sources, DeleteModel(s)
      PROVE  OutputInv'
  BY <1>5 DEF DeleteModel, OutputInv
<1> QED BY <1>1, <1>2, <1>3, <1>4, <1>5 DEF Next

\* The output invariant always holds.
LEMMA OutputsInductive == Spec => []OutputInv
<1>1. Init => OutputInv
  BY DEF Init, OutputInv
<1>2. TypeOK /\ OutputInv /\ [Next]_vars => OutputInv'
  <2>1. ASSUME TypeOK, OutputInv, UNCHANGED vars
        PROVE  OutputInv'
    BY <2>1 DEF vars, OutputInv
  <2> QED BY <2>1, StepKeepsOutputs
<1> QED BY <1>1, <1>2, TypeCorrect, PTL DEF Spec

\* The H4 transaction: whatever crashes and whoever else runs the task, no
\* output version exists without a task row that points at it.
THEOREM OutputsAlwaysLinked == Spec => []NoOrphanOutput
<1>1. OutputInv => NoOrphanOutput
  BY DEF OutputInv, NoOrphanOutput
<1> QED BY <1>1, OutputsInductive, PTL

----------------------------------------------------------------------------
(* One hub process *)

\* The deployment the project ships: a single worker process, and SQLite on a
\* file or PostgreSQL, both of which enforce foreign keys.
LoneHub == ForeignKeys /\ \A g, h \in Hubs : g = h

FinalStep == \A t \in Tasks : status[t] \in Terminal => status'[t] = status[t]

\* Every step of a lone hub preserves the invariant and leaves finished rows
\* as they are.
LEMMA LoneHubStep ==
  ASSUME LoneHub, TypeOK, OwnerInv, OutputInv, SingleInv, Next
  PROVE  SingleInv' /\ FinalStep
<1> USE DEF TypeOK, LoneHub, SingleInv, CompletedIffOutput, RowAgrees, WorklistAgrees,
            FinalStep, Terminal
<1>1. ASSUME NEW g \in Hubs, NEW r \in Submissions, SubmitCommit(g, r)
      PROVE  SingleInv' /\ FinalStep
  <2>1. PICK t \in Tasks : /\ pc' = [pc EXCEPT ![g][t] = "submitted"]
                           /\ status[t] = "none"
                           /\ status' = [status EXCEPT ![t] = "pending"]
    BY <1>1 DEF SubmitCommit
  <2> QED BY <1>1, <2>1 DEF SubmitCommit, OwnerInv
<1>2. ASSUME NEW g \in Hubs, NEW t \in Tasks, Worker(g, t)
      PROVE  SingleInv' /\ FinalStep
  <2>0. ASSUME NEW from \in InSlot \ {"announcing", "checking"}, Raise(g, t, from)
        PROVE  SingleInv' /\ FinalStep
    BY <2>0 DEF Raise, Move, InSlot, OwnerInv, db
  <2>1. CASE Spawn(g, t)
    BY <2>1 DEF Spawn, Move, OwnerInv, db
  <2>2. CASE Acquire(g, t)
    BY <2>2 DEF Acquire, Move, OwnerInv, db
  <2>3. CASE MarkRunning(g, t)
    BY <2>3 DEF MarkRunning, Move, OwnerInv
  <2>4. CASE ReadSource(g, t)
    BY <2>4 DEF ReadSource, Move, OwnerInv, db
  <2>5. CASE UnknownFormat(g, t)
    BY <2>5, <2>0 DEF UnknownFormat, InSlot
  <2>6. CASE Convert(g, t)
    BY <2>6 DEF Convert, Move, OwnerInv, db
  <2>7. CASE Finish(g, t)
    BY <2>7 DEF Finish, Move, OwnerInv
  <2>8. CASE ModelGone(g, t)
    BY <2>8 DEF ModelGone, Move, OwnerInv, db
  <2>9. CASE LabelConflict(g, t)
    BY <2>9, <2>0 DEF LabelConflict, InSlot
  <2>10. CASE Reject(g, t)
    BY <2>10 DEF Reject, Move, OwnerInv
  <2>11. CASE DbFault(g, t)
    BY <2>11, <2>0 DEF DbFault, InSlot
  <2>12. CASE AnnounceDone(g, t)
    BY <2>12 DEF AnnounceDone, Move, OwnerInv, db
  <2>13. CASE PostChecks(g, t)
    BY <2>13 DEF PostChecks, Move, OwnerInv, db
  <2>14. CASE AnnounceFailure(g, t)
    BY <2>14 DEF AnnounceFailure, Move, OwnerInv, db
  <2>15. CASE MarkFailed(g, t)
    BY <2>15 DEF MarkFailed, Move, OwnerInv
  <2>16. CASE LoseFailure(g, t)
    BY <2>16 DEF LoseFailure, Move, OwnerInv, db
  <2> QED BY <1>2, <2>1, <2>2, <2>3, <2>4, <2>5, <2>6, <2>7, <2>8, <2>9, <2>10, <2>11,
          <2>12, <2>13, <2>14, <2>15, <2>16 DEF Worker
<1>3. ASSUME NEW g \in Hubs, Startup(g)
      PROVE  SingleInv' /\ FinalStep
  <2>0. \A n : \A S \in SUBSET Tasks : Newest(S, n) \subseteq S
    BY DEF Newest
  <2>1. CASE Boot(g)
    BY <2>0, <2>1 DEF Boot, RowsIn, db
  <2>2. CASE ListPending(g)
    BY <2>0, <2>2 DEF ListPending, RowsIn, db
  <2>3. CASE Serve(g)
    BY <2>3 DEF Serve, db
  <2>4. ASSUME NEW t \in Tasks, FailOrphan(g, t)
        PROVE  SingleInv' /\ FinalStep
    BY <2>4 DEF FailOrphan, IsNext, OwnerInv
  <2>5. ASSUME NEW t \in Tasks, Resume(g, t)
        PROVE  SingleInv' /\ FinalStep
    BY <2>5 DEF Resume, Claim, IsNext, OwnerInv
  <2>6. ASSUME NEW t \in Tasks, SkipResume(g, t)
        PROVE  SingleInv' /\ FinalStep
    BY <2>6 DEF SkipResume, db
  <2> QED BY <1>3, <2>1, <2>2, <2>3, <2>4, <2>5, <2>6 DEF Startup
<1>4. ASSUME NEW g \in Hubs, Crash(g)
      PROVE  SingleInv' /\ FinalStep
  BY <1>4 DEF Crash, db
<1>5. ASSUME NEW s \in Sources, DeleteModel(s)
      PROVE  SingleInv' /\ FinalStep
  <2>1. outputs' = outputs
    BY <1>5 DEF DeleteModel, OutputInv
  <2> QED BY <1>5, <2>1 DEF DeleteModel, procs
<1> QED BY <1>1, <1>2, <1>3, <1>4, <1>5 DEF Next

\* The invariants of the previous sections and this one, together.
LEMMA LoneHubInductive ==
  ASSUME LoneHub
  PROVE  Spec => [](TypeOK /\ OwnerInv /\ OutputInv /\ SingleInv)
<1>1. Init => SingleInv
  BY DEF Init, SingleInv, CompletedIffOutput, RowAgrees, WorklistAgrees
<1>2. TypeOK /\ OwnerInv /\ OutputInv /\ SingleInv /\ [Next]_vars => SingleInv'
  <2>1. ASSUME SingleInv, UNCHANGED vars
        PROVE  SingleInv'
    BY <2>1 DEF vars, SingleInv, CompletedIffOutput, RowAgrees, WorklistAgrees
  <2> QED BY <2>1, LoneHubStep
<1> QED BY <1>1, <1>2, TypesAndSlots, OutputsInductive, PTL DEF Spec

\* With one hub process a row reads COMPLETED exactly when its output version
\* exists, however the crashes, faults, retries and deletions interleave.
THEOREM LoneHubCompletes ==
  ASSUME LoneHub
  PROVE  Spec => []CompletedIffOutput
<1>1. SingleInv => CompletedIffOutput
  BY DEF SingleInv
<1> QED BY <1>1, LoneHubInductive, PTL

\* With one hub process no step rewrites a finished row: neither the runner's
\* late failure path nor the startup reconciliation.
THEOREM LoneHubFinal ==
  ASSUME LoneHub
  PROVE  Spec => TerminalIsFinal
<1>1. TypeOK /\ OwnerInv /\ OutputInv /\ SingleInv /\ [Next]_vars => [FinalStep]_vars
  BY LoneHubStep
<1>2. [][FinalStep]_vars => TerminalIsFinal
  BY PTL DEF TerminalIsFinal, FinalStep
<1> QED BY <1>1, <1>2, LoneHubInductive, PTL DEF Spec
----------------------------------------------------------------------------
(* What was announced *)

\* A completion is announced after the commit that records it.
CompletionsTrue ==
  \A t \in Tasks : <<"quantize.completed", t>> \in events => status[t] = "completed"

\* A coroutine that announces its failure before it marks its row holds a RUNNING
\* row: no startup resumes such a row.
FailingRuns ==
  \A h \in Hubs, t \in Tasks : pc[h][t] \in {"failing", "marking"} => status[t] = "running"

\* Nothing may complete the row any more: it is marked, or no coroutine but the
\* one that is about to mark it works on it.
Doomed(t) ==
  /\ status[t] \in {"running", "failed"}
  /\ \A h \in Hubs : pc[h][t] \in {"idle", "marking"}

DoomedStays == \A t \in Tasks : Doomed(t) => Doomed(t)'

\* Only doomed rows are announced as failed.
FailuresTrue ==
  /\ FailingRuns
  /\ \A t \in Tasks : <<"quantize.failed", t>> \in events => Doomed(t)

\* Only the announcing steps add an event.
LEMMA EventsOfStep ==
  ASSUME TypeOK, Next, NEW t \in Tasks
  PROVE  /\ <<"quantize.completed", t>> \in events' =>
              \/ <<"quantize.completed", t>> \in events
              \/ \E h \in Hubs : AnnounceDone(h, t)
         /\ <<"quantize.failed", t>> \in events' =>
              \/ <<"quantize.failed", t>> \in events
              \/ \E h \in Hubs : AnnounceFailure(h, t)
<1>0. CASE events' = events
  BY <1>0
<1>1. CASE \E h \in Hubs, u \in Tasks : AnnounceDone(h, u)
  BY <1>1 DEF AnnounceDone
<1>2. CASE \E h \in Hubs, u \in Tasks : AnnounceFailure(h, u)
  BY <1>2 DEF AnnounceFailure
<1>3. CASE \E h \in Hubs, u \in Tasks : PostChecks(h, u)
  BY <1>3 DEF PostChecks
<1>4. ASSUME NEW h \in Hubs, NEW u \in Tasks, Worker(h, u)
      PROVE  \/ events' = events
             \/ AnnounceDone(h, u) \/ AnnounceFailure(h, u) \/ PostChecks(h, u)
  BY <1>4 DEF Worker, Spawn, Acquire, MarkRunning, ReadSource, UnknownFormat, Convert,
              Finish, ModelGone, LabelConflict, Reject, DbFault, MarkFailed, LoseFailure,
              Raise
<1>5. ASSUME NEW h \in Hubs, Startup(h) \/ Crash(h)
      PROVE  events' = events
  BY <1>5 DEF Startup, Boot, ListPending, Serve, FailOrphan, Resume, SkipResume, Crash
<1>6. ASSUME NEW h \in Hubs, NEW r \in Submissions, SubmitCommit(h, r)
      PROVE  events' = events
  BY <1>6 DEF SubmitCommit
<1>7. ASSUME NEW s \in Sources, DeleteModel(s)
      PROVE  events' = events
  BY <1>7 DEF DeleteModel
<1> QED BY <1>0, <1>1, <1>2, <1>3, <1>4, <1>5, <1>6, <1>7 DEF Next

\* A row whose completion was announced is finished, and finished rows stay.
LEMMA CompletionsStep ==
  ASSUME LoneHub, TypeOK, OwnerInv, OutputInv, SingleInv, CompletionsTrue, Next
  PROVE  CompletionsTrue'
<1> SUFFICES ASSUME NEW t \in Tasks, <<"quantize.completed", t>> \in events'
             PROVE  status'[t] = "completed"
  BY DEF CompletionsTrue
<1>1. FinalStep
  BY LoneHubStep
<1>2. status[t] = "completed"
  <2>1. CASE <<"quantize.completed", t>> \in events
    BY <2>1 DEF CompletionsTrue
  <2>2. ASSUME NEW h \in Hubs, AnnounceDone(h, t)
        PROVE  status[t] = "completed"
    BY <2>2 DEF AnnounceDone, Move, SingleInv, RowAgrees
  <2> QED BY <2>1, <2>2, EventsOfStep
<1> QED BY <1>1, <1>2 DEF FinalStep, Terminal

\* Without database faults a coroutine fails only after its row reads RUNNING, and
\* from then on nothing may move the row but the mark.
LEMMA DoomedStep ==
  ASSUME LoneHub, ~DbFaults, TypeOK, OwnerInv, OutputInv, SingleInv, FailingRuns, Next
  PROVE  FailingRuns' /\ DoomedStays
<1> USE DEF TypeOK, LoneHub, FailingRuns, Doomed, DoomedStays, RowAgrees, SingleInv
<1>1. ASSUME NEW g \in Hubs, NEW r \in Submissions, SubmitCommit(g, r)
      PROVE  FailingRuns' /\ DoomedStays
  <2>1. PICK t \in Tasks : /\ pc' = [pc EXCEPT ![g][t] = "submitted"]
                           /\ status[t] = "none"
                           /\ status' = [status EXCEPT ![t] = "pending"]
    BY <1>1 DEF SubmitCommit
  <2> QED BY <1>1, <2>1 DEF SubmitCommit, OwnerInv
<1>2. ASSUME NEW g \in Hubs, NEW t \in Tasks, Worker(g, t)
      PROVE  FailingRuns' /\ DoomedStays
  <2>0. ASSUME NEW from \in {"reading", "finishing"}, Raise(g, t, from)
        PROVE  FailingRuns' /\ DoomedStays
    BY <2>0 DEF Raise, Move, db
  <2>1. CASE Spawn(g, t)
    BY <2>1 DEF Spawn, Move, db
  <2>2. CASE Acquire(g, t)
    BY <2>2 DEF Acquire, Move, db
  <2>3. CASE MarkRunning(g, t)
    BY <2>3 DEF MarkRunning, Move
  <2>4. CASE ReadSource(g, t)
    BY <2>4 DEF ReadSource, Move, db
  <2>5. CASE UnknownFormat(g, t)
    BY <2>5, <2>0 DEF UnknownFormat
  <2>6. CASE Convert(g, t)
    BY <2>6 DEF Convert, Move, db
  <2>7. CASE Finish(g, t)
    BY <2>7 DEF Finish, Move
  <2>8. CASE ModelGone(g, t)
    BY <2>8 DEF ModelGone, Move, db
  <2>9. CASE LabelConflict(g, t)
    BY <2>9, <2>0 DEF LabelConflict
  <2>10. CASE Reject(g, t)
    BY <2>10 DEF Reject, Move
  <2>11. CASE DbFault(g, t)
    BY <2>11 DEF DbFault
  <2>12. CASE AnnounceDone(g, t)
    BY <2>12 DEF AnnounceDone, Move, db
  <2>13. CASE PostChecks(g, t)
    BY <2>13 DEF PostChecks, Move, db
  <2>14. CASE AnnounceFailure(g, t)
    BY <2>14 DEF AnnounceFailure, Move, db
  <2>15. CASE MarkFailed(g, t)
    BY <2>15 DEF MarkFailed, Move
  <2>16. CASE LoseFailure(g, t)
    BY <2>16 DEF LoseFailure
  <2> QED BY <1>2, <2>1, <2>2, <2>3, <2>4, <2>5, <2>6, <2>7, <2>8, <2>9, <2>10, <2>11,
          <2>12, <2>13, <2>14, <2>15, <2>16 DEF Worker
<1>3. ASSUME NEW g \in Hubs, Startup(g)
      PROVE  FailingRuns' /\ DoomedStays
  <2>1. CASE Boot(g) \/ ListPending(g) \/ Serve(g)
    BY <2>1 DEF Boot, ListPending, Serve, db
  <2>2. ASSUME NEW t \in Tasks, FailOrphan(g, t)
        PROVE  FailingRuns' /\ DoomedStays
    BY <2>2 DEF FailOrphan, IsNext, OwnerInv
  <2>3. ASSUME NEW t \in Tasks, Resume(g, t)
        PROVE  FailingRuns' /\ DoomedStays
    BY <2>3 DEF Resume, Claim, IsNext, OwnerInv
  <2>4. ASSUME NEW t \in Tasks, SkipResume(g, t)
        PROVE  FailingRuns' /\ DoomedStays
    BY <2>4 DEF SkipResume, db
  <2> QED BY <1>3, <2>1, <2>2, <2>3, <2>4 DEF Startup
<1>4. ASSUME NEW g \in Hubs, Crash(g)
      PROVE  FailingRuns' /\ DoomedStays
  BY <1>4 DEF Crash, db
<1>5. ASSUME NEW s \in Sources, DeleteModel(s)
      PROVE  FailingRuns' /\ DoomedStays
  BY <1>5 DEF DeleteModel, procs
<1> QED BY <1>1, <1>2, <1>3, <1>4, <1>5 DEF Next

\* A failure is announced by a coroutine that dooms its row by it.
LEMMA FailuresStep ==
  ASSUME LoneHub, ~DbFaults, TypeOK, OwnerInv, OutputInv, SingleInv, FailuresTrue, Next
  PROVE  FailuresTrue'
<1>1. FailingRuns' /\ DoomedStays
  BY DoomedStep DEF FailuresTrue
<1>2. ASSUME NEW t \in Tasks, NEW h \in Hubs, AnnounceFailure(h, t)
      PROVE  Doomed(t)'
  <2>1. pc[h][t] = "failing" /\ pc' = [pc EXCEPT ![h][t] = "marking"] /\ status' = status
    BY <1>2 DEF AnnounceFailure, Move, db
  <2>2. \A g \in Hubs : g = h
    BY DEF LoneHub
  <2>3. pc'[h][t] = "marking" /\ status[t] = "running"
    BY <2>1 DEF TypeOK, FailuresTrue, FailingRuns
  <2> QED BY <2>1, <2>2, <2>3 DEF Doomed
<1> QED BY <1>1, <1>2, EventsOfStep DEF FailuresTrue, DoomedStays

\* With one hub process a completion announced to webhooks is durable, whatever
\* the database does: the row reads COMPLETED from then on.
THEOREM LoneHubCompletionsDurable ==
  ASSUME LoneHub
  PROVE  Spec => []CompletionsTrue
<1>1. Init => CompletionsTrue
  BY DEF Init, CompletionsTrue
<1>2. TypeOK /\ OwnerInv /\ OutputInv /\ SingleInv /\ CompletionsTrue /\ [Next]_vars
        => CompletionsTrue'
  <2>1. ASSUME CompletionsTrue, UNCHANGED vars
        PROVE  CompletionsTrue'
    BY <2>1 DEF vars, CompletionsTrue
  <2> QED BY <2>1, CompletionsStep
<1> QED BY <1>1, <1>2, LoneHubInductive, PTL DEF Spec

\* With one hub process and no database fault every announcement is true: a task
\* announced as completed reads COMPLETED, and one announced as failed never
\* completes, not even when the process dies between the dispatch and the mark.
THEOREM LoneHubAnnouncements ==
  ASSUME LoneHub, ~DbFaults
  PROVE  Spec => []AnnouncementsTrue
<1>1. Init => FailuresTrue
  BY DEF Init, FailuresTrue, FailingRuns
<1>2. TypeOK /\ OwnerInv /\ OutputInv /\ SingleInv /\ FailuresTrue /\ [Next]_vars
        => FailuresTrue'
  <2>1. ASSUME FailuresTrue, UNCHANGED vars
        PROVE  FailuresTrue'
    BY <2>1 DEF vars, FailuresTrue, FailingRuns, Doomed
  <2> QED BY <2>1, FailuresStep
<1>3. CompletionsTrue /\ FailuresTrue => AnnouncementsTrue
  BY DEF CompletionsTrue, FailuresTrue, Doomed, AnnouncementsTrue
<1> QED BY <1>1, <1>2, <1>3, LoneHubInductive, LoneHubCompletionsDurable, PTL DEF Spec
=============================================================================
