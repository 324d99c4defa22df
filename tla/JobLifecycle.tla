---------------------------- MODULE JobLifecycle ----------------------------
(***************************************************************************)
(* What a background job of the hub promises to the client that polls its  *)
(* row: it is submitted once, may start once, ends once, completes exactly *)
(* when its product appears, and never changes after it has ended.  The    *)
(* quantize runner and the evaluation, merge and fan-out runners are       *)
(* shown to implement it (TaskStatus, db/models.py).                       *)
(***************************************************************************)
CONSTANT Jobs

VARIABLES
  state,     \* the status column of each job's row
  product    \* jobs whose result exists

vars == <<state, product>>

States == {"none", "pending", "running", "completed", "failed"}
Ended  == {"completed", "failed"}

Submit(j) ==
  /\ state[j] = "none"
  /\ state' = [state EXCEPT ![j] = "pending"]
  /\ UNCHANGED product

Begin(j) ==
  /\ state[j] = "pending"
  /\ state' = [state EXCEPT ![j] = "running"]
  /\ UNCHANGED product

Complete(j) ==
  /\ state[j] = "running"
  /\ state' = [state EXCEPT ![j] = "completed"]
  /\ product' = product \cup {j}

\* Also from "pending": a job may fail before it starts; and several at once:
\* the repair of a table after a restart is one transaction.
Abandon(gone) ==
  /\ \A j \in gone : state[j] \in {"pending", "running"}
  /\ state' = [j \in Jobs |-> IF j \in gone THEN "failed" ELSE state[j]]
  /\ UNCHANGED product

Init == state = [j \in Jobs |-> "none"] /\ product = {}

Next ==
  \/ \E j \in Jobs : Submit(j) \/ Begin(j) \/ Complete(j)
  \/ \E gone \in SUBSET Jobs : Abandon(gone)

Spec == Init /\ [][Next]_vars

----------------------------------------------------------------------------
(* What the promise amounts to *)

TypeOK == state \in [Jobs -> States] /\ product \subseteq Jobs

\* A client that polls the row and one that looks for the product agree.
ProductWhenCompleted == \A j \in Jobs : j \in product <=> state[j] = "completed"

\* What a client has once read as the end stays the end.
EndedIsFinal ==
  [][\A j \in Jobs : state[j] \in Ended =>
       state'[j] = state[j] /\ (j \in product' <=> j \in product)]_vars
=============================================================================
