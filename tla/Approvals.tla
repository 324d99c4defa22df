----------------------------- MODULE Approvals -----------------------------
(***************************************************************************)
(* Approval requests (routers/approvals.py): level l1 is approved by the   *)
(* hub, l2 by one person, l3 by a quorum of distinct ones.  A decision     *)
(* reads the request, and writes it after an await.                        *)
(*                                                                         *)
(* A person is the name given in the call.  The names that have approved   *)
(* are joined by commas in one column and split again by the next call, so *)
(* that a name with a comma comes back as several.  (A blank follows the   *)
(* comma in such a name: different sets are different texts.)              *)
(***************************************************************************)
EXTENDS Naturals, FiniteSets

CONSTANTS Approvals, Persons, Deciders,   \* requests, people, calls in flight
          PartsOf,                        \* the names between the commas of a name
          Models, Quorum, Nobody

ASSUME ApprovalsAssumption ==
  /\ Quorum \in Nat \ {0} /\ Nobody \notin Persons
  /\ PartsOf \in [Persons -> SUBSET Persons]
  /\ \A p \in Persons : \A n \in PartsOf[p] : PartsOf[n] = {n}

VARIABLES approval,  \* the approval_requests table
          decider,   \* the approve or reject call in each slot
          signed     \* history: who has been recorded as approving

approvalVars == <<approval, decider, signed>>

NoApproval == [st |-> "none", level |-> "l1", model |-> Nobody, signers |-> {}]
NotDeciding == [verb |-> "none", id |-> Nobody, who |-> Nobody, seen |-> {}]

ApprovalsTypeOK ==
  /\ approval \in [Approvals -> [st      : {"none", "pending", "approved", "rejected"},
                                 level   : {"l1", "l2", "l3"},
                                 model   : Models \cup {Nobody},
                                 signers : SUBSET Persons]]
  /\ decider \in [Deciders -> [verb : {"none", "approve", "reject"},
                               id   : Approvals \cup {Nobody},
                               who  : Persons \cup {Nobody},
                               seen : SUBSET Persons]]
  /\ \A i \in Approvals : approval[i].st # "none" => approval[i].model \in Models
  /\ \A c \in Deciders : decider[c].verb # "none" => decider[c].id \in Approvals
  /\ signed \in [Approvals -> SUBSET Persons]

ApprovalsInit ==
  /\ approval = [i \in Approvals |-> NoApproval]
  /\ decider = [c \in Deciders |-> NotDeciding]
  /\ signed = [i \in Approvals |-> {}]
-----------------------------------------------------------------------------
NewRequest(model, level) ==
  [st |-> "pending", level |-> level, model |-> model, signers |-> {}]

\* The row is inserted pending; at level l1 the same request goes on to approve
\* it in nobody's name, whatever others decide before.
Submit(c, i, model, level) ==
  /\ approval[i].st = "none" /\ decider[c].verb = "none"
  /\ approval' = [approval EXCEPT ![i] = NewRequest(model, level)]
  /\ decider' = IF level = "l1"
                THEN [decider EXCEPT ![c] = [verb |-> "approve", id |-> i, who |-> Nobody,
                                             seen |-> {}]]
                ELSE decider
  /\ UNCHANGED signed

\* Only a pending request is decided on, as it was when it was read.
Begin(c, verb, i, who) ==
  /\ decider[c].verb = "none"
  /\ approval[i].st = "pending"
  /\ decider' = [decider EXCEPT ![c] = [verb |-> verb, id |-> i, who |-> who,
                                        seen |-> approval[i].signers]]
  /\ UNCHANGED <<approval, signed>>

EnoughToGo(signers) == Cardinality(signers) + 1 >= Quorum
Enough(signers)     == Cardinality(signers) >= Quorum

\* What a list of names is split into.
Split(list) == {n \in Persons : \E p \in list : n \in PartsOf[p]}

\* The row is not checked again, and a column left as it was read is not
\* written.  Level l3 is approved when the signers the call saw and its own
\* are enough.
WriteApprove(c) ==
  LET d == decider[c]
      l3 == approval[d.id].level = "l3"
      signers == Split(d.seen) \cup {d.who}
  IN /\ d.verb = "approve"
     /\ approval' = [approval EXCEPT
                       ![d.id].st = IF l3 => Enough(signers) THEN "approved" ELSE @,
                       ![d.id].signers = IF l3 /\ signers # d.seen THEN signers ELSE @]
     /\ signed' = IF l3 THEN [signed EXCEPT ![d.id] = @ \cup {d.who}] ELSE signed
     /\ decider' = [decider EXCEPT ![c] = NotDeciding]

WriteReject(c) ==
  /\ decider[c].verb = "reject"
  /\ approval' = [approval EXCEPT ![decider[c].id].st = "rejected"]
  /\ decider' = [decider EXCEPT ![c] = NotDeciding]
  /\ UNCHANGED signed

\* a restart ends the calls in flight; an l1 request may stay pending
DropDecisions ==
  /\ decider' = [c \in Deciders |-> NotDeciding]
  /\ UNCHANGED <<approval, signed>>

Plain(p) == PartsOf[p] = {p}

\* models a request refers to cannot be deleted
Referring == {approval[i].model : i \in {j \in Approvals : approval[j].st # "none"}}
=============================================================================
