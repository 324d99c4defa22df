------------------------------ MODULE Catalog ------------------------------
(***************************************************************************)
(* The catalogue of models, with what depends on its rows: the events sent *)
(* to webhooks after a commit, the approval requests, locks and favorites  *)
(* of a model, and the backups taken while the rows change.  A model is an *)
(* id with a fixed name and tenant; at most one version is made of each.   *)
(***************************************************************************)
EXTENDS Webhooks, Approvals, Backups, Marks

CONSTANTS NameOf, TenantOf,  \* by model id
          Stored,            \* the models there are in the beginning
          MaxOps,            \* bound: requests and commands begun
          MaxRestarts        \* bound: restarts

ASSUME CatalogAssumption ==
  /\ DOMAIN NameOf = Models /\ DOMAIN TenantOf = Models
  /\ Stored \in Seq(Models) /\ IsInjective(Stored) /\ MaxOps \in Nat /\ MaxRestarts \in Nat
  /\ MarkKinds \subseteq [kind : {"favorite", "lock"}, model : Models]
  /\ Events = [kind : {"created", "deleted"}, model : Models]

VARIABLES models,   \* the ids in the models table, last updated first
          versions, \* the models that have a version
          raised,   \* events of committed requests, not dispatched yet
          dropped,  \* history: the models that have been deleted
          ops, restarts

rowVars == <<models, versions>>
vars == <<hookVars, approvalVars, markVars, backupVars, rowVars, raised, dropped, ops, restarts>>

TypeOK ==
  /\ HooksTypeOK /\ ApprovalsTypeOK /\ BackupsTypeOK /\ MarksTypeOK
  /\ ToSet(models) \subseteq Models /\ IsInjective(models)
  /\ versions \subseteq ToSet(models)
  /\ raised \subseteq Events /\ dropped \subseteq Models /\ ops \in 0..MaxOps /\ restarts \in 0..MaxRestarts

Init ==
  /\ HooksInit /\ ApprovalsInit /\ BackupsInit /\ MarksInit
  /\ models = Stored /\ versions = {} /\ raised = {} /\ dropped = {} /\ ops = 0 /\ restarts = 0

Call == ops < MaxOps /\ ops' = ops + 1 /\ UNCHANGED restarts

\* a row changes: a backup under way is no longer of one moment
Disturb == /\ backup' = [backup EXCEPT !.quiet = FALSE]
           /\ UNCHANGED <<files, begun, completed, restore>>

Others == UNCHANGED <<hookVars, approvalVars, markVars>>
-----------------------------------------------------------------------------
\* the list without a model that is in it
Without(m) == RemoveAt(models, CHOOSE i \in DOMAIN models : models[i] = m)

\* Ids are fresh and names are unique.
CreateModel(m) ==
  /\ Call
  /\ m \notin ToSet(models) \cup dropped
  /\ \A x \in ToSet(models) : NameOf[x] # NameOf[m]
  /\ models' = <<m>> \o models
  /\ raised' = raised \cup {[kind |-> "created", model |-> m]}
  /\ Disturb /\ Others /\ UNCHANGED <<versions, dropped>>

UpdateModel(m) ==
  /\ Call
  /\ m \in ToSet(models)
  /\ models' = <<m>> \o Without(m)
  /\ Disturb /\ Others /\ UNCHANGED <<versions, raised, dropped>>

AddVersion(m) ==
  /\ Call
  /\ m \in ToSet(models) \ versions
  /\ versions' = versions \cup {m}
  /\ Disturb /\ Others /\ UNCHANGED <<models, raised, dropped>>

\* Refused by the foreign keys of approval requests and locks; versions and
\* favorites go with the model.  Bound: a restored model is not deleted again.
DeleteModel(m) ==
  /\ Call
  /\ m \in ToSet(models) \ (Referring \cup Locked \cup dropped)
  /\ models' = Without(m)
  /\ versions' = versions \ {m}
  /\ dropped' = dropped \cup {m}
  /\ raised' = raised \cup {[kind |-> "deleted", model |-> m]}
  /\ DropFavorites(m)
  /\ Disturb /\ UNCHANGED <<hookVars, approvalVars>>

\* The requests of Webhooks and Approvals.
HookRequest ==
  /\ Call
  /\ \E h \in Hooks : DeleteHook(h) \/ \E sub \in Subscriptions : CreateHook(h, sub)
  /\ UNCHANGED <<approvalVars, markVars, backupVars, rowVars, raised, dropped>>

ApprovalRequest ==
  /\ Call
  /\ \E c \in Deciders, i \in Approvals :
       \/ \E m \in ToSet(models), level \in {"l1", "l2", "l3"} : Submit(c, i, m, level)
       \/ \E verb \in {"approve", "reject"}, who \in Persons : Begin(c, verb, i, who)
  /\ UNCHANGED <<hookVars, markVars, backupVars, rowVars, raised, dropped>>

Decide ==
  /\ \E c \in Deciders : WriteApprove(c) \/ WriteReject(c)
  /\ UNCHANGED <<hookVars, markVars, backupVars, rowVars, raised, dropped, ops, restarts>>

MarkRequest ==
  /\ Call
  /\ \E k \in MarkKinds :
       Unmark(k) \/ \E c \in Adders : k.model \in ToSet(models) /\ FindNone(c, k)
  /\ UNCHANGED <<hookVars, approvalVars, backupVars, rowVars, raised, dropped>>

InsertMark ==
  /\ \E c \in Adders : Insert(c, ToSet(models))
  /\ UNCHANGED <<hookVars, approvalVars, backupVars, rowVars, raised, dropped, ops, restarts>>

\* A request dispatches its event once its transaction is committed.
DispatchRaised(e) ==
  /\ e \in raised
  /\ raised' = raised \ {e}
  /\ Dispatch(e, TenantOf[e.model])
  /\ UNCHANGED <<approvalVars, markVars, backupVars, rowVars, dropped, ops, restarts>>

DeliverStep(d) ==
  /\ Deliver(d)
  /\ UNCHANGED <<approvalVars, markVars, backupVars, rowVars, raised, dropped, ops, restarts>>

BackupStep ==
  /\ ReadVersions(versions) \/ ReadPage(models) \/ Write \/ WriteBreaks
  /\ UNCHANGED <<hookVars, approvalVars, markVars, rowVars, raised, dropped, ops, restarts>>
-----------------------------------------------------------------------------
\* The restore command works on the database of the running hub.
BeginRestore ==
  /\ Call
  /\ \E i \in DOMAIN files : RestoreRead(files[i], models, versions)
  /\ UNCHANGED <<hookVars, approvalVars, markVars, rowVars, raised, dropped>>

\* One transaction for the whole file: ids and names are unique, and a version
\* refers to a model.
Insertable ==
  LET all == ToSet(models) \cup restore.models
  IN /\ restore.models \cap ToSet(models) = {} /\ restore.versions \cap versions = {}
     /\ \A x, y \in all : NameOf[x] = NameOf[y] => x = y
     /\ restore.versions \subseteq all

RestoreCommit ==
  /\ restore.pc = "read" /\ Insertable
  /\ \E added \in SetToSeqs(restore.models) : models' = added \o models
  /\ versions' = versions \cup restore.versions
  /\ restore' = NotRestoring
  /\ backup' = [backup EXCEPT !.quiet = FALSE]
  /\ Others /\ UNCHANGED <<files, begun, completed, raised, dropped, ops, restarts>>

RestoreFails ==
  /\ restore.pc = "read" /\ ~Insertable
  /\ restore' = NotRestoring
  /\ Others /\ UNCHANGED <<backup, files, begun, completed, rowVars, raised, dropped, ops, restarts>>

\* The hub stops and starts: its tasks and the requests in flight are gone.
Restart ==
  /\ restarts < MaxRestarts /\ restarts' = restarts + 1
  /\ LoseDeliveries /\ UNCHANGED hooks
  /\ DropDecisions /\ DropAdders
  /\ StopBackup /\ UNCHANGED restore
  /\ raised' = {}
  /\ UNCHANGED <<rowVars, dropped, ops>>

Next ==
  \/ \E m \in Models : CreateModel(m) \/ UpdateModel(m) \/ AddVersion(m) \/ DeleteModel(m)
  \/ HookRequest \/ ApprovalRequest \/ Decide \/ MarkRequest \/ InsertMark
  \/ \E e \in Events : DispatchRaised(e)
  \/ \E d \in DOMAIN delivery : DeliverStep(d)
  \/ BackupStep \/ BeginRestore \/ RestoreCommit \/ RestoreFails \/ Restart

\* The event loop runs every ready task, and a request times out.
Fairness == \A d \in Hooks \X Events : WF_vars(DeliverStep(d))

Spec == Init /\ [][Next]_vars /\ Fairness
-----------------------------------------------------------------------------
\* An event that is on its way tells what was committed, and one about a
\* tenant's model goes to that tenant's webhooks only.
EventsTrue ==
  /\ \A e \in Events :
       e \in raised \/ (\E h \in Hooks : delivery[<<h, e>>].pc # "none") =>
         e.model \in dropped \/ (e.kind = "created" /\ e.model \in ToSet(models))
  /\ \A d \in DOMAIN delivery :
       delivery[d].pc # "none" =>
         TenantOf[d[2].model] \in {NoTenant, hooks[d[1]].sub.tenant}

\* An l3 request is approved only after a quorum of distinct people approved
\* it, in whatever order the calls read and write, unless one of them has a name
\* with a comma, which counts as several the next time (routers/approvals.py).
SignedByQuorum ==
  \A i \in Approvals :
    approval[i].level = "l3" /\ approval[i].st = "approved" =>
      Cardinality(signed[i]) >= Quorum \/ \E p \in signed[i] : ~Plain(p)

\* The last backup that completed, or a later one, is there whole, through
\* broken writes and rotation (server/backup.py).
NewestWhole == completed > 0 => \E i \in DOMAIN files : files[i].whole /\ files[i].n >= completed

\* A backup can be restored into an empty database as far as its versions are
\* concerned: each has its model in the file.
BackupClosed == \A i \in DOMAIN files : files[i].versions \subseteq ToSet(files[i].models)

\* The pages of a backup during which no row changed add up to the tables.
QuietWhole ==
  backup.pc = "writing" /\ backup.quiet => backup.models = models /\ backup.held = versions

BackupsTrue == NewestWhole /\ BackupClosed /\ QuietWhole

\* What refers to a model finds it, whatever order deletions and insertions
\* come in, and the look before adding leaves at most one row per call that
\* was under way at once.
ReferencesTrue ==
  /\ Referring \subseteq ToSet(models)
  /\ \A k \in MarkKinds : /\ marks[k] > 0 => k.model \in ToSet(models)
                         /\ marks[k] + Cardinality(Adding(k)) <= Cardinality(Adders)

CatalogTrue == TypeOK /\ EventsTrue /\ ReferencesTrue

\* Every delivery ends: its slot is held over the retries and given back.  The
\* bound on requests bounds the events, so that all have ended at some time.
EveryDeliveryEnds ==
  (\E d \in Hooks \X Events : Pending(d)) ~> (\A d \in Hooks \X Events : ~Pending(d))
=============================================================================
