---------------------------- MODULE ClusterNodes ----------------------------
(***************************************************************************)
(* Cluster nodes of one hub (server/routers/cluster.py): registration,     *)
(* heartbeats, the reaper of stale nodes, local-first inference routing    *)
(* with round-robin failover, and the push of a model to the cluster with  *)
(* the inbox that receives it on the peer.                                 *)
(*                                                                         *)
(* A handler that awaits is split where another request can run in         *)
(* between.  Ages replace timestamps: ClusterTick makes every heartbeat one  *)
(* unit older and saturates just past StaleAge, the only threshold the     *)
(* code compares with.                                                     *)
(***************************************************************************)
EXTENDS Naturals, FiniteSets, Sequences, SequencesExt

CONSTANTS NodeIds,    \* cluster_nodes ids; an id is used by one row only
          Calls,      \* requests to sync-model and route-inference in flight
          Listers,    \* requests to GET /cluster/nodes in flight
          SyncSets,   \* target_nodes a sync may name; {} asks for everything
          StaleAge,   \* _HEARTBEAT_STALE_SECONDS, in ticks
          Period      \* the request counter is kept modulo Period

LocalHub == "local"               \* the hub itself, as a sync names it
Targets  == NodeIds \cup {LocalHub}

ASSUME ClusterAssumption ==
  /\ IsFiniteSet(NodeIds) /\ LocalHub \notin NodeIds
  /\ SyncSets \subseteq SUBSET Targets /\ {} \in SyncSets
  /\ Calls \cap Listers = {}
  /\ StaleAge \in Nat
  /\ Period \in Nat \ {0}
  /\ \A k \in 1..Cardinality(NodeIds) : Period % k = 0

VARIABLES created,    \* the created_at column: the how-manieth row it was
          status,     \* the status column; "none" before the row, "gone" after
          beat,       \* age of last_heartbeat
          beating,    \* heartbeat handler of a node: the status it loaded
          counter,    \* _round_robin_counter, modulo Period
          call,       \* the request in each slot
          rotation    \* history: the last starts over an unchanged active set

clusterVars == <<created, status, beat, beating, counter, call, rotation>>

NoBeat  == StaleAge + 2           \* last_heartbeat IS NULL
Beats   == 0..NoBeat

NoCall == [at |-> "idle", kind |-> "none", dead |-> {}, targets |-> {},
           queue |-> <<>>, untried |-> {}, took |-> {}, ok |-> 0]

CallType ==
  [at : {"idle", "reap", "relist", "local", "list", "push", "try",
         "accepted", "refused", "served", "error", "unavailable"},
   kind : {"none", "nodes", "sync", "route"},
   dead : SUBSET NodeIds,         \* "reap": the rows read as stale
   targets : SyncSets,
   queue : Seq(NodeIds),
   untried : SUBSET NodeIds,      \* history: listed for this call, not tried
   took : SUBSET Targets,         \* history: engines that took the model
   ok : Nat]

Final == {"accepted", "refused", "served", "error", "unavailable"}

\* The table, and the ids that are or were in it.
Registered == {n \in NodeIds : status[n] \in {"active", "inactive"}}
Ever       == {n \in NodeIds : status[n] # "none"}

ClusterTypeOK ==
  /\ status \in [NodeIds -> {"none", "active", "inactive", "gone"}]
  /\ created \in [NodeIds -> Nat]
  /\ beat \in [NodeIds -> Beats]
  /\ beating \in [NodeIds -> {"idle", "active", "inactive"}]
  /\ counter \in 0..(Period - 1)
  /\ call \in [Calls \cup Listers -> CallType]
  /\ rotation \in [set : SUBSET NodeIds, starts : Seq(NodeIds)]

\* No two rows were created at the same time.
CreatedInTurn ==
  \A n \in Ever : /\ created[n] \in 1..Cardinality(Ever)
                 /\ \A m \in Ever : created[m] = created[n] => m = n

ClusterInit ==
  /\ created = [n \in NodeIds |-> 0]
  /\ status = [n \in NodeIds |-> "none"]
  /\ beat = [n \in NodeIds |-> NoBeat]
  /\ beating = [n \in NodeIds |-> "idle"]
  /\ counter = 0
  /\ call = [c \in Calls \cup Listers |-> NoCall]
  /\ rotation = [set |-> {}, starts |-> <<>>]

-----------------------------------------------------------------------------
(* Which rows count as active                                              *)

Stale(n) == beat[n] = StaleAge + 1

\* _effective_status: a row that never beat keeps its status column.
EffectivelyActive(n) == status[n] = "active" /\ ~Stale(n)

ActiveNodes == {n \in NodeIds : EffectivelyActive(n)}
Corpses     == {n \in NodeIds : status[n] = "active" /\ Stale(n)}

\* The place of a node in a list of nodes S, and the list:
\* ORDER BY created_at DESC.
Place(n, S)    == Cardinality({m \in S : created[m] >= created[n]})
NewestFirst(S) == [i \in 1..Cardinality(S) |-> CHOOSE n \in S : Place(n, S) = i]

\* The active remotes in table order, as the topology lists them.
Fallbacks == NewestFirst(ActiveNodes)

\* Mutant: the rotated list is not wrapped around.
RotateNoWrap(s, offset) == SubSeq(s, offset + 1, Len(s))

\* active[offset:] + active[:offset]
Rotate(s, offset) ==
  SubSeq(s, offset + 1, Len(s)) \o SubSeq(s, 1, offset)

SetCall(c, r) == call' = [call EXCEPT ![c] = r]

-----------------------------------------------------------------------------
(* Rows and heartbeats                                                     *)

AddNode(n) ==
  /\ status[n] = "none"
  /\ created' = [created EXCEPT ![n] = Cardinality(Ever) + 1]
  /\ status' = [status EXCEPT ![n] = "active"]
  /\ UNCHANGED <<beat, beating, counter, call, rotation>>

DeleteNode(n) ==
  /\ n \in Registered
  /\ status' = [status EXCEPT ![n] = "gone"]
  /\ beat' = [beat EXCEPT ![n] = NoBeat]
  /\ UNCHANGED <<created, beating, counter, call, rotation>>

HeartbeatLoad(n) ==
  /\ beating[n] = "idle"
  /\ n \in Registered
  /\ beating' = [beating EXCEPT ![n] = status[n]]
  /\ UNCHANGED <<created, status, beat, counter, call, rotation>>

\* Mutant: a heartbeat renews the timestamp only.
HeartbeatTimeOnly(n) ==
  /\ beating[n] # "idle"
  /\ beating' = [beating EXCEPT ![n] = "idle"]
  /\ beat' = [beat EXCEPT ![n] = IF n \in Registered THEN 0 ELSE @]
  /\ UNCHANGED <<created, status, counter, call, rotation>>

\* The ORM writes the columns that changed since the load: a status that was
\* loaded as active is not written again.  A row deleted meanwhile makes the
\* commit fail.
HeartbeatCommit(n) ==
  /\ beating[n] # "idle"
  /\ beating' = [beating EXCEPT ![n] = "idle"]
  /\ IF n \in Registered
       THEN /\ beat' = [beat EXCEPT ![n] = 0]
            /\ status' = IF beating[n] = "inactive"
                           THEN [status EXCEPT ![n] = "active"] ELSE status
       ELSE UNCHANGED <<beat, status>>
  /\ UNCHANGED <<created, counter, call, rotation>>

ClusterTick ==
  /\ beat' = [n \in NodeIds |-> IF beat[n] <= StaleAge THEN beat[n] + 1 ELSE beat[n]]
  /\ UNCHANGED <<created, status, beating, counter, call, rotation>>

-----------------------------------------------------------------------------
(* _reap_stale_nodes, called by GET /cluster/nodes and by sync-model       *)

\* After the reaper a listing is answered, and a sync lists the nodes again.
Reaped(r) == IF r.kind = "nodes" THEN NoCall
             ELSE [NoCall EXCEPT !.at = "relist", !.kind = r.kind, !.targets = r.targets]

ReapRead(c, kind, targets) ==
  /\ call[c].at = "idle"
  /\ LET r == [NoCall EXCEPT !.at = "reap", !.kind = kind, !.targets = targets,
                             !.dead = Corpses]
     IN SetCall(c, IF Corpses = {} THEN Reaped(r) ELSE r)
  /\ UNCHANGED <<created, status, beat, beating, counter, rotation>>

\* The UPDATE names the rows read as stale, whatever they say by now; a row
\* deleted since makes the flush fail and the request with it.
ReapWrite(c) ==
  LET dead == call[c].dead
  IN /\ call[c].at = "reap"
     /\ IF dead \subseteq Registered
          THEN /\ status' = [n \in NodeIds |-> IF n \in dead THEN "inactive" ELSE status[n]]
               /\ SetCall(c, Reaped(call[c]))
          ELSE SetCall(c, NoCall) /\ UNCHANGED status
     /\ UNCHANGED <<created, beat, beating, counter, rotation>>

-----------------------------------------------------------------------------
(* sync-model, and the inbox of the peer hub                               *)

\* The second listing is a read of its own, which sees what was committed since
\* the reaper's: the active nodes that were asked for are left.
SyncList(c) ==
  LET to == {n \in ActiveNodes : call[c].targets = {} \/ n \in call[c].targets}
  IN /\ call[c].at = "relist"
     /\ SetCall(c, [call[c] EXCEPT !.at = "local", !.queue = NewestFirst(to), !.untried = to])
     /\ UNCHANGED <<created, status, beat, beating, counter, rotation>>

\* The load on the hub's own engine, if it is wanted and its health check
\* answers: taken (200, 409, or the chat that a 404 falls back to) or not;
\* the answer to a load that happened may be lost.
SyncLocal(c) ==
  LET want == call[c].targets = {} \/ LocalHub \in call[c].targets
      next == [call[c] EXCEPT !.at = "push", !.targets = {}]
  IN /\ call[c].at = "local" /\ call[c].kind = "sync"
     /\ \/ SetCall(c, next)
        \/ want /\ \E ok \in {0, 1} : SetCall(c, [next EXCEPT !.took = {LocalHub}, !.ok = ok])
     /\ UNCHANGED <<created, status, beat, beating, counter, rotation>>

\* Mutant: the inbox accepts whatever its engine said.
InboxAccepts == {[took |-> TRUE, code |-> 200], [took |-> FALSE, code |-> 200]}

\* remote_sync_inbox on the peer: 200 once the peer's engine took the model,
\* 404, 502 or 503 otherwise.
Inbox == {[took |-> TRUE, code |-> 200], [took |-> FALSE, code |-> 502]}

\* One POST: what the inbox answers, or no answer at all although the peer
\* may have loaded the model.
SyncPush(c) ==
  LET n == Head(call[c].queue)
      after(took, ok) ==
        [call[c] EXCEPT !.queue = Tail(@), !.untried = @ \ {n},
                        !.took = IF took THEN @ \cup {n} ELSE @,
                        !.ok = IF ok THEN @ + 1 ELSE @]
  IN /\ call[c].at = "push" /\ call[c].queue # <<>>
     /\ \E reply \in Inbox, lost \in BOOLEAN :
          SetCall(c, after(reply.took, ~lost /\ reply.code = 200))
     /\ UNCHANGED <<created, status, beat, beating, counter, rotation>>

SyncAnswer(c) ==
  /\ call[c].at = "push" /\ call[c].queue = <<>>
  /\ SetCall(c, [call[c] EXCEPT !.at = IF call[c].ok > 0 THEN "accepted" ELSE "refused"])
  /\ UNCHANGED <<created, status, beat, beating, counter, rotation>>

-----------------------------------------------------------------------------
(* route-inference                                                         *)

\* mode "cluster" skips the local engine; "local" and "auto" use it when its
\* health check answers, and list the cluster when it does not.
RouteStart(c) ==
  /\ call[c].at = "idle"
  /\ \E mode \in {"auto", "local", "cluster"}, alive \in BOOLEAN :
       SetCall(c, [NoCall EXCEPT !.kind = "route",
                 !.at = IF alive /\ mode # "cluster" THEN "local" ELSE "list"])
  /\ UNCHANGED <<created, status, beat, beating, counter, rotation>>

\* The local chat answers, fails with an error that ends the request (refused
\* connection, HTTP status), or with one that falls through (a timeout).
RouteLocal(c) ==
  /\ call[c].at = "local" /\ call[c].kind = "route"
  /\ \E next \in {"served", "error", "list"} : SetCall(c, [call[c] EXCEPT !.at = next])
  /\ UNCHANGED <<created, status, beat, beating, counter, rotation>>

RouteList(c) ==
  LET k      == Len(Fallbacks)
      queue  == Rotate(Fallbacks, counter % k)
      before == IF rotation.set # ActiveNodes THEN <<>>
                ELSE IF Len(rotation.starts) = k THEN Tail(rotation.starts)
                ELSE rotation.starts
  IN /\ call[c].at = "list"
     /\ IF k = 0
          THEN /\ SetCall(c, [call[c] EXCEPT !.at = "try"])
               /\ UNCHANGED <<counter, rotation>>
          ELSE /\ SetCall(c, [call[c] EXCEPT !.at = "try", !.queue = queue,
                                             !.untried = ActiveNodes])
               /\ counter' = (counter + 1) % Period
               /\ rotation' = [set |-> ActiveNodes, starts |-> Append(before, Head(queue))]
     /\ UNCHANGED <<created, status, beat, beating>>

\* The chat on the next node answers, or fails and the loop goes on.
RouteTry(c) ==
  LET next == [call[c] EXCEPT !.queue = Tail(@), !.untried = @ \ {Head(call[c].queue)}]
  IN /\ call[c].at = "try" /\ call[c].queue # <<>>
     /\ \/ SetCall(c, next)
        \/ SetCall(c, [next EXCEPT !.at = "served", !.queue = <<>>])
     /\ UNCHANGED <<created, status, beat, beating, counter, rotation>>

RouteGiveUp(c) ==
  /\ call[c].at = "try" /\ call[c].queue = <<>>
  /\ SetCall(c, [call[c] EXCEPT !.at = "unavailable"])
  /\ UNCHANGED <<created, status, beat, beating, counter, rotation>>

\* The response leaves; the slot is free for the next request.
Return(c) ==
  /\ call[c].at \in Final
  /\ SetCall(c, NoCall)
  /\ UNCHANGED <<created, status, beat, beating, counter, rotation>>

-----------------------------------------------------------------------------

Proceed(c) ==
  \/ ReapWrite(c) \/ SyncList(c) \/ SyncLocal(c) \/ SyncPush(c) \/ SyncAnswer(c)
  \/ RouteLocal(c) \/ RouteList(c) \/ RouteTry(c) \/ RouteGiveUp(c) \/ Return(c)

Request(c) == RouteStart(c) \/ \E t \in SyncSets : ReapRead(c, "sync", t)

ClusterNext ==
  \/ \E n \in NodeIds : AddNode(n) \/ DeleteNode(n) \/ HeartbeatLoad(n) \/ HeartbeatCommit(n)
  \/ ClusterTick
  \/ \E c \in Calls : Request(c) \/ Proceed(c)
  \/ \E c \in Listers : ReapRead(c, "nodes", {}) \/ ReapWrite(c)

ClusterSpec == ClusterInit /\ [][ClusterNext]_clusterVars

\* A registered node beats on: its timer is its own, whatever the hub does.
ClusterFairSpec ==
  ClusterSpec /\ \A n \in NodeIds : WF_clusterVars(HeartbeatLoad(n)) /\ WF_clusterVars(HeartbeatCommit(n))

-----------------------------------------------------------------------------
(* Properties                                                              *)

\* A request is turned away only after every node that was active when it
\* listed them has been tried: neither rotation nor failover loses one.
NoNodeLeftUntried ==
  \A c \in Calls : call[c].at \in {"unavailable", "refused"} => call[c].untried = {}

\* Round robin: while the set of active nodes stays the same, any k requests
\* in a row start at k different nodes, k being the size of the set.
EvenStarts == IsInjective(rotation.starts)

\* Routing loses no node, whichever requests, reaps and deletions interleave.
RoutesWell == ClusterTypeOK /\ CreatedInTurn /\ NoNodeLeftUntried /\ EvenStarts

\* sync-model reports success only if some engine took the model during the
\* call, and never counts more acceptances than engines that took it.
SyncReportsTruth ==
  \A c \in Calls :
    /\ call[c].ok <= Cardinality(call[c].took)
    /\ call[c].at = "accepted" => call[c].took # {}

\* The reaper may write "inactive" over a heartbeat it did not see, and a
\* heartbeat may leave that status alone; a node that keeps beating is
\* nevertheless listed as active again, or its row is gone.
WrongfullyReapedReturns ==
  \A n \in NodeIds : status[n] = "inactive" ~> status[n] \in {"active", "gone"}
=============================================================================
