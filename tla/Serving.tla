------------------------------ MODULE Serving -------------------------------
(***************************************************************************)
(* What the hub believes about loaded models and what the engines hold:    *)
(* the inference proxy with its table of loaded models and its TTL sweep   *)
(* (server/routers/inference.py), and deployments on the hub's own engine  *)
(* or on a cluster node (server/routers/deployments.py).                   *)
(*                                                                         *)
(* Engines (Fusion-MLX) are external: a load may be taken or not, an       *)
(* unload may fail, a chat on a model that is not loaded fails or loads    *)
(* it, and an engine may drop a model.  Requests are split at awaits.      *)
(* A model keeps its name: a PATCH of hf_repo is not modelled.             *)
(***************************************************************************)
EXTENDS Naturals, FiniteSets

CONSTANTS Models, Versions,
          NameOf,        \* what the engines call a model: its hf_repo, which
                         \* models may share, or else its name
          Nodes,         \* cluster nodes; ClusterNodes models their rows
          Deps,          \* deployment ids
          Slots,         \* requests in flight
          Ttl,           \* _get_model_idle_ttl, in ticks
          SweepEvery     \* _CLEANUP_MIN_INTERVAL, in ticks

ASSUME ServingAssumption == Ttl \in Nat /\ SweepEvery \in Nat

VARIABLES entry,      \* _loaded_models: Absent, or the record of the model
          lock,       \* _loaded_lock: the slot that holds it, or None
          swept,      \* age of _last_cleanup_ts
          tracked,    \* the models with a record in _model_stats
          pinned,     \* models.pinned
          dep,        \* the deployments table
          registered, \* nodes that have a row
          engine,     \* what each engine holds
          req,        \* the request in each slot
          earned,     \* history: what made a deployment RUNNING, an engine or
                      \* the operator
          outside,    \* history: models whose weights a deployment or the
                      \* engine itself took off the hub's engine
          overtaken   \* history: models whose weights a request for another
                      \* record, or one that another had overtaken, unloaded

hub  == <<entry, lock, swept, tracked>>
rows == <<pinned, dep, registered, earned>>
mlx  == <<engine, outside, overtaken>>
vars == <<entry, lock, swept, tracked, pinned, dep, registered, engine, req,
          earned, outside, overtaken>>

None    == "none"
Local   == "local"
Engines == Nodes \cup {Local}
Names   == {NameOf[m] : m \in Models}
Status  == {"pending", "running", "stopped", "failed"}
Entry   == [ver : Versions, age : 0..(Ttl + 1), scanned : BOOLEAN]
Absent  == [ver |-> None, age |-> 0, scanned |-> FALSE]

ASSUME NamesAssumption == None \notin Models \cup Versions \cup Nodes \cup Deps \cup Slots

\* gray: the model whose version takes part of the traffic, or None
Row(m, n) == [model |-> m, node |-> n, status |-> "pending", gray |-> None]
NoRow == [model |-> None, node |-> None, status |-> "none", gray |-> None]
Rows == [model : Models, node : Engines, status : Status, gray : Models \cup {None}]

Idle == [op |-> "idle", m |-> None, v |-> None, d |-> None, e |-> None,
         todo |-> {}, expired |-> {}, shield |-> {}]

TypeOK ==
  /\ entry \in [Models -> Entry \cup {Absent}]
  /\ lock \in Slots \cup {None}
  /\ swept \in 0..SweepEvery
  /\ tracked \subseteq Models
  /\ pinned \subseteq Models
  /\ dep \in [Deps -> Rows \cup {NoRow}]
  /\ registered \subseteq Nodes
  /\ engine \in [Engines -> SUBSET Names]
  /\ earned \in [Deps -> Engines \cup {None, "operator"}]
  /\ outside \subseteq Models /\ overtaken \subseteq Models
  /\ \A s \in Slots :
       /\ lock = s <=> req[s].op \in {"scan", "pop"}
       /\ req[s].expired \subseteq {m \in Models : entry[m] # Absent}

Init ==
  /\ entry = [m \in Models |-> Absent]
  /\ lock = None
  /\ swept = SweepEvery
  /\ tracked = {}
  /\ pinned = {}
  /\ dep = [d \in Deps |-> NoRow]
  /\ registered = Nodes
  /\ engine = [e \in Engines |-> {}]
  /\ req = [s \in Slots |-> Idle]
  /\ earned = [d \in Deps |-> None]
  /\ outside = {} /\ overtaken = {}

-----------------------------------------------------------------------------
(* Helpers                                                                 *)

Loaded(m) == entry[m] # Absent
Fresh(v)  == [ver |-> v, age |-> 0, scanned |-> FALSE]
Set(s, r) == req' = [req EXCEPT ![s] = r]
Goto(s, op) == Set(s, [req[s] EXCEPT !.op = op])
Done(s)   == Set(s, Idle)
Ask(s, op, m) == Set(s, [Idle EXCEPT !.op = op, !.m = m])

\* _update_model_stats and update_deployment.
Count(m)        == tracked' = tracked \cup {m}
Update(d, f, v) == dep' = [dep EXCEPT ![d][f] = v]

\* The models that an engine knows by the name of m.
Alike(m) == {x \in Models : NameOf[x] = NameOf[m]}

\* A load that the engine took.
Load(e, m) ==
  /\ engine' = [engine EXCEPT ![e] = @ \cup {NameOf[m]}]
  /\ IF e = Local THEN outside' = outside \ Alike(m) /\ overtaken' = overtaken \ Alike(m)
                  ELSE UNCHANGED <<outside, overtaken>>

\* Somebody has loaded m and is about to write the record of it.
Booking(m) == \E x \in Slots : req[x].m = m /\ req[x].op \in {"install", "swap"}

\* An unload, by name: a failure is only logged.  A deployment drops no record
\* for it; a request drops the one of m, as soon as it can.
Unload(s, e, m) ==
  \/ UNCHANGED mlx
  \/ /\ engine' = [engine EXCEPT ![e] = @ \ {NameOf[m]}]
     /\ IF e = Local /\ req[s].op \in {"stop", "delete"}
          THEN outside' = outside \cup Alike(m) ELSE UNCHANGED outside
     /\ IF e = Local /\ req[s].op \notin {"stop", "delete"}
          THEN overtaken' = overtaken \cup {x \in Alike(m) : x # m \/ Booking(x)}
          ELSE UNCHANGED overtaken

\* _resolve_node_url: a node without a row falls back to the hub's own engine.
Url(n) == IF n \in registered THEN n ELSE Local

\* The versions of the gray releases that a request for m may fall on, each
\* as the model whose weights it names; nothing checks that it is m.
GrayOf(m) ==
  {dep[d].gray : d \in {x \in Deps : /\ dep[x] # NoRow
                                     /\ dep[x].model = m
                                     /\ dep[x].status = "running"
                                     /\ dep[x].gray # None}}

-----------------------------------------------------------------------------
(* Serve and hot-reload                                                    *)

\* The checks that end in an error leave no trace; the version is one that
\* passed them.
Serve(s) ==
  /\ req[s] = Idle
  /\ \E m \in Models, v \in Versions :
       Set(s, [Idle EXCEPT !.op = "serve", !.m = m, !.v = v])
  /\ UNCHANGED <<hub, rows, mlx>>

\* The entry is looked at without the lock, before the load.
HotReload(s) ==
  /\ req[s] = Idle
  /\ \E m \in Models, v \in Versions :
       /\ Loaded(m) /\ entry[m].ver # v
       /\ Set(s, [Idle EXCEPT !.op = "reload", !.m = m, !.v = v])
  /\ UNCHANGED <<hub, rows, mlx>>

\* A load request: taken, refused, or taken without an answer.
PostLoad(s, next) ==
  /\ \/ Load(Local, req[s].m) /\ Goto(s, next)
     \/ Load(Local, req[s].m) /\ Done(s)
     \/ UNCHANGED mlx /\ Done(s)
  /\ UNCHANGED <<hub, rows>>

\* A serve takes 409, the answer for a loaded model, as an error; a hot-reload
\* takes it as a success.
ServeLoad(s)  == req[s].op = "serve" /\ PostLoad(s, "install")
ReloadLoad(s) == req[s].op = "reload" /\ PostLoad(s, "swap")

Record(s) == entry' = [entry EXCEPT ![req[s].m] = Fresh(req[s].v)]

\* Mutant: the entry is written without waiting for the lock.
InstallUnlocked(s) ==
  /\ req[s].op = "install"
  /\ Record(s)
  /\ IF swept = SweepEvery THEN Set(s, [Idle EXCEPT !.op = "sweep"]) ELSE Done(s)
  /\ UNCHANGED <<rows, mlx, lock, swept, tracked>>

\* Under the lock; then the sweep, unless one ran inside the window.
Install(s) ==
  /\ req[s].op = "install" /\ lock = None
  /\ Record(s)
  /\ IF swept = SweepEvery THEN Set(s, [Idle EXCEPT !.op = "sweep"]) ELSE Done(s)
  /\ UNCHANGED <<rows, mlx, lock, swept, tracked>>

\* Under the lock; then the webhook.
Swap(s) ==
  /\ req[s].op = "swap" /\ lock = None
  /\ Record(s)
  /\ Done(s)
  /\ UNCHANGED <<rows, mlx, lock, swept, tracked>>

-----------------------------------------------------------------------------
(* The TTL sweep, holding the lock over its awaits                         *)

\* The lock is taken, behind requests that waited for it; the window is not
\* looked at again.  Ages are measured against this moment.
SweepBegin(s) ==
  /\ req[s].op = "sweep" /\ lock = None
  /\ lock' = s
  /\ Set(s, [Idle EXCEPT !.op = "scan", !.shield = pinned,
               !.todo = {m \in Models : Loaded(m) /\ entry[m].age > Ttl}])
  /\ UNCHANGED <<rows, mlx, entry, swept, tracked>>

\* A query for the pin that fails reads as not pinned.
Scan(s) ==
  /\ req[s].op = "scan" /\ req[s].todo # {}
  /\ \E m \in req[s].todo :
       \/ /\ m \in pinned
          /\ Set(s, [req[s] EXCEPT !.todo = @ \ {m}])
          /\ UNCHANGED entry
       \/ \E failed \in BOOLEAN :
            /\ m \in pinned => failed
            /\ Set(s, [req[s] EXCEPT !.todo = @ \ {m}, !.expired = @ \cup {m},
                                     !.shield = IF failed THEN @ \ {m} ELSE @])
            /\ entry' = [entry EXCEPT ![m].scanned = TRUE]
  /\ UNCHANGED <<rows, mlx, lock, swept, tracked>>

Evict(s) ==
  /\ req[s].op = "scan" /\ req[s].todo = {} /\ req[s].expired # {}
  /\ \E m \in req[s].expired :
       IF entry[m].scanned
         THEN Unload(s, Local, m) /\ Set(s, [req[s] EXCEPT !.op = "pop", !.m = m])
         ELSE UNCHANGED mlx /\ Set(s, [req[s] EXCEPT !.expired = @ \ {m}])
  /\ UNCHANGED <<hub, rows>>

EvictPop(s) ==
  LET m == req[s].m
  IN /\ req[s].op = "pop"
     /\ entry' = [entry EXCEPT ![m] = Absent]
     /\ tracked' = tracked \ {m}
     /\ Set(s, [req[s] EXCEPT !.op = "scan", !.m = None, !.expired = @ \ {m}])
     /\ UNCHANGED <<rows, mlx, lock, swept>>

SweepDone(s) ==
  /\ req[s].op = "scan" /\ req[s].todo = {} /\ req[s].expired = {}
  /\ swept' = 0
  /\ lock' = None
  /\ Done(s)
  /\ UNCHANGED <<rows, mlx, entry, tracked>>

-----------------------------------------------------------------------------
(* Unload, pin, inference                                                  *)

UnloadStart(s) ==
  /\ req[s] = Idle /\ lock = None
  /\ \E m \in Models : Loaded(m) /\ Ask(s, "unload", m)
  /\ UNCHANGED <<hub, rows, mlx>>

UnloadSend(s) ==
  /\ req[s].op = "unload"
  /\ Unload(s, Local, req[s].m)
  /\ Goto(s, "forget")
  /\ UNCHANGED <<hub, rows>>

UnloadPop(s) ==
  /\ req[s].op = "forget" /\ lock = None
  /\ entry' = [entry EXCEPT ![req[s].m] = Absent]
  /\ tracked' = tracked \ {req[s].m}
  /\ Done(s)
  /\ UNCHANGED <<rows, mlx, lock, swept>>

Pin(m) ==
  /\ pinned' = pinned \cup {m}
  /\ UNCHANGED <<hub, mlx, req, dep, registered, earned>>

\* What a sweep saw pinned when it began is no longer shielded.
Unpin(m) ==
  /\ pinned' = pinned \ {m}
  /\ req' = [s \in Slots |-> [req[s] EXCEPT !.shield = @ \ {m}]]
  /\ UNCHANGED <<hub, mlx, dep, registered, earned>>

\* The table is read without the lock, and the request waits for the engine.
AskEngine(s, m, target) ==
  /\ req[s] = Idle
  /\ Loaded(m)
  /\ Set(s, [Idle EXCEPT !.op = "ask", !.m = m, !.v = target])
  /\ UNCHANGED <<hub, rows, mlx>>

\* Traffic may be diverted to a gray version, but not that of embeddings.
Chat(s)       == \E m \in Models : \E t \in GrayOf(m) \cup {m} : AskEngine(s, m, t)
Completion(s) == \E m \in Models : \E t \in GrayOf(m) \cup {m} : AskEngine(s, m, t)
Embedding(s)  == \E m \in Models : AskEngine(s, m, m)

Answer(s) ==
  /\ req[s].op = "ask"
  /\ \/ /\ Load(Local, req[s].v)
        /\ Count(req[s].m)
     \/ UNCHANGED <<mlx, tracked>>
  /\ Done(s)
  /\ UNCHANGED <<rows, entry, lock, swept>>

-----------------------------------------------------------------------------
(* Deployments                                                             *)

\* The node must have a row that is effectively active; the load comes first.
Deploy(s) ==
  /\ req[s] = Idle
  /\ \E m \in Models, n \in registered \cup {Local}, d \in Deps :
       /\ dep[d] = NoRow /\ \A x \in Slots : req[x].d # d
       /\ Set(s, [Idle EXCEPT !.op = "deploy", !.m = m, !.e = n, !.d = d])
  /\ UNCHANGED <<hub, rows, mlx>>

\* Mutant: the model lands on the hub's own engine whatever node was asked for.
DeployLoadLocal(s) ==
  /\ req[s].op = "deploy"
  /\ \/ Load(Local, req[s].m) /\ Set(s, [req[s] EXCEPT !.op = "create", !.v = Local])
     \/ UNCHANGED mlx /\ Goto(s, "create")
  /\ UNCHANGED <<hub, rows>>

\* _load_model_via_mlx at the URL of the node: 200, 409 or the chat that a
\* 404 falls back to count as taken, anything else as not, loaded or not.
DeployLoad(s) ==
  LET e == req[s].e
  IN /\ req[s].op = "deploy"
     /\ \/ Load(e, req[s].m) /\ Set(s, [req[s] EXCEPT !.op = "create", !.v = e])
        \/ (UNCHANGED mlx \/ Load(e, req[s].m)) /\ Goto(s, "create")
     /\ UNCHANGED <<hub, rows>>

DeployCreate(s) ==
  /\ req[s].op = "create"
  /\ dep' = [dep EXCEPT ![req[s].d] = Row(req[s].m, req[s].e)]
  /\ Goto(s, "mark")
  /\ UNCHANGED <<hub, mlx, pinned, registered, earned>>

\* A second commit; a row deleted in between leaves nothing to update.
DeployMark(s) ==
  LET d == req[s].d
      loaded == req[s].v # None
  IN /\ req[s].op = "mark"
     /\ IF dep[d] = NoRow THEN UNCHANGED <<dep, earned>>
        ELSE /\ Update(d, "status", IF loaded THEN "running" ELSE "pending")
             /\ earned' = [earned EXCEPT ![d] = req[s].v]
     /\ Done(s)
     /\ UNCHANGED <<hub, mlx, pinned, registered>>

Patch(d) ==
  /\ dep[d] # NoRow
  /\ \E st \in Status : Update(d, "status", st)
  /\ earned' = [earned EXCEPT ![d] = IF dep'[d].status = "running" THEN "operator" ELSE None]
  /\ UNCHANGED <<hub, mlx, req, pinned, registered>>

Gray(d) ==
  /\ dep[d] # NoRow
  /\ \E g \in Models \cup {None} : Update(d, "gray", g)
  /\ UNCHANGED <<hub, mlx, req, pinned, registered, earned>>

\* Replicas are a number only: what scaling does is load the model once more,
\* on the hub's own engine whatever node the deployment names.
Scale(s) ==
  /\ req[s] = Idle
  /\ \E d \in Deps : /\ dep[d] # NoRow /\ dep[d].status = "running"
                     /\ Ask(s, "scale", dep[d].model)
  /\ UNCHANGED <<hub, rows, mlx>>

ScaleLoad(s) ==
  /\ req[s].op = "scale"
  /\ UNCHANGED mlx \/ Load(Local, req[s].m)
  /\ Done(s)
  /\ UNCHANGED <<hub, rows>>

Withdraw(s, op) ==
  /\ req[s] = Idle
  /\ \E d \in Deps :
       /\ dep[d] # NoRow
       /\ Set(s, [Idle EXCEPT !.op = op, !.d = d, !.m = dep[d].model,
                              !.e = Url(dep[d].node)])
  /\ UNCHANGED <<hub, rows, mlx>>

\* The model is unloaded whoever else uses it there, then the row is written.
WithdrawUnload(s) ==
  /\ req[s].op \in {"stop", "delete"}
  /\ Unload(s, req[s].e, req[s].m)
  /\ Goto(s, IF req[s].op = "stop" THEN "stopped" ELSE "deleted")
  /\ UNCHANGED <<hub, rows>>

WithdrawMark(s) ==
  LET d == req[s].d
  IN /\ req[s].op \in {"stopped", "deleted"}
     /\ dep' = IF dep[d] = NoRow THEN dep
               ELSE IF req[s].op = "deleted" THEN [dep EXCEPT ![d] = NoRow]
               ELSE [dep EXCEPT ![d].status = "stopped"]
     /\ earned' = [earned EXCEPT ![d] = None]
     /\ Done(s)
     /\ UNCHANGED <<hub, mlx, pinned, registered>>

-----------------------------------------------------------------------------
(* The rest of the world                                                   *)

RemoveNode(n) ==
  /\ registered' = registered \ {n}
  /\ UNCHANGED <<hub, mlx, req, pinned, dep, earned>>

EngineDrops(e) ==
  /\ engine' = [engine EXCEPT ![e] = {}]
  /\ outside' = IF e = Local THEN outside \cup {m \in Models : NameOf[m] \in engine[Local]}
                              ELSE outside
  /\ UNCHANGED <<hub, rows, req, overtaken>>

Tick ==
  /\ entry' = [m \in Models |-> IF Loaded(m) /\ entry[m].age <= Ttl
                                  THEN [entry[m] EXCEPT !.age = @ + 1] ELSE entry[m]]
  /\ swept' = IF swept < SweepEvery THEN swept + 1 ELSE swept
  /\ UNCHANGED <<rows, mlx, req, lock, tracked>>

\* The process ends and starts again: its tables and requests are gone, the
\* engines and the database are not.
Restart ==
  /\ entry' = [m \in Models |-> Absent]
  /\ lock' = None
  /\ swept' = SweepEvery
  /\ tracked' = {}
  /\ req' = [s \in Slots |-> Idle]
  /\ UNCHANGED <<rows, mlx>>

Next ==
  \/ \E s \in Slots :
       \/ Serve(s) \/ ServeLoad(s) \/ Install(s)
       \/ HotReload(s) \/ ReloadLoad(s) \/ Swap(s)
       \/ SweepBegin(s) \/ Scan(s) \/ Evict(s) \/ EvictPop(s) \/ SweepDone(s)
       \/ UnloadStart(s) \/ UnloadSend(s) \/ UnloadPop(s)
       \/ Chat(s) \/ Completion(s) \/ Embedding(s) \/ Answer(s)
       \/ Deploy(s) \/ DeployLoad(s) \/ DeployCreate(s) \/ DeployMark(s)
       \/ Scale(s) \/ ScaleLoad(s)
       \/ Withdraw(s, "stop") \/ Withdraw(s, "delete")
       \/ WithdrawUnload(s) \/ WithdrawMark(s)
  \/ \E m \in Models : Pin(m) \/ Unpin(m)
  \/ \E d \in Deps : Patch(d) \/ Gray(d)
  \/ \E n \in Nodes : RemoveNode(n)
  \/ \E e \in Engines : EngineDrops(e)
  \/ Tick \/ Restart

Spec == Init /\ [][Next]_vars

-----------------------------------------------------------------------------
(* Properties                                                              *)

Evicting(s, m) == req[s].op = "pop" /\ req[s].m = m /\ Loaded(m) /\ entry'[m] = Absent

\* The sweep removes only the record it measured: one installed by a serve or
\* a hot-reload since then survives it. And it evicts no model that was pinned
\* when it began, stayed pinned, and whose pin it could read.
SweepIsFair ==
  [][\A s \in Slots, m \in Models :
       Evicting(s, m) => entry[m].scanned /\ m \notin req[s].shield]_vars

\* A deployment reads RUNNING only if the engine of the node it names took
\* its model, or an operator wrote the status.
RunningWasLoaded ==
  \A d \in Deps :
    dep[d].status = "running" => earned[d] \in {dep[d].node, "operator"}

\* A record without weights on the hub's engine has one of three reasons. The
\* request that unloaded them is about to drop it; the engine or a deployment
\* took them away; or, the hub's own race, they were unloaded between the load
\* and its record, or for another record of the same name. No failed or unsure
\* load, no failed unload, no sweep, hot-reload or restart leaves one otherwise.
TableTruth ==
  \A m \in Models : Loaded(m) /\ NameOf[m] \notin engine[Local] =>
    \/ \E s \in Slots : req[s].op \in {"forget", "pop"} /\ req[s].m = m
    \/ m \in outside
    \/ m \in overtaken

\* The books of the hub, its table and its deployment rows, agree with what the
\* engines hold as far as the hub is told.
BooksTrue == TypeOK /\ RunningWasLoaded /\ TableTruth
=============================================================================
