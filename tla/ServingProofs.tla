---------------------------- MODULE ServingProofs ---------------------------
(* Proofs about the proxy's table of loaded models and the deployments, for  *)
(* any models, versions, nodes, deployments, requests and times to live; and *)
(* about the cluster's nodes, the routing of requests among them and the     *)
(* push of a model to them, for any nodes and requests.                      *)
EXTENDS Serving, ClusterNodes, FiniteSetTheorems, SequenceTheorems, TLAPS

Ops == {"idle", "serve", "install", "reload", "swap", "sweep", "scan", "pop", "unload", "forget",
        "ask", "deploy", "create", "mark", "scale", "stop", "delete", "stopped", "deleted"}

Requests ==
  [op : Ops, m : Models \cup {None}, v : Versions \cup Engines \cup Models \cup {None},
   d : Deps \cup {None}, e : Engines \cup {None},
   todo : SUBSET Models, expired : SUBSET Models, shield : SUBSET Models]

\* What a request carries at each of its points.
Carries(r) ==
  /\ r.op \in {"serve", "install", "reload", "swap"} => r.m \in Models /\ r.v \in Versions
  /\ r.op \in {"unload", "forget", "pop", "scale", "ask"} => r.m \in Models
  /\ r.op = "ask" => r.v \in Models
  /\ r.op \in {"deploy", "create", "mark"} =>
       r.m \in Models /\ r.e \in Engines /\ r.d \in Deps /\ r.v \in {None, r.e}
  /\ r.op \in {"stop", "delete", "stopped", "deleted"} =>
       r.m \in Models /\ r.e \in Engines /\ r.d \in Deps
  /\ r.op \notin {"scan", "pop"} => r.todo = {} /\ r.expired = {} /\ r.shield = {}

\* The sweep works on records that are there, and holds nothing against a model
\* whose pin it has read.
Sweeps(r) ==
  /\ r.shield \subseteq pinned
  /\ \A m \in r.todo \cup r.expired : entry[m] # Absent
  /\ r.expired \cap r.shield = {}
  /\ r.op = "pop" => r.todo = {} /\ r.m \in r.expired /\ entry[r.m].scanned

\* The models whose weights the hub's engine holds, or whose loss is on record.
Accounted == {m \in Models : NameOf[m] \in engine[Local]} \cup outside \cup overtaken

\* A request that is about to record a load has its model on the engine, or
\* the loss of it is on record.
Holds(r) == r.op \in {"install", "swap"} => r.m \in Accounted

\* A deployment under way has its id to itself until the row is there, and the
\* row then names the node that was asked.
Creates(s) ==
  /\ req[s].op \in {"deploy", "create"} =>
       /\ dep[req[s].d] = NoRow
       /\ \A x \in Slots \ {s} : req[x].d # req[s].d
  /\ req[s].op = "mark" /\ dep[req[s].d] # NoRow => dep[req[s].d].node = req[s].e

\* The inductive invariant.
SInv ==
  /\ TypeOK /\ RunningWasLoaded /\ TableTruth
  /\ req \in [Slots -> Requests]
  /\ \A s \in Slots : Carries(req[s]) /\ Sweeps(req[s]) /\ Holds(req[s]) /\ Creates(s)

USE ServingAssumption, NamesAssumption

-----------------------------------------------------------------------------
(* Requests and the lock                                                   *)

LEMMA IdleIsRequest == Idle \in Requests
BY DEF Idle, Requests, Ops

LEMMA SetSlot ==
  ASSUME SInv, NEW s \in Slots, NEW r \in Requests, Set(s, r)
  PROVE  /\ req' \in [Slots -> Requests] /\ req'[s] = r
         /\ \A x \in Slots \ {s} : req'[x] = req[x]
BY DEF Set, SInv

LEMMA LockHolds ==
  ASSUME SInv, NEW s \in Slots
  PROVE  /\ lock = s <=> req[s].op \in {"scan", "pop"}
         /\ lock \in Slots \cup {None}
BY DEF SInv, TypeOK

LEMMA ServingStarts == Init => SInv
BY DEF Init, SInv, TypeOK, RunningWasLoaded, TableTruth, Accounted, Requests, Ops, Idle, Carries, Sweeps, Holds,
       Creates, Loaded, NoRow, Engines, Rows

\* A step of one request that leaves the table, the lock and the rows alone.
\* What leaves the engine is accounted for, or the request goes on to drop the
\* record, and nobody is about to make one.
LEMMA StepKeeps ==
  ASSUME SInv, NEW s \in Slots, NEW r \in Requests, Set(s, r),
         UNCHANGED <<entry, lock, swept, rows>>, tracked' \subseteq Models,
         engine' \in [Engines -> SUBSET Names],
         outside' \subseteq Models, overtaken' \subseteq Models,
         req[s].op \notin {"scan", "pop", "forget"}, r.op \notin {"scan", "pop"}, Carries(r),
         \A m \in Accounted :
           \/ m \in Accounted'
           \/ /\ r.op = "forget" /\ r.m = m
              /\ \A x \in Slots : req[x].m = m => req[x].op \notin {"install", "swap"},
         r.op \in {"install", "swap"} => r.m \in Accounted',
         \A x \in Slots \ {s} : req[x].op \in {"deploy", "create"} => r.d # req[x].d,
         r.op \in {"deploy", "create"} =>
           dep[r.d] = NoRow /\ \A x \in Slots \ {s} : req[x].d # r.d,
         r.op # "mark"
  PROVE  SInv'
<1>1. /\ req' \in [Slots -> Requests] /\ req'[s] = r
      /\ \A x \in Slots \ {s} : req'[x] = req[x]
  BY SetSlot
<1>2. TypeOK'
  <2>1. \A x \in Slots : lock' = x <=> req'[x].op \in {"scan", "pop"}
    BY <1>1, LockHolds
  <2>2. \A x \in Slots : req'[x].expired \subseteq {m \in Models : entry'[m] # Absent}
    BY <1>1 DEF SInv, TypeOK, Carries, Requests
  <2> QED BY <2>1, <2>2 DEF SInv, TypeOK, rows
<1>3. RunningWasLoaded'
  BY DEF SInv, RunningWasLoaded, rows
<1>4. TableTruth'
  <2> SUFFICES ASSUME NEW m \in Models, Loaded(m)', m \notin Accounted'
               PROVE  \E x \in Slots : req'[x].op \in {"forget", "pop"} /\ req'[x].m = m
    BY DEF TableTruth, Accounted
  <2>1. CASE m \in Accounted
    BY <2>1, <1>1
  <2>2. CASE m \notin Accounted
    <3>1. PICK x \in Slots : req[x].op \in {"forget", "pop"} /\ req[x].m = m
      BY <2>2 DEF SInv, TableTruth, Accounted, Loaded
    <3> QED BY <3>1, <1>1
  <2> QED BY <2>1, <2>2
<1>5. ASSUME NEW x \in Slots
      PROVE  Carries(req[x])' /\ Sweeps(req[x])' /\ Holds(req[x])' /\ Creates(x)'
  <2>1. CASE x = s
    <3>1. (Carries(req[s]) /\ Sweeps(req[s]) /\ Holds(req[s]))'
      BY <1>1 DEF Sweeps, Holds, Carries
    <3>2. Creates(s)'
      BY <1>1 DEF Creates, rows
    <3> QED BY <2>1, <3>1, <3>2
  <2>2. CASE x # s
    <3>1. req'[x] = req[x] /\ Carries(req[x]) /\ Sweeps(req[x]) /\ Holds(req[x]) /\ Creates(x)
      BY <2>2, <1>1 DEF SInv
    <3>2. Sweeps(req[x])'
      BY <3>1 DEF Sweeps, rows
    <3>4. Carries(req[x])'
      BY <3>1 DEF Carries
    <3>3. Holds(req[x])'
      BY <3>1 DEF Holds
    <3>5. Creates(x)'
      BY <2>2, <3>1, <1>1 DEF Creates, rows
    <3> QED BY <3>2, <3>3, <3>4, <3>5
  <2> QED BY <2>1, <2>2
<1> QED BY <1>1, <1>2, <1>3, <1>4, <1>5 DEF SInv, Carries

-----------------------------------------------------------------------------
(* The engines                                                             *)

LEMMA LoadAccounts ==
  ASSUME SInv, NEW e \in Engines, NEW m \in Models, Load(e, m)
  PROVE  /\ engine' \in [Engines -> SUBSET Names]
         /\ outside' \subseteq Models /\ overtaken' \subseteq Models
         /\ Accounted \subseteq Accounted'
         /\ e = Local => m \in Accounted'
BY DEF Load, Alike, Accounted, Names, SInv, TypeOK, Engines

LEMMA StillAccounts ==
  ASSUME SInv, UNCHANGED mlx
  PROVE  /\ engine' \in [Engines -> SUBSET Names]
         /\ outside' \subseteq Models /\ overtaken' \subseteq Models
         /\ Accounted = Accounted'
BY DEF Accounted, SInv, TypeOK, mlx

\* An unload leaves the table true, or the request that asked for it drops the
\* record next and nobody is about to make one.
LEMMA UnloadAccounts ==
  ASSUME SInv, NEW s \in Slots, NEW e \in Engines, NEW m \in Models, Unload(s, e, m)
  PROVE  /\ engine' \in [Engines -> SUBSET Names]
         /\ outside' \subseteq Models /\ overtaken' \subseteq Models
         /\ \A x \in Accounted :
              \/ x \in Accounted'
              \/ /\ x = m /\ e = Local /\ req[s].op \notin {"stop", "delete"}
                 /\ \A y \in Slots : req[y].m = m => req[y].op \notin {"install", "swap"}
<1>1. CASE UNCHANGED mlx
  BY <1>1 DEF Accounted, SInv, TypeOK, mlx
<1>2. CASE ~UNCHANGED mlx
  BY <1>2 DEF Unload, Alike, Booking, Accounted, SInv, TypeOK, Engines
<1> QED BY <1>1, <1>2

-----------------------------------------------------------------------------
(* Steps of one request that leave the table and the rows alone            *)

\* A request begins.
LEMMA BeginKeeps ==
  ASSUME SInv, NEW s \in Slots, req[s] = Idle, NEW r \in Requests, Set(s, r), UNCHANGED <<hub, rows, mlx>>,
         Carries(r), r.op \notin {"scan", "pop", "install", "swap", "mark"},
         \A x \in Slots \ {s} : req[x].op \in {"deploy", "create"} => r.d # req[x].d,
         r.op \in {"deploy", "create"} =>
           dep[r.d] = NoRow /\ \A x \in Slots \ {s} : req[x].d # r.d
  PROVE  SInv'
<1>1. tracked' \subseteq Models /\ UNCHANGED <<entry, lock, swept, rows>>
  BY DEF hub, SInv, TypeOK
<1>2. req[s].op = "idle"
  BY DEF Idle
<1> QED BY <1>1, <1>2, StillAccounts, StepKeeps

LEMMA ServeKeeps == ASSUME SInv, NEW s \in Slots, Serve(s) \/ HotReload(s) PROVE SInv'
<1>1. PICK op \in {"serve", "reload"}, m \in Models, v \in Versions :
        req[s] = Idle /\ Set(s, [Idle EXCEPT !.op = op, !.m = m, !.v = v])
  BY DEF Serve, HotReload
<1> DEFINE r == [Idle EXCEPT !.op = op, !.m = m, !.v = v]
<1>2. r \in Requests /\ r.op = op /\ r.m = m /\ r.v = v /\ r.d = None
      /\ r.todo = {} /\ r.expired = {} /\ r.shield = {}
  BY DEF Idle, Requests, Ops
<1>3. \A x \in Slots \ {s} : req[x].op \in {"deploy", "create"} => r.d # req[x].d
  BY <1>2 DEF SInv, Carries
<1>4. UNCHANGED <<hub, rows, mlx>>
  BY DEF Serve, HotReload
<1>5. Carries(r)
  BY <1>2 DEF Carries
<1>6. Set(s, r) /\ req[s] = Idle
  BY <1>1
<1> HIDE DEF r
<1>7. PICK q \in Requests : q = r
  BY <1>2
<1> QED BY <1>2, <1>3, <1>4, <1>5, <1>6, <1>7, BeginKeeps

\* A request that names a model and no deployment begins.
LEMMA PlainKeeps ==
  ASSUME SInv, NEW s \in Slots, req[s] = Idle, NEW r \in Requests, Set(s, r), UNCHANGED <<hub, rows, mlx>>,
         r.op \in {"unload", "scale", "ask"}, r.m \in Models, r.op = "ask" => r.v \in Models,
         r.d = None, r.todo = {}, r.expired = {}, r.shield = {}
  PROVE  SInv'
<1>1. Carries(r)
  BY DEF Carries
<1>2. \A x \in Slots \ {s} : req[x].op \in {"deploy", "create"} => r.d # req[x].d
  BY DEF SInv, Carries
<1> QED BY <1>1, <1>2, BeginKeeps

LEMMA AskKeeps ==
  ASSUME SInv, NEW s \in Slots,
         UnloadStart(s) \/ Scale(s) \/ Chat(s) \/ Completion(s) \/ Embedding(s)
  PROVE  SInv'
<1>0. UNCHANGED <<hub, rows, mlx>>
  BY DEF UnloadStart, Scale, Chat, Completion, Embedding, AskEngine
<1>1. CASE UnloadStart(s)
  <2>1. PICK m \in Models : Set(s, [Idle EXCEPT !.op = "unload", !.m = m]) /\ req[s] = Idle
    BY <1>1 DEF UnloadStart, Ask
  <2> DEFINE r == [Idle EXCEPT !.op = "unload", !.m = m]
  <2>2. Set(s, r) /\ req[s] = Idle
    BY <2>1
  <2>3. r \in Requests /\ r.op = "unload" /\ r.m = m /\ r.d = None
        /\ r.todo = {} /\ r.expired = {} /\ r.shield = {}
    BY DEF Idle, Requests, Ops
  <2> HIDE DEF r
  <2>4. PICK q \in Requests : q = r
    BY <2>3
  <2> QED BY <2>2, <2>3, <2>4, <1>0, PlainKeeps
<1>2. CASE Scale(s)
  <2>5. PICK d \in Deps : dep[d] # NoRow /\ Ask(s, "scale", dep[d].model) /\ req[s] = Idle
    BY <1>2 DEF Scale
  <2>6. dep[d].model \in Models
    BY <2>5 DEF SInv, TypeOK, Rows
  <2>1. PICK m \in Models : Set(s, [Idle EXCEPT !.op = "scale", !.m = m]) /\ req[s] = Idle
    BY <2>5, <2>6 DEF Ask
  <2> DEFINE r == [Idle EXCEPT !.op = "scale", !.m = m]
  <2>2. Set(s, r) /\ req[s] = Idle
    BY <2>1
  <2>3. r \in Requests /\ r.op = "scale" /\ r.m = m /\ r.d = None
        /\ r.todo = {} /\ r.expired = {} /\ r.shield = {}
    BY DEF Idle, Requests, Ops
  <2> HIDE DEF r
  <2>4. PICK q \in Requests : q = r
    BY <2>3
  <2> QED BY <2>2, <2>3, <2>4, <1>0, PlainKeeps
<1>3. CASE Chat(s) \/ Completion(s) \/ Embedding(s)
  <2>1. \A m \in Models : GrayOf(m) \subseteq Models
    BY DEF GrayOf, SInv, TypeOK, Rows, NoRow
  <2>2. PICK m \in Models, v \in Models : AskEngine(s, m, v)
    BY <1>3, <2>1 DEF Chat, Completion, Embedding
  <2> DEFINE r == [Idle EXCEPT !.op = "ask", !.m = m, !.v = v]
  <2>3. Set(s, r) /\ req[s] = Idle
    BY <2>2 DEF AskEngine
  <2>4. r \in Requests /\ r.op = "ask" /\ r.m = m /\ r.v = v /\ r.d = None
        /\ r.todo = {} /\ r.expired = {} /\ r.shield = {}
    BY DEF Idle, Requests, Ops
  <2> HIDE DEF r
  <2>5. PICK q \in Requests : q = r
    BY <2>4
  <2> QED BY <2>3, <2>4, <2>5, <1>0, PlainKeeps
<1> QED BY <1>1, <1>2, <1>3

LEMMA DeployKeeps == ASSUME SInv, NEW s \in Slots, Deploy(s) PROVE SInv'
<1>1. PICK m \in Models, n \in Engines, d \in Deps :
        /\ req[s] = Idle /\ Set(s, [Idle EXCEPT !.op = "deploy", !.m = m, !.e = n, !.d = d])
        /\ dep[d] = NoRow /\ \A x \in Slots : req[x].d # d
  BY DEF Deploy, SInv, TypeOK, Engines
<1> DEFINE r == [Idle EXCEPT !.op = "deploy", !.m = m, !.e = n, !.d = d]
<1>2. r \in Requests /\ r.op = "deploy" /\ r.m = m /\ r.e = n /\ r.d = d /\ r.v = None
      /\ r.todo = {} /\ r.expired = {} /\ r.shield = {}
  BY DEF Idle, Requests, Ops
<1>3. Carries(r) /\ UNCHANGED <<hub, rows, mlx>>
  BY <1>2 DEF Carries, Deploy
<1>4. Set(s, r) /\ req[s] = Idle
  BY <1>1
<1>5. dep[r.d] = NoRow /\ \A x \in Slots : req[x].d # r.d
  BY <1>1, <1>2
<1> HIDE DEF r
<1>6. PICK q \in Requests : q = r
  BY <1>2
<1> QED BY <1>2, <1>3, <1>4, <1>5, <1>6, BeginKeeps

LEMMA WithdrawKeeps ==
  ASSUME SInv, NEW s \in Slots, NEW op \in {"stop", "delete"}, Withdraw(s, op)
  PROVE  SInv'
<1>1. PICK d \in Deps :
        /\ req[s] = Idle /\ dep[d] # NoRow
        /\ Set(s, [Idle EXCEPT !.op = op, !.d = d, !.m = dep[d].model, !.e = Url(dep[d].node)])
  BY DEF Withdraw
<1> DEFINE r == [Idle EXCEPT !.op = op, !.d = d, !.m = dep[d].model, !.e = Url(dep[d].node)]
<1>2. dep[d].model \in Models /\ Url(dep[d].node) \in Engines
  BY <1>1 DEF SInv, TypeOK, Rows, Url, Engines
<1>3. r \in Requests /\ r.op = op /\ r.d = d /\ r.m \in Models /\ r.e \in Engines
      /\ r.todo = {} /\ r.expired = {} /\ r.shield = {}
  BY <1>2 DEF Idle, Requests, Ops
<1>4. \A x \in Slots \ {s} : req[x].op \in {"deploy", "create"} => r.d # req[x].d
  BY <1>1, <1>3 DEF SInv, Creates
<1>5. Carries(r) /\ UNCHANGED <<hub, rows, mlx>>
  BY <1>3 DEF Carries, Withdraw
<1>6. Set(s, r) /\ req[s] = Idle
  BY <1>1
<1> HIDE DEF r
<1>7. PICK q \in Requests : q = r
  BY <1>3
<1> QED BY <1>3, <1>4, <1>5, <1>6, <1>7, BeginKeeps

\* A request moves on, and keeps what it carries.
LEMMA GotoKeepsFields ==
  ASSUME SInv, NEW s \in Slots, NEW op \in Ops, Goto(s, op)
  PROVE  \E r \in Requests :
           /\ Set(s, r) /\ r.op = op /\ r.m = req[s].m /\ r.v = req[s].v /\ r.d = req[s].d
           /\ r.e = req[s].e /\ r.todo = req[s].todo /\ r.expired = req[s].expired
           /\ r.shield = req[s].shield
<1> DEFINE q == [req[s] EXCEPT !.op = op]
<1>1. req[s] \in Requests
  BY DEF SInv
<1>2. /\ q \in Requests /\ q.op = op /\ q.m = req[s].m /\ q.v = req[s].v /\ q.d = req[s].d
      /\ q.e = req[s].e /\ q.todo = req[s].todo /\ q.expired = req[s].expired
      /\ q.shield = req[s].shield
  BY <1>1 DEF Requests
<1>3. Set(s, q)
  BY DEF Goto
<1> HIDE DEF q
<1> QED BY <1>2, <1>3

\* A request ends.
LEMMA DoneKeeps ==
  ASSUME SInv, NEW s \in Slots, Done(s), UNCHANGED <<entry, lock, swept, rows>>,
         tracked' \subseteq Models, engine' \in [Engines -> SUBSET Names],
         outside' \subseteq Models, overtaken' \subseteq Models,
         Accounted \subseteq Accounted',
         req[s].op \notin {"scan", "pop", "forget"}
  PROVE  SInv'
<1>1. PICK r \in Requests : r = Idle
  BY IdleIsRequest
<1>2. r.op = "idle" /\ r.d = None /\ Carries(r)
  BY <1>1 DEF Idle, Carries
<1>3. Set(s, r)
  BY <1>1 DEF Done
<1>4. \A x \in Slots \ {s} : req[x].op \in {"deploy", "create"} => r.d # req[x].d
  BY <1>2 DEF SInv, Carries
<1> QED BY <1>2, <1>3, <1>4, StepKeeps

LEMMA PostKeeps ==
  ASSUME SInv, NEW s \in Slots, ServeLoad(s) \/ ReloadLoad(s)
  PROVE  SInv'
<1>1. PICK next \in {"install", "swap"} :
        PostLoad(s, next) /\ req[s].op \in {"serve", "reload"}
  BY DEF ServeLoad, ReloadLoad
<1>2. req[s].m \in Models /\ req[s].v \in Versions /\ Local \in Engines
      /\ req[s].todo = {} /\ req[s].expired = {} /\ req[s].shield = {}
  BY <1>1 DEF SInv, Carries, Engines
<1>3. UNCHANGED <<entry, lock, swept, rows>> /\ tracked' \subseteq Models
  BY <1>1 DEF PostLoad, hub, SInv, TypeOK
<1>4. CASE Load(Local, req[s].m) /\ Goto(s, next)
  <2>1. /\ engine' \in [Engines -> SUBSET Names]
        /\ outside' \subseteq Models /\ overtaken' \subseteq Models
        /\ Accounted \subseteq Accounted'
        /\ req[s].m \in Accounted'
    <3>1. PICK m \in Models : m = req[s].m
      BY <1>2
    <3> QED BY <1>2, <1>4, <3>1, LoadAccounts
  <2>2. PICK r \in Requests :
          /\ Set(s, r) /\ r.op = next /\ r.m = req[s].m /\ r.v = req[s].v
          /\ r.todo = {} /\ r.expired = {} /\ r.shield = {} /\ r.d = req[s].d
    BY <1>2, <1>4, GotoKeepsFields DEF Ops
  <2>3. Carries(r)
    BY <1>2, <2>2 DEF Carries
  <2>4. \A x \in Slots \ {s} : req[x].op \in {"deploy", "create"} => r.d # req[x].d
    BY <2>2 DEF SInv, Creates
  <2> QED BY <1>1, <1>3, <2>1, <2>2, <2>3, <2>4, StepKeeps
<1>5. CASE Load(Local, req[s].m) /\ Done(s)
  <2>1. PICK m \in Models : m = req[s].m
    BY <1>2
  <2> QED BY <1>1, <1>2, <1>3, <1>5, <2>1, LoadAccounts, DoneKeeps
<1>6. CASE UNCHANGED mlx /\ Done(s)
  BY <1>1, <1>3, <1>6, StillAccounts, DoneKeeps
<1> QED BY <1>1, <1>4, <1>5, <1>6 DEF PostLoad

LEMMA AnswerKeeps ==
  ASSUME SInv, NEW s \in Slots, Answer(s) \/ ScaleLoad(s)
  PROVE  SInv'
<1>1. req[s].op \in {"ask", "scale"} /\ Done(s) /\ UNCHANGED <<entry, lock, swept, rows>>
  BY DEF Answer, ScaleLoad, hub
<1>2. req[s].m \in Models /\ (req[s].op = "ask" => req[s].v \in Models) /\ Local \in Engines
  BY <1>1 DEF SInv, Carries, Engines
<1>3. tracked' \subseteq Models
  BY <1>2 DEF Answer, ScaleLoad, Count, hub, SInv, TypeOK
<1>4. CASE UNCHANGED mlx
  BY <1>1, <1>3, <1>4, StillAccounts, DoneKeeps
<1>5. CASE ~UNCHANGED mlx
  <2>1. PICK m \in Models : Load(Local, m)
    BY <1>2, <1>5 DEF Answer, ScaleLoad
  <2> QED BY <1>1, <1>2, <1>3, <2>1, LoadAccounts, DoneKeeps
<1> QED BY <1>4, <1>5

LEMMA UnloadSendKeeps == ASSUME SInv, NEW s \in Slots, UnloadSend(s) PROVE SInv'
<1>1. /\ req[s].op = "unload" /\ req[s].m \in Models /\ Local \in Engines
      /\ req[s].todo = {} /\ req[s].expired = {} /\ req[s].shield = {}
  BY DEF UnloadSend, SInv, Carries, Engines
<1>2. PICK m \in Models : m = req[s].m /\ Unload(s, Local, m)
  BY <1>1 DEF UnloadSend
<1>3. PICK r \in Requests :
        /\ Set(s, r) /\ r.op = "forget" /\ r.m = m /\ r.d = req[s].d
        /\ r.todo = {} /\ r.expired = {} /\ r.shield = {}
  <2>1. Goto(s, "forget") /\ "forget" \in Ops
    BY DEF UnloadSend, Ops
  <2> QED BY <1>1, <1>2, <2>1, GotoKeepsFields
<1>4. Carries(r)
  BY <1>3 DEF Carries
<1>5. \A x \in Slots \ {s} : req[x].op \in {"deploy", "create"} => r.d # req[x].d
  BY <1>3 DEF SInv, Creates
<1>6. UNCHANGED <<entry, lock, swept, rows>> /\ tracked' \subseteq Models
  BY DEF UnloadSend, hub, SInv, TypeOK
<1>7. /\ engine' \in [Engines -> SUBSET Names]
      /\ outside' \subseteq Models /\ overtaken' \subseteq Models
      /\ \A x \in Accounted :
           \/ x \in Accounted'
           \/ /\ r.op = "forget" /\ r.m = x
              /\ \A y \in Slots : req[y].m = x => req[y].op \notin {"install", "swap"}
  BY <1>1, <1>2, <1>3, UnloadAccounts
<1> QED BY <1>1, <1>3, <1>4, <1>5, <1>6, <1>7, StepKeeps

LEMMA DeployLoadKeeps == ASSUME SInv, NEW s \in Slots, DeployLoad(s) PROVE SInv'
<1>1. /\ req[s].op = "deploy" /\ req[s].m \in Models /\ req[s].e \in Engines /\ req[s].d \in Deps
      /\ req[s].v \in {None, req[s].e} /\ req[s] \in Requests
      /\ req[s].todo = {} /\ req[s].expired = {} /\ req[s].shield = {}
  BY DEF DeployLoad, SInv, Carries
<1>2. PICK r \in Requests :
        /\ Set(s, r) /\ r.op = "create" /\ r.m = req[s].m /\ r.d = req[s].d /\ r.e = req[s].e
        /\ r.v \in {None, r.e} /\ r.todo = {} /\ r.expired = {} /\ r.shield = {}
  <2>1. CASE Goto(s, "create")
    <3>1. "create" \in Ops
      BY DEF Ops
    <3> QED BY <1>1, <2>1, <3>1, GotoKeepsFields
  <2>2. CASE ~Goto(s, "create")
    <3> DEFINE q == [req[s] EXCEPT !.op = "create", !.v = req[s].e]
    <3>1. Set(s, q)
      BY <2>2 DEF DeployLoad
    <3>2. /\ q \in Requests /\ q.op = "create" /\ q.m = req[s].m /\ q.d = req[s].d
          /\ q.e = req[s].e /\ q.v = q.e /\ q.todo = {} /\ q.expired = {} /\ q.shield = {}
      BY <1>1 DEF Requests, Ops
    <3> HIDE DEF q
    <3> QED BY <3>1, <3>2
  <2> QED BY <2>1, <2>2
<1>3. Carries(r)
  BY <1>1, <1>2 DEF Carries
<1>4. dep[r.d] = NoRow /\ \A x \in Slots \ {s} : req[x].d # r.d
  BY <1>1, <1>2 DEF SInv, Creates
<1>5. UNCHANGED <<entry, lock, swept, rows>> /\ tracked' \subseteq Models
  BY DEF DeployLoad, hub, SInv, TypeOK
<1>6. /\ engine' \in [Engines -> SUBSET Names]
      /\ outside' \subseteq Models /\ overtaken' \subseteq Models
      /\ Accounted \subseteq Accounted'
  <2>1. CASE UNCHANGED mlx
    BY <2>1, StillAccounts
  <2>2. CASE ~UNCHANGED mlx
    <3>1. PICK m \in Models, e \in Engines : Load(e, m)
      BY <1>1, <2>2 DEF DeployLoad
    <3> QED BY <3>1, LoadAccounts
  <2> QED BY <2>1, <2>2
<1> QED BY <1>1, <1>2, <1>3, <1>4, <1>5, <1>6, StepKeeps

LEMMA WithdrawUnloadKeeps == ASSUME SInv, NEW s \in Slots, WithdrawUnload(s) PROVE SInv'
<1>1. /\ req[s].op \in {"stop", "delete"} /\ req[s].m \in Models /\ req[s].e \in Engines
      /\ req[s].d \in Deps /\ req[s].todo = {} /\ req[s].expired = {} /\ req[s].shield = {}
  BY DEF WithdrawUnload, SInv, Carries
<1>2. PICK m \in Models, e \in Engines : Unload(s, e, m)
  BY <1>1 DEF WithdrawUnload
<1>3. PICK op \in {"stopped", "deleted"} : Goto(s, op)
  BY DEF WithdrawUnload
<1>4. PICK r \in Requests :
        /\ Set(s, r) /\ r.op = op /\ r.m = req[s].m /\ r.d = req[s].d /\ r.e = req[s].e
        /\ r.todo = {} /\ r.expired = {} /\ r.shield = {}
  <2>1. op \in Ops
    BY DEF Ops
  <2> QED BY <1>1, <1>3, <2>1, GotoKeepsFields
<1>5. Carries(r)
  BY <1>1, <1>4 DEF Carries
<1>6. \A x \in Slots \ {s} : req[x].op \in {"deploy", "create"} => r.d # req[x].d
  BY <1>4 DEF SInv, Creates
<1>7. UNCHANGED <<entry, lock, swept, rows>> /\ tracked' \subseteq Models
  BY DEF WithdrawUnload, hub, SInv, TypeOK
<1>8. /\ engine' \in [Engines -> SUBSET Names]
      /\ outside' \subseteq Models /\ overtaken' \subseteq Models
      /\ Accounted \subseteq Accounted'
  BY <1>1, <1>2, UnloadAccounts
<1> QED BY <1>1, <1>4, <1>5, <1>6, <1>7, <1>8, StepKeeps

-----------------------------------------------------------------------------
(* Steps that write the table of loaded models                             *)

\* Somebody holds the lock exactly when a sweep is under way, and then there is
\* only one.
LEMMA OneSweep ==
  ASSUME SInv
  PROVE  /\ lock = None => \A x \in Slots : req[x].op \notin {"scan", "pop"}
         /\ \A x, y \in Slots :
              req[x].op \in {"scan", "pop"} /\ req[y].op \in {"scan", "pop"} => x = y
BY NamesAssumption DEF SInv, TypeOK

LEMMA FreshIsEntry == \A v \in Versions : Fresh(v) \in Entry /\ Fresh(v) # Absent
BY ServingAssumption, NamesAssumption DEF Fresh, Entry, Absent

\* A request records its load, and sweeps next or ends.
LEMMA RecordKeeps == ASSUME SInv, NEW s \in Slots, Install(s) \/ Swap(s) PROVE SInv'
<1>1. /\ req[s].op \in {"install", "swap"} /\ lock = None /\ Record(s)
      /\ req[s].m \in Models /\ req[s].v \in Versions
      /\ req[s].m \in Accounted
      /\ UNCHANGED <<rows, mlx, lock, swept, tracked>>
  BY DEF Install, Swap, SInv, Carries, Holds
<1>2. PICK r \in Requests :
        /\ Set(s, r) /\ r.op \in {"idle", "sweep"} /\ r.d = None
        /\ r.todo = {} /\ r.expired = {} /\ r.shield = {}
  <2> DEFINE q == [Idle EXCEPT !.op = "sweep"]
  <2>1. /\ q \in Requests /\ q.op = "sweep" /\ q.d = None
        /\ q.todo = {} /\ q.expired = {} /\ q.shield = {}
    BY DEF Idle, Requests, Ops
  <2>2. /\ Idle \in Requests /\ Idle.op = "idle" /\ Idle.d = None
        /\ Idle.todo = {} /\ Idle.expired = {} /\ Idle.shield = {}
    BY IdleIsRequest DEF Idle
  <2>3. Set(s, q) \/ Set(s, Idle)
    BY DEF Install, Swap, Done
  <2> HIDE DEF q
  <2> QED BY <2>1, <2>2, <2>3
<1>3. /\ req' \in [Slots -> Requests] /\ req'[s] = r
      /\ \A x \in Slots \ {s} : req'[x] = req[x]
  BY <1>2, SetSlot
<1>4. /\ entry' \in [Models -> Entry \cup {Absent}] /\ entry'[req[s].m] # Absent
      /\ \A m \in Models \ {req[s].m} : entry'[m] = entry[m]
  BY <1>1, FreshIsEntry DEF Record, SInv, TypeOK
<1>5. \A x \in Slots : req'[x].op \notin {"scan", "pop"}
                       /\ req'[x].todo = {} /\ req'[x].expired = {} /\ req'[x].shield = {}
  BY <1>1, <1>2, <1>3, OneSweep DEF SInv, Carries
<1>6. TypeOK'
  BY <1>1, <1>4, <1>5, NamesAssumption DEF SInv, TypeOK, rows, mlx
<1>7. RunningWasLoaded'
  BY <1>1 DEF SInv, RunningWasLoaded, rows
<1>8. TableTruth'
  <2> SUFFICES ASSUME NEW m \in Models, Loaded(m)', m \notin Accounted
               PROVE  \E x \in Slots : req'[x].op \in {"forget", "pop"} /\ req'[x].m = m
    BY <1>1 DEF TableTruth, Accounted, mlx
  <2>1. Loaded(m)
    BY <1>1, <1>4 DEF Loaded
  <2>2. PICK x \in Slots : req[x].op \in {"forget", "pop"} /\ req[x].m = m
    BY <2>1 DEF SInv, TableTruth, Accounted
  <2> QED BY <2>2, <1>1, <1>3
<1>9. ASSUME NEW x \in Slots
      PROVE  (Carries(req[x]) /\ Sweeps(req[x]) /\ Holds(req[x]) /\ Creates(x))'
  <2>1. Carries(req'[x])
    BY <1>2, <1>3 DEF SInv, Carries
  <2>2. Sweeps(req[x])'
    BY <1>5 DEF Sweeps
  <2>3. Holds(req[x])'
    BY <1>1, <1>2, <1>3 DEF SInv, Holds, Accounted, mlx
  <2>4. Creates(x)'
    BY <1>1, <1>2, <1>3 DEF SInv, Creates, Carries, rows
  <2> QED BY <2>1, <2>2, <2>3, <2>4 DEF Carries
<1> QED BY <1>3, <1>6, <1>7, <1>8, <1>9 DEF SInv

LEMMA UnloadPopKeeps == ASSUME SInv, NEW s \in Slots, UnloadPop(s) PROVE SInv'
<1>1. /\ req[s].op = "forget" /\ lock = None /\ req[s].m \in Models
      /\ UNCHANGED <<rows, mlx, lock, swept>> /\ Done(s)
      /\ entry' = [entry EXCEPT ![req[s].m] = Absent] /\ tracked' \subseteq Models
  BY DEF UnloadPop, SInv, Carries, TypeOK
<1>2. /\ Idle.op = "idle" /\ Idle.d = None /\ Idle.todo = {} /\ Idle.expired = {}
      /\ Idle.shield = {}
  BY DEF Idle
<1>3. /\ req' \in [Slots -> Requests] /\ req'[s] = Idle
      /\ \A x \in Slots \ {s} : req'[x] = req[x]
  BY <1>1, IdleIsRequest, SetSlot DEF Done
<1>4. /\ entry' \in [Models -> Entry \cup {Absent}] /\ entry'[req[s].m] = Absent
      /\ \A m \in Models \ {req[s].m} : entry'[m] = entry[m]
  BY <1>1 DEF SInv, TypeOK
<1>5. \A x \in Slots : req'[x].op \notin {"scan", "pop"}
                       /\ req'[x].todo = {} /\ req'[x].expired = {} /\ req'[x].shield = {}
  BY <1>1, <1>2, <1>3, OneSweep DEF SInv, Carries
<1>6. TypeOK'
  BY <1>1, <1>4, <1>5, NamesAssumption DEF SInv, TypeOK, rows, mlx
<1>7. RunningWasLoaded'
  BY <1>1 DEF SInv, RunningWasLoaded, rows
<1>8. TableTruth'
  <2> SUFFICES ASSUME NEW m \in Models, Loaded(m)', m \notin Accounted
               PROVE  \E x \in Slots : req'[x].op \in {"forget", "pop"} /\ req'[x].m = m
    BY <1>1 DEF TableTruth, Accounted, mlx
  <2>1. Loaded(m) /\ m # req[s].m
    BY <1>4 DEF Loaded
  <2>2. PICK x \in Slots : req[x].op \in {"forget", "pop"} /\ req[x].m = m
    BY <2>1 DEF SInv, TableTruth, Accounted
  <2> QED BY <2>1, <2>2, <1>3
<1>9. ASSUME NEW x \in Slots
      PROVE  (Carries(req[x]) /\ Sweeps(req[x]) /\ Holds(req[x]) /\ Creates(x))'
  <2>1. Carries(req'[x])
    BY <1>2, <1>3 DEF SInv, Carries
  <2>2. Sweeps(req[x])'
    BY <1>5 DEF Sweeps
  <2>3. Holds(req[x])'
    BY <1>1, <1>2, <1>3 DEF SInv, Holds, Accounted, mlx
  <2>4. Creates(x)'
    BY <1>1, <1>2, <1>3 DEF SInv, Creates, Carries, rows
  <2> QED BY <2>1, <2>2, <2>3, <2>4 DEF Carries
<1> QED BY <1>3, <1>6, <1>7, <1>8, <1>9 DEF SInv

-----------------------------------------------------------------------------
(* The sweep                                                               *)

\* A step of the sweep, the only one there is.
LEMMA SweepStep ==
  ASSUME SInv, NEW s \in Slots, NEW r \in Requests, Set(s, r), UNCHANGED rows,
         lock \in {None, s}, req[s].op \in {"sweep", "scan", "pop"},
         r.op \in {"scan", "pop", "idle"},
         lock' = IF r.op \in {"scan", "pop"} THEN s ELSE None,
         entry' \in [Models -> Entry \cup {Absent}], swept' \in 0..SweepEvery,
         tracked' \subseteq Models, engine' \in [Engines -> SUBSET Names],
         outside' \subseteq Models, overtaken' \subseteq Models,
         r.op = "idle" => r.todo = {} /\ r.expired = {} /\ r.shield = {},
         r.op = "pop" => r.m \in Models,
         Sweeps(r)',
         \A x \in Slots : req[x].op \in {"install", "swap"} => req[x].m \in Accounted',
         \A m \in Models : entry'[m] # Absent =>
           \/ m \in Accounted'
           \/ r.op = "pop" /\ r.m = m
           \/ \E x \in Slots \ {s} : req[x].op = "forget" /\ req[x].m = m,
         \A x \in Slots \ {s} : req[x].op \in {"deploy", "create"} => r.d # req[x].d
  PROVE  SInv'
<1>1. /\ req' \in [Slots -> Requests] /\ req'[s] = r
      /\ \A x \in Slots \ {s} : req'[x] = req[x]
  BY SetSlot
<1>2. \A x \in Slots \ {s} : /\ req[x].op \notin {"scan", "pop"}
                            /\ req[x].todo = {} /\ req[x].expired = {} /\ req[x].shield = {}
  BY LockHolds, NamesAssumption DEF SInv, Carries
<1>3. TypeOK'
  <2>1. \A x \in Slots : lock' = x <=> req'[x].op \in {"scan", "pop"}
    BY <1>1, <1>2, NamesAssumption
  <2>2. \A x \in Slots : req'[x].expired \subseteq {m \in Models : entry'[m] # Absent}
    BY <1>1, <1>2 DEF Sweeps, Requests
  <2> QED BY <2>1, <2>2 DEF SInv, TypeOK, rows
<1>4. RunningWasLoaded'
  BY DEF SInv, RunningWasLoaded, rows
<1>5. TableTruth'
  BY <1>1 DEF TableTruth, Accounted, Loaded
<1>6. ASSUME NEW x \in Slots
      PROVE  (Carries(req[x]) /\ Sweeps(req[x]) /\ Holds(req[x]) /\ Creates(x))'
  <2>1. Carries(req'[x])
    BY <1>1 DEF SInv, Carries
  <2>2. Sweeps(req[x])'
    <3>1. CASE x = s
      BY <3>1, <1>1 DEF Sweeps
    <3>2. CASE x # s
      BY <3>2, <1>1, <1>2 DEF Sweeps
    <3> QED BY <3>1, <3>2
  <2>3. Holds(req[x])'
    BY <1>1 DEF Holds
  <2>4. Creates(x)'
    BY <1>1 DEF SInv, Creates, rows
  <2> QED BY <2>1, <2>2, <2>3, <2>4 DEF Carries
<1> QED BY <1>1, <1>3, <1>4, <1>5, <1>6 DEF SInv

\* What the table and the engine agree on, seen from the slot of the sweep.
LEMMA TruthSeen ==
  ASSUME SInv, NEW s \in Slots, req[s].op \notin {"pop", "forget"}, lock \in {None, s}
  PROVE  \A m \in Models : Loaded(m) =>
           \/ m \in Accounted
           \/ \E x \in Slots \ {s} : req[x].op = "forget" /\ req[x].m = m
BY LockHolds, NamesAssumption DEF SInv, TableTruth, Accounted

LEMMA SweepBeginKeeps == ASSUME SInv, NEW s \in Slots, SweepBegin(s) PROVE SInv'
<1> DEFINE q == [Idle EXCEPT !.op = "scan", !.shield = pinned,
                   !.todo = {m \in Models : Loaded(m) /\ entry[m].age > Ttl}]
<1>1. /\ q \in Requests /\ q.op = "scan" /\ q.shield = pinned /\ q.expired = {} /\ q.d = None
      /\ \A m \in q.todo : m \in Models /\ Loaded(m)
  BY DEF Idle, Requests, Ops, SInv, TypeOK
<1>2. Set(s, q)
  BY DEF SweepBegin
<1> HIDE DEF q
<1>3. PICK r \in Requests : r = q
  BY <1>1
<1>4. /\ req[s].op = "sweep" /\ lock = None /\ lock' = s
      /\ UNCHANGED <<rows, mlx, entry, swept, tracked>>
  BY DEF SweepBegin
<1>5. Sweeps(r)'
  BY <1>1, <1>3, <1>4 DEF Sweeps, Loaded, rows
<1>6. \A x \in Slots \ {s} : req[x].op \in {"deploy", "create"} => r.d # req[x].d
  BY <1>1, <1>3, NamesAssumption DEF SInv, Carries
<1>7. \A m \in Models : entry'[m] # Absent =>
        \/ m \in Accounted'
        \/ \E x \in Slots \ {s} : req[x].op = "forget" /\ req[x].m = m
  BY <1>4, TruthSeen DEF Loaded, Accounted, mlx
<1>8. /\ entry' \in [Models -> Entry \cup {Absent}] /\ swept' \in 0..SweepEvery
      /\ tracked' \subseteq Models /\ engine' \in [Engines -> SUBSET Names]
      /\ outside' \subseteq Models /\ overtaken' \subseteq Models
      /\ \A x \in Slots : req[x].op \in {"install", "swap"} => req[x].m \in Accounted'
  BY <1>4 DEF SInv, TypeOK, Holds, Accounted, mlx
<1>9. Set(s, r) /\ r.op = "scan" /\ UNCHANGED rows
  BY <1>1, <1>2, <1>3, <1>4
<1> QED BY <1>4, <1>5, <1>6, <1>7, <1>8, <1>9, SweepStep

LEMMA SweepDoneKeeps == ASSUME SInv, NEW s \in Slots, SweepDone(s) PROVE SInv'
<1>1. PICK r \in Requests : r = Idle
  BY IdleIsRequest
<1>2. /\ Set(s, r) /\ r.op = "idle" /\ r.d = None /\ r.todo = {} /\ r.expired = {} /\ r.shield = {}
  BY <1>1 DEF SweepDone, Done, Idle
<1>3. /\ req[s].op = "scan" /\ lock = s /\ lock' = None /\ swept' = 0
      /\ UNCHANGED <<rows, mlx, entry, tracked>>
  BY LockHolds DEF SweepDone
<1>4. Sweeps(r)'
  BY <1>2 DEF Sweeps
<1>5. \A x \in Slots \ {s} : req[x].op \in {"deploy", "create"} => r.d # req[x].d
  BY <1>2, NamesAssumption DEF SInv, Carries
<1>6. \A m \in Models : entry'[m] # Absent =>
        \/ m \in Accounted'
        \/ \E x \in Slots \ {s} : req[x].op = "forget" /\ req[x].m = m
  BY <1>3, TruthSeen DEF Loaded, Accounted, mlx
<1>7. /\ entry' \in [Models -> Entry \cup {Absent}] /\ swept' \in 0..SweepEvery
      /\ tracked' \subseteq Models /\ engine' \in [Engines -> SUBSET Names]
      /\ outside' \subseteq Models /\ overtaken' \subseteq Models
      /\ \A x \in Slots : req[x].op \in {"install", "swap"} => req[x].m \in Accounted'
  BY <1>3, ServingAssumption DEF SInv, TypeOK, Holds, Accounted, mlx
<1>8. UNCHANGED rows /\ lock \in {None, s}
  BY <1>3
<1> QED BY <1>2, <1>3, <1>4, <1>5, <1>6, <1>7, <1>8, SweepStep

LEMMA ScanKeeps == ASSUME SInv, NEW s \in Slots, Scan(s) PROVE SInv'
<1>1. /\ req[s].op = "scan" /\ lock = s /\ req[s] \in Requests /\ Sweeps(req[s])
      /\ UNCHANGED <<rows, mlx, lock, swept, tracked>>
  BY LockHolds DEF Scan, SInv
<1>2. PICK m \in req[s].todo :
        \/ /\ Set(s, [req[s] EXCEPT !.todo = @ \ {m}])
           /\ UNCHANGED entry
        \/ \E failed \in BOOLEAN :
             /\ m \in pinned => failed
             /\ Set(s, [req[s] EXCEPT !.todo = @ \ {m}, !.expired = @ \cup {m},
                                      !.shield = IF failed THEN @ \ {m} ELSE @])
             /\ entry' = [entry EXCEPT ![m].scanned = TRUE]
  BY DEF Scan
<1>3. m \in Models /\ entry[m] \in Entry
  <2>1. m \in Models
    BY <1>1 DEF Requests
  <2>2. entry[m] # Absent
    BY <1>1 DEF Sweeps
  <2> QED BY <2>1, <2>2 DEF SInv, TypeOK
<1>4. PICK r \in Requests :
        /\ Set(s, r) /\ r.op = "scan" /\ r.d = req[s].d
        /\ \/ /\ r.todo = req[s].todo \ {m} /\ r.expired = req[s].expired
              /\ r.shield = req[s].shield /\ UNCHANGED entry
           \/ /\ r.todo = req[s].todo \ {m} /\ r.expired = req[s].expired \cup {m}
              /\ r.shield \subseteq req[s].shield /\ m \notin r.shield
              /\ entry' = [entry EXCEPT ![m].scanned = TRUE]
  <2>1. CASE Set(s, [req[s] EXCEPT !.todo = @ \ {m}]) /\ UNCHANGED entry
    <3> DEFINE q == [req[s] EXCEPT !.todo = @ \ {m}]
    <3>1. /\ q \in Requests /\ q.op = "scan" /\ q.d = req[s].d
          /\ q.todo = req[s].todo \ {m} /\ q.expired = req[s].expired /\ q.shield = req[s].shield
      BY <1>1 DEF Requests
    <3>2. Set(s, q) /\ UNCHANGED entry
      BY <2>1
    <3> HIDE DEF q
    <3> QED BY <3>1, <3>2
  <2>2. ASSUME NEW failed \in BOOLEAN, m \in pinned => failed,
               Set(s, [req[s] EXCEPT !.todo = @ \ {m}, !.expired = @ \cup {m},
                                     !.shield = IF failed THEN @ \ {m} ELSE @]),
               entry' = [entry EXCEPT ![m].scanned = TRUE]
        PROVE  \E q \in Requests :
                 /\ Set(s, q) /\ q.op = "scan" /\ q.d = req[s].d
                 /\ q.todo = req[s].todo \ {m} /\ q.expired = req[s].expired \cup {m}
                 /\ q.shield \subseteq req[s].shield /\ m \notin q.shield
    <3> DEFINE q == [req[s] EXCEPT !.todo = @ \ {m}, !.expired = @ \cup {m},
                                   !.shield = IF failed THEN @ \ {m} ELSE @]
    <3>1. /\ q \in Requests /\ q.op = "scan" /\ q.d = req[s].d
          /\ q.todo = req[s].todo \ {m} /\ q.expired = req[s].expired \cup {m}
          /\ q.shield = IF failed THEN req[s].shield \ {m} ELSE req[s].shield
      BY <1>1, <1>3 DEF Requests
    <3>2. Set(s, q)
      BY <2>2
    <3>3. q.shield \subseteq req[s].shield /\ m \notin q.shield
      BY <2>2, <3>1, <1>1 DEF Sweeps
    <3> HIDE DEF q
    <3> QED BY <3>1, <3>2, <3>3
  <2> QED BY <1>2, <2>1, <2>2
<1>5. /\ entry' \in [Models -> Entry \cup {Absent}]
      /\ \A x \in Models : entry'[x] # Absent <=> entry[x] # Absent
  <2>1. [entry[m] EXCEPT !.scanned = TRUE] \in Entry
    BY <1>3 DEF Entry
  <2>2. \A y \in Entry : y # Absent
    BY NamesAssumption DEF Entry, Absent
  <2>3. CASE UNCHANGED entry
    BY <2>3 DEF SInv, TypeOK
  <2>4. CASE entry' = [entry EXCEPT ![m].scanned = TRUE]
    <3> DEFINE q == [entry[m] EXCEPT !.scanned = TRUE]
    <3>1. entry' = [entry EXCEPT ![m] = q]
      BY <2>4
    <3>2. q \in Entry
      BY <2>1
    <3> HIDE DEF q
    <3> QED BY <3>1, <3>2, <2>2, <1>3 DEF SInv, TypeOK
  <2> QED BY <1>4, <2>3, <2>4
<1>6. Sweeps(r)'
  <2>1. /\ r.todo \subseteq req[s].todo /\ r.expired \subseteq req[s].expired \cup {m}
        /\ r.shield \subseteq req[s].shield /\ r.op = "scan"
        /\ r.expired \cap r.shield \subseteq req[s].expired \cap req[s].shield
    BY <1>4
  <2>2. /\ r.shield \subseteq pinned' /\ r.expired \cap r.shield = {}
    BY <1>1, <2>1 DEF Sweeps, rows
  <2>3. \A x \in r.todo \cup r.expired : entry'[x] # Absent
    BY <1>1, <1>3, <1>5, <2>1 DEF Sweeps, Requests
  <2> QED BY <2>1, <2>2, <2>3 DEF Sweeps
<1>7. \A x \in Slots \ {s} : req[x].op \in {"deploy", "create"} => r.d # req[x].d
  BY <1>4 DEF SInv, Creates
<1>8. \A x \in Models : entry'[x] # Absent =>
        \/ x \in Accounted'
        \/ \E y \in Slots \ {s} : req[y].op = "forget" /\ req[y].m = x
  BY <1>1, <1>5, TruthSeen DEF Loaded, Accounted, mlx
<1>9. /\ swept' \in 0..SweepEvery
      /\ tracked' \subseteq Models /\ engine' \in [Engines -> SUBSET Names]
      /\ outside' \subseteq Models /\ overtaken' \subseteq Models
      /\ \A x \in Slots : req[x].op \in {"install", "swap"} => req[x].m \in Accounted'
  BY <1>1 DEF SInv, TypeOK, Holds, Accounted, mlx
<1> QED BY <1>1, <1>4, <1>5, <1>6, <1>7, <1>8, <1>9, SweepStep

\* The unload of a record still to be dropped, or the next candidate.
LEMMA EvictKeeps == ASSUME SInv, NEW s \in Slots, Evict(s) PROVE SInv'
<1>1. /\ req[s].op = "scan" /\ lock = s /\ req[s] \in Requests /\ Sweeps(req[s]) /\ req[s].todo = {}
      /\ UNCHANGED <<hub, rows>> /\ Local \in Engines
  BY LockHolds DEF Evict, SInv, Engines
<1>2. PICK m \in req[s].expired :
        IF entry[m].scanned
          THEN Unload(s, Local, m) /\ Set(s, [req[s] EXCEPT !.op = "pop", !.m = m])
          ELSE UNCHANGED mlx /\ Set(s, [req[s] EXCEPT !.expired = @ \ {m}])
  BY DEF Evict
<1>3. m \in Models
  BY <1>1 DEF Requests
<1>4. PICK r \in Requests :
        /\ Set(s, r) /\ r.d = req[s].d /\ r.todo = {}
        /\ r.expired \subseteq req[s].expired /\ r.shield = req[s].shield
        /\ \/ r.op = "pop" /\ r.m = m /\ m \in r.expired /\ entry[m].scanned /\ Unload(s, Local, m)
           \/ r.op = "scan" /\ UNCHANGED mlx
  <2>1. CASE entry[m].scanned
    <3> DEFINE q == [req[s] EXCEPT !.op = "pop", !.m = m]
    <3>1. /\ q \in Requests /\ q.op = "pop" /\ q.m = m /\ q.d = req[s].d /\ q.todo = req[s].todo
          /\ q.expired = req[s].expired /\ q.shield = req[s].shield
      BY <1>1, <1>3 DEF Requests, Ops
    <3>2. Set(s, q) /\ Unload(s, Local, m)
      BY <1>2, <2>1
    <3> HIDE DEF q
    <3> QED BY <1>1, <2>1, <3>1, <3>2
  <2>2. CASE ~entry[m].scanned
    <3> DEFINE q == [req[s] EXCEPT !.expired = @ \ {m}]
    <3>1. /\ q \in Requests /\ q.op = "scan" /\ q.d = req[s].d /\ q.todo = req[s].todo
          /\ q.expired = req[s].expired \ {m} /\ q.shield = req[s].shield
      BY <1>1 DEF Requests
    <3>2. Set(s, q) /\ UNCHANGED mlx
      BY <1>2, <2>2
    <3> HIDE DEF q
    <3> QED BY <1>1, <3>1, <3>2
  <2> QED BY <2>1, <2>2
<1>5. /\ engine' \in [Engines -> SUBSET Names]
      /\ outside' \subseteq Models /\ overtaken' \subseteq Models
      /\ \A x \in Accounted :
           \/ x \in Accounted'
           \/ /\ r.op = "pop" /\ r.m = x
              /\ \A y \in Slots : req[y].m = x => req[y].op \notin {"install", "swap"}
  <2>1. CASE r.op = "scan"
    BY <2>1, <1>4, StillAccounts
  <2>2. CASE r.op = "pop"
    BY <2>2, <1>1, <1>3, <1>4, UnloadAccounts
  <2> QED BY <1>4, <2>1, <2>2
<1>6. UNCHANGED <<entry, lock, swept, tracked>>
  BY <1>1 DEF hub
<1>7. Sweeps(r)'
  BY <1>1, <1>4, <1>6 DEF Sweeps, rows
<1>8. \A x \in Slots \ {s} : req[x].op \in {"deploy", "create"} => r.d # req[x].d
  BY <1>4 DEF SInv, Creates
<1>9. \A x \in Slots : req[x].op \in {"install", "swap"} => req[x].m \in Accounted'
  BY <1>5 DEF SInv, Holds
<1>10. \A x \in Models : entry'[x] # Absent =>
        \/ x \in Accounted'
        \/ r.op = "pop" /\ r.m = x
        \/ \E y \in Slots \ {s} : req[y].op = "forget" /\ req[y].m = x
  <2>1. \A x \in Models : entry[x] # Absent =>
           \/ x \in Accounted
           \/ \E y \in Slots \ {s} : req[y].op = "forget" /\ req[y].m = x
    BY <1>1, TruthSeen DEF Loaded
  <2> QED BY <2>1, <1>5, <1>6
<1>11. /\ entry' \in [Models -> Entry \cup {Absent}] /\ swept' \in 0..SweepEvery
       /\ tracked' \subseteq Models
  BY <1>6 DEF SInv, TypeOK
<1>12. r.op \in {"scan", "pop"} /\ lock' = s /\ (r.op = "pop" => r.m \in Models)
  BY <1>1, <1>3, <1>4, <1>6
<1> QED BY <1>1, <1>4, <1>5, <1>7, <1>8, <1>9, <1>10, <1>11, <1>12, SweepStep

LEMMA EvictPopKeeps == ASSUME SInv, NEW s \in Slots, EvictPop(s) PROVE SInv'
<1>1. /\ req[s].op = "pop" /\ lock = s /\ req[s] \in Requests /\ Sweeps(req[s])
      /\ req[s].m \in Models /\ req[s].todo = {}
      /\ UNCHANGED <<rows, mlx, lock, swept>>
  BY LockHolds DEF EvictPop, SInv, Sweeps, Carries
<1>2. /\ entry' \in [Models -> Entry \cup {Absent}] /\ tracked' \subseteq Models
      /\ entry'[req[s].m] = Absent /\ \A x \in Models \ {req[s].m} : entry'[x] = entry[x]
  BY <1>1 DEF EvictPop, SInv, TypeOK
<1> DEFINE q == [req[s] EXCEPT !.op = "scan", !.m = None, !.expired = @ \ {req[s].m}]
<1>3. /\ q \in Requests /\ q.op = "scan" /\ q.d = req[s].d /\ q.todo = {}
      /\ q.expired = req[s].expired \ {req[s].m} /\ q.shield = req[s].shield
  BY <1>1 DEF Requests, Ops
<1>4. Set(s, q)
  BY DEF EvictPop
<1> HIDE DEF q
<1>5. PICK r \in Requests : r = q
  BY <1>3
<1>6. Sweeps(r)'
  <2>1. \A x \in r.todo \cup r.expired : entry'[x] # Absent
    BY <1>1, <1>2, <1>3, <1>5 DEF Sweeps, Requests
  <2> QED BY <2>1, <1>1, <1>3, <1>5 DEF Sweeps, rows
<1>7. \A x \in Slots \ {s} : req[x].op \in {"deploy", "create"} => r.d # req[x].d
  BY <1>3, <1>5 DEF SInv, Creates
<1>8. \A x \in Models : entry'[x] # Absent =>
        \/ x \in Accounted'
        \/ \E y \in Slots \ {s} : req[y].op = "forget" /\ req[y].m = x
  <2> SUFFICES ASSUME NEW x \in Models, entry'[x] # Absent, x \notin Accounted
               PROVE  \E y \in Slots \ {s} : req[y].op = "forget" /\ req[y].m = x
    BY <1>1 DEF Accounted, mlx
  <2>1. Loaded(x) /\ x # req[s].m
    BY <1>2 DEF Loaded
  <2>2. PICK y \in Slots : req[y].op \in {"forget", "pop"} /\ req[y].m = x
    BY <2>1 DEF SInv, TableTruth, Accounted
  <2> QED BY <1>1, <2>1, <2>2, LockHolds, NamesAssumption
<1>9. /\ swept' \in 0..SweepEvery
      /\ engine' \in [Engines -> SUBSET Names]
      /\ outside' \subseteq Models /\ overtaken' \subseteq Models
      /\ \A x \in Slots : req[x].op \in {"install", "swap"} => req[x].m \in Accounted'
  BY <1>1 DEF SInv, TypeOK, Holds, Accounted, mlx
<1>10. Set(s, r) /\ r.op = "scan" /\ lock' = s
  BY <1>1, <1>3, <1>4, <1>5
<1> QED BY <1>1, <1>2, <1>6, <1>7, <1>8, <1>9, <1>10, SweepStep

-----------------------------------------------------------------------------
(* Steps that write a deployment                                           *)

\* The rows change, and at most one request with them, to end or to mark.
LEMMA RowsKeep ==
  ASSUME SInv, UNCHANGED <<hub, mlx, pinned, registered>>,
         dep' \in [Deps -> Rows \cup {NoRow}], earned' \in [Deps -> Engines \cup {None, "operator"}],
         RunningWasLoaded', req' \in [Slots -> Requests],
         \A x \in Slots :
           \/ req'[x] = req[x]
           \/ /\ req[x].op \notin {"scan", "pop", "forget"} /\ req'[x].op \in {"idle", "mark"}
              /\ Carries(req'[x]),
         \A x \in Slots : Creates(x)'
  PROVE  SInv'
<1>1. \A x \in Slots : Carries(req[x]) /\ Sweeps(req[x]) /\ Holds(req[x])
  BY DEF SInv
<1>2. UNCHANGED <<entry, lock, swept, tracked, engine, outside, overtaken, pinned, registered>>
  BY DEF hub, mlx
<1>3. \A x \in Slots : req'[x] = req[x] \/ (/\ req'[x].todo = {} /\ req'[x].expired = {}
                                            /\ req'[x].shield = {} /\ req'[x].op \in {"idle", "mark"})
  BY DEF Carries
<1>4. TypeOK'
  <2>1. \A x \in Slots : lock' = x <=> req'[x].op \in {"scan", "pop"}
    BY <1>2, LockHolds
  <2>2. \A x \in Slots : req'[x].expired \subseteq {m \in Models : entry'[m] # Absent}
    BY <1>2, <1>3 DEF SInv, TypeOK
  <2> QED BY <1>2, <2>1, <2>2 DEF SInv, TypeOK
<1>5. TableTruth'
  <2> SUFFICES ASSUME NEW m \in Models, Loaded(m), m \notin Accounted
               PROVE  \E x \in Slots : req'[x].op \in {"forget", "pop"} /\ req'[x].m = m
    BY <1>2 DEF TableTruth, Accounted, Loaded
  <2>1. PICK x \in Slots : req[x].op \in {"forget", "pop"} /\ req[x].m = m
    BY DEF SInv, TableTruth, Accounted
  <2> QED BY <2>1
<1>6. ASSUME NEW x \in Slots
      PROVE  (Carries(req[x]) /\ Sweeps(req[x]) /\ Holds(req[x]))'
  <2>1. Carries(req'[x])
    BY <1>1
  <2>2. Sweeps(req[x])'
    BY <1>1, <1>2, <1>3 DEF Sweeps
  <2>3. Holds(req[x])'
    BY <1>1, <1>2 DEF Holds, Accounted
  <2> QED BY <2>1, <2>2, <2>3 DEF Carries
<1> QED BY <1>4, <1>5, <1>6 DEF SInv

LEMMA RowFacts ==
  /\ \A m \in Models, n \in Engines : Row(m, n) \in Rows /\ Row(m, n).status = "pending"
                                      /\ Row(m, n).node = n
  /\ NoRow.status = "none" /\ NoRow \notin Rows
BY NamesAssumption DEF Row, Rows, NoRow, Status

LEMMA DeployCreateKeeps == ASSUME SInv, NEW s \in Slots, DeployCreate(s) PROVE SInv'
<1>1. /\ req[s].op = "create" /\ req[s].m \in Models /\ req[s].e \in Engines /\ req[s].d \in Deps
      /\ req[s].v \in {None, req[s].e} /\ req[s].todo = {} /\ req[s].expired = {}
      /\ req[s].shield = {}
      /\ dep[req[s].d] = NoRow /\ \A x \in Slots \ {s} : req[x].d # req[s].d
  BY DEF DeployCreate, SInv, Carries, Creates
<1>2. /\ dep' = [dep EXCEPT ![req[s].d] = Row(req[s].m, req[s].e)]
      /\ UNCHANGED <<hub, mlx, pinned, registered, earned>>
  BY DEF DeployCreate
<1>3. PICK r \in Requests :
        /\ Set(s, r) /\ r.op = "mark" /\ r.m = req[s].m /\ r.d = req[s].d /\ r.e = req[s].e
        /\ r.v = req[s].v /\ r.todo = {} /\ r.expired = {} /\ r.shield = {}
  <2>1. Goto(s, "mark") /\ "mark" \in Ops
    BY DEF DeployCreate, Ops
  <2> QED BY <1>1, <2>1, GotoKeepsFields
<1>4. /\ req' \in [Slots -> Requests] /\ req'[s] = r
      /\ \A x \in Slots \ {s} : req'[x] = req[x]
  BY <1>3, SetSlot
<1>5. /\ dep' \in [Deps -> Rows \cup {NoRow}] /\ dep'[req[s].d].node = req[s].e
      /\ dep'[req[s].d].status = "pending"
      /\ \A d \in Deps \ {req[s].d} : dep'[d] = dep[d]
  BY <1>1, <1>2, RowFacts DEF SInv, TypeOK
<1>6. earned' \in [Deps -> Engines \cup {None, "operator"}]
  BY <1>2 DEF SInv, TypeOK
<1>7. RunningWasLoaded'
  BY <1>2, <1>5 DEF SInv, RunningWasLoaded
<1>8. Carries(r)
  BY <1>1, <1>3 DEF Carries
<1>9. ASSUME NEW x \in Slots PROVE Creates(x)'
  <2>1. CASE x = s
    BY <2>1, <1>3, <1>4, <1>5 DEF Creates
  <2>2. CASE x # s
    <3>1. Creates(x) /\ req'[x] = req[x] /\ req[x].d # req[s].d /\ Carries(req[x])
      BY <2>2, <1>1, <1>4 DEF SInv
    <3>2. req[x].op \in {"deploy", "create", "mark"} => dep'[req[x].d] = dep[req[x].d]
      BY <3>1, <1>5 DEF Carries
    <3> QED BY <2>2, <3>1, <3>2, <1>3, <1>4 DEF Creates
  <2> QED BY <2>1, <2>2
<1> QED BY <1>1, <1>2, <1>3, <1>4, <1>5, <1>6, <1>7, <1>8, <1>9, RowsKeep

\* A request ends with a change of its row, which stays a row of the node it
\* names, or goes.
LEMMA EndKeeps ==
  ASSUME SInv, NEW s \in Slots, Done(s), NEW d \in Deps,
         req[s].op \in {"mark", "stopped", "deleted"},
         UNCHANGED <<hub, mlx, pinned, registered>>,
         dep' \in [Deps -> Rows \cup {NoRow}], earned' \in [Deps -> Engines \cup {None, "operator"}],
         RunningWasLoaded',
         \A x \in Deps : dep[x] = NoRow => dep'[x] = NoRow,
         \A x \in Deps : dep'[x] = NoRow \/ dep'[x].node = dep[x].node
  PROVE  SInv'
<1>1. Idle.op = "idle" /\ Idle.d = None /\ Carries(Idle)
  BY DEF Idle, Carries
<1>2. /\ req' \in [Slots -> Requests] /\ req'[s] = Idle
      /\ \A x \in Slots \ {s} : req'[x] = req[x]
  BY IdleIsRequest, SetSlot DEF Done
<1>3. ASSUME NEW x \in Slots PROVE Creates(x)'
  <2>1. CASE x = s
    BY <2>1, <1>1, <1>2 DEF Creates
  <2>2. CASE x # s
    <3>1. Creates(x) /\ req'[x] = req[x] /\ Carries(req[x])
      BY <2>2, <1>2 DEF SInv
    <3> QED BY <2>2, <3>1, <1>1, <1>2, NamesAssumption DEF Creates, Carries
  <2> QED BY <2>1, <2>2
<1> QED BY <1>1, <1>2, <1>3, RowsKeep

LEMMA DeployMarkKeeps == ASSUME SInv, NEW s \in Slots, DeployMark(s) PROVE SInv'
<1> DEFINE d == req[s].d
<1>1. /\ req[s].op = "mark" /\ d \in Deps /\ req[s].v \in {None, req[s].e} /\ req[s].e \in Engines
      /\ Done(s) /\ UNCHANGED <<hub, mlx, pinned, registered>>
      /\ dep[d] # NoRow => dep[d].node = req[s].e
  BY DEF DeployMark, SInv, Carries, Creates
<1>2. CASE dep[d] = NoRow
  <2>1. UNCHANGED <<dep, earned>>
    BY <1>2 DEF DeployMark
  <2>2. /\ dep' \in [Deps -> Rows \cup {NoRow}]
        /\ earned' \in [Deps -> Engines \cup {None, "operator"}] /\ RunningWasLoaded'
    BY <2>1 DEF SInv, TypeOK, RunningWasLoaded
  <2> QED BY <1>1, <2>1, <2>2, EndKeeps
<1>3. CASE dep[d] # NoRow
  <2>1. PICK st \in {"running", "pending"} :
          /\ dep' = [dep EXCEPT ![d].status = st] /\ (st = "running" => req[s].v # None)
          /\ earned' = [earned EXCEPT ![d] = req[s].v]
    BY <1>3 DEF DeployMark, Update
  <2>2. dep[d] \in Rows
    BY <1>1, <1>3 DEF SInv, TypeOK
  <2> DEFINE q == [dep[d] EXCEPT !.status = st]
  <2>3. q \in Rows /\ q.node = dep[d].node /\ q.status = st
    BY <2>2 DEF Rows, Status
  <2>4. dep' = [dep EXCEPT ![d] = q]
    BY <2>1
  <2> HIDE DEF q
  <2>5. /\ dep' \in [Deps -> Rows \cup {NoRow}] /\ dep'[d] = q
        /\ \A x \in Deps \ {d} : dep'[x] = dep[x]
    BY <1>1, <2>3, <2>4 DEF SInv, TypeOK
  <2>6. /\ earned' \in [Deps -> Engines \cup {None, "operator"}] /\ earned'[d] = req[s].v
        /\ \A x \in Deps \ {d} : earned'[x] = earned[x]
    BY <1>1, <2>1 DEF SInv, TypeOK
  <2>7. st = "running" => req[s].v = dep[d].node
    BY <1>1, <1>3, <2>1
  <2>8. RunningWasLoaded'
    BY <2>3, <2>5, <2>6, <2>7 DEF SInv, RunningWasLoaded
  <2>9. /\ \A x \in Deps : dep[x] = NoRow => dep'[x] = NoRow
        /\ \A x \in Deps : dep'[x] = NoRow \/ dep'[x].node = dep[x].node
    BY <1>3, <2>3, <2>5
  <2> HIDE DEF d
  <2> QED BY <1>1, <2>5, <2>6, <2>8, <2>9, EndKeeps
<1> QED BY <1>2, <1>3

LEMMA WithdrawMarkKeeps == ASSUME SInv, NEW s \in Slots, WithdrawMark(s) PROVE SInv'
<1> DEFINE d == req[s].d
<1>1. /\ req[s].op \in {"stopped", "deleted"} /\ d \in Deps
      /\ Done(s) /\ UNCHANGED <<hub, mlx, pinned, registered>>
  BY DEF WithdrawMark, SInv, Carries
<1>2. /\ earned' \in [Deps -> Engines \cup {None, "operator"}]
      /\ \A x \in Deps \ {d} : earned'[x] = earned[x]
  BY <1>1 DEF WithdrawMark, SInv, TypeOK
<1>3. /\ dep' \in [Deps -> Rows \cup {NoRow}]
      /\ \A x \in Deps \ {d} : dep'[x] = dep[x]
      /\ dep[d] = NoRow => dep'[d] = NoRow
      /\ dep'[d] = NoRow \/ (dep'[d].node = dep[d].node /\ dep'[d].status = "stopped")
  <2>1. CASE dep[d] = NoRow
    BY <1>1, <2>1 DEF WithdrawMark, SInv, TypeOK
  <2>2. CASE dep[d] # NoRow /\ req[s].op = "deleted"
    BY <1>1, <2>2 DEF WithdrawMark, SInv, TypeOK
  <2>3. CASE dep[d] # NoRow /\ req[s].op = "stopped"
    <3>1. dep[d] \in Rows
      BY <1>1, <2>3 DEF SInv, TypeOK
    <3> DEFINE q == [dep[d] EXCEPT !.status = "stopped"]
    <3>2. q \in Rows /\ q.node = dep[d].node /\ q.status = "stopped"
      BY <3>1 DEF Rows, Status
    <3>3. dep' = [dep EXCEPT ![d] = q]
      BY <2>3 DEF WithdrawMark
    <3> HIDE DEF q
    <3> QED BY <1>1, <2>3, <3>2, <3>3 DEF SInv, TypeOK
  <2> QED BY <1>1, <2>1, <2>2, <2>3
<1>4. RunningWasLoaded'
  BY <1>2, <1>3, RowFacts DEF SInv, RunningWasLoaded
<1>5. /\ \A x \in Deps : dep[x] = NoRow => dep'[x] = NoRow
      /\ \A x \in Deps : dep'[x] = NoRow \/ dep'[x].node = dep[x].node
  BY <1>3
<1> HIDE DEF d
<1> QED BY <1>1, <1>2, <1>3, <1>4, <1>5, EndKeeps

LEMMA OperatorKeeps == ASSUME SInv, NEW d \in Deps, Patch(d) \/ Gray(d) PROVE SInv'
<1>1. /\ dep[d] \in Rows /\ dep[d] # NoRow /\ UNCHANGED <<hub, mlx, req, pinned, registered>>
  BY DEF Patch, Gray, SInv, TypeOK
<1>2. PICK q \in Rows :
        /\ dep' = [dep EXCEPT ![d] = q] /\ q.node = dep[d].node
        /\ \/ earned' = [earned EXCEPT ![d] = IF dep'[d].status = "running" THEN "operator" ELSE None]
           \/ UNCHANGED earned /\ q.status = dep[d].status
  <2>1. CASE Patch(d)
    <3>1. PICK st \in Status : Update(d, "status", st)
      BY <2>1 DEF Patch
    <3> DEFINE r == [dep[d] EXCEPT !.status = st]
    <3>2. r \in Rows /\ r.node = dep[d].node
      BY <1>1 DEF Rows
    <3>3. dep' = [dep EXCEPT ![d] = r]
      BY <3>1 DEF Update
    <3> HIDE DEF r
    <3> QED BY <2>1, <3>2, <3>3 DEF Patch
  <2>2. CASE Gray(d)
    <3>1. PICK g \in Models \cup {None} : Update(d, "gray", g)
      BY <2>2 DEF Gray
    <3> DEFINE r == [dep[d] EXCEPT !.gray = g]
    <3>2. r \in Rows /\ r.node = dep[d].node /\ r.status = dep[d].status
      BY <1>1 DEF Rows
    <3>3. dep' = [dep EXCEPT ![d] = r]
      BY <3>1 DEF Update
    <3> HIDE DEF r
    <3> QED BY <2>2, <3>2, <3>3 DEF Gray
  <2> QED BY <2>1, <2>2
<1>3. /\ dep' \in [Deps -> Rows \cup {NoRow}] /\ dep'[d] = q
      /\ \A x \in Deps \ {d} : dep'[x] = dep[x]
  BY <1>2 DEF SInv, TypeOK
<1>4. /\ earned' \in [Deps -> Engines \cup {None, "operator"}]
      /\ \A x \in Deps \ {d} : earned'[x] = earned[x]
      /\ \/ earned'[d] = IF q.status = "running" THEN "operator" ELSE None
         \/ earned'[d] = earned[d] /\ q.status = dep[d].status
  BY <1>2, <1>3 DEF SInv, TypeOK
<1>5. RunningWasLoaded'
  BY <1>2, <1>3, <1>4 DEF SInv, RunningWasLoaded
<1>6. ASSUME NEW x \in Slots PROVE Creates(x)'
  <2>1. Creates(x) /\ req' = req /\ Carries(req[x])
    BY <1>1 DEF SInv
  <2> QED BY <1>1, <1>2, <1>3, <2>1 DEF Creates, Carries
<1>7. req' \in [Slots -> Requests] /\ req' = req
  BY <1>1 DEF SInv
<1> QED BY <1>1, <1>3, <1>4, <1>5, <1>6, <1>7, RowsKeep

-----------------------------------------------------------------------------
(* Steps of the rest of the world                                          *)

LEMMA PinKeeps == ASSUME SInv, NEW m \in Models, Pin(m) PROVE SInv'
<1>1. /\ pinned' = pinned \cup {m} /\ UNCHANGED <<entry, lock, swept, tracked, engine, outside, overtaken, req>>
      /\ UNCHANGED <<dep, registered, earned>>
  BY DEF Pin, hub, mlx
<1>2. TypeOK' /\ RunningWasLoaded' /\ TableTruth'
  BY <1>1 DEF SInv, TypeOK, RunningWasLoaded, TableTruth, Accounted, Loaded
<1>3. \A x \in Slots : Carries(req[x])' /\ Sweeps(req[x])' /\ Holds(req[x])' /\ Creates(x)'
  BY <1>1 DEF SInv, Carries, Sweeps, Holds, Accounted, Creates
<1> QED BY <1>1, <1>2, <1>3 DEF SInv, Carries

LEMMA UnpinKeeps == ASSUME SInv, NEW m \in Models, Unpin(m) PROVE SInv'
<1>1. /\ pinned' = pinned \ {m} /\ UNCHANGED <<entry, lock, swept, tracked, engine, outside, overtaken>>
      /\ UNCHANGED <<dep, registered, earned>>
      /\ req' = [s \in Slots |-> [req[s] EXCEPT !.shield = @ \ {m}]]
  BY DEF Unpin, hub, mlx
<1>2. \A x \in Slots :
        /\ req'[x] \in Requests /\ req'[x].op = req[x].op /\ req'[x].m = req[x].m
        /\ req'[x].v = req[x].v /\ req'[x].d = req[x].d /\ req'[x].e = req[x].e
        /\ req'[x].todo = req[x].todo /\ req'[x].expired = req[x].expired
        /\ req'[x].shield = req[x].shield \ {m}
  BY <1>1 DEF SInv, Requests
<1>3. req' \in [Slots -> Requests]
  BY <1>1, <1>2
<1>4. TypeOK'
  <2>1. pinned' \subseteq Models
    BY <1>1 DEF SInv, TypeOK
  <2>2. \A x \in Slots :
          /\ lock' = x <=> req'[x].op \in {"scan", "pop"}
          /\ req'[x].expired \subseteq {y \in Models : entry'[y] # Absent}
    <3> SUFFICES ASSUME NEW x \in Slots
                 PROVE  /\ lock' = x <=> req'[x].op \in {"scan", "pop"}
                        /\ req'[x].expired \subseteq {y \in Models : entry'[y] # Absent}
      OBVIOUS
    <3>1. /\ lock = x <=> req[x].op \in {"scan", "pop"}
          /\ req[x].expired \subseteq {y \in Models : entry[y] # Absent}
      BY DEF SInv, TypeOK
    <3> QED BY <1>1, <1>2, <3>1
  <2>3. /\ entry' \in [Models -> Entry \cup {Absent}]
        /\ lock' \in Slots \cup {None} /\ swept' \in 0..SweepEvery /\ tracked' \subseteq Models
        /\ dep' \in [Deps -> Rows \cup {NoRow}] /\ registered' \subseteq Nodes
        /\ engine' \in [Engines -> SUBSET Names]
        /\ earned' \in [Deps -> Engines \cup {None, "operator"}] /\ outside' \subseteq Models /\ overtaken' \subseteq Models
    BY <1>1 DEF SInv, TypeOK
  <2> QED BY <2>1, <2>2, <2>3 DEF TypeOK
<1>5. RunningWasLoaded' /\ TableTruth'
  <2>1. RunningWasLoaded'
    BY <1>1 DEF SInv, RunningWasLoaded
  <2>2. TableTruth'
    <3> SUFFICES ASSUME NEW y \in Models, Loaded(y), y \notin Accounted
                 PROVE  \E x \in Slots : req'[x].op \in {"forget", "pop"} /\ req'[x].m = y
      BY <1>1 DEF TableTruth, Accounted, Loaded
    <3>1. PICK x \in Slots : req[x].op \in {"forget", "pop"} /\ req[x].m = y
      BY DEF SInv, TableTruth, Accounted
    <3> QED BY <3>1, <1>2
  <2> QED BY <2>1, <2>2
<1>6. ASSUME NEW x \in Slots
      PROVE  (Carries(req[x]) /\ Sweeps(req[x]) /\ Holds(req[x]) /\ Creates(x))'
  <2>1. Carries(req[x]) /\ Sweeps(req[x]) /\ Holds(req[x]) /\ Creates(x)
    BY DEF SInv
  <2>2. Carries(req'[x])
    BY <2>1, <1>2 DEF Carries
  <2>3. Sweeps(req[x])'
    BY <2>1, <1>1, <1>2 DEF Sweeps
  <2>4. Holds(req[x])'
    BY <2>1, <1>1, <1>2 DEF Holds, Accounted
  <2>5. Creates(x)'
    BY <2>1, <1>1, <1>2 DEF Creates
  <2> QED BY <2>2, <2>3, <2>4, <2>5 DEF Carries
<1> QED BY <1>3, <1>4, <1>5, <1>6 DEF SInv

\* An engine that drops its models does it behind the hub's back.
LEMMA DropsKeep == ASSUME SInv, NEW e \in Engines, EngineDrops(e) PROVE SInv'
<1>1. UNCHANGED <<entry, lock, swept, tracked, pinned, dep, registered, earned, req>>
  BY DEF EngineDrops, hub, rows
<1>2. /\ engine' \in [Engines -> SUBSET Names]
      /\ outside' \subseteq Models /\ overtaken' \subseteq Models
      /\ Accounted \subseteq Accounted'
  BY DEF EngineDrops, Accounted, SInv, TypeOK, Engines
<1>3. TypeOK' /\ RunningWasLoaded'
  BY <1>1, <1>2 DEF SInv, TypeOK, RunningWasLoaded
<1>4. TableTruth'
  BY <1>1, <1>2 DEF SInv, TableTruth, Accounted, Loaded
<1>5. \A x \in Slots : Carries(req[x])' /\ Sweeps(req[x])' /\ Holds(req[x])' /\ Creates(x)'
  BY <1>1, <1>2 DEF SInv, Carries, Sweeps, Holds, Creates
<1> QED BY <1>1, <1>3, <1>4, <1>5 DEF SInv, Carries

LEMMA RemoveKeeps == ASSUME SInv, NEW n \in Nodes, RemoveNode(n) PROVE SInv'
<1>1. /\ UNCHANGED <<entry, lock, swept, tracked, pinned, dep, engine, outside, overtaken, earned, req>>
      /\ registered' = registered \ {n}
  BY DEF RemoveNode, hub, mlx
<1>2. TypeOK' /\ RunningWasLoaded' /\ TableTruth'
  BY <1>1 DEF SInv, TypeOK, RunningWasLoaded, TableTruth, Accounted, Loaded
<1>3. \A x \in Slots : Carries(req[x])' /\ Sweeps(req[x])' /\ Holds(req[x])' /\ Creates(x)'
  BY <1>1 DEF SInv, Carries, Sweeps, Holds, Accounted, Creates
<1> QED BY <1>1, <1>2, <1>3 DEF SInv, Carries

LEMMA StutterKeeps == ASSUME SInv, UNCHANGED vars PROVE SInv'
<1>1. UNCHANGED <<entry, lock, swept, tracked, pinned, dep, registered, engine, outside, overtaken, earned, req>>
  BY DEF vars
<1>2. TypeOK' /\ RunningWasLoaded' /\ TableTruth'
  BY <1>1 DEF SInv, TypeOK, RunningWasLoaded, TableTruth, Accounted, Loaded
<1>3. \A x \in Slots : Carries(req[x])' /\ Sweeps(req[x])' /\ Holds(req[x])' /\ Creates(x)'
  BY <1>1 DEF SInv, Carries, Sweeps, Holds, Accounted, Creates
<1> QED BY <1>1, <1>2, <1>3 DEF SInv, Carries

\* A record grows older; what is loaded and what was scanned stay so.
LEMMA TickKeeps == ASSUME SInv, Tick PROVE SInv'
<1>1. UNCHANGED <<lock, tracked, pinned, dep, registered, engine, outside, overtaken, earned, req>>
  BY DEF Tick, rows, mlx
<1>2. swept' \in 0..SweepEvery
  BY ServingAssumption DEF Tick, SInv, TypeOK
<1>3. \A m \in Models : /\ entry'[m] \in Entry \cup {Absent}
                        /\ entry'[m] # Absent <=> entry[m] # Absent
                        /\ entry'[m].scanned = entry[m].scanned
  <2> SUFFICES ASSUME NEW m \in Models
               PROVE  /\ entry'[m] \in Entry \cup {Absent}
                      /\ entry'[m] # Absent <=> entry[m] # Absent
                      /\ entry'[m].scanned = entry[m].scanned
    OBVIOUS
  <2>1. \A y \in Entry : y # Absent
    BY NamesAssumption DEF Entry, Absent
  <2>2. CASE Loaded(m) /\ entry[m].age <= Ttl
    <3>1. entry[m] \in Entry
      BY <2>2 DEF Loaded, SInv, TypeOK
    <3> DEFINE q == [entry[m] EXCEPT !.age = @ + 1]
    <3>2. q \in Entry /\ q.scanned = entry[m].scanned
      <4>1. entry[m].age + 1 \in 0..(Ttl + 1)
        BY <2>2, <3>1, ServingAssumption DEF Entry
      <4> QED BY <3>1, <4>1 DEF Entry
    <3>3. entry'[m] = q
      BY <2>2 DEF Tick
    <3> HIDE DEF q
    <3> QED BY <2>1, <3>1, <3>2, <3>3
  <2>3. CASE ~(Loaded(m) /\ entry[m].age <= Ttl)
    <3>1. entry'[m] = entry[m]
      BY <2>3 DEF Tick
    <3> QED BY <3>1 DEF SInv, TypeOK
  <2> QED BY <2>2, <2>3
<1>4. entry' \in [Models -> Entry \cup {Absent}]
  <2>1. \E f : entry' = [m \in Models |-> f[m]]
    <3>1. entry' = [m \in Models |-> entry'[m]]
      BY DEF Tick
    <3> QED BY <3>1
  <2> QED BY <2>1, <1>3
<1>5. TypeOK' /\ RunningWasLoaded' /\ TableTruth'
  BY <1>1, <1>2, <1>3, <1>4 DEF SInv, TypeOK, RunningWasLoaded, TableTruth, Accounted, Loaded
<1>6. ASSUME NEW x \in Slots
      PROVE  Carries(req[x])' /\ Sweeps(req[x])' /\ Holds(req[x])' /\ Creates(x)'
  <2>1. req[x] \in Requests /\ Carries(req[x]) /\ Sweeps(req[x]) /\ Holds(req[x]) /\ Creates(x)
    BY DEF SInv
  <2>2. Carries(req[x])' /\ Holds(req[x])' /\ Creates(x)'
    BY <1>1, <2>1 DEF Carries, Holds, Accounted, Creates
  <2>3. Sweeps(req[x])'
    <3>1. req[x].todo \cup req[x].expired \subseteq Models
      BY <2>1 DEF Requests
    <3> QED BY <1>1, <1>3, <2>1, <3>1 DEF Sweeps
  <2> QED BY <2>2, <2>3
<1> QED BY <1>1, <1>5, <1>6 DEF SInv, Carries

LEMMA RestartKeeps == ASSUME SInv, Restart PROVE SInv'
<1>1. /\ UNCHANGED <<pinned, dep, registered, engine, outside, overtaken, earned>>
      /\ entry' = [m \in Models |-> Absent] /\ lock' = None /\ swept' = SweepEvery
      /\ tracked' = {} /\ req' = [s \in Slots |-> Idle]
  BY DEF Restart, rows, mlx
<1>2. \A x \in Slots : req'[x] = Idle
  BY <1>1
<1>3. /\ Idle.op = "idle" /\ Idle.expired = {} /\ Idle.todo = {} /\ Idle.shield = {}
      /\ Carries(Idle)
  BY DEF Idle, Carries
<1>4. TypeOK'
  BY <1>1, <1>2, <1>3, ServingAssumption, NamesAssumption DEF SInv, TypeOK
<1>5. RunningWasLoaded' /\ TableTruth'
  BY <1>1 DEF SInv, RunningWasLoaded, TableTruth, Accounted, Loaded
<1>6. \A x \in Slots : Carries(req'[x]) /\ Sweeps(req[x])' /\ Holds(req[x])' /\ Creates(x)'
  BY <1>2, <1>3 DEF Sweeps, Holds, Creates
<1>7. req' \in [Slots -> Requests]
  BY <1>1, IdleIsRequest
<1> QED BY <1>4, <1>5, <1>6, <1>7 DEF SInv, Carries

-----------------------------------------------------------------------------
(* The theorems                                                            *)

LEMMA NextKeeps == ASSUME SInv, [Next]_vars PROVE SInv'
<1>1. CASE \E s \in Slots : Serve(s) \/ HotReload(s)
  BY <1>1, ServeKeeps
<1>2. CASE \E s \in Slots : ServeLoad(s) \/ ReloadLoad(s)
  BY <1>2, PostKeeps
<1>3. CASE \E s \in Slots : Install(s) \/ Swap(s)
  BY <1>3, RecordKeeps
<1>4. CASE \E s \in Slots : SweepBegin(s) \/ Scan(s) \/ Evict(s) \/ EvictPop(s) \/ SweepDone(s)
  BY <1>4, SweepBeginKeeps, ScanKeeps, EvictKeeps, EvictPopKeeps, SweepDoneKeeps
<1>5. CASE \E s \in Slots : UnloadStart(s) \/ Scale(s) \/ Chat(s) \/ Completion(s) \/ Embedding(s)
  BY <1>5, AskKeeps
<1>6. CASE \E s \in Slots : UnloadSend(s) \/ UnloadPop(s)
  BY <1>6, UnloadSendKeeps, UnloadPopKeeps
<1>7. CASE \E s \in Slots : Answer(s) \/ ScaleLoad(s)
  BY <1>7, AnswerKeeps
<1>8. CASE \E s \in Slots : Deploy(s) \/ DeployLoad(s) \/ DeployCreate(s) \/ DeployMark(s)
  BY <1>8, DeployKeeps, DeployLoadKeeps, DeployCreateKeeps, DeployMarkKeeps
<1>9. CASE \E s \in Slots : \/ Withdraw(s, "stop") \/ Withdraw(s, "delete")
                            \/ WithdrawUnload(s) \/ WithdrawMark(s)
  BY <1>9, WithdrawKeeps, WithdrawUnloadKeeps, WithdrawMarkKeeps
<1>10. CASE \E m \in Models : Pin(m) \/ Unpin(m)
  BY <1>10, PinKeeps, UnpinKeeps
<1>11. CASE \E d \in Deps : Patch(d) \/ Gray(d)
  BY <1>11, OperatorKeeps
<1>12. CASE (\E n \in Nodes : RemoveNode(n)) \/ (\E e \in Engines : EngineDrops(e))
  BY <1>12, RemoveKeeps, DropsKeep
<1>13. CASE Tick \/ Restart \/ UNCHANGED vars
  BY <1>13, TickKeeps, RestartKeeps, StutterKeeps
<1> QED
  BY <1>1, <1>2, <1>3, <1>4, <1>5, <1>6, <1>7, <1>8, <1>9, <1>10, <1>11, <1>12, <1>13 DEF Next

\* A deployment reads RUNNING only if the engine of its node took the model or
\* an operator said so. A record of the table without weights on the hub's
\* engine is about to be dropped, or an engine, a deployment or an unload that
\* overtook the load or named another record of the same name took them.
THEOREM BooksAlwaysTrue == Spec => []BooksTrue
<1>1. Init => SInv
  BY ServingStarts
<1>2. SInv /\ [Next]_vars => SInv'
  BY NextKeeps
<1>3. SInv => BooksTrue
  BY DEF SInv, BooksTrue
<1> QED BY <1>1, <1>2, <1>3, PTL DEF Spec

\* The TTL sweep of the proxy drops no record newer than its scan, and no model
\* pinned from its start on whose pin it could read.
THEOREM SweepAlwaysFair == Spec => SweepIsFair
<1>1. Init => SInv
  BY ServingStarts
<1>2. SInv /\ [Next]_vars => SInv'
  BY NextKeeps
<1>3. SInv => \A s \in Slots, m \in Models :
        Evicting(s, m) => entry[m].scanned /\ m \notin req[s].shield
  <2> SUFFICES ASSUME SInv, NEW s \in Slots, NEW m \in Models, Evicting(s, m)
               PROVE  entry[m].scanned /\ m \notin req[s].shield
    OBVIOUS
  <2>1. req[s].op = "pop" /\ req[s].m = m /\ Sweeps(req[s])
    BY DEF SInv, Evicting
  <2> QED BY <2>1 DEF Sweeps
<1> QED BY <1>1, <1>2, <1>3, PTL DEF Spec, SweepIsFair

-----------------------------------------------------------------------------
(* The cluster's nodes: lists of them                                      *)

\* A list that names each element of S once.
Lists(q, S) ==
  /\ q \in Seq(NodeIds) /\ IsFiniteSet(S) /\ Len(q) = Cardinality(S)
  /\ \A i \in 1..Len(q) : q[i] \in S
  /\ \A x \in S : \E i \in 1..Len(q) : q[i] = x
  /\ \A i, j \in 1..Len(q) : q[i] = q[j] => i = j

LEMMA NodesFinite == IsFiniteSet(NodeIds) /\ \A S \in SUBSET NodeIds : IsFiniteSet(S)
BY ClusterAssumption, FS_Subset

\* ORDER BY created_at lists every row of a set, and none twice.
LEMMA NewestFirstLists ==
  ASSUME ClusterTypeOK, CreatedInTurn
  PROVE  \A S \in SUBSET Ever : Lists(NewestFirst(S), S)
<1> SUFFICES ASSUME NEW S \in SUBSET Ever PROVE Lists(NewestFirst(S), S)
  OBVIOUS
<1> DEFINE k == Cardinality(S)
           Upto(n) == {m \in S : created[m] >= created[n]}
           place == [n \in S |-> Cardinality(Upto(n))]
<1>1. S \subseteq NodeIds /\ IsFiniteSet(S) /\ k \in Nat
  BY NodesFinite, FS_CardinalityType DEF Ever
<1>2. \A n \in S : created[n] \in Nat
  BY <1>1 DEF ClusterTypeOK
<1>3. ASSUME NEW n \in S PROVE Cardinality(Upto(n)) \in 1..k
  <2>1. Upto(n) \in SUBSET S /\ n \in Upto(n)
    BY <1>2
  <2>2. IsFiniteSet(Upto(n)) /\ Cardinality(Upto(n)) <= k
    BY <1>1, <2>1, FS_Subset
  <2>3. Cardinality(Upto(n)) \in Nat /\ Cardinality(Upto(n)) # 0
    BY <2>1, <2>2, FS_EmptySet, FS_CardinalityType
  <2> HIDE DEF Upto
  <2> QED BY <1>1, <2>2, <2>3
<1>4. ASSUME NEW m \in S, NEW n \in S, created[m] > created[n]
      PROVE  Cardinality(Upto(m)) # Cardinality(Upto(n))
  <2>1. Upto(m) \in SUBSET Upto(n)
    BY <1>2, <1>4
  <2>2. n \in Upto(n) /\ n \notin Upto(m)
    BY <1>2, <1>4
  <2>3. Upto(n) \in SUBSET S
    OBVIOUS
  <2>4. IsFiniteSet(Upto(n))
    BY <1>1, <2>3, FS_Subset
  <2> HIDE DEF Upto
  <2> QED BY <2>1, <2>2, <2>4, FS_Subset
<1>5. \A m, n \in S : Cardinality(Upto(m)) = Cardinality(Upto(n)) => m = n
  <2> SUFFICES ASSUME NEW m \in S, NEW n \in S, m # n
               PROVE  Cardinality(Upto(m)) # Cardinality(Upto(n))
    OBVIOUS
  <2>1. created[m] # created[n] /\ created[m] \in Nat /\ created[n] \in Nat
    BY <1>2 DEF CreatedInTurn
  <2>2. created[m] > created[n] \/ created[n] > created[m]
    BY <2>1
  <2> HIDE DEF Upto
  <2> QED BY <1>4, <2>2
<1>6. place \in Injection(S, 1..k)
  <2> HIDE DEF Upto, k
  <2> QED BY <1>3, <1>5 DEF Injection, IsInjective
<1>7. IsFiniteSet(1..k) /\ Cardinality(1..k) = k
  BY <1>1, FS_Interval
<1>8. place \in Surjection(S, 1..k)
  BY <1>6, <1>7, FS_Injection
<1>9. \A i \in 1..k : \E n \in S : Cardinality(Upto(n)) = i
  <2> HIDE DEF Upto, k
  <2> QED BY <1>8 DEF Surjection
<1> DEFINE q == NewestFirst(S)
<1>10. q = [i \in 1..k |-> CHOOSE n \in S : Cardinality(Upto(n)) = i]
  BY DEF NewestFirst, Place
<1> HIDE DEF Upto, k, q
<1>11. \A i \in 1..k : q[i] \in S /\ Cardinality(Upto(q[i])) = i
  BY <1>9, <1>10
<1>12. q \in [1..k -> NodeIds]
  BY <1>1, <1>10, <1>11
<1>13. q \in Seq(NodeIds) /\ Len(q) = k
  BY <1>1, <1>12, SeqDef, LenProperties
<1>14. \A n \in S : q[Cardinality(Upto(n))] = n
  BY <1>3, <1>5, <1>11
<1> QED BY <1>1, <1>3, <1>11, <1>13, <1>14 DEF Lists, q, k

\* The order of rows that are there does not change.
LEMMA OrderKept ==
  \A S \in SUBSET NodeIds :
    (\A n \in S : created'[n] = created[n]) => NewestFirst(S)' = NewestFirst(S)
<1> SUFFICES ASSUME NEW S \in SUBSET NodeIds, \A n \in S : created'[n] = created[n]
             PROVE  NewestFirst(S)' = NewestFirst(S)
  OBVIOUS
<1>1. ASSUME NEW n \in S PROVE Place(n, S)' = Place(n, S)
  <2>1. {m \in S : created'[m] >= created'[n]} = {m \in S : created[m] >= created[n]}
    OBVIOUS
  <2> QED BY <2>1 DEF Place
<1>2. ASSUME NEW i \in 1..Cardinality(S)
      PROVE  (CHOOSE n \in S : Place(n, S)' = i) = (CHOOSE n \in S : Place(n, S) = i)
  BY <1>1
<1> QED BY <1>2 DEF NewestFirst

\* The failover drops the node it has tried.
LEMMA TailLists ==
  ASSUME NEW S, NEW q, Lists(q, S), q # <<>>
  PROVE  Head(q) \in S /\ Lists(Tail(q), S \ {Head(q)})
<1>1. q \in Seq(NodeIds) /\ Len(q) \in Nat \ {0} /\ Head(q) = q[1]
  BY EmptySeq DEF Lists
<1>2. /\ Tail(q) \in Seq(NodeIds)
      /\ Len(Tail(q)) = Len(q) - 1
      /\ \A i \in 1..Len(Tail(q)) : Tail(q)[i] = q[i+1]
  BY <1>1, HeadTailProperties
<1>3. Head(q) \in S
  BY <1>1 DEF Lists
<1>4. IsFiniteSet(S \ {Head(q)}) /\ Cardinality(S \ {Head(q)}) = Cardinality(S) - 1
  BY <1>3, FS_RemoveElement DEF Lists
<1>5. \A i \in 1..Len(Tail(q)) : Tail(q)[i] \in S \ {Head(q)}
  BY <1>1, <1>2 DEF Lists
<1>6. ASSUME NEW x \in S \ {Head(q)} PROVE \E i \in 1..Len(Tail(q)) : Tail(q)[i] = x
  <2>1. PICK i \in 1..Len(q) : q[i] = x
    BY DEF Lists
  <2>2. i # 1 /\ i - 1 \in 1..Len(Tail(q)) /\ (i - 1) + 1 = i
    BY <1>1, <1>2, <2>1, <1>6
  <2> QED BY <1>2, <2>1, <2>2
<1>7. \A i, j \in 1..Len(Tail(q)) : Tail(q)[i] = Tail(q)[j] => i = j
  BY <1>1, <1>2 DEF Lists
<1>8. Len(Tail(q)) = Cardinality(S \ {Head(q)})
  BY <1>2, <1>4 DEF Lists
<1> QED BY <1>2, <1>3, <1>4, <1>5, <1>6, <1>7, <1>8 DEF Lists

\* The rotated list names the same nodes, and begins where it was told to.
LEMMA RotateLists ==
  ASSUME NEW S, NEW q, Lists(q, S), NEW o \in 0..(Len(q) - 1)
  PROVE  Lists(Rotate(q, o), S) /\ Rotate(q, o) # <<>> /\ Head(Rotate(q, o)) = q[o + 1]
<1> DEFINE n == Len(q)
           a == SubSeq(q, o + 1, n)
           b == SubSeq(q, 1, o)
           r == Rotate(q, o)
<1>1. q \in Seq(NodeIds) /\ n \in Nat /\ o \in Nat /\ o < n
  BY LenProperties DEF Lists
<1>2. \A i \in 1..n : q[i] \in NodeIds
  BY <1>1, LenProperties
<1>3. a \in Seq(NodeIds) /\ Len(a) = n - o /\ \A i \in 1..(n - o) : a[i] = q[o + i]
  <2>1. \A i \in (o + 1)..n : q[i] \in NodeIds
    BY <1>1, <1>2
  <2>2. /\ a \in Seq(NodeIds)
        /\ Len(a) = IF o + 1 <= n THEN n - (o + 1) + 1 ELSE 0
        /\ \A i \in 1..(n - (o + 1) + 1) : a[i] = q[(o + 1) + i - 1]
    BY <1>1, <2>1, SubSeqProperties
  <2> QED BY <1>1, <2>2
<1>4. b \in Seq(NodeIds) /\ Len(b) = o /\ \A i \in 1..o : b[i] = q[i]
  <2>1. \A i \in 1..o : q[i] \in NodeIds
    BY <1>1, <1>2
  <2>2. /\ b \in Seq(NodeIds)
        /\ Len(b) = IF 1 <= o THEN o - 1 + 1 ELSE 0
        /\ \A i \in 1..(o - 1 + 1) : b[i] = q[1 + i - 1]
    BY <1>1, <2>1, SubSeqProperties
  <2> QED BY <1>1, <2>2
<1>5. r = a \o b
  BY DEF Rotate
<1> HIDE DEF a, b, r, n
<1>6. /\ r \in Seq(NodeIds)
      /\ Len(r) = n
      /\ \A i \in 1..n : r[i] = IF i <= n - o THEN q[o + i] ELSE q[i - (n - o)]
  <2>5. a \in Seq(NodeIds) /\ b \in Seq(NodeIds)
    BY <1>3, <1>4
  <2>6. /\ a \o b \in Seq(NodeIds)
        /\ Len(a \o b) = Len(a) + Len(b)
        /\ \A i \in 1..Len(a) + Len(b) :
              (a \o b)[i] = IF i <= Len(a) THEN a[i] ELSE b[i - Len(a)]
    BY <2>5, ConcatProperties
  <2>1. /\ r \in Seq(NodeIds)
        /\ Len(r) = Len(a) + Len(b)
        /\ \A i \in 1..Len(a) + Len(b) :
              r[i] = IF i <= Len(a) THEN a[i] ELSE b[i - Len(a)]
    BY <1>5, <2>6
  <2>2. Len(a) + Len(b) = n
    BY <1>1, <1>3, <1>4
  <2>3. ASSUME NEW i \in 1..n, i <= n - o PROVE r[i] = q[o + i]
    <3>1. i \in 1..(n - o) /\ i \in 1..Len(a) + Len(b) /\ i <= Len(a)
      BY <1>1, <1>3, <2>2, <2>3
    <3>2. r[i] = a[i]
      BY <2>1, <3>1
    <3> QED BY <1>3, <3>1, <3>2
  <2>4. ASSUME NEW i \in 1..n, ~(i <= n - o) PROVE r[i] = q[i - (n - o)]
    <3>1. i - (n - o) \in 1..o
      BY <1>1, <2>4
    <3>2. r[i] = b[i - (n - o)]
      BY <1>1, <1>3, <2>1, <2>2, <2>4
    <3> QED BY <1>4, <3>1, <3>2
  <2> QED BY <2>1, <2>2, <2>3, <2>4
<1>7. ASSUME NEW i \in 1..n PROVE r[i] \in S
  <2>1. \A j \in 1..n : q[j] \in S
    BY DEF Lists, n
  <2>2. CASE i <= n - o
    <3>1. o + i \in 1..n
      BY <1>1, <2>2
    <3> QED BY <1>6, <2>1, <2>2, <3>1
  <2>3. CASE ~(i <= n - o)
    <3>1. i - (n - o) \in 1..n
      BY <1>1, <2>3
    <3> QED BY <1>6, <2>1, <2>3, <3>1
  <2> QED BY <2>2, <2>3
<1>8. ASSUME NEW x \in S PROVE \E i \in 1..n : r[i] = x
  <2>1. PICK j \in 1..n : q[j] = x
    BY DEF Lists, n
  <2>2. CASE j > o
    <3>1. j - o \in 1..n /\ j - o <= n - o /\ o + (j - o) = j
      BY <1>1, <2>2
    <3> QED BY <1>6, <2>1, <3>1
  <2>3. CASE j <= o
    <3>1. j + (n - o) \in 1..n /\ ~(j + (n - o) <= n - o) /\ (j + (n - o)) - (n - o) = j
      BY <1>1, <2>3
    <3> QED BY <1>6, <2>1, <3>1
  <2> QED BY <1>1, <2>2, <2>3
<1>9. \A i, j \in 1..n : r[i] = r[j] => i = j
  <2> SUFFICES ASSUME NEW i \in 1..n, NEW j \in 1..n, r[i] = r[j] PROVE i = j
    OBVIOUS
  <2> DEFINE at(x) == IF x <= n - o THEN o + x ELSE x - (n - o)
  <2>1. at(i) \in 1..n /\ at(j) \in 1..n /\ r[i] = q[at(i)] /\ r[j] = q[at(j)]
    BY <1>1, <1>6
  <2>2. at(i) = at(j)
    BY <2>1 DEF Lists, n
  <2> QED BY <1>1, <2>2
<1>10. Len(r) = Cardinality(S) /\ IsFiniteSet(S)
  BY <1>6 DEF Lists, n
<1>11. Lists(r, S)
  BY <1>6, <1>7, <1>8, <1>9, <1>10 DEF Lists
<1>12. r # <<>> /\ Head(r) = r[1] /\ r[1] = q[o + 1]
  BY <1>1, <1>6, EmptySeq
<1> QED BY <1>11, <1>12 DEF r

-----------------------------------------------------------------------------
(* Remainders, as the round robin takes them                               *)

LEMMA Remainder ==
  ASSUME NEW a \in Nat, NEW k \in Nat \ {0}
  PROVE  /\ a % k \in 0..(k - 1)
         /\ \E q \in Nat : a = k * q + (a % k)
<1>1. a % k \in 0..(k - 1)
  OBVIOUS
<1> DEFINE d == a \div k
           m == a % k
<1>2. a = d * k + m
  BY SMTT(30)
<1>3. d \in Nat
  OBVIOUS
<1> HIDE DEF d, m
<1>4. a = k * d + m
  BY <1>2, <1>3
<1>5. \E q \in Nat : a = k * q + m
  BY <1>3, <1>4
<1> QED BY <1>1, <1>5 DEF m

LEMMA RemainderIs ==
  ASSUME NEW k \in Nat \ {0}, NEW q \in Nat, NEW r \in 0..(k - 1)
  PROVE  (k * q + r) % k = r
<1>1. k * q \in Nat /\ r \in Nat
  OBVIOUS
<1>2. k * q + r \in Nat
  BY <1>1
<1>3. PICK d \in Nat : k * q + r = k * d + ((k * q + r) % k)
  BY <1>2, Remainder
<1>4. (k * q + r) % k \in 0..(k - 1)
  BY <1>2, Remainder
<1>5. CASE q > d
  <2>1. k * q >= k * (d + 1) /\ k * (d + 1) = k * d + k
    BY <1>5
  <2> QED BY <1>3, <1>4, <2>1
<1>6. CASE d > q
  <2>1. k * d >= k * (q + 1) /\ k * (q + 1) = k * q + k
    BY <1>6
  <2> QED BY <1>3, <1>4, <2>1
<1>7. CASE q = d
  BY <1>1, <1>3, <1>4, <1>7
<1> QED BY <1>5, <1>6, <1>7

\* d steps on, less than once round.
LEMMA RemainderSteps ==
  ASSUME NEW a \in Nat, NEW k \in Nat \ {0}, NEW d \in 0..(k - 1)
  PROVE  (a + d) % k = IF (a % k) + d < k THEN (a % k) + d ELSE (a % k) + d - k
<1> DEFINE m == a % k
<1>1. PICK q \in Nat : a = k * q + m
  BY Remainder
<1>2. m \in 0..(k - 1)
  BY Remainder
<1> HIDE DEF m
<1>3. CASE m + d < k
  <2>1. m + d \in 0..(k - 1) /\ a + d = k * q + (m + d)
    BY <1>1, <1>2, <1>3
  <2>2. (k * q + (m + d)) % k = m + d
    BY <1>1, <2>1, RemainderIs
  <2> QED BY <1>3, <2>1, <2>2 DEF m
<1>4. CASE ~(m + d < k)
  <2>1. /\ m + d - k \in 0..(k - 1) /\ q + 1 \in Nat
        /\ a + d = k * (q + 1) + (m + d - k)
    BY <1>1, <1>2, <1>4
  <2>2. (k * (q + 1) + (m + d - k)) % k = m + d - k
    BY <2>1, RemainderIs
  <2> QED BY <1>4, <2>1, <2>2 DEF m
<1> QED BY <1>3, <1>4

LEMMA NextRemainder ==
  ASSUME NEW a \in Nat, NEW b \in Nat, NEW k \in Nat \ {0}, a % k = b % k
  PROVE  (a + 1) % k = (b + 1) % k
<1>1. CASE k = 1
  <2>1. (a + 1) % 1 \in 0..0 /\ (b + 1) % 1 \in 0..0
    BY Remainder
  <2> QED BY <1>1, <2>1
<1>2. CASE k # 1
  <2>1. 1 \in 0..(k - 1)
    BY <1>2
  <2>2. (a + 1) % k = IF (a % k) + 1 < k THEN (a % k) + 1 ELSE (a % k) + 1 - k
    BY <2>1, RemainderSteps
  <2>3. (b + 1) % k = IF (b % k) + 1 < k THEN (b % k) + 1 ELSE (b % k) + 1 - k
    BY <2>1, RemainderSteps
  <2> QED BY <2>2, <2>3
<1> QED BY <1>1, <1>2

\* The counter modulo Period tells the remainders the code takes.
LEMMA PeriodTells ==
  ASSUME NEW k \in 1..Cardinality(NodeIds), NEW c \in 0..(Period - 1)
  PROVE  ((c + 1) % Period) % k = (c + 1) % k
<1>1. Period \in Nat \ {0} /\ Period % k = 0 /\ k \in Nat \ {0} /\ c \in Nat
  BY ClusterAssumption, NodesFinite, FS_CardinalityType
<1>2. CASE c + 1 < Period
  <2>1. c + 1 \in 0..(Period - 1) /\ Period * 0 + (c + 1) = c + 1
    BY <1>1, <1>2
  <2>2. (c + 1) % Period = c + 1
    BY <1>1, <2>1, RemainderIs
  <2> QED BY <2>2
<1>3. CASE c + 1 = Period
  <2>1. Period * 1 + 0 = Period /\ k * 0 + 0 = 0 /\ 0 \in 0..(Period - 1) /\ 0 \in 0..(k - 1)
    BY <1>1
  <2>2. Period % Period = 0 /\ 0 % k = 0
    BY <1>1, <2>1, RemainderIs
  <2> QED BY <1>1, <1>3, <2>2
<1> QED BY <1>1, <1>2, <1>3

-----------------------------------------------------------------------------
(* The invariant of the cluster                                            *)

Named(q) == {q[i] : i \in 1..Len(q)}

\* A request: its list names each node once, holds what is untried, and names
\* no node that has taken the model; no acceptance is counted without a taker.
CallRight(r) ==
  /\ Lists(r.queue, Named(r.queue))
  /\ r.at # "served" => r.untried \subseteq Named(r.queue)
  /\ r.at \in {"unavailable", "refused"} => r.untried = {}
  /\ r.at \in {"idle", "reap", "relist", "local", "list"} => r.took = {} /\ r.ok = 0
  /\ Named(r.queue) \cap r.took = {}
  /\ r.ok <= Cardinality(r.took)
  /\ r.at = "accepted" => r.ok > 0

CallsInv ==
  /\ call \in [Calls \cup Listers -> CallType]
  /\ \A c \in Calls \cup Listers : CallRight(call[c])

\* The last starts are successive entries of the list of the active set, the
\* next of which the counter points to.
Turns(t) ==
  LET S == rotation.set
      k == Cardinality(S)
  IN /\ S # {} => (t + Len(rotation.starts)) % k = counter % k
     /\ \A j \in 1..Len(rotation.starts) :
          rotation.starts[j] = NewestFirst(S)[((t + j - 1) % k) + 1]

RotationRight ==
  /\ rotation.set \subseteq Ever
  /\ Len(rotation.starts) <= Cardinality(rotation.set)
  /\ \E t \in Nat : Turns(t)

ClusterInv == ClusterTypeOK /\ CreatedInTurn /\ CallsInv /\ RotationRight

\* What the properties ask follows.
LEMMA ClusterInvGives == ClusterInv => RoutesWell /\ SyncReportsTruth
<1> SUFFICES ASSUME ClusterInv PROVE RoutesWell /\ SyncReportsTruth
  OBVIOUS
<1> USE DEF ClusterInv
<1>1. NoNodeLeftUntried
  BY DEF NoNodeLeftUntried, CallsInv, CallRight
<1>2. EvenStarts
  <2> DEFINE S == rotation.set
             k == Cardinality(S)
             q == NewestFirst(S)
             s == rotation.starts
  <2>1. PICK t \in Nat : Turns(t)
    BY DEF RotationRight
  <2>2. S \in SUBSET Ever /\ IsFiniteSet(S) /\ k \in Nat /\ s \in Seq(NodeIds) /\ Len(s) <= k
    BY NodesFinite, FS_CardinalityType DEF RotationRight, Ever, ClusterTypeOK
  <2>3. Lists(q, S)
    BY <2>2, NewestFirstLists
  <2>4. Len(s) \in Nat /\ DOMAIN s = 1..Len(s)
    BY <2>2, LenProperties
  <2>5. \A j \in 1..Len(s) : s[j] = q[((t + j - 1) % k) + 1]
    BY <2>1 DEF Turns
  <2> SUFFICES ASSUME NEW i \in 1..Len(s), NEW j \in 1..Len(s), s[i] = s[j], i < j
               PROVE  FALSE
    BY <2>4 DEF EvenStarts, IsInjective
  <2> DEFINE a == t + i - 1
             d == j - i
  <2>6. /\ a \in Nat /\ k \in Nat \ {0} /\ d \in 1..(k - 1)
        /\ a + d = t + j - 1 /\ a + d \in Nat
    BY <2>1, <2>2, <2>4
  <2> HIDE DEF a, d, k, s, q
  <2>7. a % k \in 0..(k - 1) /\ (a + d) % k \in 0..(k - 1)
    BY <2>6, Remainder
  <2>8. s[i] = q[(a % k) + 1] /\ s[j] = q[((a + d) % k) + 1]
    BY <2>5, <2>6 DEF a
  <2>9. a % k = (a + d) % k
    <3>1. Len(q) = k
      BY <2>3 DEF Lists, k
    <3>2. (a % k) + 1 \in 1..k /\ ((a + d) % k) + 1 \in 1..k
      BY <2>6, <2>7
    <3>3. (a % k) + 1 = ((a + d) % k) + 1
      BY <2>3, <2>8, <3>1, <3>2 DEF Lists
    <3> QED BY <2>7, <3>3
  <2>10. (a + d) % k = IF (a % k) + d < k THEN (a % k) + d ELSE (a % k) + d - k
    <3>1. d \in 0..(k - 1)
      BY <2>6
    <3>2. a \in Nat /\ k \in Nat \ {0}
      BY <2>6
    <3> QED BY <3>1, <3>2, RemainderSteps, Zenon
  <2> QED BY <2>6, <2>7, <2>9, <2>10
<1>3. SyncReportsTruth
  <2> SUFFICES ASSUME NEW c \in Calls
               PROVE  /\ call[c].ok <= Cardinality(call[c].took)
                      /\ call[c].at = "accepted" => call[c].took # {}
    BY DEF SyncReportsTruth
  <2>1. CallRight(call[c]) /\ call[c].ok \in Nat
    BY DEF CallsInv, CallType
  <2>2. Cardinality({}) = 0
    BY FS_EmptySet
  <2>3. call[c].at = "accepted" => call[c].ok > 0 /\ call[c].ok <= Cardinality(call[c].took)
    BY <2>1 DEF CallRight
  <2>4. call[c].at = "accepted" => call[c].took # {}
    BY <2>1, <2>2, <2>3
  <2> QED BY <2>1, <2>4 DEF CallRight
<1> QED BY <1>1, <1>2, <1>3 DEF RoutesWell

-----------------------------------------------------------------------------
(* Steps of the cluster                                                    *)

\* Nothing changes but the request of c, and it stays right.
OneCall(c) ==
  /\ call' = [call EXCEPT ![c] = call'[c]]
  /\ call'[c] \in CallType /\ CallRight(call'[c])

\* The other requests are as they were.
LEMMA OneCallKeeps ==
  ASSUME CallsInv, NEW c \in Calls \cup Listers, OneCall(c)
  PROVE  CallsInv'
<1>1. call' \in [Calls \cup Listers -> CallType]
  BY DEF CallsInv, OneCall
<1>2. ASSUME NEW d \in Calls \cup Listers PROVE CallRight(call'[d])
  <2>1. CASE d = c
    BY <2>1 DEF OneCall
  <2>2. CASE d # c
    <3>1. call'[d] = call[d]
      BY <2>2 DEF OneCall, CallsInv
    <3> QED BY <3>1 DEF CallsInv
  <2> QED BY <2>1, <2>2
<1> QED BY <1>1, <1>2 DEF CallsInv, CallRight

LEMMA NoCallRight == NoCall \in CallType /\ CallRight(NoCall)
<1>1. <<>> \in Seq(NodeIds) /\ Len(<<>>) = 0
  BY EmptySeq
<1>2. Named(<<>>) = {}
  BY <1>1 DEF Named
<1>3. Lists(<<>>, {})
  BY <1>1, FS_EmptySet DEF Lists
<1>4. NoCall \in CallType
  BY <1>1, ClusterAssumption DEF NoCall, CallType
<1>5. Cardinality({}) = 0
  BY FS_EmptySet
<1> DEFINE r == NoCall
<1>6. r.queue = <<>> /\ r.untried = {} /\ r.took = {} /\ r.ok = 0 /\ r.at = "idle"
  BY DEF NoCall
<1> HIDE DEF r
<1>7. CallRight(r)
  <2>1. Lists(r.queue, Named(r.queue)) /\ Named(r.queue) = {}
    BY <1>2, <1>3, <1>6
  <2>2. r.ok <= Cardinality(r.took)
    BY <1>5, <1>6
  <2> QED BY <1>6, <2>1, <2>2 DEF CallRight
<1> QED BY <1>4, <1>7 DEF r

LEMMA ListsRange ==
  ASSUME NEW S, NEW q, Lists(q, S)
  PROVE  Named(q) = S
BY DEF Lists, Named

LEMMA ActiveThere == ActiveNodes \in SUBSET Registered /\ Registered \in SUBSET Ever
BY DEF ActiveNodes, EffectivelyActive, Registered, Ever

\* A request that has a kind and targets only.
LEMMA AskedRight ==
  ASSUME NEW x \in CallType, x.at \in {"reap", "relist"},
         x.queue = NoCall.queue, x.untried = NoCall.untried,
         x.took = NoCall.took, x.ok = NoCall.ok
  PROVE  CallRight(x)
<1>1. NoCall.at = "idle"
  BY DEF NoCall
<1> QED BY <1>1, NoCallRight DEF CallRight

LEMMA ReapedRight ==
  ASSUME NEW r \in CallType
  PROVE  Reaped(r) \in CallType /\ CallRight(Reaped(r))
<1> DEFINE x == [NoCall EXCEPT !.at = "relist", !.kind = r.kind, !.targets = r.targets]
<1>1. /\ x \in CallType /\ x.at = "relist"
      /\ x.queue = NoCall.queue /\ x.untried = NoCall.untried
      /\ x.took = NoCall.took /\ x.ok = NoCall.ok
  BY NoCallRight DEF CallType
<1>2. Reaped(r) = NoCall \/ Reaped(r) = x
  BY DEF Reaped
<1> HIDE DEF x
<1>3. CallRight(x)
  BY <1>1, AskedRight
<1> QED BY <1>1, <1>2, <1>3, NoCallRight

\* The reaper, for a listing and for a sync.
LEMMA ReapsRight ==
  ASSUME ClusterInv, NEW c \in Calls \cup Listers,
         \/ \E kind \in {"sync", "nodes"}, t \in SyncSets : ReapRead(c, kind, t)
         \/ ReapWrite(c)
  PROVE  OneCall(c)
<1>1. \E x \in CallType : CallRight(x) /\ SetCall(c, x)
  <2>1. ASSUME NEW kind \in {"sync", "nodes"}, NEW t \in SyncSets, ReapRead(c, kind, t)
        PROVE  \E x \in CallType : CallRight(x) /\ SetCall(c, x)
    <3> DEFINE r == [NoCall EXCEPT !.at = "reap", !.kind = kind, !.targets = t,
                                   !.dead = Corpses]
    <3>1. SetCall(c, Reaped(r)) \/ SetCall(c, r)
      BY <2>1 DEF ReapRead
    <3>2. Corpses \in SUBSET NodeIds
      BY DEF Corpses
    <3>3. /\ r \in CallType /\ r.at = "reap"
          /\ r.queue = NoCall.queue /\ r.untried = NoCall.untried
          /\ r.took = NoCall.took /\ r.ok = NoCall.ok
      BY <3>2, NoCallRight DEF CallType
    <3> HIDE DEF r
    <3>4. CallRight(r)
      BY <3>3, AskedRight
    <3> QED BY <3>1, <3>3, <3>4, ReapedRight
  <2>2. CASE ReapWrite(c)
    <3>1. call[c] \in CallType
      BY DEF ClusterInv, CallsInv
    <3>2. SetCall(c, Reaped(call[c])) \/ SetCall(c, NoCall)
      BY <2>2 DEF ReapWrite
    <3> QED BY <3>1, <3>2, ReapedRight, NoCallRight
  <2> QED BY <2>1, <2>2
<1> QED BY <1>1 DEF SetCall, OneCall, ClusterInv, CallsInv

\* The push of a model: each target leaves the list when it was asked, and counts
\* only if it may have taken the model.
LEMMA SyncsRight ==
  ASSUME ClusterInv, NEW c \in Calls \cup Listers,
         SyncList(c) \/ SyncLocal(c) \/ SyncPush(c) \/ SyncAnswer(c)
  PROVE  OneCall(c)
<1> DEFINE d == call[c]
           r == call'[c]
<1>1. d \in CallType /\ CallRight(d)
  BY DEF ClusterInv, CallsInv
<1>2. ASSUME NEW x, call' = [call EXCEPT ![c] = x]
      PROVE  r = x /\ call' = [call EXCEPT ![c] = r]
  BY <1>2 DEF ClusterInv, CallsInv
<1>3. CASE SyncLocal(c)
  <2>1. d.took = {} /\ d.ok = 0
    BY <1>1, <1>3 DEF SyncLocal, CallRight
  <2>2. /\ call' = [call EXCEPT ![c] = r] /\ r \in CallType
        /\ r.at = "push" /\ r.queue = d.queue /\ r.untried = d.untried
        /\ \/ r.took = {} /\ r.ok = 0
           \/ r.took = {LocalHub} /\ r.ok \in {0, 1}
    <3>1. \/ SetCall(c, [d EXCEPT !.at = "push", !.targets = {}])
          \/ \E ok \in {0, 1} :
               SetCall(c, [d EXCEPT !.at = "push", !.targets = {}, !.took = {LocalHub}, !.ok = ok])
      BY <1>3 DEF SyncLocal
    <3>2. /\ call' = [call EXCEPT ![c] = r]
          /\ \/ r = [d EXCEPT !.at = "push", !.targets = {}]
             \/ \E ok \in {0, 1} :
                  r = [d EXCEPT !.at = "push", !.targets = {}, !.took = {LocalHub}, !.ok = ok]
      BY <3>1 DEF SetCall, ClusterInv, CallsInv
    <3>3. {} \in SyncSets /\ {LocalHub} \in SUBSET Targets
      BY ClusterAssumption DEF Targets
    <3> HIDE DEF d, r
    <3>4. CASE r = [d EXCEPT !.at = "push", !.targets = {}]
      BY <1>1, <2>1, <3>2, <3>3, <3>4 DEF CallType
    <3>5. ASSUME NEW ok \in {0, 1},
                 r = [d EXCEPT !.at = "push", !.targets = {}, !.took = {LocalHub}, !.ok = ok]
          PROVE  /\ r \in CallType /\ r.at = "push" /\ r.queue = d.queue
                 /\ r.untried = d.untried /\ r.took = {LocalHub} /\ r.ok \in {0, 1}
      <4>1. {LocalHub} \subseteq Targets /\ ok \in Nat
        BY <3>3
      <4>2. r \in CallType
        BY <1>1, <3>3, <3>5, <4>1 DEF CallType
      <4> QED BY <1>1, <3>5, <4>2 DEF CallType
    <3> QED BY <3>2, <3>4, <3>5
  <2>3. LocalHub \notin Named(d.queue)
    BY <1>1, LenProperties, ClusterAssumption DEF CallType, Named
  <2>4. Cardinality({}) = 0 /\ Cardinality({LocalHub}) = 1
    BY FS_EmptySet, FS_Singleton
  <2>5. d.at # "served"
    BY <1>3 DEF SyncLocal
  <2> HIDE DEF r, d
  <2>6. r.ok <= Cardinality(r.took) /\ Named(r.queue) \cap r.took = {}
    <3>1. CASE r.took = {} /\ r.ok = 0
      BY <2>4, <3>1
    <3>2. CASE r.took = {LocalHub} /\ r.ok \in {0, 1}
      BY <2>2, <2>3, <2>4, <3>2
    <3> QED BY <2>2, <3>1, <3>2
  <2>7. CallRight(r)
    BY <1>1, <2>2, <2>5, <2>6 DEF CallRight
  <2> QED BY <2>2, <2>7 DEF OneCall, r
<1>4. CASE SyncPush(c)
  <2> DEFINE n == Head(d.queue)
  <2>1. /\ call' = [call EXCEPT ![c] = r] /\ r \in CallType
        /\ r.at = "push" /\ d.at = "push" /\ d.queue # <<>> /\ r.queue = Tail(d.queue)
        /\ r.untried = d.untried \ {n}
        /\ \/ r.took = d.took /\ r.ok = d.ok
           \/ r.took = d.took \cup {n} /\ r.ok \in {d.ok, d.ok + 1}
    <3>1. d.queue # <<>> /\ d.at = "push"
      BY <1>4 DEF SyncPush
    <3>2. n \in NodeIds /\ Tail(d.queue) \in Seq(NodeIds)
      BY <1>1, <3>1, HeadTailProperties DEF CallType
    <3> DEFINE took(reply) == IF reply.took THEN d.took \cup {n} ELSE d.took
               ok(reply, lost) == IF ~lost /\ reply.code = 200 THEN d.ok + 1 ELSE d.ok
    <3> HIDE DEF n
    <3>3. PICK reply \in Inbox, lost \in BOOLEAN :
             call' = [call EXCEPT ![c] =
               [d EXCEPT !.queue = Tail(d.queue), !.untried = d.untried \ {n},
                         !.took = took(reply), !.ok = ok(reply, lost)]]
      BY <1>4 DEF SyncPush, SetCall, n
    <3>4. \/ reply = [took |-> TRUE, code |-> 200]
          \/ reply = [took |-> FALSE, code |-> 502]
      BY DEF Inbox
    <3> HIDE DEF took, ok
    <3>5. /\ call' = [call EXCEPT ![c] = r]
          /\ r = [d EXCEPT !.queue = Tail(d.queue), !.untried = d.untried \ {n},
                           !.took = took(reply), !.ok = ok(reply, lost)]
      BY <3>3 DEF ClusterInv, CallsInv
    <3>8. d.took \in SUBSET Targets /\ d.ok \in Nat /\ n \in Targets
      BY <1>1, <3>2 DEF CallType, Targets
    <3> HIDE DEF d, r
    <3>6. CASE reply = [took |-> TRUE, code |-> 200]
      <4>1. took(reply) = d.took \cup {n}
        BY <3>6 DEF took
      <4>2. ok(reply, lost) \in {d.ok, d.ok + 1}
        BY DEF ok
      <4>3. ok(reply, lost) \in Nat /\ took(reply) \in SUBSET Targets
        BY <3>8, <4>1, <4>2
      <4>4. r \in CallType
        BY <1>1, <3>2, <3>5, <4>3 DEF CallType
      <4> QED BY <1>1, <3>1, <3>5, <4>1, <4>2, <4>4 DEF CallType
    <3>7. CASE reply = [took |-> FALSE, code |-> 502]
      <4>1. took(reply) = d.took /\ ok(reply, lost) = d.ok
        BY <3>7 DEF took, ok
      <4>2. r \in CallType
        BY <1>1, <3>2, <3>5, <3>8, <4>1 DEF CallType
      <4> QED BY <1>1, <3>1, <3>5, <4>1, <4>2 DEF CallType
    <3> QED BY <3>4, <3>6, <3>7
  <2>2. Lists(d.queue, Named(d.queue))
    BY <1>1 DEF CallRight
  <2>3. n \in Named(d.queue) /\ Lists(r.queue, Named(d.queue) \ {n})
    <3>1. n \in Named(d.queue) /\ Lists(Tail(d.queue), Named(d.queue) \ {n})
      BY <2>1, <2>2, TailLists
    <3> QED BY <2>1, <3>1
  <2>4. Named(r.queue) = Named(d.queue) \ {n}
    BY <2>3, ListsRange
  <2>5. r.untried \subseteq Named(r.queue)
    BY <1>1, <2>1, <2>4 DEF CallRight
  <2>6. n \notin d.took
    BY <1>1, <2>3 DEF CallRight
  <2>7. IsFiniteSet(d.took) /\ Cardinality(d.took) \in Nat /\ d.ok \in Nat
    <3>1. IsFiniteSet(Targets)
      BY NodesFinite, FS_AddElement DEF Targets
    <3> QED BY <1>1, <3>1, FS_Subset, FS_CardinalityType DEF CallType
  <2>8. Cardinality(d.took \cup {n}) = Cardinality(d.took) + 1
    BY <2>6, <2>7, FS_AddElement
  <2>9. r.ok <= Cardinality(r.took)
    <3>1. d.ok <= Cardinality(d.took)
      BY <1>1 DEF CallRight
    <3>2. CASE r.took = d.took /\ r.ok = d.ok
      BY <3>1, <3>2
    <3>3. CASE r.took = d.took \cup {n} /\ r.ok \in {d.ok, d.ok + 1}
      <4>1. Cardinality(r.took) = Cardinality(d.took) + 1
        BY <2>8, <3>3
      <4> QED BY <2>7, <3>1, <3>3, <4>1
    <3> QED BY <2>1, <3>2, <3>3
  <2>10. Named(r.queue) \cap r.took = {}
    BY <1>1, <2>1, <2>4 DEF CallRight
  <2>11. Lists(r.queue, Named(r.queue))
    BY <2>3, <2>4
  <2>12. CallRight(r)
    BY <2>1, <2>5, <2>9, <2>10, <2>11 DEF CallRight
  <2> QED BY <2>1, <2>12 DEF OneCall
<1>5. CASE SyncAnswer(c)
  <2>1. /\ call' = [call EXCEPT ![c] = r] /\ r \in CallType
        /\ d.at = "push" /\ d.queue = <<>>
        /\ r.at = IF d.ok > 0 THEN "accepted" ELSE "refused"
        /\ r.queue = d.queue /\ r.untried = d.untried /\ r.took = d.took /\ r.ok = d.ok
    BY <1>1, <1>5 DEF SyncAnswer, SetCall, CallType, ClusterInv, CallsInv
  <2>2. d.untried = {}
    <3>1. Named(<<>>) = {}
      BY EmptySeq DEF Named
    <3> QED BY <1>1, <2>1, <3>1 DEF CallRight
  <2> HIDE DEF r, d
  <2>3. CallRight(r)
    BY <1>1, <2>1, <2>2 DEF CallRight
  <2> QED BY <2>1, <2>3 DEF OneCall, r
<1>6. CASE SyncList(c)
  <2> DEFINE to == {n \in ActiveNodes : d.targets = {} \/ n \in d.targets}
  <2>1. d.at = "relist" /\ d.took = {} /\ d.ok = 0
    BY <1>1, <1>6 DEF SyncList, CallRight
  <2>2. to \in SUBSET Ever /\ to \in SUBSET NodeIds
    BY ActiveThere DEF Ever
  <2>3. /\ r = [d EXCEPT !.at = "local", !.queue = NewestFirst(to), !.untried = to]
        /\ call' = [call EXCEPT ![c] = r]
    BY <1>6 DEF SyncList, SetCall, ClusterInv, CallsInv
  <2> HIDE DEF to, d, r
  <2>4. Lists(NewestFirst(to), to)
    BY <2>2, NewestFirstLists DEF ClusterInv
  <2>5. NewestFirst(to) \in Seq(NodeIds) /\ Named(NewestFirst(to)) = to
    BY <2>4, ListsRange DEF Lists
  <2>6. /\ r \in CallType /\ r.at = "local"
        /\ r.queue = NewestFirst(to) /\ r.untried = to /\ r.took = d.took /\ r.ok = d.ok
    BY <1>1, <2>2, <2>3, <2>5 DEF CallType
  <2>7. CallRight(r)
    BY <1>1, <2>1, <2>4, <2>5, <2>6 DEF CallRight
  <2> QED BY <2>3, <2>6, <2>7 DEF OneCall, r
<1> QED BY <1>3, <1>4, <1>5, <1>6

\* A routed request: it has tried what is no longer in its list.
LEMMA RoutesRight ==
  ASSUME ClusterInv, NEW c \in Calls \cup Listers,
         RouteStart(c) \/ RouteLocal(c) \/ RouteList(c) \/ RouteTry(c) \/ RouteGiveUp(c) \/ Return(c)
  PROVE  OneCall(c)
<1> DEFINE d == call[c]
           r == call'[c]
<1>1. d \in CallType /\ CallRight(d)
  BY DEF ClusterInv, CallsInv
<1>2. CASE RouteStart(c)
  <2>1. PICK at \in {"local", "list"} :
          call' = [call EXCEPT ![c] = [NoCall EXCEPT !.kind = "route", !.at = at]]
    BY <1>2 DEF RouteStart, SetCall
  <2>2. r = [NoCall EXCEPT !.kind = "route", !.at = at] /\ call' = [call EXCEPT ![c] = r]
    BY <2>1 DEF ClusterInv, CallsInv
  <2> HIDE DEF r
  <2>3. /\ r \in CallType /\ r.at \in {"local", "list"}
        /\ r.queue = NoCall.queue /\ r.untried = NoCall.untried
        /\ r.took = NoCall.took /\ r.ok = NoCall.ok
    BY <2>2, NoCallRight DEF CallType
  <2>4. NoCall.at = "idle"
    BY DEF NoCall
  <2>5. CallRight(r)
    BY <2>3, <2>4, NoCallRight DEF CallRight
  <2> QED BY <2>2, <2>3, <2>5 DEF OneCall, r
<1>3. CASE RouteLocal(c)
  <2>1. PICK at \in {"served", "error", "list"} :
          call' = [call EXCEPT ![c] = [d EXCEPT !.at = at]]
    BY <1>3 DEF RouteLocal, SetCall
  <2>2. r = [d EXCEPT !.at = at] /\ call' = [call EXCEPT ![c] = r] /\ d.at = "local"
    BY <1>3, <2>1 DEF RouteLocal, ClusterInv, CallsInv
  <2> HIDE DEF d, r
  <2>3. /\ r \in CallType /\ r.at \in {"served", "error", "list"}
        /\ r.queue = d.queue /\ r.untried = d.untried /\ r.took = d.took /\ r.ok = d.ok
    BY <1>1, <2>2 DEF CallType
  <2>4. CallRight(r)
    BY <1>1, <2>2, <2>3 DEF CallRight
  <2> QED BY <2>2, <2>3, <2>4 DEF OneCall, r
<1>4. CASE RouteList(c)
  <2> DEFINE k == Len(Fallbacks)
             queue == Rotate(Fallbacks, counter % k)
  <2>1. d.at = "list" /\ d.took = {} /\ d.ok = 0
    BY <1>1, <1>4 DEF RouteList, CallRight
  <2>2. Lists(Fallbacks, ActiveNodes) /\ ActiveNodes \in SUBSET NodeIds
    BY ActiveThere, NewestFirstLists DEF Fallbacks, ClusterInv, ActiveNodes
  <2>3. CASE k = 0
    <3>1. r = [d EXCEPT !.at = "try"] /\ call' = [call EXCEPT ![c] = r]
      BY <1>4, <2>3 DEF RouteList, SetCall, ClusterInv, CallsInv
    <3> HIDE DEF d, r
    <3>2. /\ r \in CallType /\ r.at = "try"
          /\ r.queue = d.queue /\ r.untried = d.untried /\ r.took = d.took /\ r.ok = d.ok
      BY <1>1, <3>1 DEF CallType
    <3>3. CallRight(r)
      BY <1>1, <2>1, <3>2 DEF CallRight
    <3> QED BY <3>1, <3>2, <3>3 DEF OneCall, r
  <2>4. CASE k # 0
    <3>1. r = [d EXCEPT !.at = "try", !.queue = queue, !.untried = ActiveNodes]
          /\ call' = [call EXCEPT ![c] = r]
      BY <1>4, <2>4 DEF RouteList, SetCall, ClusterInv, CallsInv
    <3>2. counter % k \in 0..(k - 1)
      <4>1. counter \in Nat /\ k \in Nat \ {0}
        BY <2>2, <2>4, ClusterAssumption, LenProperties DEF Lists, ClusterInv, ClusterTypeOK
      <4> QED BY <4>1, Remainder
    <3>3. Lists(queue, ActiveNodes)
      BY <2>2, <3>2, RotateLists
    <3>4. queue \in Seq(NodeIds) /\ Named(queue) = ActiveNodes
      BY <3>3, ListsRange DEF Lists
    <3> HIDE DEF d, r, queue, k
    <3>5. /\ r \in CallType /\ r.at = "try"
          /\ r.queue = queue /\ r.untried = ActiveNodes /\ r.took = d.took /\ r.ok = d.ok
      BY <1>1, <2>2, <3>1, <3>4 DEF CallType
    <3>6. CallRight(r)
      BY <1>1, <2>1, <3>3, <3>4, <3>5 DEF CallRight
    <3> QED BY <3>1, <3>5, <3>6 DEF OneCall, r
  <2> QED BY <2>3, <2>4
<1>5. CASE RouteTry(c)
  <2> DEFINE n == Head(d.queue)
  <2>1. d.at = "try" /\ d.queue # <<>>
    BY <1>5 DEF RouteTry
  <2>2. n \in NodeIds /\ Tail(d.queue) \in Seq(NodeIds) /\ <<>> \in Seq(NodeIds)
    BY <1>1, <2>1, HeadTailProperties, EmptySeq DEF CallType
  <2>3. /\ call' = [call EXCEPT ![c] = r]
        /\ \/ r = [d EXCEPT !.queue = Tail(d.queue), !.untried = d.untried \ {n}]
           \/ r = [d EXCEPT !.queue = <<>>, !.untried = d.untried \ {n}, !.at = "served"]
    <3>1. \/ SetCall(c, [d EXCEPT !.queue = Tail(d.queue), !.untried = d.untried \ {n}])
          \/ SetCall(c, [[d EXCEPT !.queue = Tail(d.queue), !.untried = d.untried \ {n}]
                           EXCEPT !.at = "served", !.queue = <<>>])
      BY <1>5 DEF RouteTry
    <3>2. [[d EXCEPT !.queue = Tail(d.queue), !.untried = d.untried \ {n}]
             EXCEPT !.at = "served", !.queue = <<>>]
          = [d EXCEPT !.queue = <<>>, !.untried = d.untried \ {n}, !.at = "served"]
      <4> HIDE DEF d
      <4> QED BY <1>1 DEF CallType
    <3> QED BY <3>1, <3>2 DEF SetCall, ClusterInv, CallsInv
  <2>4. n \in Named(d.queue) /\ Lists(Tail(d.queue), Named(d.queue) \ {n})
    <3>1. Lists(d.queue, Named(d.queue))
      BY <1>1 DEF CallRight
    <3> QED BY <2>1, <3>1, TailLists
  <2> HIDE DEF d, r, n
  <2>5. /\ r \in CallType /\ r.untried = d.untried \ {n} /\ r.took = d.took /\ r.ok = d.ok
        /\ \/ r.at = "try" /\ r.queue = Tail(d.queue)
           \/ r.at = "served" /\ r.queue = <<>>
    <3>1. CASE r = [d EXCEPT !.queue = Tail(d.queue), !.untried = d.untried \ {n}]
      BY <1>1, <2>1, <2>2, <3>1 DEF CallType
    <3>2. CASE r = [d EXCEPT !.queue = <<>>, !.untried = d.untried \ {n}, !.at = "served"]
      BY <1>1, <2>2, <3>2 DEF CallType
    <3> QED BY <2>3, <3>1, <3>2
  <2>7. CASE r.at = "try" /\ r.queue = Tail(d.queue)
    <3>1. Named(r.queue) = Named(d.queue) \ {n}
      BY <2>4, <2>7, ListsRange
    <3>2. CallRight(r)
      BY <1>1, <2>1, <2>4, <2>5, <2>7, <3>1 DEF CallRight
    <3> QED BY <2>3, <2>5, <3>2 DEF OneCall, r
  <2>8. CASE r.at = "served" /\ r.queue = <<>>
    <3>1. Lists(<<>>, Named(<<>>)) /\ Named(<<>>) = {}
      BY NoCallRight DEF CallRight, NoCall, Named
    <3>2. CallRight(r)
      BY <1>1, <2>5, <2>8, <3>1 DEF CallRight
    <3> QED BY <2>3, <2>5, <3>2 DEF OneCall, r
  <2> QED BY <2>5, <2>7, <2>8
<1>6. CASE RouteGiveUp(c)
  <2>1. /\ r = [d EXCEPT !.at = "unavailable"] /\ call' = [call EXCEPT ![c] = r]
        /\ d.at = "try" /\ d.queue = <<>>
    BY <1>6 DEF RouteGiveUp, SetCall, ClusterInv, CallsInv
  <2> HIDE DEF d, r
  <2>2. /\ r \in CallType /\ r.at = "unavailable"
        /\ r.queue = d.queue /\ r.untried = d.untried /\ r.took = d.took /\ r.ok = d.ok
    BY <1>1, <2>1 DEF CallType
  <2>3. d.untried = {}
    <3>1. Named(<<>>) = {}
      BY EmptySeq DEF Named
    <3> QED BY <1>1, <2>1, <3>1 DEF CallRight
  <2>4. CallRight(r)
    BY <1>1, <2>1, <2>2, <2>3 DEF CallRight
  <2> QED BY <2>1, <2>2, <2>4 DEF OneCall, r
<1>7. CASE Return(c)
  BY <1>7, NoCallRight DEF Return, SetCall, OneCall, ClusterInv, CallsInv
<1> QED BY <1>2, <1>3, <1>4, <1>5, <1>6, <1>7

\* A listing for routing continues the turns, or begins new ones.
LEMMA ListTurns ==
  ASSUME ClusterInv, NEW c \in Calls \cup Listers, RouteList(c)
  PROVE  /\ counter' \in 0..(Period - 1)
         /\ rotation' \in [set : SUBSET NodeIds, starts : Seq(NodeIds)]
         /\ RotationRight'
<1> DEFINE k == Len(Fallbacks)
           queue == Rotate(Fallbacks, counter % k)
           before == IF rotation.set # ActiveNodes THEN <<>>
                     ELSE IF Len(rotation.starts) = k THEN Tail(rotation.starts)
                     ELSE rotation.starts
<1> USE DEF ClusterInv
<1>1. /\ Lists(Fallbacks, ActiveNodes)
      /\ ActiveNodes \in SUBSET NodeIds /\ ActiveNodes \subseteq Ever
  BY ActiveThere, NewestFirstLists DEF Fallbacks, ActiveNodes
<1>2. k \in Nat /\ k = Cardinality(ActiveNodes) /\ counter \in Nat /\ Period \in Nat \ {0}
  BY <1>1, LenProperties, ClusterAssumption DEF Lists, ClusterTypeOK
<1>3. created' = created /\ Ever' = Ever
  BY DEF RouteList, Ever
<1>4. CASE k = 0
  <2>1. UNCHANGED <<counter, rotation>>
    BY <1>4 DEF RouteList
  <2>2. rotation.set \in SUBSET NodeIds
    BY DEF RotationRight, Ever
  <2>3. NewestFirst(rotation.set)' = NewestFirst(rotation.set)
    BY <1>3, <2>1 DEF NewestFirst, Place
  <2>4. PICK t \in Nat : Turns(t)
    BY DEF RotationRight
  <2>5. Turns(t)'
    BY <2>1, <2>3, <2>4 DEF Turns
  <2>6. RotationRight'
    BY <1>3, <2>1, <2>5 DEF RotationRight
  <2> QED BY <2>1, <2>6 DEF ClusterTypeOK
<1>5. CASE k # 0
  <2> DEFINE o == counter % k
             F == Fallbacks
  <2>1. /\ counter' = (counter + 1) % Period
        /\ rotation' = [set |-> ActiveNodes, starts |-> Append(before, Head(queue))]
    BY <1>5 DEF RouteList
  <2>2. k \in Nat \ {0} /\ k \in 1..Cardinality(NodeIds)
    BY <1>1, <1>2, <1>5, NodesFinite, FS_Subset, FS_CardinalityType
  <2>3. o \in 0..(k - 1)
    BY <1>2, <2>2, Remainder
  <2>4. Lists(queue, ActiveNodes) /\ queue # <<>> /\ Head(queue) = F[o + 1]
    BY <1>1, <2>3, RotateLists
  <2>5. Head(queue) \in NodeIds
    BY <1>1, <2>4, TailLists
  <2>6. NewestFirst(ActiveNodes) = F
    BY DEF Fallbacks
  <2> HIDE DEF F, queue, k, o
  <2>7. /\ before \in Seq(NodeIds) /\ Len(before) < k
        /\ \E t \in Nat : /\ (t + Len(before)) % k = counter % k
                          /\ \A j \in 1..Len(before) : before[j] = F[((t + j - 1) % k) + 1]
    <3>1. CASE rotation.set # ActiveNodes
      <4>1. before = <<>> /\ before \in Seq(NodeIds) /\ Len(before) = 0
        BY <3>1, EmptySeq
      <4> HIDE DEF before
      <4>2. counter + Len(before) = counter
        BY <1>2, <4>1
      <4> QED BY <1>2, <2>2, <4>1, <4>2
    <3> DEFINE s == rotation.starts
    <3>2. s \in Seq(NodeIds) /\ Len(s) \in Nat
      BY LenProperties DEF ClusterTypeOK
    <3>3. ASSUME rotation.set = ActiveNodes
          PROVE  /\ Len(s) <= k
                 /\ \E t \in Nat : /\ (t + Len(s)) % k = counter % k
                                   /\ \A j \in 1..Len(s) : s[j] = F[((t + j - 1) % k) + 1]
      <4>1. ActiveNodes # {}
        BY <1>2, <2>2, FS_EmptySet
      <4> QED BY <1>2, <2>6, <3>3, <4>1 DEF RotationRight, Turns
    <3>4. CASE rotation.set = ActiveNodes /\ Len(s) = k
      <4>1. s # <<>> /\ before = Tail(s)
        BY <2>2, <3>4, EmptySeq DEF k
      <4> HIDE DEF before, s
      <4>2. /\ before \in Seq(NodeIds) /\ Len(before) = k - 1
            /\ \A j \in 1..(k - 1) : before[j] = s[j + 1]
        BY <3>2, <3>4, <4>1, HeadTailProperties
      <4>3. PICK t \in Nat : /\ (t + Len(s)) % k = counter % k
                             /\ \A j \in 1..Len(s) : s[j] = F[((t + j - 1) % k) + 1]
        BY <3>3, <3>4 DEF s
      <4>4. t + 1 \in Nat /\ (t + 1) + Len(before) = t + Len(s)
        BY <2>2, <3>4, <4>2
      <4>5. ASSUME NEW j \in 1..Len(before)
            PROVE  before[j] = F[(((t + 1) + j - 1) % k) + 1]
        <5>1. j + 1 \in 1..Len(s) /\ (t + 1) + j - 1 = t + (j + 1) - 1 /\ before[j] = s[j + 1]
          BY <2>2, <3>4, <4>2
        <5> QED BY <4>3, <5>1
      <4>6. ((t + 1) + Len(before)) % k = counter % k
        BY <4>3, <4>4
      <4> DEFINE u == t + 1
      <4>7. /\ u \in Nat /\ (u + Len(before)) % k = counter % k
            /\ \A j \in 1..Len(before) : before[j] = F[((u + j - 1) % k) + 1]
        BY <4>4, <4>5, <4>6
      <4> HIDE DEF u
      <4>8. Len(before) < k
        BY <2>2, <4>2
      <4> QED BY <4>2, <4>7, <4>8
    <3>5. CASE rotation.set = ActiveNodes /\ Len(s) # k
      <4>1. before = s
        BY <3>5 DEF k
      <4>2. Len(s) < k
        BY <2>2, <3>2, <3>3, <3>5
      <4> HIDE DEF before, s
      <4> QED BY <3>2, <3>3, <3>5, <4>1, <4>2 DEF s
    <3> QED BY <3>1, <3>4, <3>5
  <2> HIDE DEF before
  <2> DEFINE n == Len(before)
             s == Append(before, Head(queue))
  <2>8. PICK t \in Nat : /\ (t + n) % k = counter % k
                         /\ \A j \in 1..n : before[j] = F[((t + j - 1) % k) + 1]
    BY <2>7
  <2>9. /\ n \in Nat /\ s \in Seq(NodeIds) /\ Len(s) = n + 1
        /\ \A j \in 1..n : s[j] = before[j]
        /\ s[n + 1] = Head(queue)
    BY <2>5, <2>7, LenProperties, AppendProperties
  <2> HIDE DEF n, s
  <2>10. \A j \in 1..Len(s) : s[j] = F[((t + j - 1) % k) + 1]
    <3> SUFFICES ASSUME NEW j \in 1..Len(s) PROVE s[j] = F[((t + j - 1) % k) + 1]
      OBVIOUS
    <3>1. CASE j \in 1..n
      BY <2>8, <2>9, <3>1
    <3>2. CASE j = n + 1
      <4>1. t + j - 1 = t + n
        BY <2>9, <3>2
      <4> QED BY <2>4, <2>8, <2>9, <3>2, <4>1 DEF o
    <3> QED BY <2>9, <3>1, <3>2
  <2>11. (t + Len(s)) % k = counter' % k
    <3>1. t + n \in Nat /\ t + Len(s) = (t + n) + 1
      BY <2>9
    <3>2. ((t + n) + 1) % k = (counter + 1) % k
      BY <1>2, <2>2, <2>8, <3>1, NextRemainder
    <3>3. counter \in 0..(Period - 1)
      BY DEF ClusterTypeOK
    <3>4. ((counter + 1) % Period) % k = (counter + 1) % k
      BY <2>2, <3>3, PeriodTells
    <3> QED BY <2>1, <3>1, <3>2, <3>4
  <2>12. rotation'.set = ActiveNodes /\ rotation'.starts = s
    BY <2>1 DEF s
  <2>13. NewestFirst(rotation.set)' = F
    <3>1. NewestFirst(rotation.set)' = NewestFirst(ActiveNodes)
      BY <1>3, <2>12 DEF NewestFirst, Place
    <3> QED BY <2>6, <3>1
  <2>14. Turns(t)'
    <3>1. Cardinality(rotation'.set) = k
      BY <1>2, <2>12 DEF k
    <3>2. (t + Len(rotation'.starts)) % k = counter' % k
      BY <2>11, <2>12
    <3>3. \A j \in 1..Len(rotation'.starts) :
             rotation'.starts[j] = NewestFirst(rotation.set)'[((t + j - 1) % k) + 1]
      BY <2>10, <2>12, <2>13
    <3> QED BY <3>1, <3>2, <3>3 DEF Turns
  <2>15. RotationRight'
    <3>1. Len(s) <= k
      BY <2>2, <2>7, <2>9 DEF n
    <3> QED BY <1>1, <1>2, <1>3, <2>12, <2>14, <3>1 DEF RotationRight, k
  <2>16. counter' \in 0..(Period - 1)
    <3>1. counter + 1 \in Nat
      BY <1>2
    <3> QED BY <1>2, <2>1, <3>1, Remainder
  <2>17. rotation' \in [set : SUBSET NodeIds, starts : Seq(NodeIds)]
    BY <1>1, <2>1, <2>9 DEF s
  <2> QED BY <2>15, <2>16, <2>17
<1> QED BY <1>4, <1>5

\* What a step does to the table: a row may come, and its place is last.
LEMMA TableRight ==
  ASSUME ClusterInv, [ClusterNext]_clusterVars
  PROVE  /\ ClusterTypeOK' /\ CreatedInTurn' /\ CallsInv'
         /\ Ever \subseteq Ever' /\ \A n \in Ever : created'[n] = created[n]
<1> USE DEF ClusterInv
<1>1. ASSUME NEW n \in NodeIds, AddNode(n)
      PROVE  /\ ClusterTypeOK' /\ CreatedInTurn' /\ CallsInv'
             /\ Ever \subseteq Ever' /\ \A m \in Ever : created'[m] = created[m]
  <2>1. Ever \in SUBSET NodeIds /\ IsFiniteSet(Ever) /\ Cardinality(Ever) \in Nat /\ n \notin Ever
    BY <1>1, NodesFinite, FS_CardinalityType DEF Ever, AddNode
  <2>2. Ever' = Ever \cup {n}
    BY <1>1 DEF AddNode, Ever, ClusterTypeOK
  <2>3. Cardinality(Ever \cup {n}) = Cardinality(Ever) + 1
    BY <2>1, FS_AddElement
  <2>4. created'[n] = Cardinality(Ever) + 1 /\ \A m \in Ever : created'[m] = created[m]
    BY <1>1, <2>1 DEF AddNode, ClusterTypeOK
  <2>5. Cardinality(Ever') = Cardinality(Ever) + 1
    BY <2>2, <2>3
  <2>6. CreatedInTurn'
    <3>1. \A m \in Ever : created[m] \in 1..Cardinality(Ever) /\ created[m] # created'[n]
      BY <2>1, <2>4 DEF CreatedInTurn
    <3>2. \A m \in Ever' : created'[m] \in 1..Cardinality(Ever')
      BY <2>1, <2>2, <2>4, <2>5, <3>1
    <3>3. \A l, m \in Ever' : created'[l] = created'[m] => l = m
      BY <2>2, <2>4, <3>1 DEF CreatedInTurn
    <3> QED BY <3>2, <3>3 DEF CreatedInTurn
  <2>7. ClusterTypeOK'
    BY <1>1, <2>1 DEF AddNode, ClusterTypeOK
  <2>8. CallsInv'
    BY <1>1 DEF AddNode, CallsInv
  <2> QED BY <2>2, <2>4, <2>6, <2>7, <2>8
<1>2. ASSUME Ever' = Ever, created' = created, ClusterTypeOK', CallsInv'
      PROVE  /\ ClusterTypeOK' /\ CreatedInTurn' /\ CallsInv'
             /\ Ever \subseteq Ever' /\ \A m \in Ever : created'[m] = created[m]
  BY <1>2 DEF CreatedInTurn
<1>3. ASSUME NEW n \in NodeIds, DeleteNode(n) \/ HeartbeatLoad(n) \/ HeartbeatCommit(n)
      PROVE  Ever' = Ever /\ created' = created /\ ClusterTypeOK' /\ CallsInv'
  <2>1. CASE DeleteNode(n)
    BY <2>1, ClusterAssumption DEF DeleteNode, Ever, Registered, ClusterTypeOK, NoBeat, Beats, CallsInv
  <2>2. CASE HeartbeatLoad(n)
    BY <2>2 DEF HeartbeatLoad, Ever, Registered, ClusterTypeOK, CallsInv
  <2>3. CASE HeartbeatCommit(n)
    <3>1. UNCHANGED <<created, counter, call, rotation>>
      BY <2>3 DEF HeartbeatCommit
    <3>2. CASE n \in Registered
      <4>1. /\ beating' = [beating EXCEPT ![n] = "idle"]
            /\ beat' = [beat EXCEPT ![n] = 0]
            /\ status' = status \/ status' = [status EXCEPT ![n] = "active"]
        BY <2>3, <3>2 DEF HeartbeatCommit
      <4>2. 0 \in Beats /\ status[n] # "none"
        BY <3>2, ClusterAssumption DEF Beats, NoBeat, Registered
      <4>3. /\ status' \in [NodeIds -> {"none", "active", "inactive", "gone"}]
            /\ beat' \in [NodeIds -> Beats]
            /\ beating' \in [NodeIds -> {"idle", "active", "inactive"}]
        BY <4>1, <4>2 DEF ClusterTypeOK
      <4>4. Ever' = Ever
        BY <4>1, <4>2 DEF Ever, ClusterTypeOK
      <4> QED BY <3>1, <4>3, <4>4 DEF ClusterTypeOK, CallsInv
    <3>3. CASE n \notin Registered
      BY <2>3, <3>3 DEF HeartbeatCommit, Ever, ClusterTypeOK, CallsInv
    <3> QED BY <3>2, <3>3
  <2> QED BY <1>3, <2>1, <2>2, <2>3
<1>4. CASE ClusterTick \/ UNCHANGED clusterVars
  <2>1. CASE ClusterTick
    <3>1. \A n \in NodeIds : beat'[n] \in Beats
      BY <2>1, ClusterAssumption DEF ClusterTick, ClusterTypeOK, Beats, NoBeat
    <3>2. beat' \in [NodeIds -> Beats]
      BY <2>1, <3>1 DEF ClusterTick
    <3>3. Ever' = Ever /\ created' = created /\ ClusterTypeOK' /\ CallsInv'
      BY <2>1, <3>2 DEF ClusterTick, Ever, ClusterTypeOK, CallsInv
    <3> QED BY <1>2, <3>3
  <2>2. CASE UNCHANGED clusterVars
    <3>1. Ever' = Ever /\ created' = created /\ ClusterTypeOK' /\ CallsInv'
      BY <2>2 DEF clusterVars, Ever, ClusterTypeOK, CallsInv
    <3> QED BY <1>2, <3>1
  <2> QED BY <1>4, <2>1, <2>2
<1>5. ASSUME NEW c \in Calls \cup Listers,
             \/ \E kind \in {"sync", "nodes"}, t \in SyncSets : ReapRead(c, kind, t)
             \/ ReapWrite(c)
      PROVE  Ever' = Ever /\ created' = created /\ ClusterTypeOK' /\ CallsInv'
  <2>1. CallsInv'
    BY <1>5, ReapsRight, OneCallKeeps
  <2>2. /\ Ever' = Ever /\ status' \in [NodeIds -> {"none", "active", "inactive", "gone"}]
        /\ UNCHANGED <<created, beat, beating, counter, rotation>>
    <3>1. CASE \E kind \in {"sync", "nodes"}, t \in SyncSets : ReapRead(c, kind, t)
      BY <3>1 DEF ReapRead, Ever, ClusterTypeOK
    <3>2. CASE ReapWrite(c)
      BY <3>2 DEF ReapWrite, Ever, Registered, ClusterTypeOK
    <3> QED BY <1>5, <3>1, <3>2
  <2> QED BY <2>1, <2>2 DEF ClusterTypeOK, CallsInv
<1>6. ASSUME NEW c \in Calls \cup Listers,
             SyncList(c) \/ SyncLocal(c) \/ SyncPush(c) \/ SyncAnswer(c)
      PROVE  Ever' = Ever /\ created' = created /\ ClusterTypeOK' /\ CallsInv'
  <2>1. CallsInv'
    BY <1>6, SyncsRight, OneCallKeeps
  <2>2. UNCHANGED <<created, status, beat, beating, counter, rotation>>
    BY <1>6 DEF SyncList, SyncLocal, SyncPush, SyncAnswer
  <2> QED BY <2>1, <2>2 DEF Ever, ClusterTypeOK, CallsInv
<1>7. ASSUME NEW c \in Calls \cup Listers,
             RouteStart(c) \/ RouteLocal(c) \/ RouteTry(c) \/ RouteGiveUp(c) \/ Return(c)
      PROVE  Ever' = Ever /\ created' = created /\ ClusterTypeOK' /\ CallsInv'
  <2>1. CallsInv'
    BY <1>7, RoutesRight, OneCallKeeps
  <2>2. UNCHANGED <<created, status, beat, beating, counter, rotation>>
    BY <1>7 DEF RouteStart, RouteLocal, RouteTry, RouteGiveUp, Return
  <2> QED BY <2>1, <2>2 DEF Ever, ClusterTypeOK, CallsInv
<1>8. ASSUME NEW c \in Calls \cup Listers, RouteList(c)
      PROVE  Ever' = Ever /\ created' = created /\ ClusterTypeOK' /\ CallsInv'
  <2>1. CallsInv'
    BY <1>8, RoutesRight, OneCallKeeps
  <2>2. UNCHANGED <<created, status, beat, beating>>
    BY <1>8 DEF RouteList
  <2>3. counter' \in 0..(Period - 1) /\ rotation' \in [set : SUBSET NodeIds, starts : Seq(NodeIds)]
    BY <1>8, ListTurns
  <2> QED BY <2>1, <2>2, <2>3 DEF Ever, ClusterTypeOK, CallsInv
<1>9. CASE ClusterNext
  <2>1. CASE \E n \in NodeIds : AddNode(n) \/ DeleteNode(n) \/ HeartbeatLoad(n) \/ HeartbeatCommit(n)
    BY <1>1, <1>2, <1>3, <2>1
  <2>2. CASE \E c \in Calls : Request(c) \/ Proceed(c)
    BY <1>2, <1>5, <1>6, <1>7, <1>8, <2>2 DEF Request, Proceed
  <2>3. CASE \E c \in Listers : ReapRead(c, "nodes", {}) \/ ReapWrite(c)
    BY <1>2, <1>5, <2>3, ClusterAssumption
  <2> QED BY <1>4, <1>9, <2>1, <2>2, <2>3 DEF ClusterNext
<1> QED BY <1>4, <1>9

\* Steps that leave rotation and counter alone leave the turns as they are.
LEMMA TurnsKept ==
  ASSUME ClusterInv, [ClusterNext]_clusterVars, UNCHANGED <<counter, rotation>>
  PROVE  RotationRight'
<1>1. Ever \subseteq Ever' /\ \A n \in Ever : created'[n] = created[n]
  BY TableRight
<1>2. rotation.set \in SUBSET NodeIds /\ rotation.set \subseteq Ever
  BY DEF ClusterInv, RotationRight, Ever
<1>3. NewestFirst(rotation.set)' = NewestFirst(rotation.set)
  <2>1. \A n \in rotation.set : created'[n] = created[n]
    BY <1>1, <1>2
  <2>2. PICK S \in SUBSET NodeIds : S = rotation.set
    BY <1>2
  <2>3. NewestFirst(S)' = NewestFirst(S)
    BY <2>1, <2>2, OrderKept
  <2>4. NewestFirst(rotation.set)' = NewestFirst(S)'
    BY <2>2 DEF NewestFirst, Place
  <2>5. NewestFirst(rotation.set) = NewestFirst(S)
    BY <2>2
  <2> QED BY <2>3, <2>4, <2>5
<1>4. PICK t \in Nat : Turns(t)
  BY DEF ClusterInv, RotationRight
<1>5. Turns(t)'
  BY <1>3, <1>4 DEF Turns
<1> QED BY <1>1, <1>2, <1>5 DEF ClusterInv, RotationRight

LEMMA ClusterInvStep == ClusterInv /\ [ClusterNext]_clusterVars => ClusterInv'
<1> SUFFICES ASSUME ClusterInv, [ClusterNext]_clusterVars PROVE ClusterInv'
  OBVIOUS
<1>1. ClusterTypeOK' /\ CreatedInTurn' /\ CallsInv'
  BY TableRight
<1>2. CASE \E c \in Calls \cup Listers : RouteList(c)
  BY <1>1, <1>2, ListTurns DEF ClusterInv
<1>3. CASE UNCHANGED <<counter, rotation>>
  BY <1>1, <1>3, TurnsKept DEF ClusterInv
<1>4. \/ \E c \in Calls \cup Listers : RouteList(c)
      \/ UNCHANGED <<counter, rotation>>
  <2>1. CASE \E n \in NodeIds : AddNode(n) \/ DeleteNode(n) \/ HeartbeatLoad(n) \/ HeartbeatCommit(n)
    BY <2>1 DEF AddNode, DeleteNode, HeartbeatLoad, HeartbeatCommit
  <2>2. CASE ClusterTick \/ UNCHANGED clusterVars
    BY <2>2 DEF ClusterTick, clusterVars
  <2>3. CASE \E c \in Calls : Request(c)
    BY <2>3 DEF Request, RouteStart, ReapRead
  <2>4. CASE \E c \in Calls : Proceed(c)
    BY <2>4 DEF Proceed, ReapWrite, SyncList, SyncLocal, SyncPush, SyncAnswer, RouteLocal, RouteTry, RouteGiveUp, Return
  <2>5. CASE \E c \in Listers : ReapRead(c, "nodes", {}) \/ ReapWrite(c)
    BY <2>5 DEF ReapRead, ReapWrite
  <2> QED BY <2>1, <2>2, <2>3, <2>4, <2>5 DEF ClusterNext
<1> QED BY <1>2, <1>3, <1>4

LEMMA ClusterInvInit == ClusterInit => ClusterInv
<1> SUFFICES ASSUME ClusterInit PROVE ClusterInv
  OBVIOUS
<1> USE DEF ClusterInit
<1>1. Ever = {}
  BY DEF Ever
<1>2. ClusterTypeOK
  BY NoCallRight, EmptySeq, ClusterAssumption DEF ClusterTypeOK, Beats, NoBeat
<1>3. CreatedInTurn
  BY <1>1 DEF CreatedInTurn
<1>4. CallsInv
  BY NoCallRight DEF CallsInv
<1>5. Turns(0)
  BY EmptySeq DEF Turns
<1>6. rotation.set \subseteq Ever /\ Len(rotation.starts) <= Cardinality(rotation.set)
  BY EmptySeq, FS_EmptySet
<1> QED BY <1>2, <1>3, <1>4, <1>5, <1>6 DEF ClusterInv, RotationRight

LEMMA ClusterInvAlways == ClusterSpec => []ClusterInv
BY ClusterInvInit, ClusterInvStep, PTL DEF ClusterSpec

\* Whatever the nodes, the requests and the order in which registrations,
\* heartbeats, reaps and deletions come between their steps: a request that
\* route-inference or sync-model turns away has tried every node that was active
\* when it listed them, and while the active set stays as it is any k requests in
\* a row start at k different nodes.
THEOREM RoutesAlwaysWell == ClusterSpec => []RoutesWell
BY ClusterInvAlways, ClusterInvGives, PTL

\* sync-model counts no acceptance without an engine that took the model, and
\* reports success only if one did, however many answers are lost.
THEOREM SyncAlwaysTruthful == ClusterSpec => []SyncReportsTruth
BY ClusterInvAlways, ClusterInvGives, PTL
=============================================================================
