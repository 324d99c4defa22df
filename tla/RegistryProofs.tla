--------------------------- MODULE RegistryProofs ---------------------------
(***************************************************************************)
(* What the two halves of the registry guarantee however requests race,    *)
(* for all versions, models, labels, requests, scores and thresholds: the  *)
(* status machine with its sweeps and merges (Versions), and everything    *)
(* that adds models or takes them away (HubSync).                          *)
(***************************************************************************)
EXTENDS Versions, HubSync, FiniteSetTheorems, SequenceTheorems, TLAPS

----------------------------------------------------------------------------
(* Versions: the invariant *)

Passed(v) == LevelsKnown => v \in vetted

\* What a status and a score say about the past of the version.
Earned(seen, v) ==
  /\ seen.status \in {"testing", "published", "deprecated"} => v \in tested
  /\ seen.status \in {"published", "deprecated"} => Passed(v)
  /\ seen.status = "retired" => v \in retired
  /\ seen.score >= L1 => v \in vetted

\* A row, and what a session remembers of one, has earned its status.
RowsEarned ==
  \A v \in Versions : /\ Earned(row[v], v)
                      /\ \A r \in Requests : Earned(view[r][v], v)

Enough(bar) == LevelsKnown => bar >= L1

\* What is known of a request at each of its points.
RequestsAgree ==
  \A r \in Requests :
    /\ pc[r] \in {"checking", "flipping", "refreshing", "clearing"} => job[r].v \in Versions
    /\ job[r].target = "published" \/ job[r].op = "promote" => Enough(job[r].bar)
    /\ pc[r] = "refreshing" => job[r].op = "promote"
    /\ pc[r] \in {"sweeping", "clearing", "broken"} => job[r].op \in {"dedup", "cleanup"}
    /\ pc[r] = "flipping" =>
         /\ Exists(job[r].v)
         /\ job[r].target \in Statuses
         /\ job[r].target \in {"published", "deprecated"} =>
              job[r].v \in tested /\ Passed(job[r].v)
    /\ job[r].op = "dedup" => job[r].target \in {None, "retired"}
    /\ job[r].op = "dedup" /\ pc[r] \in {"checking", "flipping"} => job[r].target = "retired"
    /\ job[r].op = "cleanup" => job[r].todo \subseteq retired
    /\ pc[r] = "clearing" => job[r].v \in retired
    /\ pc[r] = "creating" =>
         job[r].v \in Uploaded /\ job[r].b \in Branches /\ job[r].hash \in Weights

\* A session remembers, and a branch has at its head, only rows that are there;
\* they are never deleted.
RowsThere ==
  /\ \A r \in Requests, v \in Versions : view[r][v] # Unread => Exists(v)
  /\ \A b \in Branches : branch[b].head # None => Exists(branch[b].head)

VersionInv ==
  /\ TypeOK /\ RowsEarned /\ RequestsAgree /\ RowsThere /\ ReclaimedWasRetired

\* A step keeps the account of what was given up if it gives up nothing more
\* and ends no dedup that is about to retire what it removed.
LEMMA LossesKept ==
  ASSUME VersionInv, retired \subseteq retired', cut \subseteq retired' \cup cut',
         \A v \in Uploaded : Exists(v)' =>
           \/ row'[v].path # None /\ v \in dirs'
           \/ Exists(v) /\ (row'[v].path = None => row[v].path = None \/ v \in retired')
                        /\ (v \notin dirs' => v \notin dirs \/ v \in retired' \cup cut'),
         \A q \in Requests, v \in Uploaded :
           Retiring(q, v) => Retiring(q, v)' \/ v \in retired' \cup cut'
  PROVE  ReclaimedWasRetired'
BY DEF VersionInv, ReclaimedWasRetired

LEMMA LevelOne == L1 \in Nat /\ 1 <= L1 /\ (\A t \in Thresholds : t \in Nat /\ Enough(t))
<1>1. L1 \in Nat \ {0}
  BY ConstantsAssumption
<1> QED BY <1>1, ConstantsAssumption DEF Enough, LevelsKnown

\* The types of what sessions load, and of no job.
LEMMA ReadTyped ==
  ASSUME TypeOK, NEW v \in Versions
  PROVE  /\ Exists(v) => Read(v) \in Seen /\ row[v] \in Row
         /\ ~Exists(v) => Read(v) = Unread
<1>1. row[v] \in Row \/ row[v] = NoRow
  BY DEF TypeOK
<1> QED BY <1>1 DEF Exists, Read, Seen, Row, Unread, NoRow

LEMMA LoadedTyped ==
  ASSUME TypeOK, NEW vs
  PROVE  Loaded(vs) \in [Versions -> Seen \cup {Unread}]
BY ReadTyped DEF Loaded

LEMMA BlankTyped ==
  /\ Unloaded \in [Versions -> Seen \cup {Unread}]
  /\ NoJob \in Job
BY DEF Unloaded, NoJob, Job, None

LEMMA InitVersionInv == Init => VersionInv
BY ConstantsAssumption
   DEF Init, VersionInv, TypeOK, RowsEarned, RequestsAgree, RowsThere, ReclaimedWasRetired,
       Row, NoRow, Seen, Job, NoJob, Unread, Unloaded, None, Earned, Passed, Exists,
       Control, Operations

----------------------------------------------------------------------------
(* Versions: requests begin and end *)

\* A step that leaves rows and history alone, and whose sessions at most read
\* rows or forget them, keeps what is earned and what is there.
LEMMA ReadingKeeps ==
  ASSUME VersionInv, UNCHANGED <<row, tested, vetted, retired>>,
         \A b \in Branches : branch'[b].head = branch[b].head,
         \A q \in Requests, v \in Versions :
           \/ view'[q][v] = view[q][v]
           \/ view'[q][v] = Unread
           \/ view'[q][v] = Read(v) /\ Exists(v)
  PROVE  RowsEarned' /\ RowsThere'
<1>1. ASSUME NEW v \in Versions
      PROVE  Earned(row[v], v)' /\ Earned(Read(v), v)' /\ Earned(Unread, v)'
  <2>1. Earned(row[v], v)'
    BY DEF VersionInv, RowsEarned, Earned, Passed
  <2>2. Earned(Read(v), v)'
    BY <2>1 DEF Earned, Passed, Read
  <2>3. ~(0 >= L1)
    BY LevelOne
  <2>4. Earned(Unread, v)'
    BY <2>3 DEF Earned, Passed, Unread, None
  <2> QED BY <2>1, <2>2, <2>4
<1>3. ASSUME NEW q \in Requests, NEW v \in Versions
      PROVE  Earned(view[q][v], v)'
  <2>1. CASE view'[q][v] = view[q][v]
    BY <2>1 DEF VersionInv, RowsEarned, Earned, Passed
  <2>2. CASE view'[q][v] = Unread
    BY <2>2, <1>1 DEF Earned, Passed, Unread
  <2>3. CASE view'[q][v] = Read(v)
    BY <2>3, <1>1 DEF Earned, Passed, Read
  <2> QED BY <2>1, <2>2, <2>3
<1>4. RowsThere'
  BY DEF VersionInv, RowsThere, Exists
<1> QED BY <1>1, <1>3, <1>4 DEF RowsEarned

LEMMA BeginKeeps ==
  ASSUME VersionInv, NEW r \in Requests, NEW j \in Job, NEW vs,
         NEW point \in {"checking", "sweeping", "creating"}, Begin(r, j, point, vs),
         \A v \in Versions : v \in vs => Exists(v),
         point = "checking" => j.v \in Versions,
         j.target = "published" \/ j.op = "promote" => Enough(j.bar),
         j.op = "dedup" => j.target \in {None, "retired"},
         j.op = "cleanup" => j.todo \subseteq retired,
         point = "sweeping" => j.op \in {"dedup", "cleanup"},
         point = "checking" => j.op # "dedup",
         point = "creating" => j.v \in Uploaded /\ j.b \in Branches /\ j.hash \in Weights
  PROVE  VersionInv'
<1>1. TypeOK'
  BY LoadedTyped DEF VersionInv, TypeOK, Begin, Control, history
<1>2. RowsEarned' /\ RowsThere'
  BY ReadingKeeps DEF VersionInv, TypeOK, Begin, Loaded, history
<1>3. RequestsAgree'
  BY DEF VersionInv, TypeOK, RequestsAgree, Passed, Begin, Exists, history
<1>4. ReclaimedWasRetired'
  <2>1. \A q \in Requests, v \in Versions : Retiring(q, v) => Retiring(q, v)'
    BY DEF Retiring, Begin, VersionInv, TypeOK
  <2> QED BY <2>1, LossesKept, ConstantsAssumption DEF Begin, Exists, history
<1> QED BY <1>1, <1>2, <1>3, <1>4 DEF VersionInv

LEMMA EndKeeps ==
  ASSUME VersionInv, NEW r \in Requests, End(r), \A v \in Versions : ~Retiring(r, v),
         UNCHANGED <<row, dirs, after, history>>,
         branch' \in [Branches -> [status : {"active", "merged"}, head : Uploaded \cup {None}]],
         \A b \in Branches : branch'[b].head = branch[b].head
  PROVE  VersionInv'
<1>1. TypeOK'
  BY BlankTyped DEF VersionInv, TypeOK, End, Control, history
<1>2. RowsEarned' /\ RowsThere'
  BY ReadingKeeps DEF VersionInv, TypeOK, End, Unloaded, history
<1>3. RequestsAgree'
  BY DEF VersionInv, TypeOK, RequestsAgree, Passed, End, NoJob, Exists, history, None
<1>4. ReclaimedWasRetired'
  <2>1. \A q \in Requests, v \in Versions : Retiring(q, v) => Retiring(q, v)'
    BY DEF Retiring, End, VersionInv, TypeOK
  <2> QED BY <2>1, LossesKept, ConstantsAssumption DEF Exists, history
<1> QED BY <1>1, <1>2, <1>3, <1>4 DEF VersionInv

----------------------------------------------------------------------------
(* Versions: steps of a request in flight *)

LEMMA CheckKeeps ==
  ASSUME VersionInv, NEW r \in Requests, Check(r)
  PROVE  VersionInv'
<1> DEFINE v == job[r].v
           seen == IF view[r][v] = Unread THEN Read(v) ELSE view[r][v]
<1>1. v \in Versions /\ job[r].target \in Statuses \cup {None}
  BY DEF Check, VersionInv, TypeOK, RequestsAgree, Passed, Job
<1>2. CASE Allowed(seen, job[r].target, job[r].bar)
  <2>1. /\ pc' = [pc EXCEPT ![r] = "flipping"] /\ view' = [view EXCEPT ![r][v] = Unread]
        /\ UNCHANGED <<row, dirs, branch, after, history, job>>
    BY <1>2, EndKeeps DEF Check, GoTo
  <2>2. TypeOK'
    BY <2>1, <1>1 DEF VersionInv, TypeOK, Control, history
  <2>3. RowsEarned' /\ RowsThere'
    BY <2>1, <1>1, ReadingKeeps DEF VersionInv, TypeOK, history
  <2>4. seen \in Seen /\ Exists(v)
    BY <1>1, <1>2, ReadTyped DEF VersionInv, TypeOK, RowsThere, Allowed
  <2>5. /\ seen.score \in Nat /\ seen.status \in Statuses
        /\ Earned(seen, v)
    <3>1. seen.score \in Nat /\ seen.status \in Statuses
      BY <2>4, ConstantsAssumption DEF Seen
    <3>2. Earned(Read(v), v) /\ Earned(view[r][v], v)
      BY <1>1 DEF VersionInv, RowsEarned, Earned, Passed, Read
    <3> QED BY <3>1, <3>2
  <2>6. job[r].target \in Statuses /\ (job[r].target \in {"published", "deprecated"}
          => v \in tested /\ Passed(v))
    <3>1. CASE job[r].target = "published"
      <4>1. seen.score >= job[r].bar /\ Enough(job[r].bar) /\ job[r].bar \in Nat
        BY <1>2, <3>1, LevelOne DEF Allowed, VersionInv, RequestsAgree, Passed, TypeOK, Job
      <4>2. Passed(v)
        BY <4>1, <2>5, LevelOne DEF Earned, Passed, Enough
      <4>3. v \in tested
        BY <3>1, <1>2, <2>5 DEF Allowed, Transitions, Earned, Passed, Statuses
      <4> QED BY <3>1, <4>2, <4>3 DEF Statuses
    <3>2. CASE job[r].target = "deprecated"
      BY <3>2, <1>2, <2>5 DEF Allowed, Transitions, Earned, Passed, Statuses
    <3>3. job[r].target \in Statuses
      BY <1>2, <2>5 DEF Allowed, Transitions, Statuses
    <3> QED BY <3>1, <3>2, <3>3
  <2>7. RequestsAgree'
    <3> SUFFICES ASSUME NEW q \in Requests
                 PROVE  RequestsAgree!(q)'
      BY DEF RequestsAgree
    <3>1. RequestsAgree!(q)
      BY DEF VersionInv, RequestsAgree
    <3>2. CASE q = r
      <4>1. pc'[r] = "flipping" /\ pc[r] = "checking" /\ job' = job
        BY <2>1 DEF Check, VersionInv, TypeOK
      <4> QED BY <2>1, <2>4, <2>6, <1>1, <3>1, <3>2, <4>1 DEF Passed, Exists, history
    <3>3. CASE q # r
      BY <2>1, <3>1, <3>3 DEF VersionInv, TypeOK, Passed, Exists, history
    <3> QED BY <3>2, <3>3
  <2>8. ReclaimedWasRetired'
    <3>1. \A q \in Requests, u \in Versions : Retiring(q, u) => Retiring(q, u)'
      BY <2>1 DEF Retiring, VersionInv, TypeOK
    <3> QED BY <2>1, <3>1, LossesKept, ConstantsAssumption DEF Exists, history
  <2> QED BY <2>2, <2>3, <2>7, <2>8 DEF VersionInv
<1>3. CASE ~Allowed(seen, job[r].target, job[r].bar)
  <2>1. CASE End(r) /\ job[r].op \notin {"dedup", "cleanup"}
    BY <2>1, <1>3, EndKeeps DEF Check, Retiring, VersionInv, TypeOK
  <2>2. CASE /\ job[r].op \in {"dedup", "cleanup"}
             /\ GoTo(r, "sweeping") /\ UNCHANGED <<job, view>>
    <3> UNCHANGED <<row, dirs, branch, after, history>>
      BY DEF Check
    <3>1. RowsEarned' /\ RowsThere'
      BY <2>2, ReadingKeeps DEF history
    <3>2. pc' = [pc EXCEPT ![r] = "sweeping"] /\ pc[r] = "checking"
      BY <2>2 DEF Check, GoTo
    <3>3. job[r].op = "dedup" /\ Exists(v) => v \in retired
      <4> SUFFICES ASSUME job[r].op = "dedup", Exists(v) PROVE v \in retired
        OBVIOUS
      <4>1. job[r].target \in {None, "retired"} /\ Earned(seen, v)
        <5>1. Earned(Read(v), v) /\ Earned(view[r][v], v)
          BY <1>1 DEF VersionInv, RowsEarned, Earned, Passed, Read
        <5> QED BY <5>1 DEF VersionInv, RequestsAgree
      <4>2. job[r].target = "retired"
        BY <4>1, <3>2 DEF VersionInv, RequestsAgree
      <4>3. seen \in Seen /\ seen # Unread
        BY <1>1, ReadTyped DEF VersionInv, TypeOK, Seen, Unread, Statuses, None
      <4>4. seen.status = "retired"
        BY <4>2, <4>3, <1>3 DEF Allowed, Transitions, Seen, Statuses
      <4> QED BY <4>1, <4>4 DEF Earned
    <3>4. ReclaimedWasRetired'
      <4>1. \A q \in Requests, u \in Uploaded :
              q # r => (Retiring(q, u) => Retiring(q, u)')
        BY <2>2, <3>2 DEF Retiring, VersionInv, TypeOK
      <4>2. \A u \in Uploaded : Retiring(r, u) => u = v /\ job[r].op = "dedup"
        BY DEF Retiring
      <4> QED BY <4>1, <4>2, <3>3 DEF VersionInv, ReclaimedWasRetired, Exists, history
    <3> QED
      BY <3>1, <3>2, <3>4, <2>2 DEF VersionInv, TypeOK, RequestsAgree, Passed, Exists, Control, history
  <2> QED BY <1>3, <2>1, <2>2 DEF Check, Proceed
<1> QED BY <1>2, <1>3

\* What the history knows of a version it never forgets.
LEMMA HistoryGrows ==
  ASSUME VersionInv, UNCHANGED view,
         tested \subseteq tested', vetted \subseteq vetted', retired \subseteq retired'
  PROVE  \A q \in Requests, v \in Versions : Earned(view[q][v], v)'
BY DEF VersionInv, RowsEarned, Earned, Passed

LEMMA FlipKeeps ==
  ASSUME VersionInv, NEW r \in Requests, Flip(r)
  PROVE  VersionInv'
<1> DEFINE v == job[r].v
           s == job[r].target
<1>1. /\ v \in Versions /\ Exists(v) /\ s \in Statuses
      /\ s \in {"published", "deprecated"} => v \in tested /\ Passed(v)
  BY DEF Flip, VersionInv, RequestsAgree, Passed
<1>2. /\ row' = [row EXCEPT ![v].status = s]
      /\ tested' = IF s = "testing" THEN tested \cup {v} ELSE tested
      /\ retired' = IF s = "retired" THEN retired \cup {v} ELSE retired
      /\ cut' = cut \ retired'
      /\ UNCHANGED <<dirs, branch, after, vetted>>
  BY DEF Flip, SetStatus
<1>3. row' \in [Versions -> Row \cup {NoRow}]
  <2>1. row[v] \in Row
    BY <1>1, ReadTyped DEF VersionInv
  <2>2. [row[v] EXCEPT !.status = s] \in Row
    BY <1>1, <2>1 DEF Row
  <2> QED BY <1>1, <1>2, <2>2 DEF VersionInv, TypeOK
<1>4. \A u \in Versions : Earned(row[u], u)'
  BY <1>1, <1>2, <1>3 DEF VersionInv, TypeOK, RowsEarned, Earned, Passed, Row, NoRow
<1>5. \A u \in Versions : Exists(u) => Exists(u)'
  BY <1>1, <1>2, <1>3 DEF VersionInv, TypeOK, Exists, NoRow, Row, Statuses, None
<1>6. /\ ReclaimedWasRetired'
      /\ \A b \in Branches : branch'[b].head # None => Exists(branch[b].head)'
  <2>1. ReclaimedWasRetired'
    <3>1. \A u \in Versions : row'[u].path = row[u].path /\ (Exists(u)' => Exists(u))
      BY <1>1, <1>2, <1>3 DEF VersionInv, TypeOK, Row, NoRow, Exists
    <3>2. \A q \in Requests \ {r} : pc'[q] = pc[q] /\ job'[q] = job[q]
      BY DEF Flip, GoTo, End, VersionInv, TypeOK
    <3>3. ASSUME NEW u \in Uploaded, Retiring(r, u)
          PROVE  u \in retired'
      BY <3>3, <1>1, <1>2 DEF Retiring, VersionInv, RequestsAgree
    <3>4. \A q \in Requests, u \in Uploaded : Retiring(q, u) => Retiring(q, u)' \/ u \in retired'
      BY <3>2, <3>3 DEF Retiring
    <3> QED BY <1>2, <3>1, <3>4, LossesKept, ConstantsAssumption
  <2>2. \A b \in Branches : branch'[b] = branch[b] /\ branch[b].head \in Versions \cup {None}
    BY <1>2, ConstantsAssumption DEF VersionInv, TypeOK
  <2> QED BY <2>1, <2>2, <1>5 DEF VersionInv, RowsThere
<1>7. CASE /\ UNCHANGED <<job, view>>
           /\ job[r].op = "promote" \/ job[r].op = "dedup"
           /\ pc' = [pc EXCEPT ![r] = IF job[r].op = "promote" THEN "refreshing" ELSE "clearing"]
  <2>1. TypeOK'
    BY <1>1, <1>7, <1>2, <1>3 DEF VersionInv, TypeOK, Control
  <2>2. RowsEarned' /\ RowsThere'
    <3>1. \A q \in Requests, u \in Versions : Earned(view[q][u], u)'
      BY <1>2, <1>7, HistoryGrows
    <3> QED BY <3>1, <1>7, <1>4, <1>5, <1>6 DEF VersionInv, RowsEarned, RowsThere
  <2>3. RequestsAgree'
    <3>1. job[r].op = "dedup" => v \in retired'
      BY <1>1, <1>2 DEF VersionInv, RequestsAgree, Passed, Statuses, None
    <3>2. retired \subseteq retired' /\ tested \subseteq tested' /\ vetted' = vetted
      BY <1>2
    <3> QED BY <3>1, <3>2, <1>1, <1>5, <1>7 DEF VersionInv, TypeOK, RequestsAgree, Passed
  <2> QED BY <2>1, <2>2, <2>3, <1>6 DEF VersionInv
<1>8. CASE End(r)
  <2>1. \A q \in Requests, u \in Versions :
          Earned(view[q][u], u)' /\ (view'[q][u] # Unread => Exists(u)')
    <3> SUFFICES ASSUME NEW q \in Requests, NEW u \in Versions
                 PROVE  Earned(view[q][u], u)' /\ (view'[q][u] # Unread => Exists(u)')
      OBVIOUS
    <3>1. CASE q = r
      BY <3>1, <1>8, LevelOne DEF End, Unloaded, Unread, Earned, Passed, VersionInv, TypeOK, None
    <3>2. CASE q # r
      BY <3>2, <1>8, <1>2, <1>5 DEF End, VersionInv, TypeOK, RowsEarned, RowsThere, Earned, Passed
    <3> QED BY <3>1, <3>2
  <2>2. TypeOK'
    BY <1>1, <1>8, <1>2, <1>3, BlankTyped DEF VersionInv, TypeOK, End, Control
  <2>3. RequestsAgree'
    BY <1>1, <1>2, <1>5, <1>8 DEF VersionInv, TypeOK, RequestsAgree, Passed, End, NoJob, None
  <2> QED BY <2>1, <2>2, <2>3, <1>4, <1>6 DEF VersionInv, RowsEarned, RowsThere
<1> QED BY <1>7, <1>8 DEF Flip, GoTo

\* The rest of a promotion
LEMMA RefreshKeeps ==
  ASSUME VersionInv, NEW r \in Requests, Refresh(r)
  PROVE  VersionInv'
<1> DEFINE v == job[r].v
<1>1. /\ pc[r] = "refreshing" /\ v \in Versions /\ job[r].op = "promote" /\ Enough(job[r].bar)
      /\ pc' = [pc EXCEPT ![r] = "checking"]
      /\ job' = [job EXCEPT ![r].target = "published"]
      /\ view' = [view EXCEPT ![r] = Loaded({v})]
      /\ UNCHANGED <<row, dirs, branch, after, history>>
  BY DEF Refresh, GoTo, VersionInv, RequestsAgree, Passed
<1>2. TypeOK'
  <2>1. job' \in [Requests -> Job]
    <3>1. job[r] \in Job
      BY DEF VersionInv, TypeOK
    <3>2. [job[r] EXCEPT !.target = "published"] \in Job
      BY <3>1 DEF Job, Statuses
    <3> QED BY <1>1, <3>2 DEF VersionInv, TypeOK
  <2>2. view' \in [Requests -> [Versions -> Seen \cup {Unread}]]
    BY <1>1, LoadedTyped DEF VersionInv, TypeOK
  <2> QED BY <2>1, <2>2, <1>1 DEF VersionInv, TypeOK, Control, history
<1>3. RowsEarned' /\ RowsThere'
  <2>1. \A u \in Versions :
          Loaded({v})[u] = Unread \/ (Loaded({v})[u] = Read(u) /\ Exists(u))
    BY ReadTyped DEF VersionInv, Loaded
  <2> QED BY <2>1, <1>1, ReadingKeeps DEF VersionInv, TypeOK, history
<1>4. RequestsAgree'
  BY <1>1 DEF VersionInv, TypeOK, RequestsAgree, Passed, history, Exists
<1>5. ReclaimedWasRetired'
  <2>1. \A q \in Requests, u \in Uploaded : Retiring(q, u) => Retiring(q, u)'
    BY <1>1 DEF Retiring, VersionInv, TypeOK
  <2> QED BY <1>1, <2>1, LossesKept, ConstantsAssumption DEF Exists, history
<1> QED BY <1>2, <1>3, <1>4, <1>5 DEF VersionInv

\* The steps of a sweep
LEMMA UnlinkKeeps ==
  ASSUME VersionInv, NEW r \in Requests, NEW v \in Versions, Unlink(r, v)
  PROVE  VersionInv'
<1>1. /\ pc[r] = "sweeping" /\ v \in job[r].todo /\ job[r].op \in {"dedup", "cleanup"}
      /\ dirs' = dirs \ {v}
      /\ job' = [job EXCEPT ![r].v = v, ![r].todo = job[r].todo \ {v}, ![r].target = "retired"]
      /\ pc' = [pc EXCEPT ![r] = IF job[r].op = "dedup" THEN "checking" ELSE "clearing"]
      /\ UNCHANGED <<row, branch, after, view, history>>
  BY DEF Unlink, GoTo, VersionInv, TypeOK, RequestsAgree, Passed
<1>2. TypeOK'
  BY <1>1 DEF VersionInv, TypeOK, Control, Job, Statuses, history
<1>3. RowsEarned' /\ RowsThere'
  BY <1>1, ReadingKeeps DEF history
<1>4. RequestsAgree'
  <2> SUFFICES ASSUME NEW q \in Requests
               PROVE  RequestsAgree!(q)'
    BY DEF RequestsAgree, Passed
  <2>1. RequestsAgree!(q)
    BY DEF VersionInv, RequestsAgree, Passed
  <2>2. job[r] \in Job
    BY DEF VersionInv, TypeOK
  <2> QED BY <1>1, <2>1, <2>2 DEF VersionInv, TypeOK, history, Exists, Job
<1>5. ReclaimedWasRetired'
  <2>1. \A q \in Requests, u \in Versions : Retiring(q, u) => Retiring(q, u)'
    BY <1>1 DEF Retiring, VersionInv, TypeOK
  <2>2. v \in retired \/ Retiring(r, v)'
    BY <1>1 DEF Retiring, VersionInv, TypeOK, RequestsAgree
  <2> QED BY <1>1, <2>1, <2>2, ConstantsAssumption DEF VersionInv, ReclaimedWasRetired, Exists, history
<1> QED BY <1>2, <1>3, <1>4, <1>5 DEF VersionInv

LEMMA UnlinkOnlyKeeps ==
  ASSUME VersionInv, NEW r \in Requests, NEW v \in Versions, UnlinkOnly(r, v)
  PROVE  VersionInv'
<1>1. /\ pc[r] = "broken" /\ v \in job[r].todo /\ job[r].op \in {"dedup", "cleanup"}
      /\ dirs' = dirs \ {v}
      /\ job' = [job EXCEPT ![r].todo = job[r].todo \ {v}]
      /\ cut' = cut \cup (((IF job[r].op = "dedup" THEN {v} ELSE {}) \cap Uploaded) \ retired)
      /\ UNCHANGED <<row, branch, after, pc, view, tested, vetted, retired>>
  BY DEF UnlinkOnly, Cut, VersionInv, TypeOK, RequestsAgree
<1>2. TypeOK'
  <2>1. [job[r] EXCEPT !.todo = job[r].todo \ {v}] \in Job
    <3>1. job[r] \in Job
      BY DEF VersionInv, TypeOK
    <3> QED BY <3>1 DEF Job
  <2>2. job' \in [Requests -> Job]
    BY <1>1, <2>1 DEF VersionInv, TypeOK
  <2> QED BY <1>1, <2>2 DEF VersionInv, TypeOK
<1>3. RowsEarned' /\ RowsThere'
  BY <1>1 DEF VersionInv, RowsEarned, RowsThere, Earned, Passed, Exists
<1>4. RequestsAgree'
  <2> SUFFICES ASSUME NEW q \in Requests
               PROVE  RequestsAgree!(q)'
    BY DEF RequestsAgree
  <2>1. RequestsAgree!(q)
    BY DEF VersionInv, RequestsAgree
  <2>2. job[r] \in Job
    BY DEF VersionInv, TypeOK
  <2> QED BY <1>1, <2>1, <2>2 DEF VersionInv, TypeOK, Exists, Passed, Job
<1>5. ReclaimedWasRetired'
  <2>1. \A q \in Requests, u \in Versions : Retiring(q, u) => Retiring(q, u)'
    BY <1>1 DEF Retiring, VersionInv, TypeOK
  <2>2. v \in Uploaded => v \in retired \cup cut'
    BY <1>1 DEF VersionInv, RequestsAgree
  <2> QED BY <1>1, <2>1, <2>2, ConstantsAssumption, LossesKept DEF Exists
<1> QED BY <1>2, <1>3, <1>4, <1>5 DEF VersionInv

\* What a step leaves to the account when it only gives up requests.
LEMMA CutKeeps ==
  ASSUME VersionInv, NEW vs, Cut(vs), UNCHANGED <<row, dirs>>,
         \A q \in Requests, v \in Uploaded : Retiring(q, v) => Retiring(q, v)' \/ v \in vs
  PROVE  ReclaimedWasRetired' /\ cut' \subseteq Uploaded
BY LossesKept DEF Cut, VersionInv, TypeOK, Exists

LEMMA RaiseKeeps ==
  ASSUME VersionInv, NEW r \in Requests, Raise(r)
  PROVE  VersionInv'
<1>1. UNCHANGED <<row, dirs, branch, after, tested, vetted, retired>>
  BY DEF Raise, Cut
<1>2. ReclaimedWasRetired' /\ cut' \subseteq Uploaded
  <2>1. \A q \in Requests \ {r}, v \in Versions : Retiring(q, v) => Retiring(q, v)'
    BY DEF Raise, GoTo, End, Retiring, VersionInv, TypeOK
  <2> DEFINE vs == {v \in Versions : Retiring(r, v)}
  <2>2. Cut(vs) /\ UNCHANGED <<row, dirs>>
    BY DEF Raise
  <2>3. \A q \in Requests, v \in Uploaded : Retiring(q, v) => Retiring(q, v)' \/ v \in vs
    BY <2>1, ConstantsAssumption
  <2> HIDE DEF vs
  <2> QED BY <2>2, <2>3, CutKeeps
<1>3. CASE End(r)
  <2>1. TypeOK'
    BY <1>1, <1>2, <1>3, BlankTyped DEF VersionInv, TypeOK, End, Control
  <2>2. RowsEarned' /\ RowsThere'
    <3>1. \A q \in Requests, v \in Versions : view'[q][v] = view[q][v] \/ view'[q][v] = Unread
      BY <1>3 DEF End, Unloaded, VersionInv, TypeOK
    <3> QED BY <3>1, <1>1, ReadingKeeps
  <2>3. RequestsAgree'
    BY <1>1, <1>3 DEF VersionInv, TypeOK, RequestsAgree, Passed, End, NoJob, Exists, None
  <2> QED BY <2>1, <2>2, <2>3, <1>2 DEF VersionInv
<1>4. CASE /\ job[r].op \in {"dedup", "cleanup"} /\ UNCHANGED <<job, view>>
           /\ \E point \in {"sweeping", "broken"} : pc' = [pc EXCEPT ![r] = point]
  <2>1. TypeOK'
    BY <1>1, <1>2, <1>4 DEF VersionInv, TypeOK, Control
  <2>2. RowsEarned' /\ RowsThere'
    BY <1>1, <1>4, ReadingKeeps
  <2>3. RequestsAgree'
    BY <1>1, <1>4 DEF VersionInv, TypeOK, RequestsAgree, Passed, Exists
  <2> QED BY <2>1, <2>2, <2>3, <1>2 DEF VersionInv
<1> QED BY <1>3, <1>4 DEF Raise, GoTo

LEMMA ClearKeeps ==
  ASSUME VersionInv, NEW r \in Requests, Clear(r)
  PROVE  VersionInv'
<1> DEFINE v == job[r].v
<1>1. /\ pc[r] = "clearing" /\ v \in Versions /\ v \in retired
      /\ job[r].op \in {"dedup", "cleanup"}
      /\ row' = [row EXCEPT ![v].path = None]
      /\ pc' = [pc EXCEPT ![r] = "sweeping"]
      /\ UNCHANGED <<dirs, branch, after, job, view, history>>
  BY DEF Clear, GoTo, VersionInv, RequestsAgree, Passed
<1>2. row' \in [Versions -> Row \cup {NoRow}]
  BY <1>1 DEF VersionInv, TypeOK, Row, NoRow
<1>3. \A u \in Versions : /\ row'[u].status = row[u].status
                          /\ row'[u].score = row[u].score
                          /\ Exists(u)' <=> Exists(u)
                          /\ u # v => row'[u] = row[u]
  <2>1. row[v] \in Row \/ row[v] = NoRow
    BY <1>1 DEF VersionInv, TypeOK
  <2>2. /\ row'[v].status = row[v].status /\ row'[v].score = row[v].score
        /\ Exists(v)' <=> Exists(v)
    BY <1>1, <2>1 DEF VersionInv, TypeOK, Row, NoRow, Exists, Statuses, None
  <2> QED BY <1>1, <2>2 DEF VersionInv, TypeOK, Exists
<1>4. TypeOK'
  BY <1>1, <1>2 DEF VersionInv, TypeOK, Control, history
<1>5. RowsEarned'
  BY <1>1, <1>3 DEF VersionInv, RowsEarned, Earned, Passed, history
<1>6. RowsThere'
  BY <1>1, <1>3, ConstantsAssumption DEF VersionInv, TypeOK, RowsThere
<1>7. RequestsAgree'
  BY <1>1, <1>3 DEF VersionInv, TypeOK, RequestsAgree, Passed, history
<1>8. ReclaimedWasRetired'
  <2>1. \A q \in Requests, u \in Versions : Retiring(q, u) => Retiring(q, u)'
    BY <1>1 DEF Retiring, VersionInv, TypeOK
  <2> QED BY <1>1, <1>3, <2>1, LossesKept, ConstantsAssumption DEF history
<1> QED BY <1>4, <1>5, <1>6, <1>7, <1>8 DEF VersionInv

\* The steps of a merge
LEMMA CreateKeeps ==
  ASSUME VersionInv, NEW r \in Requests, Create(r)
  PROVE  VersionInv'
<1> DEFINE t == MergeLabel[job[r].b][job[r].v]
           draft == [status |-> "draft", score |-> 0, path |-> job[r].path, hash |-> job[r].hash]
<1>1. /\ pc[r] = "creating" /\ t \in Versions \ Uploaded
      /\ pc' = [pc EXCEPT ![r] = "closing"]
      /\ row' = row \/ row' = [row EXCEPT ![t] = draft]
      /\ UNCHANGED <<dirs, branch, after, job, view, history>>
  BY ConstantsAssumption DEF Create, GoTo, VersionInv, RequestsAgree, Passed
<1>2. draft \in Row
  BY <1>1, ConstantsAssumption DEF VersionInv, TypeOK, RequestsAgree, Passed, Row, Job, Statuses
<1>3. row' \in [Versions -> Row \cup {NoRow}]
  BY <1>1, <1>2 DEF VersionInv, TypeOK
<1>4. \A u \in Versions : /\ Exists(u) => Exists(u)'
                          /\ row'[u] = row[u] \/ (u = t /\ row'[u] = draft)
  BY <1>1 DEF VersionInv, TypeOK, Exists, NoRow, None
<1>5. TypeOK'
  BY <1>1, <1>3 DEF VersionInv, TypeOK, Control, history
<1>6. \A u \in Versions : Earned(draft, u)
  BY LevelOne DEF Earned, Passed
<1>7. RowsEarned'
  BY <1>1, <1>4, <1>6 DEF VersionInv, RowsEarned, Earned, Passed, history
<1>8. RowsThere'
  BY <1>1, <1>4, ConstantsAssumption DEF VersionInv, TypeOK, RowsThere
<1>9. RequestsAgree'
  BY <1>1, <1>4 DEF VersionInv, TypeOK, RequestsAgree, Passed, history
<1>10. ReclaimedWasRetired'
  <2>1. \A q \in Requests, u \in Versions : Retiring(q, u) => Retiring(q, u)'
    BY <1>1 DEF Retiring, VersionInv, TypeOK
  <2> QED BY <1>1, <1>4, <2>1, LossesKept, ConstantsAssumption DEF Exists, history
<1> QED BY <1>5, <1>7, <1>8, <1>9, <1>10 DEF VersionInv

----------------------------------------------------------------------------
(* Versions: steps beside the requests *)

\* Rows and history only grow, and every row has earned what it says.
LEMMA GrowthKeeps ==
  ASSUME VersionInv, UNCHANGED requests,
         row' \in [Versions -> Row \cup {NoRow}], dirs' \subseteq Versions,
         branch' \in [Branches -> [status : {"active", "merged"}, head : Uploaded \cup {None}]],
         after' \subseteq Models \X Models,
         tested' = tested, retired' = retired, cut' = cut, dirs \subseteq dirs',
         vetted \subseteq vetted', vetted' \subseteq Versions,
         \A v \in Versions : Exists(v) => Exists(v)' /\ row'[v].path = row[v].path,
         \A v \in Uploaded : Exists(v)' /\ ~Exists(v) => row'[v].path # None /\ v \in dirs',
         \A v \in Versions : Earned(row[v], v)',
         \A b \in Branches : branch'[b].head # None => Exists(branch[b].head)'
  PROVE  VersionInv'
<1>1. TypeOK'
  BY DEF VersionInv, TypeOK, requests
<1>2. RowsEarned'
  BY HistoryGrows DEF RowsEarned, requests
<1>3. RowsThere'
  BY DEF VersionInv, RowsThere, requests
<1>4. RequestsAgree'
  BY DEF VersionInv, RequestsAgree, Passed, requests
<1>5. ReclaimedWasRetired'
  <2>1. \A q \in Requests, v \in Uploaded : Retiring(q, v) => Retiring(q, v)'
    BY DEF Retiring, requests
  <2> QED BY <2>1, LossesKept, ConstantsAssumption
<1> QED BY <1>1, <1>2, <1>3, <1>4, <1>5 DEF VersionInv

LEMMA UploadKeeps ==
  ASSUME VersionInv, NEW v \in Uploaded, NEW w \in Weights, Upload(v, w)
  PROVE  VersionInv'
<1> DEFINE draft == [status |-> "draft", score |-> 0, path |-> v, hash |-> w]
<1>1. /\ v \in Versions /\ v # None /\ ~Exists(v)
      /\ row' = [row EXCEPT ![v] = draft] /\ dirs' = dirs \cup {v}
      /\ UNCHANGED <<branch, after, requests, history>>
  BY ConstantsAssumption DEF Upload, None
<1>2. draft \in Row /\ draft # NoRow
  BY <1>1, ConstantsAssumption DEF Row, Statuses, NoRow, None
<1>3. row' \in [Versions -> Row \cup {NoRow}]
  BY <1>1, <1>2 DEF VersionInv, TypeOK
<1>4. \A u \in Versions : u # v => row'[u] = row[u]
  BY <1>1 DEF VersionInv, TypeOK
<1>5. row'[v] = draft /\ Exists(v)'
  BY <1>1, <1>2 DEF VersionInv, TypeOK, Exists
<1>6. \A u \in Versions : Earned(row[u], u)'
  <2>1. Earned(draft, v)'
    BY LevelOne DEF Earned, Passed
  <2> QED BY <2>1, <1>1, <1>4, <1>5 DEF VersionInv, RowsEarned, Earned, Passed, history
<1>7. \A u \in Versions : /\ Exists(u) => Exists(u)' /\ row'[u].path = row[u].path
                          /\ Exists(u)' /\ ~Exists(u) => row'[u].path # None /\ u \in dirs'
  BY <1>1, <1>4, <1>5 DEF Exists
<1>8. \A b \in Branches : branch'[b].head # None => Exists(branch[b].head)'
  <2>1. \A b \in Branches : branch'[b] = branch[b] /\ branch[b].head \in Versions \cup {None}
    BY <1>1, ConstantsAssumption DEF VersionInv, TypeOK
  <2> QED BY <2>1, <1>7 DEF VersionInv, RowsThere
<1> QED
  BY <1>1, <1>3, <1>6, <1>7, <1>8, GrowthKeeps, ConstantsAssumption DEF VersionInv, TypeOK, history

LEMMA ScoreKeeps ==
  ASSUME VersionInv, NEW v \in Versions, NEW s \in Scores, Score(v, s)
  PROVE  VersionInv'
<1>1. /\ Exists(v) /\ row' = [row EXCEPT ![v].score = s]
      /\ vetted' = IF s >= L1 THEN vetted \cup {v} ELSE vetted
      /\ UNCHANGED <<dirs, branch, after, requests, tested, retired, cut>>
  BY DEF Score
<1>2. row[v] \in Row
  BY <1>1, ReadTyped DEF VersionInv
<1>3. [row[v] EXCEPT !.score = s] \in Row
  BY <1>2 DEF Row
<1>4. row' \in [Versions -> Row \cup {NoRow}]
  BY <1>1, <1>3 DEF VersionInv, TypeOK
<1>5. \A u \in Versions : u # v => row'[u] = row[u]
  BY <1>1 DEF VersionInv, TypeOK
<1>6. /\ row'[v].status = row[v].status /\ row'[v].path = row[v].path
      /\ row'[v].score = s /\ Exists(v)'
  BY <1>1, <1>2 DEF VersionInv, TypeOK, Row, NoRow, Exists, Statuses, None
<1>7. \A u \in Versions : Earned(row[u], u)'
  BY <1>1, <1>5, <1>6 DEF VersionInv, RowsEarned, Earned, Passed
<1>8. \A u \in Versions : /\ Exists(u) => Exists(u)' /\ row'[u].path = row[u].path
                          /\ Exists(u)' /\ ~Exists(u) => row'[u].path # None /\ u \in dirs'
  BY <1>1, <1>5, <1>6 DEF Exists
<1>9. \A b \in Branches : branch'[b].head # None => Exists(branch[b].head)'
  <2>1. \A b \in Branches : branch'[b] = branch[b] /\ branch[b].head \in Versions \cup {None}
    BY <1>1, ConstantsAssumption DEF VersionInv, TypeOK
  <2> QED BY <2>1, <1>8 DEF VersionInv, RowsThere
<1> QED
  BY <1>1, <1>4, <1>7, <1>8, <1>9, GrowthKeeps, ConstantsAssumption DEF VersionInv, TypeOK

LEMMA PatchKeeps ==
  ASSUME VersionInv, NEW b \in Branches, NEW v \in Uploaded,
         NEW s \in {"active", "merged"}, Patch(b, v, s)
  PROVE  VersionInv'
<1>1. /\ Exists(v)
      /\ branch' = [branch EXCEPT ![b] = [status |-> s, head |-> v]]
      /\ UNCHANGED <<row, dirs, after, requests, history>>
  BY DEF Patch
<1>2. branch' \in [Branches -> [status : {"active", "merged"}, head : Uploaded \cup {None}]]
  BY <1>1 DEF VersionInv, TypeOK
<1>3. \A c \in Branches : branch'[c].head # None => Exists(branch[c].head)'
  BY <1>1 DEF VersionInv, TypeOK, RowsThere, Exists
<1>4. \A u \in Versions : Earned(row[u], u)'
  BY <1>1 DEF VersionInv, RowsEarned, Earned, Passed, history
<1>5. \A u \in Versions : Exists(u)' <=> Exists(u)
  BY <1>1 DEF Exists
<1> QED
  BY <1>1, <1>2, <1>3, <1>4, <1>5, GrowthKeeps, ConstantsAssumption DEF VersionInv, TypeOK, history

LEMMA TouchKeeps ==
  ASSUME VersionInv, NEW m \in Models, Touch(m)
  PROVE  VersionInv'
<1>1. UNCHANGED <<row, dirs, branch, requests, history>> /\ after' \subseteq Models \X Models
  BY DEF Touch, VersionInv, TypeOK
<1>2. \A u \in Versions : Earned(row[u], u)' /\ (Exists(u)' <=> Exists(u))
  BY <1>1 DEF VersionInv, RowsEarned, Earned, Passed, history, Exists
<1>3. \A b \in Branches : branch'[b].head # None => Exists(branch[b].head)'
  BY <1>1 DEF VersionInv, RowsThere, Exists
<1> QED
  BY <1>1, <1>2, <1>3, GrowthKeeps, ConstantsAssumption DEF VersionInv, TypeOK, history

LEMMA CrashKeeps ==
  ASSUME VersionInv, Crash
  PROVE  VersionInv'
<1>1. /\ pc' = [r \in Requests |-> "idle"]
      /\ job' = [r \in Requests |-> NoJob]
      /\ view' = [r \in Requests |-> Unloaded]
      /\ UNCHANGED <<row, dirs, branch, after, tested, vetted, retired>>
  BY DEF Crash, Cut
<1>2. ReclaimedWasRetired' /\ cut' \subseteq Uploaded
  <2> DEFINE vs == {v \in Versions : \E r \in Requests : Retiring(r, v)}
  <2>1. Cut(vs) /\ UNCHANGED <<row, dirs>>
    BY DEF Crash
  <2>2. \A q \in Requests, v \in Uploaded : Retiring(q, v) => v \in vs
    BY ConstantsAssumption
  <2> HIDE DEF vs
  <2> QED BY <2>1, <2>2, CutKeeps
<1>3. TypeOK'
  BY <1>1, <1>2, BlankTyped DEF VersionInv, TypeOK, Control
<1>4. RowsEarned' /\ RowsThere'
  BY <1>1, ReadingKeeps DEF Unloaded
<1>5. RequestsAgree'
  BY <1>1 DEF RequestsAgree, Passed, NoJob, None
<1> QED BY <1>2, <1>3, <1>4, <1>5 DEF VersionInv

----------------------------------------------------------------------------
(* Versions: what a request begins with *)

LEMMA ChangeStatusKeeps ==
  ASSUME VersionInv, NEW r \in Requests, NEW v \in Versions, NEW s \in Statuses,
         NEW t \in Thresholds, ChangeStatus(r, v, s, t)
  PROVE  VersionInv'
<1> DEFINE j == [NoJob EXCEPT !.op = "status", !.v = v, !.target = s, !.bar = t]
<1>1. Exists(v) /\ Begin(r, j, "checking", {v}) /\ j.op = "status" /\ j.v = v /\ Enough(j.bar)
  BY LevelOne DEF ChangeStatus, NoJob
<1>2. j \in Job
  <2>1. "status" \in Operations
    BY DEF Operations
  <2> QED BY <2>1 DEF Job, NoJob
<1> HIDE DEF j
<1> QED BY <1>1, <1>2, BeginKeeps

LEMMA RetireKeeps ==
  ASSUME VersionInv, NEW r \in Requests, NEW v \in Versions, Retire(r, v)
  PROVE  VersionInv'
<1> DEFINE j == [NoJob EXCEPT !.op = "retire", !.v = v, !.target = "retired"]
<1>1. Begin(r, j, "checking", {}) /\ j.op = "retire" /\ j.v = v /\ j.target = "retired"
  BY DEF Retire, NoJob
<1>2. j \in Job
  BY DEF Job, NoJob, Operations, Statuses
<1> HIDE DEF j
<1> QED BY <1>1, <1>2, BeginKeeps

LEMMA PromoteKeeps ==
  ASSUME VersionInv, NEW r \in Requests, NEW v \in Versions, Promote(r, v)
  PROVE  VersionInv'
<1> DEFINE s == Promoted(row[v].status)
           j == [NoJob EXCEPT !.op = "promote", !.v = v, !.target = s, !.bar = L1]
<1>1. /\ Begin(r, j, "checking", {v})
      /\ j.op = "promote" /\ j.v = v /\ j.bar = L1 /\ s \in Statuses
  BY DEF Promote, NoJob, Promoted, Statuses
<1>2. Exists(v)
  BY DEF Promote, Exists, NoRow, None
<1>3. j \in Job
  BY <1>1, ConstantsAssumption DEF Job, NoJob, Operations
<1> HIDE DEF j
<1> QED BY <1>1, <1>2, <1>3, LevelOne, BeginKeeps DEF Enough

LEMMA DedupKeeps ==
  ASSUME VersionInv, NEW r \in Requests, NEW keep \in SUBSET Versions, Dedup(r, keep)
  PROVE  VersionInv'
<1> DEFINE todo == {v \in Versions : Exists(v)} \ keep
           j == [NoJob EXCEPT !.op = "dedup", !.todo = todo]
<1>1. Begin(r, j, "sweeping", todo) /\ j.op = "dedup" /\ j.target = None
  BY DEF Dedup, NoJob
<1>2. j \in Job
  BY DEF Job, NoJob, Operations
<1>3. \A v \in Versions : v \in todo => Exists(v)
  OBVIOUS
<1> HIDE DEF j, todo
<1> QED BY <1>1, <1>2, <1>3, BeginKeeps DEF None

LEMMA CleanupKeeps ==
  ASSUME VersionInv, NEW r \in Requests, Cleanup(r)
  PROVE  VersionInv'
<1> DEFINE j == [NoJob EXCEPT !.op = "cleanup", !.todo = Candidates]
<1>1. Begin(r, j, "sweeping", {}) /\ j.op = "cleanup" /\ j.target = None /\ j.todo = Candidates
  BY DEF Cleanup, NoJob
<1>2. j \in Job
  BY DEF Job, NoJob, Operations, Candidates
<1>3. Candidates \subseteq retired
  BY DEF Candidates, VersionInv, RowsEarned, Earned, Passed
<1> HIDE DEF j
<1> QED BY <1>1, <1>2, <1>3, BeginKeeps DEF None

LEMMA MergeKeeps ==
  ASSUME VersionInv, NEW r \in Requests, NEW b \in Branches, Merge(r, b)
  PROVE  VersionInv'
<1> DEFINE head == branch[b].head
           j == [NoJob EXCEPT !.op = "merge", !.v = head, !.b = b,
                              !.path = row[head].path, !.hash = row[head].hash]
<1>1. /\ Begin(r, j, "creating", {}) /\ j.op = "merge" /\ j.target = None
      /\ j.v = head /\ j.b = b /\ j.hash = row[head].hash /\ head # None
  BY DEF Merge, NoJob
<1>2. head \in Uploaded /\ head \in Versions /\ row[head] \in Row
  BY <1>1, ReadTyped, ConstantsAssumption DEF VersionInv, TypeOK, RowsThere
<1>3. j \in Job /\ j.hash \in Weights
  BY <1>1, <1>2 DEF Job, NoJob, Operations, Row
<1> HIDE DEF j
<1> QED BY <1>1, <1>2, <1>3, BeginKeeps DEF None

----------------------------------------------------------------------------
(* Versions: the specification *)

LEMMA RequestKeeps ==
  ASSUME VersionInv, NEW r \in Requests, Request(r)
  PROVE  VersionInv'
<1>1. Managed \subseteq Versions
  BY ConstantsAssumption
<1>2. ASSUME NEW v \in Managed, NEW s \in Statuses, NEW t \in Thresholds,
             ChangeStatus(r, v, s, t)
      PROVE  VersionInv'
  BY <1>1, <1>2, ChangeStatusKeeps
<1>3. ASSUME NEW v \in Managed,
             Rollback(r, v) \/ Deprecate(r, v) \/ Retire(r, v) \/ Promote(r, v)
      PROVE  VersionInv'
  <2>1. L1 \in Thresholds /\ {"published", "deprecated"} \subseteq Statuses
    BY ConstantsAssumption DEF Statuses
  <2>2. CASE Rollback(r, v) \/ Deprecate(r, v)
    BY <2>1, <2>2, <1>1, ChangeStatusKeeps DEF Rollback, Deprecate
  <2>3. CASE Retire(r, v) \/ Promote(r, v)
    BY <1>1, <2>3, RetireKeeps, PromoteKeeps
  <2> QED BY <1>3, <2>2, <2>3
<1>4. CASE Check(r) \/ Flip(r) \/ Refresh(r)
  BY <1>4, CheckKeeps, FlipKeeps, RefreshKeeps
<1>5. CASE (\E keep \in SUBSET Versions : Dedup(r, keep)) \/ Cleanup(r)
  BY <1>5, DedupKeeps, CleanupKeeps
<1>6. CASE (\E v \in Versions : Unlink(r, v) \/ UnlinkOnly(r, v)) \/ Clear(r) \/ Raise(r)
  BY <1>6, UnlinkKeeps, UnlinkOnlyKeeps, ClearKeeps, RaiseKeeps
<1>7. CASE Swept(r)
  BY <1>7, EndKeeps DEF Swept, Retiring, VersionInv, TypeOK
<1>8. CASE (\E b \in Branches : Merge(r, b)) \/ Create(r)
  BY <1>8, MergeKeeps, CreateKeeps
<1>9. CASE Close(r)
  <2>1. /\ branch' \in [Branches -> [status : {"active", "merged"}, head : Uploaded \cup {None}]]
        /\ \A b \in Branches : branch'[b].head = branch[b].head
    BY <1>9 DEF Close, VersionInv, TypeOK
  <2> QED BY <2>1, <1>9, EndKeeps DEF Close, Retiring
<1> QED BY <1>2, <1>3, <1>4, <1>5, <1>6, <1>7, <1>8, <1>9 DEF Request

LEMMA StepKeeps == VersionInv /\ [Next]_vars => VersionInv'
<1> SUFFICES ASSUME VersionInv, [Next]_vars
             PROVE  VersionInv'
  OBVIOUS
<1>1. ASSUME NEW r \in Requests, Request(r)
      PROVE  VersionInv'
  BY <1>1, RequestKeeps
<1>2. CASE \E v \in Uploaded, w \in Weights : Upload(v, w)
  BY <1>2, UploadKeeps
<1>3. CASE \E v \in Managed, s \in Scores : Score(v, s)
  BY <1>3, ScoreKeeps, ConstantsAssumption
<1>4. CASE \E b \in Branches, v \in Uploaded, s \in {"active", "merged"} : Patch(b, v, s)
  BY <1>4, PatchKeeps
<1>5. CASE \E m \in Models : Touch(m)
  BY <1>5, TouchKeeps
<1>6. CASE Crash
  BY <1>6, CrashKeeps
<1>7. CASE UNCHANGED vars
  BY <1>7 DEF vars, requests, history, VersionInv, TypeOK, RowsEarned, RequestsAgree,
              RowsThere, ReclaimedWasRetired, Retiring, Earned, Passed, Exists
<1> QED BY <1>1, <1>2, <1>3, <1>4, <1>5, <1>6, <1>7 DEF Next

LEMMA Invariance == Spec => []VersionInv
BY InitVersionInv, StepKeeps, PTL DEF Spec

\* Type correctness of the version store, for any versions, requests and scores.
THEOREM TypeCorrect == Spec => []TypeOK
<1>1. VersionInv => TypeOK
  BY DEF VersionInv
<1> QED BY <1>1, Invariance, PTL

\* Whatever stale rows the sessions of racing requests hold, a PUBLISHED version
\* has been TESTING and has had a passing score (update_version_status, promote).
THEOREM PublishedAlwaysTested == Spec => []PublishedWasTested
<1>1. VersionInv => PublishedWasTested
  BY DEF VersionInv, RowsEarned, Earned, Passed, PublishedWasTested
<1> QED BY <1>1, Invariance, PTL

\* However dedup, cleanup, retirement, database errors and crashes interleave, the
\* row of an uploaded version gives up its file, and its directory goes, because
\* the version was RETIRED, or the directory because the dedup that removed it is
\* about to retire it, or died or met a database error before it had.
THEOREM ReclaimedAlwaysRetired == Spec => []ReclaimedWasRetired
<1>1. VersionInv => ReclaimedWasRetired
  BY DEF VersionInv
<1> QED BY <1>1, Invariance, PTL

----------------------------------------------------------------------------
(* Versions: merges *)

Merged(r) == MergeLabel[job[r].b][job[r].v]

\* A merge that is about to close its branch has its version.
MergesThere ==
  \A r \in Requests : pc[r] = "closing" => Merged(r) \in Versions /\ Exists(Merged(r))

\* Rows are never deleted: a draft needs a free label, the rest is updates.
LEMMA RowsStay ==
  ASSUME VersionInv, [Next]_vars, NEW v \in Versions, Exists(v)
  PROVE  Exists(v)'
<1>1. row \in [Versions -> Row \cup {NoRow}] /\ row[v] \in Row
  BY ReadTyped DEF VersionInv, TypeOK
<1>2. ASSUME NEW u, NEW x, row' = [row EXCEPT ![u] = x], u = v => x # NoRow
      PROVE  Exists(v)'
  BY <1>1, <1>2 DEF Exists
<1>3. CASE UNCHANGED row
  BY <1>3 DEF Exists
<1>4. ASSUME NEW u, NEW s, row' = [row EXCEPT ![u].status = s], s # None
      PROVE  Exists(v)'
  BY <1>1, <1>4 DEF Exists, Row, NoRow, None
<1>5. ASSUME NEW r \in Requests, Flip(r)
      PROVE  Exists(v)'
  <2>1. job[r].target # None
    BY <1>5 DEF Flip, VersionInv, RequestsAgree, Statuses, None
  <2> QED BY <1>4, <1>5, <2>1 DEF Flip, SetStatus
<1>6. ASSUME NEW r \in Requests, Clear(r)
      PROVE  Exists(v)'
  BY <1>1, <1>6 DEF Clear, Exists, Row, NoRow, None, Statuses
<1>7. ASSUME NEW r \in Requests, Create(r)
      PROVE  Exists(v)'
  BY <1>1, <1>3, <1>7 DEF Create, Exists
<1>8. ASSUME NEW r \in Requests, Request(r)
      PROVE  Exists(v)'
  BY <1>3, <1>5, <1>6, <1>7, <1>8
     DEF Request, ChangeStatus, Rollback, Deprecate, Retire, Promote, Check, Refresh,
         Dedup, Cleanup, Unlink, UnlinkOnly, Raise, Swept, Merge, Close, Begin
<1>9. CASE \E u \in Uploaded, w \in Weights : Upload(u, w)
  BY <1>1, <1>9 DEF Upload, Exists
<1>10. CASE \E u \in Managed, s \in Scores : Score(u, s)
  BY <1>1, <1>10 DEF Score, Exists, Row, NoRow, Statuses, None
<1> QED BY <1>3, <1>8, <1>9, <1>10 DEF Next, Patch, Touch, Crash, vars

\* Only Create brings a request to its closing.
LEMMA ClosingStep ==
  ASSUME VersionInv, [Next]_vars, NEW q \in Requests, pc'[q] = "closing"
  PROVE  \/ pc[q] = "closing" /\ job'[q] = job[q]
         \/ Create(q)
<1>1. pc \in [Requests -> Control] /\ job \in [Requests -> Job]
  BY DEF VersionInv, TypeOK
<1>2. ASSUME NEW r \in Requests, Create(r)
      PROVE  r = q \/ (pc[q] = "closing" /\ job'[q] = job[q])
  BY <1>1, <1>2 DEF Create, GoTo
<1>3. ASSUME NEW r \in Requests, NEW j, NEW point, NEW vs, Begin(r, j, point, vs),
             point # "closing"
      PROVE  pc[q] = "closing" /\ job'[q] = job[q]
  BY <1>1, <1>3 DEF Begin
<1>4. ASSUME NEW r \in Requests, End(r)
      PROVE  pc[q] = "closing" /\ job'[q] = job[q]
  BY <1>1, <1>4 DEF End
<1>5. ASSUME NEW r \in Requests, NEW point, NEW j, GoTo(r, point),
             job' = job \/ job' = [job EXCEPT ![r] = j], point # "closing"
      PROVE  pc[q] = "closing" /\ job'[q] = job[q]
  BY <1>1, <1>5 DEF GoTo
<1>6. ASSUME NEW r \in Requests, Check(r) \/ Flip(r) \/ Refresh(r)
      PROVE  pc[q] = "closing" /\ job'[q] = job[q]
  <2>1. CASE Check(r)
    BY <2>1, <1>4, <1>5 DEF Check, Proceed
  <2>2. CASE Flip(r)
    BY <2>2, <1>4, <1>5 DEF Flip
  <2>3. CASE Refresh(r)
    BY <2>3, <1>1 DEF Refresh, GoTo
  <2> QED BY <1>6, <2>1, <2>2, <2>3
<1>7. ASSUME NEW r \in Requests,
             \/ \E v \in Versions : Unlink(r, v) \/ UnlinkOnly(r, v)
             \/ Clear(r) \/ Raise(r) \/ Swept(r)
      PROVE  pc[q] = "closing" /\ job'[q] = job[q]
  <2>1. CASE Raise(r)
    BY <2>1, <1>4, <1>5 DEF Raise
  <2>2. ASSUME NEW v \in Versions, UnlinkOnly(r, v)
        PROVE  pc[q] = "closing" /\ job'[q] = job[q]
    BY <1>1, <2>2 DEF UnlinkOnly
  <2> QED BY <1>1, <1>4, <1>7, <2>1, <2>2 DEF Unlink, Clear, Swept, GoTo
<1>8. ASSUME NEW r \in Requests, Request(r)
      PROVE  \/ pc[q] = "closing" /\ job'[q] = job[q]
             \/ Create(q)
  <2>1. CASE Check(r) \/ Flip(r) \/ Refresh(r)
    BY <2>1, <1>6
  <2>2. CASE \/ \E v \in Versions : Unlink(r, v) \/ UnlinkOnly(r, v)
             \/ Clear(r) \/ Raise(r) \/ Swept(r)
    BY <2>2, <1>7
  <2>3. CASE Create(r)
    BY <2>3, <1>2
  <2>4. CASE Close(r)
    BY <2>4, <1>4 DEF Close
  <2>5. CASE (\E keep \in SUBSET Versions : Dedup(r, keep)) \/ Cleanup(r)
             \/ (\E b \in Branches : Merge(r, b))
    BY <2>5, <1>3 DEF Dedup, Cleanup, Merge
  <2>6. ASSUME NEW v, NEW s, NEW t, ChangeStatus(r, v, s, t)
        PROVE  pc[q] = "closing" /\ job'[q] = job[q]
    BY <2>6, <1>3 DEF ChangeStatus
  <2>7. ASSUME NEW v, Rollback(r, v) \/ Deprecate(r, v) \/ Retire(r, v) \/ Promote(r, v)
        PROVE  pc[q] = "closing" /\ job'[q] = job[q]
    BY <2>6, <2>7, <1>3 DEF Rollback, Deprecate, Retire, Promote
  <2> QED BY <1>8, <2>1, <2>2, <2>3, <2>4, <2>5, <2>6, <2>7 DEF Request
<1>9. CASE Crash
  BY <1>1, <1>9 DEF Crash
<1> QED BY <1>8, <1>9 DEF Next, Upload, Score, Patch, Touch, requests, vars

LEMMA MergesKeep == VersionInv /\ MergesThere /\ [Next]_vars => MergesThere'
<1> SUFFICES ASSUME VersionInv, MergesThere, [Next]_vars, NEW r \in Requests,
                    pc'[r] = "closing"
             PROVE  (Merged(r) \in Versions /\ Exists(Merged(r)))'
  BY DEF MergesThere
<1>1. CASE pc[r] = "closing" /\ job'[r] = job[r]
  <2>1. Merged(r) \in Versions /\ Exists(Merged(r)) /\ Merged(r)' = Merged(r)
    BY <1>1 DEF MergesThere, Merged
  <2>2. ASSUME NEW t \in Versions, Exists(t), Merged(r)' = t
        PROVE  (Merged(r) \in Versions /\ Exists(Merged(r)))'
    BY <2>2, RowsStay DEF Exists
  <2> QED BY <2>1, <2>2
<1>2. CASE Create(r)
  <2>1. Merged(r) \in Versions /\ Merged(r)' = Merged(r)
    BY <1>2, ConstantsAssumption DEF Create, Merged, VersionInv, RequestsAgree
  <2>2. row'[Merged(r)] # NoRow
    BY <1>2, <2>1 DEF Create, Merged, Exists, NoRow, None, VersionInv, TypeOK
  <2> QED BY <2>1, <2>2 DEF Exists
<1> QED BY <1>1, <1>2, ClosingStep

\* A merge closes its branch, and answers, only when the version it was to leave is
\* there, whatever crashes, reopened branches and racing requests came before (R-P2,
\* merge_branch).
THEOREM MergesAlwaysLeave == Spec => MergeLeavesVersion
<1>1. Init => MergesThere
  BY DEF Init, MergesThere
<1>2. VersionInv /\ MergesThere /\ [Next]_vars
        => [\A r \in Requests : Close(r) => Exists(MergeLabel[job[r].b][job[r].v])]_vars
  BY DEF MergesThere, Merged, Close
<1> QED BY <1>1, <1>2, MergesKeep, Invariance, PTL DEF Spec, MergeLeavesVersion

----------------------------------------------------------------------------
(* Synchronisation: what a request that holds on to an id knows of it *)

USE DEF Recording

\* A list of a finite set
LEMMA ListTyped ==
  ASSUME NEW S, IsFiniteSet(S), NEW T \in SUBSET S
  PROVE  SetToSeq(T) \in Seq(S) /\ (T # {} => SetToSeq(T) # <<>>)
<1>1. IsFiniteSet(T) /\ Cardinality(T) \in Nat
  BY FS_Subset, FS_CardinalityType
<1>2. \E f \in [1..Cardinality(T) -> T] : IsInjective(f)
  <2>1. Bijection(1..Cardinality(T), T) # {}
    BY <1>1, FS_CardinalityType DEF ExistsBijection
  <2> QED BY <2>1 DEF Bijection, Injection
<1>3. SetToSeq(T) \in [1..Cardinality(T) -> T]
  BY <1>2 DEF SetToSeq
<1>4. SetToSeq(T) \in Seq(S) /\ Len(SetToSeq(T)) = Cardinality(T)
  BY <1>1, <1>3, SeqDef
<1>5. T # {} => Cardinality(T) # 0
  BY <1>1, FS_EmptySet
<1> QED BY <1>4, <1>5

\* An id that a request holds is not given to another model.
IdsKnown ==
  \A s \in Slots : req[s].id # 0 => name[req[s].id] \in {NoName, req[s].name}

NamesAgree ==
  \A s, x \in Slots : req[s].id = req[x].id /\ req[s].id # 0 => req[s].name = req[x].name

\* What an undisturbed stream wrote is still there when it is recorded.
Unspoilt ==
  \A s \in Slots :
    req[s].at \in Recording /\ req[s].clean =>
      disk[req[s].id][Head(req[s].todo)] = <<req[s].name, Head(req[s].todo)>>

SyncInv == SyncTypeOK /\ BytesBelong /\ IdsKnown /\ NamesAgree /\ Unspoilt

\* A request keeps its model, lets go of it, or takes the model of its name.
IdsMove ==
  \A s \in Slots :
    \/ req'[s].id = 0
    \/ req'[s].id = req[s].id /\ req'[s].name = req[s].name
    \/ /\ req'[s].id \in Ids /\ req'[s].name \in Names
       /\ name'[req'[s].id] = req'[s].name

\* A name is kept, given up, or given to an id nobody holds.
NamesMove ==
  \A i \in Ids :
    \/ name'[i] = name[i]
    \/ name'[i] = NoName
    \/ name[i] = NoName /\ \A s \in Slots : req[s].id # i

\* A file stays recorded or is replaced by one of the model and label.
BytesMove ==
  \A i \in Ids, l \in Labels :
    rows'[i][l].file \in {NoBytes, rows[i][l].file, <<name'[i], l>>, <<Local, l>>}

\* A stream that is about to be recorded was so before, or ends there.
StreamsMove ==
  \A s \in Slots :
    req'[s].at \in Recording /\ req'[s].clean =>
      LET l == Head(req'[s].todo)
          bytes == disk'[req'[s].id][l]
      IN \/ bytes = <<req'[s].name, l>>
         \/ /\ req[s].at \in Recording /\ req[s].clean
            /\ req'[s].id = req[s].id /\ req'[s].todo = req[s].todo
            /\ req'[s].name = req[s].name
            /\ bytes = disk[req[s].id][l]

LEMMA MovesKeep ==
  ASSUME SyncInv, SyncTypeOK', IdsMove, NamesMove, BytesMove, StreamsMove
  PROVE  SyncInv'
<1> USE DEF SyncInv
<1>1. NoName \notin Names
  BY HubSyncAssumption
<1>2. ASSUME NEW s \in Slots
      PROVE  /\ req[s] \in SyncRequest /\ req'[s] \in SyncRequest
             /\ req[s].id \in 0..MaxIds /\ req'[s].id \in 0..MaxIds
  BY DEF SyncTypeOK, SyncRequest
<1>3. \A i \in 0..MaxIds : i # 0 => i \in Ids
  BY HubSyncAssumption DEF Ids
<1>4. ASSUME NEW s \in Slots, req'[s].id # 0
      PROVE  name'[req'[s].id] \in {NoName, req'[s].name}
  <2>1. CASE req'[s].id = req[s].id /\ req'[s].name = req[s].name
    BY <2>1, <1>2, <1>3, <1>4 DEF IdsKnown, NamesMove
  <2> QED BY <2>1, <1>4 DEF IdsMove
<1>5. ASSUME NEW s \in Slots, NEW x \in Slots, req'[s].id = req'[x].id, req'[s].id # 0
      PROVE  req'[s].name = req'[x].name
  <2> DEFINE i == req'[s].id
  <2>1. i \in Ids
    BY <1>2, <1>3, <1>5
  <2>2. ASSUME NEW y \in Slots, NEW z \in Slots, req'[y].id = i, req'[z].id = i,
               req'[y].id = req[y].id /\ req'[y].name = req[y].name,
               req'[z].name \in Names /\ name'[i] = req'[z].name
        PROVE  req'[y].name = req'[z].name
    <3>1. name'[i] # NoName /\ req[y].id = i
      BY <2>2, <1>1
    <3>2. name'[i] = name[i]
      BY <3>1, <2>1 DEF NamesMove
    <3> QED BY <3>1, <3>2, <2>2, <1>5 DEF IdsKnown
  <2>3. CASE req'[s].id = req[s].id /\ req'[s].name = req[s].name
    <3>1. CASE req'[x].id = req[x].id /\ req'[x].name = req[x].name
      BY <2>3, <3>1, <1>5 DEF NamesAgree
    <3> QED BY <3>1, <2>2, <2>3, <1>5 DEF IdsMove
  <2>4. CASE /\ req'[s].name \in Names /\ name'[i] = req'[s].name
    <3>1. CASE req'[x].id = req[x].id /\ req'[x].name = req[x].name
      BY <3>1, <2>2, <2>4, <1>5
    <3> QED BY <3>1, <2>4, <1>5 DEF IdsMove
  <2> QED BY <2>3, <2>4, <1>5 DEF IdsMove
<1>6. BytesBelong'
  <2> SUFFICES ASSUME NEW i \in Ids, NEW l \in Labels, name'[i] # NoName
               PROVE  rows'[i][l].file \in {NoBytes, <<name'[i], l>>, <<Local, l>>}
    BY DEF BytesBelong, Used
  <2>1. CASE name'[i] = name[i]
    BY <2>1 DEF BytesMove, BytesBelong, Used
  <2>2. CASE name[i] = NoName
    <3>1. rows[i][l] = NoVersion
      BY <2>2 DEF SyncTypeOK, Used
    <3> QED BY <3>1 DEF BytesMove, NoVersion
  <2> QED BY <2>1, <2>2 DEF NamesMove
<1>7. ASSUME NEW s \in Slots, req'[s].at \in Recording, req'[s].clean
      PROVE  disk'[req'[s].id][Head(req'[s].todo)] = <<req'[s].name, Head(req'[s].todo)>>
  <2> DEFINE l == Head(req'[s].todo)
             bytes == disk'[req'[s].id][l]
  <2>1. CASE bytes = <<req'[s].name, l>>
    BY <2>1
  <2>2. CASE /\ req[s].at \in Recording /\ req[s].clean
             /\ req'[s].id = req[s].id /\ req'[s].todo = req[s].todo
             /\ req'[s].name = req[s].name
             /\ bytes = disk[req[s].id][l]
    <3>1. disk[req[s].id][Head(req[s].todo)] = <<req[s].name, Head(req[s].todo)>>
      BY <2>2 DEF Unspoilt
    <3> QED BY <2>2, <3>1
  <2>3. \/ bytes = <<req'[s].name, l>>
        \/ /\ req[s].at \in Recording /\ req[s].clean
           /\ req'[s].id = req[s].id /\ req'[s].todo = req[s].todo
           /\ req'[s].name = req[s].name
           /\ bytes = disk[req[s].id][l]
    <3> HIDE DEF Recording
    <3> QED BY <1>7 DEF StreamsMove
  <2> QED BY <2>1, <2>2, <2>3
<1>8. Unspoilt'
  BY <1>7 DEF Unspoilt
<1> QED BY <1>4, <1>5, <1>6, <1>8 DEF IdsKnown, NamesAgree

----------------------------------------------------------------------------
(* Synchronisation: steps that change a request only *)

LEMMA RequestStep ==
  ASSUME SyncInv, NEW s \in Slots, NEW r \in SyncRequest, req' = [req EXCEPT ![s] = r],
         UNCHANGED <<source, name, rows, disk>>,
         r.at \in Recording => /\ req[s].at \in Recording /\ r.clean = req[s].clean
                               /\ r.id = req[s].id /\ r.name = req[s].name /\ r.todo = req[s].todo,
         \/ r.id = 0
         \/ r.id = req[s].id /\ r.name = req[s].name
         \/ r.id \in Ids /\ r.name \in Names /\ name[r.id] = r.name
  PROVE  SyncInv'
<1>1. req \in [Slots -> SyncRequest]
  BY DEF SyncInv, SyncTypeOK
<1>2. req' \in [Slots -> SyncRequest] /\ \A x \in Slots : req'[x] = IF x = s THEN r ELSE req[x]
  BY <1>1
<1>3. SyncTypeOK'
  BY <1>2 DEF SyncInv, SyncTypeOK, Used
<1>4. IdsMove
  BY <1>2 DEF IdsMove
<1>5. NamesMove /\ BytesMove
  BY DEF NamesMove, BytesMove
<1>6. StreamsMove
  <2> SUFFICES ASSUME NEW x \in Slots, req'[x].at \in Recording, req'[x].clean
               PROVE  /\ req[x].at \in Recording /\ req[x].clean
                      /\ req'[x].id = req[x].id /\ req'[x].todo = req[x].todo
                      /\ req'[x].name = req[x].name
    BY DEF StreamsMove
  <2> QED BY <1>2
<1> QED BY <1>3, <1>4, <1>5, <1>6, MovesKeep

LEMMA IdleTyped == Idle \in SyncRequest /\ Idle.id = 0 /\ Idle.at = "idle"
<1>1. <<>> \in Seq(Names)
  OBVIOUS
<1> QED BY <1>1, HubSyncAssumption
        DEF Idle, SyncRequest, Kinds, AllPoints, Points, Streaming

LEMMA StartKeeps ==
  ASSUME SyncInv, NEW s \in Slots, NEW kind, NEW at, NEW n, NEW todo,
         Start(s, kind, at, n, todo),
         \/ kind \in {"create", "market"} /\ at = "check" /\ n \in Names /\ todo = <<>>
         \/ kind = "import" /\ at = "check" /\ n \in Names /\ todo \in Seq(Names)
         \/ kind = "sync" /\ at = "insert" /\ n \in Names /\ todo \in Seq(Names)
         \/ /\ <<kind, at>> \in {<<"tar", "check">>, <<"pull", "check">>, <<"receive", "known">>}
            /\ n \in Names
              /\ todo \in Seq(Labels) /\ todo # <<>>
         \/ kind = "delete" /\ at = "files" /\ n = NoName /\ todo \in Seq(Ids) /\ todo # <<>>
  PROVE  SyncInv'
<1> DEFINE r == [kind |-> kind, at |-> at, name |-> n, id |-> 0, todo |-> todo,
                 made |-> {}, clean |-> TRUE]
<1>1. <<>> \in Seq(Names)
  OBVIOUS
<1>2. r \in [kind : Kinds, at : AllPoints, name : Names \cup {NoName},
             id : 0..MaxIds, todo : Seq(Names) \cup Seq(Labels) \cup Seq(Ids),
             made : SUBSET Labels, clean : BOOLEAN]
  <2>1. kind \in Kinds /\ at \in AllPoints /\ n \in Names \cup {NoName}
    BY DEF Kinds, AllPoints
  <2>2. todo \in Seq(Names) \cup Seq(Labels) \cup Seq(Ids)
    BY <1>1
  <2>3. 0 \in 0..MaxIds
    BY HubSyncAssumption
  <2> QED BY <2>1, <2>2, <2>3
<1>3. r \in SyncRequest
  BY <1>2 DEF SyncRequest, Points, Streaming
<1>4. r.id = 0 /\ r.at \notin Recording /\ req' = [req EXCEPT ![s] = r]
      /\ UNCHANGED <<source, name, rows, disk>>
  BY DEF Start
<1> HIDE DEF r
<1> QED BY <1>3, <1>4, RequestStep

LEMMA SourceTyped ==
  ASSUME SyncInv
  PROVE  /\ RemoteNames \subseteq Names
         /\ \A n \in RemoteNames : RemoteLabels(n) \subseteq Labels /\ RemoteLabels(n) # {}
         /\ \A v \in source : v[1] \in Names /\ v[2] \in Labels
         /\ IsFiniteSet(Ids)
<1>1. source \subseteq Names \X Labels
  BY HubSyncAssumption DEF SyncInv, SyncTypeOK
<1>2. IsFiniteSet(Ids)
  BY HubSyncAssumption, FS_Interval DEF Ids
<1> QED BY <1>1, <1>2 DEF RemoteNames, RemoteLabels

\* The nine endpoints
LEMMA BeginningKeeps ==
  ASSUME SyncInv, NEW s \in Slots,
         \/ CreateModel(s) \/ ImportHf(s) \/ ImportData(s) \/ ImportTar(s)
         \/ SyncRegistry(s) \/ Pull(s) \/ Receive(s) \/ DeleteStart(s)
  PROVE  SyncInv'
<1>1. CASE CreateModel(s) \/ ImportHf(s)
  BY <1>1, StartKeeps DEF CreateModel, ImportHf
<1>2. ASSUME NEW ns \in SUBSET Names, ns # {}, NEW kind, NEW at,
             <<kind, at>> \in {<<"import", "check">>, <<"sync", "insert">>},
             Start(s, kind, at, Head(SetToSeq(ns)), Tail(SetToSeq(ns)))
      PROVE  SyncInv'
  <2>1. SetToSeq(ns) \in Seq(Names) /\ SetToSeq(ns) # <<>>
    BY <1>2, ListTyped, HubSyncAssumption
  <2>2. Head(SetToSeq(ns)) \in Names /\ Tail(SetToSeq(ns)) \in Seq(Names)
    BY <2>1, HeadTailProperties
  <2> QED BY <1>2, <2>2, StartKeeps
<1>3. CASE ImportData(s)
  BY <1>2, <1>3, SourceTyped DEF ImportData
<1>4. CASE SyncRegistry(s)
  <2>1. ASSUME NEW page \in SUBSET Used
        PROVE  RemoteNames \ {name[i] : i \in page} \in SUBSET Names
    BY SourceTyped
  <2> QED BY <1>2, <1>4, <2>1 DEF SyncRegistry
<1>5. ASSUME NEW n \in RemoteNames, NEW ls \in SUBSET RemoteLabels(n), ls # {},
             NEW kind \in {"tar", "pull"}, Start(s, kind, "check", n, SetToSeq(ls))
      PROVE  SyncInv'
  <2>1. n \in Names /\ ls \in SUBSET Labels
    BY SourceTyped
  <2>2. SetToSeq(ls) \in Seq(Labels) /\ SetToSeq(ls) # <<>>
    BY <1>5, <2>1, ListTyped, HubSyncAssumption
  <2> QED BY <1>5, <2>1, <2>2, StartKeeps
<1>6. CASE ImportTar(s) \/ Pull(s)
  BY <1>5, <1>6, SourceTyped DEF ImportTar, Pull
<1>7. CASE Receive(s)
  <2>1. PICK v \in source : Start(s, "receive", "known", v[1], <<v[2]>>)
    BY <1>7 DEF Receive
  <2>2. v[1] \in Names /\ <<v[2]>> \in Seq(Labels) /\ <<v[2]>> # <<>>
    BY SourceTyped
  <2> QED BY <2>1, <2>2, StartKeeps
<1>8. CASE DeleteStart(s)
  <2>1. ASSUME NEW is \in SUBSET Used, is # {},
               Start(s, "delete", "files", NoName, SetToSeq(is))
        PROVE  SyncInv'
    <3>1. SetToSeq(is) \in Seq(Ids) /\ SetToSeq(is) # <<>>
      BY <2>1, ListTyped, SourceTyped DEF Used
    <3> QED BY <2>1, <3>1, StartKeeps
  <2> QED BY <1>8, <2>1 DEF DeleteStart
<1> QED BY <1>1, <1>3, <1>4, <1>6, <1>7, <1>8

\* On to the next name of a list
LEMMA NextNameTyped ==
  ASSUME NEW r \in SyncRequest, NEW at, (r.kind = "import" /\ at = "check") \/ at = "insert",
         r.kind \in {"import", "sync"}
  PROVE  NextName(r, at) \in SyncRequest /\ NextName(r, at).id = 0
         /\ NextName(r, at).at \notin Recording
<1>1. CASE r.todo = <<>>
  BY <1>1, IdleTyped DEF NextName
<1>2. CASE r.todo # <<>>
  <2>1. r.todo \in Seq(Names) /\ r.id = 0
    BY DEF SyncRequest, Points
  <2>2. Head(r.todo) \in Names /\ Tail(r.todo) \in Seq(Names)
    BY <1>2, <2>1, HeadTailProperties
  <2> QED BY <1>2, <2>1, <2>2 DEF NextName, SyncRequest, Points, AllPoints, Streaming
<1> QED BY <1>1, <1>2

LEMMA LookUpIdKeeps ==
  ASSUME SyncInv, NEW s \in Slots, LookUpId(s)
  PROVE  SyncInv'
<1> DEFINE r == req[s]
<1>1. r \in SyncRequest /\ r.at = "known" /\ UNCHANGED <<source, name, rows, disk>>
  BY DEF LookUpId, SyncInv, SyncTypeOK
<1>2. r.id = 0 /\ r.kind = "receive" /\ r.name \in Names
  BY <1>1 DEF SyncRequest, Points, Kinds
<1>3. CASE req' = [req EXCEPT ![s].at = "check"]
  <2> DEFINE x == [r EXCEPT !.at = "check"]
  <2>1. x \in SyncRequest /\ x.id = 0 /\ x.at = "check"
    BY <1>1, <1>2 DEF SyncRequest, Points, AllPoints, Streaming
  <2>2. req' = [req EXCEPT ![s] = x]
    BY <1>3
  <2> HIDE DEF x
  <2> QED BY <1>1, <2>1, <2>2, RequestStep
<1>4. CASE Taken(r.name) /\ req' = [req EXCEPT ![s].at = "open", ![s].id = IdOf(r.name)]
  <2> DEFINE i == IdOf(r.name)
             x == [r EXCEPT !.at = "open", !.id = i]
  <2>1. i \in Ids /\ name[i] = r.name
    BY <1>4 DEF Taken, IdOf
  <2>2. i \in 0..MaxIds /\ i # 0
    BY <2>1, HubSyncAssumption DEF Ids
  <2>3. x \in SyncRequest /\ x.id = i /\ x.name = r.name /\ x.at = "open"
    BY <1>1, <1>2, <2>2 DEF SyncRequest, Points, AllPoints, Streaming
  <2>4. req' = [req EXCEPT ![s] = x]
    BY <1>4
  <2> HIDE DEF x, i
  <2> QED BY <1>1, <1>2, <2>1, <2>3, <2>4, RequestStep
<1> QED BY <1>3, <1>4 DEF LookUpId

LEMMA LookUpKeeps ==
  ASSUME SyncInv, NEW s \in Slots, LookUp(s)
  PROVE  SyncInv'
<1> DEFINE r == req[s]
<1>1. r \in SyncRequest /\ r.at = "check" /\ UNCHANGED <<source, name, rows, disk>>
  BY DEF LookUp, SyncInv, SyncTypeOK
<1>2. r.id = 0 /\ r.kind \in {"create", "market", "tar", "import", "pull", "receive"}
      /\ r.name \in Names
  BY <1>1 DEF SyncRequest, Points, Kinds
<1>3. CASE ~Taken(r.name)
  <2> DEFINE x == [r EXCEPT !.at = "insert"]
  <2>1. x \in SyncRequest /\ x.id = 0 /\ x.at \notin Recording
    BY <1>1, <1>2 DEF SyncRequest, Points, AllPoints, Streaming
  <2>2. req' = [req EXCEPT ![s] = x]
    BY <1>3 DEF LookUp
  <2> HIDE DEF x
  <2> QED BY <1>1, <2>1, <2>2, RequestStep
<1>4. CASE Taken(r.name) /\ r.kind \in {"create", "market", "tar"}
  <2>1. req' = [req EXCEPT ![s] = Idle]
    BY <1>4 DEF LookUp
  <2> QED BY <1>1, <2>1, IdleTyped, RequestStep
<1>5. CASE Taken(r.name) /\ r.kind = "import"
  <2>1. req' = [req EXCEPT ![s] = NextName(r, "check")]
    BY <1>5 DEF LookUp
  <2> QED BY <1>1, <1>5, <2>1, NextNameTyped, RequestStep
<1>6. ASSUME Taken(r.name), NEW at,
             <<r.kind, at>> \in {<<"pull", "row">>, <<"receive", "open">>}
      PROVE  SyncInv'
  <2> DEFINE i == IdOf(r.name)
             x == [r EXCEPT !.at = at, !.id = i]
  <2>1. i \in Ids /\ name[i] = r.name
    BY <1>6 DEF Taken, IdOf
  <2>2. i \in 0..MaxIds /\ i # 0
    BY <2>1, HubSyncAssumption DEF Ids
  <2>3. x \in SyncRequest /\ x.id = i /\ x.name = r.name /\ x.at \notin Recording
    BY <1>1, <1>2, <1>6, <2>2 DEF SyncRequest, Points, AllPoints, Streaming
  <2>4. req' = [req EXCEPT ![s] = x]
    BY <1>6 DEF LookUp
  <2> HIDE DEF x, i
  <2> QED BY <1>1, <1>2, <2>1, <2>3, <2>4, RequestStep
<1> QED BY <1>2, <1>3, <1>4, <1>5, <1>6

LEMMA StreamingAt ==
  ASSUME SyncInv, NEW s \in Slots, req[s].at \in Streaming
  PROVE  /\ req[s] \in SyncRequest /\ req[s].kind \in {"pull", "receive"}
         /\ req[s].id \in Ids /\ req[s].id # 0
         /\ req[s].todo \in Seq(Labels) /\ req[s].todo # <<>>
         /\ Head(req[s].todo) \in Labels /\ req[s].name \in Names
         /\ <<req[s].name, Head(req[s].todo)>> \in Content
<1>1. req[s] \in SyncRequest
  BY DEF SyncInv, SyncTypeOK
<1>2. req[s].kind \in {"pull", "receive"}
  BY <1>1 DEF SyncRequest, Points, Kinds, Streaming
<1>3. /\ req[s].id \in Ids /\ req[s].id # 0 /\ req[s].todo \in Seq(Labels)
      /\ req[s].todo # <<>> /\ req[s].name \in Names
  BY <1>1, <1>2, HubSyncAssumption DEF SyncRequest, Streaming, Ids
<1>4. Head(req[s].todo) \in Labels
  BY <1>3, HeadTailProperties
<1> QED BY <1>1, <1>2, <1>3, <1>4 DEF Content, Whole

----------------------------------------------------------------------------
(* Synchronisation: steps that change names and rows *)

LEMMA RowStep ==
  ASSUME SyncInv, NEW s \in Slots, NEW r \in SyncRequest, req' = [req EXCEPT ![s] = r],
         UNCHANGED <<source, name, disk>>, r.at \notin Recording,
         r.id = 0 \/ (r.id = req[s].id /\ r.name = req[s].name),
         rows' \in [Ids -> [Labels -> VersionRow \cup {NoVersion}]],
         \A i \in Ids, l \in Labels : name[i] = NoName => rows'[i][l] = rows[i][l],
         BytesMove
  PROVE  SyncInv'
<1>1. req \in [Slots -> SyncRequest]
  BY DEF SyncInv, SyncTypeOK
<1>2. req' \in [Slots -> SyncRequest] /\ \A x \in Slots : req'[x] = IF x = s THEN r ELSE req[x]
  BY <1>1
<1>3. SyncTypeOK'
  BY <1>2 DEF SyncInv, SyncTypeOK, Used
<1>4. IdsMove
  BY <1>2 DEF IdsMove
<1>5. NamesMove
  BY DEF NamesMove
<1>6. StreamsMove
  BY <1>2 DEF StreamsMove
<1> QED BY <1>3, <1>4, <1>5, <1>6, MovesKeep

\* A single row that is written
LEMMA RowWritten ==
  ASSUME SyncInv, NEW i \in Ids, NEW l \in Labels, name[i] # NoName,
         NEW v \in VersionRow, rows' = [rows EXCEPT ![i][l] = v],
         name' = name,
         v.file \in {NoBytes, rows[i][l].file, <<name[i], l>>, <<Local, l>>}
  PROVE  /\ rows' \in [Ids -> [Labels -> VersionRow \cup {NoVersion}]]
         /\ \A j \in Ids, k \in Labels : name[j] = NoName => rows'[j][k] = rows[j][k]
         /\ BytesMove
<1>1. rows \in [Ids -> [Labels -> VersionRow \cup {NoVersion}]]
  BY DEF SyncInv, SyncTypeOK
<1>2. \A j \in Ids, k \in Labels :
        rows'[j][k] = IF j = i /\ k = l THEN v ELSE rows[j][k]
  BY <1>1
<1> QED BY <1>1, <1>2 DEF BytesMove

\* A row that is created, if there is none, and one that is given a file
LEMMA RowTypes ==
  ASSUME SyncInv, NEW i \in Ids, NEW l \in Labels
  PROVE  /\ [rows[i][l] EXCEPT !.there = TRUE] \in VersionRow
         /\ [rows[i][l] EXCEPT !.there = TRUE].file = rows[i][l].file
         /\ [rows EXCEPT ![i][l].there = TRUE]
              = [rows EXCEPT ![i][l] = [rows[i][l] EXCEPT !.there = TRUE]]
         /\ rows[i][l].there \in BOOLEAN
         /\ \A n \in Names :
              /\ [there |-> TRUE, file |-> <<n, l>>] \in VersionRow
              /\ rows[i][l].there => [rows[i][l] EXCEPT !.file = <<n, l>>] \in VersionRow
              /\ [rows[i][l] EXCEPT !.file = <<n, l>>].file = <<n, l>>
         /\ [there |-> TRUE, file |-> <<Local, l>>] \in VersionRow
<1>1. rows \in [Ids -> [Labels -> VersionRow \cup {NoVersion}]]
  BY DEF SyncInv, SyncTypeOK
<1>2. rows[i][l] \in VersionRow \cup {NoVersion}
  BY <1>1
<1> DEFINE v == rows[i][l]
<1>3. v \in [there : BOOLEAN, file : {NoBytes} \cup Whole] /\ (v.there => v \in VersionRow)
  <2> HIDE DEF v
  <2>1. CASE v \in VersionRow
    BY <2>1 DEF VersionRow
  <2>2. CASE v = NoVersion
    BY <2>2 DEF NoVersion
  <2> QED BY <1>2, <2>1, <2>2 DEF v
<1>4. \A n \in Names : <<n, l>> \in Whole
  BY DEF Whole
<1>5. <<Local, l>> \in Whole
  BY DEF Whole, Own
<1>6. /\ [v EXCEPT !.there = TRUE] \in VersionRow
      /\ [v EXCEPT !.there = TRUE].file = v.file
  BY <1>3 DEF VersionRow
<1>7. ASSUME NEW n \in Names
      PROVE  /\ v.there => [v EXCEPT !.file = <<n, l>>] \in VersionRow
             /\ [v EXCEPT !.file = <<n, l>>].file = <<n, l>>
  BY <1>3, <1>4 DEF VersionRow
<1> QED BY <1>1, <1>3, <1>4, <1>5, <1>6, <1>7 DEF VersionRow

\* A request that has found its model
Placed(r, at, i) == [r EXCEPT !.at = at, !.id = i]

LEMMA PlacedTyped ==
  ASSUME NEW r \in SyncRequest, r.at \in {"known", "check", "insert"}, NEW i \in Ids, NEW at,
         \/ r.kind = "market" /\ at = "market"
         \/ r.kind = "tar" /\ at = "extract"
         \/ r.kind = "pull" /\ at = "row"
         \/ r.kind = "receive" /\ at = "open"
  PROVE  /\ Placed(r, at, i) \in SyncRequest /\ Placed(r, at, i).at = at
         /\ Placed(r, at, i).id = i /\ Placed(r, at, i).name = r.name
<1>1. i \in 0..MaxIds /\ i # 0
  BY HubSyncAssumption DEF Ids
<1> QED BY <1>1 DEF Placed, SyncRequest, Points, AllPoints, Streaming

LEMMA InsertKeeps ==
  ASSUME SyncInv, NEW s \in Slots, Insert(s)
  PROVE  SyncInv'
<1> DEFINE r == req[s]
           i == CHOOSE i \in FreshIds : TRUE
<1>1. r \in SyncRequest /\ r.at = "insert" /\ UNCHANGED <<source, rows, disk>>
      /\ req \in [Slots -> SyncRequest]
  BY DEF Insert, SyncInv, SyncTypeOK
<1>2. r.id = 0 /\ r.kind \in {"create", "market", "tar", "import", "sync", "pull", "receive"}
      /\ r.name \in Names
  BY <1>1 DEF SyncRequest, Points, Kinds
<1>3. i \in FreshIds
  BY DEF Insert
<1>4. /\ i \in Ids /\ name[i] = NoName /\ \A x \in Slots : req[x].id # i
      /\ i \in 0..MaxIds /\ i # 0
  BY <1>3, HubSyncAssumption DEF FreshIds, Ids
<1>5. CASE Taken(r.name)
  <2>1. req' = [req EXCEPT ![s] = Idle] /\ UNCHANGED name
    BY <1>5 DEF Insert, Done
  <2> QED BY <1>1, <2>1, IdleTyped, RequestStep
<1>6. CASE ~Taken(r.name)
  <2> DEFINE x == Created(r, i)
  <2> HIDE DEF i
  <2>1. /\ x \in SyncRequest /\ x.at \notin Recording
        /\ x.id = 0 \/ (x.id = i /\ x.name = r.name)
    <3>1. CASE r.kind = "create"
      BY <3>1, IdleTyped DEF Created
    <3>2. CASE r.kind \in {"import", "sync"}
      <4>1. r.kind = "import" => x = NextName(r, "check")
        BY DEF Created
      <4>2. r.kind = "sync" => x = NextName(r, "insert")
        BY DEF Created
      <4> HIDE DEF x
      <4> QED BY <3>2, <4>1, <4>2, <1>1, NextNameTyped
    <3>4. CASE r.kind = "market"
      <4>1. x = Placed(r, "market", i)
        BY <3>4 DEF Created, Placed
      <4> HIDE DEF x, r
      <4>2. /\ Placed(r, "market", i) \in SyncRequest /\ Placed(r, "market", i).at = "market"
            /\ Placed(r, "market", i).id = i /\ Placed(r, "market", i).name = r.name
        BY <1>1, <1>4, <3>4, PlacedTyped
      <4> QED BY <4>1, <4>2
    <3>5. CASE r.kind = "tar"
      <4>1. x = Placed(r, "extract", i)
        BY <3>5 DEF Created, Placed
      <4> HIDE DEF x, r
      <4>2. /\ Placed(r, "extract", i) \in SyncRequest /\ Placed(r, "extract", i).at = "extract"
            /\ Placed(r, "extract", i).id = i /\ Placed(r, "extract", i).name = r.name
        BY <1>1, <1>4, <3>5, PlacedTyped
      <4> QED BY <4>1, <4>2
    <3>6. CASE r.kind = "pull"
      <4>1. x = Placed(r, "row", i)
        BY <3>6 DEF Created, Placed
      <4> HIDE DEF x, r
      <4>2. /\ Placed(r, "row", i) \in SyncRequest /\ Placed(r, "row", i).at = "row"
            /\ Placed(r, "row", i).id = i /\ Placed(r, "row", i).name = r.name
        BY <1>1, <1>4, <3>6, PlacedTyped
      <4> QED BY <4>1, <4>2
    <3>7. CASE r.kind = "receive"
      <4>1. x = Placed(r, "open", i)
        BY <3>7 DEF Created, Placed
      <4> HIDE DEF x, r
      <4>2. /\ Placed(r, "open", i) \in SyncRequest /\ Placed(r, "open", i).at = "open"
            /\ Placed(r, "open", i).id = i /\ Placed(r, "open", i).name = r.name
        BY <1>1, <1>4, <3>7, PlacedTyped
      <4> QED BY <4>1, <4>2
    <3> QED BY <3>1, <3>2, <3>4, <3>5, <3>6, <3>7, <1>2
  <2>2. name' = [name EXCEPT ![i] = r.name] /\ req' = [req EXCEPT ![s] = x]
    BY <1>6 DEF Insert, i
  <2> HIDE DEF x, r
  <2>3. name \in [Ids -> Names \cup {NoName}] /\ r.name # NoName
    BY <1>2, HubSyncAssumption DEF SyncInv, SyncTypeOK
  <2>4. \A j \in Ids : name'[j] = IF j = i THEN r.name ELSE name[j]
    BY <2>2, <2>3, <1>4
  <2>5. req' \in [Slots -> SyncRequest] /\ \A y \in Slots : req'[y] = IF y = s THEN x ELSE req[y]
    BY <1>1, <2>1, <2>2
  <2>6. SyncTypeOK'
    <3>1. \A j \in Ids : name[j] # r.name
      BY <1>6 DEF Taken
    <3>2. name' \in [Ids -> Names \cup {NoName}]
      BY <2>2, <2>3, <1>2
    <3>3. \A j, k \in Ids : name'[j] # NoName /\ name'[j] = name'[k] => j = k
      BY <2>4, <3>1 DEF SyncInv, SyncTypeOK, Used
    <3>4. \A j \in Ids, l \in Labels : name'[j] = NoName => rows'[j][l] = NoVersion
      BY <1>1, <2>3, <2>4 DEF SyncInv, SyncTypeOK, Used
    <3>5. SyncTypeOK
      BY DEF SyncInv
    <3> QED BY <1>1, <2>5, <3>2, <3>3, <3>4, <3>5 DEF SyncTypeOK, Used
  <2>7. IdsMove
    BY <2>1, <2>4, <2>5, <1>2, <1>4 DEF IdsMove
  <2>8. NamesMove
    BY <2>4, <1>4 DEF NamesMove
  <2>9. BytesMove /\ StreamsMove
    BY <2>1, <2>5, <1>1 DEF BytesMove, StreamsMove
  <2> QED BY <2>6, <2>7, <2>8, <2>9, MovesKeep
<1> QED BY <1>5, <1>6

LEMMA PullRowKeeps ==
  ASSUME SyncInv, NEW s \in Slots, PullRow(s)
  PROVE  SyncInv'
<1> DEFINE r == req[s]
           l == Head(r.todo)
<1>1. r \in SyncRequest /\ r.kind = "pull" /\ r.at = "row" /\ UNCHANGED <<source, name, disk>>
  BY DEF PullRow, SyncInv, SyncTypeOK
<1>2. r.id \in Ids /\ r.id # 0 /\ r.todo \in Seq(Labels) /\ r.todo # <<>>
  BY <1>1, HubSyncAssumption DEF SyncRequest, Ids
<1>3. l \in Labels
  BY <1>2, HeadTailProperties
<1>4. CASE name[r.id] = NoName \/ rows[r.id][l].there
  <2>1. req' = [req EXCEPT ![s] = Idle] /\ UNCHANGED rows
    BY <1>4 DEF PullRow, Done
  <2> QED BY <1>1, <2>1, IdleTyped, RequestStep
<1>5. CASE ~(name[r.id] = NoName \/ rows[r.id][l].there)
  <2> DEFINE x == [r EXCEPT !.at = "open", !.made = @ \cup {l}]
             v == [rows[r.id][l] EXCEPT !.there = TRUE]
  <2>1. x \in SyncRequest /\ x.id = r.id /\ x.name = r.name /\ x.at \notin Recording
    BY <1>1, <1>2, <1>3 DEF SyncRequest, Points, AllPoints, Streaming
  <2>2. req' = [req EXCEPT ![s] = x]
    BY <1>5 DEF PullRow, SyncInv, SyncTypeOK
  <2>3. rows' = [rows EXCEPT ![r.id][l] = v] /\ v \in VersionRow /\ v.file = rows[r.id][l].file
    BY <1>2, <1>3, <1>5, RowTypes DEF PullRow
  <2> HIDE DEF x, v, l
  <2>4. /\ rows' \in [Ids -> [Labels -> VersionRow \cup {NoVersion}]]
        /\ \A j \in Ids, k \in Labels : name[j] = NoName => rows'[j][k] = rows[j][k]
        /\ BytesMove
    BY <2>3, <1>1, <1>2, <1>3, <1>5, RowWritten
  <2> QED BY <1>1, <2>1, <2>2, <2>4, RowStep
<1> QED BY <1>4, <1>5

LEMMA NextLabelTyped ==
  ASSUME NEW r \in SyncRequest, r.kind = "pull", r.at \in {"open", "write", "record"}
  PROVE  /\ NextLabel(r) \in SyncRequest /\ NextLabel(r).at \notin Recording
         /\ NextLabel(r).id = r.id /\ NextLabel(r).name = r.name
<1>1. r.todo \in Seq(Labels) /\ r.todo # <<>>
  BY DEF SyncRequest
<1>2. Tail(r.todo) \in Seq(Labels) /\ Len(Tail(r.todo)) = Len(r.todo) - 1
  BY <1>1, HeadTailProperties
<1>3. Len(r.todo) # 1 => Tail(r.todo) # <<>>
  <2> SUFFICES ASSUME Tail(r.todo) = <<>>
               PROVE  Len(r.todo) = 1
    OBVIOUS
  <2>1. Len(Tail(r.todo)) = 0 /\ Len(r.todo) \in Nat
    BY <1>1, <1>2, EmptySeq, LenProperties
  <2> QED BY <1>2, <2>1
<1> QED BY <1>1, <1>2, <1>3 DEF NextLabel, SyncRequest, Points, AllPoints, Streaming

LEMMA PullRecordKeeps ==
  ASSUME SyncInv, NEW s \in Slots, PullRecord(s)
  PROVE  SyncInv'
<1> DEFINE r == req[s]
           l == Head(r.todo)
           x == NextLabel(r)
<1>1. r \in SyncRequest /\ r.kind = "pull" /\ r.at = "record" /\ UNCHANGED <<source, name, disk>>
      /\ req' = [req EXCEPT ![s] = x]
  BY DEF PullRecord, SyncInv, SyncTypeOK
<1>2. r.id \in Ids /\ r.id # 0 /\ r.todo \in Seq(Labels) /\ r.todo # <<>> /\ r.name \in Names
  BY <1>1, HubSyncAssumption DEF SyncRequest, Ids
<1>3. l \in Labels
  BY <1>2, HeadTailProperties
<1>4. x \in SyncRequest /\ x.id = r.id /\ x.name = r.name /\ x.at \notin Recording
  BY <1>1, NextLabelTyped
<1>5. CASE ~rows[r.id][l].there
  <2>1. UNCHANGED rows
    BY <1>5 DEF PullRecord
  <2> HIDE DEF x
  <2> QED BY <1>1, <1>4, <2>1, RequestStep
<1>6. CASE rows[r.id][l].there
  <2> DEFINE v == [rows[r.id][l] EXCEPT !.file = <<r.name, l>>]
  <2>1. rows' = [rows EXCEPT ![r.id][l] = v] /\ v \in VersionRow /\ v.file = <<r.name, l>>
    BY <1>2, <1>3, <1>6, RowTypes DEF PullRecord
  <2>2. name[r.id] # NoName
    BY <1>2, <1>3, <1>6 DEF SyncInv, SyncTypeOK, Used, NoVersion
  <2>3. name[r.id] = r.name
    BY <1>2, <2>2 DEF SyncInv, IdsKnown
  <2>4. v.file = <<name[r.id], l>>
    BY <2>1, <2>3
  <2> HIDE DEF x, v, l
  <2>5. /\ rows' \in [Ids -> [Labels -> VersionRow \cup {NoVersion}]]
        /\ \A j \in Ids, k \in Labels : name[j] = NoName => rows'[j][k] = rows[j][k]
        /\ BytesMove
    BY <2>1, <2>2, <2>4, <1>1, <1>2, <1>3, RowWritten
  <2> QED BY <1>1, <1>4, <2>5, RowStep
<1> QED BY <1>5, <1>6

LEMMA FileReplaced ==
  ASSUME NEW v \in VersionRow, NEW b
  PROVE  [v EXCEPT !.file = b] = [there |-> TRUE, file |-> b]
<1> DEFINE w == [v EXCEPT !.file = b]
<1>1. w \in [there : {TRUE}, file : {b}] /\ w.there = TRUE /\ w.file = b
  BY DEF VersionRow
<1>2. [there |-> TRUE, file |-> b] \in [there : {TRUE}, file : {b}]
  OBVIOUS
<1> HIDE DEF w
<1>3. w = [there |-> TRUE, file |-> b]
  BY <1>1, <1>2
<1> QED BY <1>3 DEF w

\* The row of a push that is about to be recorded, and what is recorded in it.
LEMMA ReceiveWrites ==
  ASSUME SyncInv, NEW s \in Slots, req[s].kind = "receive", req[s].at \in Recording,
         NEW x \in SyncRequest, x.id = req[s].id, x.name = req[s].name, x.at = "answer",
         req' = [req EXCEPT ![s] = x],
         NEW v \in VersionRow, v.file = <<req[s].name, Head(req[s].todo)>>,
         rows' = [rows EXCEPT ![req[s].id][Head(req[s].todo)] = v],
         name[req[s].id] # NoName, UNCHANGED <<source, name, disk>>
  PROVE  SyncInv'
<1> DEFINE r == req[s]
           l == Head(r.todo)
<1>1. /\ r \in SyncRequest /\ r.id \in Ids /\ r.id # 0 /\ l \in Labels /\ r.name \in Names
      /\ r.todo \in Seq(Labels) /\ r.todo # <<>>
  BY StreamingAt DEF Streaming
<1>2. v.file = <<name[r.id], l>>
  BY <1>1 DEF SyncInv, IdsKnown
<1>3. rows' = [rows EXCEPT ![r.id][l] = v] /\ name[r.id] # NoName
  OBVIOUS
<1> HIDE DEF l
<1>4. /\ rows' \in [Ids -> [Labels -> VersionRow \cup {NoVersion}]]
      /\ \A j \in Ids, k \in Labels : name[j] = NoName => rows'[j][k] = rows[j][k]
      /\ BytesMove
  BY <1>1, <1>2, <1>3, RowWritten
<1> QED BY <1>1, <1>4, RowStep

LEMMA ReceiveRecordKeeps ==
  ASSUME SyncInv, NEW s \in Slots, ReceiveRecord(s)
  PROVE  SyncInv'
<1> DEFINE r == req[s]
           l == Head(r.todo)
<1>1. r.kind = "receive" /\ r.at = "record" /\ UNCHANGED <<source, name, disk>>
  BY DEF ReceiveRecord
<1>2. r \in SyncRequest /\ r.todo # <<>> /\ r.name \in Names
  BY <1>1, StreamingAt DEF Streaming
<1>3. CASE name[r.id] = NoName
  <2>1. req' = [req EXCEPT ![s] = Idle] /\ UNCHANGED rows
    BY <1>3 DEF ReceiveRecord, Done
  <2> QED BY <1>1, <2>1, IdleTyped, RequestStep
<1>4. CASE name[r.id] # NoName /\ rows[r.id][l].there
  <2> DEFINE x == [r EXCEPT !.at = "find"]
  <2>1. /\ x \in SyncRequest /\ x.id = r.id /\ x.name = r.name /\ x.todo = r.todo
        /\ x.clean = r.clean
    BY <1>1, <1>2 DEF SyncRequest, Points, AllPoints, Streaming
  <2>2. req' = [req EXCEPT ![s] = x] /\ UNCHANGED rows
    BY <1>4 DEF ReceiveRecord
  <2> HIDE DEF x
  <2> QED BY <1>1, <2>1, <2>2, RequestStep
<1>5. CASE name[r.id] # NoName /\ ~rows[r.id][l].there
  <2> DEFINE x == [r EXCEPT !.at = "answer"]
             v == [there |-> TRUE, file |-> <<r.name, l>>]
  <2>1. req' = [req EXCEPT ![s] = x] /\ rows' = [rows EXCEPT ![r.id][l] = v]
    BY <1>5 DEF ReceiveRecord
  <2>2. x \in SyncRequest /\ x.id = r.id /\ x.name = r.name /\ x.at = "answer"
    BY <1>1, <1>2 DEF SyncRequest, Points, AllPoints, Streaming
  <2>3. v \in VersionRow /\ v.file = <<r.name, l>>
    BY <1>1, <1>2, StreamingAt, RowTypes DEF Streaming
  <2> HIDE DEF x, v
  <2> QED BY <1>1, <1>5, <2>1, <2>2, <2>3, ReceiveWrites
<1> QED BY <1>3, <1>4, <1>5

LEMMA ReceiveFindKeeps ==
  ASSUME SyncInv, NEW s \in Slots, ReceiveFind(s)
  PROVE  SyncInv'
<1> DEFINE r == req[s]
<1>1. r.at = "find" /\ UNCHANGED <<source, name, rows, disk>>
  BY DEF ReceiveFind
<1>2. r \in SyncRequest /\ r.todo # <<>> /\ r.name \in Names
  BY <1>1, StreamingAt DEF Streaming
<1> DEFINE x == [r EXCEPT !.at = "update"]
<1>3. /\ x \in SyncRequest /\ x.id = r.id /\ x.name = r.name /\ x.todo = r.todo
      /\ x.clean = r.clean
  BY <1>1, <1>2 DEF SyncRequest, Points, Kinds, AllPoints, Streaming
<1>4. req' = [req EXCEPT ![s] = x] \/ req' = [req EXCEPT ![s] = Idle]
  BY DEF ReceiveFind, Done
<1> HIDE DEF x
<1>5. CASE req' = [req EXCEPT ![s] = x]
  BY <1>1, <1>3, <1>5, RequestStep
<1>6. CASE req' = [req EXCEPT ![s] = Idle]
  BY <1>1, <1>6, IdleTyped, RequestStep
<1> QED BY <1>4, <1>5, <1>6

LEMMA ReceiveUpdateKeeps ==
  ASSUME SyncInv, NEW s \in Slots, ReceiveUpdate(s)
  PROVE  SyncInv'
<1> DEFINE r == req[s]
           l == Head(r.todo)
<1>1. r.at = "update" /\ UNCHANGED <<source, name, disk>>
  BY DEF ReceiveUpdate
<1>2. /\ r \in SyncRequest /\ r.todo # <<>> /\ r.name \in Names /\ r.id \in Ids /\ l \in Labels
      /\ r.kind = "receive"
  <2>1. r \in SyncRequest /\ r.todo # <<>> /\ r.name \in Names /\ r.id \in Ids /\ l \in Labels
    BY <1>1, StreamingAt DEF Streaming
  <2> QED BY <1>1, <2>1 DEF SyncRequest, Points, Kinds
<1>3. CASE rows[r.id][l].there
  <2>1. name[r.id] # NoName
    BY <1>2, <1>3 DEF SyncInv, SyncTypeOK, Used, NoVersion
  <2>2. rows \in [Ids -> [Labels -> VersionRow \cup {NoVersion}]]
    BY DEF SyncInv, SyncTypeOK
  <2> DEFINE x == [r EXCEPT !.at = "answer"]
             v == [rows[r.id][l] EXCEPT !.file = <<r.name, l>>]
  <2>3. x \in SyncRequest /\ x.id = r.id /\ x.name = r.name /\ x.at = "answer"
    BY <1>1, <1>2 DEF SyncRequest, Points, Kinds, AllPoints, Streaming
  <2>4. v \in VersionRow /\ v.file = <<r.name, l>>
    BY <1>2, <1>3, RowTypes
  <2>5. req' = [req EXCEPT ![s] = x] /\ rows' = [rows EXCEPT ![r.id][l] = v]
    BY <1>3, <2>2 DEF ReceiveUpdate
  <2> HIDE DEF x, v
  <2> QED BY <1>1, <1>2, <2>1, <2>3, <2>4, <2>5, ReceiveWrites
<1>4. CASE ~rows[r.id][l].there
  <2> DEFINE x == [r EXCEPT !.at = "answer"]
  <2>1. x \in SyncRequest /\ x.id = r.id /\ x.name = r.name /\ x.at = "answer"
    BY <1>1, <1>2 DEF SyncRequest, Points, Kinds, AllPoints, Streaming
  <2>2. UNCHANGED rows /\ (req' = [req EXCEPT ![s] = x] \/ req' = [req EXCEPT ![s] = Idle])
    BY <1>4 DEF ReceiveUpdate, Done
  <2> HIDE DEF x
  <2>3. CASE req' = [req EXCEPT ![s] = x]
    BY <1>1, <2>1, <2>2, <2>3, RequestStep
  <2>4. CASE req' = [req EXCEPT ![s] = Idle]
    BY <1>1, <2>2, <2>4, IdleTyped, RequestStep
  <2> QED BY <2>2, <2>3, <2>4
<1> QED BY <1>3, <1>4

----------------------------------------------------------------------------
(* Synchronisation: steps that write files *)

Spoiled(r) == [r EXCEPT !.clean = FALSE]

LEMMA SpoiledTyped ==
  ASSUME NEW r \in SyncRequest
  PROVE  /\ Spoiled(r) \in SyncRequest /\ Spoiled(r).clean = FALSE
         /\ Spoiled(r).id = r.id /\ Spoiled(r).name = r.name
         /\ Spoiled(r).at = r.at /\ Spoiled(r).todo = r.todo
BY DEF Spoiled, SyncRequest

\* What the others hold on to when the file of a version changes
LEMMA OthersLearn ==
  ASSUME NEW q \in SyncRequest, NEW r \in SyncRequest, r = q \/ r = Spoiled(q)
  PROVE  /\ r.id = q.id /\ r.name = q.name /\ r.at = q.at /\ r.todo = q.todo
         /\ r.clean => q.clean /\ r = q
BY SpoiledTyped

LEMMA FileStep ==
  ASSUME SyncInv, NEW s \in Slots, NEW r \in SyncRequest,
         UNCHANGED <<source, name, rows>>,
         disk' \in [Ids -> [Labels -> Content]],
         req' \in [Slots -> SyncRequest], req'[s] = r,
         r.id = 0 \/ (r.id = req[s].id /\ r.name = req[s].name),
         r.at \in Recording /\ r.clean =>
           disk'[r.id][Head(r.todo)] = <<r.name, Head(r.todo)>>,
         \A x \in Slots \ {s} : req'[x] = req[x] \/ req'[x] = Spoiled(req[x]),
         \A x \in Slots \ {s} :
           req[x].at \in Recording /\ req'[x].clean =>
             LET l == Head(req[x].todo)
             IN disk'[req[x].id][l] \in {disk[req[x].id][l], <<req[x].name, l>>}
  PROVE  SyncInv'
<1>1. req \in [Slots -> SyncRequest]
  BY DEF SyncInv, SyncTypeOK
<1>2. ASSUME NEW x \in Slots \ {s}
      PROVE  /\ req'[x].id = req[x].id /\ req'[x].name = req[x].name
             /\ req'[x].at = req[x].at /\ req'[x].todo = req[x].todo
             /\ req'[x].clean => req[x].clean
  BY <1>1, OthersLearn
<1>3. SyncTypeOK'
  BY DEF SyncInv, SyncTypeOK, Used
<1>4. IdsMove
  BY <1>2 DEF IdsMove
<1>5. NamesMove /\ BytesMove
  BY DEF NamesMove, BytesMove
<1>6. StreamsMove
  <2> SUFFICES ASSUME NEW x \in Slots, req'[x].at \in Recording /\ req'[x].clean
               PROVE  LET l == Head(req'[x].todo)
                          bytes == disk'[req'[x].id][l]
                      IN \/ bytes = <<req'[x].name, l>>
                         \/ /\ req[x].at \in Recording /\ req[x].clean
                            /\ req'[x].id = req[x].id /\ req'[x].todo = req[x].todo
                            /\ req'[x].name = req[x].name
                            /\ bytes = disk[req[x].id][l]
    BY DEF StreamsMove
  <2>1. CASE x = s
    BY <2>1
  <2>2. CASE x # s
    BY <2>2, <1>2
  <2> QED BY <2>1, <2>2
<1> QED BY <1>3, <1>4, <1>5, <1>6, MovesKeep

LEMMA DisturbTyped ==
  ASSUME SyncInv, NEW i, NEW l
  PROVE  /\ Disturb(req, i, l) \in [Slots -> SyncRequest]
         /\ \A x \in Slots :
              /\ Disturb(req, i, l)[x] = req[x] \/ Disturb(req, i, l)[x] = Spoiled(req[x])
              /\ req[x].at \in Recording /\ Disturb(req, i, l)[x].clean =>
                   req[x].id # i \/ Head(req[x].todo) # l
<1>1. req \in [Slots -> SyncRequest]
  BY DEF SyncInv, SyncTypeOK
<1>2. Disturb(req, i, l) =
        [x \in Slots |-> IF req[x].id = i /\ req[x].at \in {"write"} \cup Recording /\ Head(req[x].todo) = l
                         THEN Spoiled(req[x]) ELSE req[x]]
  BY DEF Disturb, Spoiled
<1>3. \A x \in Slots : Spoiled(req[x]) \in SyncRequest /\ Spoiled(req[x]).clean = FALSE
  BY <1>1, SpoiledTyped
<1> QED BY <1>1, <1>2, <1>3

LEMMA StreamStep ==
  ASSUME SyncInv, NEW s \in Slots, NEW i \in Ids, NEW l \in Labels,
         NEW c \in Content, NEW r \in SyncRequest,
         UNCHANGED <<source, name, rows>>,
         disk' = [disk EXCEPT ![i][l] = c],
         req' = [Disturb(req, i, l) EXCEPT ![s] = r],
         r.id = 0 \/ (r.id = req[s].id /\ r.name = req[s].name),
         r.at \in Recording /\ r.clean =>
           r.id = i /\ Head(r.todo) = l /\ c = <<r.name, l>>
  PROVE  SyncInv'
<1>1. disk \in [Ids -> [Labels -> Content]]
  BY DEF SyncInv, SyncTypeOK
<1>2. /\ disk' \in [Ids -> [Labels -> Content]] /\ disk'[i][l] = c
      /\ \A j \in Ids, k \in Labels : j # i \/ k # l => disk'[j][k] = disk[j][k]
  BY <1>1
<1>3. /\ req' \in [Slots -> SyncRequest] /\ req'[s] = r
      /\ \A x \in Slots \ {s} : req'[x] = Disturb(req, i, l)[x]
  BY DisturbTyped
<1>4. ASSUME NEW x \in Slots, req[x].at \in Recording
      PROVE  req[x].id \in Ids /\ Head(req[x].todo) \in Labels
  <2>1. req[x] \in SyncRequest
    BY DEF SyncInv, SyncTypeOK
  <2>2. req[x].id \in Ids /\ req[x].todo \in Seq(Labels) /\ req[x].todo # <<>>
    BY <1>4, <2>1, HubSyncAssumption DEF SyncRequest, Points, Kinds, Ids
  <2> QED BY <2>2, HeadTailProperties
<1>5. ASSUME NEW x \in Slots \ {s}, req[x].at \in Recording, req'[x].clean
      PROVE  disk'[req[x].id][Head(req[x].todo)] = disk[req[x].id][Head(req[x].todo)]
  <2>1. req[x].id # i \/ Head(req[x].todo) # l
    BY <1>3, <1>5, DisturbTyped
  <2> QED BY <2>1, <1>2, <1>4, <1>5
<1>6. \A x \in Slots \ {s} : req'[x] = req[x] \/ req'[x] = Spoiled(req[x])
  BY <1>3, DisturbTyped
<1>7. r.at \in Recording /\ r.clean => disk'[r.id][Head(r.todo)] = <<r.name, Head(r.todo)>>
  BY <1>2
<1>8. \A x \in Slots \ {s} :
        req[x].at \in Recording /\ req'[x].clean =>
          disk'[req[x].id][Head(req[x].todo)] \in
            {disk[req[x].id][Head(req[x].todo)], <<req[x].name, Head(req[x].todo)>>}
  BY <1>5
<1>9. disk' \in [Ids -> [Labels -> Content]] /\ req' \in [Slots -> SyncRequest] /\ req'[s] = r
  BY <1>2, <1>3
<1> QED BY <1>6, <1>7, <1>8, <1>9, FileStep

LEMMA OpenKeeps ==
  ASSUME SyncInv, NEW s \in Slots, Open(s)
  PROVE  SyncInv'
<1> DEFINE r == req[s]
           l == Head(r.todo)
<1>1. r.at = "open" /\ UNCHANGED <<source, name, rows>>
  BY DEF Open
<1>2. r \in SyncRequest /\ r.id \in Ids /\ r.id # 0 /\ l \in Labels /\ r.kind \in {"pull", "receive"}
  BY <1>1, StreamingAt DEF Streaming
<1>3. ASSUME NEW b \in BOOLEAN, disk' = [disk EXCEPT ![r.id][l] = Garbled],
             req' = [Disturb(req, r.id, l) EXCEPT ![s] = [r EXCEPT !.at = "write", !.clean = b]]
      PROVE  SyncInv'
  <2> DEFINE x == [r EXCEPT !.at = "write", !.clean = b]
  <2>1. x \in SyncRequest /\ x.id = r.id /\ x.name = r.name /\ x.at \notin Recording
    BY <1>1, <1>2 DEF SyncRequest, Points, AllPoints, Streaming
  <2>2. Garbled \in Content
    BY DEF Content
  <2> HIDE DEF x, l
  <2> QED BY <1>1, <1>2, <1>3, <2>1, <2>2, StreamStep DEF x
<1>4. CASE r.kind = "pull" /\ req' = [req EXCEPT ![s] = NextLabel(r)] /\ UNCHANGED disk
  BY <1>1, <1>2, <1>4, NextLabelTyped, RequestStep
<1> QED BY <1>3, <1>4 DEF Open

LEMMA WriteKeeps ==
  ASSUME SyncInv, NEW s \in Slots, Write(s)
  PROVE  SyncInv'
<1> DEFINE r == req[s]
           l == Head(r.todo)
           x == [r EXCEPT !.at = "record"]
<1>1. r.at = "write" /\ UNCHANGED <<source, name, rows>>
      /\ req' = [Disturb(req, r.id, l) EXCEPT ![s] = x]
  BY DEF Write
<1>2. /\ r \in SyncRequest /\ r.id \in Ids /\ r.id # 0 /\ l \in Labels /\ r.kind \in {"pull", "receive"}
      /\ <<r.name, l>> \in Content
  BY <1>1, StreamingAt DEF Streaming
<1>3. PICK c \in IF r.clean THEN {<<r.name, l>>} ELSE {<<r.name, l>>, Garbled, disk[r.id][l]} :
        disk' = [disk EXCEPT ![r.id][l] = c]
  BY DEF Write
<1>4. c \in Content /\ (r.clean => c = <<r.name, l>>)
  <2>1. disk[r.id][l] \in Content /\ Garbled \in Content
    BY <1>2 DEF SyncInv, SyncTypeOK, Content
  <2> QED BY <1>2, <1>3, <2>1
<1>5. x \in SyncRequest /\ x.id = r.id /\ x.name = r.name /\ x.todo = r.todo /\ x.clean = r.clean
  BY <1>1, <1>2 DEF SyncRequest, Points, AllPoints, Streaming
<1> HIDE DEF x
<1>6. disk' = [disk EXCEPT ![r.id][l] = c]
  BY <1>3
<1>7. x.at \in Recording /\ x.clean => x.id = r.id /\ Head(x.todo) = l /\ c = <<x.name, l>>
  BY <1>4, <1>5
<1> HIDE DEF l
<1> QED BY <1>1, <1>2, <1>4, <1>5, <1>6, <1>7, StreamStep

LEMMA WriteFailsKeeps ==
  ASSUME SyncInv, NEW s \in Slots, WriteFails(s)
  PROVE  SyncInv'
<1> DEFINE r == req[s]
           l == Head(r.todo)
<1>1. r.at = "write" /\ UNCHANGED <<source, name, rows>>
      /\ disk' = [disk EXCEPT ![r.id][l] = NoBytes]
  BY DEF WriteFails
<1>2. r \in SyncRequest /\ r.id \in Ids /\ r.id # 0 /\ l \in Labels /\ r.kind \in {"pull", "receive"}
      /\ NoBytes \in Content
  BY <1>1, StreamingAt DEF Content, Streaming
<1>3. PICK x \in {Idle} \cup (IF r.kind = "pull" THEN {NextLabel(r)} ELSE {}) :
        req' = [Disturb(req, r.id, l) EXCEPT ![s] = x]
  BY DEF WriteFails
<1>4. x = Idle \/ (r.kind = "pull" /\ x = NextLabel(r))
  BY <1>3
<1>5. x \in SyncRequest /\ x.at \notin Recording /\ (x.id = 0 \/ (x.id = r.id /\ x.name = r.name))
  BY <1>1, <1>2, <1>4, IdleTyped, NextLabelTyped
<1>6. req' = [Disturb(req, r.id, l) EXCEPT ![s] = x]
  BY <1>3
<1> HIDE DEF l
<1> QED BY <1>1, <1>2, <1>5, <1>6, StreamStep

\* The members of a tar are the bytes of its model, whoever else is at its labels.
LEMMA TarExtractKeeps ==
  ASSUME SyncInv, NEW s \in Slots, TarExtract(s)
  PROVE  SyncInv'
<1> DEFINE r == req[s]
           i == r.id
           x == [r EXCEPT !.at = IF r.todo = <<>> THEN "answer" ELSE "rows"]
           files == [l \in Labels |-> IF l \in ToSet(r.todo) THEN <<r.name, l>> ELSE disk[i][l]]
<1>1. /\ r \in SyncRequest /\ r.at = "extract" /\ UNCHANGED <<source, name, rows>>
      /\ req \in [Slots -> SyncRequest] /\ disk \in [Ids -> [Labels -> Content]]
  BY DEF TarExtract, SyncInv, SyncTypeOK
<1>2. r.kind = "tar" /\ i \in Ids /\ i # 0 /\ r.name \in Names
  BY <1>1, HubSyncAssumption DEF SyncRequest, Points, Kinds, Ids
<1>3. req' = [req EXCEPT ![s] = x] /\ disk' = [disk EXCEPT ![i] = files]
  BY <1>1, <1>2 DEF TarExtract
<1>4. x \in SyncRequest /\ x.id = i /\ x.name = r.name /\ x.at \notin Recording
  BY <1>1, <1>2 DEF SyncRequest, Points, AllPoints, Streaming
<1> HIDE DEF x
<1>5. \A l \in Labels : files[l] \in Content /\ files[l] \in {disk[i][l], <<r.name, l>>}
  BY <1>1, <1>2 DEF Content, Whole
<1>6. files \in [Labels -> Content]
  BY <1>5
<1>7. disk' \in [Ids -> [Labels -> Content]]
  BY <1>1, <1>3, <1>6
<1>8. \A j \in Ids, l \in Labels : disk'[j][l] = IF j = i THEN files[l] ELSE disk[j][l]
  BY <1>1, <1>3
<1> HIDE DEF files
<1>9. ASSUME NEW y \in Slots \ {s}, req[y].at \in Recording
      PROVE  LET l == Head(req[y].todo)
             IN disk'[req[y].id][l] \in {disk[req[y].id][l], <<req[y].name, l>>}
  <2>1. req[y].id \in Ids /\ Head(req[y].todo) \in Labels
    BY <1>9, StreamingAt DEF Streaming
  <2>2. req[y].id = i => req[y].name = r.name
    BY <1>2 DEF SyncInv, NamesAgree
  <2> QED BY <2>1, <2>2, <1>5, <1>8
<1>10. req' \in [Slots -> SyncRequest] /\ req'[s] = x /\ \A y \in Slots \ {s} : req'[y] = req[y]
  BY <1>1, <1>3, <1>4
<1> QED BY <1>1, <1>4, <1>7, <1>9, <1>10, FileStep

LEMMA TarRowKeeps ==
  ASSUME SyncInv, NEW s \in Slots, TarRow(s)
  PROVE  SyncInv'
<1> DEFINE r == req[s]
           l == Head(r.todo)
           x == [r EXCEPT !.todo = Tail(@), !.at = IF Len(r.todo) = 1 THEN "answer" ELSE "rows",
                          !.made = @ \cup {l}]
<1>1. r \in SyncRequest /\ r.at = "rows" /\ UNCHANGED <<source, name, disk>>
  BY DEF TarRow, SyncInv, SyncTypeOK
<1>2. r.kind = "tar" /\ r.id \in Ids /\ r.id # 0 /\ r.todo \in Seq(Labels) /\ r.todo # <<>>
  BY <1>1, HubSyncAssumption DEF SyncRequest, Points, Kinds, Ids
<1>3. l \in Labels /\ Tail(r.todo) \in Seq(Labels) /\ Len(Tail(r.todo)) = Len(r.todo) - 1
  BY <1>2, HeadTailProperties
<1>4. Len(r.todo) # 1 => Tail(r.todo) # <<>>
  <2> SUFFICES ASSUME Tail(r.todo) = <<>>
               PROVE  Len(r.todo) = 1
    OBVIOUS
  <2>1. Len(Tail(r.todo)) = 0 /\ Len(r.todo) \in Nat
    BY <1>2, EmptySeq, LenProperties
  <2> QED BY <1>3, <2>1
<1>5. x \in SyncRequest /\ x.id = r.id /\ x.name = r.name /\ x.at \notin Recording
  BY <1>1, <1>2, <1>3, <1>4 DEF SyncRequest, Points, AllPoints, Streaming
<1>6. CASE name[r.id] # NoName /\ rows[r.id][l].there
  <2>1. req' = [req EXCEPT ![s] = Idle] /\ UNCHANGED rows
    BY <1>6 DEF TarRow, Done
  <2> QED BY <1>1, <2>1, IdleTyped, RequestStep
<1>7. CASE name[r.id] = NoName
  <2>1. req' = [req EXCEPT ![s] = x] /\ UNCHANGED rows
    BY <1>7 DEF TarRow
  <2> HIDE DEF x
  <2> QED BY <1>1, <1>5, <2>1, RequestStep
<1>8. CASE name[r.id] # NoName /\ ~rows[r.id][l].there
  <2> DEFINE v == [rows[r.id][l] EXCEPT !.there = TRUE]
  <2>1. req' = [req EXCEPT ![s] = x]
    BY <1>8 DEF TarRow
  <2>2. rows' = [rows EXCEPT ![r.id][l] = v] /\ v \in VersionRow /\ v.file = rows[r.id][l].file
    BY <1>2, <1>3, <1>8, RowTypes DEF TarRow
  <2> HIDE DEF x, v, l
  <2>3. /\ rows' \in [Ids -> [Labels -> VersionRow \cup {NoVersion}]]
        /\ \A j \in Ids, k \in Labels : name[j] = NoName => rows'[j][k] = rows[j][k]
        /\ BytesMove
    BY <2>2, <1>1, <1>2, <1>3, <1>8, RowWritten
  <2> QED BY <1>1, <1>5, <2>1, <2>3, RowStep
<1> QED BY <1>6, <1>7, <1>8

LEMMA MarketRowKeeps ==
  ASSUME SyncInv, NEW s \in Slots, MarketRow(s)
  PROVE  SyncInv'
<1> DEFINE r == req[s]
<1>1. r \in SyncRequest /\ r.at = "market" /\ UNCHANGED <<source, name, disk>>
      /\ req' = [req EXCEPT ![s] = Idle]
  BY DEF MarketRow, Done, SyncInv, SyncTypeOK
<1>2. r.id \in Ids /\ r.id # 0 /\ r.name \in Names
  BY <1>1, HubSyncAssumption DEF SyncRequest, Points, Kinds, Ids
<1>3. CASE UNCHANGED rows
  BY <1>1, <1>3, IdleTyped, RequestStep
<1>4. ASSUME NEW l \in Labels, name[r.id] # NoName,
             rows' = [rows EXCEPT ![r.id][l] = [there |-> TRUE, file |-> <<r.name, l>>]]
      PROVE  SyncInv'
  <2> DEFINE v == [there |-> TRUE, file |-> <<r.name, l>>]
  <2>1. v \in VersionRow /\ v.file = <<name[r.id], l>>
    BY <1>2, <1>4, RowTypes DEF SyncInv, IdsKnown
  <2>2. rows' = [rows EXCEPT ![r.id][l] = v]
    BY <1>4
  <2> HIDE DEF v
  <2>3. /\ rows' \in [Ids -> [Labels -> VersionRow \cup {NoVersion}]]
        /\ \A j \in Ids, k \in Labels : name[j] = NoName => rows'[j][k] = rows[j][k]
        /\ BytesMove
    BY <2>1, <2>2, <1>1, <1>2, <1>4, RowWritten, ZenonT(60)
  <2> QED BY <1>1, <2>3, IdleTyped, RowStep
<1> QED BY <1>3, <1>4 DEF MarketRow

LEMMA DeletingAt ==
  ASSUME SyncInv, NEW s \in Slots, req[s].at \in {"files", "delete"}
  PROVE  /\ req[s] \in SyncRequest /\ req[s].kind = "delete" /\ req[s].id = 0
         /\ Head(req[s].todo) \in Ids /\ Tail(req[s].todo) \in Seq(Ids)
         /\ Len(req[s].todo) # 1 => Tail(req[s].todo) # <<>>
<1>1. req[s] \in SyncRequest
  BY DEF SyncInv, SyncTypeOK
<1>2. req[s].kind = "delete" /\ req[s].id = 0 /\ req[s].todo \in Seq(Ids) /\ req[s].todo # <<>>
  BY <1>1 DEF SyncRequest, Points, Kinds
<1>3. /\ Head(req[s].todo) \in Ids /\ Tail(req[s].todo) \in Seq(Ids)
      /\ Len(Tail(req[s].todo)) = Len(req[s].todo) - 1
  BY <1>2, HeadTailProperties
<1>4. Len(req[s].todo) # 1 => Tail(req[s].todo) # <<>>
  <2> SUFFICES ASSUME Tail(req[s].todo) = <<>>
               PROVE  Len(req[s].todo) = 1
    OBVIOUS
  <2>1. Len(Tail(req[s].todo)) = 0 /\ Len(req[s].todo) \in Nat
    BY <1>2, EmptySeq, LenProperties
  <2> QED BY <1>3, <2>1
<1> QED BY <1>1, <1>2, <1>3, <1>4

LEMMA DeleteFilesKeeps ==
  ASSUME SyncInv, NEW s \in Slots, DeleteFiles(s)
  PROVE  SyncInv'
<1> DEFINE r == req[s]
           i == Head(r.todo)
           x == [r EXCEPT !.at = "delete"]
<1>1. /\ r \in SyncRequest /\ r.at = "files" /\ r.kind = "delete" /\ r.id = 0 /\ i \in Ids
      /\ Tail(r.todo) \in Seq(Ids) /\ (Len(r.todo) # 1 => Tail(r.todo) # <<>>)
      /\ UNCHANGED <<source, name, rows>>
  BY DeletingAt DEF DeleteFiles
<1>2. CASE name[i] = NoName
  <2> DEFINE y == [r EXCEPT !.todo = Tail(@)]
  <2>1. Len(r.todo) # 1 => y \in SyncRequest /\ y.id = 0 /\ y.at \notin Recording
    BY <1>1 DEF SyncRequest, Points, AllPoints, Streaming
  <2>2. req' = [req EXCEPT ![s] = IF Len(r.todo) = 1 THEN Idle ELSE y] /\ UNCHANGED disk
    BY <1>2 DEF DeleteFiles
  <2> HIDE DEF y
  <2>3. CASE Len(r.todo) = 1
    <3>1. req' = [req EXCEPT ![s] = Idle]
      BY <2>2, <2>3
    <3> QED BY <1>1, <2>2, <3>1, IdleTyped, RequestStep
  <2>4. CASE Len(r.todo) # 1
    <3>1. req' = [req EXCEPT ![s] = y]
      BY <2>2, <2>4
    <3> QED BY <1>1, <2>1, <2>2, <2>4, <3>1, RequestStep
  <2> QED BY <2>3, <2>4
<1>3. CASE name[i] # NoName
  <2>1. x \in SyncRequest /\ x.id = 0 /\ x.at \notin Recording
    BY <1>1 DEF SyncRequest, Points, AllPoints, Streaming
  <2>2. disk' = [disk EXCEPT ![i] = [l \in Labels |-> NoBytes]]
    BY <1>3 DEF DeleteFiles
  <2>3. req' = [y \in Slots |-> IF y = s THEN x
                                ELSE IF req[y].id = i /\ req[y].at \in {"write"} \cup Recording
                                     THEN Spoiled(req[y]) ELSE req[y]]
    BY <1>3 DEF DeleteFiles, Spoiled
  <2> HIDE DEF x, i
  <2>4. req \in [Slots -> SyncRequest] /\ disk \in [Ids -> [Labels -> Content]]
    BY DEF SyncInv, SyncTypeOK
  <2>5. \A y \in Slots : Spoiled(req[y]) \in SyncRequest /\ Spoiled(req[y]).clean = FALSE
    BY <2>4, SpoiledTyped
  <2>6. /\ req' \in [Slots -> SyncRequest] /\ req'[s] = x
        /\ \A y \in Slots \ {s} : req'[y] = req[y] \/ req'[y] = Spoiled(req[y])
    BY <2>1, <2>3, <2>4, <2>5
  <2>7. /\ disk' \in [Ids -> [Labels -> Content]]
        /\ \A j \in Ids, l \in Labels : j # i => disk'[j][l] = disk[j][l]
    <3>1. [l \in Labels |-> NoBytes] \in [Labels -> Content]
      BY DEF Content
    <3> QED BY <1>1, <2>2, <2>4, <3>1
  <2>8. ASSUME NEW y \in Slots \ {s}, req[y].at \in Recording, req'[y].clean
        PROVE  LET l == Head(req[y].todo)
               IN disk'[req[y].id][l] \in {disk[req[y].id][l], <<req[y].name, l>>}
    <3>1. req[y].id \in Ids /\ Head(req[y].todo) \in Labels
      BY <2>8, StreamingAt DEF Streaming
    <3>2. req[y].id # i
      BY <2>3, <2>5, <2>8
    <3> QED BY <2>7, <3>1, <3>2
  <2> QED BY <1>1, <2>1, <2>6, <2>7, <2>8, FileStep
<1> QED BY <1>2, <1>3

LEMMA DeleteRowKeeps ==
  ASSUME SyncInv, NEW s \in Slots, DeleteRow(s)
  PROVE  SyncInv'
<1> DEFINE r == req[s]
           i == Head(r.todo)
           y == [r EXCEPT !.at = "files", !.todo = Tail(@)]
           x == IF Len(r.todo) = 1 THEN Idle ELSE y
<1>1. /\ r \in SyncRequest /\ r.at = "delete" /\ r.kind = "delete" /\ r.id = 0 /\ i \in Ids
      /\ Tail(r.todo) \in Seq(Ids) /\ (Len(r.todo) # 1 => Tail(r.todo) # <<>>)
      /\ UNCHANGED <<source, disk>>
  BY DeletingAt DEF DeleteRow
<1>2. Len(r.todo) # 1 => y \in SyncRequest /\ y.id = 0 /\ y.at \notin Recording
  BY <1>1 DEF SyncRequest, Points, AllPoints, Streaming
<1>3. /\ req' = [req EXCEPT ![s] = x]
      /\ name' = [name EXCEPT ![i] = NoName]
      /\ rows' = [rows EXCEPT ![i] = [l \in Labels |-> NoVersion]]
  BY DEF DeleteRow
<1>4. x \in SyncRequest /\ x.id = 0 /\ x.at \notin Recording
  BY <1>2, IdleTyped
<1> HIDE DEF x, i
<1>5. /\ req \in [Slots -> SyncRequest] /\ name \in [Ids -> Names \cup {NoName}]
      /\ rows \in [Ids -> [Labels -> VersionRow \cup {NoVersion}]] /\ SyncTypeOK
  BY DEF SyncInv, SyncTypeOK
<1>6. req' \in [Slots -> SyncRequest] /\ \A q \in Slots : req'[q] = IF q = s THEN x ELSE req[q]
  BY <1>3, <1>4, <1>5
<1>7. \A j \in Ids : name'[j] = IF j = i THEN NoName ELSE name[j]
  BY <1>3, <1>5
<1>8. \A j \in Ids, l \in Labels : rows'[j][l] = IF j = i THEN NoVersion ELSE rows[j][l]
  BY <1>3, <1>5
<1>9. SyncTypeOK'
  <2>1. name' \in [Ids -> Names \cup {NoName}]
    BY <1>3, <1>5
  <2>2. rows' \in [Ids -> [Labels -> VersionRow \cup {NoVersion}]]
    BY <1>3, <1>5
  <2>3. \A j, k \in Ids : name'[j] # NoName /\ name'[j] = name'[k] => j = k
    BY <1>5, <1>7 DEF SyncTypeOK, Used
  <2>4. \A j \in Ids, l \in Labels : name'[j] = NoName => rows'[j][l] = NoVersion
    BY <1>5, <1>7, <1>8 DEF SyncTypeOK, Used
  <2> QED BY <1>1, <1>5, <1>6, <2>1, <2>2, <2>3, <2>4 DEF SyncTypeOK, Used
<1>10. IdsMove
  BY <1>4, <1>6 DEF IdsMove
<1>11. NamesMove
  BY <1>7 DEF NamesMove
<1>12. BytesMove
  BY <1>8 DEF BytesMove, NoVersion
<1>13. StreamsMove
  BY <1>1, <1>4, <1>6 DEF StreamsMove
<1> QED BY <1>9, <1>10, <1>11, <1>12, <1>13, MovesKeep

----------------------------------------------------------------------------
(* Synchronisation: the specification *)

LEMMA AnswerKeeps ==
  ASSUME SyncInv, NEW s \in Slots, Answer(s)
  PROVE  SyncInv'
BY IdleTyped, RequestStep DEF Answer, Done

LEMMA UploadVersionKeeps ==
  ASSUME SyncInv, NEW i \in Ids, NEW l \in Labels, UploadVersion(i, l)
  PROVE  SyncInv'
<1> DEFINE bytes == <<Local, l>>
           v == [there |-> TRUE, file |-> bytes]
<1>1. /\ name[i] # NoName /\ disk[i][l] = NoBytes /\ UNCHANGED <<source, name, req>>
      /\ rows' = [rows EXCEPT ![i][l] = v] /\ disk' = [disk EXCEPT ![i][l] = bytes]
  BY DEF UploadVersion
<1>2. v \in VersionRow /\ v.file = bytes /\ bytes \in Content
  BY RowTypes DEF Content, Whole, Own
<1>3. /\ rows' \in [Ids -> [Labels -> VersionRow \cup {NoVersion}]]
      /\ \A j \in Ids, k \in Labels : name[j] = NoName => rows'[j][k] = rows[j][k]
      /\ BytesMove
  <2> HIDE DEF v
  <2> QED BY <1>1, <1>2, RowWritten
<1> HIDE DEF v, bytes
<1>4. /\ disk \in [Ids -> [Labels -> Content]] /\ req \in [Slots -> SyncRequest]
  BY DEF SyncInv, SyncTypeOK
<1>5. /\ disk' \in [Ids -> [Labels -> Content]]
      /\ \A j \in Ids, k \in Labels : j # i \/ k # l => disk'[j][k] = disk[j][k]
  BY <1>1, <1>2, <1>4
<1>6. SyncTypeOK'
  BY <1>1, <1>3, <1>5 DEF SyncInv, SyncTypeOK, Used
<1>7. IdsMove /\ NamesMove
  BY <1>1 DEF IdsMove, NamesMove
<1>8. ASSUME NEW s \in Slots, req[s].at \in Recording, req[s].clean
      PROVE  disk'[req[s].id][Head(req[s].todo)] = disk[req[s].id][Head(req[s].todo)]
  <2> DEFINE k == Head(req[s].todo)
  <2>1. req[s].id \in Ids /\ k \in Labels
    BY <1>8, StreamingAt DEF Streaming
  <2>2. disk[req[s].id][k] = <<req[s].name, k>>
    BY <1>8 DEF SyncInv, Unspoilt
  <2>3. <<req[s].name, k>> # NoBytes
    BY DEF NoBytes
  <2> QED BY <2>1, <2>2, <2>3, <1>1, <1>5
<1>9. StreamsMove
  BY <1>1, <1>8 DEF StreamsMove
<1> QED BY <1>3, <1>6, <1>7, <1>9, MovesKeep

LEMMA SyncRestartKeeps ==
  ASSUME SyncInv, Restart
  PROVE  SyncInv'
<1>1. req' = [s \in Slots |-> Idle] /\ UNCHANGED <<source, name, rows, disk>>
  BY DEF Restart
<1>2. req' \in [Slots -> SyncRequest] /\ \A s \in Slots : req'[s].id = 0 /\ req'[s].at = "idle"
  BY <1>1, IdleTyped
<1>3. SyncTypeOK'
  BY <1>1, <1>2 DEF SyncInv, SyncTypeOK, Used
<1>4. IdsMove /\ NamesMove /\ BytesMove /\ StreamsMove
  BY <1>1, <1>2 DEF IdsMove, NamesMove, BytesMove, StreamsMove
<1> QED BY <1>3, <1>4, MovesKeep

LEMMA SyncInitInv == SyncInit => SyncInv
<1> SUFFICES ASSUME SyncInit
             PROVE  SyncInv
  OBVIOUS
<1>1. req \in [Slots -> SyncRequest] /\ \A s \in Slots : req[s].id = 0 /\ req[s].at = "idle"
  BY IdleTyped DEF SyncInit
<1>2. NoBytes \in Content
  BY DEF Content
<1>3. SyncTypeOK
  BY <1>1, <1>2 DEF SyncInit, SyncTypeOK, Used
<1> QED BY <1>1, <1>3
        DEF SyncInit, SyncInv, BytesBelong, Used, IdsKnown, NamesAgree, Unspoilt

SyncStep(s) ==
  \/ CreateModel(s) \/ ImportHf(s) \/ MarketRow(s) \/ ImportData(s) \/ ImportTar(s)
  \/ SyncRegistry(s) \/ Pull(s) \/ Receive(s)
  \/ LookUpId(s) \/ LookUp(s) \/ Insert(s) \/ PullRow(s) \/ Open(s) \/ Write(s) \/ WriteFails(s)
  \/ PullRecord(s) \/ Answer(s) \/ ReceiveRecord(s) \/ ReceiveFind(s) \/ ReceiveUpdate(s)
  \/ TarExtract(s) \/ TarRow(s)
  \/ DeleteStart(s) \/ DeleteFiles(s) \/ DeleteRow(s)

LEMMA SyncStepKeeps ==
  ASSUME SyncInv, NEW s \in Slots, SyncStep(s)
  PROVE  SyncInv'
BY BeginningKeeps, MarketRowKeeps, LookUpIdKeeps, LookUpKeeps, InsertKeeps, PullRowKeeps, OpenKeeps,
   WriteKeeps, WriteFailsKeeps, PullRecordKeeps, AnswerKeeps, ReceiveRecordKeeps,
   ReceiveFindKeeps, ReceiveUpdateKeeps, TarExtractKeeps, TarRowKeeps, DeleteFilesKeeps, DeleteRowKeeps
   DEF SyncStep

LEMMA SyncNextCases ==
  ASSUME [SyncNext]_syncVars
  PROVE  \/ \E s \in Slots : SyncStep(s)
         \/ \E i \in Ids, l \in Labels : UploadVersion(i, l)
         \/ RemoteAdds \/ Restart \/ UNCHANGED syncVars
BY DEF SyncNext, SyncStep

LEMMA SyncNextKeeps == SyncInv /\ [SyncNext]_syncVars => SyncInv'
<1> SUFFICES ASSUME SyncInv, [SyncNext]_syncVars
             PROVE  SyncInv'
  OBVIOUS
<1>1. ASSUME RemoteAdds \/ UNCHANGED syncVars
      PROVE  SyncInv'
  <2>1. UNCHANGED <<name, rows, disk, req>> /\ source' \subseteq Remote
    BY <1>1 DEF RemoteAdds, syncVars, SyncInv, SyncTypeOK
  <2>2. SyncTypeOK'
    BY <2>1 DEF SyncInv, SyncTypeOK, Used
  <2>3. IdsMove /\ NamesMove /\ BytesMove /\ StreamsMove
    BY <2>1 DEF IdsMove, NamesMove, BytesMove, StreamsMove
  <2> QED BY <2>2, <2>3, MovesKeep
<1> QED BY <1>1, SyncNextCases, SyncStepKeeps, UploadVersionKeeps, SyncRestartKeeps

LEMMA SyncInvariance == SyncSpec => []SyncInv
BY SyncInitInv, SyncNextKeeps, PTL DEF SyncSpec

----------------------------------------------------------------------------
(* Synchronisation: what a step of one request does to the others *)

LEMMA OthersWait ==
  ASSUME SyncInv, NEW s \in Slots, NEW t \in Slots, t # s, SyncStep(t)
  PROVE  \/ req'[s] = req[s]
         \/ req'[s] = Spoiled(req[s]) /\ UNCHANGED rows
<1>1. req \in [Slots -> SyncRequest]
  BY DEF SyncInv, SyncTypeOK
<1>2. ASSUME NEW r, req' = [req EXCEPT ![t] = r]
      PROVE  req'[s] = req[s]
  BY <1>1, <1>2
<1>3. ASSUME NEW r, NEW i, NEW l, req' = [Disturb(req, i, l) EXCEPT ![t] = r]
      PROVE  req'[s] = req[s] \/ req'[s] = Spoiled(req[s])
  BY <1>3, DisturbTyped
<1>4. ASSUME NEW kind, NEW at, NEW n, NEW todo, Start(t, kind, at, n, todo)
      PROVE  req'[s] = req[s]
  BY <1>2, <1>4 DEF Start
<1>5. CASE \/ CreateModel(t) \/ ImportHf(t) \/ ImportData(t) \/ ImportTar(t)
           \/ SyncRegistry(t) \/ Pull(t) \/ Receive(t) \/ DeleteStart(t)
  BY <1>4, <1>5
     DEF CreateModel, ImportHf, ImportData, ImportTar, SyncRegistry, Pull, Receive, DeleteStart
<1>6. CASE LookUp(t) \/ Insert(t) \/ Answer(t) \/ MarketRow(t)
  BY <1>2, <1>6 DEF LookUp, Insert, Answer, MarketRow, Done
<1>7. CASE PullRow(t) \/ TarExtract(t) \/ TarRow(t)
  BY <1>1, <1>7 DEF PullRow, TarExtract, TarRow, Done
<1>8. CASE PullRecord(t) \/ DeleteRow(t)
  BY <1>2, <1>8 DEF PullRecord, DeleteRow
<1>11. CASE LookUpId(t) \/ ReceiveRecord(t) \/ ReceiveFind(t) \/ ReceiveUpdate(t)
  BY <1>1, <1>11 DEF LookUpId, ReceiveRecord, ReceiveFind, ReceiveUpdate, Done
<1>9. CASE Open(t) \/ Write(t) \/ WriteFails(t)
  <2>1. \/ \E r : req' = [req EXCEPT ![t] = r]
        \/ \E r, i, l : req' = [Disturb(req, i, l) EXCEPT ![t] = r]
    <3>1. CASE Open(t)
      BY <3>1 DEF Open
    <3>2. CASE Write(t)
      BY <3>2 DEF Write
    <3>3. CASE WriteFails(t)
      BY <3>3 DEF WriteFails
    <3> QED BY <1>9, <3>1, <3>2, <3>3
  <2>2. req'[s] = req[s] \/ req'[s] = Spoiled(req[s])
    BY <1>2, <1>3, <2>1
  <2>3. UNCHANGED rows
    BY <1>9 DEF Open, Write, WriteFails
  <2> QED BY <2>2, <2>3
<1>10. CASE DeleteFiles(t)
  <2>1. CASE name[Head(req[t].todo)] = NoName
    BY <1>2, <1>10, <2>1 DEF DeleteFiles
  <2>2. CASE name[Head(req[t].todo)] # NoName
    BY <1>10, <2>2 DEF DeleteFiles, Spoiled
  <2> QED BY <2>1, <2>2
<1> QED BY <1>5, <1>6, <1>7, <1>8, <1>9, <1>10, <1>11 DEF SyncStep

\* The points that do not matter to the end of a push
Early == AllPoints \ {"find", "update", "answer"}

\* What a step of a request leads to
LEMMA LeadsTo ==
  ASSUME SyncInv, NEW s \in Slots, SyncStep(s)
  PROVE  \/ req'[s].at \in Early
         \/ req'[s].at = "find"
         \/ /\ req'[s].at = "update" /\ ReceiveFind(s)
            /\ req'[s].id = req[s].id /\ req'[s].todo = req[s].todo
            /\ rows[req[s].id][Head(req[s].todo)].there
         \/ req'[s].at = "answer" /\ (req[s].kind # "receive" \/ ReceiveRecord(s) \/ ReceiveUpdate(s))
<1> DEFINE r == req[s]
<1>1. r \in SyncRequest /\ req \in [Slots -> SyncRequest] /\ r.at \in Points(r.kind)
  BY DEF SyncInv, SyncTypeOK, SyncRequest
<1>0. r \in [kind : Kinds, at : AllPoints, name : Names \cup {NoName},
             id : 0..MaxIds, todo : Seq(Names) \cup Seq(Labels) \cup Seq(Ids),
             made : SUBSET Labels, clean : BOOLEAN]
  BY <1>1 DEF SyncRequest
<1>2. \A x : req' = [req EXCEPT ![s] = x] => req'[s] = x
  BY <1>1
<1>3. \A i, l, x : req' = [Disturb(req, i, l) EXCEPT ![s] = x] => req'[s] = x
  <2>1. \A i, l : Disturb(req, i, l) \in [Slots -> SyncRequest]
    BY <1>1, DisturbTyped
  <2> QED BY <2>1
<1>4. Idle.at \in Early
  BY DEF Idle, Early, AllPoints
<1>5. ASSUME NEW kind, NEW at, NEW n, NEW todo, Start(s, kind, at, n, todo), at \in Early
      PROVE  req'[s].at \in Early
  BY <1>2, <1>5 DEF Start
<1>6. CASE CreateModel(s) \/ ImportHf(s) \/ ImportData(s) \/ ImportTar(s) \/ SyncRegistry(s)
           \/ Pull(s) \/ Receive(s) \/ DeleteStart(s)
  BY <1>5, <1>6 DEF CreateModel, ImportHf, ImportData, ImportTar, SyncRegistry, Pull, Receive,
                    DeleteStart, Early, AllPoints
<1>7. CASE LookUpId(s)
  <2>1. req'[s] = [r EXCEPT !.at = "check"] \/ \E i : req'[s] = [r EXCEPT !.at = "open", !.id = i]
    BY <1>2, <1>7 DEF LookUpId
  <2> QED BY <1>0, <2>1 DEF Early, AllPoints
<1>8. \A at \in {"check", "insert"} : NextName(r, at).at \in Early
  BY <1>0, <1>4 DEF NextName, Early, AllPoints
<1>9. CASE LookUp(s)
  <2>1. \/ req'[s] = Idle \/ req'[s] = NextName(r, "check")
        \/ req'[s] = [r EXCEPT !.at = "insert"]
        \/ \E i : \/ req'[s] = [r EXCEPT !.at = "row", !.id = i]
                  \/ req'[s] = [r EXCEPT !.at = "open", !.id = i]
    <3>1. r.kind \in {"create", "market", "tar", "import", "pull", "receive"}
      BY <1>1, <1>9 DEF LookUp, SyncRequest, Kinds, Points
    <3> QED BY <1>2, <1>9, <3>1 DEF LookUp
  <2> QED BY <1>0, <1>4, <1>8, <2>1 DEF Early, AllPoints
<1>10. CASE Insert(s)
  <2>1. \/ req'[s] = Idle \/ req'[s] = NextName(r, "check") \/ req'[s] = NextName(r, "insert")
        \/ \E i : \/ req'[s] = [r EXCEPT !.at = "market", !.id = i]
                  \/ req'[s] = [r EXCEPT !.at = "extract", !.id = i]
                  \/ req'[s] = [r EXCEPT !.at = "row", !.id = i]
                  \/ req'[s] = [r EXCEPT !.at = "open", !.id = i]
    <3>1. r.kind \in {"create", "market", "tar", "import", "sync", "pull", "receive"}
      BY <1>1, <1>10 DEF Insert, SyncRequest, Kinds, Points
    <3>2. req'[s] = Idle \/ \E i : req'[s] = Created(r, i)
      BY <1>2, <1>10 DEF Insert, Done
    <3> QED BY <3>1, <3>2 DEF Created
  <2> QED BY <1>0, <1>4, <1>8, <2>1 DEF Early, AllPoints
<1>11. r.kind # "receive" => NextLabel(r).at \in Early \cup {"answer"}
  BY <1>0 DEF NextLabel, Early, AllPoints
<1>12. CASE PullRow(s)
  <2> DEFINE x == [r EXCEPT !.at = "open", !.made = @ \cup {Head(r.todo)}]
  <2>1. req' = [req EXCEPT ![s] = Idle] \/ req' = [req EXCEPT ![s] = x]
    BY <1>12 DEF PullRow, Done
  <2>2. req'[s] = Idle \/ req'[s] = x
    BY <1>2, <2>1
  <2> QED BY <1>0, <1>4, <2>2 DEF Early, AllPoints
<1>13. CASE Open(s)
  <2> DEFINE b == ~\E x \in Slots \ {s} : /\ req[x].id = r.id /\ req[x].at = "write"
                                         /\ Head(req[x].todo) = Head(r.todo)
             x == [r EXCEPT !.at = "write", !.clean = b]
  <2>1. \/ req' = [Disturb(req, r.id, Head(r.todo)) EXCEPT ![s] = x]
        \/ r.kind = "pull" /\ req' = [req EXCEPT ![s] = NextLabel(r)]
    BY <1>13 DEF Open
  <2> HIDE DEF b, x
  <2>2. req'[s] = x \/ (r.kind = "pull" /\ req'[s] = NextLabel(r))
    BY <1>2, <1>3, <2>1
  <2> QED BY <1>0, <1>11, <2>2 DEF Early, AllPoints, x
<1>14. CASE Write(s)
  <2>1. req'[s] = [r EXCEPT !.at = "record"]
    BY <1>3, <1>14 DEF Write
  <2> QED BY <1>0, <2>1 DEF Early, AllPoints
<1>15. CASE WriteFails(s)
  <2>1. \E next \in {Idle} \cup (IF r.kind = "pull" THEN {NextLabel(r)} ELSE {}) :
          req' = [Disturb(req, r.id, Head(r.todo)) EXCEPT ![s] = next]
    BY <1>15 DEF WriteFails
  <2>2. req'[s] \in {Idle} \cup (IF r.kind = "pull" THEN {NextLabel(r)} ELSE {})
    BY <1>3, <2>1
  <2> QED BY <1>4, <1>11, <2>2 DEF Early, AllPoints
<1>16. CASE PullRecord(s)
  <2>1. r.kind = "pull" /\ req'[s] = NextLabel(r)
    BY <1>2, <1>16 DEF PullRecord
  <2> QED BY <1>11, <2>1
<1>17. CASE ReceiveRecord(s)
  <2>1. \/ req'[s] = Idle \/ req'[s] = [r EXCEPT !.at = "find"]
        \/ req'[s] = [r EXCEPT !.at = "answer"]
    BY <1>2, <1>17 DEF ReceiveRecord, Done
  <2> QED BY <1>0, <1>4, <1>17, <2>1
<1>18. CASE ReceiveFind(s)
  <2>1. \/ req'[s] = Idle
        \/ req'[s] = [r EXCEPT !.at = "update"] /\ rows[r.id][Head(r.todo)].there
    BY <1>2, <1>18 DEF ReceiveFind, Done
  <2> QED BY <1>0, <1>4, <1>18, <2>1
<1>19. CASE ReceiveUpdate(s)
  <2>1. req'[s] = Idle \/ req'[s] = [r EXCEPT !.at = "answer"]
    BY <1>2, <1>19 DEF ReceiveUpdate, Done
  <2> QED BY <1>0, <1>4, <1>19, <2>1
<1>20. CASE TarExtract(s)
  <2>1. r.kind # "receive"
    BY <1>1, <1>20 DEF TarExtract, Points
  <2>2. req'[s] = [r EXCEPT !.at = "answer"] \/ req'[s] = [r EXCEPT !.at = "rows"]
    BY <1>2, <1>20 DEF TarExtract
  <2> QED BY <1>0, <2>1, <2>2 DEF Early, AllPoints
<1>21. CASE TarRow(s)
  <2>1. r.kind # "receive"
    BY <1>1, <1>21 DEF TarRow, Points
  <2> DEFINE at == IF Len(r.todo) = 1 THEN "answer" ELSE "rows"
             x == [r EXCEPT !.todo = Tail(@), !.at = at, !.made = @ \cup {Head(r.todo)}]
  <2>2. req'[s] = Idle \/ req'[s] = x
    BY <1>2, <1>21 DEF TarRow, Done
  <2>3. at \in {"answer", "rows"}
    OBVIOUS
  <2> HIDE DEF at
  <2> QED BY <1>0, <1>4, <2>1, <2>2, <2>3 DEF Early, AllPoints
<1>22. CASE MarketRow(s) \/ Answer(s)
  BY <1>2, <1>4, <1>22 DEF MarketRow, Answer, Done
<1>23. CASE DeleteFiles(s)
  <2>1. \/ req'[s] = Idle \/ \E u : req'[s] = [r EXCEPT !.todo = u]
        \/ req'[s] = [r EXCEPT !.at = "delete"]
    BY <1>2, <1>23 DEF DeleteFiles
  <2>2. r.at = "files"
    BY <1>23 DEF DeleteFiles
  <2> QED BY <1>0, <1>4, <2>1, <2>2 DEF Early, AllPoints
<1>24. CASE DeleteRow(s)
  <2>1. req'[s] = Idle \/ \E u : req'[s] = [r EXCEPT !.at = "files", !.todo = u]
    BY <1>2, <1>24 DEF DeleteRow
  <2> QED BY <1>0, <1>4, <2>1 DEF Early, AllPoints
<1> HIDE DEF r
<1> QED BY <1>6, <1>7, <1>9, <1>10, <1>12, <1>13, <1>14, <1>15, <1>16, <1>17, <1>18, <1>19,
           <1>20, <1>21, <1>22, <1>23, <1>24 DEF SyncStep

\* Only its record or its update leads a push to its answer.
LEMMA PushedStep ==
  ASSUME SyncInv, [SyncNext]_syncVars, NEW s \in Slots,
         req[s].kind = "receive", req[s].at # "answer", req'[s].at = "answer"
  PROVE  ReceiveRecord(s) \/ ReceiveUpdate(s)
<1>1. req[s] \in SyncRequest
  BY DEF SyncInv, SyncTypeOK
<1>2. ASSUME NEW t \in Slots, SyncStep(t)
      PROVE  ReceiveRecord(s) \/ ReceiveUpdate(s)
  <2>1. t = s
    BY <1>1, <1>2, OthersWait, SpoiledTyped
  <2> QED BY <1>2, <2>1, LeadsTo DEF Early
<1>3. ~Restart
  BY IdleTyped DEF Restart
<1> QED BY <1>2, <1>3, SyncNextCases DEF UploadVersion, RemoteAdds, syncVars

\* A version that an update has found is there, or has gone with its model.
Found ==
  \A s \in Slots :
    req[s].at = "update" =>
      \/ name[req[s].id] = NoName
      \/ rows[req[s].id][Head(req[s].todo)].there

\* A row goes with its model only.
LEMMA RowsLast ==
  ASSUME SyncInv, [SyncNext]_syncVars, NEW i \in Ids, NEW l \in Labels, rows[i][l].there
  PROVE  rows'[i][l].there \/ name'[i] = NoName
<1>1. rows \in [Ids -> [Labels -> VersionRow \cup {NoVersion}]]
      /\ name \in [Ids -> Names \cup {NoName}]
  BY DEF SyncInv, SyncTypeOK
<1>2. ASSUME NEW j, NEW k, NEW v, rows' = [rows EXCEPT ![j][k] = v], v.there
      PROVE  rows'[i][l].there
  BY <1>1, <1>2
<1>3. ASSUME NEW j, NEW k, NEW b, rows' = [rows EXCEPT ![j][k].file = b]
      PROVE  rows'[i][l].there
  BY <1>1, <1>3 DEF VersionRow, NoVersion
<1>4. ASSUME NEW j, NEW k, rows' = [rows EXCEPT ![j][k].there = TRUE]
      PROVE  rows'[i][l].there
  BY <1>1, <1>4 DEF VersionRow, NoVersion
<1>5. ASSUME NEW s \in Slots, SyncStep(s)
      PROVE  rows'[i][l].there \/ name'[i] = NoName
  <2>1. CASE PullRow(s) \/ TarRow(s)
    BY <1>4, <2>1 DEF PullRow, TarRow
  <2>2. CASE PullRecord(s) \/ ReceiveUpdate(s)
    <3> DEFINE j == req[s].id
               k == Head(req[s].todo)
               b == <<req[s].name, k>>
    <3>1. rows' = rows \/ rows' = [rows EXCEPT ![j][k].file = b]
      BY <2>2 DEF PullRecord, ReceiveUpdate
    <3> HIDE DEF j, k, b
    <3> QED BY <1>3, <3>1
  <2>3. CASE ReceiveRecord(s) \/ MarketRow(s)
    <3>1. \A b : [there |-> TRUE, file |-> b].there
      OBVIOUS
    <3>2. CASE MarketRow(s)
      <4>1. PICK k \in Labels : \/ rows' = rows
                                \/ rows' = [rows EXCEPT ![req[s].id][k] =
                                              [there |-> TRUE, file |-> <<req[s].name, k>>]]
        BY <3>2 DEF MarketRow
      <4> QED BY <1>2, <3>1, <4>1
    <3>3. CASE ReceiveRecord(s)
      <4>1. \/ rows' = rows
            \/ rows' = [rows EXCEPT ![req[s].id][Head(req[s].todo)] =
                          [there |-> TRUE, file |-> <<req[s].name, Head(req[s].todo)>>]]
        BY <3>3 DEF ReceiveRecord
      <4> QED BY <1>2, <3>1, <4>1
    <3> QED BY <2>3, <3>2, <3>3
  <2>4. CASE DeleteRow(s)
    BY <1>1, <2>4, DeletingAt DEF DeleteRow
  <2> QED BY <1>5, <2>1, <2>2, <2>3, <2>4
          DEF SyncStep, CreateModel, ImportHf, ImportData, ImportTar, SyncRegistry, Pull,
              Receive, DeleteStart, Start, LookUpId, LookUp, Insert, Answer, TarExtract, Open,
              Write, WriteFails, DeleteFiles, ReceiveFind
<1>6. ASSUME NEW j \in Ids, NEW k \in Labels, UploadVersion(j, k)
      PROVE  rows'[i][l].there
  BY <1>2, <1>6 DEF UploadVersion
<1> QED BY <1>5, <1>6, SyncNextCases DEF RemoteAdds, Restart, syncVars

\* An id that a request holds is not used again.
LEMMA HeldStaysFree ==
  ASSUME SyncInv, [SyncNext]_syncVars, NEW s \in Slots, req[s].id \in Ids,
         name[req[s].id] = NoName
  PROVE  name'[req[s].id] = NoName
<1>1. name \in [Ids -> Names \cup {NoName}]
  BY DEF SyncInv, SyncTypeOK
<1>2. ASSUME NEW t \in Slots, Insert(t)
      PROVE  name'[req[s].id] = NoName
  <2> DEFINE i == CHOOSE i \in FreshIds : TRUE
  <2>1. FreshIds # {}
    BY <1>2 DEF Insert
  <2>2. i \in FreshIds
    BY <2>1
  <2>3. i # req[s].id
    BY <2>2 DEF FreshIds
  <2>4. name' = name \/ name' = [name EXCEPT ![i] = req[t].name]
    BY <1>2 DEF Insert
  <2> HIDE DEF i
  <2> QED BY <1>1, <2>3, <2>4
<1>3. ASSUME NEW t \in Slots, DeleteRow(t)
      PROVE  name'[req[s].id] = NoName
  BY <1>1, <1>3 DEF DeleteRow
<1>4. ASSUME NEW t \in Slots, SyncStep(t)
      PROVE  name'[req[s].id] = NoName
  BY <1>2, <1>3, <1>4
     DEF SyncStep, CreateModel, ImportHf, ImportData, ImportTar, SyncRegistry, Pull, Receive,
         DeleteStart, Start, LookUpId, LookUp, Answer, TarExtract, TarRow, Open, Write,
         WriteFails, DeleteFiles, PullRow, PullRecord, MarketRow, ReceiveRecord, ReceiveFind,
         ReceiveUpdate
<1> QED BY <1>4, SyncNextCases DEF UploadVersion, RemoteAdds, Restart, syncVars

\* Only the look at the label leads a push to its update.
LEMMA UpdateFollowsFind ==
  ASSUME SyncInv, [SyncNext]_syncVars, NEW s \in Slots, req'[s].at = "update"
  PROVE  \/ ReceiveFind(s) /\ rows[req[s].id][Head(req[s].todo)].there /\ req[s].at = "find"
            /\ req'[s].id = req[s].id /\ req'[s].todo = req[s].todo
         \/ req[s].at = "update" /\ req'[s].id = req[s].id /\ req'[s].todo = req[s].todo
<1>1. req[s] \in SyncRequest /\ req \in [Slots -> SyncRequest]
  BY DEF SyncInv, SyncTypeOK
<1>2. CASE SyncStep(s)
  BY <1>2, LeadsTo DEF Early, ReceiveFind
<1>3. ASSUME NEW t \in Slots, t # s, SyncStep(t)
      PROVE  req[s].at = "update" /\ req'[s].id = req[s].id /\ req'[s].todo = req[s].todo
  BY <1>1, <1>3, OthersWait, SpoiledTyped
<1>4. ~Restart
  BY IdleTyped DEF Restart
<1> QED BY <1>2, <1>3, <1>4, SyncNextCases DEF UploadVersion, RemoteAdds, syncVars

LEMMA FoundKeeps == SyncInv /\ Found /\ [SyncNext]_syncVars => Found'
<1> SUFFICES ASSUME SyncInv, Found, [SyncNext]_syncVars, NEW s \in Slots, req'[s].at = "update"
             PROVE  \/ name'[req'[s].id] = NoName
                    \/ rows'[req'[s].id][Head(req'[s].todo)].there
  BY DEF Found
<1> DEFINE i == req[s].id
           l == Head(req[s].todo)
<1>1. /\ req'[s].id = i /\ req'[s].todo = req[s].todo
      /\ req[s].at \in {"find", "update"}
      /\ name[i] = NoName \/ rows[i][l].there
  BY UpdateFollowsFind DEF Found
<1>2. i \in Ids /\ l \in Labels
  BY <1>1, StreamingAt DEF Streaming
<1>3. CASE name[i] = NoName
  BY <1>1, <1>2, <1>3, HeldStaysFree
<1>4. CASE rows[i][l].there
  BY <1>1, <1>2, <1>4, RowsLast
<1> QED BY <1>1, <1>3, <1>4

LEMMA FoundAlways == SyncSpec => []Found
<1>1. SyncInit => Found
  BY DEF SyncInit, Found, Idle
<1> QED BY <1>1, FoundKeeps, SyncInvariance, PTL DEF SyncSpec

LEMMA PushIsThere ==
  ASSUME SyncInv, Found, [SyncNext]_syncVars, NEW s \in Slots,
         req[s].kind = "receive", req[s].at # "answer", req'[s].at = "answer"
  PROVE  LET r == req[s]
             l == Head(r.todo)
         IN /\ \/ rows'[r.id][l] = [there |-> TRUE, file |-> <<r.name, l>>]
               \/ r.at = "update" /\ name[r.id] = NoName
            /\ r.clean => disk'[r.id][l] = <<r.name, l>>
<1> DEFINE r == req[s]
           l == Head(r.todo)
<1>1. /\ ReceiveRecord(s) \/ ReceiveUpdate(s)
      /\ disk' = disk
      /\ r.at \in {"record", "update"}
  BY PushedStep DEF ReceiveRecord, ReceiveUpdate
<1>2. r.id \in Ids /\ l \in Labels
  BY <1>1, StreamingAt DEF Streaming
<1>3. rows \in [Ids -> [Labels -> VersionRow \cup {NoVersion}]] /\ req \in [Slots -> SyncRequest]
  BY DEF SyncInv, SyncTypeOK
<1>4. r.clean => disk'[r.id][l] = <<r.name, l>>
  BY <1>1 DEF SyncInv, Unspoilt
<1>5. CASE ReceiveRecord(s)
  <2>1. req' # [req EXCEPT ![s] = Idle] /\ req' # [req EXCEPT ![s].at = "find"]
    <3>1. req'[s] # Idle /\ req'[s] # [r EXCEPT !.at = "find"]
      BY <1>3, IdleTyped DEF SyncRequest
    <3> QED BY <1>3, <3>1
  <2>2. rows' = [rows EXCEPT ![r.id][l] = [there |-> TRUE, file |-> <<r.name, l>>]]
    BY <1>5, <2>1 DEF ReceiveRecord, Done
  <2> QED BY <1>2, <1>3, <1>4, <2>2
<1>6. CASE ReceiveUpdate(s)
  <2>1. CASE rows[r.id][l].there
    <3>1. rows'[r.id][l] = [rows[r.id][l] EXCEPT !.file = <<r.name, l>>]
      BY <1>2, <1>3, <1>6, <2>1 DEF ReceiveUpdate
    <3>2. rows[r.id][l] \in VersionRow
      BY <1>2, <1>3, <2>1 DEF NoVersion
    <3>3. rows'[r.id][l] = [there |-> TRUE, file |-> <<r.name, l>>]
      BY <3>1, <3>2, FileReplaced
    <3> QED BY <1>4, <3>3
  <2>2. CASE ~rows[r.id][l].there
    <3>1. name[r.id] = NoName
      BY <1>6, <2>2 DEF Found, ReceiveUpdate
    <3> QED BY <1>4, <1>6, <3>1 DEF ReceiveUpdate
  <2> QED BY <2>1, <2>2
<1> QED BY <1>1, <1>5, <1>6

\* A row that is there is written by the pull that made it only.
LEMMA RowsSpared ==
  ASSUME SyncInv, [SyncNext]_syncVars, NEW s \in Slots,
         req[s].kind \in {"pull", "tar", "sync", "import", "create", "market"},
         req'[s] # req[s], NEW i \in Ids, NEW l \in Labels, rows[i][l].there
  PROVE  rows'[i][l] = rows[i][l] \/ (i = req[s].id /\ l \in req[s].made)
<1>1. req[s] \in SyncRequest /\ rows \in [Ids -> [Labels -> VersionRow \cup {NoVersion}]]
  BY DEF SyncInv, SyncTypeOK
<1>2. ASSUME NEW j, NEW k, NEW v, rows' = [rows EXCEPT ![j][k] = v], ~rows[j][k].there
      PROVE  rows'[i][l] = rows[i][l]
  BY <1>1, <1>2
<1>3. CASE PullRow(s)
  <2>1. rows' = rows \/ ~rows[req[s].id][Head(req[s].todo)].there
    BY <1>3 DEF PullRow
  <2>2. rows'[i][l] = rows[i][l] \/ (i = req[s].id /\ l = Head(req[s].todo))
    BY <1>1, <1>3, SMTT(30) DEF PullRow
  <2> QED BY <2>1, <2>2
<1>4. CASE PullRecord(s)
  <2>1. Head(req[s].todo) \in req[s].made
    BY <1>1, <1>4 DEF PullRecord, SyncRequest, Streaming
  <2>2. rows'[i][l] = rows[i][l] \/ (i = req[s].id /\ l = Head(req[s].todo))
    BY <1>1, <1>4 DEF PullRecord
  <2> QED BY <2>1, <2>2
<1>5. CASE TarRow(s)
  <2>1. rows' = rows \/ ~rows[req[s].id][Head(req[s].todo)].there
    BY <1>5 DEF TarRow
  <2>2. rows'[i][l] = rows[i][l] \/ (i = req[s].id /\ l = Head(req[s].todo))
    BY <1>1, <1>5, SMTT(30) DEF TarRow
  <2> QED BY <2>1, <2>2
<1>6. CASE MarketRow(s)
  BY <1>1, <1>2, <1>6 DEF MarketRow
<1>7. CASE ReceiveRecord(s) \/ ReceiveUpdate(s) \/ DeleteRow(s)
  <2>1. ~ReceiveUpdate(s)
    BY <1>1 DEF ReceiveUpdate, SyncRequest, Points
  <2> QED BY <1>7, <2>1, DeletingAt DEF ReceiveRecord, DeleteRow
<1>8. CASE SyncStep(s)
  BY <1>3, <1>4, <1>5, <1>6, <1>7, <1>8
     DEF SyncStep, CreateModel, ImportHf, ImportData, ImportTar, SyncRegistry, Pull,
         Receive, DeleteStart, Start, LookUpId, LookUp, Insert, Answer, TarExtract, Open, Write,
         WriteFails, DeleteFiles, ReceiveFind
<1>9. ASSUME NEW t \in Slots, t # s, SyncStep(t)
      PROVE  rows'[i][l] = rows[i][l]
  BY <1>9, OthersWait
<1> QED BY <1>8, <1>9, SyncNextCases DEF UploadVersion, RemoteAdds, Restart, syncVars

\* However models are created, deleted and created anew while pulls, pushes, imports
\* and tars hold on to an id: the registry is well formed, and the file a version
\* names is of its own model and label (create_model, sync_pull, receive_push,
\* import_model_tar).
THEOREM RowsAlwaysTrue == SyncSpec => []RowsTrue
<1>1. SyncInv => RowsTrue
  BY DEF SyncInv, RowsTrue
<1> QED BY <1>1, SyncInvariance, PTL

\* A push that is answered with success is there, unless its model was deleted
\* after its label was found taken, and no pull, import or
\* registration touches a version that it has not made itself.
THEOREM SyncAlwaysHonest == SyncSpec => SyncHonest
<1>1. SyncInv /\ Found /\ [SyncNext]_syncVars =>
        [\A s \in Slots :
           LET r == req[s]
               l == Head(r.todo)
           IN r.kind = "receive" /\ r.at # "answer" /\ req'[s].at = "answer"
                => /\ \/ rows'[r.id][l] = [there |-> TRUE, file |-> <<r.name, l>>]
                      \/ r.at = "update" /\ name[r.id] = NoName
                   /\ r.clean => disk'[r.id][l] = <<r.name, l>>]_syncVars
  BY PushIsThere
<1>2. SyncInv /\ [SyncNext]_syncVars =>
        [\A s \in Slots :
           req[s].kind \in {"pull", "tar", "sync", "import", "create", "market"} /\ req'[s] # req[s]
             => \A i \in Ids, l \in Labels :
                  rows[i][l].there => \/ rows'[i][l] = rows[i][l]
                                      \/ i = req[s].id /\ l \in req[s].made]_syncVars
  BY RowsSpared
<1>3. SyncSpec => PushedIsThere
  BY <1>1, SyncInvariance, FoundAlways, PTL DEF SyncSpec, PushedIsThere
<1>4. SyncSpec => PullSpares
  BY <1>2, SyncInvariance, PTL DEF SyncSpec, PullSpares
<1> QED BY <1>3, <1>4 DEF SyncHonest
=============================================================================
