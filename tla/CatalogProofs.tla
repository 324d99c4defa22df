---------------------------- MODULE CatalogProofs ----------------------------
(***************************************************************************)
(* Proofs about Catalog, for any number of models, webhooks, requests and  *)
(* backups.  A step of the catalogue is a step of each of its parts, or    *)
(* leaves it alone: the invariant of a part is proved from its own steps.  *)
(***************************************************************************)
EXTENDS Catalog, SequenceTheorems, FiniteSetTheorems, TLAPS

----------------------------------------------------------------------------
(* Lists of models *)

\* A part of a list.
LEMMA SliceProperties ==
  ASSUME NEW S, NEW s \in Seq(S), NEW m \in Nat \ {0}, NEW n \in m - 1 .. Len(s)
  PROVE  /\ SubSeq(s, m, n) \in Seq(S)
         /\ Len(SubSeq(s, m, n)) = n - m + 1
         /\ \A i \in 1 .. n - m + 1 : SubSeq(s, m, n)[i] = s[m + i - 1]
<1>1. Len(s) \in Nat /\ \A i \in 1 .. Len(s) : s[i] \in S
  BY LenProperties
<1>2. m \in Int /\ n \in Int /\ \A i \in m .. n : s[i] \in S
  BY <1>1
<1>3. (IF m <= n THEN n - m + 1 ELSE 0) = n - m + 1
  BY <1>1
<1> QED BY <1>2, <1>3, SubSeqProperties

\* What a list becomes without its i-th element.
LEMMA RemoveAtProperties ==
  ASSUME NEW S, NEW s \in Seq(S), NEW i \in 1 .. Len(s), IsInjective(s)
  PROVE  /\ RemoveAt(s, i) \in Seq(S)
         /\ IsInjective(RemoveAt(s, i))
         /\ ToSet(RemoveAt(s, i)) = ToSet(s) \ {s[i]}
<1> DEFINE a == SubSeq(s, 1, i - 1)
           b == SubSeq(s, i + 1, Len(s))
           r == a \o b
<1>1. /\ Len(s) \in Nat /\ DOMAIN s = 1 .. Len(s)
      /\ \A j \in 1 .. Len(s) : s[j] \in S
  BY LenProperties
<1>2. a \in Seq(S) /\ Len(a) = i - 1 /\ \A j \in 1 .. i - 1 : a[j] = s[j]
  <2>1. 1 \in Nat \ {0} /\ i - 1 \in 1 - 1 .. Len(s)
    BY <1>1
  <2>2. /\ a \in Seq(S) /\ Len(a) = (i - 1) - 1 + 1
        /\ \A j \in 1 .. (i - 1) - 1 + 1 : a[j] = s[1 + j - 1]
    BY <2>1, SliceProperties
  <2> HIDE DEF a
  <2> QED BY <1>1, <2>2
<1>3. b \in Seq(S) /\ Len(b) = Len(s) - i /\ \A j \in 1 .. Len(s) - i : b[j] = s[i + j]
  <2>1. i + 1 \in Nat \ {0} /\ Len(s) \in (i + 1) - 1 .. Len(s)
    BY <1>1
  <2>2. /\ b \in Seq(S) /\ Len(b) = Len(s) - (i + 1) + 1
        /\ \A j \in 1 .. Len(s) - (i + 1) + 1 : b[j] = s[(i + 1) + j - 1]
    BY <2>1, SliceProperties
  <2> HIDE DEF b
  <2> QED BY <1>1, <2>2
<1> HIDE DEF a, b
<1>4. /\ r \in Seq(S) /\ Len(r) = Len(s) - 1
      /\ \A j \in 1 .. Len(s) - 1 : r[j] = IF j <= i - 1 THEN s[j] ELSE s[j + 1]
  <2>1. /\ r \in Seq(S) /\ Len(r) = Len(a) + Len(b)
        /\ \A j \in 1 .. Len(a) + Len(b) : r[j] = IF j <= Len(a) THEN a[j] ELSE b[j - Len(a)]
    BY <1>2, <1>3, ConcatProperties
  <2> QED BY <1>1, <1>2, <1>3, <2>1
<1>5. DOMAIN r = 1 .. Len(s) - 1
  BY <1>4, LenProperties
<1> HIDE DEF r
<1>6. IsInjective(r)
  <2> SUFFICES ASSUME NEW x \in 1 .. Len(s) - 1, NEW y \in 1 .. Len(s) - 1, r[x] = r[y]
               PROVE  x = y
    BY <1>5 DEF IsInjective
  <2> DEFINE At(j) == IF j <= i - 1 THEN j ELSE j + 1
  <2>1. At(x) \in 1 .. Len(s) /\ At(y) \in 1 .. Len(s)
    BY <1>1
  <2>2. r[x] = s[At(x)] /\ r[y] = s[At(y)]
    BY <1>4
  <2>3. At(x) = At(y)
    BY <1>1, <2>1, <2>2 DEF IsInjective
  <2> QED BY <1>1, <2>3
<1>7. ToSet(r) \subseteq ToSet(s) \ {s[i]}
  BY <1>1, <1>4, <1>5, SMTT(30) DEF IsInjective, ToSet
<1>8. ToSet(s) \ {s[i]} \subseteq ToSet(r)
  <2> SUFFICES ASSUME NEW j \in 1 .. Len(s), j # i
               PROVE  s[j] \in ToSet(r)
    BY <1>1 DEF ToSet
  <2>1. CASE j < i
    BY <1>1, <1>4, <1>5, <2>1 DEF ToSet
  <2>2. CASE j > i
    <3>1. j - 1 \in 1 .. Len(s) - 1 /\ r[j - 1] = s[j]
      BY <1>1, <1>4, <2>2
    <3> QED BY <1>5, <3>1 DEF ToSet
  <2> QED BY <1>1, <2>1, <2>2
<1>9. RemoveAt(s, i) = r
  BY DEF RemoveAt, r, a, b
<1> QED BY <1>4, <1>6, <1>7, <1>8, <1>9

\* Two lists, one before the other.
LEMMA ConcatElements ==
  ASSUME NEW S, NEW s \in Seq(S), NEW t \in Seq(S)
  PROVE  /\ s \o t \in Seq(S)
         /\ \A i \in 1 .. Len(s) : (s \o t)[i] = s[i]
         /\ \A i \in 1 .. Len(t) : (s \o t)[Len(s) + i] = t[i]
         /\ \A i \in DOMAIN (s \o t) : \/ i \in 1 .. Len(s)
                                     \/ \E j \in 1 .. Len(t) : i = Len(s) + j
         /\ ToSet(s \o t) = ToSet(s) \cup ToSet(t)
<1> DEFINE r == s \o t
<1>1. /\ Len(s) \in Nat /\ DOMAIN s = 1 .. Len(s)
      /\ Len(t) \in Nat /\ DOMAIN t = 1 .. Len(t)
  BY LenProperties
<1>2. /\ r \in Seq(S) /\ Len(r) = Len(s) + Len(t)
      /\ \A i \in 1 .. Len(s) + Len(t) : r[i] = IF i <= Len(s) THEN s[i] ELSE t[i - Len(s)]
  BY ConcatProperties
<1>3. DOMAIN r = 1 .. Len(s) + Len(t)
  BY <1>2, LenProperties
<1> HIDE DEF r
<1>4. \A i \in 1 .. Len(s) : r[i] = s[i]
  BY <1>1, <1>2
<1>5. \A i \in 1 .. Len(t) : r[Len(s) + i] = t[i]
  BY <1>1, <1>2, SMTT(30)
<1>6. \A i \in DOMAIN r : \/ i \in 1 .. Len(s)
                          \/ \E j \in 1 .. Len(t) : i = Len(s) + j
  <2> TAKE i \in DOMAIN r
  <2>1. CASE i <= Len(s)
    BY <1>1, <1>3, <2>1
  <2>2. CASE i > Len(s)
    <3>1. i - Len(s) \in 1 .. Len(t) /\ i = Len(s) + (i - Len(s))
      BY <1>1, <1>3, <2>2
    <3> QED BY <3>1
  <2> QED BY <1>1, <1>3, <2>1, <2>2
<1>7. ToSet(r) = ToSet(s) \cup ToSet(t)
  <2>1. ToSet(r) \subseteq ToSet(s) \cup ToSet(t)
    BY <1>1, <1>4, <1>5, <1>6 DEF ToSet
  <2>2. \A i \in 1 .. Len(s) : i \in DOMAIN r
    BY <1>1, <1>3
  <2>3. \A i \in 1 .. Len(t) : Len(s) + i \in DOMAIN r
    BY <1>1, <1>3
  <2>4. ToSet(s) \cup ToSet(t) \subseteq ToSet(r)
    BY <1>1, <1>4, <1>5, <2>2, <2>3 DEF ToSet
  <2> QED BY <2>1, <2>4
<1> QED BY <1>2, <1>4, <1>5, <1>6, <1>7 DEF r

\* Without a common element no element is repeated.
LEMMA ConcatOfDistinct ==
  ASSUME NEW S, NEW s \in Seq(S), NEW t \in Seq(S), IsInjective(s), IsInjective(t),
         ToSet(s) \cap ToSet(t) = {}
  PROVE  IsInjective(s \o t)
<1> DEFINE r == s \o t
<1>1. /\ Len(s) \in Nat /\ DOMAIN s = 1 .. Len(s)
      /\ Len(t) \in Nat /\ DOMAIN t = 1 .. Len(t)
  BY LenProperties
<1>2. /\ \A i \in 1 .. Len(s) : r[i] = s[i]
      /\ \A i \in 1 .. Len(t) : r[Len(s) + i] = t[i]
      /\ \A i \in DOMAIN r : \/ i \in 1 .. Len(s)
                             \/ \E j \in 1 .. Len(t) : i = Len(s) + j
  BY ConcatElements
<1> HIDE DEF r
<1>3. \A i \in 1 .. Len(s), j \in 1 .. Len(t) : s[i] # t[j]
  BY <1>1 DEF ToSet
<1>4. IsInjective(r)
  <2> SUFFICES ASSUME NEW x \in DOMAIN r, NEW y \in DOMAIN r, r[x] = r[y]
               PROVE  x = y
    BY DEF IsInjective
  <2>1. CASE x \in 1 .. Len(s) /\ y \in 1 .. Len(s)
    BY <1>1, <1>2, <2>1 DEF IsInjective
  <2>2. ASSUME NEW i \in 1 .. Len(t), NEW j \in 1 .. Len(t), x = Len(s) + i, y = Len(s) + j
        PROVE  x = y
    BY <1>1, <1>2, <2>2, ZenonT(60) DEF IsInjective
  <2> QED BY <1>2, <1>3, <2>1, <2>2
<1> QED BY <1>4 DEF r

\* An element before a list it is not in.
LEMMA PrependProperties ==
  ASSUME NEW S, NEW s \in Seq(S), NEW x \in S, IsInjective(s), x \notin ToSet(s)
  PROVE  /\ <<x>> \o s \in Seq(S)
         /\ IsInjective(<<x>> \o s)
         /\ ToSet(<<x>> \o s) = ToSet(s) \cup {x}
<1> DEFINE t == <<x>>
<1>1. /\ t \in Seq(S) /\ DOMAIN t = 1 .. 1 /\ t[1] = x
  OBVIOUS
<1> HIDE DEF t
<1>2. IsInjective(t) /\ ToSet(t) = {x}
  BY <1>1 DEF IsInjective, ToSet
<1>3. ToSet(t) \cap ToSet(s) = {}
  BY <1>2
<1>4. t \o s \in Seq(S) /\ IsInjective(t \o s) /\ ToSet(t \o s) = ToSet(t) \cup ToSet(s)
  BY <1>1, <1>2, <1>3, ConcatOfDistinct, ConcatElements
<1> QED BY <1>2, <1>4 DEF t

\* An enumeration of a finite set lists its elements, each once.
LEMMA EnumerationProperties ==
  ASSUME NEW S, NEW T \in SUBSET S, IsFiniteSet(T), NEW s \in SetToSeqs(T)
  PROVE  s \in Seq(S) /\ IsInjective(s) /\ ToSet(s) = T
<1> DEFINE n == Cardinality(T)
           D == 1 .. n
<1>1. n \in Nat
  BY FS_CardinalityType
<1>2. s \in [D -> T] /\ \A i, j \in D : i # j => s[i] # s[j]
  BY DEF SetToSeqs
<1>3. s \in Injection(D, T)
  BY <1>2 DEF Injection, IsInjective
<1>4. Cardinality(D) = n
  BY <1>1, FS_Interval
<1>5. s \in Surjection(D, T)
  BY <1>3, <1>4, FS_Injection
<1>6. \A x \in T : \E i \in D : s[i] = x
  BY <1>5 DEF Surjection
<1>7. ToSet(s) = T
  BY <1>2, <1>6 DEF ToSet
<1>8. s \in Seq(S)
  BY <1>1, <1>2, SeqDef
<1> QED BY <1>3, <1>7, <1>8 DEF Injection

\* A list has finitely many elements.
LEMMA ElementsFinite ==
  ASSUME NEW S, NEW s \in Seq(S)
  PROVE  IsFiniteSet(ToSet(s)) /\ ToSet(s) \subseteq S
<1>1. Len(s) \in Nat /\ s \in [1 .. Len(s) -> S] /\ DOMAIN s = 1 .. Len(s)
  BY LenProperties
<1>2. s \in Surjection(1 .. Len(s), ToSet(s))
  BY <1>1 DEF Surjection, ToSet
<1>3. IsFiniteSet(1 .. Len(s))
  BY <1>1, FS_Interval
<1> QED BY <1>1, <1>2, <1>3, FS_Surjection DEF ToSet
----------------------------------------------------------------------------
(* The rows of models and versions *)

\* The tables, and the requests counted.
Rows ==
  /\ models \in Seq(Models) /\ IsInjective(models)
  /\ versions \subseteq ToSet(models)
  /\ raised \subseteq Events /\ dropped \subseteq Models
  /\ ops \in 0..MaxOps /\ restarts \in 0..MaxRestarts

BackupRow  == [pc : {"asleep", "paging", "writing"}, versions : SUBSET Models, page : Nat,
               models : Seq(Models), held : SUBSET Models, quiet : BOOLEAN]
BackupFile == [n : Nat, whole : BOOLEAN, models : Seq(Models), versions : SUBSET Models]
RestoreRow == [pc : {"none", "read"}, n : Nat, models : SUBSET Models,
               versions : SUBSET Models]

\* What the backups and the restore command hold; the rows a restore is about
\* to insert are those of a file, which are finitely many.
BackupTypes ==
  /\ backup \in BackupRow
  /\ files \in Seq(BackupFile)
  /\ begun \in 0..MaxBackups /\ completed \in 0..begun
  /\ backup.pc # "asleep" => begun \in Nat \ {0}
  /\ \A i \in DOMAIN files : files[i].n \in 1..begun
  /\ restore \in RestoreRow /\ IsFiniteSet(restore.models)

\* The list without a model of it.
LEMMA WithoutProperties ==
  ASSUME Rows, NEW m \in ToSet(models)
  PROVE  /\ Without(m) \in Seq(Models) /\ IsInjective(Without(m))
         /\ ToSet(Without(m)) = ToSet(models) \ {m}
<1> DEFINE at == CHOOSE i \in DOMAIN models : models[i] = m
<1>1. at \in DOMAIN models /\ models[at] = m
  BY DEF ToSet
<1>2. at \in 1 .. Len(models)
  BY <1>1, LenProperties DEF Rows
<1> HIDE DEF at
<1>3. /\ RemoveAt(models, at) \in Seq(Models) /\ IsInjective(RemoveAt(models, at))
      /\ ToSet(RemoveAt(models, at)) = ToSet(models) \ {m}
  BY <1>1, <1>2, RemoveAtProperties DEF Rows
<1> QED BY <1>3 DEF Without, at

\* Only a deletion takes a model out, and an event is raised with the change it
\* tells of.
RowsKept ==
  /\ dropped \subseteq dropped'
  /\ \A m \in ToSet(models) \ ToSet(models') : DeleteModel(m) /\ m \in dropped'
  /\ \A e \in raised' \ raised :
       e.model \in dropped' \/ (e.kind = "created" /\ e.model \in ToSet(models'))

\* Each step keeps the tables as they should be.
LEMMA RowsStep ==
  ASSUME Rows, BackupTypes, [Next]_vars
  PROVE  Rows' /\ RowsKept
<1> USE DEF RowsKept
<1>0. ToSet(models) \subseteq Models
  BY ElementsFinite DEF Rows
<1>1. ASSUME NEW m \in Models, CreateModel(m)
      PROVE  Rows' /\ RowsKept
  <2>1. /\ models' = <<m>> \o models /\ m \notin ToSet(models)
        /\ versions' = versions /\ dropped' = dropped /\ ops < MaxOps /\ ops' = ops + 1
        /\ restarts' = restarts
        /\ raised' = raised \cup {[kind |-> "created", model |-> m]}
    BY <1>1 DEF CreateModel, Call
  <2>2. /\ models' \in Seq(Models) /\ IsInjective(models')
        /\ ToSet(models') = ToSet(models) \cup {m}
    BY <2>1, PrependProperties DEF Rows
  <2>3. [kind |-> "created", model |-> m] \in Events
    BY CatalogAssumption
  <2> QED BY <2>1, <2>2, <2>3, CatalogAssumption DEF Rows
<1>2. ASSUME NEW m \in Models, UpdateModel(m)
      PROVE  Rows' /\ RowsKept
  <2>1. /\ models' = <<m>> \o Without(m) /\ m \in ToSet(models)
        /\ versions' = versions /\ dropped' = dropped /\ ops < MaxOps /\ ops' = ops + 1
        /\ restarts' = restarts /\ raised' = raised
    BY <1>2 DEF UpdateModel, Call
  <2>2. /\ models' \in Seq(Models) /\ IsInjective(models')
        /\ ToSet(models') = ToSet(models)
    <3>1. /\ Without(m) \in Seq(Models) /\ IsInjective(Without(m))
          /\ ToSet(Without(m)) = ToSet(models) \ {m}
      BY <2>1, WithoutProperties
    <3>2. m \notin ToSet(Without(m))
      BY <3>1
    <3>3. /\ models' \in Seq(Models) /\ IsInjective(models')
          /\ ToSet(models') = ToSet(Without(m)) \cup {m}
      BY <2>1, <3>1, <3>2, PrependProperties
    <3> QED BY <2>1, <3>1, <3>3
  <2>3. Rows'
    BY <2>1, <2>2, CatalogAssumption DEF Rows
  <2>4. RowsKept
    BY <2>1, <2>2
  <2> QED BY <2>3, <2>4
<1>3. ASSUME NEW m \in Models, AddVersion(m)
      PROVE  Rows' /\ RowsKept
  BY <1>3, CatalogAssumption DEF AddVersion, Call, Rows
<1>4. ASSUME NEW m \in Models, DeleteModel(m)
      PROVE  Rows' /\ RowsKept
  <2>1. /\ models' = Without(m) /\ m \in ToSet(models)
        /\ versions' = versions \ {m} /\ dropped' = dropped \cup {m}
        /\ ops < MaxOps /\ ops' = ops + 1 /\ restarts' = restarts
        /\ raised' = raised \cup {[kind |-> "deleted", model |-> m]}
    BY <1>4 DEF DeleteModel, Call
  <2>2. /\ models' \in Seq(Models) /\ IsInjective(models')
        /\ ToSet(models') = ToSet(models) \ {m}
    BY <2>1, WithoutProperties
  <2>3. [kind |-> "deleted", model |-> m] \in Events
    BY CatalogAssumption
  <2> QED BY <1>4, <2>1, <2>2, <2>3, CatalogAssumption DEF Rows
<1>5. CASE HookRequest \/ ApprovalRequest \/ MarkRequest \/ BeginRestore
  BY <1>5, CatalogAssumption
     DEF HookRequest, ApprovalRequest, MarkRequest, BeginRestore, Call, Rows, rowVars
<1>6. CASE Decide \/ InsertMark \/ BackupStep \/ RestoreFails
  BY <1>6 DEF Decide, InsertMark, BackupStep, RestoreFails, Rows, rowVars
<1>7. ASSUME NEW e \in Events, DispatchRaised(e)
      PROVE  Rows' /\ RowsKept
  BY <1>7 DEF DispatchRaised, Rows, rowVars
<1>8. ASSUME NEW d \in DOMAIN delivery, DeliverStep(d)
      PROVE  Rows' /\ RowsKept
  BY <1>8 DEF DeliverStep, Rows, rowVars
<1>9. CASE RestoreCommit
  <2>1. PICK added \in SetToSeqs(restore.models) : models' = added \o models
    BY <1>9 DEF RestoreCommit
  <2>2. /\ versions' = versions \cup restore.versions /\ raised' = raised
        /\ dropped' = dropped /\ ops' = ops /\ restarts' = restarts
        /\ restore.models \cap ToSet(models) = {}
        /\ restore.versions \subseteq ToSet(models) \cup restore.models
    BY <1>9 DEF RestoreCommit, Insertable
  <2>3. restore.models \in SUBSET Models /\ IsFiniteSet(restore.models)
    BY DEF BackupTypes, RestoreRow
  <2>4. added \in Seq(Models) /\ IsInjective(added) /\ ToSet(added) = restore.models
    BY <2>3, EnumerationProperties
  <2>5. /\ models' \in Seq(Models) /\ IsInjective(models')
        /\ ToSet(models') = restore.models \cup ToSet(models)
    BY <2>1, <2>2, <2>4, ConcatElements, ConcatOfDistinct DEF Rows
  <2> QED BY <2>2, <2>5 DEF Rows
<1>10. CASE Restart
  BY <1>10, CatalogAssumption DEF Restart, Rows, rowVars
<1>11. CASE UNCHANGED vars
  BY <1>11 DEF vars, Rows, rowVars
<1> QED BY <1>1, <1>2, <1>3, <1>4, <1>5, <1>6, <1>7, <1>8, <1>9, <1>10, <1>11 DEF Next
----------------------------------------------------------------------------
(* Approvals *)

\* The steps of the approval requests, whatever the rest of the catalogue does.
ApprovalsNext ==
  \/ UNCHANGED approvalVars
  \/ \E c \in Deciders, i \in Approvals :
       \/ \E m \in ToSet(models), level \in {"l1", "l2", "l3"} : Submit(c, i, m, level)
       \/ \E verb \in {"approve", "reject"}, who \in Persons : Begin(c, verb, i, who)
  \/ \E c \in Deciders : WriteApprove(c) \/ WriteReject(c)
  \/ DropDecisions

LEMMA ApprovalsSteps ==
  ASSUME [Next]_vars
  PROVE  ApprovalsNext
<1> USE DEF ApprovalsNext
<1>1. ASSUME NEW m \in Models, CreateModel(m) \/ UpdateModel(m) \/ AddVersion(m) \/ DeleteModel(m)
      PROVE  UNCHANGED approvalVars
  BY <1>1 DEF CreateModel, UpdateModel, AddVersion, DeleteModel, Others
<1>2. CASE HookRequest \/ MarkRequest \/ InsertMark \/ BackupStep \/ BeginRestore
  BY <1>2 DEF HookRequest, MarkRequest, InsertMark, BackupStep, BeginRestore
<1>3. CASE RestoreCommit \/ RestoreFails
  BY <1>3 DEF RestoreCommit, RestoreFails, Others
<1>4. ASSUME NEW e \in Events, DispatchRaised(e)
      PROVE  UNCHANGED approvalVars
  BY <1>4 DEF DispatchRaised
<1>5. ASSUME NEW d \in DOMAIN delivery, DeliverStep(d)
      PROVE  UNCHANGED approvalVars
  BY <1>5 DEF DeliverStep
<1>6. CASE ApprovalRequest
  BY <1>6 DEF ApprovalRequest
<1>7. CASE Decide
  BY <1>7 DEF Decide
<1>8. CASE Restart
  BY <1>8 DEF Restart
<1>9. CASE UNCHANGED vars
  BY <1>9 DEF vars
<1> QED BY <1>1, <1>2, <1>3, <1>4, <1>5, <1>6, <1>7, <1>8, <1>9 DEF Next

\* The names that people have approved with, and what these are split into.
Entries(people) == people \cup Split(people)

LEMMA SplitFacts ==
  ASSUME NEW S \in SUBSET Persons, NEW T \in SUBSET Persons
  PROVE  /\ S \subseteq T => Entries(S) \subseteq Entries(T)
         /\ S \subseteq Entries(T) => Split(S) \subseteq Entries(T)
         /\ (\A p \in T : Plain(p)) => Entries(T) = T
         /\ Split(S) \subseteq Persons
BY ApprovalsAssumption DEF Entries, Split, Plain

\* What a call that has read a request relies on: the request does not go away
\* or change its level, whoever approves level l3 is a person, and those seen as
\* approving have approved, or are part of the name of somebody who has.
DecidersTrue ==
  \A c \in Deciders :
    decider[c].verb # "none" =>
      /\ approval[decider[c].id].st # "none"
      /\ approval[decider[c].id].level = "l3" => decider[c].who \in Persons
      /\ decider[c].seen \subseteq Entries(signed[decider[c].id])

SignersTrue ==
  \A i \in Approvals :
    IsFiniteSet(signed[i]) /\ approval[i].signers \subseteq Entries(signed[i])

ApprovalsInv == ApprovalsTypeOK /\ DecidersTrue /\ SignersTrue /\ SignedByQuorum

LEMMA ApprovalsStep ==
  ASSUME ApprovalsInv, ApprovalsNext, ToSet(models) \subseteq Models
  PROVE  ApprovalsInv'
<1> USE DEF ApprovalsInv, ApprovalsTypeOK
<1>1. CASE UNCHANGED approvalVars
  BY <1>1 DEF approvalVars, DecidersTrue, SignersTrue, SignedByQuorum
<1>2. ASSUME NEW c \in Deciders, NEW i \in Approvals, NEW m \in ToSet(models),
             NEW level \in {"l1", "l2", "l3"}, Submit(c, i, m, level)
      PROVE  ApprovalsInv'
  <2> DEFINE new == [st |-> "pending", level |-> level, model |-> m, signers |-> {}]
             call == [verb |-> "approve", id |-> i, who |-> Nobody, seen |-> {}]
  <2>1. /\ approval[i].st = "none" /\ decider[c].verb = "none"
        /\ approval' = [approval EXCEPT ![i] = new]
        /\ decider' = IF level = "l1" THEN [decider EXCEPT ![c] = call] ELSE decider
        /\ signed' = signed
    BY <1>2 DEF Submit, NewRequest
  <2>2. ApprovalsTypeOK'
    BY <2>1
  <2>3. approval'[i] = new /\ \A j \in Approvals \ {i} : approval'[j] = approval[j]
    BY <2>1
  <2>4. \A d \in Deciders : decider'[d] = decider[d] \/ (level = "l1" /\ decider'[d] = call)
    <3> HIDE DEF new, call
    <3>1. CASE level = "l1"
      <4>1. decider' = [decider EXCEPT ![c] = call]
        BY <2>1, <3>1
      <4> QED BY <3>1, <4>1
    <3>2. CASE level # "l1"
      BY <2>1, <3>2
    <3> QED BY <3>1, <3>2
  <2>5. DecidersTrue'
    <3> SUFFICES ASSUME NEW d \in Deciders, decider'[d].verb # "none"
                 PROVE  /\ approval'[decider'[d].id].st # "none"
                        /\ approval'[decider'[d].id].level = "l3" => decider'[d].who \in Persons
                        /\ decider'[d].seen \subseteq Entries(signed'[decider'[d].id])
      BY DEF DecidersTrue
    <3>1. CASE decider'[d] = decider[d]
      <4>1. decider[d].id \in Approvals \ {i}
        BY <2>1, <3>1 DEF DecidersTrue
      <4>2. approval'[decider[d].id] = approval[decider[d].id]
        BY <2>3, <4>1
      <4> QED BY <2>1, <3>1, <4>2 DEF DecidersTrue
    <3>2. CASE level = "l1" /\ decider'[d] = call
      BY <2>1, <2>3, <3>2
    <3> QED BY <2>4, <3>1, <3>2
  <2>6. SignersTrue' /\ SignedByQuorum'
    BY <2>1, <2>3 DEF SignersTrue, SignedByQuorum
  <2> QED BY <2>2, <2>5, <2>6
<1>3. ASSUME NEW c \in Deciders, NEW i \in Approvals, NEW verb \in {"approve", "reject"},
             NEW who \in Persons, Begin(c, verb, i, who)
      PROVE  ApprovalsInv'
  <2> DEFINE call == [verb |-> verb, id |-> i, who |-> who, seen |-> approval[i].signers]
  <2>1. /\ approval[i].st = "pending" /\ decider' = [decider EXCEPT ![c] = call]
        /\ approval' = approval /\ signed' = signed
    BY <1>3 DEF Begin
  <2>2. ApprovalsTypeOK'
    BY <2>1
  <2>3. DecidersTrue'
    BY <2>1 DEF DecidersTrue, SignersTrue
  <2> QED BY <2>1, <2>2, <2>3 DEF SignersTrue, SignedByQuorum
<1>4. ASSUME NEW c \in Deciders, WriteApprove(c)
      PROVE  ApprovalsInv'
  <2> DEFINE d == decider[c]
             l3 == approval[d.id].level = "l3"
             signers == Split(d.seen) \cup {d.who}
             st == IF l3 => Enough(signers) THEN "approved" ELSE approval[d.id].st
             hist == IF l3 /\ signers # d.seen THEN signers ELSE approval[d.id].signers
  <2>1. /\ d.verb = "approve" /\ d.id \in Approvals
        /\ approval' = [approval EXCEPT ![d.id].st = st, ![d.id].signers = hist]
        /\ signed' = IF l3 THEN [signed EXCEPT ![d.id] = @ \cup {d.who}] ELSE signed
        /\ decider' = [decider EXCEPT ![c] = NotDeciding]
    BY <1>4 DEF WriteApprove
  <2>2. /\ approval[d.id].st # "none" /\ d.seen \subseteq Entries(signed[d.id])
        /\ d.seen \in SUBSET Persons /\ Split(d.seen) \subseteq Persons
        /\ l3 => d.who \in Persons
    BY <2>1, SplitFacts DEF DecidersTrue
  <2>3. /\ approval'[d.id].st = st /\ approval'[d.id].signers = hist
        /\ approval'[d.id].level = approval[d.id].level
        /\ approval'[d.id].model = approval[d.id].model
        /\ \A j \in Approvals \ {d.id} : approval'[j] = approval[j]
    BY <2>1
  <2>4. st \in {"pending", "approved", "rejected"} /\ hist \in SUBSET Persons
    BY <2>1, <2>2
  <2>5. ApprovalsTypeOK'
    <3>1. approval' \in [Approvals -> [st : {"none", "pending", "approved", "rejected"},
                                      level : {"l1", "l2", "l3"}, model : Models \cup {Nobody},
                                      signers : SUBSET Persons]]
      <4> HIDE DEF st, hist
      <4> QED BY <2>1, <2>4
    <3>2. decider' \in [Deciders -> [verb : {"none", "approve", "reject"},
                                    id : Approvals \cup {Nobody}, who : Persons \cup {Nobody},
                                    seen : SUBSET Persons]]
      BY <2>1 DEF NotDeciding
    <3>3. \A i \in Approvals : approval'[i].st # "none" => approval'[i].model \in Models
      BY <2>2, <2>3
    <3>4. \A b \in Deciders : decider'[b].verb # "none" => decider'[b].id \in Approvals
      BY <2>1 DEF NotDeciding
    <3>5. signed' \in [Approvals -> SUBSET Persons]
      BY <2>1, <2>2
    <3> QED BY <3>1, <3>2, <3>3, <3>4, <3>5
  <2>6. \A i \in Approvals : /\ signed[i] \subseteq signed'[i]
                             /\ IsFiniteSet(signed'[i])
                             /\ Entries(signed[i]) \subseteq Entries(signed'[i])
                             /\ approval'[i].signers \subseteq Entries(signed'[i])
    <3>1. \A i \in Approvals : signed[i] \subseteq signed'[i]
      BY <2>1
    <3>2. l3 => signed'[d.id] = signed[d.id] \cup {d.who}
      BY <2>1
    <3>3. \A i \in Approvals : i # d.id \/ ~l3 => signed'[i] = signed[i]
      BY <2>1
    <3>4. IsFiniteSet(signed[d.id]) /\ IsFiniteSet(signed[d.id] \cup {d.who})
      <4>1. IsFiniteSet(signed[d.id])
        BY <2>1 DEF SignersTrue
      <4> QED BY <4>1, FS_AddElement
    <3>5. \A i \in Approvals : Entries(signed[i]) \subseteq Entries(signed'[i])
      BY <2>5, <3>1, SplitFacts
    <3>6. hist \subseteq Entries(signed'[d.id])
      <4>1. approval[d.id].signers \subseteq Entries(signed[d.id])
        BY <2>1 DEF SignersTrue
      <4>2. l3 => signers \subseteq Entries(signed'[d.id])
        <5>1. Split(d.seen) \subseteq Entries(signed'[d.id])
          <6>1. signed'[d.id] \in SUBSET Persons /\ d.seen \subseteq Entries(signed'[d.id])
            BY <2>1, <2>2, <2>5, <3>5
          <6> HIDE DEF d
          <6> QED BY <2>2, <6>1, SplitFacts
        <5>2. l3 => d.who \in Entries(signed'[d.id])
          BY <3>2 DEF Entries
        <5> QED BY <5>1, <5>2
      <4> HIDE DEF signers, l3
      <4> QED BY <2>1, <3>5, <4>1, <4>2
    <3> HIDE DEF hist, l3
    <3> QED BY <2>1, <2>3, <3>1, <3>2, <3>3, <3>4, <3>5, <3>6 DEF SignersTrue
  <2>7. DecidersTrue'
    <3> SUFFICES ASSUME NEW b \in Deciders, decider'[b].verb # "none"
                 PROVE  /\ approval'[decider'[b].id].st # "none"
                        /\ approval'[decider'[b].id].level = "l3" => decider'[b].who \in Persons
                        /\ decider'[b].seen \subseteq Entries(signed'[decider'[b].id])
      BY DEF DecidersTrue
    <3>1. decider'[b] = decider[b]
      BY <2>1 DEF NotDeciding
    <3>2. decider[b].id \in Approvals
      BY <3>1
    <3>3. /\ approval'[decider[b].id].st # "none"
          /\ approval'[decider[b].id].level = approval[decider[b].id].level
      BY <2>2, <2>3, <2>4, <3>1, <3>2 DEF DecidersTrue
    <3> QED BY <2>6, <3>1, <3>2, <3>3 DEF DecidersTrue
  <2>8. SignedByQuorum'
    <3> SUFFICES ASSUME NEW i \in Approvals, approval'[i].level = "l3",
                        approval'[i].st = "approved",
                        \A p \in signed'[i] : Plain(p)
                 PROVE  Cardinality(signed'[i]) >= Quorum
      BY DEF SignedByQuorum
    <3>1. /\ IsFiniteSet(signed'[i]) /\ Cardinality(signed'[i]) \in Nat
          /\ signed[i] \in SUBSET signed'[i]
      BY <2>6, FS_CardinalityType
    <3>2. CASE approval[i].level = "l3" /\ approval[i].st = "approved"
      <4>1. Cardinality(signed[i]) <= Cardinality(signed'[i])
        BY <3>1, FS_Subset
      <4>2. Cardinality(signed[i]) >= Quorum /\ Cardinality(signed[i]) \in Nat
        <5>1. \A p \in signed[i] : Plain(p)
          BY <3>1
        <5> QED BY <5>1, <2>6, <3>2, FS_CardinalityType DEF SignedByQuorum, SignersTrue
      <4> QED BY <3>1, <4>1, <4>2, ApprovalsAssumption
    <3>3. CASE i = d.id /\ l3 /\ Enough(signers)
      <4>1. signers \in SUBSET signed'[i]
        <5>1. Entries(signed'[i]) = signed'[i]
          BY <2>5, SplitFacts
        <5>2. Split(d.seen) \subseteq Entries(signed'[i])
          <6>1. signed'[i] \in SUBSET Persons /\ d.seen \subseteq Entries(signed'[i])
            BY <2>2, <2>5, <2>6, <3>3
          <6> HIDE DEF d
          <6> QED BY <2>2, <6>1, SplitFacts
        <5> QED BY <2>1, <2>2, <3>3, <5>1, <5>2
      <4>2. Cardinality(signers) <= Cardinality(signed'[i]) /\ IsFiniteSet(signers)
        BY <3>1, <4>1, FS_Subset
      <4>3. Cardinality(signers) \in Nat /\ Cardinality(signers) >= Quorum
        BY <3>3, <4>2, FS_CardinalityType DEF Enough
      <4> QED BY <3>1, <4>2, <4>3, ApprovalsAssumption
    <3> QED BY <2>3, <3>2, <3>3
  <2> QED BY <2>5, <2>6, <2>7, <2>8 DEF SignersTrue
<1>5. ASSUME NEW c \in Deciders, WriteReject(c)
      PROVE  ApprovalsInv'
  <2> DEFINE x == decider[c].id
  <2>1. /\ decider[c].verb = "reject" /\ x \in Approvals
        /\ approval' = [approval EXCEPT ![x].st = "rejected"]
        /\ decider' = [decider EXCEPT ![c] = NotDeciding]
        /\ signed' = signed
    BY <1>5 DEF WriteReject
  <2>2. approval[x].st # "none"
    BY <2>1 DEF DecidersTrue
  <2>3. /\ approval'[x].st = "rejected" /\ approval'[x].signers = approval[x].signers
        /\ approval'[x].level = approval[x].level /\ approval'[x].model = approval[x].model
        /\ \A j \in Approvals \ {x} : approval'[j] = approval[j]
        /\ \A b \in Deciders : decider'[b].verb # "none" => decider'[b] = decider[b]
    BY <2>1 DEF NotDeciding
  <2>4. ApprovalsTypeOK'
    <3>1. /\ approval' \in [Approvals -> [st : {"none", "pending", "approved", "rejected"},
                                        level : {"l1", "l2", "l3"}, model : Models \cup {Nobody},
                                        signers : SUBSET Persons]]
          /\ decider' \in [Deciders -> [verb : {"none", "approve", "reject"},
                                      id : Approvals \cup {Nobody}, who : Persons \cup {Nobody},
                                      seen : SUBSET Persons]]
      BY <2>1 DEF NotDeciding
    <3>2. /\ \A i \in Approvals : approval'[i].st # "none" => approval'[i].model \in Models
          /\ \A b \in Deciders : decider'[b].verb # "none" => decider'[b].id \in Approvals
      BY <2>2, <2>3
    <3> QED BY <2>1, <3>1, <3>2
  <2>5. DecidersTrue' /\ SignersTrue' /\ SignedByQuorum'
    <3> HIDE DEF x
    <3> QED BY <2>1, <2>3 DEF DecidersTrue, SignersTrue, SignedByQuorum
  <2> QED BY <2>4, <2>5
<1>6. CASE DropDecisions
  <2>1. /\ decider' = [c \in Deciders |-> NotDeciding] /\ approval' = approval
        /\ signed' = signed
    BY <1>6 DEF DropDecisions
  <2>2. ApprovalsTypeOK' /\ DecidersTrue'
    BY <2>1 DEF DecidersTrue, NotDeciding
  <2> QED BY <2>1, <2>2 DEF SignersTrue, SignedByQuorum
<1> QED BY <1>1, <1>2, <1>3, <1>4, <1>5, <1>6 DEF ApprovalsNext
----------------------------------------------------------------------------
(* Webhooks and events *)

\* The steps of the webhooks and the deliveries.
HooksNext ==
  \/ UNCHANGED hookVars
  \/ \E h \in Hooks : DeleteHook(h) \/ \E sub \in Subscriptions : CreateHook(h, sub)
  \/ \E e \in Events : e \in raised /\ Dispatch(e, TenantOf[e.model])
  \/ \E d \in DOMAIN delivery : Deliver(d)
  \/ LoseDeliveries /\ UNCHANGED hooks

LEMMA HooksSteps ==
  ASSUME [Next]_vars
  PROVE  HooksNext
<1> USE DEF HooksNext
<1>1. ASSUME NEW m \in Models, CreateModel(m) \/ UpdateModel(m) \/ AddVersion(m) \/ DeleteModel(m)
      PROVE  UNCHANGED hookVars
  BY <1>1 DEF CreateModel, UpdateModel, AddVersion, DeleteModel, Others
<1>2. CASE ApprovalRequest \/ Decide \/ MarkRequest \/ InsertMark \/ BackupStep \/ BeginRestore
  BY <1>2 DEF ApprovalRequest, Decide, MarkRequest, InsertMark, BackupStep, BeginRestore
<1>3. CASE RestoreCommit \/ RestoreFails
  BY <1>3 DEF RestoreCommit, RestoreFails, Others
<1>4. ASSUME NEW e \in Events, DispatchRaised(e)
      PROVE  e \in raised /\ Dispatch(e, TenantOf[e.model])
  BY <1>4 DEF DispatchRaised
<1>5. ASSUME NEW d \in DOMAIN delivery, DeliverStep(d)
      PROVE  Deliver(d)
  BY <1>5 DEF DeliverStep
<1>6. CASE HookRequest
  BY <1>6 DEF HookRequest
<1>7. CASE Restart
  BY <1>7 DEF Restart
<1>8. CASE UNCHANGED vars
  BY <1>8 DEF vars
<1> QED BY <1>1, <1>2, <1>3, <1>4, <1>5, <1>6, <1>7, <1>8 DEF Next

\* A task was spawned for a webhook that had been made, of the tenant of the
\* event's model if it has one.
SentTrue ==
  \A h \in Hooks, e \in Events :
    delivery[<<h, e>>].pc # "none" =>
      /\ hooks[h].st # "unused"
      /\ TenantOf[e.model] \in {NoTenant, hooks[h].sub.tenant}

\* A delivery pauses only when it has a try left.
TriesLeft ==
  \A d \in Hooks \X Events : delivery[d].pc = "sleeping" => delivery[d].tries < MaxTries

HooksInv == HooksTypeOK /\ SentTrue /\ TriesLeft

\* Only raised events get new tasks.
LEMMA HooksStep ==
  ASSUME HooksInv, HooksNext
  PROVE  /\ HooksInv'
         /\ \A h \in Hooks, e \in Events :
              delivery'[<<h, e>>].pc # "none" => delivery[<<h, e>>].pc # "none" \/ e \in raised
<1> DEFINE Spawned == \A h \in Hooks, e \in Events :
                        delivery'[<<h, e>>].pc # "none"
                          => delivery[<<h, e>>].pc # "none" \/ e \in raised
<1> USE DEF HooksInv, HooksTypeOK
<1>1. CASE UNCHANGED hookVars
  BY <1>1 DEF hookVars, SentTrue, TriesLeft
<1>2. ASSUME NEW h \in Hooks, DeleteHook(h)
      PROVE  HooksInv' /\ Spawned
  <2>1. /\ hooks[h].st = "there" /\ hooks' = [hooks EXCEPT ![h].st = "gone"]
        /\ delivery' = delivery
    BY <1>2 DEF DeleteHook
  <2> QED BY <2>1, SMTT(30) DEF SentTrue, TriesLeft
<1>3. ASSUME NEW h \in Hooks, NEW sub \in Subscriptions, CreateHook(h, sub)
      PROVE  HooksInv' /\ Spawned
  <2>1. /\ hooks[h].st = "unused" /\ hooks' = [hooks EXCEPT ![h] = [st |-> "there", sub |-> sub]]
        /\ delivery' = delivery
    BY <1>3 DEF CreateHook
  <2> QED BY <2>1 DEF SentTrue, TriesLeft
<1>4. ASSUME NEW e \in Events, e \in raised, Dispatch(e, TenantOf[e.model])
      PROVE  HooksInv' /\ Spawned
  <2> DEFINE new(h) == h \in Listed(TenantOf[e.model]) /\ Subscribes(h, e.kind)
  <2>1. /\ hooks' = hooks
        /\ delivery' = [d \in Hooks \X Events |->
                          IF d[2] = e /\ new(d[1]) THEN [pc |-> "waiting", tries |-> 0]
                          ELSE delivery[d]]
    BY <1>4 DEF Dispatch
  <2>2. \A h \in Hooks : new(h) => /\ hooks[h].st # "unused"
                                  /\ TenantOf[e.model] \in {NoTenant, hooks[h].sub.tenant}
    BY DEF Listed
  <2> HIDE DEF new
  <2>3. [pc |-> "waiting", tries |-> 0] \in
           [pc : {"none", "waiting", "posting", "sleeping", "ended"}, tries : 0..MaxTries]
    BY WebhooksAssumption
  <2>4. HooksTypeOK'
    BY <2>1, <2>3
  <2>5. \A h \in Hooks, f \in Events :
          /\ <<h, f>> \in Hooks \X Events /\ <<h, f>>[1] = h /\ <<h, f>>[2] = f
          /\ delivery'[<<h, f>>] = IF f = e /\ new(h) THEN [pc |-> "waiting", tries |-> 0]
                                   ELSE delivery[<<h, f>>]
    BY <2>1
  <2>6. Spawned
    BY <1>4, <2>5
  <2>7. SentTrue'
    BY <2>1, <2>2, <2>5 DEF SentTrue
  <2>8. TriesLeft'
    BY <2>1 DEF TriesLeft
  <2> QED BY <2>4, <2>6, <2>7, <2>8
<1>5. ASSUME NEW d \in DOMAIN delivery, Deliver(d)
      PROVE  HooksInv' /\ Spawned
  <2>1. hooks' = hooks /\ d \in Hooks \X Events
    BY <1>5 DEF Deliver, Acquire, Answered, Unanswered, Retry
  <2>2. delivery[d].pc # "none"
    BY <1>5 DEF Deliver, Acquire, Answered, Unanswered, Retry
  <2>3. \A x \in (Hooks \X Events) \ {d} : delivery'[x] = delivery[x]
    BY <1>5, <2>1 DEF Deliver, Acquire, Answered, Unanswered, Retry
  <2>4. /\ delivery' \in [Hooks \X Events ->
                            [pc : {"none", "waiting", "posting", "sleeping", "ended"},
                             tries : 0..MaxTries]]
        /\ delivery'[d].pc = "sleeping" => delivery'[d].tries < MaxTries
    <3>1. CASE Acquire(d)
      BY <2>1, <3>1, WebhooksAssumption DEF Acquire
    <3>2. CASE Answered(d)
      BY <2>1, <3>2, WebhooksAssumption DEF Answered, Ended
    <3>3. CASE Unanswered(d)
      BY <2>1, <3>3, WebhooksAssumption DEF Unanswered, Ended
    <3>4. CASE Retry(d)
      <4>1. delivery[d].tries \in 0..MaxTries /\ delivery[d].tries < MaxTries
        BY <2>1, <3>4 DEF Retry, TriesLeft
      <4>2. delivery[d].tries + 1 \in 0..MaxTries
        BY <4>1, WebhooksAssumption
      <4>3. delivery' = [delivery EXCEPT ![d] = [pc |-> "posting", tries |-> delivery[d].tries + 1]]
        BY <3>4 DEF Retry
      <4> QED BY <2>1, <4>2, <4>3
    <3> QED BY <1>5, <3>1, <3>2, <3>3, <3>4 DEF Deliver
  <2>5. Spawned
    BY <2>2, <2>3
  <2>6. TriesLeft'
    BY <2>3, <2>4 DEF TriesLeft
  <2>7. SentTrue'
    <3>1. \A h \in Hooks, e \in Events :
             delivery'[<<h, e>>].pc # "none" => delivery[<<h, e>>].pc # "none"
      BY <2>2, <2>3
    <3> QED BY <2>1, <3>1 DEF SentTrue
  <2> QED BY <2>1, <2>4, <2>5, <2>6, <2>7
<1>6. CASE LoseDeliveries /\ UNCHANGED hooks
  <2>1. /\ hooks' = hooks
        /\ delivery' = [d \in Hooks \X Events |-> IF Pending(d) THEN Ended ELSE delivery[d]]
    BY <1>6 DEF LoseDeliveries
  <2>2. \A d \in Hooks \X Events : delivery'[d].pc # "none" => delivery[d].pc # "none"
    BY <2>1 DEF Pending
  <2>3. HooksTypeOK'
    BY <2>1, WebhooksAssumption DEF Ended
  <2>4. SentTrue'
    BY <2>1, <2>2 DEF SentTrue
  <2>5. TriesLeft'
    BY <2>1 DEF TriesLeft, Ended
  <2> QED BY <2>2, <2>3, <2>4, <2>5
<1> QED BY <1>1, <1>2, <1>3, <1>4, <1>5, <1>6 DEF HooksNext
\* An event on its way tells what was committed.
EventsKnown ==
  \A e \in Events :
    e \in raised \/ (\E h \in Hooks : delivery[<<h, e>>].pc # "none") =>
      e.model \in dropped \/ (e.kind = "created" /\ e.model \in ToSet(models))

LEMMA EventsStep ==
  ASSUME Rows, BackupTypes, HooksInv, EventsKnown, [Next]_vars
  PROVE  EventsKnown'
<1>1. RowsKept
  BY RowsStep
<1>2. \A h \in Hooks, e \in Events :
        delivery'[<<h, e>>].pc # "none" => delivery[<<h, e>>].pc # "none" \/ e \in raised
  BY HooksSteps, HooksStep
<1> SUFFICES ASSUME NEW e \in Events,
                    e \in raised' \/ \E h \in Hooks : delivery'[<<h, e>>].pc # "none"
             PROVE  e.model \in dropped' \/ (e.kind = "created" /\ e.model \in ToSet(models'))
  BY DEF EventsKnown
<1>3. CASE e \in raised' \ raised
  BY <1>1, <1>3 DEF RowsKept
<1>4. CASE e \in raised \/ \E h \in Hooks : delivery[<<h, e>>].pc # "none"
  <2>1. e.model \in dropped \/ (e.kind = "created" /\ e.model \in ToSet(models))
    BY <1>4 DEF EventsKnown
  <2> QED BY <1>1, <2>1 DEF RowsKept
<1> QED BY <1>2, <1>3, <1>4

----------------------------------------------------------------------------
(* Favorites and locks *)

MarksNext ==
  \/ UNCHANGED markVars
  \/ \E k \in MarkKinds : Unmark(k) \/ \E c \in Adders : FindNone(c, k)
  \/ \E c \in Adders : Insert(c, ToSet(models))
  \/ \E m \in Models : DropFavorites(m)
  \/ DropAdders

LEMMA MarksSteps ==
  ASSUME [Next]_vars
  PROVE  MarksNext
<1> USE DEF MarksNext
<1>1. ASSUME NEW m \in Models, CreateModel(m) \/ UpdateModel(m) \/ AddVersion(m)
      PROVE  UNCHANGED markVars
  BY <1>1 DEF CreateModel, UpdateModel, AddVersion, Others
<1>2. ASSUME NEW m \in Models, DeleteModel(m)
      PROVE  DropFavorites(m)
  BY <1>2 DEF DeleteModel
<1>3. CASE HookRequest \/ ApprovalRequest \/ Decide \/ BackupStep \/ BeginRestore
  BY <1>3 DEF HookRequest, ApprovalRequest, Decide, BackupStep, BeginRestore
<1>4. CASE RestoreCommit \/ RestoreFails
  BY <1>4 DEF RestoreCommit, RestoreFails, Others
<1>5. ASSUME NEW e \in Events, DispatchRaised(e)
      PROVE  UNCHANGED markVars
  BY <1>5 DEF DispatchRaised
<1>6. ASSUME NEW d \in DOMAIN delivery, DeliverStep(d)
      PROVE  UNCHANGED markVars
  BY <1>6 DEF DeliverStep
<1>7. CASE MarkRequest
  BY <1>7 DEF MarkRequest
<1>8. CASE InsertMark
  BY <1>8 DEF InsertMark
<1>9. CASE Restart
  BY <1>9 DEF Restart
<1>10. CASE UNCHANGED vars
  BY <1>10 DEF vars
<1> QED BY <1>1, <1>2, <1>3, <1>4, <1>5, <1>6, <1>7, <1>8, <1>9, <1>10 DEF Next

\* A row more is added only by a call that has found none, so the rows and the
\* calls that are about to add one are together no more than the calls.
MarksCounted ==
  \A k \in MarkKinds : marks[k] + Cardinality(Adding(k)) <= Cardinality(Adders)

MarksInv ==
  /\ marks \in [MarkKinds -> Nat]
  /\ adder \in [Adders -> MarkKinds \cup {NoMark}]
  /\ MarksCounted

LEMMA AddersFinite ==
  ASSUME NEW k
  PROVE  /\ IsFiniteSet(Adders) /\ Cardinality(Adders) \in Nat
         /\ IsFiniteSet(Adding(k)) /\ Cardinality(Adding(k)) \in Nat
         /\ Cardinality(Adding(k)) <= Cardinality(Adders)
         /\ IsFiniteSet(Adding(k)') /\ Cardinality(Adding(k)') \in Nat
         /\ Cardinality(Adding(k)') <= Cardinality(Adders)
<1>1. Adding(k) \in SUBSET Adders /\ Adding(k)' \in SUBSET Adders
  BY DEF Adding
<1> QED BY <1>1, MarksAssumption, FS_Subset, FS_CardinalityType

LEMMA MarksStep ==
  ASSUME MarksInv, MarksNext
  PROVE  /\ MarksInv'
         /\ \A k \in MarkKinds :
              marks'[k] > 0 => marks[k] > 0 \/ k.model \in ToSet(models)
<1> DEFINE Found == \A k \in MarkKinds :
                      marks'[k] > 0 => marks[k] > 0 \/ k.model \in ToSet(models)
<1> USE DEF MarksInv
<1>1. CASE UNCHANGED markVars
  BY <1>1 DEF markVars, MarksCounted, Adding
<1>2. ASSUME NEW k \in MarkKinds, Unmark(k)
      PROVE  MarksInv' /\ Found
  <2>1. marks[k] > 0 /\ marks' = [marks EXCEPT ![k] = @ - 1] /\ adder' = adder
    BY <1>2 DEF Unmark
  <2>2. \A x \in MarkKinds : /\ marks'[x] \in Nat /\ marks'[x] <= marks[x]
                            /\ Adding(x)' = Adding(x)
    BY <2>1 DEF Adding
  <2>3. marks' \in [MarkKinds -> Nat]
    BY <2>1, <2>2
  <2>4. MarksCounted'
    BY <2>2, AddersFinite DEF MarksCounted
  <2> QED BY <2>1, <2>2, <2>3, <2>4
<1>3. ASSUME NEW k \in MarkKinds, NEW c \in Adders, FindNone(c, k)
      PROVE  MarksInv' /\ Found
  <2>1. /\ adder[c] = NoMark /\ marks[k] = 0 /\ marks' = marks
        /\ adder' = [adder EXCEPT ![c] = k]
    BY <1>3 DEF FindNone, Unmarked
  <2>2. \A x \in MarkKinds \ {k} : Adding(x)' = Adding(x)
    BY <2>1, MarksAssumption DEF Adding
  <2>3. MarksCounted'
    BY <2>1, <2>2, AddersFinite DEF MarksCounted
  <2> QED BY <2>1, <2>3
<1>4. ASSUME NEW c \in Adders, Insert(c, ToSet(models))
      PROVE  MarksInv' /\ Found
  <2>0. PICK k \in MarkKinds : k = adder[c] /\ k # NoMark
    BY <1>4 DEF Insert
  <2>1. /\ adder[c] = k /\ k # NoMark /\ adder' = [adder EXCEPT ![c] = NoMark]
        /\ marks' = IF k.model \in ToSet(models) THEN [marks EXCEPT ![k] = @ + 1] ELSE marks
    BY <1>4, <2>0 DEF Insert
  <2>2. c \in Adding(k) /\ Adding(k)' = Adding(k) \ {c}
    BY <2>1, MarksAssumption DEF Adding
  <2>3. \A x \in MarkKinds \ {k} : Adding(x)' = Adding(x)
    BY <2>1, MarksAssumption DEF Adding
  <2>4. Cardinality(Adding(k)') = Cardinality(Adding(k)) - 1
    BY <2>2, AddersFinite, FS_RemoveElement
  <2>5. /\ marks'[k] \in Nat /\ marks'[k] <= marks[k] + 1
        /\ \A x \in MarkKinds \ {k} : marks'[x] = marks[x]
        /\ marks'[k] > marks[k] => k.model \in ToSet(models)
    BY <2>1
  <2>6. marks' \in [MarkKinds -> Nat]
    BY <2>1
  <2>7. adder' \in [Adders -> MarkKinds \cup {NoMark}]
    BY <2>1
  <2>8. MarksCounted'
    <3> SUFFICES ASSUME NEW x \in MarkKinds
                 PROVE  marks'[x] + Cardinality(Adding(x)') <= Cardinality(Adders)
      BY DEF MarksCounted
    <3>1. marks[x] + Cardinality(Adding(x)) <= Cardinality(Adders)
      BY DEF MarksCounted
    <3>2. CASE x = k
      BY <2>4, <2>5, <3>1, <3>2, AddersFinite
    <3>3. CASE x # k
      BY <2>3, <2>5, <3>1, <3>3
    <3> QED BY <3>2, <3>3
  <2>9. Found
    BY <2>1, <2>5
  <2> QED BY <2>6, <2>7, <2>8, <2>9
<1>5. ASSUME NEW m \in Models, DropFavorites(m)
      PROVE  MarksInv' /\ Found
  <2>1. /\ adder' = adder
        /\ marks' = [k \in MarkKinds |-> IF k.kind = "favorite" /\ k.model = m THEN 0 ELSE marks[k]]
    BY <1>5 DEF DropFavorites
  <2>2. \A x \in MarkKinds : /\ marks'[x] \in Nat /\ marks'[x] <= marks[x]
                            /\ Adding(x)' = Adding(x)
    BY <2>1 DEF Adding
  <2>3. MarksCounted'
    BY <2>2, AddersFinite DEF MarksCounted
  <2> QED BY <2>1, <2>2, <2>3
<1>6. CASE DropAdders
  <2>1. adder' = [c \in Adders |-> NoMark] /\ marks' = marks
    BY <1>6 DEF DropAdders
  <2>2. \A x \in MarkKinds : Adding(x)' = {}
    BY <2>1, MarksAssumption DEF Adding
  <2>3. MarksCounted'
    BY <2>1, <2>2, AddersFinite, FS_EmptySet DEF MarksCounted
  <2> QED BY <2>1, <2>3
<1> QED BY <1>1, <1>2, <1>3, <1>4, <1>5, <1>6 DEF MarksNext

----------------------------------------------------------------------------
(* References *)

\* What refers to a model finds it.
RefsKept ==
  /\ Referring \subseteq ToSet(models)
  /\ \A k \in MarkKinds : marks[k] > 0 => k.model \in ToSet(models)

\* A request keeps its model, and is made for one that is there.
LEMMA RequestsKeepModels ==
  ASSUME ApprovalsInv, ApprovalsNext
  PROVE  \A i \in Approvals :
           approval'[i].st # "none" =>
             \/ approval[i].st # "none" /\ approval'[i].model = approval[i].model
             \/ approval'[i].model \in ToSet(models)
<1> DEFINE Kept == \A i \in Approvals :
                     approval'[i].st # "none" =>
                       \/ approval[i].st # "none" /\ approval'[i].model = approval[i].model
                       \/ approval'[i].model \in ToSet(models)
<1> USE DEF ApprovalsInv, ApprovalsTypeOK
<1>1. CASE UNCHANGED approvalVars \/ DropDecisions
  BY <1>1 DEF approvalVars, DropDecisions
<1>2. ASSUME NEW c \in Deciders, NEW i \in Approvals, NEW m \in ToSet(models),
             NEW level \in {"l1", "l2", "l3"}, Submit(c, i, m, level)
      PROVE  Kept
  BY <1>2 DEF Submit, NewRequest
<1>3. ASSUME NEW c \in Deciders, NEW i \in Approvals, NEW verb, NEW who, Begin(c, verb, i, who)
      PROVE  Kept
  BY <1>3 DEF Begin
<1>4. ASSUME NEW c \in Deciders, WriteApprove(c) \/ WriteReject(c)
      PROVE  Kept
  <2> DEFINE x == decider[c].id
  <2>1. x \in Approvals /\ approval[x].st # "none"
    BY <1>4 DEF WriteApprove, WriteReject, DecidersTrue
  <2>2. PICK st, hist : \/ approval' = [approval EXCEPT ![x].st = st, ![x].signers = hist]
                        \/ approval' = [approval EXCEPT ![x].st = st]
    BY <1>4, ZenonT(60) DEF WriteApprove, WriteReject
  <2> HIDE DEF x
  <2>3. approval'[x].model = approval[x].model
    BY <2>1, <2>2
  <2>4. \A i \in Approvals \ {x} : approval'[i] = approval[i]
    BY <2>1, <2>2
  <2> QED BY <2>1, <2>3, <2>4
<1> QED BY <1>1, <1>2, <1>3, <1>4 DEF ApprovalsNext

\* The foreign keys of approval requests and locks keep a model; its favorites
\* go with it.
LEMMA RefsStep ==
  ASSUME Rows, BackupTypes, MarksInv, ApprovalsInv, RefsKept, [Next]_vars
  PROVE  RefsKept'
<1>1. RowsKept
  BY RowsStep
<1>2. \A k \in MarkKinds : marks'[k] > 0 => marks[k] > 0 \/ k.model \in ToSet(models)
  BY MarksSteps, MarksStep
<1>3. \A i \in Approvals :
        approval'[i].st # "none" => \/ approval[i].st # "none" /\ approval'[i].model = approval[i].model
                                   \/ approval'[i].model \in ToSet(models)
  BY ApprovalsSteps, RequestsKeepModels
<1>4. Referring' \subseteq ToSet(models)
  BY <1>3 DEF Referring, RefsKept
<1>5. ASSUME NEW m \in ToSet(models) \ ToSet(models')
      PROVE  m \notin Referring' /\ \A k \in MarkKinds : k.model = m => marks'[k] = 0
  <2>1. /\ m \notin Referring /\ m \notin Locked /\ approval' = approval
        /\ DropFavorites(m)
    BY <1>1, <1>5 DEF RowsKept, DeleteModel, approvalVars
  <2>2. Referring' = Referring
    BY <2>1 DEF Referring
  <2>3. ASSUME NEW k \in MarkKinds, k.model = m
        PROVE  marks'[k] = 0
    <3>1. marks'[k] = IF k.kind = "favorite" /\ k.model = m THEN 0 ELSE marks[k]
      BY <2>1 DEF DropFavorites
    <3>2. k.kind \in {"favorite", "lock"}
      BY CatalogAssumption
    <3>3. k.kind = "lock" => ~ (marks[k] > 0)
      BY <2>1, <2>3 DEF Locked
    <3>4. marks[k] \in Nat
      BY DEF MarksInv
    <3> QED BY <2>3, <3>1, <3>2, <3>3, <3>4
  <2> QED BY <2>1, <2>2, <2>3
<1>6. \A k \in MarkKinds : marks'[k] > 0 => k.model \in ToSet(models')
  BY <1>2, <1>5 DEF RefsKept
<1> QED BY <1>4, <1>5, <1>6 DEF RefsKept
----------------------------------------------------------------------------
(* Backups *)

BackupsNext ==
  \/ UNCHANGED <<backupVars, rowVars>>
  \/ Disturb
  \/ /\ ReadVersions(versions) \/ ReadPage(models) \/ Write \/ WriteBreaks
     /\ UNCHANGED rowVars
  \/ /\ \E i \in DOMAIN files : RestoreRead(files[i], models, versions)
     /\ UNCHANGED rowVars
  \/ /\ restore' = NotRestoring /\ UNCHANGED <<files, begun, completed>>
     /\ \/ backup' = [backup EXCEPT !.quiet = FALSE]
        \/ UNCHANGED <<backup, rowVars>>
  \/ StopBackup /\ UNCHANGED <<restore, rowVars>>

LEMMA BackupsSteps ==
  ASSUME [Next]_vars
  PROVE  BackupsNext
<1> USE DEF BackupsNext
<1>1. ASSUME NEW m \in Models, CreateModel(m) \/ UpdateModel(m) \/ AddVersion(m) \/ DeleteModel(m)
      PROVE  Disturb
  BY <1>1 DEF CreateModel, UpdateModel, AddVersion, DeleteModel
<1>2. CASE HookRequest \/ ApprovalRequest \/ Decide \/ MarkRequest \/ InsertMark
  BY <1>2 DEF HookRequest, ApprovalRequest, Decide, MarkRequest, InsertMark
<1>3. ASSUME NEW e \in Events, DispatchRaised(e)
      PROVE  UNCHANGED <<backupVars, rowVars>>
  BY <1>3 DEF DispatchRaised
<1>4. ASSUME NEW d \in DOMAIN delivery, DeliverStep(d)
      PROVE  UNCHANGED <<backupVars, rowVars>>
  BY <1>4 DEF DeliverStep
<1>5. CASE BackupStep
  BY <1>5 DEF BackupStep
<1>6. CASE BeginRestore
  BY <1>6 DEF BeginRestore
<1>7. CASE RestoreCommit \/ RestoreFails
  BY <1>7 DEF RestoreCommit, RestoreFails
<1>8. CASE Restart
  BY <1>8 DEF Restart
<1>9. CASE UNCHANGED vars
  BY <1>9 DEF vars
<1> QED BY <1>1, <1>2, <1>3, <1>4, <1>5, <1>6, <1>7, <1>8, <1>9 DEF Next

\* The versions in a backup are among those read, and their models are in it.
HeldTrue == backup.held \subseteq backup.versions /\ backup.held \subseteq ToSet(backup.models)

\* As long as no row changes, the pages read are the beginning of the list.
QuietPages ==
  backup.quiet /\ backup.pc # "asleep" =>
    /\ backup.versions = versions
    /\ backup.held = backup.versions \cap ToSet(backup.models)
    /\ backup.pc = "paging" =>
         /\ backup.page * PageSize <= Len(models)
         /\ backup.models = SubSeq(models, 1, backup.page * PageSize)
    /\ backup.pc = "writing" => backup.models = models

BackupsInv == BackupTypes /\ HeldTrue /\ QuietPages /\ BackupClosed /\ NewestWhole

\* The files as a set: a new one is added, the rotation drops old ones only.
LEMMA FilesAfterAppend ==
  ASSUME NEW S, NEW s \in Seq(S), NEW x \in S
  PROVE  Append(s, x) \in Seq(S) /\ ToSet(Append(s, x)) = ToSet(s) \cup {x}
<1> DEFINE r == Append(s, x)
<1>1. Len(s) \in Nat /\ DOMAIN s = 1 .. Len(s)
  BY LenProperties
<1>2. /\ r \in Seq(S) /\ Len(r) = Len(s) + 1
      /\ \A i \in 1 .. Len(s) : r[i] = s[i]
      /\ r[Len(s) + 1] = x
  BY AppendProperties
<1>3. DOMAIN r = 1 .. Len(s) + 1
  BY <1>2, LenProperties
<1> HIDE DEF r
<1>4. \A i \in DOMAIN r : i \in 1 .. Len(s) \/ i = Len(s) + 1
  BY <1>1, <1>3
<1>5. Len(s) + 1 \in DOMAIN r /\ \A i \in DOMAIN s : i \in DOMAIN r
  BY <1>1, <1>3
<1>6. ToSet(r) = ToSet(s) \cup {x}
  BY <1>1, <1>2, <1>4, <1>5 DEF ToSet
<1> QED BY <1>2, <1>6 DEF r

LEMMA FilesAfterRotation ==
  ASSUME NEW S, NEW s \in Seq(S), NEW x \in S
  PROVE  LET r == Rotate(Append(s, x))
         IN r \in Seq(S) /\ ToSet(r) \subseteq ToSet(s) \cup {x} /\ x \in ToSet(r)
<1> DEFINE a == Append(s, x)
           n == Len(s) + 1
<1>1. /\ Len(s) \in Nat /\ a \in Seq(S) /\ Len(a) = n /\ a[n] = x
      /\ ToSet(a) = ToSet(s) \cup {x}
  BY LenProperties, AppendProperties, FilesAfterAppend
<1>2. DOMAIN a = 1 .. n
  BY <1>1, LenProperties
<1> HIDE DEF a
<1>3. CASE n > MaxFiles
  <2> DEFINE m == n - MaxFiles + 1
             r == SubSeq(a, m, n)
  <2>1. m \in Nat \ {0} /\ n \in m - 1 .. Len(a) /\ n - m + 1 = MaxFiles /\ MaxFiles \in Nat \ {0}
    BY <1>1, <1>3, BackupsAssumption
  <2>2. /\ r \in Seq(S) /\ Len(r) = n - m + 1
        /\ \A i \in 1 .. n - m + 1 : r[i] = a[m + i - 1]
    BY <1>1, <2>1, SliceProperties
  <2>3. Rotate(a) = r
    BY <1>1, <1>3 DEF Rotate
  <2> HIDE DEF r
  <2>4. DOMAIN r = 1 .. MaxFiles
    BY <2>1, <2>2, LenProperties
  <2>5. \A i \in DOMAIN r : m + i - 1 \in DOMAIN a /\ r[i] = a[m + i - 1]
    BY <1>1, <1>2, <2>1, <2>2, <2>4, SMTT(30)
  <2>6. MaxFiles \in DOMAIN r /\ r[MaxFiles] = x
    <3>1. MaxFiles \in DOMAIN r /\ m + MaxFiles - 1 = n
      BY <1>1, <2>1, <2>4
    <3> QED BY <1>1, <2>5, <3>1
  <2> HIDE DEF m, n
  <2>7. ToSet(r) \subseteq ToSet(a) /\ x \in ToSet(r)
    BY <2>5, <2>6 DEF ToSet
  <2> QED BY <1>1, <2>2, <2>3, <2>7 DEF a
<1>4. CASE ~ (n > MaxFiles)
  <2>1. Rotate(a) = a
    BY <1>1, <1>4 DEF Rotate
  <2> QED BY <1>1, <2>1 DEF a
<1> QED BY <1>3, <1>4

\* The file a backup writes.
LEMMA FileOfBackup ==
  ASSUME BackupTypes, HeldTrue, backup.pc = "writing", NEW whole \in BOOLEAN
  PROVE  /\ File(whole) \in BackupFile
         /\ File(whole).n = begun /\ File(whole).whole = whole
         /\ File(whole).versions \subseteq ToSet(File(whole).models)
         /\ begun \in Nat \ {0}
BY DEF File, BackupTypes, BackupFile, BackupRow, HeldTrue

\* What the files owe, on their set.
FilesTrue(fs, b, c) ==
  /\ \A f \in fs : f.n \in 1..b /\ f.versions \subseteq ToSet(f.models)
  /\ c > 0 => \E f \in fs : f.whole /\ f.n >= c

LEMMA FilesAsSet ==
  ASSUME NEW fs \in Seq(BackupFile), NEW b, NEW c
  PROVE  FilesTrue(ToSet(fs), b, c) <=>
           /\ \A i \in DOMAIN fs : fs[i].n \in 1..b /\ fs[i].versions \subseteq ToSet(fs[i].models)
           /\ c > 0 => \E i \in DOMAIN fs : fs[i].whole /\ fs[i].n >= c
BY DEF FilesTrue, ToSet

\* Reading a page keeps the shape of what was read; while no row changes it adds
\* the next part of the list, and the last page completes it.
LEMMA PageRead ==
  ASSUME Rows, BackupsInv, ReadPage(models), UNCHANGED rowVars
  PROVE  BackupsInv'
<1> DEFINE b == backup
           at == b.page * PageSize
           stop == IF at + PageSize < Len(models) THEN at + PageSize ELSE Len(models)
           page == SubSeq(models, at + 1, stop)
           last == page = <<>> \/ at + PageSize >= Len(models)
<1>0. /\ models' = models /\ versions' = versions
      /\ files' = files /\ begun' = begun /\ completed' = completed /\ restore' = restore
  BY DEF ReadPage, rowVars
<1>1. /\ b \in BackupRow /\ b.pc = "paging" /\ b.page \in Nat /\ PageSize \in Nat \ {0}
      /\ models \in Seq(Models) /\ Len(models) \in Nat /\ b.models \in Seq(Models)
  BY BackupsAssumption, LenProperties DEF ReadPage, BackupsInv, BackupTypes, Rows, BackupRow
<1>2. at \in Nat /\ (b.page + 1) * PageSize = at + PageSize
  BY <1>1
<1>3. page \in Seq(Models)
  <2>1. at + 1 \in Int /\ stop \in Int /\ \A i \in at + 1 .. stop : models[i] \in Models
    <3>1. \A i \in 1 .. Len(models) : models[i] \in Models
      BY <1>1, LenProperties
    <3> HIDE DEF at
    <3> QED BY <1>1, <1>2, <3>1
  <2> HIDE DEF at, stop
  <2> QED BY <2>1, SubSeqProperties
<1>4. /\ backup'.models = b.models \o page
      /\ backup'.held = b.held \cup (b.versions \cap ToSet(page))
      /\ backup'.page = b.page + 1
      /\ backup'.pc = IF last THEN "writing" ELSE "paging"
      /\ backup'.versions = b.versions /\ backup'.quiet = b.quiet
      /\ backup' = [pc |-> backup'.pc, versions |-> b.versions, page |-> backup'.page,
                    models |-> backup'.models, held |-> backup'.held, quiet |-> b.quiet]
  <2>1. Page(models, b.page) = page
    BY <1>2 DEF Page
  <2>2. LastPage(b.page, Len(models)) <=> at + PageSize >= Len(models)
    BY <1>2 DEF LastPage
  <2> HIDE DEF page, at
  <2>3. backup' = [backup EXCEPT !.models = @ \o page,
                                 !.held = @ \cup (b.versions \cap ToSet(page)),
                                 !.page = @ + 1, !.pc = IF last THEN "writing" ELSE "paging"]
    BY <2>1, <2>2 DEF ReadPage, HeldOf
  <2> QED BY <1>1, <2>3 DEF BackupRow
<1> HIDE DEF at, stop, page, b
<1>5. /\ b.models \o page \in Seq(Models)
      /\ ToSet(b.models \o page) = ToSet(b.models) \cup ToSet(page)
  BY <1>1, <1>3, ConcatElements
<1>6. HeldTrue'
  BY <1>4, <1>5 DEF BackupsInv, HeldTrue, b
<1>7. BackupTypes'
  <2>1. backup' \in BackupRow
    <3>1. b.held \in SUBSET Models /\ b.versions \in SUBSET Models /\ b.quiet \in BOOLEAN
      BY <1>1 DEF BackupRow
    <3>2. backup'.pc \in {"asleep", "paging", "writing"} /\ backup'.page \in Nat
      BY <1>1, <1>4
    <3>3. backup'.models \in Seq(Models) /\ backup'.held \in SUBSET Models
      BY <1>4, <1>5, <3>1
    <3> QED BY <1>4, <3>1, <3>2, <3>3 DEF BackupRow
  <2> QED BY <1>0, <1>1, <2>1 DEF BackupsInv, BackupTypes, b
<1>8. QuietPages'
  <2> SUFFICES ASSUME b.quiet
               PROVE  /\ backup'.versions = versions'
                      /\ backup'.held = backup'.versions \cap ToSet(backup'.models)
                      /\ backup'.pc = "paging" =>
                           /\ backup'.page * PageSize <= Len(models')
                           /\ backup'.models = SubSeq(models', 1, backup'.page * PageSize)
                      /\ backup'.pc = "writing" => backup'.models = models'
    BY <1>4 DEF QuietPages
  <2>1. /\ b.versions = versions /\ b.held = b.versions \cap ToSet(b.models)
        /\ at <= Len(models) /\ b.models = SubSeq(models, 1, at)
    BY <1>1 DEF BackupsInv, QuietPages, b, at
  <2>2. stop \in at .. Len(models)
    BY <1>1, <1>2, <2>1 DEF stop
  <2>3. b.models \o page = SubSeq(models, 1, stop)
    <3>1. 1 \in 1 .. Len(models) + 1 /\ at \in 1 - 1 .. Len(models)
      BY <1>1, <1>2, <2>1
    <3> QED BY <1>1, <2>1, <2>2, <3>1, ConcatAdjacentSubSeq DEF page
  <2>4. last => stop = Len(models)
    <3>1. CASE page = <<>>
      <4>1. at + 1 \in Nat \ {0} /\ stop \in (at + 1) - 1 .. Len(models)
        BY <1>1, <1>2, <2>2
      <4>2. Len(page) = stop - (at + 1) + 1 /\ Len(page) = 0
        BY <1>1, <3>1, <4>1, SliceProperties, EmptySeq DEF page
      <4> QED BY <1>1, <1>2, <2>1, <4>2 DEF stop
    <3>2. CASE at + PageSize >= Len(models)
      BY <1>1, <1>2, <3>2 DEF stop
    <3> QED BY <3>1, <3>2
  <2>5. ~last => stop = at + PageSize /\ at + PageSize <= Len(models)
    BY <1>1, <1>2 DEF stop
  <2>6. backup'.page * PageSize = at + PageSize
    BY <1>2, <1>4 DEF b
  <2>7. SubSeq(models, 1, Len(models)) = models
    BY <1>1, SubSeqFull
  <2> QED BY <1>0, <1>4, <1>5, <2>1, <2>3, <2>4, <2>5, <2>6, <2>7
<1>9. BackupClosed' /\ NewestWhole'
  BY <1>0 DEF BackupsInv, BackupClosed, NewestWhole
<1> QED BY <1>6, <1>7, <1>8, <1>9 DEF BackupsInv
\* Every other step of the backups and the restore command.
LEMMA BackupsStep ==
  ASSUME Rows, BackupsInv, BackupsNext
  PROVE  BackupsInv'
<1> USE DEF BackupsInv
<1>1. CASE UNCHANGED <<backupVars, rowVars>>
  BY <1>1 DEF backupVars, rowVars, BackupTypes, HeldTrue, QuietPages, BackupClosed, NewestWhole
<1>2. ASSUME backup' = [backup EXCEPT !.quiet = FALSE], UNCHANGED <<files, begun, completed>>,
             restore' \in RestoreRow, IsFiniteSet(restore'.models)
      PROVE  BackupsInv'
  <2>1. /\ backup' \in BackupRow /\ backup'.quiet = FALSE /\ backup'.pc = backup.pc
        /\ backup'.held = backup.held /\ backup'.versions = backup.versions
        /\ backup'.models = backup.models
    BY <1>2 DEF BackupTypes, BackupRow
  <2>2. BackupTypes'
    BY <1>2, <2>1 DEF BackupTypes
  <2>3. HeldTrue' /\ QuietPages'
    BY <2>1 DEF HeldTrue, QuietPages
  <2> QED BY <1>2, <2>2, <2>3 DEF BackupClosed, NewestWhole
<1>3. NotRestoring \in RestoreRow /\ IsFiniteSet(NotRestoring.models)
  BY FS_EmptySet DEF NotRestoring, RestoreRow
<1>4. CASE Disturb
  BY <1>2, <1>4 DEF Disturb, BackupTypes
<1>5. CASE ReadVersions(versions) /\ UNCHANGED rowVars
  <2>1. /\ begun < MaxBackups /\ begun' = begun + 1
        /\ backup' = [pc |-> "paging", versions |-> versions, page |-> 0, models |-> <<>>,
                      held |-> {}, quiet |-> TRUE]
        /\ files' = files /\ completed' = completed /\ restore' = restore
        /\ models' = models /\ versions' = versions
    BY <1>5 DEF ReadVersions, rowVars
  <2>2. versions \in SUBSET Models /\ Len(models) \in Nat
    BY ElementsFinite, LenProperties DEF Rows
  <2>3. backup' \in BackupRow
    BY <2>1, <2>2 DEF BackupRow
  <2>4. BackupTypes'
    BY <2>1, <2>3, BackupsAssumption DEF BackupTypes
  <2>5. HeldTrue'
    BY <2>1 DEF HeldTrue
  <2>6. /\ 0 * PageSize = 0 /\ SubSeq(models, 1, 0) = <<>> /\ ToSet(<<>>) = {}
    BY BackupsAssumption, SubSeqEmpty DEF ToSet
  <2>7. QuietPages'
    BY <2>1, <2>2, <2>6 DEF QuietPages
  <2>8. BackupClosed' /\ NewestWhole'
    BY <2>1 DEF BackupClosed, NewestWhole
  <2> QED BY <2>4, <2>5, <2>7, <2>8
<1>6. CASE ReadPage(models) /\ UNCHANGED rowVars
  BY <1>6, PageRead
<1>7. Asleep \in BackupRow /\ Asleep.held = {} /\ Asleep.pc = "asleep"
  BY EmptySeq DEF Asleep, BackupRow
<1>8. ASSUME NEW whole \in BOOLEAN, backup.pc = "writing", backup' = Asleep, begun' = begun,
             restore' = restore,
             \/ completed' = completed /\ files' = Append(files, File(whole))
             \/ /\ whole = TRUE /\ completed' = begun
                /\ \/ files' = Rotate(Append(files, File(whole)))
                   \/ files' = Append(files, File(whole))
      PROVE  BackupsInv'
  <2> DEFINE f == File(whole)
  <2>1. /\ f \in BackupFile /\ f.n = begun /\ f.whole = whole
        /\ f.versions \subseteq ToSet(f.models) /\ begun \in Nat \ {0}
    BY <1>8, FileOfBackup
  <2>2. files \in Seq(BackupFile) /\ completed \in 0..begun /\ begun \in 0..MaxBackups
    BY DEF BackupTypes
  <2> HIDE DEF f
  <2>3. /\ files' \in Seq(BackupFile)
        /\ ToSet(files') \subseteq ToSet(files) \cup {f}
        /\ f \in ToSet(files')
        /\ \/ whole = TRUE /\ completed' = begun
           \/ completed' = completed /\ ToSet(files) \subseteq ToSet(files')
    <3>1. CASE files' = Append(files, f)
      <4>1. Append(files, f) \in Seq(BackupFile) /\ ToSet(Append(files, f)) = ToSet(files) \cup {f}
        BY <2>1, <2>2, FilesAfterAppend
      <4> QED BY <1>8, <3>1, <4>1
    <3>2. CASE files' = Rotate(Append(files, f)) /\ whole = TRUE /\ completed' = begun
      BY <2>1, <2>2, <3>2, FilesAfterRotation
    <3> QED BY <1>8, <3>1, <3>2 DEF f
  <2>4. FilesTrue(ToSet(files), begun, completed)
    BY <2>2, FilesAsSet DEF BackupTypes, BackupClosed, NewestWhole
  <2>5. FilesTrue(ToSet(files'), begun', completed')
    <3>1. \A g \in ToSet(files') : g.n \in 1..begun' /\ g.versions \subseteq ToSet(g.models)
      BY <1>8, <2>1, <2>3, <2>4 DEF FilesTrue
    <3>2. completed' > 0 => \E g \in ToSet(files') : g.whole /\ g.n >= completed'
      <4>1. CASE whole = TRUE /\ completed' = begun
        <5>1. f.whole
          BY <2>1, <4>1, Zenon
        <5>2. f.n >= completed'
          BY <2>1, <4>1
        <5> QED BY <2>3, <5>1, <5>2, Zenon
      <4>2. CASE completed' = completed /\ ToSet(files) \subseteq ToSet(files')
        BY <2>4, <4>2 DEF FilesTrue
      <4> QED BY <2>3, <4>1, <4>2
    <3> QED BY <3>1, <3>2 DEF FilesTrue
  <2>6. /\ \A i \in DOMAIN files' : files'[i].n \in 1..begun'
        /\ BackupClosed' /\ NewestWhole'
    BY <2>3, <2>5, FilesAsSet DEF BackupClosed, NewestWhole
  <2>7. BackupTypes'
    BY <1>7, <1>8, <2>1, <2>2, <2>3, <2>6 DEF BackupTypes
  <2>8. HeldTrue' /\ QuietPages'
    BY <1>7, <1>8 DEF HeldTrue, QuietPages
  <2> QED BY <2>6, <2>7, <2>8
<1>9. CASE Write \/ WriteBreaks
  BY <1>8, <1>9 DEF Write, WriteBreaks
<1>10. CASE StopBackup /\ UNCHANGED <<restore, rowVars>>
  <2>1. CASE backup.pc = "writing"
    <3>1. PICK whole \in BOOLEAN : files' = Append(files, File(whole))
      BY <1>10, <2>1 DEF StopBackup
    <3> QED BY <1>8, <1>10, <2>1, <3>1 DEF StopBackup
  <2>2. CASE backup.pc # "writing"
    <3>1. /\ backup' = Asleep /\ files' = files /\ begun' = begun /\ completed' = completed
          /\ restore' = restore
      BY <1>10, <2>2 DEF StopBackup
    <3>2. BackupTypes'
      BY <1>7, <3>1 DEF BackupTypes
    <3>3. HeldTrue' /\ QuietPages'
      BY <1>7, <3>1 DEF HeldTrue, QuietPages
    <3> QED BY <3>1, <3>2, <3>3 DEF BackupClosed, NewestWhole
  <2> QED BY <2>1, <2>2
<1>11. ASSUME NEW i \in DOMAIN files, RestoreRead(files[i], models, versions), UNCHANGED rowVars
       PROVE  BackupsInv'
  <2> DEFINE f == files[i]
  <2>1. /\ restore' = [pc |-> "read", n |-> f.n,
                       models |-> ToSet(f.models) \ ToSet(models),
                       versions |-> f.versions \ versions]
        /\ UNCHANGED <<backup, files, begun, completed, models, versions>>
    BY <1>11 DEF RestoreRead, rowVars
  <2>2. f \in BackupFile
    BY LenProperties DEF BackupTypes
  <2>3. /\ IsFiniteSet(ToSet(f.models)) /\ ToSet(f.models) \subseteq Models
        /\ f.n \in Nat /\ f.versions \in SUBSET Models
    BY <2>2, ElementsFinite DEF BackupFile
  <2>4. ToSet(f.models) \ ToSet(models) \in SUBSET ToSet(f.models)
    OBVIOUS
  <2> HIDE DEF f
  <2>5. restore' \in RestoreRow /\ IsFiniteSet(restore'.models)
    BY <2>1, <2>3, <2>4, FS_Subset DEF RestoreRow
  <2>6. BackupTypes'
    BY <2>1, <2>5 DEF BackupTypes
  <2> QED BY <2>1, <2>6 DEF HeldTrue, QuietPages, BackupClosed, NewestWhole
<1>12. ASSUME restore' = NotRestoring, UNCHANGED <<files, begun, completed>>,
              backup' = backup, UNCHANGED rowVars
       PROVE  BackupsInv'
  <2>1. BackupTypes'
    BY <1>3, <1>12 DEF BackupTypes
  <2> QED BY <1>12, <2>1 DEF HeldTrue, QuietPages, BackupClosed, NewestWhole, rowVars
<1>13. ASSUME restore' = NotRestoring, UNCHANGED <<files, begun, completed>>,
              backup' = [backup EXCEPT !.quiet = FALSE]
       PROVE  BackupsInv'
  BY <1>2, <1>3, <1>13
<1> QED BY <1>1, <1>4, <1>5, <1>6, <1>9, <1>10, <1>11, <1>12, <1>13 DEF BackupsNext

----------------------------------------------------------------------------
(* The invariants *)

CatalogInv ==
  /\ Rows /\ BackupsInv /\ ApprovalsInv
  /\ HooksInv /\ EventsKnown
  /\ MarksInv /\ RefsKept

LEMMA CatalogStep == CatalogInv /\ [Next]_vars => CatalogInv'
<1> SUFFICES ASSUME CatalogInv, [Next]_vars
             PROVE  CatalogInv'
  OBVIOUS
<1> USE DEF CatalogInv
<1>1. Rows'
  BY RowsStep DEF BackupsInv
<1>2. BackupsInv'
  BY BackupsSteps, BackupsStep
<1>3. ToSet(models) \subseteq Models
  BY ElementsFinite DEF Rows
<1>4. ApprovalsInv'
  BY <1>3, ApprovalsSteps, ApprovalsStep
<1>5. HooksInv'
  BY HooksSteps, HooksStep
<1>6. EventsKnown'
  BY EventsStep DEF BackupsInv
<1>7. MarksInv'
  BY MarksSteps, MarksStep
<1>8. RefsKept'
  BY RefsStep DEF BackupsInv
<1> QED BY <1>1, <1>2, <1>4, <1>5, <1>6, <1>7, <1>8

LEMMA CatalogStart == Init => CatalogInv
<1> SUFFICES ASSUME Init
             PROVE  CatalogInv
  OBVIOUS
<1>1. Rows
  BY CatalogAssumption, ElementsFinite DEF Init, Rows
<1>2. BackupsInv
  <2>1. /\ backup = Asleep /\ files = <<>> /\ begun = 0 /\ completed = 0
        /\ restore = NotRestoring
    BY DEF Init, BackupsInit
  <2>2. Asleep \in BackupRow /\ Asleep.held = {} /\ Asleep.pc = "asleep"
    BY EmptySeq DEF Asleep, BackupRow
  <2>3. NotRestoring \in RestoreRow /\ IsFiniteSet(NotRestoring.models)
    BY FS_EmptySet DEF NotRestoring, RestoreRow
  <2>4. files \in Seq(BackupFile) /\ DOMAIN files = {}
    BY <2>1
  <2>5. BackupTypes
    BY <2>1, <2>2, <2>3, <2>4, BackupsAssumption DEF BackupTypes
  <2> QED BY <2>1, <2>2, <2>4, <2>5 DEF BackupsInv, HeldTrue, QuietPages, BackupClosed, NewestWhole
<1>3. ApprovalsInv
  BY FS_EmptySet DEF Init, ApprovalsInit, NoApproval, NotDeciding, ApprovalsInv, ApprovalsTypeOK,
                     DecidersTrue, SignersTrue, SignedByQuorum
<1>4. HooksInv
  BY WebhooksAssumption
     DEF Init, HooksInit, NoHook, NoTask, HooksInv, HooksTypeOK, SentTrue, TriesLeft
<1>5. EventsKnown
  BY DEF Init, HooksInit, NoTask, EventsKnown
<1>6. MarksInv
  <2>1. \A k \in MarkKinds : Adding(k) = {}
    BY MarksAssumption DEF Init, MarksInit, Adding
  <2> QED BY <2>1, AddersFinite, FS_EmptySet DEF Init, MarksInit, MarksInv, MarksCounted
<1>7. RefsKept
  BY DEF Init, ApprovalsInit, NoApproval, MarksInit, RefsKept, Referring
<1> QED BY <1>1, <1>2, <1>3, <1>4, <1>5, <1>6, <1>7 DEF CatalogInv

LEMMA CatalogInductive == Spec => []CatalogInv
BY CatalogStart, CatalogStep, PTL DEF Spec

\* An l3 request reads approved only after a quorum of distinct people approved
\* it, whatever the calls in flight had read when they wrote, unless one of them
\* has a name with a comma (approve_request).
THEOREM QuorumAlwaysReal == Spec => []SignedByQuorum
<1>1. CatalogInv => SignedByQuorum
  BY DEF CatalogInv, ApprovalsInv
<1> QED BY <1>1, CatalogInductive, PTL

\* A whole backup as new as the last one that completed is there, each file can
\* be restored as far as its versions are concerned, and a backup during which no
\* row changed holds the tables.
THEOREM BackupsAlwaysTrue == Spec => []BackupsTrue
<1>1. CatalogInv => BackupsTrue
  BY DEF CatalogInv, BackupsInv, BackupsTrue, QuietPages, QuietWhole, Rows
<1> QED BY <1>1, CatalogInductive, PTL

\* Every variable keeps its type, events tell what was committed to webhooks that
\* may know of it, and what refers to a model finds it.
THEOREM CatalogAlwaysTrue == Spec => []CatalogTrue
<1>1. CatalogInv => CatalogTrue
  <2> SUFFICES ASSUME CatalogInv
               PROVE  CatalogTrue
    OBVIOUS
  <2> USE DEF CatalogInv
  <2>1. HooksTypeOK /\ ApprovalsTypeOK
    BY DEF HooksInv, ApprovalsInv
  <2>2. BackupsTypeOK
    <3>1. \A i \in DOMAIN files : files[i] \in BackupFile
      BY LenProperties DEF BackupsInv, BackupTypes
    <3>2. \A i \in DOMAIN files : files[i].n \in 1..begun /\ files[i].whole \in BOOLEAN
      BY <3>1 DEF BackupsInv, BackupTypes, BackupFile
    <3>3. /\ backup.pc \in {"asleep", "paging", "writing"} /\ backup.quiet \in BOOLEAN
          /\ restore.pc \in {"none", "read"}
      BY DEF BackupsInv, BackupTypes, BackupRow, RestoreRow
    <3>4. /\ backup.held \subseteq backup.versions
          /\ begun \in 0..MaxBackups /\ completed \in 0..begun
      BY DEF BackupsInv, BackupTypes, HeldTrue
    <3> QED BY <3>2, <3>3, <3>4 DEF BackupsTypeOK
  <2>3. MarksTypeOK
    BY AddersFinite DEF MarksInv, MarksCounted, MarksTypeOK
  <2>4. TypeOK
    BY <2>1, <2>2, <2>3, ElementsFinite DEF Rows, TypeOK
  <2>5. EventsTrue
    <3>1. \A d \in DOMAIN delivery : d = <<d[1], d[2]>> /\ d[1] \in Hooks /\ d[2] \in Events
      BY <2>1 DEF HooksTypeOK
    <3> QED BY <3>1 DEF EventsTrue, EventsKnown, HooksInv, SentTrue
  <2>6. ReferencesTrue
    BY DEF ReferencesTrue, RefsKept, MarksInv, MarksCounted
  <2> QED BY <2>4, <2>5, <2>6 DEF CatalogTrue
<1> QED BY <1>1, CatalogInductive, PTL
=============================================================================
