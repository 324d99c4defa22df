------------------------------- MODULE HubSync -------------------------------
(***************************************************************************)
(* The model registry of a hub and everything that adds models to it or    *)
(* takes them away: creation and import from a model market                *)
(* (server/routers/models.py), registry sync, pull, and the receiving end  *)
(* of a push (server/routers/sync.py), import of an export                 *)
(* (server/routers/system.py), import of a tar (server/routers/versions.py)*)
(* and deletion.  Other hubs are seen through what they answer and send.   *)
(*                                                                         *)
(* A model is its id, which differs from every id of another hub; requests *)
(* find it by name and then hold on to the id over their awaits.  An id    *)
(* without a row, a file or a request that knows it stands for a new one.  *)
(* The content of a version of another hub is <<name, label>>: a label is  *)
(* written once.                                                           *)
(***************************************************************************)
EXTENDS Naturals, Sequences, FiniteSets, SequencesExt, FiniteSetsExt

CONSTANTS Names, Labels,
          Remote,    \* <<name, label>> of what other hubs may have
          Local,     \* the content of what is uploaded at this hub
          Slots,     \* requests in flight
          MaxIds,    \* bound: models, and deleted models that left a trace
          LocalPage, \* crud.MAX_PAGE_SIZE
          NoName

ASSUME HubSyncAssumption ==
  /\ MaxIds \in Nat \ {0} /\ LocalPage \in Nat \ {0}
  /\ IsFiniteSet(Names) /\ IsFiniteSet(Labels)
  /\ NoName \notin Names /\ Local \notin Names /\ Remote \subseteq Names \X Labels

VARIABLES source, \* <<name, label>> of the versions the other hubs have
          name,   \* models, by id
          rows,   \* model_versions, by model id and label
          disk,   \* the file in the directory of a version
          req     \* the request in each slot

syncVars == <<source, name, rows, disk, req>>

Ids        == 1..MaxIds
NoBytes    == <<>>
Garbled    == <<"garbled">>  \* a stream that was cut off, or two writers
Own        == {<<Local, l>> : l \in Labels}
Whole      == (Names \X Labels) \cup Own
Content    == {NoBytes, Garbled} \cup Whole
NoVersion  == [there |-> FALSE, file |-> NoBytes]
VersionRow == [there : {TRUE}, file : {NoBytes} \cup Whole]
Idle    == [kind |-> "idle", at |-> "idle", name |-> NoName, id |-> 0, todo |-> <<>>,
            made |-> {}, clean |-> TRUE]

Taken(n) == \E i \in Ids : name[i] = n
\* Mutant: any model will do.
IdOfAny(n) == CHOOSE i \in Ids : name[i] # NoName

IdOf(n) == CHOOSE i \in Ids : name[i] = n
Used    == {i \in Ids : name[i] # NoName}

\* The points a request of each kind passes.
Points(kind) ==
  CASE kind = "idle"               -> {"idle"}
    [] kind \in {"create", "import"} -> {"check", "insert"}
    [] kind = "market"             -> {"check", "insert", "market"}
    [] kind = "sync"               -> {"insert"}
    [] kind = "tar"                -> {"check", "insert", "extract", "rows", "answer"}
    [] kind = "pull"               -> {"check", "insert", "row", "open", "write", "record", "answer"}
    [] kind = "receive"            -> {"known", "check", "insert", "open", "write", "record",
                                       "find", "update", "answer"}
    [] kind = "delete"             -> {"files", "delete"}

Kinds == {"idle", "create", "import", "market", "sync", "tar", "pull", "receive", "delete"}

AllPoints == {"idle", "known", "check", "insert", "market", "extract", "rows", "row", "open",
              "write", "record", "find", "update", "answer", "files", "delete"}

\* The file is written, and its row not yet.
Recording == {"record", "find", "update"}
Streaming == {"open", "write"} \cup Recording

\* todo: the names, labels or ids that are left, the one in hand included
\* but for a list of names.
SyncRequest ==
  {r \in [kind : Kinds, at : AllPoints, name : Names \cup {NoName},
          id : 0..MaxIds, todo : Seq(Names) \cup Seq(Labels) \cup Seq(Ids),
          made : SUBSET Labels, clean : BOOLEAN] :
     /\ r.at \in Points(r.kind)
     /\ r.kind \notin {"idle", "delete"} => r.name \in Names
     /\ r.id = 0 <=> r.at \in {"idle", "known", "check", "insert", "files", "delete"}
     /\ r.kind \in {"import", "sync"} => r.todo \in Seq(Names)
     /\ r.kind \in {"tar", "pull", "receive"} => r.todo \in Seq(Labels)
     /\ r.kind = "delete" => r.todo \in Seq(Ids)
     /\ r.todo = <<>> => r.kind \notin {"receive", "delete"} /\ r.at # "rows"
                         /\ (r.kind = "pull" => r.at = "answer")
     /\ r.kind = "pull" /\ r.at \in Streaming => Head(r.todo) \in r.made}

\* The name is unique, and the rows of a model are deleted with it.
SyncTypeOK ==
  /\ source \subseteq Remote
  /\ name \in [Ids -> Names \cup {NoName}]
  /\ \A i, j \in Used : name[i] = name[j] => i = j
  /\ rows \in [Ids -> [Labels -> VersionRow \cup {NoVersion}]]
  /\ \A i \in Ids \ Used, l \in Labels : rows[i][l] = NoVersion
  /\ disk \in [Ids -> [Labels -> Content]]
  /\ req \in [Slots -> SyncRequest]

SyncInit ==
  /\ source = {}
  /\ name = [i \in Ids |-> NoName]
  /\ rows = [i \in Ids |-> [l \in Labels |-> NoVersion]]
  /\ disk = [i \in Ids |-> [l \in Labels |-> NoBytes]]
  /\ req = [s \in Slots |-> Idle]

-----------------------------------------------------------------------------
(* Requests                                                                *)

Done(s) == [req EXCEPT ![s] = Idle]

Start(s, kind, at, n, todo) ==
  /\ req[s] = Idle
  /\ req' = [req EXCEPT ![s] = [kind |-> kind, at |-> at, name |-> n, id |-> 0, todo |-> todo,
                                made |-> {}, clean |-> TRUE]]
  /\ UNCHANGED <<source, name, rows, disk>>

RemoteNames     == {v[1] : v \in source}
RemoteLabels(n) == {l \in Labels : <<n, l>> \in source}

\* POST /models: one name.
CreateModel(s) == \E n \in Names : Start(s, "create", "check", n, <<>>)

\* POST /models/import/hf: one name, whose files may be downloaded as well.
ImportHf(s) == \E n \in Names : Start(s, "market", "check", n, <<>>)

\* POST /system/import, also the first half of a push: a list of names.
ImportData(s) ==
  \E ns \in SUBSET RemoteNames :
    LET todo == SetToSeq(ns)
    IN ns # {} /\ Start(s, "import", "check", Head(todo), Tail(todo))

\* POST /models/import-tar: what another hub exported of one model.
ImportTar(s) ==
  \E n \in RemoteNames : Start(s, "tar", "check", n, SetToSeq(RemoteLabels(n)))

\* POST /models/sync: the names the other hub lists that no model of the first
\* page of this hub has.
SyncRegistry(s) ==
  \E page \in SUBSET Used :
    LET fresh == RemoteNames \ {name[i] : i \in page}
        todo  == SetToSeq(fresh)
    IN /\ Cardinality(page) = Min({LocalPage, Cardinality(Used)})
       /\ fresh # {} /\ Start(s, "sync", "insert", Head(todo), Tail(todo))

\* POST /sync/pull: the list of versions is the one of this moment; the
\* request may ask for some of them only.
Pull(s) ==
  \E n \in RemoteNames : \E ls \in SUBSET RemoteLabels(n) :
    ls # {} /\ Start(s, "pull", "check", n, SetToSeq(ls))

\* POST /sync/receive: one version of a push from another hub.
Receive(s) == \E v \in source : Start(s, "receive", "known", v[1], <<v[2]>>)

\* On to the next name of the list, or to the end.
NextName(r, at) ==
  IF r.todo = <<>> THEN Idle
  ELSE [r EXCEPT !.at = at, !.name = Head(r.todo), !.todo = Tail(r.todo)]

\* A push looks for the id the model has at the other hub.  A hub whose database
\* is a copy of this one's has it too, and an id never changes its name.
LookUpId(s) ==
  LET r == req[s]
  IN /\ r.at = "known"
     /\ \/ req' = [req EXCEPT ![s].at = "check"]
        \/ /\ Taken(r.name)
           /\ req' = [req EXCEPT ![s].at = "open", ![s].id = IdOf(r.name)]
     /\ UNCHANGED <<source, name, rows, disk>>

\* get_model_by_name: a name that is taken is a 409, skipped, or what is sought.
LookUp(s) ==
  LET r == req[s]
  IN /\ r.at = "check"
     /\ req' = [req EXCEPT ![s] =
          IF ~Taken(r.name) THEN [r EXCEPT !.at = "insert"]
          ELSE CASE r.kind \in {"create", "market", "tar"} -> Idle
                 [] r.kind = "import"  -> NextName(r, "check")
                 [] r.kind = "pull"    -> [r EXCEPT !.at = "row", !.id = IdOf(r.name)]
                 [] r.kind = "receive" -> [r EXCEPT !.at = "open", !.id = IdOf(r.name)]]
     /\ UNCHANGED <<source, name, rows, disk>>

\* What a request does with the model it has created.
Created(r, i) ==
  CASE r.kind = "create"  -> Idle
    [] r.kind = "market"  -> [r EXCEPT !.at = "market", !.id = i]
    [] r.kind = "import"  -> NextName(r, "check")
    [] r.kind = "sync"    -> NextName(r, "insert")
    [] r.kind = "tar"     -> [r EXCEPT !.at = "extract", !.id = i]
    [] r.kind = "pull"    -> [r EXCEPT !.at = "row", !.id = i]
    [] r.kind = "receive" -> [r EXCEPT !.at = "open", !.id = i]

FreshIds ==
  {i \in Ids : /\ name[i] = NoName
               /\ disk[i] = [l \in Labels |-> NoBytes]
               /\ \A s \in Slots : req[s].id # i}

\* create_model: a name that was taken since the check is a 500, and what is
\* left of the list is not looked at.
Insert(s) ==
  LET r == req[s]
      i == CHOOSE i \in FreshIds : TRUE
  IN /\ r.at = "insert" /\ FreshIds # {}
     /\ IF Taken(r.name) THEN req' = Done(s) /\ UNCHANGED name
        ELSE /\ name' = [name EXCEPT ![i] = r.name]
             /\ req' = [req EXCEPT ![s] = Created(r, i)]
     /\ UNCHANGED <<source, rows, disk>>

-----------------------------------------------------------------------------
(* Versions                                                                *)

\* POST /models/{id}/versions and its like: a row and its file (Uploads has
\* the steps); a label that is taken is refused.
UploadVersion(i, l) ==
  /\ name[i] # NoName /\ ~rows[i][l].there /\ disk[i][l] = NoBytes
  /\ rows' = [rows EXCEPT ![i][l] = [there |-> TRUE, file |-> <<Local, l>>]]
  /\ disk' = [disk EXCEPT ![i][l] = <<Local, l>>]
  /\ UNCHANGED <<source, name, req>>

\* The others learn that the file of a version has changed under them.
Disturb(q, i, l) ==
  [x \in Slots |-> IF q[x].id = i /\ q[x].at \in {"write"} \cup Recording /\ Head(q[x].todo) = l
                    THEN [q[x] EXCEPT !.clean = FALSE] ELSE q[x]]

\* The next label of a pull; when there is none the request is answered.
NextLabel(r) == [r EXCEPT !.todo = Tail(@), !.at = IF Len(r.todo) = 1 THEN "answer" ELSE "row",
                          !.clean = TRUE]

\* Mutant: a pull takes over a version that is there.
PullRowOver(s) ==
  LET r == req[s]
      l == Head(r.todo)
  IN /\ r.kind = "pull" /\ r.at = "row"
     /\ IF name[r.id] = NoName THEN req' = Done(s) /\ UNCHANGED rows
        ELSE /\ rows' = [rows EXCEPT ![r.id][l].there = TRUE]
             /\ req' = [req EXCEPT ![s].at = "open",
                          ![s].made = IF rows[r.id][l].there THEN @ ELSE @ \cup {l}]
     /\ UNCHANGED <<source, name, disk>>

\* Pull creates the row before there is a file.  A label that has a row ends
\* the request with a 500 (the handler of the conflict reads the id of a model
\* that the rollback has expired), and so does a model that is gone.
PullRow(s) ==
  LET r == req[s]
      l == Head(r.todo)
  IN /\ r.kind = "pull" /\ r.at = "row"
     /\ IF name[r.id] = NoName \/ rows[r.id][l].there THEN req' = Done(s) /\ UNCHANGED rows
        ELSE /\ rows' = [rows EXCEPT ![r.id][l].there = TRUE]
             /\ req' = [req EXCEPT ![s].at = "open", ![s].made = @ \cup {l}]
     /\ UNCHANGED <<source, name, disk>>

\* A stream to a file, of a pull or of a push: open truncates it.  The remote
\* may refuse the download of a pull, which then goes on to the next label.
Open(s) ==
  LET r == req[s]
      l == Head(r.todo)
  IN /\ r.at = "open"
     /\ \/ /\ disk' = [disk EXCEPT ![r.id][l] = Garbled]
           /\ req' = [Disturb(req, r.id, l) EXCEPT ![s] =
                        [r EXCEPT !.at = "write", !.clean = ~\E x \in Slots \ {s} :
                            req[x].id = r.id /\ req[x].at = "write" /\ Head(req[x].todo) = l]]
        \/ /\ r.kind = "pull"
           /\ req' = [req EXCEPT ![s] = NextLabel(r)]
           /\ UNCHANGED disk
     /\ UNCHANGED <<source, name, rows>>

\* The stream comes to its end, is mixed with that of another writer of the
\* path, or goes where nobody looks when the file was removed.
Write(s) ==
  LET r == req[s]
      l == Head(r.todo)
  IN /\ r.at = "write"
     /\ \E c \in IF r.clean THEN {<<r.name, l>>} ELSE {<<r.name, l>>, Garbled, disk[r.id][l]} :
          disk' = [disk EXCEPT ![r.id][l] = c]
     /\ req' = [Disturb(req, r.id, l) EXCEPT ![s] = [r EXCEPT !.at = "record"]]
     /\ UNCHANGED <<source, name, rows>>

\* The stream breaks off or grows too large: the path is unlinked and the
\* request fails, but for a transport error of a pull, which is logged.
WriteFails(s) ==
  LET r == req[s]
      l == Head(r.todo)
  IN /\ r.at = "write"
     /\ disk' = [disk EXCEPT ![r.id][l] = NoBytes]
     /\ \E next \in {Idle} \cup (IF r.kind = "pull" THEN {NextLabel(r)} ELSE {}) :
          req' = [Disturb(req, r.id, l) EXCEPT ![s] = next]
     /\ UNCHANGED <<source, name, rows>>

\* update_version by the id of the row that the pull made: a row that is gone
\* stays gone.
PullRecord(s) ==
  LET r == req[s]
      l == Head(r.todo)
  IN /\ r.kind = "pull" /\ r.at = "record"
     /\ rows' = IF rows[r.id][l].there THEN [rows EXCEPT ![r.id][l].file = <<r.name, l>>] ELSE rows
     /\ req' = [req EXCEPT ![s] = NextLabel(r)]
     /\ UNCHANGED <<source, name, disk>>

\* 200; versions_pulled counts the rows.
Answer(s) ==
  /\ req[s].at = "answer"
  /\ req' = Done(s)
  /\ UNCHANGED <<source, name, rows, disk>>

\* The row of a push is created.  A model that has gone is an error over a file
\* nobody owns; a label that is taken is rolled back.
ReceiveRecord(s) ==
  LET r == req[s]
      l == Head(r.todo)
  IN /\ r.kind = "receive" /\ r.at = "record"
     /\ IF name[r.id] = NoName THEN req' = Done(s) /\ UNCHANGED rows
        ELSE IF rows[r.id][l].there THEN req' = [req EXCEPT ![s].at = "find"] /\ UNCHANGED rows
        ELSE /\ rows' = [rows EXCEPT ![r.id][l] = [there |-> TRUE, file |-> <<r.name, l>>]]
             /\ req' = [req EXCEPT ![s].at = "answer"]
     /\ UNCHANGED <<source, name, disk>>

\* _find_version_by_label: the row may have gone with its model, which is a 409.
ReceiveFind(s) ==
  LET r == req[s]
  IN /\ r.at = "find"
     /\ req' = IF rows[r.id][Head(r.todo)].there THEN [req EXCEPT ![s].at = "update"] ELSE Done(s)
     /\ UNCHANGED <<source, name, rows, disk>>

\* update_version by the id of that row.  One that has gone since is not updated:
\* a 200 all the same, or a 500 if it went between the SELECT and the commit.
ReceiveUpdate(s) ==
  LET r == req[s]
      l == Head(r.todo)
  IN /\ r.at = "update"
     /\ IF rows[r.id][l].there
          THEN /\ rows' = [rows EXCEPT ![r.id][l].file = <<r.name, l>>]
               /\ req' = [req EXCEPT ![s].at = "answer"]
          ELSE /\ UNCHANGED rows
               /\ req' \in {Done(s), [req EXCEPT ![s].at = "answer"]}
     /\ UNCHANGED <<source, name, disk>>

\* The members of a tar are written on a thread ...
TarExtract(s) ==
  LET r == req[s]
  IN /\ r.at = "extract"
     /\ disk' = [disk EXCEPT ![r.id] = [l \in Labels |->
                   IF l \in ToSet(r.todo) THEN <<r.name, l>> ELSE @[l]]]
     /\ req' = [req EXCEPT ![s].at = IF r.todo = <<>> THEN "answer" ELSE "rows"]
     /\ UNCHANGED <<source, name, rows>>

\* ... and then a row for each, without a file_path; a conflict ends in a 500.
TarRow(s) ==
  LET r == req[s]
      l == Head(r.todo)
      next == [r EXCEPT !.todo = Tail(@), !.at = IF Len(r.todo) = 1 THEN "answer" ELSE "rows",
                        !.made = @ \cup {l}]
  IN /\ r.at = "rows"
     /\ IF name[r.id] # NoName /\ rows[r.id][l].there THEN req' = Done(s) /\ UNCHANGED rows
        ELSE /\ rows' = IF name[r.id] = NoName THEN rows
                         ELSE [rows EXCEPT ![r.id][l].there = TRUE]
             /\ req' = [req EXCEPT ![s] = next]
     /\ UNCHANGED <<source, name, disk>>

\* The download of a market import, kept outside the directory of the model:
\* it becomes a version if it succeeds and the model and the label are free.
MarketRow(s) ==
  LET r == req[s]
  IN /\ r.at = "market"
     /\ \/ UNCHANGED rows
        \/ \E l \in Labels :
             /\ name[r.id] # NoName /\ ~rows[r.id][l].there
             /\ rows' = [rows EXCEPT ![r.id][l] = [there |-> TRUE, file |-> <<r.name, l>>]]
     /\ req' = Done(s)
     /\ UNCHANGED <<source, name, disk>>

-----------------------------------------------------------------------------
(* DELETE /models/{id}, POST /models/batch/delete                          *)

DeleteStart(s) ==
  \E is \in SUBSET Used :
    is # {} /\ Start(s, "delete", "files", NoName, SetToSeq(is))

\* The model is looked up, its directory removed ...
DeleteFiles(s) ==
  LET r == req[s]
      i == Head(r.todo)
  IN /\ r.at = "files"
     /\ IF name[i] = NoName
          THEN /\ req' = [req EXCEPT ![s] = IF Len(r.todo) = 1 THEN Idle ELSE [r EXCEPT !.todo = Tail(@)]]
               /\ UNCHANGED disk
          ELSE /\ disk' = [disk EXCEPT ![i] = [l \in Labels |-> NoBytes]]
               /\ req' = [x \in Slots |->
                    IF x = s THEN [r EXCEPT !.at = "delete"]
                    ELSE IF req[x].id = i /\ req[x].at \in {"write"} \cup Recording
                         THEN [req[x] EXCEPT !.clean = FALSE] ELSE req[x]]
     /\ UNCHANGED <<source, name, rows>>

\* ... and then its row, with those of its versions.
DeleteRow(s) ==
  LET r == req[s]
      i == Head(r.todo)
  IN /\ r.at = "delete"
     /\ name' = [name EXCEPT ![i] = NoName]
     /\ rows' = [rows EXCEPT ![i] = [l \in Labels |-> NoVersion]]
     /\ req' = [req EXCEPT ![s] = IF Len(r.todo) = 1 THEN Idle
                                   ELSE [r EXCEPT !.at = "files", !.todo = Tail(@)]]
     /\ UNCHANGED <<source, disk>>

-----------------------------------------------------------------------------

\* The other hubs get a new version; this one is stopped and started.
RemoteAdds ==
  /\ \E v \in Remote \ source : source' = source \cup {v}
  /\ UNCHANGED <<name, rows, disk, req>>

Restart ==
  /\ req' = [s \in Slots |-> Idle]
  /\ UNCHANGED <<source, name, rows, disk>>

SyncNext ==
  \/ \E s \in Slots :
       \/ CreateModel(s) \/ ImportHf(s) \/ MarketRow(s) \/ ImportData(s) \/ ImportTar(s)
       \/ SyncRegistry(s) \/ Pull(s) \/ Receive(s)
       \/ LookUpId(s) \/ LookUp(s) \/ Insert(s) \/ PullRow(s) \/ Open(s) \/ Write(s) \/ WriteFails(s)
       \/ PullRecord(s) \/ Answer(s) \/ ReceiveRecord(s) \/ ReceiveFind(s) \/ ReceiveUpdate(s)
       \/ TarExtract(s) \/ TarRow(s)
       \/ DeleteStart(s) \/ DeleteFiles(s) \/ DeleteRow(s)
  \/ \E i \in Ids, l \in Labels : UploadVersion(i, l)
  \/ RemoteAdds \/ Restart

SyncSpec == SyncInit /\ [][SyncNext]_syncVars

-----------------------------------------------------------------------------
(* Properties                                                              *)

\* Whatever creates, deletes and recreates models while requests hold on to an
\* id: a version never stands for the content of another model or label.
BytesBelong ==
  \A i \in Used, l \in Labels :
    rows[i][l].file \in {NoBytes, <<name[i], l>>, <<Local, l>>}

\* The catalogue is well formed and its rows name their own bytes.
RowsTrue == SyncTypeOK /\ BytesBelong

\* A push that is answered with success is there: the row names the bytes, and
\* the file holds them unless somebody else wrote or removed it meanwhile.  The
\* one exception: the push found the label taken, and the model was deleted before
\* it could take the row over (update_version's None is not looked at).
PushedIsThere ==
  [][\A s \in Slots :
       LET r == req[s]
           l == Head(r.todo)
       IN r.kind = "receive" /\ r.at # "answer" /\ req'[s].at = "answer"
            => /\ \/ rows'[r.id][l] = [there |-> TRUE, file |-> <<r.name, l>>]
                  \/ r.at = "update" /\ name[r.id] = NoName
               /\ r.clean => disk'[r.id][l] = <<r.name, l>>]_syncVars

\* A pull fills in the versions it has made and leaves all others alone.
PullSpares ==
  [][\A s \in Slots :
       req[s].kind \in {"pull", "tar", "sync", "import", "create", "market"} /\ req'[s] # req[s]
         => \A i \in Ids, l \in Labels :
              rows[i][l].there => \/ rows'[i][l] = rows[i][l]
                                  \/ i = req[s].id /\ l \in req[s].made]_syncVars

SyncHonest == PushedIsThere /\ PullSpares
=============================================================================
