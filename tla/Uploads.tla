------------------------------- MODULE Uploads -------------------------------
(***************************************************************************)
(* The files of one model's versions and the rows that name them: the      *)
(* streamed upload, the chunked upload, the download from a URL            *)
(* (server/routers/versions.py, repo/downloader.py) and the deletion of    *)
(* the model (server/routers/models.py), over LocalStore or MinioStore.    *)
(*                                                                         *)
(* Every client of a version label sends the same file name, so that the   *)
(* uploads of a label share one path and one directory of chunks; a URL    *)
(* download has a path of its own.  The bytes of a file are a sequence of  *)
(* blocks, each named after the payload it came from, and the hash in a    *)
(* row is the content it was computed from.                                *)
(***************************************************************************)
EXTENDS Naturals, Sequences, SequencesExt

CONSTANTS Labels,    \* version labels
          Payloads,  \* what clients send
          Slots,     \* requests in flight
          Tasks,     \* URL downloads; an id is used once
          MaxBlocks, \* max_upload_size_mb, in blocks
          Stores     \* the storage_type settings to consider

ASSUME UploadsAssumption == MaxBlocks \in Nat \ {0} /\ Stores \subseteq {"local", "minio"}

VARIABLES store,   \* storage_type: LocalStore or MinioStore
          model,   \* the row of the model is there
          row,     \* model_versions, by label
          file,    \* the file at the path of the label's uploads
          chunks,  \* uploads/<upload_id>: the chunk at each index, or none
          fetched, \* the file at the path of the label's URL download
          part,    \* labels whose URL download has left a .part file
          req,     \* the request in each slot
          task,    \* the URL downloads: coroutine and download_tasks row
          touched  \* history: labels whose file another actor wrote or removed

uploadsVars == <<store, model, row, file, chunks, fetched, part, req, task, touched>>

None    == "none"
Hole    == "hole"
Sizes   == 1..(MaxBlocks + 1)
Content == {data \in Seq(Payloads \cup {Hole}) : Len(data) <= MaxBlocks + 1}
File    == [there : BOOLEAN, data : Content]
Absent  == [there |-> FALSE, data |-> <<>>]
NoRow   == [at |-> None, hash |-> <<>>]
Rows    == [at : {"disk", "fetched", "nowhere"}, hash : Content]
Requests ==
  {r \in [at : {"idle", "stream", "assemble", "row", "delete"},
          label : Labels \cup {None}, payload : Payloads \cup {None},
          size : 0..(MaxBlocks + 1), got : Content, attached : BOOLEAN] :
     /\ r.at \in {"stream", "assemble", "row"} => r.label \in Labels
     /\ r.at = "stream" => r.payload \in Payloads
     /\ r.at = "assemble" => r.size \in Sizes
     /\ r.at \in {"stream", "row"} => Len(r.got) <= MaxBlocks}
Fetches ==
  {t \in [at : {"new", "fetch", "row", "mark", "fail", "ended"},
          status : {None, "pending", "completed", "failed"},
          label : Labels \cup {None}, got : Content] :
     /\ t.status = None <=> t.at = "new"
     /\ t.status # None => t.label \in Labels}

Idle == [at |-> "idle", label |-> None, payload |-> None, size |-> 0,
         got |-> <<>>, attached |-> FALSE]
Streaming(l, p) == [at |-> "stream", label |-> l, payload |-> p, size |-> 0,
                    got |-> <<>>, attached |-> TRUE]
Assembling(l, total) == [at |-> "assemble", label |-> l, payload |-> None, size |-> total,
                         got |-> <<>>, attached |-> store = "local"]
Recording(l, data) == [at |-> "row", label |-> l, payload |-> None, size |-> 0,
                       got |-> data, attached |-> FALSE]
Deleting == [at |-> "delete", label |-> None, payload |-> None, size |-> 0,
             got |-> <<>>, attached |-> FALSE]
Unused == [at |-> "new", status |-> None, label |-> None, got |-> <<>>]

UploadsTypeOK ==
  /\ store \in Stores
  /\ model \in BOOLEAN
  /\ row \in [Labels -> Rows \cup {NoRow}]
  /\ ~model => \A l \in Labels : row[l] = NoRow
  /\ file \in [Labels -> File] /\ fetched \in [Labels -> File] /\ part \subseteq Labels
  /\ chunks \in [Labels -> [Sizes -> Payloads \cup {None}]]
  /\ req \in [Slots -> Requests]
  /\ task \in [Tasks -> Fetches]
  /\ touched \subseteq Labels

UploadsInit ==
  /\ store \in Stores
  /\ model = TRUE
  /\ row = [l \in Labels |-> NoRow]
  /\ file = [l \in Labels |-> Absent]
  /\ chunks = [l \in Labels |-> [i \in Sizes |-> None]]
  /\ fetched = [l \in Labels |-> Absent]
  /\ part \in SUBSET Labels    \* an earlier download may have left one
  /\ req = [s \in Slots |-> Idle]
  /\ task = [t \in Tasks |-> Unused]
  /\ touched = {}

-----------------------------------------------------------------------------
(* Files                                                                   *)

Holding(data) == [there |-> TRUE, data |-> data]

\* The bytes of a file after block b was written at 0-based offset n.
Patched(data, n, b) ==
  [i \in 1..(IF Len(data) > n THEN Len(data) ELSE n + 1) |->
     IF i = n + 1 THEN b ELSE IF i <= Len(data) THEN data[i] ELSE Hole]

\* Somebody else has a stake in the file of label l: a row that names it,
\* another request that is writing it, or a deletion of the model.
Shared(s, l) ==
  \/ row[l].at = "disk" \/ ~model
  \/ \E x \in Slots \ {s} : req[x].label = l \/ req[x].at = "delete"

Touch(s, l) == touched' = IF Shared(s, l) THEN touched \cup {l} ELSE touched

\* The file of a label got a new inode or none: a request at the given place
\* that writes the old one writes where nobody looks.
Detach(r, l, at) ==
  [x \in Slots |-> IF r[x].label = l /\ r[x].at = at THEN [r[x] EXCEPT !.attached = FALSE] ELSE r[x]]

Done(s) == [req EXCEPT ![s] = Idle]

-----------------------------------------------------------------------------
(* POST /models/{id}/versions                                              *)

\* open(..., "wb") truncates what is there, whoever wrote it.
UploadOpen(s) ==
  /\ store = "local" /\ model /\ req[s] = Idle
  /\ \E l \in Labels, p \in Payloads :
       /\ file' = [file EXCEPT ![l] = Holding(<<>>)]
       /\ Touch(s, l)
       /\ req' = [req EXCEPT ![s] = Streaming(l, p)]
  /\ UNCHANGED <<store, model, row, chunks, fetched, part, task>>

\* One block; the one over the limit unlinks the path and ends in a 413.
UploadBlock(s) ==
  LET r == req[s]
      l == r.label
      n == Len(r.got)
  IN /\ r.at = "stream"
     /\ IF n = MaxBlocks
          THEN /\ file' = [file EXCEPT ![l] = Absent]
               /\ Touch(s, l)
               /\ req' = Detach(Done(s), l, "stream")
          ELSE /\ file' = IF r.attached
                            THEN [file EXCEPT ![l].data = Patched(@, n, r.payload)] ELSE file
               /\ req' = [req EXCEPT ![s].got = Append(@, r.payload)]
               /\ UNCHANGED touched
     /\ UNCHANGED <<store, model, row, chunks, fetched, part, task>>

UploadEnd(s) ==
  /\ req[s].at = "stream" /\ req[s].got # <<>>
  /\ req' = [req EXCEPT ![s] = Recording(req[s].label, req[s].got)]
  /\ UNCHANGED <<store, model, row, file, chunks, fetched, part, task, touched>>

\* Object storage: the whole body is put in one call, if it is not too large.
UploadObject(s) ==
  /\ store = "minio" /\ model /\ req[s] = Idle
  /\ \E l \in Labels, p \in Payloads, k \in 1..MaxBlocks :
       LET data == [i \in 1..k |-> p]
       IN /\ file' = [file EXCEPT ![l] = Holding(data)]
          /\ Touch(s, l)
          /\ req' = [req EXCEPT ![s] = Recording(l, data)]
  /\ UNCHANGED <<store, model, row, chunks, fetched, part, task>>

\* Without a file there is only a row.
UploadNothing(s) ==
  /\ model /\ req[s] = Idle
  /\ \E l \in Labels : row[l] = NoRow /\ row' = [row EXCEPT ![l].at = "nowhere"]
  /\ UNCHANGED <<store, model, file, chunks, fetched, part, req, task, touched>>

\* create_version: a label that has a row is refused with 409, a model that
\* has gone with 500; the file stays where it is.
CreateRow(s) ==
  LET l == req[s].label
  IN /\ req[s].at = "row"
     /\ row' = IF model /\ row[l] = NoRow
                 THEN [row EXCEPT ![l] = [at |-> "disk", hash |-> req[s].got]] ELSE row
     /\ req' = Done(s)
     /\ UNCHANGED <<store, model, file, chunks, fetched, part, task, touched>>

-----------------------------------------------------------------------------
(* POST /models/{id}/versions/chunk-upload                                 *)

WriteChunk(l, i, p) == chunks' = [chunks EXCEPT ![l][i] = p]

\* A chunk lands in the directory of its label, whose name is the same for
\* every client; the request with the last index goes on to assemble.
Chunk(s) ==
  /\ model /\ req[s] = Idle
  /\ \E l \in Labels, p \in Payloads, total \in Sizes, i \in Sizes :
       /\ i <= total
       /\ WriteChunk(l, i, p)
       /\ req' = IF i < total THEN req
                 ELSE [req EXCEPT ![s] = Assembling(l, total)]
  /\ UNCHANGED <<store, model, row, file, fetched, part, task, touched>>

\* The assembly runs on a thread: it reads the chunks one after the other
\* into a staging file.  A missing one ends it with 400; the directory goes.
ReadChunk(s) ==
  LET r == req[s]
      b == chunks[r.label][Len(r.got) + 1]
  IN /\ store = "local" /\ r.at = "assemble" /\ Len(r.got) < r.size
     /\ IF b = None
          THEN /\ chunks' = [chunks EXCEPT ![r.label] = [i \in Sizes |-> None]]
               /\ req' = Done(s)
          ELSE /\ req' = [req EXCEPT ![s].got = Append(@, b)]
               /\ UNCHANGED chunks
     /\ UNCHANGED <<store, model, row, file, fetched, part, task, touched>>

\* What becomes of the request whose file is in place: the size is checked
\* only now, and a 413 leaves the file behind.
Placed(r, data) ==
  IF r.size > MaxBlocks THEN Idle
  ELSE Recording(r.label, data)

\* Mutant: the file is replaced before it is complete.
ReplaceShort(s) ==
  LET r == req[s]
  IN /\ store = "local" /\ r.at = "assemble" /\ Len(r.got) = r.size
     /\ chunks' = [chunks EXCEPT ![r.label] = [i \in Sizes |-> None]]
     /\ IF r.attached
          THEN /\ file' = [file EXCEPT ![r.label] = Holding(SubSeq(r.got, 1, r.size - 1))]
               /\ Touch(s, r.label)
               /\ req' = [Detach(req, r.label, "stream") EXCEPT ![s] = Placed(r, r.got)]
          ELSE /\ req' = Done(s)
               /\ UNCHANGED <<file, touched>>
     /\ UNCHANGED <<store, model, row, fetched, part, task>>

\* os.replace and the removal of the directory of chunks; the staging file
\* may have been removed with the model's directory, which ends it with 400.
Replace(s) ==
  LET r == req[s]
  IN /\ store = "local" /\ r.at = "assemble" /\ Len(r.got) = r.size
     /\ chunks' = [chunks EXCEPT ![r.label] = [i \in Sizes |-> None]]
     /\ IF r.attached
          THEN /\ file' = [file EXCEPT ![r.label] = Holding(r.got)]
               /\ Touch(s, r.label)
               /\ req' = [Detach(req, r.label, "stream") EXCEPT ![s] = Placed(r, r.got)]
          ELSE /\ req' = Done(s)
               /\ UNCHANGED <<file, touched>>
     /\ UNCHANGED <<store, model, row, fetched, part, task>>

\* Object storage assembles in one go, on the event loop: all chunks, or a 500
\* and no object; the chunk objects it was to read are removed in any case.
AssembleObject(s) ==
  LET r    == req[s]
      data == SubSeq(chunks[r.label], 1, r.size)
  IN /\ store = "minio" /\ r.at = "assemble"
     /\ chunks' = [chunks EXCEPT ![r.label] = [i \in Sizes |-> IF i <= r.size THEN None ELSE @[i]]]
     /\ IF Contains(data, None)
          THEN /\ req' = Done(s)
               /\ UNCHANGED <<file, touched>>
          ELSE /\ file' = [file EXCEPT ![r.label] = Holding(data)]
               /\ Touch(s, r.label)
               /\ req' = [req EXCEPT ![s] = Placed(r, data)]
     /\ UNCHANGED <<store, model, row, fetched, part, task>>

-----------------------------------------------------------------------------
(* POST /models/{id}/versions/download-url                                 *)

\* The request writes a download_tasks row that references the model and
\* starts a coroutine.
UrlStart(t) ==
  /\ model /\ task[t].at = "new"
  /\ \E l \in Labels :
       task' = [task EXCEPT ![t] = [at |-> "fetch", status |-> "pending", label |-> l, got |-> <<>>]]
  /\ UNCHANGED <<store, model, row, file, chunks, fetched, part, req, touched>>

\* ModelDownloader: the file is replaced by what the server sent, appended to
\* the .part of an earlier or a concurrent download if there is one and no
\* hash was given that would tell; or its hash is not the expected one and
\* the file is removed; or the download fails and may leave a .part.
UrlFetch(t) ==
  LET l == task[t].label
      busy == \E x \in Tasks \ {t} : task[x].label = l /\ task[x].at \in {"fetch", "row", "mark"}
  IN /\ task[t].at = "fetch"
     /\ \/ \E p \in Payloads, mixed \in IF l \in part \/ busy THEN BOOLEAN ELSE {FALSE} :
             LET data == IF mixed THEN <<Hole, p>> ELSE <<p>>
             IN /\ fetched' = [fetched EXCEPT ![l] = Holding(data)]
                /\ task' = [task EXCEPT ![t].at = "row", ![t].got = data]
                /\ part' = part \ {l}
                /\ touched' = IF row[l].at = "fetched" \/ busy
                                  \/ \E x \in Slots : req[x].at = "delete"
                                THEN touched \cup {l} ELSE touched
        \/ /\ fetched' = [fetched EXCEPT ![l] = Absent]  \* hash mismatch
           /\ task' = [task EXCEPT ![t].at = "fail"]
           /\ part' = part \ {l}
           /\ touched' = IF row[l].at = "fetched" \/ busy THEN touched \cup {l} ELSE touched
        \/ /\ task' = [task EXCEPT ![t].at = "fail"]
           /\ \E left \in {{}, {l}} : part' = part \cup left
           /\ UNCHANGED <<fetched, touched>>
     /\ UNCHANGED <<store, model, row, file, chunks, req>>

\* A label that has a row by now is taken as done.
UrlRow(t) ==
  LET l == task[t].label
  IN /\ task[t].at = "row"
     /\ row' = IF model /\ row[l] = NoRow
                 THEN [row EXCEPT ![l] = [at |-> "fetched", hash |-> task[t].got]] ELSE row
     /\ task' = [task EXCEPT ![t].at = "mark", ![t].got = <<>>]
     /\ UNCHANGED <<store, model, file, chunks, fetched, part, req, touched>>

UrlMark(t) ==
  /\ task[t].at \in {"mark", "fail"}
  /\ task' = [task EXCEPT ![t].at = "ended",
                ![t].status = IF task[t].at = "mark" THEN "completed" ELSE "failed"]
  /\ UNCHANGED <<store, model, row, file, chunks, fetched, part, req, touched>>

-----------------------------------------------------------------------------
(* DELETE /models/{id}                                                     *)

\* The files go first, whoever is writing them; object storage does not know
\* of the files that URL downloads put on the local disk.
DeleteFiles(s) ==
  /\ model /\ req[s] = Idle
  /\ file' = [l \in Labels |-> Absent]
  /\ IF store = "local" THEN fetched' = [l \in Labels |-> Absent] /\ part' = {}
                        ELSE UNCHANGED <<fetched, part>>
  /\ touched' = touched \cup {l \in Labels : row[l] # NoRow \/ Shared(s, l)
                               \/ \E t \in Tasks : task[t].label = l}
  /\ req' = [x \in Slots |-> IF x = s THEN Deleting
                             ELSE [req[x] EXCEPT !.attached = FALSE]]
  /\ UNCHANGED <<store, model, row, chunks, task>>

\* Mutant: nothing keeps a model whose download_tasks rows reference it.
DeleteRowAlways(s) ==
  /\ req[s].at = "delete"
  /\ model' = FALSE
  /\ row' = [l \in Labels |-> NoRow]
  /\ req' = Done(s)
  /\ UNCHANGED <<store, file, chunks, fetched, part, task, touched>>

\* The versions go with the model; a download_tasks row that references it
\* makes the statement fail, and the model and its versions stay.
DeleteRow(s) ==
  /\ req[s].at = "delete"
  /\ IF \E t \in Tasks : task[t].status # None
       THEN UNCHANGED <<model, row>>
       ELSE /\ model' = FALSE
            /\ row' = [l \in Labels |-> NoRow]
  /\ req' = Done(s)
  /\ UNCHANGED <<store, file, chunks, fetched, part, task, touched>>

\* The process ends and starts again: requests and coroutines are gone, files,
\* chunks and rows are as they were; nothing takes up a pending download.
UploadsRestart ==
  /\ req' = [s \in Slots |-> Idle]
  /\ task' = [t \in Tasks |-> IF task[t].at = "new" THEN task[t]
                               ELSE [task[t] EXCEPT !.at = "ended", !.got = <<>>]]
  /\ part' = part \cup {task[t].label : t \in {x \in Tasks : task[x].at = "fetch"}}
  /\ UNCHANGED <<store, model, row, file, chunks, fetched, touched>>

UploadsNext ==
  \/ \E s \in Slots :
       \/ UploadOpen(s) \/ UploadBlock(s) \/ UploadEnd(s) \/ UploadObject(s) \/ UploadNothing(s)
       \/ CreateRow(s) \/ Chunk(s) \/ ReadChunk(s) \/ Replace(s) \/ AssembleObject(s)
       \/ DeleteFiles(s) \/ DeleteRow(s)
  \/ \E t \in Tasks : UrlStart(t) \/ UrlFetch(t) \/ UrlRow(t) \/ UrlMark(t)
  \/ UploadsRestart

UploadsSpec == UploadsInit /\ [][UploadsNext]_uploadsVars

-----------------------------------------------------------------------------
(* Properties                                                              *)

\* The file a row names holds the bytes whose hash the row records, unless
\* another actor wrote or removed it: no upload, chunked or not, cut off by a
\* limit, an error or a restart, leaves a row over a partial file.
RecordedBytes ==
  \A l \in Labels \ touched :
    /\ row[l].at = "disk" => file[l] = Holding(row[l].hash)
    /\ row[l].at = "fetched" => fetched[l] = Holding(row[l].hash)

\* Rows and files are well formed and agree.
FilesRecorded == UploadsTypeOK /\ RecordedBytes

\* A URL download reported as completed has a version to show for it.
CompletedListed ==
  \A t \in Tasks : task[t].status = "completed" => row[task[t].label] # NoRow

\* The files of a deleted model are gone, but for labels that a request was
\* writing while the deletion ran.
NoOrphanFiles == ~model => \A l \in Labels \ touched : ~file[l].there

DeletionTrue == CompletedListed /\ NoOrphanFiles
=============================================================================
