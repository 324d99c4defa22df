------------------------------ MODULE Downloads ------------------------------
(***************************************************************************)
(* One download task: its worker _run_download, the DELETE handler that    *)
(* cancels it (server/routers/downloads.py), the download_tasks row        *)
(* (db/crud.py) and the two files <id>.part and <id>.bin.  Tasks share     *)
(* nothing (row, files and registry entry are keyed by the task id), so    *)
(* one task with its concurrent DELETE requests is the whole protocol.     *)
(*                                                                         *)
(* The remote file is Blocks blocks, 1 .. Blocks; a file, and the input of *)
(* a SHA-256, is the sequence of blocks written to it.  Two hashes are     *)
(* equal when their inputs are.  Each action runs from one await of the    *)
(* worker or the handler to the next.                                      *)
(***************************************************************************)
EXTENDS Naturals, Sequences

CONSTANTS
  Blocks,        \* length of the remote file
  MaxRetries,    \* DownloadTask.max_retries
  RangeAnswers,  \* statuses the server gives a request with a Range header
  MayCrash,      \* may the process die?
  DbFaults       \* points at which the worker's use of the database may raise

ASSUME ConstantsAssumption ==
  /\ Blocks \in Nat \ {0} /\ MaxRetries \in Nat
  /\ RangeAnswers \subseteq {200, 206} /\ RangeAnswers # {}
  /\ MayCrash \in BOOLEAN
  /\ DbFaults \subseteq {"marking", "opening", "saving", "completing"}

Source == [i \in 1 .. Blocks |-> i]
Absent == <<0>>     \* no file: 0 is no block

VARIABLES
  expected,   \* was an expected_sha256 supplied (that of the remote file)?
  status,     \* DownloadTask.status
  saved,      \* DownloadTask.downloaded_bytes
  fileHash,   \* DownloadTask.file_hash: what was hashed, or Absent
  part,       \* contents of <id>.part, or Absent
  bin,        \* contents of <id>.bin, or Absent
  pc,         \* where the worker is suspended
  attempt,    \* the retry loop's counter
  offset,     \* downloaded
  total,      \* the length the response announced, 0 if it did not
  sent,       \* last block the server sent of the current response
  hashed,     \* what the current hasher was fed
  canceller   \* the DELETE handler: "idle", "checked", "marked" or "answered"

row   == <<expected, status, saved, fileHash>>
files == <<part, bin>>
loop  == <<attempt, offset, total, sent, hashed>>
vars  == <<row, files, pc, loop, canceller>>

\* Suspension points inside the try block; those after part_path is set.
WithPartPath == {"streaming", "saving", "verifying", "rejecting", "completing", "returning"}
Caught       == {"marking", "opening"} \cup WithPartPath
Uncaught     == {"starting", "backoff", "givingup", "cancelling"}
Gone         == {"ended", "dead"}
Control      == Caught \cup Uncaught \cup Gone

----------------------------------------------------------------------------
(* The worker *)

At(from, to) == pc = from /\ pc' = to

\* max_retries is read before the loop.
Start ==
  /\ At("starting", "marking")
  /\ UNCHANGED <<row, files, loop, canceller>>

\* Blind update: also over a row that DELETE marked cancelled.
MarkDownloading ==
  /\ At("marking", "opening")
  /\ status' = "downloading"
  /\ UNCHANGED <<expected, saved, fileHash, files, loop, canceller>>

\* except Exception: give up or sleep 2**attempt seconds
Fail(from) ==
  /\ At(from, IF attempt >= MaxRetries THEN "givingup" ELSE "backoff")
  /\ UNCHANGED <<row, files, loop, canceller>>

\* Refused, timed out, a status other than 200 or 206, a dropped connection.
NetworkFault == \E from \in {"opening", "streaming"} : Fail(from)

DbFault == \E from \in DbFaults : Fail(from)

\* The row's offset is asked for (nothing is left to ask for once the row counts
\* every block); without one the .part is truncated ("wb"),
\* with one it is appended to ("ab").  The hasher is new either way.
Open(answer) ==
  /\ At("opening", "streaming")
  /\ answer \in IF saved > 0 THEN RangeAnswers ELSE {200}
  /\ answer = 206 => saved < Blocks
  /\ offset' = saved
  /\ total' \in IF answer = 206 THEN {Blocks} ELSE {0, Blocks}
  /\ sent' = IF answer = 206 THEN saved ELSE 0
  /\ part' = IF saved > 0 /\ part # Absent THEN part ELSE <<>>
  /\ hashed' = <<>>
  /\ UNCHANGED <<row, bin, attempt, canceller>>

\* A chunk arrives; the row is updated at most once a second.
Receive ==
  /\ sent < Blocks
  /\ \E next \in {"streaming", "saving"} : At("streaming", next)
  /\ sent' = sent + 1
  /\ part' = Append(part, sent + 1)
  /\ hashed' = Append(hashed, sent + 1)
  /\ offset' = offset + 1
  /\ UNCHANGED <<row, bin, attempt, total, canceller>>

Save ==
  /\ At("saving", "streaming")
  /\ saved' = offset
  /\ UNCHANGED <<expected, status, fileHash, files, loop, canceller>>

\* The body ends, perhaps early; only an announced length reveals that.
EndShort ==
  /\ offset < total
  /\ Fail("streaming")

\* os.replace(part_path, final_path)
Replace ==
  /\ offset >= total
  /\ At("streaming", "verifying")
  /\ bin' = part
  /\ part' = Absent
  /\ UNCHANGED <<row, loop, canceller>>

\* Mutant: the file is removed but the function does not return.
VerifyFallsThrough ==
  /\ At("verifying", "completing")
  /\ bin' = IF expected /\ hashed # Source THEN Absent ELSE bin
  /\ UNCHANGED <<row, part, loop, canceller>>

\* An integrity failure removes the file and is not retried.
Verify ==
  /\ IF expected /\ hashed # Source
     THEN At("verifying", "rejecting") /\ bin' = Absent
     ELSE At("verifying", "completing") /\ bin' = bin
  /\ UNCHANGED <<row, part, loop, canceller>>

RejectIntegrity ==
  /\ At("rejecting", "returning")
  /\ status' = "failed"
  /\ UNCHANGED <<expected, saved, fileHash, files, loop, canceller>>

Complete ==
  /\ At("completing", "returning")
  /\ status' = "completed"
  /\ saved' = offset
  /\ fileHash' = hashed
  /\ UNCHANGED <<expected, files, loop, canceller>>

\* The refresh and close after the last commit are over.
Return ==
  /\ At("returning", "ended")
  /\ UNCHANGED <<row, files, loop, canceller>>

\* Mutant: the counter is reset by the reconnect.
BackoffForever ==
  /\ At("backoff", "marking")
  /\ UNCHANGED <<row, files, loop, canceller>>

Backoff ==
  /\ At("backoff", "marking")
  /\ attempt' = attempt + 1
  /\ UNCHANGED <<row, files, offset, total, sent, hashed, canceller>>

GiveUp ==
  /\ At("givingup", "ended")
  /\ status' = "failed"
  /\ UNCHANGED <<expected, saved, fileHash, files, loop, canceller>>

\* except asyncio.CancelledError, after the .part is removed
MarkCancelled ==
  /\ At("cancelling", "ended")
  /\ status' = "cancelled"
  /\ UNCHANGED <<expected, saved, fileHash, files, loop, canceller>>

----------------------------------------------------------------------------
(* DELETE /downloads/{id} *)

CheckCancel ==
  /\ canceller \in {"idle", "answered"}
  /\ status \notin {"completed", "cancelled"}
  /\ canceller' = "checked"
  /\ UNCHANGED <<row, files, pc, loop>>

MarkRow ==
  /\ canceller = "checked"
  /\ canceller' = "marked"
  /\ status' = "cancelled"
  /\ UNCHANGED <<expected, saved, fileHash, files, pc, loop>>

\* task.cancel() throws CancelledError at the worker's await; the handler
\* inside the loop sees it only if the await is in the try block.
Signal ==
  /\ canceller = "marked"
  /\ canceller' = "answered"
  /\ pc' = CASE pc \in Caught   -> "cancelling"
             [] pc \in Uncaught -> "ended"
             [] OTHER           -> pc
  /\ part' = IF pc \in WithPartPath THEN Absent ELSE part
  /\ UNCHANGED <<row, bin, loop>>

----------------------------------------------------------------------------
\* The process dies and restarts: nothing picks the task up again.
Crash ==
  /\ MayCrash /\ pc \notin Gone
  /\ pc' = "dead"
  /\ canceller' = IF canceller = "answered" THEN "answered" ELSE "idle"
  /\ UNCHANGED <<row, files, loop>>

Init ==
  /\ expected \in BOOLEAN
  /\ status = "pending" /\ saved = 0 /\ fileHash = Absent
  /\ part = Absent /\ bin = Absent
  /\ pc = "starting" /\ attempt = 0 /\ offset = 0 /\ total = 0 /\ sent = 0 /\ hashed = <<>>
  /\ canceller = "idle"

Worker ==
  \/ Start \/ MarkDownloading \/ NetworkFault \/ DbFault
  \/ \E answer \in {200, 206} : Open(answer)
  \/ Receive \/ Save \/ EndShort \/ Replace \/ Verify
  \/ RejectIntegrity \/ Complete \/ Return
  \/ Backoff \/ GiveUp \/ MarkCancelled

Delete == MarkRow \/ Signal

Next == Worker \/ Delete \/ CheckCancel \/ Crash

Spec == Init /\ [][Next]_vars

----------------------------------------------------------------------------
(* Properties *)

File == Seq(1 .. Blocks) \cup {Absent}

\* Every variable keeps its type; in particular the retry loop makes at most
\* max_retries + 1 attempts.
TypeOK ==
  /\ expected \in BOOLEAN
  /\ status \in {"pending", "downloading", "completed", "failed", "cancelled"}
  /\ saved \in Nat /\ offset \in Nat /\ total \in {0, Blocks} /\ sent \in 0 .. Blocks
  /\ attempt \in 0 .. MaxRetries
  /\ fileHash \in File /\ part \in File /\ bin \in File
  /\ hashed \in Seq(1 .. Blocks)
  /\ pc \in Control
  /\ canceller \in {"idle", "checked", "marked", "answered"}

Holds(file) == {file[i] : i \in DOMAIN file}

\* When lengths are announced, a final file misses no block of the remote file,
\* whatever connections dropped and however the saved offset lagged behind the
\* .part.
FinalIsWhole == bin # Absent /\ total > 0 => Holds(bin) = 1 .. Blocks

\* A row reads completed only while its .bin is there and no .part is left,
\* whatever DELETEs and crashes raced the worker.
CompletedHasFile == status = "completed" => bin # Absent /\ part = Absent

\* When the caller supplied a hash, "completed" means that the file on disk is
\* the remote file: a mismatch is a hard failure (H6).
VerifiedMeansSource == expected /\ status = "completed" => bin = Source

\* A worker that no DELETE raced leaves a finished row behind.
Settled ==
  pc = "ended" /\ canceller = "idle" => status \in {"completed", "failed", "cancelled"}

\* At every moment the row and the files tell the same, whatever connections
\* dropped, statements failed and DELETEs or crashes came in between.
FilesTrue == TypeOK /\ FinalIsWhole /\ CompletedHasFile /\ VerifiedMeansSource /\ Settled

\* The worker stops on its own: retries are bounded.
WorkerStops == <>(pc \in Gone)
=============================================================================
