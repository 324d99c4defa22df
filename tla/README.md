# Fusion Model Hub: a TLA+ model of the hub

The hub (`src/fusion_model_hub`) is a FastAPI service that keeps AI models,
their versions and their files, runs long jobs on them (quantization, LoRA
merges, evaluations, downloads, fan-outs), serves them through engines on
several machines and exchanges them with other hubs. Requests and jobs are
coroutines of one asyncio loop; their rows live in an SQL database that survives
the process and that several processes may share. What is hard to get right is
therefore not any single handler but what happens *between* two awaits or two
commits: another coroutine, another process, a crash and the startup
reconciliation, an external service that answers late, wrongly or not at all.
That is what the modules here describe.

## 1. Inventory

| Part (under `src/fusion_model_hub`) | State | Operations | Interacts with | Module |
|---|---|---|---|---|
| Quantize runner: `server/tasks.py`, `server/app.py` | `quantize_tasks` rows, semaphore, live coroutines | submit, run, resume; reconcile at startup | versions, cache, Fusion-MLX, webhooks, Fusion-Bench | `QuantizeTasks` |
| Downloads: `server/routers/downloads.py` | `download_tasks` row, `.part`/`.bin` files, registry of asyncio tasks | create, DELETE, worker with resume and retries | remote server, file system | `Downloads` |
| Evaluations, LoRA merges, fan-outs: `server/eval_tasks.py`, `routers/quantize.py`, `routers/cluster.py` | `evaluations`, `lora_merge_tasks`, `distributed_tasks` | create, run, resume, reconcile | Fusion-Bench, Fusion-MLX, peer hubs | `BackgroundJobs` |
| Cluster nodes and routing: `routers/cluster.py` | `cluster_nodes` rows, round-robin index | register, heartbeat, reap, route, sync-model | peer hubs | `ClusterNodes` |
| Deployments and inference proxy: `routers/deployments.py`, `routers/inference.py` | table of loaded models, its lock and sweep, `deployments` rows | serve, hot-reload, unload, chat, embed, pin, deploy, gray, scale, stop | Fusion-MLX, nodes | `Serving` |
| Version lifecycle: `db/crud.py`, `routers/versions.py`, `system.py`, `branches.py` | status, score and file columns | publish, deprecate, promote, retire, dedup, cleanup, merge a branch | files | `Versions` |
| Storage and uploads: `storage/`, `routers/versions.py`, `repo/downloader.py` | blobs, chunk directories, rows | streamed, chunked and URL uploads, deletion of a model | versions | `Uploads` |
| Model registry and synchronisation: `routers/models.py`, `sync.py`, `system.py` | `models`, `model_versions`, files | create, import from a market, registry sync, pull, receive a push, import and export | peer hubs | `HubSync` |
| Cache manager: `cache/manager.py` | index (memory and disk), cached files | put, get, remove, gc, validate | quantize runner | `CacheManager` |
| Access: `server/auth.py`, `identity.py`, `rate_limit.py`, `routers/auth.py`, `tenants.py` | keys, tenants, roles, audit rows, key cache, windows | the middleware; create, revoke, delete | every router | `Access` |
| Webhooks and events: `routers/webhooks.py`, `server/events.py` | rows, pending deliveries | register, dispatch, retry | models | `Webhooks` |
| Approvals: `routers/approvals.py` | `approval_requests` | submit, approve, reject | models | `Approvals` |
| Backup and restore: `server/backup.py`, `__main__.py` | backup files | page, write, rotate, restore | models, versions | `Backups` |
| Favorites and LFS locks: `routers/favorites.py`, `gitlfs.py` | rows | add, remove | models | `Marks` |
| Advice: `hardware/`, `recommend/`, `adapt/` | cached profile, running executions | profile, recommend, plan, execute | Fusion-MLX | `Advice` |
| Shell registry: `server/shell_registry.py` | key file, registration | register, beat | gateway | `ShellRegistry` |
| Startup and configuration: `server/app.py`, `config.py` | settings | reconcile, start loops | runners | part of the above |
| Converter, bindings, repositories, presets, ratings, benchmarks, metrics, scans, watermarks, encryption, SDK, CLI, web UI | rows, files, none | CRUD, transformations, HTTP clients | - | - |

What makes each part correct:

- *runners*: a row ends exactly once; it reads completed exactly when its
  product exists; slots are never lost; a restart strands nothing; an
  announcement is true.
- *downloads and uploads*: a recorded file is whole and is what its hash says;
  retries are bounded; a deleted model leaves no files.
- *versions, registry*: only legal transitions; a published version has passed
  its threshold; a version's bytes belong to it, also after pulls and pushes.
- *approvals*: an approved request has its quorum of different people.
- *deployments, inference*: a RUNNING row's model was loaded at its node; the
  table of loaded models lies only for one of three reasons (`Serving` in section 2).
- *cluster*: routing leaves no active node untried and spreads its starts; a node
  reaped by mistake comes back.
- *cache*: index and disk agree; gc keeps the files within the limit.
- *access*: a revoked key stays out; no window exceeds its limit; no row names a
  tenant that is gone.
- *catalogue*: events tell what was committed, to their tenant only; every
  delivery ends; a backup is closed under references.
- *advice*: a profile handed out is no older than the cache allows; a plan fits
  the memory it was made for; what an engine refused is reported refused.

The hazards, each at its line and with the properties that watch it, are in
`PROJECT.json`.

## 2. Modules

| Module | Models | Notes |
|---|---|---|
| `JobLifecycle` | what a job promises its client (abstract) | implemented by `BackgroundJobs`, checked and proved |
| `QuantizeTasks` | `server/tasks.py`, its rows and their reconciliation, several hub processes | TLC and TLAPS |
| `BackgroundJobs` | evaluations, LoRA merges, fan-outs and their reconciliation | refines `JobLifecycle`; TLC and TLAPS |
| `CacheManager` | the quantize cache, its index on disk, gc, and the runs that use it | TLC and TLAPS |
| `Versions` | version rows, their directories, status changes, dedup and cleanup, branch merges | TLC and TLAPS |
| `ClusterNodes` | nodes, heartbeats, reaping, routing, sync-model and the inbox | TLC and TLAPS |
| `Serving` | the inference proxy's table and sweep, deployments, engines | TLC and TLAPS |
| `Uploads` | three ways of uploading to one label, two stores, deletion | TLC and TLAPS |
| `HubSync` | everything that adds models to the registry or takes them away | TLC and TLAPS |
| `Access` | middleware, keys, tenants, rate limit, audit | TLC and TLAPS |
| `Webhooks`, `Approvals`, `Backups`, `Marks` | one part each | TLC and TLAPS |
| `Catalog` | the models table that composes these four | TLC and TLAPS |
| `Downloads` | one download, its DELETE handler, its files | TLC and TLAPS |
| `Advice`, `ShellRegistry` | one part each | TLC, `Advice` also TLAPS |
| `Outbound` | composes `Downloads`, `Advice`, `ShellRegistry` | TLC and TLAPS |
| `MC...` | the constants and symmetries of the runs | |
| `...Proofs` | theorems about the modules they extend (section 5) | checked by TLAPS |

**Actions.** An action is the stretch of code between two points at which
somebody else can look: an `await`, a commit, a semaphore operation, an
external call. `pc`, or `at` in the record of a request, says where a coroutine
is suspended. A transaction is one action, because it lands or does not land as
a whole; two commits are two actions with a crash possible between them.
Variables marked *history* are read by properties only.

**QuantizeTasks.** `status`, `req`, `link` are the columns `status`, the
request, `output_version_id` of `quantize_tasks`; `outputs` the tasks whose
output `ModelVersion` exists; `sources` the source versions with their models.
Per process: `hub` (the lifespan's phase), `pc`, `free` (the semaphore's
value), `worklist` (rows the startup loop has left). `SubmitCommit`/`Spawn` are
`submit_quantize`; `Acquire` to `PostChecks` follow `_run_quantize` from top
to bottom; `Raise`, `AnnounceFailure`, `MarkFailed`, `LoseFailure` are its
exception handler, which runs *after* the semaphore block is left; `Boot` to
`Serve` are the startup reconciliation, `Claim` is `claim_quantize_task`.
`Crash` stands for a dying process, for a shutdown (which does not wait for
the runner) and for an unguarded query that raises during startup.

**Downloads.** Files and hash inputs are sequences of block numbers, so "the
file is the source" and "the hash is that of the file" are equalities. A
`CancelledError` reaches the worker at whatever await it is suspended in;
`Caught`, `WithPartPath` and `Uncaught` say which of them the handler in the
loop covers. The row is updated blindly, as in the code.

**BackgroundJobs.** One process, all three kinds of job. `benchTasks` counts
tasks really started at Fusion-Bench, an answer lost on the way included.
`DbFaults` names the control points at which the database may raise, because what
follows differs. A failed flip to RUNNING is swallowed, a failed lookup ends the
coroutine, any other failure of an evaluation goes to its handler, which takes a
new session (`DbFault`). Merges and fan-outs have one session for everything: a
`SELECT` that raises, or the conflict that `create_version` rolls back, leaves it
usable (`DbFault` again), but after a flush or commit that raised the handler's own
update raises too, and the coroutine ends over a row that stays as it was
(`CommitRaises`). The history variable `lost` remembers the runners that ended
without ending their row; a start empties it.

**CacheManager.** `mem` and `disk` are the index in the process and in `index.json`,
an entry being its `last_accessed` (0: no entry); `files` is what lies at each path.
The key of an entry has the source version in it, the path has not, so two keys may
name one file: this is in the code and the model keeps it. The lock of
`CacheManager` covers the index but not the copying and hashing of a file, which run
in worker threads; `torn` marks the copies that another one, or an unlink, has
disturbed. `gc`, `remove_model` and the orphan sweep change entries and files first
and save the index last (`loop = "saving"`), and a crash may fall between. `limit`
and `begun` are history: the limit of the last gc that had one, and the paths whose
copy began since. `has()` already fails when the file is gone, so the branch of
`get()` that would drop such an entry is never reached; only `validate` drops it.
`DELETE` of a single entry builds a key without the source version, matches nothing,
and is left out.

**Versions.** `row` is `model_versions` (status, `benchmark_score`,
`file_path`, `file_hash`), `dirs` the versions whose directory is on disk,
`branch` the branches, `after` the order in which `list_models` lists the models
(by `updated_at`, which a download moves). A request has a session of its own,
made with `expire_on_commit=False`, and `view` is what the session has loaded: the
`SELECT ... FOR UPDATE` of `update_version_status` finds a row loaded before in
the session's identity map and checks it as it was then. `Check` and `Flip` are
the two halves of that function, `Refresh` the loop of `promote`. A sweep works
entry by entry: `Unlink` removes the directory, `Check` and `Flip` retire the
version (dedup only; a refused one is skipped), `Clear` empties the path. A
statement that raises (`Raise`) ends a single request; a sweep counts the version
as failed and goes on, and if it was a commit, with a session that refuses every
further statement while the directories still go (`UnlinkOnly`). `cut` remembers the
directories a dedup has removed without getting to the status. `Merge`,
`Create`, `Close` are the three stretches of a branch merge. SQLite, the default
database, has no row locks; those of PostgreSQL only remove behaviours. A level
that is not in `EVALUATION_THRESHOLDS` has the threshold 0, which `LevelsKnown`
excludes where a property depends on it.

**ClusterNodes.** `created` is the `created_at` column, of which the order alone
counts: a row is the how-manieth there was, and `NewestFirst` is the listing
`ORDER BY created_at DESC` of the rows it is given (two registrations within one
microsecond are left out). `beat` is the age of `last_heartbeat`; ages instead of
timestamps keep the clock out of the state. A heartbeat loads the row and commits
it later (`HeartbeatLoad`, `HeartbeatCommit`), a listing reads the stale nodes and
then writes them inactive (`ReapRead`, `ReapWrite`), so each may write over what
the other has not seen. `sync-model` reaps, then lists the nodes by a read of its
own (`SyncList`): the rows of the reaper's read are referenced by nobody when it
returns, and a session remembers no row that nobody references. It pushes to its
targets one by one and counts the acceptances. A routed call goes local first,
then `Rotate` takes the next start of the round robin and the failover tries the
rest. The counter is kept modulo a common multiple of the sizes of all sets of
nodes, which leaves every start as it is.

**Serving.** `entry` is `_loaded_models` (the record's version, its age, and
whether the running sweep has measured it), `engine` what the hub's own engine
and those of the nodes hold. `Install` and `Swap` write the table after the
engine took the load. The sweep holds `lock` from `SweepBegin` to `SweepDone`, its
requests to the engine included; an explicit unload takes it twice, but not
over its request. A deployment is
created, loaded and marked in three steps. An engine may refuse, fail an unload,
or drop a model on its own (`EngineDrops`). Engines know a model by `NameOf`, its
`hf_repo` or else its name, which models may share; a PATCH of `hf_repo` is not
modelled. Two history variables say who took weights from under a record:
`outside`, the engine itself or a deployment; `overtaken`, an unload that came
between another request's load and its record, or that meant another record of the
same name. The run has one model; sharing a name is covered by the proof only.

**Uploads.** The path of a label's upload and its directory of chunks are shared
by all clients of the label, as in the code. The three ways end in `CreateRow`
(or `UrlRow`), which the unique label may refuse. `Replace` and `AssembleObject`
are the two stores' ends of a chunked upload. `touched` marks a label whose file
another actor has written or removed: what the code promises of the label ends
there, and the run does not follow it further.

**HubSync.** A model is an id, found by name and held on to over awaits; `source` is
what other hubs have. Requests begin in `LookUp`, the look for the name (a push
looks for the pushed id first, `LookUpId`), and go on in `Insert`, which the unique
name may refuse; `Created` and `NextName` say what each does next. The end of a push
is three steps, as in the code: the insert that may conflict (`ReceiveRecord`), the
`SELECT` of the row that has the label (`ReceiveFind`), its update
(`ReceiveUpdate`); the row's model may be deleted between any two. `Garbled` is a
stream that was cut off or a file with two writers.

**Access.** `Arrive` is the middleware up to the first await (mode, identity
headers, the bootstrap and gateway exceptions), `HashDone` the key derivation in
a thread, `Verify` the lookup with scopes and rate limit, `Touch` the write of
`last_used`, `Audit` the row written after the handler. The handlers of keys,
tenants, roles and models are modelled because each of their commits can fall
between two steps of another request. A key's row remembers the key and the
`X-Fusion-Tenant` header of the request that made it (`by`, `hdr`, both history). A
new process starts without the caches and
windows (`Restart`).

**Catalog** composes `Webhooks`, `Approvals`, `Backups` and `Marks` over the
`models` and `model_versions` tables. An event is raised by a commit and dispatched
after it (`raised`, `DispatchRaised`); a delivery holds its slot of the semaphore
over its retries. A decision on an approval reads the row and writes it after an
await (`Begin`, `WriteApprove`, `WriteReject`). Approvers are names joined and split
by commas: `PartsOf` says what a name is read back as, itself or, if it has a
comma, its parts (`Split`). A backup reads the versions in one
query and the models page by page, newest update first, while `UpdateModel` moves
them; `Rotate` removes the oldest files after a write.

**Downloads, Advice and ShellRegistry** share the process and nothing else;
`Outbound` follows one of them in each behaviour (`focus`), which keeps their
product out of the state space and loses no interleaving. `Advice` has a detector
for each router, as the code; its profile is stamped with the time at which it
was stored, its request began earlier. Scores, bits and fits are the code's
formulas over small numbers. `ShellRegistry` is the registration loop and the
gateway's answers to it.

## 3. Runs

| Run | Question | Bounds |
|---|---|---|
| `quantize_one_hub` | does one hub keep its slots, rows, outputs and announcements straight, and end every task? | 3 tasks, 1 slot, 2 sources, 2 requests, 2 starts |
| `quantize_two_hubs` | what survives a second hub, database faults and missing foreign keys? | 2 hubs, 2 tasks, 2 starts |
| `background_jobs` | do the other runners keep their promises? | 2 evaluations on 1 slot, 1 merge, 1 fan-out to up to 2 nodes, 2 starts |
| `downloads` | is a final file whole and a verified one right; is advice as fresh and as feasible as it says; does the console come back to the gateway? | 3 blocks, 2 retries; 2 requests, 2 sizes, 2 memories, 2 models, 3 replies, TTL 2, timeout 1, clock 2; 4 mishaps |
| `cache` | does the index on disk follow the one in memory, and does a gc leave no more files than the limit? | 3 keys on 2 paths, 2 runs, 4 clock readings, limits of 0 and 1 files |
| `versions` | do racing requests with stale rows publish only what passed, reclaim only what was retired, and merge for good? | 1 uploaded version, 1 branch and its merge, 2 requests out of six endpoints, 2 scores, database errors, crashes |
| `cluster_nodes` | is every active node tried and the load spread; is a success true; does a node reaped by mistake return? | 2 nodes, 1 call, 1 listing, stale at once, counter modulo 2 |
| `serving` | for which reasons may the table and the deployment rows lie about the engines, and does the sweep evict only what it measured? | 1 model, 2 versions, 1 node, 1 deployment, 2 requests |
| `uploads` | does a row's hash fit its file, and does deletion leave nothing behind? | 1 label, 2 requests, 2 payloads, 1 URL task, files of up to 2 blocks, both stores |
| `hub_sync` | does every version hold its own bytes, and is a push or pull honest? | 2 requests, 2 names, 2 labels, 2 remote versions, 2 ids, page of 1 |
| `access` | does revocation hold, the limit bind, no row name a lost tenant, and a made key belong to the tenant its maker stood for? | 3 keys (2 with one prefix), 2 tenants, 2 slots, 4 modes, 3 requests, 3 clock readings |
| `catalog` | are events, references, sign-offs and backups true, and does every delivery end? | 3 models (2 stored, 1 retakes a name), 1 hook, 2 tries, 1 approval, 3 approvers (one named like the other two with a comma), quorum 2, page and files 1, 2 backups, 3 operations, 1 restart |

Why these bounds are enough to be interesting: one slot makes tasks wait for
each other; two requests for the same source and bits collide on their label;
an unknown format raises inside the slot; two starts allow one crash, and two
of them with several hubs let one start while the other works; three blocks let
a connection drop before, between and after two saved offsets; two nodes give a
fan-out all its verdicts; two keys on one path and a third on another give the
cache shared and private files, and a clock of four readings with a throttle of
one and an age of one gives hits that are saved, hits that are not and entries
that expire. Only the runs, which are interchangeable, are permuted
(`MCSymmetry`); no property of `cache` is a liveness property.
In `versions` requests are permuted as well; `Managed` are the versions that
requests name, heads are uploaded versions and are not taken back, and
`archived` branches are like merged ones; sweeps and merges reach the merged
version all the same. `MaxBoots` also bounds crashes: the last start is not
followed by one, which is what "eventually" means with restarts.

In `cluster_nodes` two nodes are the least with a rotation; the listing is the third
party that reaps while a call walks its list. In `serving` a TTL of 0 lets every
tick expire a model and a sweep follow every tick, two versions of one model make a
record that was replaced differ from the one measured, and two requests are every
pairwise race; `serving` has no temporal property but an action property, for which
symmetry is sound. In `uploads` one label is where uploads meet, different labels
share only the deletion, and two payloads tell one client's bytes from another's.
`MCBound` keeps `hub_sync` to two versions with a row or a file, enough for two
names with a version each and for one name with two, lets two requests overlap only
when the other hubs have all their versions (a pull may ask for some of them
anyway), and does not go on from a file that a deleted model left and no request
will touch, which only uses up an id; `hub_sync` checks an action property besides
its invariant, so its symmetry is sound too. In `access` the two keys with one
prefix share a rate-limit bucket, a hash cache of one entry evicts at every second
key, and three requests are a chain of two creations or a creation, a revocation and
a use. In `catalog` pages of one row make every backup a multi-page one, and the
third model takes a deleted one's name. In `downloads` a clock of two is the
smallest in which a profile that is stamped late outlives its time.

`CHECK_DEADLOCK FALSE` in the quantize runs, `downloads`, `background_jobs`,
`uploads`, `hub_sync`, `access` and `catalog`: a hub with no requests left, a
finished download and a hub out of starts all stop legitimately. The other runs
check deadlock.

**Properties**, by what they watch:

- *slots and rows*: `SlotsAccounted`, `CompletedIffOutput`, `NoOrphanOutput`,
  `VerdictEarned`;
- *once over, over*: `TerminalIsFinal`, `ImplementsLifecycle`,
  `AnnouncementsTrue`;
- *recovery*: `RestartIsSafe` (no evaluation is started twice, no row is left
  without a coroutine but by a database error of its own runner),
  `IndexPersisted` (of entries, not of their files: section 4), `RecencyPersisted`,
  `MergeLeavesVersion`;
- *files*: `FilesTrue` (a final file misses no block, a completed row has it, a
  verified one is the source, a worker that is gone leaves a final status),
  `FilesRecorded`, `DeletionTrue`, `RowsTrue`, `SyncHonest`;
- *versions*: `PublishedWasTested`, `ReclaimedWasRetired` (the path of the row and
  the directory; a directory may go before the status changes, but only under a
  dedup that is about to change it, or that died or met a database error there);
- *eviction*: `DiskWithinBudget` (after a gc with a limit no more files than that
  are there, but for those whose copy began later: also with a `put` under way
  during the gc), `SweepIsFair`, `BooksTrue`;
- *cluster*: `RoutesWell`, `SyncReportsTruth`;
- *access*: `AdmissionTrue`, `TenantsTrue`;
- *catalogue*: `CatalogTrue`, `SignedByQuorum`, `BackupsTrue`;
- *advice*: `AdviceTrue` (`ProfilesFresh`, `PlanFits`, `RunnableFirst`,
  `RefusalsReported`);
- *liveness*: `EveryTaskEnds`, `EveryJobEnds`, `DownloadStops`,
  `EveryDeliveryEnds`, `WrongfullyReapedReturns`, `ShellReturns`.

For each of them `PROJECT.json` names a plausible defect of the code (an operator
beside the original) under which TLC finds it violated.

**Fairness.** Weak fairness of a job's coroutine, of startup, of a delivery, of the
registration loop: the event loop runs every ready coroutine, every HTTP client
of the code has a timeout and every poll a limit, and a dead process is
restarted by its supervisor. A node's heartbeats are fair because its timer is
its own; the gateway's answers are fair but for `MaxMishaps` failures. A DELETE
of a download, once begun, is finished. Nothing is assumed of clients:
submissions, DELETEs and deletions may never happen. `Acquire` needs no strong
fairness because the tasks are finite and a holder always releases. `serving`,
`uploads`, `hub_sync`, `access`, `cache` and `versions` assume no fairness.

**Assumptions of the runs** that a deployment must meet:

- `quantize_one_hub`: one process per database, foreign keys enforced, no
  database error. Without the first, `TerminalIsFinal` and
  `CompletedIffOutput` fail; with a database error in the failure handler the
  row stays RUNNING until the next restart.
- `PageSize` is at least the number of rows: the reconciliation reads one page
  of 200, and a longer backlog is stranded. `BackgroundJobs` takes the page as
  large enough outright.
- `downloads`: servers honour `Range` (`RangeAnswers = {206}`); one that answers 200
  gets its whole file appended to the `.part`. `"completing"` is not among the
  faults: a last update that raises after `os.replace` makes the retry replace the
  good file by a tail. Four more points do not raise either: the query before the
  loop, giving up and noting a cancellation, which would leave the row at its last
  status without a worker, and the update that rejects a file, after which the
  download would be tried again from an offset whose `.part` is gone. `Timeout`
  bounds a request for the hardware profile (the client's 5 s are per operation),
  and the clock does not go back.
- `background_jobs`: the flip of an evaluation to RUNNING does not raise. An update
  that raises has not been committed, and the refresh after a commit does not raise.
- `cache`: one process per cache directory, and a clock that does not go back.
- `versions`: levels of the table; no model is deleted meanwhile; the listing of
  the sweeps fits one page of 200 models.
- `cluster_nodes`, `serving`, `access`: one process, whose memory is the table
  of loaded models, the round-robin counter, the windows.
- `uploads`: nothing is claimed of a label that two actors write.
- `ShellReturns`: a hub that has a key file. One whose first key never reached
  the file (section 4) is not covered.

## 4. Divergences seen while modelling

No run expects a violation; the assumptions above keep these out of the passing
runs, or the properties say exactly what the code does in spite of them.

Against a comment, a test or a document:

1. Several hubs on one database run a task twice: `resume_quantize` claims any
   PENDING row (`server/tasks.py:80`), but submission takes no claim, although
   tests/test_audit_p0_fixes.py:311 says that two hub processes never run the
   same task twice.
2. Each download attempt starts a new hasher, also when the file is appended to
   (`server/routers/downloads.py:241`, against the comment at :237): a resumed
   download records a hash of its tail.
3. DELETE marks a download's row and then cancels the worker, but the worker
   marks blindly and sleeps outside the `try` (`downloads.py:340`, against the
   comment at :145-149): the row may stay "downloading".
4. The source version is part of a cache entry's key, "so a re-uploaded model
   gets a fresh entry" (`cache/manager.py:384-391`), but not of its file's name
   (:111): the old entry serves the new file.
5. A retired duplicate keeps its hash and so stays in its group, and the group is
   ordered by the models' `updated_at` (`routers/system.py:326`, against
   :289-294): the next dedup may delete the only copy.
6. Startup resumes evaluations although the runner is switched off
   (`server/eval_tasks.py:90`, against `config.py:62-64`).
7. The idle timeout of a served model counts from its load, not its last use
   (`routers/inference.py:165`, against README.md:67).
8. A pulled version whose stream failed is counted as pulled
   (`routers/sync.py:398`), and the handler of a name conflict reads an expired row
   and answers 500 (:353). A push whose label is taken and whose model is deleted
   before the update is answered "received" without a row, because the `None` of
   `update_version` is not looked at (:256).
9. `_run_pipeline` swallows its exceptions and aborts at level L4, so that
   `GET /adapt/execute` says "completed" (`routers/adapt.py:107`, :160, against
   the comment at :189-191); the quantize step is sent even if the conversion
   failed.
10. After a key rotation the gateway may take a key the hub has never seen, or
    the hub may keep no key at all (a lost answer, an unwritable file); a hub
    without a key file beats with the admin key and never notices a revocation
    (`server/shell_registry.py:214`, against CHANGELOG.md:69).
11. An L3 request takes "a quorum of DISTINCT approvers"
    (`routers/approvals.py:115-122`), counted as the entries of a comma-separated
    list (:124): an approver with a comma in the name is read back as several, so
    that two calls of that one approver reach the quorum. `SignedByQuorum`
    exempts requests that such an approver signed. Whether the name in the body is
    that of the caller is not checked at all.

Limits with no statement against them: a node that has never beaten stays active
(`routers/cluster.py:104`); inactive keys, roles and audit rows keep a tenant
from being deleted; the first key made in bootstrap mode need not be an admin's; a
failed write of `last_used` answers 500; version events are dispatched without a
tenant (`routers/versions.py:495`); two favorites inserted at once make every later
look for them raise (`CatalogTrue` bounds the rows by the overlapping calls, and
allows the failing look); chunk uploads of a label share one directory
(`routers/versions.py:299`); a failed update to RUNNING is logged and the bench
task starts all the same, under a PENDING row that a restart resumes
(`server/eval_tasks.py:115`); a promotion from DRAFT that misses the threshold
leaves the version TESTING and answers 500; a level that is not in
`EVALUATION_THRESHOLDS` has the threshold 0; a merge or fan-out whose flush or commit
raised is left unfinished until a restart, since its handler uses the same session
without a rollback (`routers/quantize.py:318`, `routers/cluster.py:322`); a dedup
goes on removing the directories of a group after a commit that raised
(`routers/system.py:329`); a gc between a copy and its entry, an eviction of an entry
that shares its file, and a crash before the index is saved leave an entry without a
file, which `has()` does not find and the next `put` restores (no property of `cache`
speaks of it); an unload between another request's load and its record leaves the
table listing a model without weights until it is unloaded again, and an unload of
one model takes the weights of all that share its engine name
(`routers/inference.py:482`); `X-Fusion-Tenant` is taken as it is sent, and
`/auth/keys` is a public path, so there also where the gateway's origin is enforced
(`server/auth.py:17-22`, :332-336): a key is made for the tenant the header names,
which is what `TenantPinned` says; a backup that pages while rows
are updated may miss or repeat a model; a restart forgets the executions of
`/adapt`, which are never cleaned otherwise.

## 5. Proofs

A `...Proofs` module proves about the modules it extends: `StorageProofs` about
`CacheManager` and `Uploads`, `RegistryProofs` about `Versions` and `HubSync`,
`OutboundProofs` about `Downloads` and `Advice`, `ServingProofs` about `Serving`
and `ClusterNodes`, the others about the module they
are named after. Every theorem holds for all values of the constants that the
module's named assumption admits (ids are finite sets, no id is the word for
none, bounds are naturals); a further hypothesis stands in the theorem as
`ASSUME`.

**Hypotheses.** Where a property depends on the environment, the theorem says so:

| Hypothesis | Says | Without it |
|---|---|---|
| `LoneHub` | one hub process per database, foreign keys enforced | a second hub's startup takes over a live task (section 4, 1) |
| `~DbFaults` | no update raises | `AnnouncementsTrue` is false: `MarkRunning` raises on a PENDING row, `quantize.failed` goes out, the process dies before the row is marked, and the next start completes the task |
| `FlipCommits` | the flip to RUNNING does not raise | a bench task under a PENDING row (section 4, limits) |
| `Honoured` | servers honour `Range`, the last update of a download commits | section 3 |

**QuantizeTasksProofs.**

- `TypeCorrect` and `SlotsAlwaysAccounted` are proved together. `free` stays
  within `0 .. Concurrency` only because a coroutine that releases holds a
  slot, and that is `SlotsAccounted`. Each action leaves the holders of a hub
  alone, adds one, removes one or empties them (`SlotStep`).
- `OutputsAlwaysLinked` needs that a row with an output is never handed to a new
  request (`OutputInv`), and that a coroutine exists only for a committed row
  (`OwnerInv`). It holds with several hubs, database faults and without foreign
  keys: the single transaction is enough.
- `LoneHubCompletes`, `LoneHubFinal` (`LoneHub`). `CompletedIffOutput` is not
  inductive: a coroutine at "finishing" whose row had been failed by somebody
  else would create an output. `RowAgrees` says what each control point knows
  about its row, `WorklistAgrees` that the startup loop still finds the rows it
  listed as it listed them.
- `LoneHubCompletionsDurable` (`LoneHub`), `LoneHubAnnouncements` (`LoneHub`,
  `~DbFaults`): what was announced is what the row says, for good. A completion
  needs only the lone hub, a failure also that no update raises.

**BackgroundJobsProofs.** `TypeCorrect`; `VerdictsEarned` (a fan-out reads completed
only if it had a target and every node accepted it, and partial only if they
disagreed), which needs that a fan-out at work has no verdict yet, also after a
restart (`FanoutInv`); `RestartAlwaysSafe` and `BenchNeverRepeated` (`FlipCommits`),
whatever else the database refuses: a row that a runner could not end is one of
`lost`, the restart ends it or takes it up again, and a restart leaves no row behind
itself. `RunnersImplementLifecycle` is the refinement: under the mapping of
`BackgroundJobs` every step of the evaluation, merge and fan-out runners and of
their reconciliation is a step of `JobLifecycle` or changes nothing it sees. What
`JobLifecycle` promises follows for the runners: `ProductAlwaysMatches` (a product
exists for the completed jobs and no others) and `EndedAlwaysFinal`.

**StorageProofs.** The cache: `IndexAlwaysPersisted` and
`RecencyAlwaysPersisted` need `StampsInOrder`: no stamp lies in the future, and
the saved stamps never pass those in memory, also in the middle of a prune, when
the entries already dropped from memory are still on disk. `TypeCorrect`, and
`DiskAlwaysWithinBudget`. A gc counts entries, several of which may name one file,
and subtracts a shared file once: what it keeps is still within the limit
(`CountedIsEnough`), files that no entry names go as well (`GcKeepsWithinCap`), and
until the next gc no file appears that no copy began since: a copy whose file was
unlinked does not bring it back (`CopyWhole`).
The uploads: `FilesAlwaysRecorded` and `DeletionAlwaysTrue`. The invariant
(`UploadsInv`) is one statement per label, because labels share nothing but the
model: what the row knows of its file (`RowRight`), what each request at each of
its points knows of the bytes it has written (`WriterRight`), the same for URL
downloads (`FetcherRight`), and that a deleted model leaves nothing (`Emptied`);
each is stated for labels no other actor has touched, as in the property.

**RegistryProofs.** Versions: `TypeCorrect`, `PublishedAlwaysTested`,
`ReclaimedAlwaysRetired`, `MergesAlwaysLeave`. What a stale row says was once true,
and the properties are about the past: `RowsEarned` says that a status or a score,
in the table or in some session, is one the version has come by (`Earned`);
`RequestsAgree` what each request knows at each of its points, so that a status
change that passed its checks may be written whatever the row reads by then;
`RowsThere` that a session remembers only rows that exist. What was given up is
accounted for at each step (`LossesKept`): by the version's retirement, by the dedup
that holds it (`Retiring`), or, once that has died or met an error, by `cut`. A
branch is closed only by a merge that has created its version, and rows are never
deleted (`RowsStay`), so the version is there when the branch closes
(`MergesThere`). HubSync: `RowsAlwaysTrue` and `SyncAlwaysHonest`. A row may take
bytes only from the model whose id the request holds, hence `IdsKnown` (an id held
by a request is never given to another model), `NamesAgree` (the request and the row
agree on the name) and `Unspoilt` (what an undisturbed stream wrote is still there
when it is recorded). Each action does one of a few moves (`IdsMove`, `NamesMove`,
`BytesMove`, `StreamsMove`), and each move keeps its conjunct. A push comes to its
answer by the insert or by the update (`LeadsTo`), and both are looked at.

**OutboundProofs.** `FilesAlwaysTrue` (`Honoured`): files of any length, any
number of retries, DELETEs at every await, crashes and faults. The invariant
(`DInv`) says what the worker knows on the way: the row never counts a block that
the `.part` lacks (`SavedIsThere`), the blocks written since the attempt began
are the ones hashed (`HashIsTail`), hence a hash that is the whole file's was
begun with an empty `.part`, and the two are the same sequence. That is why a
verified file is right although a resumed hash is wrong. `AdviceAlwaysTrue`: all
of `AdviceTrue`, for a clock without a bound. No stamp of the cached profile is
later than the look at the machine it stands for, each request's times are in
the order of its awaits, and no list of recommendations puts a model above one
of a better rank (`Rank` depends on `Fit`). `WidthsFit` is about the two
functions that choose a width.

**ServingProofs.** `BooksAlwaysTrue` (`RunningWasLoaded`, `TableTruth`) and
`SweepAlwaysFair`. `TableTruth` is about what a request did before it wrote, so
the invariant (`SInv`) follows each request: one about to record a load has its
model's name on the engine, or one of the three reasons for its absence (`Holds`);
an unload ends in a step that drops the record, and whatever record it does not drop,
of the same name or about to be made, goes into `overtaken`. Models may share names
in any way. The sweep works on records that are there
(`Sweeps`), which needs the lock: there is one sweep, and while it runs nobody
else adds or drops a record. A deployment under way has its id to itself until
the row is there (`Creates`), so the row that is marked names the node that was
asked.
The cluster: `RoutesAlwaysWell` and `SyncAlwaysTruthful`. A list of nodes is right
if it names each node of a set once (`Lists`); a listing is, because no two rows
were created at once (`CreatedInTurn`), and rotating it or dropping its head keeps
it so. The invariant of a request (`CallRight`) is that its list is such a list,
holds every node it has not tried, and none that has taken the model: so a
request that gives up has tried them all, and each acceptance has a taker of its
own. That starts are even is arithmetic: `Turns(t)` says that the last starts are
the entries of the list from place `t` on, modulo its length, and that the counter
points to the next; fewer than a list's length of successive places are
different, and a row that comes later changes no order among the others
(`OrderKept`).

**CatalogProofs.** A step of the catalogue is a step of each of its parts or leaves
it alone, so each part has an invariant of its own. `QuorumAlwaysReal`
(`ApprovalsInv`): every call that decides holds a set of names each of which is that
of somebody who has signed or a part of it (`DecidersTrue`, `Entries`); where no
name has a comma the names are the people (`SplitFacts`). `BackupsAlwaysTrue`
(`BackupsInv`): while nobody disturbs it a backup that is paging holds exactly the
pages read so far (`QuietPages`), and the newest complete file survives rotation
(`NewestWhole`). `CatalogAlwaysTrue`: events are about commits that happened and go
to their tenant's hooks (`SentTrue`), approvals, locks and favorites find their
models, and marks added by overlapping calls are counted by the calls that add them
(`MarksCounted`). The bound on tries is inductive only with `TriesLeft`: a delivery
pauses only when it has a try left.

**AccessProofs.** `AdmissionAlwaysTrue`: a key that was revoked before a request
arrived is not admitted (`LateRevoked`), and no key passes its limit within a
window. The second relates the times a key has passed, which are history, to the
window of its prefix, which is pruned and evicted (`Tracked`, `RateBound`).
`TenantsAlwaysThere`: no row names a tenant that is gone, in every mode.
`TenantsAlwaysTrue`: moreover, where keys decide, a key that an admin's request makes
belongs to the tenant in the request's `X-Fusion-Tenant` header or else to that of the
admin's key, because the request carries its key's role and that tenant (`Stamped`)
and the maker's row never changes them.

**What the proofs changed in the model.** An attempted proof that fails is a
question about the model. `Abandon` of `JobLifecycle` takes a set of jobs,
because `FailFanouts` fails several rows in one transaction; with one job a step
the refinement holds on the run's single fan-out and is false with two. Two
`CASE`s, in the fit of a recommendation and in the end of a copy, had arms that
overlap, which TLA+ leaves open and TLC resolves by the first: they are `IF`
chains now, in the order of the code. The windows of `Access` remember each key's
passages in order, which is what the limit is about. The rows of `ClusterNodes`
carry their creation instead of standing in one list, because a selection from a
list is beyond the prover; and the two reads of `sync-model` are two steps, where
one had a node that beat between them left out.

**Only model-checked.** The liveness properties (`EveryTaskEnds`, `EveryJobEnds`,
`DownloadStops`, `EveryDeliveryEnds`, `WrongfullyReapedReturns`, `ShellReturns`):
fairness and `ENABLED` are beyond the prover. Every invariant and every action
property of the runs is the statement of a theorem.

## 6. Not modelled

- Rows without a protocol: ratings, presets, benchmarks, metrics, model status,
  tags and modules, the PATCH of a tenant and the PUT of a role, the PATCH and
  DELETE of an evaluation, branches that are created or deleted without a merge.
  One commit each, and nothing else reads what they write in between.
- `routers/quantize.py` beyond submission and merges: presets, calibration data,
  batches and layers only build requests for the modelled runner.
- Transformations and scans of bytes (converter, base binding, encryption,
  watermarks, security scans, LFS objects): pure functions over files.
- HTTP clients and presentation (SDK, CLI, web front end, remote search), and
  scripts (`ci/`, migrations, configuration).
- The periodic loops of the hub that only write metrics; logging, progress values,
  the wording of errors.
- Download speed limits, which the code stores and never applies.
- Names put together from parts: paths, upload ids and URLs are model values,
  chosen equal exactly where the code makes them equal.

The map of `PROJECT.json` names a third of the implementation's lines. The rest is
of these kinds, or builds queries and responses around control that is modelled;
the components in `PROJECT.json` say it part by part.

## 7. Plan

Done: the runners with their recovery, downloads, cache, versions, uploads,
registry and synchronisation, deployments and inference, cluster nodes, access,
catalogue, advice and the console's registration; every safety property of the
runs proved.

Next, in this order:

1. Two hub processes in `Versions` and `Access`: what a second process's caches
   and sessions add (a key cache cleared in one process only).
2. `Serving` with `ClusterNodes`: deployments on nodes that the reaper marks
   while they serve.
