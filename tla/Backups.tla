------------------------------ MODULE Backups ------------------------------
(***************************************************************************)
(* The automatic backup of models and versions (server/backup.py) and the  *)
(* restore command that reads it back.  The versions are read first, then  *)
(* the models page by page, in the order of their last update; the rows    *)
(* change meanwhile.                                                       *)
(***************************************************************************)
EXTENDS Naturals, Sequences, SequencesExt

CONSTANTS PageSize,   \* _BACKUP_PAGE_SIZE
          MaxFiles,   \* BACKUP_MAX_FILES
          MaxBackups  \* bound: backups begun

ASSUME BackupsAssumption ==
  PageSize \in Nat \ {0} /\ MaxFiles \in Nat \ {0} /\ MaxBackups \in Nat

VARIABLES backup,   \* the scheduler: what it is doing, and what it has read;
                    \* history: quiet, no row has changed since it began
          files,    \* the backup directory, oldest first
          begun,
          completed, \* history: the number of the last backup that completed
          restore   \* the restore command

backupVars == <<backup, files, begun, completed, restore>>

Asleep == [pc |-> "asleep", versions |-> {}, page |-> 0, models |-> <<>>, held |-> {},
           quiet |-> FALSE]
NotRestoring == [pc |-> "none", n |-> 0, models |-> {}, versions |-> {}]

BackupsInit ==
  /\ backup = Asleep
  /\ files = <<>>
  /\ begun = 0
  /\ completed = 0
  /\ restore = NotRestoring

BackupsTypeOK ==
  /\ backup.pc \in {"asleep", "paging", "writing"}
  /\ backup.held \subseteq backup.versions /\ backup.quiet \in BOOLEAN
  /\ begun \in 0..MaxBackups /\ completed \in 0..begun
  /\ \A i \in DOMAIN files : files[i].n \in 1..begun /\ files[i].whole \in BOOLEAN
  /\ restore.pc \in {"none", "read"}
-----------------------------------------------------------------------------
\* all versions in one query; a version is named by its model
ReadVersions(versions) ==
  /\ backup.pc = "asleep" /\ begun < MaxBackups
  /\ begun' = begun + 1
  /\ backup' = [pc |-> "paging", versions |-> versions, page |-> 0, models |-> <<>>,
                held |-> {}, quiet |-> TRUE]
  /\ UNCHANGED <<files, completed, restore>>

\* list_models: a page of the rows, most recently updated first
Page(models, p) ==
  SubSeq(models, p * PageSize + 1, IF (p + 1) * PageSize < Len(models) THEN (p + 1) * PageSize
                                   ELSE Len(models))

\* the versions of the models on the page, out of those read before
HeldOf(page) == backup.versions \cap ToSet(page)

\* the first page is number 0 here; an empty page ends the loop too
LastPageSoon(p, total) == (p + 2) * PageSize >= total
LastPage(p, total)     == (p + 1) * PageSize >= total

ReadPage(models) ==
  /\ backup.pc = "paging"
  /\ LET page == Page(models, backup.page)
         last == page = <<>> \/ LastPage(backup.page, Len(models))
     IN backup' = [backup EXCEPT !.models = @ \o page, !.held = @ \cup HeldOf(page),
                                 !.page = @ + 1, !.pc = IF last THEN "writing" ELSE "paging"]
  /\ UNCHANGED <<files, begun, completed, restore>>

File(whole) ==
  [n |-> begun, whole |-> whole, models |-> backup.models, versions |-> backup.held]

\* the newest files by modification time are kept, whole or not
Rotate(fs) == IF Len(fs) > MaxFiles THEN SubSeq(fs, Len(fs) - MaxFiles + 1, Len(fs)) ELSE fs

\* Written in place by a worker thread; older files go only afterwards, and a
\* failing rotation is only logged.
Write ==
  /\ backup.pc = "writing"
  /\ \/ files' = Rotate(Append(files, File(TRUE)))
     \/ files' = Append(files, File(TRUE))
  /\ completed' = begun
  /\ backup' = Asleep
  /\ UNCHANGED <<begun, restore>>

\* a full disk: what has been written stays behind
WriteBreaks ==
  /\ backup.pc = "writing"
  /\ files' = Append(files, File(FALSE))
  /\ backup' = Asleep
  /\ UNCHANGED <<begun, completed, restore>>

\* the worker thread may still finish the file; it is not rotated then
StopBackup ==
  /\ IF backup.pc = "writing" THEN \E whole \in BOOLEAN : files' = Append(files, File(whole))
     ELSE UNCHANGED files
  /\ backup' = Asleep
  /\ UNCHANGED <<begun, completed>>

\* The command reads a file, then the ids there are.  A torn file is refused.
RestoreRead(f, models, versions) ==
  /\ restore.pc = "none" /\ f.whole
  /\ restore' = [pc |-> "read", n |-> f.n,
                 models |-> ToSet(f.models) \ ToSet(models), versions |-> f.versions \ versions]
  /\ UNCHANGED <<backup, files, begun, completed>>
=============================================================================
