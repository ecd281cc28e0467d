------------------------------ MODULE JobRetention ------------------------------
(***************************************************************************)
(* The purge of finished export and reindex jobs and of the files the      *)
(* exports published (purge_expired_export_jobs, exporting.py), against    *)
(* the workers that go on exporting into the same storage.  Ages are two:  *)
(* past the retention window or not; a file is as old as its last write.   *)
(***************************************************************************)
EXTENDS FiniteSets, Naturals

CONSTANTS Exports,     \* export jobs
          Reindexes,   \* reindex jobs
          MaxPurges,     \* runs of the purge
          MaxStorageFaults    \* storage calls that raise

ASSUME RetentionAssumption == MaxPurges \in Nat /\ MaxStorageFaults \in Nat

VARIABLES
  exportJobs,     \* the export job rows; old: finished_at is past the window
  attempt,  \* what a worker does with every export job
  reindex,  \* the reindex job rows
  exportFiles,    \* the age of the file every export writes, "none" if there is none
  purge,    \* the running purge
  rerun,    \* history: the exports last claimed while a purge was to delete their file
  purges, storageFaults

retentionVars == <<exportJobs, attempt, reindex, exportFiles, purge, rerun, purges, storageFaults>>
workerVars == <<exportJobs, attempt, rerun>>

JobStatuses == {"pending", "processing", "completed", "failed", "cancelled"}
Finished == {"completed", "failed", "cancelled"}
NewJob == [status |-> "pending", old |-> FALSE, named |-> FALSE]
GoneJob == [NewJob EXCEPT !.status = "gone"]
NoPurge == [phase |-> "idle", todo |-> {}, pks |-> {}, known |-> {}, sweep |-> {}, orphan |-> {}, failed |-> FALSE]

Expired(job) == job.status \in Finished /\ job.old

RetentionInit ==
  /\ exportJobs = [j \in Exports |-> NewJob]
  /\ attempt = [j \in Exports |-> "none"]
  /\ reindex = [j \in Reindexes |-> NewJob]
  /\ exportFiles = [j \in Exports |-> "none"]
  /\ purge = NoPurge /\ rerun = {}
  /\ purges = 0 /\ storageFaults = 0

--------------------------------------------------------------------------------
(* The workers.  A local export writes its file where it is published.      *)

\* A job that failed is claimed as one that is pending; finished_at stays.
ClaimExport(j) ==
  /\ attempt[j] = "none" /\ exportJobs[j].status \in {"pending", "failed"}
  /\ exportJobs' = [exportJobs EXCEPT ![j].status = "processing"]
  /\ attempt' = [attempt EXCEPT ![j] = "claimed"]
  /\ rerun' = IF j \in purge.todo THEN rerun \union {j} ELSE rerun \ {j}
  /\ UNCHANGED <<reindex, exportFiles, purge, purges, storageFaults>>

\* The row names the file before there is one.
NameFile(j) ==
  /\ attempt[j] = "claimed" /\ exportJobs[j].status # "gone"
  /\ exportJobs' = [exportJobs EXCEPT ![j].named = TRUE]
  /\ attempt' = [attempt EXCEPT ![j] = "named"]
  /\ UNCHANGED <<reindex, exportFiles, purge, rerun, purges, storageFaults>>

\* The file is begun, or opened and truncated to the checkpoint of an earlier attempt.
OpenFile(j) ==
  /\ attempt[j] = "named"
  /\ exportFiles' = [exportFiles EXCEPT ![j] = "young"]
  /\ attempt' = [attempt EXCEPT ![j] = "writing"]
  /\ UNCHANGED <<exportJobs, reindex, purge, rerun, purges, storageFaults>>

\* Batches go to the open file: a file deleted meanwhile is not made again.
EndExport(j, status) ==
  /\ exportJobs[j].status \in {"processing", "cancelled"}
  /\ \/ status = "completed" /\ attempt[j] = "writing"
     \/ status = "failed" /\ attempt[j] # "none"
  /\ exportJobs' = [exportJobs EXCEPT ![j].status = status, ![j].old = FALSE]
  /\ attempt' = [attempt EXCEPT ![j] = "none"]
  /\ UNCHANGED <<reindex, exportFiles, purge, rerun, purges, storageFaults>>

\* The worker dies, sees that its job is cancelled, or finds no row to save to.
QuitExport(j) ==
  /\ attempt[j] # "none"
  /\ attempt' = [attempt EXCEPT ![j] = "none"]
  /\ UNCHANGED <<exportJobs, reindex, exportFiles, purge, rerun, purges, storageFaults>>

\* The API cancels a job that is not finished.
CancelExport(j) ==
  /\ exportJobs[j].status \in {"pending", "processing"}
  /\ exportJobs' = [exportJobs EXCEPT ![j].status = "cancelled", ![j].old = FALSE]
  /\ UNCHANGED <<attempt, reindex, exportFiles, purge, rerun, purges, storageFaults>>

\* The operator resets a job whose worker died.
ResetExport(j) ==
  /\ exportJobs[j].status = "processing" /\ attempt[j] = "none"
  /\ exportJobs' = [exportJobs EXCEPT ![j].status = "pending"]
  /\ UNCHANGED <<attempt, reindex, exportFiles, purge, rerun, purges, storageFaults>>

\* A finished_at is stamped on every end but a reindex's cancel.
EndReindex(j, status) ==
  /\ reindex[j].status \in {"pending", "failed"}
  /\ reindex' = [reindex EXCEPT ![j].status = status, ![j].old = status = "cancelled" /\ @]
  /\ UNCHANGED <<workerVars, exportFiles, purge, purges, storageFaults>>

\* The retention window passes over everything written and finished so far.  It
\* is days long: no attempt lasts that long, and a purge reads the clock once.
WindowPasses ==
  /\ purge = NoPurge /\ \A j \in Exports : attempt[j] = "none"
  /\ exportJobs' = [j \in Exports |-> [exportJobs[j] EXCEPT !.old = exportJobs[j].status \in Finished]]
  /\ reindex' = [j \in Reindexes |->
                   [reindex[j] EXCEPT !.old = reindex[j].status \in {"completed", "failed"}]]
  /\ exportFiles' = [j \in Exports |-> IF exportFiles[j] = "none" THEN "none" ELSE "old"]
  /\ UNCHANGED <<attempt, purge, rerun, purges, storageFaults>>

\* A row removed by hand leaves its file, and its worker.
RemoveRow(j) ==
  /\ exportJobs[j].status # "gone"
  /\ exportJobs' = [exportJobs EXCEPT ![j] = GoneJob]
  /\ UNCHANGED <<attempt, reindex, exportFiles, purge, rerun, purges, storageFaults>>

--------------------------------------------------------------------------------
(* The purge.                                                               *)

StartPurge ==
  /\ purge = NoPurge
  /\ purges < MaxPurges
  /\ purges' = purges + 1
  /\ LET expired == { j \in Exports : Expired(exportJobs[j]) } IN
       purge' = [NoPurge EXCEPT !.phase = "files", !.todo = expired, !.pks = expired]
  /\ UNCHANGED <<workerVars, reindex, exportFiles, storageFaults>>

\* One published file, deleted if it exists; a failure is recorded.  The row is
\* the one selected at the start, whatever became of it since.
DeleteFile(j) ==
  /\ purge.phase = "files" /\ j \in purge.todo
  /\ \/ /\ exportFiles' = [exportFiles EXCEPT ![j] = "none"]
        /\ purge' = [purge EXCEPT !.todo = @ \ {j}]
        /\ UNCHANGED storageFaults
     \/ /\ exportFiles[j] # "none" /\ storageFaults < MaxStorageFaults
        /\ storageFaults' = storageFaults + 1
        /\ purge' = [purge EXCEPT !.todo = @ \ {j}, !.failed = TRUE]
        /\ UNCHANGED exportFiles
  /\ UNCHANGED <<workerVars, reindex, purges>>

\* The rows go together, by their keys, and only if every file went.
Deleted == IF purge.failed THEN {} ELSE purge.pks

DeleteRows ==
  /\ purge.phase = "files" /\ purge.todo = {}
  /\ exportJobs' = [j \in Exports |-> IF j \in Deleted THEN GoneJob ELSE exportJobs[j]]
  /\ reindex' = [j \in Reindexes |->
       IF reindex[j].status \in {"completed", "failed"} /\ reindex[j].old THEN GoneJob ELSE reindex[j]]
  /\ purge' = [purge EXCEPT !.phase = "known", !.pks = {}]
  /\ UNCHANGED <<attempt, exportFiles, rerun, purges, storageFaults>>

\* The names the rows claim, read before the storage is listed.
Claimed == { j \in Exports : exportJobs[j].named }

ReadNames ==
  /\ purge.phase = "known"
  /\ purge' = [purge EXCEPT !.phase = "list", !.known = Claimed]
  /\ UNCHANGED <<workerVars, reindex, exportFiles, purges, storageFaults>>

List ==
  /\ purge.phase = "list"
  /\ purge' = [purge EXCEPT !.phase = "sweep",
                 !.sweep = { j \in Exports : exportFiles[j] # "none" } \ purge.known]
  /\ UNCHANGED <<workerVars, reindex, exportFiles, purges, storageFaults>>

\* Mutant: the age of the file is not looked at.
IsUnclaimed(j) == exportFiles[j] # "none"

\* An orphan: no row claims it and its last write is past the window.
IsOrphan(j) == exportFiles[j] = "old"

\* The generator looks at the age of the next file and hands out an orphan, ...
NextOrphan(j) ==
  /\ purge.phase = "sweep" /\ purge.orphan = {} /\ j \in purge.sweep
  /\ purge' = [purge EXCEPT !.sweep = @ \ {j}, !.orphan = IF IsOrphan(j) THEN {j} ELSE {}]
  /\ UNCHANGED <<workerVars, reindex, exportFiles, purges, storageFaults>>

\* ... which the loop deletes by its name, or fails to.
SweepFile(j) ==
  /\ purge.orphan = {j}
  /\ purge' = [purge EXCEPT !.orphan = {}]
  /\ \/ exportFiles' = [exportFiles EXCEPT ![j] = "none"] /\ UNCHANGED storageFaults
     \/ storageFaults < MaxStorageFaults /\ storageFaults' = storageFaults + 1 /\ UNCHANGED exportFiles
  /\ UNCHANGED <<workerVars, reindex, purges>>

EndPurge ==
  /\ purge.phase = "sweep" /\ purge.sweep = {} /\ purge.orphan = {}
  /\ purge' = NoPurge
  /\ UNCHANGED <<workerVars, reindex, exportFiles, purges, storageFaults>>

RetentionNext ==
  \/ \E j \in Exports : \/ ClaimExport(j) \/ NameFile(j) \/ OpenFile(j) \/ QuitExport(j) \/ CancelExport(j) \/ ResetExport(j)
                        \/ RemoveRow(j) \/ DeleteFile(j) \/ NextOrphan(j) \/ SweepFile(j)
                        \/ \E s \in {"completed", "failed"} : EndExport(j, s)
  \/ \E j \in Reindexes, s \in Finished : EndReindex(j, s)
  \/ WindowPasses \/ StartPurge \/ DeleteRows \/ ReadNames \/ List \/ EndPurge

RetentionSpec == RetentionInit /\ [][RetentionNext]_retentionVars

--------------------------------------------------------------------------------
(* Properties.                                                              *)

\* The types of the variables.
RetentionTypeOK ==
  /\ \A j \in Exports : exportJobs[j].status \in JobStatuses \union {"gone"}
  /\ exportFiles \in [Exports -> {"none", "young", "old"}]
  /\ purge.todo \subseteq purge.pks

\* A completed job within the window keeps its file, and while it writes it too:
\* exports that start, write and complete while a purge runs are neither of its
\* rows nor orphans.  The one exception is an expired failed job that is claimed
\* again after a purge selected it and before that purge came to its file.
UnexpiredKept ==
  \A j \in Exports \ rerun :
     \/ exportJobs[j].status = "completed" /\ ~exportJobs[j].old
     \/ exportJobs[j].status = "processing" /\ attempt[j] = "writing"
     => exportFiles[j] # "none"

\* What the documentation says of the rows a purge deletes: they are finished and
\* past the window.  A purge deletes by keys it selected before it deleted files,
\* so that a failed job claimed again in between goes with the file it wrote.
OnlyExpiredPurged ==
  [][DeleteRows => \A j \in Deleted : exportJobs[j].status = "gone" \/ Expired(exportJobs[j])]_retentionVars
================================================================================
