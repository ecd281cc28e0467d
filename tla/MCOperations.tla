---------------------------- MODULE MCOperations ----------------------------
(***************************************************************************)
(* Small instances of the operator's and the scheduler's components for    *)
(* TLC, one at a time: an initial state picks the scene. The components    *)
(* that theorems are about are extended, with variables of their own at    *)
(* rest in another scene; v1, v2, ... are the variables of the other one.  *)
(***************************************************************************)
EXTENDS RestoreRuns, BackupRuns, JobRetention, SourceSync, KeyRotation, MirrorSync, StoredFiles,
        SubjectRequest, StreamedDump, TLC

CONSTANTS p1, p2, file1, file2, file3

VARIABLES scene, v1, v2, v3, v4, v5, v6, v7, v8, v9, v10, v11

others == <<v1, v2, v3, v4, v5, v6, v7, v8, v9, v10, v11>>
runVars == <<vars, backupVars, dumpVars, retentionVars, syncVars>>
storeVars == <<rotationVars, mirrorVars, fileVars, subjectVars>>
operationVars == <<scene, others, runVars, storeVars>>
Unused == "unused"
TwoLayouts == {<<"path", "path", "other", "index", "cascade">>,
               <<"path", "fast", "other", "protect", "cascade">>}

\* An XLSX export on two hosts whose volumes vanish, published to a remote storage.
X == INSTANCE ExportJob WITH
  Workers <- Processes, NodeOf <- [w \in Processes |-> w], Pks <- {1, 2, 3}, Fixed <- {1, 3},
  ChunkSize <- 2, Format <- "xlsx", Remote <- TRUE, VolumesSurvive <- FALSE, PowerLoss <- FALSE,
  OperatorResets <- TRUE, MaxFaults <- 2,
  job <- v1, pc <- v2, mem <- v3, batch <- v4, sheet <- v5, disk <- v6, published <- v7,
  table <- v8, delivery <- v9, web <- v10, faults <- v11

\* A deploy: the settings, what manage.py check says of them, and their use.
K == INSTANCE StartupChecks WITH
  feature <- v1, settings <- v2, checked <- v3, reported <- v4, failed <- v5

-----------------------------------------------------------------------------
NoRestore == Init /\ live = Holding(0) /\ ~encrypted /\ engine = "sqlite"
NoBackup == BackupInit /\ ~aligned
NoDumps == DumpInit /\ ~age
NoRetention == RetentionInit
NoSyncs == SyncInit /\ strategy = "keyset" /\ ~mirrored /\ Present = {}
NoRotation == RotationInit /\ Stored = {}
NoMirror == MirrorInit /\ Alive = {}
NoFiles == flags = {} /\ holds = [k \in FileRows |-> NoFileRow] /\ FilesInit
NoSubject == records = [k \in Records |-> NotYet] /\ SubjectInit /\ kind[2] = "path"
NoRuns == NoRestore /\ NoBackup /\ NoDumps /\ NoRetention /\ NoSyncs
NoStores == NoRotation /\ NoMirror /\ NoFiles /\ NoSubject
Unchosen == /\ v1 = Unused /\ v2 = Unused /\ v3 = Unused /\ v4 = Unused /\ v5 = Unused /\ v6 = Unused
            /\ v7 = Unused /\ v8 = Unused /\ v9 = Unused /\ v10 = Unused /\ v11 = Unused

\* Recipients make a difference to the .env alone: SQLite with and
\* without them. Three snapshots are taken where the other settings are plain.
InitRestore == scene = "restore" /\ Init /\ (encrypted => engine = "sqlite") /\ NoBackup /\ NoDumps /\ NoRetention /\ NoSyncs /\ NoStores
Restore == /\ scene = "restore" /\ Next
           /\ taken' = MaxRuns => engine = "sqlite" /\ ~encrypted
           /\ UNCHANGED <<scene, others, backupVars, dumpVars, retentionVars, syncVars, storeVars>>

InitBackup == scene = "backup" /\ BackupInit /\ NoRestore /\ NoDumps /\ NoRetention /\ NoSyncs /\ NoStores
Backup == /\ scene = "backup" /\ BackupNext
          /\ UNCHANGED <<scene, others, vars, dumpVars, retentionVars, syncVars, storeVars>>

InitDump == scene = "dump" /\ DumpInit /\ NoRestore /\ NoBackup /\ NoRetention /\ NoSyncs /\ NoStores
Dump == /\ scene = "dump" /\ DumpNext
        /\ UNCHANGED <<scene, others, vars, backupVars, retentionVars, syncVars, storeVars>>

\* Export jobs and reindex jobs share no step but the deletion of rows: one kind
\* moves. Two workers share no file: one works at a time, and the purge beside it;
\* the second purge meets one job and what the other has left.
InitRetention == scene = "retention" /\ NoRuns /\ NoStores
Retention == /\ scene = "retention" /\ RetentionNext
             /\ \/ \A j \in Exports : exportJobs'[j] = NewJob
                \/ \A j \in Reindexes : reindex'[j] = NewJob
             /\ \E j \in Exports : /\ attempt'[j] = "none"
                                   /\ purges' = MaxPurges => exportJobs'[j] \in {NewJob, GoneJob}
             /\ UNCHANGED <<scene, others, vars, backupVars, dumpVars, syncVars, storeVars>>

InitSync == scene = "sync" /\ SyncInit /\ NoRestore /\ NoBackup /\ NoDumps /\ NoRetention /\ NoStores
Sync == /\ scene = "sync" /\ SyncNext
        /\ UNCHANGED <<scene, others, vars, backupVars, dumpVars, retentionVars, storeVars>>

InitRotation == scene = "rotation" /\ RotationInit /\ NoRuns /\ NoMirror /\ NoFiles /\ NoSubject
Rotation == /\ scene = "rotation" /\ RotationNext
            /\ UNCHANGED <<scene, others, runVars, mirrorVars, fileVars, subjectVars>>

\* Two rows and one writer at a time beside a reindex, which writes one version
\* fewer, or two writers of one row.
InitMirror == /\ MirrorInit /\ NoRuns /\ NoRotation /\ NoFiles /\ NoSubject
              /\ \/ scene = "mirror"
                 \/ scene = "shared row" /\ Alive \subseteq {1}
Mirror == /\ scene \in {"mirror", "shared row"} /\ MirrorNext
          /\ IF scene = "mirror" THEN /\ writes' < MaxWrites
                                      /\ \E w \in Writers : \A v \in Writers \ {w} : doing'[v] = Free
                                ELSE Alive' \subseteq {1}
          /\ UNCHANGED <<scene, others, runVars, rotationVars, fileVars, subjectVars>>

\* The last edit is made by, or leaves, a session that is alone.
InitFiles == scene = "files" /\ FilesInit /\ NoRuns /\ NoRotation /\ NoMirror /\ NoSubject
FileCleanup == /\ scene = "files" /\ FilesNext
               /\ fileEdits' = MaxFileEdits => \E s \in Sessions : session'[s] = NoInstance
               /\ UNCHANGED <<scene, others, runVars, rotationVars, mirrorVars, subjectVars>>

\* "f" is the first file that is named, as either may be.
InitSubject == /\ scene = "subject" /\ SubjectInit
               /\ \A k \in Records : records[k] = "g" => \E j \in 1..k : records[j] = "f"
               /\ NoRuns /\ NoRotation /\ NoMirror /\ NoFiles
Subject == /\ scene = "subject" /\ SubjectNext
           /\ UNCHANGED <<scene, others, runVars, rotationVars, mirrorVars, fileVars>>

InitWorkbook == scene = "workbook" /\ X!Init /\ NoRuns /\ NoStores
Workbook == scene = "workbook" /\ X!Next /\ UNCHANGED <<scene, runVars, storeVars>>

InitDeploy == /\ scene = "deploy" /\ K!Init /\ NoRuns /\ NoStores
              /\ v6 = Unused /\ v7 = Unused /\ v8 = Unused /\ v9 = Unused /\ v10 = Unused /\ v11 = Unused
Deploy == /\ scene = "deploy" /\ K!Next
          /\ UNCHANGED <<scene, v6, v7, v8, v9, v10, v11, runVars, storeVars>>

OperationsInit ==
  \/ /\ Unchosen
     /\ \/ InitRestore \/ InitBackup \/ InitDump \/ InitRetention \/ InitSync
        \/ InitRotation \/ InitMirror \/ InitFiles \/ InitSubject
  \/ InitWorkbook \/ InitDeploy
OperationsNext ==
  \/ Restore \/ Backup \/ Dump \/ Retention \/ Sync \/ Rotation \/ Mirror \/ FileCleanup \/ Subject
  \/ Workbook \/ Deploy

OperationsSpec == OperationsInit /\ [][OperationsNext]_operationVars

Symmetry == Permutations(Processes)

-----------------------------------------------------------------------------
(* The properties of the components that are instantiated, each in its     *)
(* scene; the others are those of the modules this one extends.            *)

\* ExportJob: no attempt, however it ends, leaves a partial workbook to be downloaded.
WorkbookWhole == scene = "workbook" => X!WorkbookWhole

\* StartupChecks: what goes wrong with a setting is named by a check, or a known gap.
ChecksHonest == scene = "deploy" => K!ChecksHonest
=============================================================================
