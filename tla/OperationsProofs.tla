--------------------------- MODULE OperationsProofs ---------------------------
(***************************************************************************)
(* Theorems about the scheduler's and the operator's smaller components,   *)
(* each with the inductive invariant it needs: the purge of finished jobs, *)
(* the source sync, the rotation of a keyset and the mirror.               *)
(***************************************************************************)
EXTENDS JobRetention, SourceSync, KeyRotation, MirrorSync, FiniteSetTheorems, NaturalsInduction,
        WellFoundedInduction, TLAPS

-----------------------------------------------------------------------------
(* JobRetention: the purge of finished jobs beside the workers.            *)

JobRow == [status : JobStatuses \cup {"gone"}, old : BOOLEAN, named : BOOLEAN]
Ages == {"none", "young", "old"}
Attempts == {"none", "claimed", "named", "writing"}
PurgeTypes == [phase : {"idle", "files", "known", "list", "sweep"}, todo : SUBSET Exports,
               pks : SUBSET Exports, known : SUBSET Exports, sweep : SUBSET Exports,
               orphan : SUBSET Exports, failed : BOOLEAN]

RetentionTypes ==
  /\ exportJobs \in [Exports -> JobRow] /\ attempt \in [Exports -> Attempts]
  /\ exportFiles \in [Exports -> Ages] /\ purge \in PurgeTypes

Gone(j) == exportJobs[j].status = "gone"

\* The row names its file before there is one; nobody works on an expired job.
RowFirst(j) ==
  /\ exportFiles[j] # "none" \/ attempt[j] \in {"named", "writing"} => exportJobs[j].named \/ Gone(j)
  /\ Expired(exportJobs[j]) => attempt[j] = "none"

\* The file a job is writing, or wrote within the window, is there and young.
YoungFile(j) ==
  /\ j \notin rerun
  /\ \/ exportJobs[j].status = "completed" /\ ~exportJobs[j].old
     \/ attempt[j] = "writing" /\ ~Gone(j)
  => exportFiles[j] = "young"

\* What a purge is to delete stays expired until it is gone, unless it is claimed again.
Selected(j) == j \in purge.todo => j \in rerun \/ Gone(j) \/ Expired(exportJobs[j])

\* Only a file whose row is gone is old and not among the names read.
Abandoned(j) ==
  /\ purge.phase \in {"list", "sweep"} /\ exportFiles[j] = "old" => j \in purge.known \/ Gone(j)
  /\ j \in purge.sweep => purge.phase = "sweep" /\ j \notin purge.known
  /\ j \in purge.orphan => Gone(j)

OfJob(j) == RowFirst(j) /\ YoungFile(j) /\ Selected(j) /\ Abandoned(j)

RetentionInv == RetentionTypes /\ \A j \in Exports : OfJob(j)

\* A step of the workers touches one job, and a purge that has it to do or has
\* listed its file keeps what was said of it.
LEMMA RowStep ==
  ASSUME RetentionInv, NEW j \in Exports, NEW row \in JobRow, NEW work \in Attempts, NEW age \in Ages,
         exportJobs' = [exportJobs EXCEPT ![j] = row], attempt' = [attempt EXCEPT ![j] = work],
         exportFiles' = [exportFiles EXCEPT ![j] = age], purge' = purge,
         rerun' \ {j} = rerun \ {j}, OfJob(j)'
  PROVE  RetentionInv'
<1>1. RetentionTypes'
  BY DEF RetentionInv, RetentionTypes
<1>2. ASSUME NEW k \in Exports, k # j PROVE OfJob(k)'
  <2>1. exportJobs'[k] = exportJobs[k] /\ attempt'[k] = attempt[k] /\ exportFiles'[k] = exportFiles[k]
    BY <1>2 DEF RetentionInv, RetentionTypes
  <2>2. k \in rerun' <=> k \in rerun
    BY <1>2
  <2> QED BY <2>1, <2>2 DEF RetentionInv, OfJob, RowFirst, YoungFile, Selected, Abandoned, Gone
<1> QED BY <1>1, <1>2 DEF RetentionInv

LEMMA WorkersKeep ==
  ASSUME RetentionInv, NEW j \in Exports,
         \/ ClaimExport(j) \/ NameFile(j) \/ OpenFile(j) \/ QuitExport(j) \/ CancelExport(j) \/ ResetExport(j) \/ RemoveRow(j)
         \/ \E s \in {"completed", "failed"} : EndExport(j, s)
  PROVE  RetentionInv'
<1> DEFINE row == exportJobs[j]
           At(r, work, age) == /\ exportJobs' = [exportJobs EXCEPT ![j] = r]
                                /\ attempt' = [attempt EXCEPT ![j] = work]
                                /\ exportFiles' = [exportFiles EXCEPT ![j] = age]
<1>0. /\ OfJob(j) /\ row \in JobRow /\ attempt[j] \in Attempts /\ exportFiles[j] \in Ages
      /\ exportJobs \in [Exports -> JobRow] /\ attempt \in [Exports -> Attempts] /\ exportFiles \in [Exports -> Ages]
  BY DEF RetentionInv, RetentionTypes
<1>i. /\ exportJobs = [exportJobs EXCEPT ![j] = row] /\ attempt = [attempt EXCEPT ![j] = attempt[j]]
      /\ exportFiles = [exportFiles EXCEPT ![j] = exportFiles[j]]
  BY <1>0
<1>1. CASE ClaimExport(j)
  <2> DEFINE new == [row EXCEPT !.status = "processing"]
  <2>1. /\ At(new, "claimed", exportFiles[j]) /\ purge' = purge /\ rerun' \ {j} = rerun \ {j}
        /\ row.status # "gone" /\ (j \in purge.todo => j \in rerun')
    <3>1. exportFiles' = exportFiles /\ attempt' = [attempt EXCEPT ![j] = "claimed"] /\ exportJobs' = [exportJobs EXCEPT ![j] = new]
      BY <1>1 DEF ClaimExport
    <3>2. purge' = purge /\ rerun' = IF j \in purge.todo THEN rerun \cup {j} ELSE rerun \ {j}
      BY <1>1 DEF ClaimExport
    <3> QED BY <1>1, <1>i, <3>1, <3>2 DEF ClaimExport
  <2>2. new \in JobRow /\ new.status = "processing" /\ new.named = row.named
    BY <1>0 DEF JobRow, JobStatuses
  <2>3. exportJobs'[j] = new /\ attempt'[j] = "claimed" /\ exportFiles'[j] = exportFiles[j]
    BY <2>1, <1>0
  <2> HIDE DEF new
  <2>4. OfJob(j)'
    BY <1>0, <2>1, <2>2, <2>3 DEF OfJob, RowFirst, YoungFile, Selected, Abandoned, Gone, Expired, Finished
  <2> QED BY <2>1, <2>2, <2>4, <1>0, RowStep DEF Attempts
<1>2. CASE NameFile(j)
  <2> DEFINE new == [row EXCEPT !.named = TRUE]
  <2>1. /\ At(new, "named", exportFiles[j]) /\ purge' = purge /\ rerun' = rerun
        /\ row.status # "gone" /\ attempt[j] = "claimed"
    BY <1>2, <1>i DEF NameFile
  <2>2. new \in JobRow /\ new.status = row.status /\ new.named /\ new.old = row.old
    BY <1>0 DEF JobRow
  <2>3. exportJobs'[j] = new /\ attempt'[j] = "named" /\ exportFiles'[j] = exportFiles[j]
    BY <2>1, <1>0
  <2> HIDE DEF new
  <2>4. OfJob(j)'
    BY <1>0, <2>1, <2>2, <2>3 DEF OfJob, RowFirst, YoungFile, Selected, Abandoned, Gone, Expired
  <2> QED BY <2>1, <2>2, <2>4, <1>0, RowStep DEF Attempts
<1>3. CASE OpenFile(j)
  <2>1. /\ At(row, "writing", "young") /\ purge' = purge /\ rerun' = rerun /\ attempt[j] = "named"
    <3>1. /\ exportJobs' = exportJobs /\ attempt' = [attempt EXCEPT ![j] = "writing"]
          /\ exportFiles' = [exportFiles EXCEPT ![j] = "young"]
      BY <1>3 DEF OpenFile
    <3> QED BY <1>3, <1>i, <3>1 DEF OpenFile
  <2>2. exportJobs'[j] = row /\ attempt'[j] = "writing" /\ exportFiles'[j] = "young"
    BY <2>1, <1>0
  <2>3. OfJob(j)'
    BY <1>0, <2>1, <2>2 DEF OfJob, RowFirst, YoungFile, Selected, Abandoned, Gone
  <2> QED BY <2>1, <2>3, <1>0, RowStep DEF Attempts, Ages
<1>4. CASE QuitExport(j)
  <2>1. At(row, "none", exportFiles[j]) /\ purge' = purge /\ rerun' = rerun
    BY <1>4, <1>i DEF QuitExport
  <2>2. exportJobs'[j] = row /\ attempt'[j] = "none" /\ exportFiles'[j] = exportFiles[j]
    BY <2>1, <1>0
  <2>3. OfJob(j)'
    BY <1>0, <2>1, <2>2 DEF OfJob, RowFirst, YoungFile, Selected, Abandoned, Gone
  <2> QED BY <2>1, <2>3, <1>0, RowStep DEF Attempts
<1>5. CASE CancelExport(j) \/ ResetExport(j)
  <2> PICK new \in {[row EXCEPT !.status = "cancelled", !.old = FALSE], [row EXCEPT !.status = "pending"]} :
        At(new, attempt[j], exportFiles[j])
    <3>1. attempt' = attempt /\ exportFiles' = exportFiles
      BY <1>5 DEF CancelExport, ResetExport
    <3>2. \/ exportJobs' = [exportJobs EXCEPT ![j] = [row EXCEPT !.status = "cancelled", !.old = FALSE]]
          \/ exportJobs' = [exportJobs EXCEPT ![j] = [row EXCEPT !.status = "pending"]]
      BY <1>5 DEF CancelExport, ResetExport
    <3> QED BY <1>i, <3>1, <3>2
  <2>1. purge' = purge /\ rerun' = rerun /\ row.status \in {"pending", "processing"}
    BY <1>5 DEF CancelExport, ResetExport
  <2>2. new \in JobRow /\ ~Expired(new) /\ new.status \in {"cancelled", "pending"} /\ new.named = row.named
    BY <1>0 DEF JobRow, JobStatuses, Expired, Finished
  <2>3. exportJobs'[j] = new /\ attempt'[j] = attempt[j] /\ exportFiles'[j] = exportFiles[j]
    BY <1>0
  <2>4. OfJob(j)'
    BY <1>0, <2>1, <2>2, <2>3 DEF OfJob, RowFirst, YoungFile, Selected, Abandoned, Gone, Expired, Finished
  <2> QED BY <2>1, <2>2, <2>4, <1>0, RowStep
<1>6. CASE RemoveRow(j)
  <2>1. At(GoneJob, attempt[j], exportFiles[j]) /\ purge' = purge /\ rerun' = rerun
    BY <1>6, <1>i DEF RemoveRow
  <2>2. GoneJob \in JobRow /\ GoneJob.status = "gone" /\ ~Expired(GoneJob)
    BY DEF GoneJob, NewJob, JobRow, JobStatuses, Expired, Finished
  <2>3. exportJobs'[j] = GoneJob /\ attempt'[j] = attempt[j] /\ exportFiles'[j] = exportFiles[j]
    BY <2>1, <1>0
  <2>4. OfJob(j)'
    BY <1>0, <2>1, <2>2, <2>3 DEF OfJob, RowFirst, YoungFile, Selected, Abandoned, Gone
  <2> QED BY <2>1, <2>2, <2>4, <1>0, RowStep
<1>7. ASSUME NEW s \in {"completed", "failed"}, EndExport(j, s) PROVE RetentionInv'
  <2> DEFINE new == [row EXCEPT !.status = s, !.old = FALSE]
  <2>1. /\ At(new, "none", exportFiles[j]) /\ purge' = purge /\ rerun' = rerun
        /\ row.status \in {"processing", "cancelled"} /\ attempt[j] # "none"
        /\ s = "completed" => attempt[j] = "writing"
    BY <1>7, <1>i DEF EndExport
  <2>2. new \in JobRow /\ new.status = s /\ new.old = FALSE /\ new.named = row.named
    BY <1>0 DEF JobRow, JobStatuses
  <2>3. exportJobs'[j] = new /\ attempt'[j] = "none" /\ exportFiles'[j] = exportFiles[j]
    BY <2>1, <1>0
  <2> HIDE DEF new
  <2>4. OfJob(j)'
    BY <1>0, <2>1, <2>2, <2>3 DEF OfJob, RowFirst, YoungFile, Selected, Abandoned, Gone, Expired
  <2> QED BY <2>1, <2>2, <2>4, <1>0, RowStep DEF Attempts
<1> QED BY <1>1, <1>2, <1>3, <1>4, <1>5, <1>6, <1>7

\* Every step of a purge.
LEMMA PurgeKeeps ==
  ASSUME RetentionInv,
         \/ \E j \in Exports : DeleteFile(j) \/ NextOrphan(j) \/ SweepFile(j)
         \/ StartPurge \/ DeleteRows \/ ReadNames \/ List \/ EndPurge
  PROVE  RetentionInv'
<1> USE DEF RetentionInv, RetentionTypes
<1>u. purge.todo \in SUBSET Exports /\ purge.known \in SUBSET Exports /\ purge.sweep \in SUBSET Exports
  BY DEF PurgeTypes
<1>1. ASSUME NEW j \in Exports, DeleteFile(j) PROVE RetentionInv'
  <2>1. /\ j \in purge.todo /\ exportJobs' = exportJobs /\ attempt' = attempt /\ rerun' = rerun
        /\ exportFiles' = [exportFiles EXCEPT ![j] = "none"] \/ exportFiles' = exportFiles
    BY <1>1 DEF DeleteFile, workerVars
  <2>2. /\ purge' \in PurgeTypes /\ purge'.todo \subseteq purge.todo /\ purge'.phase = purge.phase
        /\ purge'.known = purge.known /\ purge'.sweep = purge.sweep /\ purge'.orphan = purge.orphan
    BY <1>1 DEF DeleteFile, PurgeTypes
  <2>3. exportFiles' \in [Exports -> Ages] /\ \A k \in Exports : exportFiles'[k] \in {"none", exportFiles[k]}
    BY <2>1 DEF Ages
  <2>4. j \in rerun \/ Gone(j) \/ (Expired(exportJobs[j]) /\ attempt[j] = "none")
    BY <2>1 DEF OfJob, Selected, RowFirst, Expired, Gone
  <2>5. ASSUME NEW k \in Exports PROVE OfJob(k)'
    <3>1. YoungFile(k)'
      BY <2>1, <2>4 DEF OfJob, YoungFile, Gone, Expired
    <3> QED BY <2>1, <2>2, <2>3, <3>1 DEF OfJob, RowFirst, Selected, Abandoned, Gone
  <2> QED BY <2>1, <2>2, <2>3, <2>5
<1>2. ASSUME NEW j \in Exports, SweepFile(j) PROVE RetentionInv'
  <2>1. /\ j \in purge.orphan /\ exportJobs' = exportJobs /\ attempt' = attempt /\ rerun' = rerun
        /\ exportFiles' = [exportFiles EXCEPT ![j] = "none"] \/ exportFiles' = exportFiles
        /\ purge' = [purge EXCEPT !.orphan = {}]
    BY <1>2 DEF SweepFile, workerVars
  <2>2. /\ purge' \in PurgeTypes /\ purge'.todo = purge.todo /\ purge'.phase = purge.phase
        /\ purge'.known = purge.known /\ purge'.sweep = purge.sweep /\ purge'.orphan = {}
    BY <2>1 DEF PurgeTypes
  <2>3. exportFiles' \in [Exports -> Ages] /\ \A k \in Exports : exportFiles'[k] \in {"none", exportFiles[k]}
    BY <2>1 DEF Ages
  <2>4. Gone(j)
    BY <2>1 DEF OfJob, Abandoned
  <2>5. ASSUME NEW k \in Exports PROVE OfJob(k)'
    <3>1. YoungFile(k)'
      BY <2>1, <2>4 DEF OfJob, YoungFile, Gone
    <3> QED BY <2>1, <2>2, <2>3, <3>1 DEF OfJob, RowFirst, Selected, Abandoned, Gone
  <2> QED BY <2>1, <2>2, <2>3, <2>5
<1>3. ASSUME NEW j \in Exports, NextOrphan(j) PROVE RetentionInv'
  <2> DEFINE found == IF IsOrphan(j) THEN {j} ELSE {}
  <2>1. /\ j \in purge.sweep /\ purge.phase = "sweep" /\ UNCHANGED <<exportJobs, attempt, rerun, exportFiles>>
        /\ purge' = [purge EXCEPT !.sweep = @ \ {j}, !.orphan = found]
    BY <1>3 DEF NextOrphan, workerVars
  <2>2. found \in SUBSET Exports /\ \A k \in found : k = j /\ exportFiles[j] = "old"
    BY DEF IsOrphan
  <2> HIDE DEF found
  <2>3. /\ purge' \in PurgeTypes /\ purge'.todo = purge.todo /\ purge'.phase = purge.phase
        /\ purge'.known = purge.known /\ purge'.sweep \subseteq purge.sweep /\ purge'.orphan = found
    BY <1>u, <2>1, <2>2 DEF PurgeTypes
  <2>4. \A k \in found : Gone(k)
    BY <2>1, <2>2 DEF OfJob, Abandoned
  <2>5. ASSUME NEW k \in Exports PROVE OfJob(k)'
    BY <2>1, <2>3, <2>4 DEF OfJob, RowFirst, YoungFile, Selected, Abandoned, Gone
  <2> QED BY <2>1, <2>3, <2>5
<1>4. CASE StartPurge
  <2> DEFINE expired == {j \in Exports : Expired(exportJobs[j])}
  <2>1. /\ purge' = [NoPurge EXCEPT !.phase = "files", !.todo = expired, !.pks = expired]
        /\ UNCHANGED <<exportJobs, attempt, rerun, exportFiles>>
    BY <1>4 DEF StartPurge, workerVars
  <2>2. /\ purge' \in PurgeTypes /\ purge'.phase = "files" /\ purge'.todo = expired
        /\ purge'.sweep = {} /\ purge'.orphan = {}
    BY <2>1 DEF PurgeTypes, NoPurge
  <2>3. ASSUME NEW k \in Exports PROVE OfJob(k)'
    BY <2>1, <2>2 DEF OfJob, RowFirst, YoungFile, Selected, Abandoned, Gone
  <2> QED BY <2>1, <2>2, <2>3
<1>5. CASE DeleteRows
  <2>1. /\ exportJobs' = [j \in Exports |-> IF j \in Deleted THEN GoneJob ELSE exportJobs[j]]
        /\ UNCHANGED <<attempt, rerun, exportFiles>> /\ purge.todo = {} /\ purge' = [purge EXCEPT !.phase = "known", !.pks = {}]
    BY <1>5 DEF DeleteRows
  <2>2. GoneJob \in JobRow /\ GoneJob.status = "gone" /\ ~Expired(GoneJob)
    BY DEF GoneJob, NewJob, JobRow, JobStatuses, Expired, Finished
  <2>3. /\ exportJobs' \in [Exports -> JobRow]
        /\ \A j \in Exports : \/ exportJobs'[j] = exportJobs[j]
                             \/ (exportJobs'[j].status = "gone" /\ ~Expired(exportJobs'[j]))
    <3>1. \A j \in Exports : exportJobs'[j] = exportJobs[j] \/ exportJobs'[j] = GoneJob
      BY <2>1
    <3>2. exportJobs' \in [Exports -> JobRow]
      BY <2>1, <2>2
    <3>3. ASSUME NEW j \in Exports, exportJobs'[j] = GoneJob
          PROVE  exportJobs'[j].status = "gone" /\ ~Expired(exportJobs'[j])
      BY <2>2, <3>3 DEF Expired, Finished
    <3>4. \A j \in Exports : \/ exportJobs'[j] = exportJobs[j]
                         \/ (exportJobs'[j].status = "gone" /\ ~Expired(exportJobs'[j]))
      BY ONLY <3>1, <3>3
    <3> QED BY <3>2, <3>4
  <2>4. /\ purge' \in PurgeTypes /\ purge'.todo = {} /\ purge'.phase = "known"
        /\ purge'.sweep = purge.sweep /\ purge'.orphan = purge.orphan /\ purge'.known = purge.known
    BY <2>1 DEF PurgeTypes
  <2>p. purge.phase = "files"
    BY <1>5 DEF DeleteRows
  <2>5. ASSUME NEW k \in Exports PROVE OfJob(k)'
    <3>1. k \notin purge.sweep
      BY <2>p DEF OfJob, Abandoned
    <3>2. CASE exportJobs'[k] = exportJobs[k]
      BY <2>1, <2>4, <3>1, <3>2 DEF OfJob, RowFirst, YoungFile, Selected, Abandoned, Gone
    <3>3. CASE exportJobs'[k].status = "gone" /\ ~Expired(exportJobs'[k])
      BY <2>1, <2>4, <3>1, <3>3 DEF OfJob, RowFirst, YoungFile, Selected, Abandoned, Gone
    <3> QED BY <2>3, <3>2, <3>3
  <2> QED BY <2>1, <2>3, <2>4, <2>5
<1>6. CASE ReadNames
  <2>1. /\ purge.phase = "known" /\ UNCHANGED <<exportJobs, attempt, rerun, exportFiles>>
        /\ purge' = [purge EXCEPT !.phase = "list", !.known = Claimed]
    BY <1>6 DEF ReadNames, workerVars
  <2>2. /\ purge' \in PurgeTypes /\ purge'.todo = purge.todo /\ purge'.phase = "list" /\ purge'.known = Claimed
        /\ purge'.sweep = purge.sweep /\ purge'.orphan = purge.orphan
    BY <2>1 DEF PurgeTypes, Claimed
  <2>3. ASSUME NEW k \in Exports PROVE OfJob(k)'
    <3>1. exportFiles[k] = "old" => k \in Claimed \/ Gone(k)
      BY DEF OfJob, RowFirst, Claimed
    <3>2. k \notin purge.sweep
      BY <2>1 DEF OfJob, Abandoned
    <3> QED BY <2>1, <2>2, <3>1, <3>2 DEF OfJob, RowFirst, YoungFile, Selected, Abandoned, Gone
  <2> QED BY <2>1, <2>2, <2>3
<1>7. CASE List
  <2> DEFINE unclaimed == {j \in Exports : exportFiles[j] # "none"} \ purge.known
  <2>1. /\ purge.phase = "list" /\ UNCHANGED <<exportJobs, attempt, rerun, exportFiles>>
        /\ purge' = [purge EXCEPT !.phase = "sweep", !.sweep = unclaimed]
    BY <1>7 DEF List, workerVars
  <2>2. /\ purge' \in PurgeTypes /\ purge'.todo = purge.todo /\ purge'.phase = "sweep" /\ purge'.known = purge.known
        /\ purge'.sweep = unclaimed /\ purge'.orphan = purge.orphan
    BY <2>1 DEF PurgeTypes
  <2>3. ASSUME NEW k \in Exports PROVE OfJob(k)'
    BY <2>1, <2>2 DEF OfJob, RowFirst, YoungFile, Selected, Abandoned, Gone
  <2> QED BY <2>1, <2>2, <2>3
<1>8. CASE EndPurge
  <2>1. purge' = NoPurge /\ UNCHANGED <<exportJobs, attempt, rerun, exportFiles>>
    BY <1>8 DEF EndPurge, workerVars
  <2>2. purge' \in PurgeTypes /\ purge'.todo = {} /\ purge'.phase = "idle" /\ purge'.sweep = {} /\ purge'.orphan = {}
    BY <2>1 DEF PurgeTypes, NoPurge
  <2>3. ASSUME NEW k \in Exports PROVE OfJob(k)'
    BY <2>1, <2>2 DEF OfJob, RowFirst, YoungFile, Selected, Abandoned, Gone
  <2> QED BY <2>1, <2>2, <2>3
<1> QED BY <1>1, <1>2, <1>3, <1>4, <1>5, <1>6, <1>7, <1>8

LEMMA RetentionStep ==
  ASSUME RetentionInv, RetentionNext
  PROVE  RetentionInv'
<1>1. CASE WindowPasses
  <2>1. /\ exportJobs' = [j \in Exports |-> [exportJobs[j] EXCEPT !.old = exportJobs[j].status \in Finished]]
        /\ exportFiles' = [j \in Exports |-> IF exportFiles[j] = "none" THEN "none" ELSE "old"]
        /\ purge = NoPurge /\ \A j \in Exports : attempt[j] = "none"
        /\ UNCHANGED <<attempt, purge, rerun>>
    BY <1>1 DEF WindowPasses
  <2>2. ASSUME NEW j \in Exports
        PROVE  /\ exportJobs'[j] \in JobRow /\ exportJobs'[j].status = exportJobs[j].status
               /\ exportJobs'[j].named = exportJobs[j].named /\ (exportJobs'[j].old <=> exportJobs[j].status \in Finished)
    <3> DEFINE over == exportJobs[j].status \in Finished
    <3>1. exportJobs'[j] = [exportJobs[j] EXCEPT !.old = over] /\ exportJobs[j] \in JobRow
      BY <2>1 DEF RetentionInv, RetentionTypes
    <3>2. over \in BOOLEAN
      OBVIOUS
    <3> HIDE DEF over
    <3>3. /\ exportJobs'[j] \in JobRow /\ exportJobs'[j].status = exportJobs[j].status
          /\ exportJobs'[j].named = exportJobs[j].named /\ exportJobs'[j].old = over
      BY <3>1, <3>2 DEF JobRow
    <3> QED BY <3>3 DEF over
  <2>3. RetentionTypes'
    BY <2>1, <2>2 DEF RetentionInv, RetentionTypes, Ages
  <2>4. purge'.todo = {} /\ purge'.phase = "idle" /\ purge'.sweep = {} /\ purge'.orphan = {}
    BY <2>1 DEF NoPurge
  <2>5. ASSUME NEW j \in Exports PROVE OfJob(j)'
    BY <2>1, <2>2, <2>4 DEF RetentionInv, OfJob, RowFirst, YoungFile, Selected, Abandoned, Gone, Finished
  <2> QED BY <2>3, <2>5 DEF RetentionInv
<1>2. CASE \E j \in Reindexes, s \in Finished : EndReindex(j, s)
  <2>1. UNCHANGED <<exportJobs, attempt, rerun, exportFiles, purge>>
    BY <1>2 DEF EndReindex, workerVars
  <2> QED BY <2>1 DEF RetentionInv, RetentionTypes, OfJob, RowFirst, YoungFile, Selected, Abandoned, Gone
<1>3. CASE \E j \in Exports : \/ ClaimExport(j) \/ NameFile(j) \/ OpenFile(j) \/ QuitExport(j) \/ CancelExport(j) \/ ResetExport(j) \/ RemoveRow(j)
                               \/ \E s \in {"completed", "failed"} : EndExport(j, s)
  BY <1>3, WorkersKeep
<1>4. CASE \/ \E j \in Exports : DeleteFile(j) \/ NextOrphan(j) \/ SweepFile(j)
           \/ StartPurge \/ DeleteRows \/ ReadNames \/ List \/ EndPurge
  BY <1>4, PurgeKeeps
<1> QED BY <1>1, <1>2, <1>3, <1>4 DEF RetentionNext

\* An export keeps the file it writes, and a completed one keeps it for its
\* window, whatever purges run beside the workers and wherever a storage call
\* fails, unless it was claimed again while a purge was to delete its file.
THEOREM UnexpiredKeptHolds == RetentionSpec => []UnexpiredKept
<1>1. RetentionInit => RetentionInv
  <2> SUFFICES ASSUME RetentionInit PROVE RetentionInv
    OBVIOUS
  <2>1. NewJob \in JobRow /\ NewJob.status = "pending"
    BY DEF NewJob, JobRow, JobStatuses
  <2>2. /\ NoPurge \in PurgeTypes /\ NoPurge.todo = {} /\ NoPurge.phase = "idle"
        /\ NoPurge.sweep = {} /\ NoPurge.orphan = {}
    BY DEF NoPurge, PurgeTypes
  <2>3. RetentionTypes
    BY <2>1, <2>2 DEF RetentionInit, RetentionTypes, Attempts, Ages
  <2>4. ASSUME NEW j \in Exports PROVE OfJob(j)
    BY <2>1, <2>2 DEF RetentionInit, OfJob, RowFirst, YoungFile, Selected, Abandoned, Expired, Finished
  <2> QED BY <2>3, <2>4 DEF RetentionInv
<1>2. RetentionInv /\ [RetentionNext]_retentionVars => RetentionInv'
  <2>1. CASE UNCHANGED retentionVars
    BY <2>1 DEF retentionVars, RetentionInv, RetentionTypes, OfJob, RowFirst, YoungFile, Selected, Abandoned, Gone
  <2> QED BY <2>1, RetentionStep
<1>3. RetentionInv => UnexpiredKept
  BY DEF RetentionInv, OfJob, YoungFile, Gone, UnexpiredKept
<1> QED BY <1>1, <1>2, <1>3, PTL DEF RetentionSpec
-----------------------------------------------------------------------------
(* SourceSync: a feed's upserts, then the guarded deletion of what is stale. *)

SyncSteps == {"idle", "upsert", "count", "diff", "guard", "list", "delete", "mirror"}
SyncState == [step : SyncSteps, feed : SUBSET Keys, left : SUBSET Keys, total : Nat, stale : SUBSET Keys,
              pks : SUBSET Keys, gone : SUBSET Keys, result : {"none", "done", "aborted", "dry", "error"}]

SyncTypes ==
  /\ strategy \in Strategies /\ mirrored \in BOOLEAN
  /\ syncRun \in Nat /\ seen \in [Keys -> {NoSuchRow, Null} \cup 1..syncRun]
  /\ used \in SUBSET Keys /\ Present \subseteq used /\ indexed \subseteq used
  /\ sync \in SyncState

\* What the feed reported carries this run's watermark, or a user has deleted it.
Reported ==
  sync.step # "idle" => \A k \in sync.feed \ sync.left : seen[k] \in {NoSuchRow, syncRun}

\* The feed is upserted before anything is counted, what a diff has fixed is
\* not of the feed, and nothing has been deleted or reported before the end.
StepOrder ==
  /\ sync.step \notin {"idle", "upsert"} => sync.left = {}
  /\ sync.step # "idle" => sync.result = "none"
  /\ sync.step \notin {"idle", "mirror"} => sync.gone = {}
  /\ sync.stale \subseteq used \ sync.feed

\* Once the guard has let the deletion pass, its filter only selects less.
Guarded == sync.step \in {"list", "delete"} => ~Exceeds(Cardinality(Stale))

\* The documents of what is deleted are on the list, and a document that a
\* successful sync has cleared does not come back.
Cleared ==
  /\ ~mirrored => indexed = {}
  /\ sync.step \in {"list", "mirror"} => mirrored
  /\ sync.step = "delete" /\ mirrored => Stale \subseteq sync.pks
  /\ sync.step = "mirror" => sync.gone \subseteq sync.pks
  /\ sync.gone \subseteq used

SyncInv == SyncTypes /\ Reported /\ StepOrder /\ Guarded /\ Cleared /\ SyncBounded

LEMMA ProductMonotonic == ASSUME NEW a \in Nat, NEW b \in Nat, NEW d \in Nat, a <= b PROVE a * d <= b * d
<1>1. PICK c \in Nat : b = a + c
  <2>1. b - a \in Nat /\ b = a + (b - a)
    OBVIOUS
  <2> QED BY <2>1
<1>2. b * d = a * d + c * d /\ c * d \in Nat /\ a * d \in Nat
  BY <1>1
<1> QED BY <1>2

\* What is within the fraction stays within it when it gets less.
LEMMA FewerDoNotExceed ==
  ASSUME NEW S \in SUBSET Keys, NEW T \in SUBSET Keys, S \subseteq T, sync.total \in Nat,
         ~Exceeds(Cardinality(T))
  PROVE  ~Exceeds(Cardinality(S))
<1>1. IsFiniteSet(T) /\ Den \in Nat /\ Num \in Nat
  BY SyncAssumption, FS_Subset
<1>2. Cardinality(S) \in Nat /\ Cardinality(T) \in Nat /\ Cardinality(S) <= Cardinality(T)
  BY <1>1, FS_Subset, FS_CardinalityType
<1>3. Cardinality(S) * Den <= Cardinality(T) * Den
  BY <1>1, <1>2, ProductMonotonic
<1>4. Cardinality(S) * Den \in Nat /\ Cardinality(T) * Den \in Nat /\ Num * sync.total \in Nat
  BY <1>1, <1>2
<1> QED BY <1>3, <1>4 DEF Exceeds

LEMMA NoneDoesNotExceed == ASSUME sync.total \in Nat PROVE ~Exceeds(Cardinality({}))
<1>1. Cardinality({}) = 0
  BY FS_EmptySet
<1>2. 0 * Den = 0 /\ Num * sync.total \in Nat
  BY SyncAssumption
<1> QED BY <1>1, <1>2 DEF Exceeds

\* After the upserts the filter selects nothing of the feed.
LEMMA StaleOutsideFeed ==
  ASSUME SyncInv, sync.step \notin {"idle", "upsert"}
  PROVE  Stale \cap sync.feed = {} /\ Stale \subseteq Present /\ Present \in SUBSET Keys
<1> USE DEF SyncInv, SyncTypes, SyncState
<1>1. Stale \subseteq Present /\ Present \in SUBSET Keys
  BY DEF Stale, Watermarked, Present
<1>2. ASSUME NEW k \in Stale, k \in sync.feed PROVE FALSE
  <2>1. sync.left = {} /\ sync.stale \cap sync.feed = {}
    BY DEF StepOrder
  <2>2. k \in Watermarked
    BY <1>2, <2>1 DEF Stale
  <2>3. seen[k] # NoSuchRow /\ seen[k] < syncRun
    BY <2>2 DEF Watermarked, Present
  <2>4. seen[k] \in {NoSuchRow, syncRun}
    BY <1>2, <2>1 DEF Reported
  <2> QED BY <2>3, <2>4
<1> QED BY <1>1, <1>2

\* The next step of a sync that reads: it writes no row and no document.
LEMMA ReadStep ==
  ASSUME SyncInv, sync.step # "idle", sync' \in SyncState,
         UNCHANGED <<strategy, mirrored, seen, indexed, used, syncRun>>,
         sync'.feed = sync.feed, sync'.left = sync.left, sync'.gone = sync.gone,
         sync'.stale \subseteq used \ sync.feed,
         sync'.step # "idle" => sync'.result = "none",
         sync'.step \notin {"idle", "upsert"} => sync.left = {},
         sync'.step \notin {"idle", "mirror"} => sync.gone = {},
         sync'.step \in {"list", "mirror"} => mirrored,
         sync'.step = "mirror" => sync.gone \subseteq sync'.pks,
         sync'.step = "delete" /\ mirrored => Stale' \subseteq sync'.pks,
         sync'.step \in {"list", "delete"} => ~Exceeds(Cardinality(Stale))',
         sync.gone = {} \/ sync'.total = sync.total,
         sync'.result = "done" => sync.gone \cap indexed = {}
  PROVE  SyncInv'
<1> USE DEF SyncInv, SyncTypes
<1>1. Present' = Present
  BY DEF Present
<1>2. SyncTypes'
  BY <1>1
<1>3. Reported' /\ StepOrder' /\ Cleared'
  BY DEF Reported, StepOrder, Cleared
<1>4. Guarded'
  BY DEF Guarded
<1>5. sync.total \in Nat /\ sync'.total \in Nat
  BY DEF SyncState
<1>6. ~Exceeds(Cardinality(sync.gone))'
  <2>1. CASE sync.gone = {}
    <3>1. ~(0 * Den > Num * sync'.total)
      BY <1>5, SyncAssumption
    <3> QED BY <2>1, <3>1, FS_EmptySet DEF Exceeds
  <2>2. CASE sync'.total = sync.total
    BY <2>2 DEF SyncBounded, Exceeds
  <2> QED BY <2>1, <2>2
<1>7. SyncBounded'
  BY <1>6 DEF SyncBounded
<1> QED BY <1>2, <1>3, <1>4, <1>7

LEMMA SyncStep == ASSUME SyncInv, SyncNext PROVE SyncInv'
<1> USE DEF SyncInv, SyncTypes
<1>t. /\ sync \in SyncState /\ sync.total \in Nat /\ sync.left \in SUBSET Keys /\ sync.feed \in SUBSET Keys
      /\ Present \in SUBSET Keys /\ Present = {k \in Keys : seen[k] # NoSuchRow}
  BY DEF SyncState, Present
<1>1. CASE BeginSync
  <2>1. PICK feed \in SUBSET Keys : sync' = [NoSync EXCEPT !.step = "upsert", !.feed = feed, !.left = feed]
    BY <1>1 DEF BeginSync, Become
  <2>2. /\ syncRun' = syncRun + 1 /\ Present' = Present
        /\ UNCHANGED <<strategy, mirrored, seen, indexed, used>>
    BY <1>1 DEF BeginSync, SameConf, Present
  <2>3. /\ sync' \in SyncState /\ sync'.step = "upsert" /\ sync'.feed = feed /\ sync'.left = feed /\ sync'.total = 0
        /\ sync'.stale = {} /\ sync'.gone = {} /\ sync'.result = "none"
    BY <2>1 DEF NoSync, SyncState, SyncSteps
  <2>4. ~Exceeds(Cardinality({}))'
    <3>1. ~(0 * Den > Num * 0)
      BY SyncAssumption
    <3> QED BY <2>3, <3>1, FS_EmptySet DEF Exceeds
  <2>5. seen' \in [Keys -> {NoSuchRow, Null} \cup 1..syncRun']
    BY <2>2
  <2>6. SyncTypes'
    BY <2>2, <2>3, <2>5
  <2>7. Reported' /\ StepOrder' /\ Guarded' /\ Cleared'
    BY <2>2, <2>3 DEF Reported, StepOrder, Guarded, Cleared
  <2> QED BY <2>3, <2>4, <2>6, <2>7 DEF SyncBounded
<1>2. CASE UpsertBatch
  <2>1. PICK batch \in SUBSET sync.left :
          /\ seen' = [k \in Keys |-> IF k \in batch THEN syncRun ELSE seen[k]]
          /\ used' = used \cup batch /\ sync' = [sync EXCEPT !.left = sync.left \ batch]
    BY <1>2 DEF UpsertBatch, Become
  <2>2. sync.step = "upsert" /\ UNCHANGED <<strategy, mirrored, indexed, syncRun>>
    BY <1>2 DEF UpsertBatch, SameConf
  <2>3. /\ sync' \in SyncState /\ sync'.step = "upsert" /\ sync'.feed = sync.feed /\ sync'.left = sync.left \ batch
        /\ sync'.total = sync.total /\ sync'.stale = sync.stale /\ sync'.gone = sync.gone
        /\ sync'.pks = sync.pks /\ sync'.result = sync.result
    BY <1>t, <2>1, <2>2 DEF SyncState
  <2>r. syncRun \in 1..syncRun \/ syncRun = Null
    BY DEF Null
  <2>4. seen' \in [Keys -> {NoSuchRow, Null} \cup 1..syncRun']
    BY <2>1, <2>2, <2>r
  <2>5. Present' \subseteq Present \cup batch /\ batch \subseteq Keys
    BY <1>t, <2>1 DEF Present
  <2>6. SyncTypes'
    BY <2>1, <2>2, <2>3, <2>4, <2>5
  <2>7. Reported'
    BY <2>1, <2>2, <2>3, <1>t DEF Reported
  <2>8. StepOrder' /\ Guarded' /\ Cleared'
    BY <2>1, <2>2, <2>3 DEF StepOrder, Guarded, Cleared
  <2>9. SyncBounded'
    BY <2>2, <2>3 DEF SyncBounded, StepOrder, Exceeds
  <2> QED BY <2>6, <2>7, <2>8, <2>9
<1>3. CASE RewriteDocs
  <2>1. /\ sync.step = "upsert" /\ sync.left = {} /\ sync' = [sync EXCEPT !.step = "count"]
        /\ UNCHANGED <<strategy, mirrored, seen, used, syncRun>>
        /\ indexed' = indexed \/ (mirrored /\ indexed' = indexed \cup Present)
    BY <1>3 DEF RewriteDocs, Become, SameConf
  <2>2. /\ sync' \in SyncState /\ sync'.step = "count" /\ sync'.feed = sync.feed /\ sync'.left = {}
        /\ sync'.total = sync.total /\ sync'.stale = sync.stale /\ sync'.gone = sync.gone /\ sync'.result = sync.result
    BY <1>t, <2>1 DEF SyncState, SyncSteps
  <2>3. SyncTypes'
    <3>1. Present' = Present
      BY <2>1 DEF Present
    <3> QED BY <2>1, <2>2, <3>1
  <2>4. Reported' /\ StepOrder' /\ Guarded' /\ Cleared'
    BY <2>1, <2>2 DEF Reported, StepOrder, Guarded, Cleared
  <2>5. SyncBounded'
    BY <2>1, <2>2 DEF SyncBounded, StepOrder, Exceeds
  <2> QED BY <2>3, <2>4, <2>5
<1>4. CASE Count
  <2>1. sync.step = "count" /\ UNCHANGED <<strategy, mirrored, seen, indexed, used, syncRun>>
    BY <1>4 DEF Count, SameConf
  <2>2. \/ sync' = [sync EXCEPT !.step = "idle", !.result = "done"]
        \/ sync' = [sync EXCEPT !.total = Cardinality(Present), !.step = "diff"]
    BY <1>4 DEF Count, EndSync, Become
  <2>3. Cardinality(Present) \in Nat
    BY <1>t, SyncAssumption, FS_Subset, FS_CardinalityType
  <2>4. /\ sync' \in SyncState /\ sync'.step \in {"idle", "diff"} /\ sync'.feed = sync.feed /\ sync'.left = sync.left
        /\ sync'.stale = sync.stale /\ sync'.gone = sync.gone /\ (sync'.step = "diff" => sync'.result = sync.result)
    BY <1>t, <2>1, <2>2, <2>3 DEF SyncState, SyncSteps
  <2>5. sync.gone = {} /\ sync.left = {} /\ sync.result = "none" /\ sync.stale \subseteq used \ sync.feed
    BY <2>1 DEF StepOrder
  <2> QED BY <2>1, <2>4, <2>5, ReadStep
<1>5. CASE Diff
  <2> DEFINE stale == IF strategy = "keyset" THEN Present \ sync.feed ELSE {}
  <2>1. /\ sync.step = "diff" /\ UNCHANGED <<strategy, mirrored, seen, indexed, used, syncRun>>
        /\ sync' = [sync EXCEPT !.stale = stale, !.step = "guard"]
    BY <1>5 DEF Diff, SameConf, Become
  <2>2. stale \subseteq used \ sync.feed /\ stale \in SUBSET Keys
    BY <1>t
  <2> HIDE DEF stale
  <2>3. /\ sync' \in SyncState /\ sync'.step = "guard" /\ sync'.feed = sync.feed /\ sync'.left = sync.left
        /\ sync'.stale = stale /\ sync'.gone = sync.gone /\ sync'.result = sync.result
    BY <1>t, <2>1, <2>2 DEF SyncState, SyncSteps
  <2>4. sync.gone = {} /\ sync.left = {} /\ sync.result = "none"
    BY <2>1 DEF StepOrder
  <2> QED BY <2>1, <2>2, <2>3, <2>4, ReadStep
<1>6. CASE Guard
  <2>1. sync.step = "guard" /\ UNCHANGED <<strategy, mirrored, seen, indexed, used, syncRun>>
    BY <1>6 DEF Guard, SameConf
  <2>2. \/ \E result \in {"done", "aborted", "dry"} : sync' = [sync EXCEPT !.step = "idle", !.result = result]
        \/ ~Exceeds(Cardinality(Stale)) /\ mirrored /\ sync' = [sync EXCEPT !.step = "list"]
        \/ ~Exceeds(Cardinality(Stale)) /\ ~mirrored /\ sync' = [sync EXCEPT !.step = "delete"]
    BY <1>6 DEF Guard, EndSync, Become
  <2>3. /\ sync' \in SyncState /\ sync'.step \in {"idle", "list", "delete"} /\ sync'.feed = sync.feed
        /\ sync'.left = sync.left /\ sync'.stale = sync.stale /\ sync'.gone = sync.gone /\ sync'.total = sync.total
        /\ (sync'.step # "idle" => sync'.result = sync.result)
        /\ (sync'.step = "list" => mirrored) /\ (sync'.step = "delete" => ~mirrored)
        /\ (sync'.step \in {"list", "delete"} => ~Exceeds(Cardinality(Stale)))
    BY <1>t, <2>1, <2>2 DEF SyncState, SyncSteps
  <2>4. /\ sync.gone = {} /\ sync.left = {} /\ sync.result = "none"
        /\ sync.stale \subseteq used \ sync.feed
    BY <2>1 DEF StepOrder
  <2>5. Stale' = Stale /\ (sync'.step \in {"list", "delete"} => ~Exceeds(Cardinality(Stale))')
    BY <2>1, <2>3 DEF Stale, Watermarked, Present, Exceeds
  <2> QED BY <2>1, <2>3, <2>4, <2>5, ReadStep
<1>7. CASE ListPks
  <2>1. /\ sync.step = "list" /\ UNCHANGED <<strategy, mirrored, seen, indexed, used, syncRun>>
        /\ sync' = [sync EXCEPT !.pks = Stale, !.step = "delete"]
    BY <1>7 DEF ListPks, SameConf, Become
  <2>2. Stale \in SUBSET Keys
    BY <2>1, StaleOutsideFeed
  <2>3. /\ sync' \in SyncState /\ sync'.step = "delete" /\ sync'.feed = sync.feed /\ sync'.left = sync.left
        /\ sync'.stale = sync.stale /\ sync'.gone = sync.gone /\ sync'.result = sync.result
        /\ sync'.pks = Stale /\ sync'.total = sync.total
    BY <1>t, <2>1, <2>2 DEF SyncState, SyncSteps
  <2>4. /\ sync.gone = {} /\ sync.left = {} /\ sync.result = "none"
        /\ sync.stale \subseteq used \ sync.feed
    BY <2>1 DEF StepOrder
  <2>5. Stale' = Stale /\ ~Exceeds(Cardinality(Stale))'
    BY <2>1, <2>3 DEF Stale, Watermarked, Present, Exceeds, Guarded
  <2> QED BY <2>1, <2>3, <2>4, <2>5, ReadStep
<1>8. CASE DeleteStale
  <2>1. /\ sync.step = "delete" /\ UNCHANGED <<strategy, mirrored, indexed, used, syncRun>>
        /\ seen' = [k \in Keys |-> IF k \in Stale THEN NoSuchRow ELSE seen[k]]
        /\ sync' = [sync EXCEPT !.gone = Stale, !.step = IF mirrored THEN "mirror" ELSE "idle",
                                !.result = IF mirrored THEN sync.result ELSE "done"]
    BY <1>8 DEF DeleteStale, SameConf, Become
  <2>2. Stale \cap sync.feed = {} /\ Stale \in SUBSET Keys /\ Stale \subseteq used
    BY <2>1, StaleOutsideFeed
  <2>3. /\ sync.left = {} /\ sync.result = "none" /\ sync.stale \subseteq used \ sync.feed
    BY <2>1 DEF StepOrder
  <2>4. /\ sync' \in SyncState /\ sync'.step = (IF mirrored THEN "mirror" ELSE "idle")
        /\ sync'.feed = sync.feed /\ sync'.left = sync.left
        /\ sync'.stale = sync.stale /\ sync'.gone = Stale /\ sync'.total = sync.total /\ sync'.pks = sync.pks
        /\ sync'.result = (IF mirrored THEN "none" ELSE "done")
    BY <1>t, <2>1, <2>2, <2>3 DEF SyncState, SyncSteps
  <2>5. seen' \in [Keys -> {NoSuchRow, Null} \cup 1..syncRun'] /\ Present' \subseteq Present
    BY <2>1 DEF Present
  <2>6. SyncTypes'
    BY <2>1, <2>4, <2>5
  <2>7. Reported'
    BY <2>1, <2>4, <1>t DEF Reported
  <2>8. StepOrder' /\ Guarded'
    BY <2>1, <2>3, <2>4 DEF StepOrder, Guarded
  <2>9. Cleared'
    BY <2>1, <2>2, <2>4 DEF Cleared
  <2>10. SyncBounded'
    <3>1. ~Exceeds(Cardinality(Stale))
      BY <2>1 DEF Guarded
    <3>2. ~Exceeds(Cardinality(sync.gone))'
      BY <2>4, <3>1 DEF Exceeds
    <3> QED BY <2>1, <2>2, <2>4, <3>2 DEF SyncBounded, Cleared
  <2> QED BY <2>6, <2>7, <2>8, <2>9, <2>10
<1>9. CASE ClearMirror \/ MirrorFails
  <2>1. /\ sync.step = "mirror" /\ UNCHANGED <<strategy, mirrored, seen, used, syncRun>> /\ indexed' \subseteq indexed
        /\ \/ indexed' = indexed \ sync.pks /\ sync' = [sync EXCEPT !.step = "idle", !.result = "done"]
           \/ sync' = [sync EXCEPT !.step = "idle", !.result = "error"]
    BY <1>9 DEF ClearMirror, MirrorFails, EndSync, Become, SameConf
  <2>2. /\ sync' \in SyncState /\ sync'.step = "idle" /\ sync'.feed = sync.feed /\ sync'.left = sync.left
        /\ sync'.stale = sync.stale /\ sync'.gone = sync.gone /\ sync'.total = sync.total
        /\ (sync'.result = "done" => indexed' = indexed \ sync.pks)
    BY <1>t, <2>1 DEF SyncState, SyncSteps
  <2>3. SyncTypes'
    BY <2>1, <2>2 DEF Present
  <2>4. Reported' /\ StepOrder' /\ Guarded' /\ Cleared'
    BY <2>1, <2>2 DEF Reported, StepOrder, Guarded, Cleared
  <2>5. SyncBounded'
    BY <2>1, <2>2 DEF SyncBounded, Exceeds, Cleared
  <2> QED BY <2>3, <2>4, <2>5
<1>10. CASE Break
  <2>1. /\ sync.step # "idle" /\ UNCHANGED <<strategy, mirrored, seen, indexed, used, syncRun>>
        /\ sync' = [sync EXCEPT !.step = "idle", !.result = "error"]
    BY <1>10 DEF Break, EndSync, Become, SameConf
  <2>2. /\ sync' \in SyncState /\ sync'.step = "idle" /\ sync'.feed = sync.feed /\ sync'.left = sync.left
        /\ sync'.stale = sync.stale /\ sync'.gone = sync.gone /\ sync'.total = sync.total /\ sync'.result = "error"
    BY <1>t, <2>1 DEF SyncState, SyncSteps
  <2>3. sync.stale \subseteq used \ sync.feed
    BY DEF StepOrder
  <2> QED BY <2>1, <2>2, <2>3, ReadStep
<1>11. ASSUME NEW k \in Keys, EditRow(k) PROVE SyncInv'
  <2>1. /\ UNCHANGED <<strategy, mirrored, syncRun, sync>>
        /\ \/ /\ k \notin used /\ k \notin sync.feed /\ seen' = [seen EXCEPT ![k] = Null] /\ used' = used \cup {k}
              /\ indexed' = (IF mirrored THEN indexed \cup {k} ELSE indexed)
           \/ seen' = [seen EXCEPT ![k] = NoSuchRow] /\ used' = used /\ indexed' = indexed \ {k}
    BY <1>11 DEF EditRow, SameConf
  <2>2. /\ seen' \in [Keys -> {NoSuchRow, Null} \cup 1..syncRun'] /\ Present' \subseteq used' /\ indexed' \subseteq used'
        /\ used' \in SUBSET Keys /\ used \subseteq used'
    BY <2>1 DEF Present
  <2>3. Stale' \subseteq Stale
    <3>1. sync.stale \subseteq used
      BY DEF StepOrder
    <3>2. CASE strategy = "keyset"
      BY <2>1, <3>1, <3>2 DEF Stale, Present
    <3>3. CASE strategy # "keyset"
      BY <2>1, <3>3 DEF Stale, Watermarked, Present
    <3> QED BY <3>2, <3>3
  <2>4. SyncTypes'
    BY <2>1, <2>2
  <2>5. Reported'
    BY <1>t, <2>1 DEF Reported
  <2>6. StepOrder'
    BY <2>1, <2>2 DEF StepOrder
  <2>7. Guarded'
    <3>1. SUFFICES ASSUME sync.step \in {"list", "delete"} PROVE ~Exceeds(Cardinality(Stale))'
      BY <2>1 DEF Guarded
    <3>2. Stale \in SUBSET Keys
      BY <3>1, StaleOutsideFeed
    <3>3. ~Exceeds(Cardinality(Stale'))
      BY <3>1, <3>2, <2>3, <1>t, FewerDoNotExceed DEF Guarded
    <3> QED BY <2>1, <3>3 DEF Exceeds
  <2>8. Cleared'
    BY <2>1, <2>2, <2>3 DEF Cleared
  <2>9. SyncBounded'
    BY <2>1, <1>t DEF SyncBounded, Exceeds, Cleared
  <2> QED BY <2>4, <2>5, <2>6, <2>7, <2>8, <2>9
<1> QED BY <1>1, <1>2, <1>3, <1>4, <1>5, <1>6, <1>7, <1>8, <1>9, <1>10, <1>11 DEF SyncNext

\* A sync deletes nothing its feed reported and at most the fraction it has
\* counted, for any tables, feeds and fractions, whatever users add and remove
\* between its queries and wherever a query fails.
THEOREM SyncBoundedHolds == SyncSpec => []SyncBounded
<1>1. SyncInit => SyncInv
  <2> SUFFICES ASSUME SyncInit PROVE SyncInv
    OBVIOUS
  <2>1. /\ sync = NoSync /\ syncRun = 0 /\ used = Present /\ indexed \subseteq Present
        /\ seen \in [Keys -> {NoSuchRow, Null}] /\ (~mirrored => indexed = {})
    BY DEF SyncInit
  <2>2. sync \in SyncState /\ sync.step = "idle" /\ sync.total = 0 /\ sync.gone = {} /\ sync.stale = {}
    BY <2>1 DEF NoSync, SyncState, SyncSteps
  <2>3. SyncTypes
    BY <2>1, <2>2, SyncAssumption DEF SyncInit, SyncTypes, Present
  <2>4. ~Exceeds(Cardinality(sync.gone))
    BY <2>2, NoneDoesNotExceed
  <2> QED BY <2>1, <2>2, <2>3, <2>4 DEF SyncInv, Reported, StepOrder, Guarded, Cleared, SyncBounded, NoSync
<1>2. SyncInv /\ [SyncNext]_syncVars => SyncInv'
  <2>1. CASE UNCHANGED syncVars
    BY <2>1 DEF syncVars, SyncInv, SyncTypes, Reported, StepOrder, Guarded, Cleared, SyncBounded, Present, Stale, Watermarked, Exceeds
  <2> QED BY <2>1, SyncStep
<1> QED BY <1>1, <1>2, PTL DEF SyncSpec, SyncInv

-----------------------------------------------------------------------------
(* MirrorSync: writers and reindexes of a table and its index.             *)

RunState ==
  [step : RunSteps, job : Nat, tune : BOOLEAN, saved : {NoSettings, "relaxed", "normal"}, cursor : Nat,
   processed : Nat, batch : SUBSET Pks, read : [Pks -> Nat], errors : SUBSET Pks,
   next : {"idle", "finish", "fail"}, calm : BOOLEAN, fresh : BOOLEAN]
JobState == [status : Statuses, cursor : Nat, processed : Nat, total : Nat]
WriterState == [step : WriterSteps, pk : Pks \cup {0}, version : Nat]

MirrorTypes ==
  /\ rows \in [Pks -> Nat] /\ docs \in [Pks -> Nat] /\ writes \in Nat /\ disturbed \in SUBSET Pks
  /\ doing \in [Writers -> WriterState]
  /\ \A w \in Writers : doing[w].step # "free" => doing[w].pk \in Pks
  /\ jobs \in Seq(JobState)
  /\ run \in [Runners -> RunState]
  /\ \A r \in Runners : /\ run[r].step # "idle" => run[r].job \in 1..Len(jobs)
                        /\ run[r].step \in {"bulk", "save"} => run[r].batch # {}
                        /\ run[r].step \in {"reset", "claim", "open"} => run[r].errors = {}

\* An undisturbed key has one operation at most, and what that one has still
\* to do makes the document and the row alike.
Settled(p) ==
  /\ \A v, w \in Writers : Working(v, p) /\ Working(w, p) => v = w
  /\ \A q, r \in Runners : Reading(q, p) /\ Reading(r, p) => q = r
  /\ \A w \in Writers, r \in Runners : ~(Working(w, p) /\ Reading(r, p))
  /\ \A w \in Writers : Working(w, p) =>
       /\ doing[w].step = "index" => doing[w].version = rows[p]
       /\ doing[w].step \in {"clear", "drop"} => docs[p] = NoRow
  /\ \A r \in Runners : Reading(r, p) => run[r].read[p] = rows[p]
  /\ ~Busy(p) => docs[p] = rows[p]
ExactInv == \A p \in Pks \ disturbed : Settled(p)

\* Which of the live rows a calm run from the first row has caught up with.
Passed(r) ==
  CASE run[r].step \in {"check", "fetch", "bulk"} -> {p \in Alive : p <= run[r].cursor}
    [] run[r].step = "save" -> {p \in Alive : p <= run[r].cursor \/ p \in run[r].batch}
    [] run[r].step = "restore" /\ run[r].next = "finish" -> Alive
    [] run[r].step \in {"finish", "verify", "verified", "mismatch"} -> Alive
    [] OTHER -> {}

\* A batch is a page of the live rows: none between its keys is left out.
WholePage(S, c) == \A q \in Alive : After(q, c) /\ (\E p \in S : q < p) => q \in S

Undisturbed(r) ==
  /\ \A q \in Runners \ {r} : run[q].step \notin Loop
  /\ run[r].errors \subseteq Alive
  /\ run[r].step \in Loop \cup {"restore", "finish", "verify", "verified", "mismatch", "fail"}
  /\ jobs[run[r].job].total = Cardinality(Alive)
  /\ run[r].step \in {"bulk", "save"} =>
       run[r].batch # {} /\ run[r].batch \subseteq Alive /\ WholePage(run[r].batch, run[r].cursor)
  /\ run[r].step = "bulk" => \A p \in run[r].batch : run[r].read[p] = rows[p]
  /\ run[r].fresh => \A p \in Passed(r) \ run[r].errors : docs[p] = rows[p]
HealInv == \A r \in Runners : run[r].calm => Undisturbed(r)

MirrorInv == MirrorTypes /\ ExactInv /\ HealInv /\ VerifiedExact

LEMMA Least == ASSUME NEW S \in SUBSET Nat, S # {} PROVE \E m \in S : \A x \in S : m <= x
<1>1. PICK m \in S : \A x \in S : <<x, m>> \notin OpToRel(<, Nat)
  BY NatLessThanWellFounded, WFMin
<1>2. ASSUME NEW x \in S PROVE m <= x
  <2>1. x \in Nat /\ m \in Nat /\ ~(x < m)
    BY <1>1 DEF OpToRel
  <2> QED BY <2>1
<1> QED BY <1>2

LEMMA Greatest == ASSUME NEW S \in SUBSET Nat, IsFiniteSet(S), S # {} PROVE \E m \in S : \A x \in S : x <= m
<1> DEFINE Up(d) == {x \in S : x > d}
           T == {Up(d) : d \in S}
           R == StrictSubsetOrdering(S)
<1>1. IsWellFoundedOn(R, SUBSET S)
  BY FS_StrictSubsetOrderingWellFounded, FS_FiniteSubsetsOfFinite
<1>2. T \subseteq SUBSET S /\ T # {}
  <2>1. T \subseteq SUBSET S
    OBVIOUS
  <2>2. T # {}
    OBVIOUS
  <2> QED BY <2>1, <2>2
<1>3. PICK N \in T : \A M \in T : <<M, N>> \notin R
  <2> HIDE DEF R, T
  <2> QED BY <1>1, <1>2, WFMin
<1>4. PICK m \in S : N = Up(m)
  BY <1>3
<1>5. ASSUME NEW d \in S PROVE d <= m
  <2>1. SUFFICES ASSUME d > m PROVE FALSE
    OBVIOUS
  <2>n. \A x \in S : x \in Nat
    OBVIOUS
  <2>2. Up(d) \in T /\ Up(d) \subseteq Up(m) /\ d \in Up(m) /\ d \notin Up(d)
    <3>1. Up(d) \in T
      OBVIOUS
    <3>2. Up(d) \subseteq Up(m)
      <4>1. \A x \in S : x > d => x > m
        BY <2>1, <2>n
      <4> QED BY <4>1
    <3>3. d \in Up(m) /\ d \notin Up(d)
      BY <2>1, <2>n
    <3> QED BY <3>1, <3>2, <3>3
  <2>3. \A A, B \in SUBSET S : A \subseteq B /\ A # B => <<A, B>> \in R
    BY DEF StrictSubsetOrdering
  <2>4. Up(d) \in SUBSET S /\ N \in SUBSET S /\ Up(d) \subseteq N /\ Up(d) # N
    BY <1>4, <2>2
  <2>5. <<Up(d), N>> \in R
    <3> HIDE DEF R, T, Up
    <3> QED BY <2>3, <2>4
  <2> QED BY <1>3, <2>2, <2>5
<1> QED BY <1>5

LEMMA KeysFinite ==
  /\ Pks \subseteq Nat \ {0} /\ Alive \in SUBSET Pks
  /\ \A S \in SUBSET Pks : IsFiniteSet(S) /\ Cardinality(S) \in Nat /\ \A T \in SUBSET S : Cardinality(T) <= Cardinality(S)
<1>1. Pks \subseteq Nat \ {0} /\ IsFiniteSet(Pks)
  BY MirrorAssumption
<1> QED BY <1>1, FS_Subset, FS_CardinalityType DEF Alive

\* A page leaves none of the live rows between its keys out, and an empty one
\* leaves none behind.
LEMMA Pages ==
  ASSUME NEW c \in Nat
  PROVE  /\ Page(c) \subseteq Alive
         /\ WholePage(Page(c), c)
         /\ Page(c) = {} => \A p \in Alive : p <= c
<1> DEFINE Below(p) == {q \in Alive : After(q, c) /\ q < p}
<1>n. \A p \in Alive : p \in Nat /\ Below(p) \in SUBSET Pks
  BY KeysFinite
<1>c. ChunkSize \in Nat /\ ChunkSize > 0
  BY MirrorAssumption
<1>1. Page(c) \subseteq Alive
  BY DEF Page
<1>2. ASSUME NEW q \in Alive, After(q, c), NEW p \in Page(c), q < p PROVE q \in Page(c)
  <2>1. p \in Alive /\ Cardinality(Below(p)) < ChunkSize
    BY DEF Page
  <2>2. Below(q) \subseteq Below(p)
    BY <1>2, <1>n, <2>1
  <2>3. Cardinality(Below(q)) <= Cardinality(Below(p)) /\ Cardinality(Below(q)) \in Nat /\ Cardinality(Below(p)) \in Nat
    <3> HIDE DEF Below
    <3> QED BY <1>n, <2>1, <2>2, KeysFinite
  <2>4. Cardinality(Below(q)) < ChunkSize
    <3> HIDE DEF Below
    <3> QED BY <2>1, <2>3, <1>c
  <2> QED BY <1>2, <2>4 DEF Page
<1>3. ASSUME Page(c) = {}, NEW p \in Alive, p > c PROVE FALSE
  <2> DEFINE Rest == {q \in Alive : After(q, c)}
  <2>1. Rest \in SUBSET Nat /\ p \in Rest
    BY <1>3, <1>n DEF After
  <2>2. PICK m \in Rest : \A x \in Rest : m <= x
    <3> HIDE DEF Rest
    <3> QED BY <2>1, Least
  <2>3. Below(m) = {}
    BY <2>2, <1>n
  <2>4. Cardinality(Below(m)) = 0
    BY <2>3, FS_EmptySet
  <2>5. m \in Page(c)
    BY <2>4, <1>c DEF Page
  <2> QED BY <1>3, <2>5
<1>4. Page(c) = {} => \A p \in Alive : p <= c
  BY <1>3, <1>n
<1> QED BY <1>1, <1>2, <1>4 DEF WholePage

LEMMA LastOfBatch ==
  ASSUME NEW S \in SUBSET Pks, S # {}
  PROVE  LastOf(S) \in S /\ \A q \in S : q <= LastOf(S)
<1>1. S \in SUBSET Nat /\ IsFiniteSet(S)
  BY KeysFinite
<1>2. \E m \in S : \A x \in S : x <= m
  BY <1>1, Greatest
<1> QED BY <1>2 DEF LastOf

\* A writer's step stirs every reindex and leaves what it is doing.
LEMMA Stirring ==
  ASSUME MirrorTypes, run' = Stirred
  PROVE  /\ run' \in [Runners -> RunState]
         /\ \A r \in Runners : run'[r] = [run[r] EXCEPT !.calm = FALSE] /\ run'[r].calm = FALSE
         /\ \A r \in Runners : run'[r].step = run[r].step /\ run'[r].job = run[r].job /\ run'[r].batch = run[r].batch
         /\ \A r \in Runners : run'[r].errors = run[r].errors
         /\ \A r \in Runners, p \in Pks : (Reading(r, p)' <=> Reading(r, p)) /\ run'[r].read[p] = run[r].read[p]
<1>1. ASSUME NEW r \in Runners
      PROVE  /\ run'[r] \in RunState /\ run'[r] = [run[r] EXCEPT !.calm = FALSE] /\ run'[r].calm = FALSE
             /\ run'[r].step = run[r].step /\ run'[r].job = run[r].job /\ run'[r].batch = run[r].batch
             /\ run'[r].read = run[r].read /\ run'[r].errors = run[r].errors
  <2>1. run'[r] = [run[r] EXCEPT !.calm = FALSE] /\ run[r] \in RunState
    BY DEF Stirred, MirrorTypes
  <2> QED BY <2>1 DEF RunState
<1> QED BY <1>1 DEF Stirred, Reading

\* One operation holds p, or it has ended with the row and the document alike.
Effect(f, p) ==
  /\ f.step = "free" => docs[p] = rows[p]
  /\ f.step = "index" => f.version = rows[p]
  /\ f.step \in {"clear", "drop"} => docs[p] = NoRow

LEMMA SoleWriter ==
  ASSUME MirrorTypes, NEW w \in Writers, NEW p \in Pks, NEW f \in WriterState,
         doing' = [doing EXCEPT ![w] = f],
         \A v \in Writers \ {w} : ~Working(v, p),
         \A r \in Runners : ~Reading(r, p)',
         f.step # "free" => f.pk = p, Effect(f, p)'
  PROVE  Settled(p)'
<1>1. \A v \in Writers : doing'[v] = IF v = w THEN f ELSE doing[v]
  BY DEF MirrorTypes
<1>2. \A v \in Writers : Working(v, p)' => v = w
  BY <1>1 DEF Working
<1>3. Working(w, p)' <=> f.step # "free"
  BY <1>1 DEF Working
<1>4. Busy(p)' <=> Working(w, p)'
  BY <1>2 DEF Busy
<1> QED BY <1>1, <1>2, <1>3, <1>4 DEF Settled, Effect

\* What an operation of w on the key p has to show: that it alone is on p and
\* does what it should, or that p counts as disturbed.
Alone(w, p) == (\A v \in Writers \ {w} : ~Working(v, p)) /\ (\A r \in Runners : ~Reading(r, p))
Onward(w, p, f) ==
  /\ doing' = [doing EXCEPT ![w] = f] /\ jobs' = jobs /\ writes' \in Nat
  /\ rows' \in [Pks -> Nat] /\ docs' \in [Pks -> Nat] /\ disturbed' \in SUBSET Pks
  /\ \A q \in Pks \ {p} : rows'[q] = rows[q] /\ docs'[q] = docs[q] /\ (q \in disturbed' <=> q \in disturbed)
  /\ run' = Stirred \/ (run' = run /\ rows' = rows /\ docs' = docs)
  /\ p \in disturbed' \/ (Alone(w, p) /\ Effect(f, p)')
  /\ Working(w, p) \/ doing[w].step = "free"

LEMMA WriterMoves ==
  ASSUME MirrorInv, NEW w \in Writers, NEW p \in Pks, NEW f \in WriterState,
         f.step # "free" => f.pk = p, Onward(w, p, f)
  PROVE  MirrorInv'
<1>o. /\ doing' = [doing EXCEPT ![w] = f] /\ jobs' = jobs /\ writes' \in Nat
      /\ rows' \in [Pks -> Nat] /\ docs' \in [Pks -> Nat] /\ disturbed' \in SUBSET Pks
      /\ \A q \in Pks \ {p} : rows'[q] = rows[q] /\ docs'[q] = docs[q] /\ (q \in disturbed' <=> q \in disturbed)
      /\ run' = Stirred \/ (run' = run /\ rows' = rows /\ docs' = docs)
      /\ p \in disturbed' \/ (Alone(w, p) /\ Effect(f, p)')
      /\ Working(w, p) \/ doing[w].step = "free"
  BY DEF Onward
<1> USE DEF MirrorInv
<1>r. /\ run' \in [Runners -> RunState]
      /\ \A r \in Runners : run'[r].step = run[r].step /\ run'[r].job = run[r].job /\ run'[r].batch = run[r].batch
      /\ \A r \in Runners : run'[r].errors = run[r].errors
      /\ \A r \in Runners, q \in Pks : (Reading(r, q)' <=> Reading(r, q)) /\ run'[r].read[q] = run[r].read[q]
  <2>1. CASE run' = Stirred
    BY <2>1, Stirring
  <2>2. CASE run' = run
    BY <2>2 DEF MirrorTypes, Reading
  <2> QED BY <1>o, <2>1, <2>2
<1>d. \A v \in Writers : doing'[v] = IF v = w THEN f ELSE doing[v]
  BY <1>o DEF MirrorTypes
<1>1. MirrorTypes'
  <2>1. doing' \in [Writers -> WriterState]
    BY <1>o DEF MirrorTypes
  <2>2. \A v \in Writers : doing'[v].step # "free" => doing'[v].pk \in Pks
    BY <1>d DEF MirrorTypes
  <2>3. \A r \in Runners : /\ run'[r].step # "idle" => run'[r].job \in 1..Len(jobs')
                           /\ run'[r].step \in {"bulk", "save"} => run'[r].batch # {}
                           /\ run'[r].step \in {"reset", "claim", "open"} => run'[r].errors = {}
    BY <1>o, <1>r DEF MirrorTypes
  <2> QED BY <1>o, <1>r, <2>1, <2>2, <2>3 DEF MirrorTypes
<1>2. ASSUME NEW q \in Pks \ disturbed' PROVE Settled(q)'
  <2>1. CASE q = p
    <3>1. \A r \in Runners : ~Reading(r, p)'
      BY <1>2, <2>1, <1>o, <1>r DEF Alone
    <3> QED BY <1>2, <2>1, <3>1, <1>o, SoleWriter DEF Alone
  <2>2. CASE q # p
    <3>1. Settled(q) /\ rows'[q] = rows[q] /\ docs'[q] = docs[q]
      BY <1>2, <2>2, <1>o DEF ExactInv
    <3>2. \A v \in Writers : (Working(v, q)' <=> Working(v, q)) /\ (Working(v, q) => doing'[v] = doing[v])
      BY <1>d, <2>2, <1>o DEF Working
    <3>3. Busy(q)' <=> Busy(q)
      BY <1>r, <3>2, <1>2 DEF Busy
    <3> QED BY <1>2, <1>r, <3>1, <3>2, <3>3 DEF Settled
  <2> QED BY <2>1, <2>2
<1>3. HealInv' /\ VerifiedExact'
  <2>1. CASE run' = Stirred
    BY <2>1, Stirring DEF HealInv, VerifiedExact, Calm
  <2>2. CASE run' = run /\ rows' = rows /\ docs' = docs
    <3>1. Alive' = Alive /\ jobs' = jobs
      BY <1>o, <2>2 DEF Alive
    <3>2. \A r \in Runners : Passed(r)' = Passed(r)
      BY <2>2, <3>1 DEF Passed
    <3>3. HealInv'
      BY <2>2, <3>1, <3>2 DEF HealInv, Undisturbed, WholePage, After
    <3> QED BY <2>2, <3>3 DEF VerifiedExact, Calm
  <2> QED BY <1>o, <2>1, <2>2
<1> QED BY <1>1, <1>2, <1>3 DEF ExactInv

LEMMA WriterInv == ASSUME MirrorInv, NEW w \in Writers, WriterStep(w) PROVE MirrorInv'
<1> USE DEF MirrorInv
<1>t. /\ rows \in [Pks -> Nat] /\ docs \in [Pks -> Nat] /\ writes \in Nat /\ disturbed \in SUBSET Pks
      /\ doing[w] \in WriterState /\ (doing[w].step # "free" => doing[w].pk \in Pks)
      /\ writes + 1 \in Nat /\ doing[w].version \in Nat /\ NoRow \in Nat
  BY DEF MirrorTypes, NoRow, WriterState
<1>f. Free \in WriterState /\ Free.step = "free"
  BY DEF Free, WriterState, WriterSteps, NoRow
<1>b. ASSUME NEW p \in Pks, BeginOn({p})
      PROVE  /\ disturbed' \in SUBSET Pks /\ \A q \in Pks \ {p} : q \in disturbed' <=> q \in disturbed
             /\ p \in disturbed' \/ Alone(w, p)
  BY <1>b, <1>t DEF BeginOn, Busy, Alone
<1>k. ASSUME NEW p \in Pks, Working(w, p), p \notin disturbed
      PROVE  /\ Alone(w, p)
             /\ (doing[w].step = "index" => doing[w].version = rows[p])
             /\ (doing[w].step \in {"clear", "drop"} => docs[p] = NoRow)
  BY <1>k DEF ExactInv, Settled, Alone
<1>1. ASSUME NEW p \in Pks, SaveRow(w, p) PROVE MirrorInv'
  <2>1. PICK f : f = Doing("index", p, writes + 1)
    OBVIOUS
  <2>2. /\ doing[w] = Free /\ writes' = writes + 1 /\ rows' = [rows EXCEPT ![p] = writes + 1]
        /\ doing' = [doing EXCEPT ![w] = f] /\ BeginOn({p}) /\ run' = Stirred
        /\ docs' = docs /\ jobs' = jobs
    BY <1>1, <2>1 DEF SaveRow
  <2>3. f \in WriterState /\ f.pk = p /\ f.step = "index" /\ f.version = writes + 1
    BY <1>t, <2>1 DEF Doing, WriterState, WriterSteps
  <2>4. Effect(f, p)'
    BY <1>t, <2>2, <2>3 DEF Effect
  <2>5. Onward(w, p, f)
    BY <1>b, <1>f, <1>t, <2>2, <2>4 DEF Onward
  <2> QED BY <2>3, <2>5, WriterMoves
<1>2. ASSUME NEW p \in Pks, BulkWrite(w, p) PROVE MirrorInv'
  <2>1. /\ doing[w] = Free /\ writes' = writes + 1 /\ rows' = [rows EXCEPT ![p] = writes + 1]
        /\ doing' = doing /\ disturbed' = disturbed \cup {p} /\ run' = Stirred /\ docs' = docs /\ jobs' = jobs
    BY <1>2 DEF BulkWrite
  <2>2. doing' = [doing EXCEPT ![w] = Free]
    BY <2>1 DEF MirrorTypes
  <2>3. Onward(w, p, Free)
    BY <1>f, <1>t, <2>1, <2>2 DEF Onward
  <2> QED BY <2>3, <1>f, WriterMoves
<1>3. ASSUME NEW p \in Pks, DeleteInstance(w, p) PROVE MirrorInv'
  <2>1. PICK f : f = Doing("clear", p, NoRow)
    OBVIOUS
  <2>2. /\ doing[w] = Free /\ docs' = [docs EXCEPT ![p] = NoRow] /\ doing' = [doing EXCEPT ![w] = f]
        /\ BeginOn({p}) /\ run' = Stirred /\ rows' = rows /\ writes' = writes /\ jobs' = jobs
    BY <1>3, <2>1 DEF DeleteInstance
  <2>3. f \in WriterState /\ f.pk = p /\ f.step = "clear"
    BY <2>1 DEF Doing, WriterState, WriterSteps, NoRow
  <2>4. Effect(f, p)'
    BY <1>t, <2>2, <2>3 DEF Effect
  <2>5. Onward(w, p, f)
    BY <1>b, <1>f, <1>t, <2>2, <2>4 DEF Onward
  <2> QED BY <2>3, <2>5, WriterMoves
<1>4. ASSUME NEW p \in Pks, DeleteQuery(w, p) PROVE MirrorInv'
  <2>1. PICK f : f = Doing("collect", p, NoRow)
    OBVIOUS
  <2>2. /\ doing[w] = Free /\ doing' = [doing EXCEPT ![w] = f]
        /\ BeginOn({p}) /\ run' = Stirred /\ rows' = rows /\ docs' = docs /\ writes' = writes /\ jobs' = jobs
    BY <1>4, <2>1 DEF DeleteQuery, stores
  <2>3. f \in WriterState /\ f.pk = p /\ f.step = "collect"
    BY <2>1 DEF Doing, WriterState, WriterSteps, NoRow
  <2>4. Effect(f, p)'
    BY <2>3 DEF Effect
  <2>5. Onward(w, p, f)
    BY <1>b, <1>f, <1>t, <2>2, <2>4 DEF Onward
  <2> QED BY <2>3, <2>5, WriterMoves
<1>p. PICK p : p = doing[w].pk
  OBVIOUS
<1>w. ASSUME doing[w].step # "free" PROVE p \in Pks /\ Working(w, p)
  BY <1>p, <1>t, <1>w DEF Working
<1>5. CASE IndexDoc(w)
  <2>1. /\ doing[w].step = "index" /\ docs' = [docs EXCEPT ![p] = doing[w].version] /\ doing' = [doing EXCEPT ![w] = Free]
        /\ run' = Stirred /\ rows' = rows /\ writes' = writes /\ jobs' = jobs /\ disturbed' = disturbed
    BY <1>5, <1>p DEF IndexDoc, Indexed
  <2>2. p \in Pks /\ Working(w, p)
    BY <1>w, <2>1
  <2>3. p \in disturbed \/ (Alone(w, p) /\ Effect(Free, p)')
    BY <1>f, <1>k, <1>t, <2>1, <2>2 DEF Effect
  <2>4. Onward(w, p, Free)
    BY <1>t, <2>1, <2>2, <2>3 DEF Onward
  <2> QED BY <2>2, <2>4, <1>f, WriterMoves
<1>6. CASE Receiver(w)
  <2>1. PICK f : f = [doing[w] EXCEPT !.step = "drop"]
    OBVIOUS
  <2>2. /\ doing[w].step = "collect" /\ docs' = [docs EXCEPT ![p] = NoRow] /\ doing' = [doing EXCEPT ![w] = f]
        /\ run' = Stirred /\ rows' = rows /\ writes' = writes /\ jobs' = jobs /\ disturbed' = disturbed
    BY <1>6, <1>p, <2>1 DEF Receiver
  <2>3. f \in WriterState /\ f.step = "drop" /\ f.pk = p
    BY <1>p, <1>t, <2>1 DEF WriterState, WriterSteps
  <2>4. p \in Pks /\ Working(w, p)
    BY <1>w, <2>2
  <2>5. p \in disturbed \/ (Alone(w, p) /\ Effect(f, p)')
    BY <1>k, <1>t, <2>2, <2>3, <2>4 DEF Effect
  <2>6. Onward(w, p, f)
    BY <1>t, <2>2, <2>4, <2>5 DEF Onward
  <2> QED BY <2>3, <2>4, <2>6, WriterMoves
<1>7. CASE CommitDelete(w)
  <2>1. /\ doing[w].step \in {"clear", "drop"} /\ rows' = [rows EXCEPT ![p] = NoRow] /\ doing' = [doing EXCEPT ![w] = Free]
        /\ run' = Stirred /\ docs' = docs /\ writes' = writes /\ jobs' = jobs /\ disturbed' = disturbed
    BY <1>7, <1>p DEF CommitDelete
  <2>2. p \in Pks /\ Working(w, p)
    BY <1>w, <2>1
  <2>3. p \in disturbed \/ (Alone(w, p) /\ Effect(Free, p)')
    BY <1>f, <1>k, <1>t, <2>1, <2>2 DEF Effect
  <2>4. Onward(w, p, Free)
    BY <1>t, <2>1, <2>2, <2>3 DEF Onward
  <2> QED BY <2>2, <2>4, <1>f, WriterMoves
<1>8. CASE MirrorCallFails(w) \/ WriterStops(w)
  <2>1. PICK f : f \in {Free, [doing[w] EXCEPT !.step = "drop"]} /\ doing' = [doing EXCEPT ![w] = f]
    BY <1>8 DEF MirrorCallFails, WriterStops
  <2>2. /\ doing[w].step # "free"
        /\ disturbed' = disturbed \cup {p} /\ run' = run /\ rows' = rows /\ docs' = docs /\ writes' = writes /\ jobs' = jobs
    BY <1>8, <1>p DEF MirrorCallFails, WriterStops, stores
  <2>3. f \in WriterState /\ (f.step # "free" => f.pk = p)
    BY <1>f, <1>p, <1>t, <2>1 DEF WriterState, WriterSteps
  <2>4. p \in Pks /\ Working(w, p)
    BY <1>w, <2>2
  <2>5. Onward(w, p, f)
    BY <1>t, <2>1, <2>2, <2>4 DEF Onward
  <2> QED BY <2>3, <2>4, <2>5, WriterMoves
<1> QED BY <1>1, <1>2, <1>3, <1>4, <1>5, <1>6, <1>7, <1>8 DEF WriterStep

\* A step of a reindex that writes neither store and gives its own keys up, if
\* it held any, as disturbed.
RunnerOn(r, e) ==
  /\ run' = [run EXCEPT ![r] = e] /\ rows' = rows /\ docs' = docs /\ writes' = writes /\ doing' = doing
  /\ jobs' \in Seq(JobState) /\ Len(jobs) <= Len(jobs')
  /\ \A j \in 1..Len(jobs) : jobs'[j].total = jobs[j].total
  /\ disturbed' \in SUBSET Pks /\ disturbed \subseteq disturbed'
  /\ run[r].step = "bulk" => run[r].batch \subseteq disturbed'
  /\ e.step \notin {"bulk", "save"} /\ (e.step # "idle" => e.job \in 1..Len(jobs'))
  /\ e.step \in Loop => run[r].step \in Loop
  /\ e.step \in {"reset", "claim", "open"} => e.errors = {}

\* A calm run stays calm on the keys it has passed.
CalmOn(r, e) ==
  e.calm =>
    /\ run[r].calm /\ e.errors = run[r].errors /\ e.job = run[r].job /\ e.fresh = run[r].fresh
    /\ e.step \in {"check", "fetch", "restore", "finish", "verify", "verified", "mismatch", "fail"}
    /\ Passed(r)' \subseteq Passed(r)
    /\ e.fresh /\ e.step = "verified" =>
         \A p \in Pks : docs[p] = rows[p] \/ (p \in e.errors /\ docs[p] = NoRow)

LEMMA RunnerMoves ==
  ASSUME MirrorInv, NEW r \in Runners, NEW e \in RunState, RunnerOn(r, e), CalmOn(r, e)
  PROVE  MirrorInv'
<1> USE DEF MirrorInv
<1>o. /\ run' = [run EXCEPT ![r] = e] /\ rows' = rows /\ docs' = docs /\ writes' = writes /\ doing' = doing
      /\ jobs' \in Seq(JobState) /\ Len(jobs) <= Len(jobs') /\ Len(jobs) \in Nat /\ Len(jobs') \in Nat
      /\ \A j \in 1..Len(jobs) : jobs'[j].total = jobs[j].total
      /\ disturbed' \in SUBSET Pks /\ disturbed \subseteq disturbed'
      /\ run[r].step = "bulk" => run[r].batch \subseteq disturbed'
      /\ e.step \notin {"bulk", "save"} /\ (e.step # "idle" => e.job \in 1..Len(jobs'))
      /\ e.step \in Loop => run[r].step \in Loop
      /\ e.step \in {"reset", "claim", "open"} => e.errors = {}
  BY DEF RunnerOn, MirrorTypes
<1>r. run' \in [Runners -> RunState] /\ \A q \in Runners : run'[q] = IF q = r THEN e ELSE run[q]
  BY <1>o DEF MirrorTypes
<1>a. Alive' = Alive
  BY <1>o DEF Alive
<1>1. MirrorTypes'
  <2>1. \A q \in Runners : /\ run'[q].step # "idle" => run'[q].job \in 1..Len(jobs')
                           /\ run'[q].step \in {"bulk", "save"} => run'[q].batch # {}
                           /\ run'[q].step \in {"reset", "claim", "open"} => run'[q].errors = {}
    <3>1. \A i \in 1..Len(jobs) : i \in 1..Len(jobs')
      BY <1>o
    <3> QED BY <3>1, <1>o, <1>r DEF MirrorTypes
  <2> QED BY <1>o, <1>r, <2>1 DEF MirrorTypes
<1>2. ASSUME NEW p \in Pks \ disturbed' PROVE Settled(p)'
  <2>1. Settled(p)
    BY <1>2, <1>o DEF ExactInv
  <2>2. \A w \in Writers : Working(w, p)' <=> Working(w, p)
    BY <1>o DEF Working
  <2>3. \A q \in Runners : (Reading(q, p)' <=> Reading(q, p)) /\ (Reading(q, p) => run'[q] = run[q])
    BY <1>2, <1>o, <1>r DEF Reading
  <2>4. Busy(p)' <=> Busy(p)
    BY <2>2, <2>3 DEF Busy
  <2> QED BY <1>o, <2>1, <2>2, <2>3, <2>4 DEF Settled
<1>3. ASSUME NEW q \in Runners, run'[q].calm PROVE Undisturbed(q)'
  <2>1. run[q].calm /\ run'[q].errors = run[q].errors /\ run'[q].job = run[q].job /\ run'[q].fresh = run[q].fresh
    BY <1>3, <1>r DEF CalmOn
  <2>2. Undisturbed(q)
    BY <2>1 DEF HealInv
  <2>3. \A s \in Runners \ {q} : run'[s].step \notin Loop
    BY <1>o, <1>r, <2>2 DEF Undisturbed
  <2>4. run[q].job \in 1..Len(jobs)
    BY <2>2 DEF MirrorTypes, Loop, Undisturbed
  <2>5. jobs'[run'[q].job].total = Cardinality(Alive')
    BY <1>a, <1>o, <2>1, <2>2, <2>4 DEF Undisturbed
  <2>6. Passed(q)' \subseteq Passed(q)
    <3>1. CASE q = r
      BY <3>1, <1>3, <1>r DEF CalmOn
    <3>2. CASE q # r
      BY <3>2, <1>a, <1>r DEF Passed
    <3> QED BY <3>1, <3>2
  <2>7. run'[q].step \in Loop \cup {"restore", "finish", "verify", "verified", "mismatch", "fail"}
    BY <1>3, <1>r, <2>2 DEF CalmOn, Loop, Undisturbed
  <2>8. run'[q].step \in {"bulk", "save"} => run'[q] = run[q]
    BY <1>o, <1>r
  <2>9. /\ run'[q].step \in {"bulk", "save"} =>
             run'[q].batch # {} /\ run'[q].batch \subseteq Alive' /\ WholePage(run[q].batch, run[q].cursor)'
        /\ run'[q].step = "bulk" => \A p \in run'[q].batch : run'[q].read[p] = rows'[p]
    BY <1>a, <1>o, <2>2, <2>8 DEF Undisturbed, WholePage, After
  <2>10. run'[q].fresh => \A p \in Passed(q)' \ run'[q].errors : docs'[p] = rows'[p]
    BY <1>o, <2>1, <2>2, <2>6 DEF Undisturbed
  <2>11. run'[q].errors \subseteq Alive'
    BY <1>a, <2>1, <2>2 DEF Undisturbed
  <2> QED BY <2>3, <2>5, <2>7, <2>9, <2>10, <2>11 DEF Undisturbed
<1>4. HealInv'
  BY <1>3 DEF HealInv
<1>5. VerifiedExact'
  BY <1>o, <1>r DEF VerifiedExact, Calm, CalmOn
<1> QED BY <1>1, <1>2, <1>4, <1>5 DEF ExactInv

LEMMA JobChange ==
  ASSUME MirrorTypes, NEW j \in 1..Len(jobs), NEW g \in JobState, jobs' = [jobs EXCEPT ![j] = g]
  PROVE  /\ jobs' \in Seq(JobState) /\ Len(jobs') = Len(jobs) /\ Len(jobs) \in Nat
         /\ \A i \in 1..Len(jobs) : jobs'[i] = IF i = j THEN g ELSE jobs[i]
BY DEF MirrorTypes

\* What a job's row becomes when its status is set.
LEMMA StatusSet ==
  ASSUME MirrorTypes, NEW j \in 1..Len(jobs), NEW s \in Statuses, jobs' = [jobs EXCEPT ![j].status = s]
  PROVE  /\ jobs' \in Seq(JobState) /\ Len(jobs') = Len(jobs) /\ Len(jobs) \in Nat
         /\ \A i \in 1..Len(jobs) : jobs'[i].total = jobs[i].total
<1>1. PICK g : g = [jobs[j] EXCEPT !.status = s]
  OBVIOUS
<1>2. jobs[j] \in JobState
  BY DEF MirrorTypes
<1>3. g \in JobState /\ g.total = jobs[j].total
  BY <1>1, <1>2 DEF JobState
<1>4. jobs' = [jobs EXCEPT ![j] = g]
  BY <1>1
<1>5. /\ jobs' \in Seq(JobState) /\ Len(jobs') = Len(jobs) /\ Len(jobs) \in Nat
      /\ \A i \in 1..Len(jobs) : jobs'[i] = IF i = j THEN g ELSE jobs[i]
  BY <1>3, <1>4, JobChange
<1> QED BY <1>3, <1>5

LEMMA NoRunType == NoRun \in RunState /\ NoRun.step = "idle" /\ ~NoRun.calm /\ NoRun.errors = {} /\ NoRun.batch = {}
BY DEF NoRun, RunState, RunSteps, NoRow, NoSettings

\* The reindexing steps that write neither store.
LEMMA RunnerInv ==
  ASSUME MirrorInv, NEW r \in Runners,
         \/ \E t \in Tunings : StartReindex(r, t) \/ ResumeFind(r, t)
         \/ ResumeReset(r) \/ Claim(r) \/ Skip(r) \/ CheckStatus(r) \/ NoMoreRows(r) \/ SaveCheckpoint(r)
         \/ Raise(r) \/ RestoreSettings(r) \/ Finish(r) \/ RecordFailure(r) \/ VerifyIndex(r) \/ EndCommand(r)
         \/ Crash(r)
  PROVE  MirrorInv'
<1> USE DEF MirrorInv
<1>t. /\ run[r] \in RunState /\ (run[r].step # "idle" => run[r].job \in 1..Len(jobs))
      /\ jobs \in Seq(JobState) /\ Len(jobs) \in Nat /\ disturbed \in SUBSET Pks /\ rows \in [Pks -> Nat]
      /\ run[r].batch \in SUBSET Pks /\ run[r].cursor \in Nat /\ run[r].processed \in Nat
  BY DEF MirrorTypes, RunState
<1>h. run[r].calm => Undisturbed(r)
  BY DEF HealInv
<1>1. ASSUME NEW t \in Tunings, StartReindex(r, t) PROVE MirrorInv'
  <2>1. PICK e : e = [NoRun EXCEPT !.step = "claim", !.job = Len(jobs) + 1, !.tune = t]
    OBVIOUS
  <2>2. /\ jobs' = Append(jobs, Job("pending")) /\ run' = [run EXCEPT ![r] = e] /\ run[r].step = "idle"
        /\ rows' = rows /\ docs' = docs /\ writes' = writes /\ doing' = doing /\ disturbed' = disturbed
    BY <1>1, <2>1 DEF StartReindex, SetRun, stores
  <2>3. e \in RunState /\ e.step = "claim" /\ e.job = Len(jobs) + 1 /\ ~e.calm /\ e.errors = {}
    <3>1. t \in BOOLEAN /\ Len(jobs) + 1 \in Nat
      BY <1>t, MirrorAssumption
    <3> QED BY <2>1, <3>1 DEF NoRun, RunState, RunSteps, NoRow, NoSettings
  <2>4. Job("pending") \in JobState
    BY DEF Job, JobState, Statuses
  <2>5. /\ jobs' \in Seq(JobState) /\ Len(jobs') = Len(jobs) + 1
        /\ \A j \in 1..Len(jobs) : jobs'[j] = jobs[j]
    BY <1>t, <2>2, <2>4
  <2>6. RunnerOn(r, e)
    BY <1>t, <2>2, <2>3, <2>5 DEF RunnerOn, Loop
  <2> QED BY <2>3, <2>6, RunnerMoves DEF CalmOn
<1>2. ASSUME NEW t \in Tunings, ResumeFind(r, t) PROVE MirrorInv'
  <2>1. PICK j \in 1..Len(jobs) : run' = [run EXCEPT ![r] = [NoRun EXCEPT !.step = "reset", !.job = j, !.tune = t]]
    BY <1>2 DEF ResumeFind, SetRun
  <2>2. PICK e : e = [NoRun EXCEPT !.step = "reset", !.job = j, !.tune = t]
    OBVIOUS
  <2>3. /\ jobs' = jobs /\ run[r].step = "idle" /\ rows' = rows /\ docs' = docs /\ writes' = writes /\ doing' = doing
        /\ disturbed' = disturbed
    BY <1>2 DEF ResumeFind, stores
  <2>4. e \in RunState /\ e.step = "reset" /\ e.job = j /\ ~e.calm /\ e.errors = {}
    <3>1. t \in BOOLEAN /\ j \in Nat
      BY MirrorAssumption
    <3> QED BY <2>2, <3>1 DEF NoRun, RunState, RunSteps, NoRow, NoSettings
  <2>5. RunnerOn(r, e)
    BY <1>t, <2>1, <2>2, <2>3, <2>4 DEF RunnerOn, Loop
  <2> QED BY <2>4, <2>5, RunnerMoves DEF CalmOn
<1>3. ASSUME NEW s \in RunSteps \ {"bulk", "save"}, run' = [run EXCEPT ![r] = [run[r] EXCEPT !.step = s]],
             run[r].step \notin {"idle", "bulk"}, s \in Loop => run[r].step \in Loop,
             s \in {"reset", "claim", "open"} => run[r].errors = {},
             rows' = rows, docs' = docs, writes' = writes, doing' = doing, disturbed' = disturbed,
             jobs' = jobs \/ (\E q \in Statuses : jobs' = [jobs EXCEPT ![run[r].job].status = q]),
             run[r].calm => /\ s \in {"check", "fetch", "restore", "finish", "verify", "verified", "mismatch", "fail"}
                            /\ Passed(r)' \subseteq Passed(r)
                            /\ run[r].fresh /\ s = "verified" =>
                                 \A p \in Pks : docs[p] = rows[p] \/ (p \in run[r].errors /\ docs[p] = NoRow)
      PROVE  MirrorInv'
  <2>1. PICK e : e = [run[r] EXCEPT !.step = s]
    OBVIOUS
  <2>2. /\ e \in RunState /\ e.step = s /\ e.job = run[r].job /\ e.calm = run[r].calm /\ e.errors = run[r].errors
        /\ e.fresh = run[r].fresh
    BY <1>t, <2>1 DEF RunState
  <2>3. run[r].job \in 1..Len(jobs)
    BY <1>3, <1>t
  <2>4. jobs' \in Seq(JobState) /\ Len(jobs') = Len(jobs) /\ \A j \in 1..Len(jobs) : jobs'[j].total = jobs[j].total
    BY <1>3, <1>t, <2>3, StatusSet
  <2>5. RunnerOn(r, e)
    BY <1>3, <1>t, <2>1, <2>2, <2>3, <2>4 DEF RunnerOn
  <2>6. CalmOn(r, e)
    BY <1>3, <2>2 DEF CalmOn
  <2> QED BY <2>2, <2>5, <2>6, RunnerMoves
<1>4. ASSUME run' = [run EXCEPT ![r] = NoRun], rows' = rows, docs' = docs, writes' = writes, doing' = doing,
             disturbed' \in SUBSET Pks, disturbed \subseteq disturbed',
             run[r].step = "bulk" => run[r].batch \subseteq disturbed',
             jobs' = jobs \/ (run[r].job \in 1..Len(jobs) /\ \E q \in Statuses : jobs' = [jobs EXCEPT ![run[r].job].status = q])
      PROVE  MirrorInv'
  <2>1. jobs' \in Seq(JobState) /\ Len(jobs') = Len(jobs) /\ \A j \in 1..Len(jobs) : jobs'[j].total = jobs[j].total
    BY <1>4, <1>t, StatusSet
  <2>2. RunnerOn(r, NoRun)
    BY <1>4, <1>t, <2>1, NoRunType DEF RunnerOn, Loop
  <2> QED BY <2>2, NoRunType, RunnerMoves DEF CalmOn
<1>5. CASE ResumeReset(r)
  <2>1. ~run[r].calm
    BY <1>5, <1>h DEF Undisturbed, ResumeReset, Loop
  <2>2. run[r].errors = {}
    BY <1>5 DEF ResumeReset, MirrorTypes
  <2> QED BY <1>3, <1>5, <2>1, <2>2 DEF ResumeReset, Goto, SetRun, stores, RunSteps, Loop, Statuses
<1>6. CASE Claim(r)
  <2>1. ~run[r].calm
    BY <1>6, <1>h DEF Undisturbed, Claim, Loop
  <2>2. run[r].errors = {}
    BY <1>6 DEF Claim, MirrorTypes
  <2> QED BY <1>3, <1>6, <2>1, <2>2 DEF Claim, Goto, SetRun, stores, RunSteps, Loop, Statuses
<1>7. CASE Skip(r) \/ RecordFailure(r) \/ EndCommand(r)
  <2>1. run[r].step \in {"claim", "fail", "verified", "mismatch"} /\ run' = [run EXCEPT ![r] = NoRun]
    BY <1>7 DEF Skip, RecordFailure, EndCommand, SetRun
  <2>2. rows' = rows /\ docs' = docs /\ writes' = writes /\ doing' = doing /\ disturbed' = disturbed
    BY <1>7 DEF Skip, RecordFailure, EndCommand, stores
  <2>3. jobs' = jobs \/ \E q \in Statuses : jobs' = [jobs EXCEPT ![run[r].job].status = q]
    BY <1>7 DEF Skip, RecordFailure, EndCommand, Statuses
  <2> QED BY <1>4, <1>t, <2>1, <2>2, <2>3
<1>8. CASE CheckStatus(r)
  <2>1. /\ run[r].step = "check" /\ jobs' = jobs /\ rows' = rows /\ docs' = docs /\ writes' = writes /\ doing' = doing
        /\ disturbed' = disturbed
    BY <1>8 DEF CheckStatus, stores
  <2>2. CASE run' = [run EXCEPT ![r] = [run[r] EXCEPT !.step = "fetch"]]
    <3>1. Passed(r)' = Passed(r)
      <4>1. run'[r].step = "fetch" /\ run'[r].cursor = run[r].cursor
        BY <1>t, <2>2 DEF MirrorTypes, RunState
      <4> QED BY <2>1, <4>1 DEF Passed, Alive
    <3> QED BY <1>3, <2>1, <2>2, <3>1 DEF RunSteps, Loop
  <2>3. CASE run' = [run EXCEPT ![r] = [run[r] EXCEPT !.step = "restore", !.next = "idle"]]
    <3>1. PICK e : e = [run[r] EXCEPT !.step = "restore", !.next = "idle"]
      OBVIOUS
    <3>2. /\ e \in RunState /\ e.step = "restore" /\ e.next = "idle" /\ e.job = run[r].job /\ e.calm = run[r].calm
          /\ e.errors = run[r].errors /\ e.fresh = run[r].fresh /\ run'[r] = e
      BY <1>t, <2>3, <3>1 DEF RunState, RunSteps, MirrorTypes
    <3>3. Passed(r)' = {}
      BY <3>2 DEF Passed
    <3>4. RunnerOn(r, e) /\ CalmOn(r, e)
      BY <1>t, <2>1, <2>3, <3>1, <3>2, <3>3 DEF RunnerOn, CalmOn, Loop
    <3> QED BY <3>2, <3>4, RunnerMoves
  <2> QED BY <1>8, <2>2, <2>3 DEF CheckStatus, Goto, SetRun
<1>9. CASE NoMoreRows(r)
  <2>1. /\ run[r].step = "fetch" /\ jobs' = jobs /\ rows' = rows /\ docs' = docs /\ writes' = writes /\ doing' = doing
        /\ disturbed' = disturbed /\ Page(run[r].cursor) = {}
        /\ run' = [run EXCEPT ![r] = [run[r] EXCEPT !.step = "restore", !.next = "finish"]]
    BY <1>9 DEF NoMoreRows, stores, SetRun
  <2>2. PICK e : e = [run[r] EXCEPT !.step = "restore", !.next = "finish"]
    OBVIOUS
  <2>3. /\ e \in RunState /\ e.step = "restore" /\ e.next = "finish" /\ e.job = run[r].job /\ e.calm = run[r].calm
        /\ e.errors = run[r].errors /\ e.fresh = run[r].fresh /\ run'[r] = e
    BY <1>t, <2>1, <2>2 DEF RunState, RunSteps, MirrorTypes
  <2>4. Passed(r)' = Alive
    BY <2>1, <2>3 DEF Passed, Alive
  <2>5. Passed(r) = Alive
    BY <1>t, <2>1, Pages DEF Passed
  <2>6. RunnerOn(r, e) /\ CalmOn(r, e)
    BY <1>t, <2>1, <2>2, <2>3, <2>4, <2>5 DEF RunnerOn, CalmOn, Loop
  <2> QED BY <2>3, <2>6, RunnerMoves
<1>10. CASE SaveCheckpoint(r)
  <2>1. PICK c, n : c = LastOf(run[r].batch) /\ n = run[r].processed + Cardinality(run[r].batch)
    OBVIOUS
  <2>2. /\ run[r].step = "save" /\ rows' = rows /\ docs' = docs /\ writes' = writes /\ doing' = doing
        /\ disturbed' = disturbed
        /\ jobs' = [jobs EXCEPT ![run[r].job].cursor = c, ![run[r].job].processed = n]
        /\ run' = [run EXCEPT ![r] = [run[r] EXCEPT !.step = "check", !.cursor = c, !.processed = n, !.batch = {}]]
    BY <1>10, <2>1 DEF SaveCheckpoint, stores, SetRun
  <2>3. run[r].batch # {} /\ run[r].job \in 1..Len(jobs)
    BY <1>t, <2>2 DEF MirrorTypes
  <2>4. c \in run[r].batch /\ (\A q \in run[r].batch : q <= c) /\ c \in Nat /\ n \in Nat
    <3>1. c \in run[r].batch /\ (\A q \in run[r].batch : q <= c)
      BY <1>t, <2>1, <2>3, LastOfBatch
    <3>2. c \in Nat
      BY <1>t, <3>1, KeysFinite
    <3>3. Cardinality(run[r].batch) \in Nat
      BY <1>t, KeysFinite
    <3> QED BY <1>t, <2>1, <3>1, <3>2, <3>3
  <2>5. PICK e : e = [run[r] EXCEPT !.step = "check", !.cursor = c, !.processed = n, !.batch = {}]
    OBVIOUS
  <2>6. /\ e \in RunState /\ e.step = "check" /\ e.cursor = c /\ e.job = run[r].job /\ e.calm = run[r].calm
        /\ e.errors = run[r].errors /\ e.fresh = run[r].fresh /\ run'[r] = e
    BY <1>t, <2>2, <2>4, <2>5 DEF RunState, RunSteps, Loop, MirrorTypes
  <2>7. PICK g : g = [[jobs[run[r].job] EXCEPT !.cursor = c] EXCEPT !.processed = n]
    OBVIOUS
  <2>8. jobs[run[r].job] \in JobState
    BY <1>t, <2>3
  <2>9. g \in JobState /\ g.total = jobs[run[r].job].total
    BY <2>4, <2>7, <2>8 DEF JobState
  <2>10. jobs' = [jobs EXCEPT ![run[r].job] = g]
    <3>1. PICK j : j = run[r].job
      OBVIOUS
    <3>2. jobs \in [1..Len(jobs) -> JobState]
      BY DEF MirrorTypes
    <3>3. jobs' = [jobs EXCEPT ![j].cursor = c, ![j].processed = n] /\ g = [[jobs[j] EXCEPT !.cursor = c] EXCEPT !.processed = n]
      BY <2>2, <2>7, <3>1
    <3>4. jobs' = [jobs EXCEPT ![j] = g]
      BY <2>3, <3>1, <3>2, <3>3
    <3> QED BY <3>1, <3>4
  <2>11. /\ jobs' \in Seq(JobState) /\ Len(jobs') = Len(jobs)
         /\ \A i \in 1..Len(jobs) : jobs'[i] = IF i = run[r].job THEN g ELSE jobs[i]
    BY <2>3, <2>9, <2>10, JobChange
  <2>12. RunnerOn(r, e)
    BY <1>t, <2>2, <2>3, <2>5, <2>6, <2>9, <2>11 DEF RunnerOn, Loop
  <2>13. ASSUME run[r].calm PROVE Passed(r)' \subseteq Passed(r)
    <3>1. WholePage(run[r].batch, run[r].cursor)
      BY <1>h, <2>2, <2>13 DEF Undisturbed
    <3>2. Passed(r)' = {p \in Alive : p <= c}
      BY <2>2, <2>6 DEF Passed, Alive
    <3>3. ASSUME NEW p \in Alive, p <= c PROVE p <= run[r].cursor \/ p \in run[r].batch
      <4>1. p \in Nat
        BY KeysFinite
      <4>2. CASE p = c
        BY <2>4, <4>2
      <4>3. CASE p < c
        BY <1>t, <2>4, <3>1, <4>1, <4>3 DEF WholePage, After
      <4> QED BY <2>4, <3>3, <4>1, <4>2, <4>3
    <3>4. Passed(r) = {p \in Alive : p <= run[r].cursor \/ p \in run[r].batch}
      BY <2>2 DEF Passed
    <3> QED BY <3>2, <3>3, <3>4
  <2>14. CalmOn(r, e)
    BY <2>6, <2>13 DEF CalmOn
  <2> QED BY <2>6, <2>12, <2>14, RunnerMoves
<1>11. CASE Raise(r)
  <2>1. PICK e : e = [run[r] EXCEPT !.step = "restore", !.next = "fail", !.batch = {}, !.read = NoRun.read]
    OBVIOUS
  <2>2. /\ run[r].step \in Loop \cup {"open"} /\ run' = [run EXCEPT ![r] = e]
        /\ disturbed' = disturbed \cup (IF run[r].step = "bulk" THEN run[r].batch ELSE {})
        /\ jobs' = jobs /\ rows' = rows /\ docs' = docs /\ writes' = writes /\ doing' = doing
    BY <1>11, <2>1 DEF Raise, stores, SetRun
  <2>3. NoRun.read \in [Pks -> Nat]
    BY DEF NoRun, NoRow
  <2>4. /\ e \in RunState /\ e.step = "restore" /\ e.next = "fail" /\ e.job = run[r].job /\ e.calm = run[r].calm
        /\ e.errors = run[r].errors /\ e.fresh = run[r].fresh /\ run'[r] = e
    BY <1>t, <2>1, <2>2, <2>3 DEF RunState, RunSteps, MirrorTypes
  <2>5. Passed(r)' = {}
    BY <2>4 DEF Passed
  <2>6. run[r].job \in 1..Len(jobs)
    BY <1>t, <2>2 DEF Loop
  <2>7. RunnerOn(r, e) /\ CalmOn(r, e)
    BY <1>t, <2>2, <2>4, <2>5, <2>6 DEF RunnerOn, CalmOn, Loop
  <2> QED BY <2>4, <2>7, RunnerMoves
<1>12. CASE RestoreSettings(r)
  <2>1. /\ run[r].step = "restore" /\ jobs' = jobs /\ rows' = rows /\ docs' = docs /\ writes' = writes /\ doing' = doing
        /\ disturbed' = disturbed
    BY <1>12 DEF RestoreSettings, stores
  <2>2. CASE run[r].next = "idle"
    BY <1>12, <1>4, <1>t, <2>1, <2>2 DEF RestoreSettings, SetRun
  <2>3. CASE run[r].next # "idle"
    <3>1. run' = [run EXCEPT ![r] = [run[r] EXCEPT !.step = run[r].next]] /\ run[r].next \in {"finish", "fail"}
      BY <1>12, <1>t, <2>3 DEF RestoreSettings, Goto, SetRun, RunState
    <3>2. run'[r].step = run[r].next
      BY <1>t, <3>1 DEF MirrorTypes, RunState
    <3>3. Passed(r)' \subseteq Passed(r)
      BY <2>1, <3>1, <3>2 DEF Passed, Alive
    <3>4. run[r].next \in RunSteps \ {"bulk", "save"} /\ run[r].next \notin Loop
      BY <3>1 DEF RunSteps, Loop
    <3> QED BY <1>3, <2>1, <3>1, <3>3, <3>4
  <2> QED BY <2>2, <2>3
<1>13. CASE Finish(r)
  <2>1. /\ run[r].step = "finish" /\ rows' = rows /\ docs' = docs /\ writes' = writes /\ doing' = doing
        /\ disturbed' = disturbed /\ run' = [run EXCEPT ![r] = [run[r] EXCEPT !.step = "verify"]]
        /\ \E q \in Statuses : jobs' = [jobs EXCEPT ![run[r].job].status = q]
    BY <1>13 DEF Finish, stores, Goto, SetRun, Statuses
  <2>2. run'[r].step = "verify"
    BY <1>t, <2>1 DEF MirrorTypes, RunState
  <2>3. Passed(r)' \subseteq Passed(r)
    BY <2>1, <2>2 DEF Passed, Alive
  <2> QED BY <1>3, <2>1, <2>3 DEF RunSteps, Loop
<1>14. CASE VerifyIndex(r)
  <2> DEFINE Found == {p \in Pks : docs[p] # NoRow}
  <2>1. /\ run[r].step = "verify" /\ jobs' = jobs /\ rows' = rows /\ docs' = docs /\ writes' = writes /\ doing' = doing
        /\ disturbed' = disturbed
        /\ \/ /\ Cardinality(Found) = jobs[run[r].job].total - Cardinality(run[r].errors)
              /\ run' = [run EXCEPT ![r] = [run[r] EXCEPT !.step = "verified"]]
           \/ run' = [run EXCEPT ![r] = [run[r] EXCEPT !.step = "mismatch"]]
    BY <1>14 DEF VerifyIndex, Expected, Goto, SetRun, stores
  <2>2. run'[r].step \in {"verified", "mismatch"}
    BY <1>t, <2>1 DEF MirrorTypes, RunState
  <2>3. Passed(r)' \subseteq Passed(r)
    BY <2>1, <2>2 DEF Passed, Alive
  <2>4. ASSUME run[r].calm, run[r].fresh,
               Cardinality(Found) = jobs[run[r].job].total - Cardinality(run[r].errors)
        PROVE  \A p \in Pks : docs[p] = rows[p] \/ (p \in run[r].errors /\ docs[p] = NoRow)
    <3> DEFINE Sound == Alive \ run[r].errors
    <3>1. /\ run[r].errors \subseteq Alive /\ jobs[run[r].job].total = Cardinality(Alive)
          /\ \A p \in Sound : docs[p] = rows[p]
      BY <1>h, <2>1, <2>4 DEF Undisturbed, Passed
    <3>2. Sound \subseteq Found
      BY <3>1, KeysFinite DEF Alive
    <3>3. IsFiniteSet(Alive) /\ IsFiniteSet(run[r].errors) /\ IsFiniteSet(Found)
      BY <3>1, KeysFinite
    <3>4. Cardinality(Sound) = Cardinality(Alive) - Cardinality(run[r].errors)
      <4>1. Cardinality(Sound) = Cardinality(Alive) - Cardinality(Alive \cap run[r].errors)
        BY <3>3, FS_Difference
      <4>2. Alive \cap run[r].errors = run[r].errors
        BY <3>1
      <4> QED BY <4>1, <4>2
    <3>5. Found = Sound
      <4>1. Cardinality(Sound) = Cardinality(Found)
        BY <2>4, <3>1, <3>4
      <4> HIDE DEF Sound, Found
      <4> QED BY <3>2, <3>3, <4>1, FS_Subset
    <3> QED BY <3>1, <3>5 DEF Alive
  <2> HIDE DEF Found
  <2>5. CASE /\ Cardinality(Found) = jobs[run[r].job].total - Cardinality(run[r].errors)
             /\ run' = [run EXCEPT ![r] = [run[r] EXCEPT !.step = "verified"]]
    BY <1>3, <2>1, <2>3, <2>4, <2>5 DEF RunSteps, Loop
  <2>6. CASE run' = [run EXCEPT ![r] = [run[r] EXCEPT !.step = "mismatch"]]
    BY <1>3, <2>1, <2>3, <2>6 DEF RunSteps, Loop
  <2> QED BY <2>1, <2>5, <2>6
<1>15. CASE Crash(r)
  <2>1. /\ run' = [run EXCEPT ![r] = NoRun] /\ rows' = rows /\ docs' = docs /\ writes' = writes /\ doing' = doing
        /\ disturbed' = disturbed \cup (IF run[r].step = "bulk" THEN run[r].batch ELSE {}) /\ jobs' = jobs
    BY <1>15 DEF Crash, SetRun, stores
  <2> QED BY <1>4, <1>t, <2>1
<1> QED BY <1>1, <1>2, <1>5, <1>6, <1>7, <1>8, <1>9, <1>10, <1>11, <1>12, <1>13, <1>14, <1>15
\* The run is calm from here on if nobody writes and no other run is in its
\* loop; from the first row, it has passed nothing yet.
LEMMA OpenInv == ASSUME MirrorInv, NEW r \in Runners, Open(r) PROVE MirrorInv'
<1> USE DEF MirrorInv
<1>t. /\ run \in [Runners -> RunState] /\ run[r] \in RunState /\ run[r].step = "open" /\ run[r].job \in 1..Len(jobs)
      /\ jobs[run[r].job] \in JobState /\ Cardinality(Alive) \in Nat /\ run[r].errors = {}
      /\ rows' = rows /\ docs' = docs /\ writes' = writes /\ doing' = doing /\ disturbed' = disturbed
  <2>1. run[r].step = "open" /\ UNCHANGED <<stores, doing, disturbed>>
    BY DEF Open
  <2>2. run \in [Runners -> RunState] /\ run[r] \in RunState /\ run[r].job \in 1..Len(jobs) /\ run[r].errors = {}
    BY <2>1 DEF MirrorTypes
  <2>3. jobs[run[r].job] \in JobState
    BY <2>2 DEF MirrorTypes
  <2>4. Cardinality(Alive) \in Nat
    BY KeysFinite
  <2> QED BY <2>1, <2>2, <2>3, <2>4 DEF stores
<1>1. PICK j : j = run[r].job
  OBVIOUS
<1>2. PICK done : done = IF Fresh(j) THEN 0 ELSE jobs[j].processed
  OBVIOUS
<1>3. PICK n : n = Cardinality(Alive)
  OBVIOUS
<1> DEFINE still == CalmStart /\ \A s \in Runners \ {r} : run[s].step \notin Loop
           kept == IF run[r].tune THEN IF relaxed THEN "relaxed" ELSE "normal" ELSE NoSettings
           whole == Fresh(j)
<1>4. PICK e : e = [run[r] EXCEPT !.step = "check", !.cursor = jobs[j].cursor, !.processed = done,
                                  !.fresh = whole, !.calm = still, !.saved = kept]
  OBVIOUS
<1>5. /\ jobs' = [jobs EXCEPT ![j].total = n, ![j].processed = done]
      /\ run' = [q \in Runners |-> IF q = r THEN e ELSE [run[q] EXCEPT !.calm = FALSE]]
  BY <1>1, <1>2, <1>3, <1>4 DEF Open
<1>6. /\ whole \in BOOLEAN /\ (whole <=> jobs[j].cursor = 0) /\ still \in BOOLEAN
      /\ (still => \A s \in Runners \ {r} : run[s].step \notin Loop)
      /\ kept \in {NoSettings, "relaxed", "normal"}
  BY DEF Fresh, CalmStart
<1> HIDE DEF still, kept, whole
<1>7. jobs[j].cursor \in Nat /\ done \in Nat /\ n \in Nat /\ j \in Nat
  BY <1>t, <1>1, <1>2, <1>3 DEF JobState
<1>8. /\ e \in RunState /\ e.step = "check" /\ e.cursor = jobs[j].cursor /\ e.fresh = whole /\ e.calm = still
      /\ e.job = j /\ e.errors = {}
  BY <1>t, <1>1, <1>4, <1>6, <1>7 DEF RunState, RunSteps, Loop
<1>9. PICK g : g = [[jobs[j] EXCEPT !.total = n] EXCEPT !.processed = done]
  OBVIOUS
<1>10. g \in JobState /\ g.total = n
  BY <1>t, <1>1, <1>7, <1>9 DEF JobState
<1>11. jobs' = [jobs EXCEPT ![j] = g]
  <2>1. jobs \in [1..Len(jobs) -> JobState]
    BY DEF MirrorTypes
  <2> QED BY <1>t, <1>1, <1>5, <1>9, <2>1
<1>12. /\ jobs' \in Seq(JobState) /\ Len(jobs') = Len(jobs)
       /\ \A i \in 1..Len(jobs) : jobs'[i] = IF i = j THEN g ELSE jobs[i]
  <2>1. j \in 1..Len(jobs)
    BY <1>t, <1>1
  <2> QED BY <1>10, <1>11, <2>1, JobChange
<1>13. ASSUME NEW q \in Runners, q # r
       PROVE  /\ run'[q] \in RunState /\ run'[q].step = run[q].step /\ run'[q].job = run[q].job
              /\ run'[q].batch = run[q].batch /\ run'[q].read = run[q].read /\ run'[q].errors = run[q].errors
              /\ run'[q].calm = FALSE
  <2>1. run'[q] = [run[q] EXCEPT !.calm = FALSE] /\ run[q] \in RunState
    BY <1>t, <1>5, <1>13
  <2> QED BY <2>1 DEF RunState
<1>14. run'[r] = e
  BY <1>5
<1>15. MirrorTypes'
  <2>1. run' \in [Runners -> RunState]
    BY <1>5, <1>8, <1>13, <1>14
  <2>2. ASSUME NEW q \in Runners
        PROVE  /\ run'[q].step # "idle" => run'[q].job \in 1..Len(jobs')
               /\ run'[q].step \in {"bulk", "save"} => run'[q].batch # {}
               /\ run'[q].step \in {"reset", "claim", "open"} => run'[q].errors = {}
    <3>1. CASE q = r
      BY <1>t, <1>1, <1>8, <1>12, <1>14, <3>1
    <3>2. CASE q # r
      BY <1>12, <1>13, <3>2 DEF MirrorTypes
    <3> QED BY <3>1, <3>2
  <2> QED BY <1>t, <1>12, <2>1, <2>2 DEF MirrorTypes
<1>16. ExactInv'
  <2>1. \A q \in Runners, p \in Pks : (Reading(q, p)' <=> Reading(q, p)) /\ (Reading(q, p) => run'[q].read[p] = run[q].read[p])
    BY <1>t, <1>8, <1>13, <1>14 DEF Reading
  <2>2. \A w \in Writers, p \in Pks : Working(w, p)' <=> Working(w, p)
    BY <1>t DEF Working
  <2>3. \A p \in Pks : Busy(p)' <=> Busy(p)
    BY <2>1, <2>2 DEF Busy
  <2> QED BY <1>t, <2>1, <2>2, <2>3 DEF ExactInv, Settled
<1>17. ASSUME run'[r].calm PROVE Undisturbed(r)'
  <2>1. \A s \in Runners \ {r} : run'[s].step \notin Loop
    BY <1>6, <1>8, <1>13, <1>14, <1>17
  <2>2. Alive' = Alive /\ jobs'[j].total = Cardinality(Alive)
    BY <1>t, <1>1, <1>3, <1>10, <1>12 DEF Alive
  <2>3. run'[r].fresh => Passed(r)' = {}
    <3>1. \A p \in Alive : p \in Nat /\ p # 0
      BY KeysFinite
    <3>2. Passed(r)' = {p \in Alive : p <= e.cursor}
      BY <1>8, <1>14, <2>2 DEF Passed
    <3> QED BY <1>6, <1>8, <1>14, <3>1, <3>2
  <2> QED BY <1>8, <1>14, <2>1, <2>2, <2>3 DEF Undisturbed, Loop
<1>18. HealInv' /\ VerifiedExact'
  BY <1>8, <1>13, <1>14, <1>17 DEF HealInv, VerifiedExact, Calm
<1> QED BY <1>15, <1>16, <1>18

\* A page is read: it is a whole one, and nobody else counts on its keys.
LEMMA FetchInv == ASSUME MirrorInv, NEW r \in Runners, FetchBatch(r) PROVE MirrorInv'
<1> USE DEF MirrorInv
<1>t. /\ run \in [Runners -> RunState] /\ run[r] \in RunState /\ run[r].step = "fetch" /\ run[r].job \in 1..Len(jobs)
      /\ rows' = rows /\ docs' = docs /\ writes' = writes /\ doing' = doing /\ jobs' = jobs
      /\ rows \in [Pks -> Nat] /\ run[r].cursor \in Nat
  BY DEF FetchBatch, stores, MirrorTypes, Loop, RunState
<1>1. PICK c : c = run[r].cursor
  OBVIOUS
<1>2. PICK S : S = Page(c)
  OBVIOUS
<1>3. PICK f : f = [p \in Pks |-> IF p \in S THEN rows[p] ELSE NoRow]
  OBVIOUS
<1>4. S # {} /\ S \in SUBSET Pks /\ S \subseteq Alive /\ WholePage(S, c)
  BY <1>t, <1>1, <1>2, Pages, KeysFinite DEF FetchBatch
<1>5. f \in [Pks -> Nat] /\ \A p \in S : f[p] = rows[p]
  BY <1>t, <1>3, <1>4 DEF NoRow
<1>6. PICK e : e = [run[r] EXCEPT !.step = "bulk", !.batch = S, !.read = f]
  OBVIOUS
<1>7. run' = [run EXCEPT ![r] = e] /\ disturbed' = (disturbed \ S) \cup {p \in S : Busy(p)}
  BY <1>t, <1>1, <1>2, <1>3, <1>6 DEF FetchBatch, SetRun, BeginOn
<1>8. /\ e \in RunState /\ e.step = "bulk" /\ e.batch = S /\ e.read = f /\ e.cursor = c /\ e.job = run[r].job
      /\ e.calm = run[r].calm /\ e.errors = run[r].errors /\ e.fresh = run[r].fresh
  BY <1>t, <1>1, <1>4, <1>5, <1>6 DEF RunState, RunSteps, Loop
<1>9. run' \in [Runners -> RunState] /\ \A q \in Runners : run'[q] = IF q = r THEN e ELSE run[q]
  BY <1>t, <1>7, <1>8
<1>a. Alive' = Alive
  BY <1>t DEF Alive
<1>10. MirrorTypes'
  <2>1. ASSUME NEW q \in Runners
        PROVE  /\ run'[q].step # "idle" => run'[q].job \in 1..Len(jobs')
               /\ run'[q].step \in {"bulk", "save"} => run'[q].batch # {}
               /\ run'[q].step \in {"reset", "claim", "open"} => run'[q].errors = {}
    BY <1>t, <1>4, <1>8, <1>9 DEF MirrorTypes
  <2>2. disturbed' \in SUBSET Pks
    BY <1>4, <1>7 DEF MirrorTypes
  <2> QED BY <1>t, <1>9, <2>1, <2>2 DEF MirrorTypes
<1>11. ASSUME NEW p \in Pks \ disturbed' PROVE Settled(p)'
  <2>1. \A w \in Writers : Working(w, p)' <=> Working(w, p)
    BY <1>t DEF Working
  <2>2. \A q \in Runners \ {r} : (Reading(q, p)' <=> Reading(q, p)) /\ run'[q] = run[q]
    BY <1>9 DEF Reading
  <2>3. (Reading(r, p)' <=> p \in S) /\ ~Reading(r, p)
    BY <1>t, <1>8, <1>9 DEF Reading
  <2>4. CASE p \in S
    <3>1. ~Busy(p)
      BY <1>7, <1>11, <2>4
    <3>2. (\A w \in Writers : ~Working(w, p)') /\ (\A q \in Runners \ {r} : ~Reading(q, p)')
      BY <2>1, <2>2, <3>1 DEF Busy
    <3>3. Reading(r, p)' /\ run'[r].read[p] = rows'[p] /\ Busy(p)'
      BY <1>t, <1>5, <1>8, <1>9, <2>3, <2>4 DEF Busy
    <3> QED BY <3>2, <3>3 DEF Settled
  <2>5. CASE p \notin S
    <3>1. Settled(p) /\ (Busy(p)' <=> Busy(p))
      BY <1>7, <1>11, <2>1, <2>2, <2>3, <2>5 DEF ExactInv, Busy
    <3> QED BY <1>t, <2>1, <2>2, <2>3, <2>5, <3>1 DEF Settled
  <2> QED BY <2>4, <2>5
<1>12. ASSUME NEW q \in Runners, run'[q].calm PROVE Undisturbed(q)'
  <2>1. run[q].calm /\ Undisturbed(q)
    BY <1>8, <1>9, <1>12 DEF HealInv
  <2>2. CASE q = r
    <3>1. /\ \A s \in Runners \ {r} : run'[s].step \notin Loop
          /\ run'[r].errors \subseteq Alive' /\ run'[r].step \in Loop
          /\ jobs'[run'[r].job].total = Cardinality(Alive')
      BY <1>t, <1>a, <1>8, <1>9, <2>1, <2>2 DEF Undisturbed, Loop
    <3>2. run'[r].batch # {} /\ run'[r].batch \subseteq Alive' /\ WholePage(run[r].batch, run[r].cursor)'
      BY <1>a, <1>4, <1>8, <1>9 DEF WholePage, After
    <3>3. \A p \in run'[r].batch : run'[r].read[p] = rows'[p]
      BY <1>t, <1>5, <1>8, <1>9
    <3>4. Passed(r)' = Passed(r)
      BY <1>t, <1>a, <1>1, <1>8, <1>9 DEF Passed
    <3>5. run'[r].fresh => \A p \in Passed(r)' \ run'[r].errors : docs'[p] = rows'[p]
      BY <1>t, <1>8, <1>9, <2>1, <2>2, <3>4 DEF Undisturbed
    <3> QED BY <2>2, <3>1, <3>2, <3>3, <3>5 DEF Undisturbed
  <2>3. CASE q # r
    BY <1>t, <2>1, <2>3 DEF Undisturbed, Loop
  <2> QED BY <2>2, <2>3
<1>13. VerifiedExact'
  BY <1>t, <1>8, <1>9 DEF VerifiedExact, Calm
<1> QED BY <1>10, <1>11, <1>12, <1>13 DEF ExactInv, HealInv

\* The bulk request writes what was read; a document it refuses leaves its key
\* disturbed, and only the keys of the batch change.
LEMMA BulkInv == ASSUME MirrorInv, NEW r \in Runners, Bulk(r) PROVE MirrorInv'
<1> USE DEF MirrorInv
<1>t. /\ run \in [Runners -> RunState] /\ run[r] \in RunState /\ run[r].step = "bulk" /\ run[r].job \in 1..Len(jobs)
      /\ rows' = rows /\ writes' = writes /\ doing' = doing /\ jobs' = jobs
      /\ docs \in [Pks -> Nat] /\ run[r].batch \in SUBSET Pks /\ run[r].errors \in SUBSET Pks
      /\ run[r].read \in [Pks -> Nat] /\ run[r].batch # {}
  BY DEF Bulk, MirrorTypes, Loop, RunState
<1>1. PICK S, f : S = run[r].batch /\ f = run[r].read
  OBVIOUS
<1>2. PICK rejected \in SUBSET run[r].batch :
        /\ docs' = [p \in Pks |-> IF p \in run[r].batch \ rejected THEN run[r].read[p] ELSE docs[p]]
        /\ disturbed' = disturbed \cup rejected
        /\ SetRun(r, [run[r] EXCEPT !.step = "save", !.errors = @ \cup rejected, !.read = NoRun.read])
  BY DEF Bulk
<1>3. PICK bad : bad = run[r].errors \cup rejected
  OBVIOUS
<1>4. PICK e : e = [run[r] EXCEPT !.step = "save", !.errors = bad, !.read = NoRun.read]
  OBVIOUS
<1>5. /\ run' = [run EXCEPT ![r] = e] /\ rejected \subseteq S /\ S \in SUBSET Pks /\ S # {} /\ bad \in SUBSET Pks
      /\ f \in [Pks -> Nat]
  BY <1>t, <1>1, <1>2, <1>3, <1>4 DEF SetRun
<1>6. NoRun.read \in [Pks -> Nat]
  BY DEF NoRun, NoRow
<1>7. /\ e \in RunState /\ e.step = "save" /\ e.batch = S /\ e.cursor = run[r].cursor /\ e.job = run[r].job
      /\ e.calm = run[r].calm /\ e.errors = bad /\ e.fresh = run[r].fresh
  BY <1>t, <1>1, <1>4, <1>5, <1>6 DEF RunState, RunSteps, Loop
<1>8. run' \in [Runners -> RunState] /\ \A q \in Runners : run'[q] = IF q = r THEN e ELSE run[q]
  BY <1>t, <1>5, <1>7
<1>9. docs' \in [Pks -> Nat] /\ \A p \in Pks : docs'[p] = IF p \in S \ rejected THEN f[p] ELSE docs[p]
  BY <1>t, <1>1, <1>2, <1>5
<1>a. Alive' = Alive
  BY <1>t DEF Alive
<1>10. MirrorTypes'
  <2>1. ASSUME NEW q \in Runners
        PROVE  /\ run'[q].step # "idle" => run'[q].job \in 1..Len(jobs')
               /\ run'[q].step \in {"bulk", "save"} => run'[q].batch # {}
               /\ run'[q].step \in {"reset", "claim", "open"} => run'[q].errors = {}
    BY <1>t, <1>5, <1>7, <1>8 DEF MirrorTypes
  <2>2. disturbed' \in SUBSET Pks
    BY <1>2, <1>5 DEF MirrorTypes
  <2> QED BY <1>t, <1>8, <1>9, <2>1, <2>2 DEF MirrorTypes
<1>11. ASSUME NEW p \in Pks \ disturbed' PROVE Settled(p)'
  <2>1. Settled(p) /\ p \notin rejected
    BY <1>2, <1>11 DEF ExactInv
  <2>2. \A w \in Writers : Working(w, p)' <=> Working(w, p)
    BY <1>t DEF Working
  <2>3. \A q \in Runners \ {r} : (Reading(q, p)' <=> Reading(q, p)) /\ run'[q] = run[q]
    BY <1>8 DEF Reading
  <2>4. (Reading(r, p) <=> p \in S) /\ ~Reading(r, p)'
    BY <1>t, <1>1, <1>7, <1>8 DEF Reading
  <2>5. CASE p \in S
    <3>1. /\ \A w \in Writers : ~Working(w, p)
          /\ \A q \in Runners \ {r} : ~Reading(q, p)
          /\ f[p] = rows[p]
      BY <1>1, <2>1, <2>4, <2>5 DEF Settled
    <3>2. (\A w \in Writers : ~Working(w, p)') /\ (\A q \in Runners : ~Reading(q, p)')
      BY <2>2, <2>3, <2>4, <3>1
    <3>3. docs'[p] = rows'[p]
      BY <1>t, <1>9, <2>1, <2>5, <3>1
    <3> QED BY <3>2, <3>3 DEF Settled
  <2>6. CASE p \notin S
    <3>1. (Busy(p)' <=> Busy(p)) /\ docs'[p] = docs[p]
      BY <1>9, <2>2, <2>3, <2>4, <2>6 DEF Busy
    <3> QED BY <1>t, <2>1, <2>2, <2>3, <2>4, <2>6, <3>1 DEF Settled
  <2> QED BY <2>5, <2>6
<1>12. ASSUME NEW q \in Runners, run'[q].calm PROVE q = r /\ Undisturbed(r)'
  <2>1. run[q].calm /\ Undisturbed(q)
    BY <1>7, <1>8, <1>12 DEF HealInv
  <2>2. q = r
    BY <1>t, <2>1 DEF Undisturbed, Loop
  <2>3. /\ S \subseteq Alive /\ WholePage(S, run[r].cursor) /\ run[r].errors \subseteq Alive
        /\ \A p \in S : f[p] = rows[p]
    BY <1>t, <1>1, <2>1, <2>2 DEF Undisturbed
  <2>4. /\ \A s \in Runners \ {r} : run'[s].step \notin Loop
        /\ run'[r].errors \subseteq Alive' /\ run'[r].step \in Loop
        /\ jobs'[run'[r].job].total = Cardinality(Alive')
    BY <1>t, <1>a, <1>3, <1>5, <1>7, <1>8, <2>1, <2>2, <2>3 DEF Undisturbed, Loop
  <2>5. run'[r].batch # {} /\ run'[r].batch \subseteq Alive' /\ WholePage(run[r].batch, run[r].cursor)'
    BY <1>a, <1>5, <1>7, <1>8, <2>3 DEF WholePage, After
  <2>6. Passed(r) = {p \in Alive : p <= run[r].cursor}
    BY <1>t DEF Passed
  <2>7. Passed(r)' = {p \in Alive : p <= run[r].cursor \/ p \in S}
    BY <1>a, <1>7, <1>8 DEF Passed
  <2>8. ASSUME run[r].fresh, NEW p \in Passed(r)', p \notin bad PROVE docs'[p] = rows'[p]
    <3>1. p \in Alive /\ p \in Pks /\ p \notin rejected /\ p \notin run[r].errors
      BY <1>3, <2>7, <2>8 DEF Alive
    <3>2. CASE p \in S
      BY <1>t, <1>9, <2>3, <3>1, <3>2
    <3>3. CASE p \notin S
      <4>1. docs[p] = rows[p]
        BY <2>1, <2>2, <2>6, <2>7, <2>8, <3>1, <3>3 DEF Undisturbed
      <4> QED BY <1>t, <1>9, <3>1, <3>3, <4>1
    <3> QED BY <3>2, <3>3
  <2>9. run'[r].fresh => \A p \in Passed(r)' \ run'[r].errors : docs'[p] = rows'[p]
    BY <1>7, <1>8, <2>8
  <2> QED BY <1>7, <1>8, <2>2, <2>4, <2>5, <2>9 DEF Undisturbed
<1>13. VerifiedExact'
  BY <1>7, <1>8, <1>12 DEF VerifiedExact, Calm
<1> QED BY <1>10, <1>11, <1>12, <1>13 DEF ExactInv, HealInv

\* Cancelling changes a job's status and nothing a run has read.
LEMMA CancelInv == ASSUME MirrorInv, NEW j \in 1..Len(jobs), Cancel(j) PROVE MirrorInv'
<1> USE DEF MirrorInv
<1>1. /\ rows' = rows /\ docs' = docs /\ writes' = writes /\ doing' = doing /\ run' = run /\ disturbed' = disturbed
      /\ jobs' = [jobs EXCEPT ![j].status = "cancelled"]
  BY DEF Cancel, stores
<1>2. jobs' \in Seq(JobState) /\ Len(jobs') = Len(jobs) /\ \A i \in 1..Len(jobs) : jobs'[i].total = jobs[i].total
  BY <1>1, StatusSet DEF Statuses
<1>3. MirrorTypes'
  BY <1>1, <1>2 DEF MirrorTypes
<1>4. ExactInv'
  BY <1>1 DEF ExactInv, Settled, Busy, Working, Reading
<1>5. ASSUME NEW q \in Runners, run[q].calm PROVE Undisturbed(q)'
  <2>1. Undisturbed(q) /\ run[q].job \in 1..Len(jobs)
    BY <1>5 DEF HealInv, Undisturbed, MirrorTypes, Loop
  <2>2. Alive' = Alive /\ jobs'[run[q].job].total = jobs[run[q].job].total
    BY <1>1, <1>2, <2>1 DEF Alive
  <2>3. Passed(q)' = Passed(q)
    BY <1>1, <2>2 DEF Passed
  <2> QED BY <1>1, <2>1, <2>2, <2>3 DEF Undisturbed, WholePage, After
<1>6. HealInv' /\ VerifiedExact'
  BY <1>1, <1>5 DEF HealInv, VerifiedExact, Calm
<1> QED BY <1>3, <1>4, <1>6

LEMMA MirrorStart == MirrorInit => MirrorInv
<1> SUFFICES ASSUME MirrorInit PROVE MirrorInv
  OBVIOUS
<1>1. /\ rows \in [Pks -> {NoRow, 1}] /\ docs = rows /\ writes = 1 /\ doing = [w \in Writers |-> Free] /\ jobs = <<>>
      /\ run = [r \in Runners |-> NoRun] /\ disturbed = {}
  BY DEF MirrorInit
<1>2. Free \in WriterState /\ Free.step = "free"
  BY DEF Free, WriterState, WriterSteps, NoRow
<1>3. MirrorTypes
  BY <1>1, <1>2, NoRunType DEF MirrorTypes, NoRow
<1>4. ExactInv
  BY <1>1, <1>2, NoRunType DEF ExactInv, Settled, Working, Reading
<1>5. HealInv /\ VerifiedExact
  BY <1>1, NoRunType DEF HealInv, VerifiedExact, Calm
<1> QED BY <1>3, <1>4, <1>5 DEF MirrorInv

LEMMA MirrorStep == MirrorInv /\ [MirrorNext]_mirrorVars => MirrorInv'
<1> SUFFICES ASSUME MirrorInv, [MirrorNext]_mirrorVars PROVE MirrorInv'
  OBVIOUS
<1>1. ASSUME NEW w \in Writers, WriterStep(w) PROVE MirrorInv'
  BY <1>1, WriterInv
<1>2. ASSUME NEW r \in Runners, ReindexStep(r) PROVE MirrorInv'
  BY <1>2, RunnerInv, OpenInv, FetchInv, BulkInv DEF ReindexStep
<1>3. ASSUME NEW j \in 1..Len(jobs), Cancel(j) PROVE MirrorInv'
  BY <1>3, CancelInv
<1>4. CASE UNCHANGED mirrorVars
  <2>1. /\ rows' = rows /\ docs' = docs /\ writes' = writes /\ doing' = doing /\ run' = run /\ disturbed' = disturbed
        /\ jobs' = jobs
    BY <1>4 DEF mirrorVars
  <2>2. MirrorTypes' /\ VerifiedExact'
    BY <2>1 DEF MirrorInv, MirrorTypes, VerifiedExact, Calm
  <2>3. ExactInv'
    BY <2>1 DEF MirrorInv, ExactInv, Settled, Busy, Working, Reading
  <2>4. Alive' = Alive /\ \A r \in Runners : Passed(r)' = Passed(r)
    BY <2>1 DEF Passed, Alive
  <2>5. HealInv'
    BY <2>1, <2>4 DEF MirrorInv, HealInv, Undisturbed, WholePage, After
  <2> QED BY <2>2, <2>3, <2>5 DEF MirrorInv
<1> QED BY <1>1, <1>2, <1>3, <1>4 DEF MirrorNext

LEMMA MirrorInvHolds == MirrorSpec => []MirrorInv
BY MirrorStart, MirrorStep, PTL DEF MirrorSpec

\* Whatever writers and reindexes did, a key whose last operation overlapped no
\* other and had no failing call is searchable exactly as it is stored.
THEOREM MirrorExactHolds == MirrorSpec => []MirrorExact
<1>1. MirrorInv => MirrorExact
  BY DEF MirrorInv, ExactInv, Settled, MirrorExact
<1> QED BY <1>1, MirrorInvHolds, PTL

\* A reindex from the first row that no writer disturbed leaves no live row with
\* an older document, whatever earlier jobs left behind.
THEOREM ReindexHealsHolds == MirrorSpec => []ReindexHeals
<1>1. MirrorInv => ReindexHeals
  <2> SUFFICES ASSUME MirrorInv, NEW r \in Runners, Calm(r), run[r].step \in {"verify", "verified", "mismatch"}
               PROVE  \A p \in Alive \ run[r].errors : docs[p] = rows[p]
    BY DEF ReindexHeals
  <2>1. Undisturbed(r) /\ run[r].fresh
    BY DEF MirrorInv, HealInv, Calm
  <2>2. Passed(r) = Alive
    BY DEF Passed
  <2> QED BY <2>1, <2>2 DEF Undisturbed
<1> QED BY <1>1, MirrorInvHolds, PTL

\* --verify counts: after such a run, a count that matches leaves no orphaned
\* document and no stale one.
THEOREM VerifiedExactHolds == MirrorSpec => []VerifiedExact
<1>1. MirrorInv => VerifiedExact
  BY DEF MirrorInv
<1> QED BY <1>1, MirrorInvHolds, PTL

-----------------------------------------------------------------------------
(* KeyRotation: saves, deployments and the converting command.             *)

Values == Plaintexts \cup {"gone"}
StoredValue == [key : Nat, value : Values]
CommandState ==
  [mode : Modes \cup {{}}, keys : Seq(Ids), cursor : Nat, phase : {"idle", "read", "write", "last"},
   batch : SUBSET [pk : Rows, stored : StoredValue], failed : BOOLEAN, current : BOOLEAN]

RotationTypes ==
  /\ keyset \in Seq(Ids) /\ keyset # <<>>
  /\ cached \in [Processes -> Seq(Ids)]
  /\ table = [k \in Rows |-> table[k]]
  /\ \A k \in Rows : table[k].value \in Values
  /\ command \in CommandState
  /\ command.phase \in {"idle", "read"} => command.batch = {}

\* A key is in use as long as a row may name it, and an index that no bulk write
\* left behind was derived with the key and of the value beside it.
Written(k) ==
  /\ table[k].key \in {Plain} \cup Range(keyset)
  /\ k \notin drifted /\ table[k].key # Plain => table[k].index = <<table[k].key, table[k].value>>
CachesKnown == \A p \in Processes : cached[p] # <<>> => Active(cached[p]) \in Range(keyset)

Current(k) == table[k].key \in {Plain, Active(keyset)}
EmptiedTrue == emptied => Deployed /\ \A k \in Rows : Current(k)

\* What the running command knows: a row it has passed is under the active key
\* or waits in its batch, if it met no failure and all processes were deployed.
Passing(k) == k <= command.cursor \/ command.phase = "last"
Waiting(k) == \E new \in command.batch : new.pk = k
CommandTrue ==
  command.phase # "idle" =>
    /\ command.keys # <<>> /\ Active(command.keys) = Active(keyset)
    /\ \A new \in command.batch : new.stored.key = Active(keyset)
    /\ command.current => Deployed
    /\ "rotate" \in command.mode /\ command.current /\ ~command.failed =>
         \A k \in Rows : Passing(k) => Current(k) \/ Waiting(k)

RotInv == RotationTypes /\ (\A k \in Rows : Written(k)) /\ CachesKnown /\ EmptiedTrue /\ CommandTrue

LEMMA RowsFinite ==
  /\ Rows \subseteq Nat \ {0} /\ Stored \in SUBSET Rows
  /\ \A S \in SUBSET Rows : IsFiniteSet(S) /\ Cardinality(S) \in Nat /\ \A T \in SUBSET S : Cardinality(T) <= Cardinality(S)
<1>1. Rows \subseteq Nat \ {0} /\ IsFiniteSet(Rows)
  BY RotationAssumption
<1> QED BY <1>1, FS_Subset, FS_CardinalityType DEF Stored

\* A page leaves out no row between its keys, and a short one leaves out none.
LEMMA RowPages ==
  ASSUME NEW c \in Nat
  PROVE  /\ RowPage(c) \subseteq RowsAfter(c)
         /\ \A p \in RowPage(c), q \in RowsAfter(c) : q < p => q \in RowPage(c)
         /\ Cardinality(RowPage(c)) < BatchSize => RowsAfter(c) \subseteq RowPage(c)
<1> DEFINE Below(p) == {q \in RowsAfter(c) : q < p}
<1>n. RowsAfter(c) \in SUBSET Rows /\ \A p \in RowsAfter(c) : p \in Nat /\ Below(p) \in SUBSET Rows
  BY RowsFinite DEF RowsAfter
<1>c. BatchSize \in Nat /\ BatchSize > 0
  BY RotationAssumption
<1>p. RowPage(c) \subseteq RowsAfter(c)
  BY DEF RowPage
<1>1. ASSUME NEW p \in RowPage(c), NEW q \in RowsAfter(c), q < p PROVE q \in RowPage(c)
  <2>1. p \in RowsAfter(c) /\ Cardinality(Below(p)) < BatchSize
    BY DEF RowPage
  <2>2. Below(q) \subseteq Below(p)
    BY <1>1, <1>n, <2>1
  <2>3. Cardinality(Below(q)) <= Cardinality(Below(p)) /\ Cardinality(Below(q)) \in Nat /\ Cardinality(Below(p)) \in Nat
    <3> HIDE DEF Below
    <3> QED BY <1>n, <2>1, <2>2, RowsFinite
  <2>4. Cardinality(Below(q)) < BatchSize
    <3> HIDE DEF Below
    <3> QED BY <2>1, <2>3, <1>c
  <2> QED BY <2>4 DEF RowPage
<1>2. ASSUME Cardinality(RowPage(c)) < BatchSize, NEW p \in RowsAfter(c), p \notin RowPage(c) PROVE FALSE
  <2> DEFINE Rest == RowsAfter(c) \ RowPage(c)
  <2>1. Rest \in SUBSET Nat /\ p \in Rest
    BY <1>2, <1>n
  <2>2. PICK m \in Rest : \A x \in Rest : m <= x
    <3> HIDE DEF Rest
    <3> QED BY <2>1, Least
  <2>3. Below(m) \subseteq RowPage(c)
    <3>1. ASSUME NEW q \in Below(m), q \notin RowPage(c) PROVE FALSE
      <4>1. q \in Rest /\ q < m /\ q \in Nat /\ m \in Nat
        BY <3>1, <1>n, <2>1, <2>2
      <4> QED BY <2>2, <4>1
    <3> QED BY <3>1
  <2>4. /\ Cardinality(Below(m)) <= Cardinality(RowPage(c))
        /\ Cardinality(Below(m)) \in Nat /\ Cardinality(RowPage(c)) \in Nat
    <3>1. RowPage(c) \in SUBSET Rows
      BY <1>n, <1>p
    <3> HIDE DEF Below
    <3> QED BY <2>3, <3>1, RowsFinite
  <2>5. Cardinality(Below(m)) < BatchSize
    <3> HIDE DEF Below
    <3> QED BY <1>2, <1>c, <2>4
  <2>6. m \in RowPage(c)
    BY <2>2, <2>5 DEF RowPage
  <2> QED BY <2>2, <2>6
<1> QED BY <1>p, <1>1, <1>2

LEMMA HeadIn == ASSUME NEW S, NEW s \in Seq(S), s # <<>> PROVE Head(s) \in Range(s) /\ Head(s) \in S
BY DEF Range

\* The keys a process may write under.
LEMMA KeyInUse ==
  ASSUME RotInv, NEW p \in Processes
  PROVE  /\ Active(Resolved(p)) \in Range(keyset) /\ Active(Resolved(p)) \in Ids /\ Active(keyset) \in Range(keyset)
         /\ Resolved(p) # <<>> /\ Resolved(p) \in Seq(Ids)
         /\ Deployed => Active(Resolved(p)) = Active(keyset)
<1>1. /\ keyset \in Seq(Ids) /\ keyset # <<>> /\ cached[p] \in Seq(Ids)
      /\ (cached[p] # <<>> => Active(cached[p]) \in Range(keyset))
  BY DEF RotInv, RotationTypes, CachesKnown
<1>2. Active(keyset) \in Range(keyset) /\ Active(keyset) \in Ids
  BY <1>1, HeadIn DEF Active
<1>3. cached[p] # <<>> => Active(cached[p]) \in Ids
  BY <1>1, HeadIn DEF Active
<1> QED BY <1>1, <1>2, <1>3 DEF Resolved, Deployed

\* A write of the application to the row k, under the active key of a process,
\* or the row's end.
LEMMA RowWritten ==
  ASSUME RotInv, NEW k \in Rows, keyset' = keyset, command' = command, emptied' = emptied,
         cached' = cached \/ \E p \in Processes : Use(p),
         \A j \in Rows \ {k} : table'[j] = table[j] /\ (j \in drifted' <=> j \in drifted),
         table' = [j \in Rows |-> table'[j]], table'[k].value \in Values,
         table'[k].key = Plain \/ \E p \in Processes : table'[k].key = Active(Resolved(p)),
         k \in drifted' \/ table'[k].key = Plain \/ table'[k].index = <<table'[k].key, table'[k].value>>
  PROVE  RotInv'
<1>1. RotationTypes' /\ CachesKnown' /\ (Deployed => Deployed')
  <2>1. CASE cached' = cached
    <3>1. \A j \in Rows : table'[j].value \in Values
      BY DEF RotInv, RotationTypes
    <3> QED BY <2>1, <3>1 DEF RotInv, RotationTypes, CachesKnown, Deployed
  <2>2. ASSUME NEW p \in Processes, Use(p) PROVE RotationTypes' /\ CachesKnown' /\ (Deployed => Deployed')
    <3>1. cached \in [Processes -> Seq(Ids)] /\ cached' = [cached EXCEPT ![p] = Resolved(p)]
      BY <2>2 DEF RotInv, RotationTypes, Use
    <3>2. \A q \in Processes : cached'[q] = IF q = p THEN Resolved(p) ELSE cached[q]
      BY <3>1
    <3>3. cached' \in [Processes -> Seq(Ids)]
      BY <3>1, KeyInUse
    <3>4. \A j \in Rows : table'[j].value \in Values
      BY DEF RotInv, RotationTypes
    <3>5. RotationTypes'
      BY <3>3, <3>4 DEF RotInv, RotationTypes
    <3>6. CachesKnown'
      BY <3>2, KeyInUse DEF RotInv, CachesKnown
    <3>7. Deployed => Deployed'
      BY <3>2, KeyInUse DEF Deployed
    <3> QED BY <3>5, <3>6, <3>7
  <2> QED BY <2>1, <2>2
<1>2. ASSUME NEW j \in Rows PROVE Written(j)'
  <2>1. CASE j = k
    <3>1. table'[k].key \in {Plain} \cup Range(keyset)
      BY KeyInUse
    <3> QED BY <2>1, <3>1 DEF Written
  <2>2. CASE j # k
    <3>1. Written(j)
      BY DEF RotInv
    <3> QED BY <2>2, <3>1 DEF Written
  <2> QED BY <2>1, <2>2
<1>3. ASSUME Deployed, NEW j \in Rows, j = k \/ Current(j) PROVE Current(j)'
  <2>1. CASE j = k
    <3>1. table'[k].key \in {Plain, Active(keyset)}
      BY <1>3, KeyInUse
    <3> QED BY <2>1, <3>1 DEF Current
  <2>2. CASE j # k
    BY <1>3, <2>2 DEF Current
  <2> QED BY <2>1, <2>2
<1>4. EmptiedTrue'
  BY <1>1, <1>3 DEF RotInv, EmptiedTrue
<1>5. CommandTrue'
  <2>1. CommandTrue
    BY DEF RotInv
  <2>2. \A j \in Rows : (Passing(j)' <=> Passing(j)) /\ (Waiting(j)' <=> Waiting(j))
    BY DEF Passing, Waiting
  <2> QED BY <1>1, <1>3, <2>1, <2>2 DEF CommandTrue
<1> QED BY <1>1, <1>2, <1>4, <1>5 DEF RotInv

LEMMA ApplicationInv ==
  ASSUME RotInv, NEW k \in Rows,
         (\E p \in Processes, v \in Plaintexts : Save(p, k, v) \/ BulkUpdate(p, k, v)) \/ Delete(k)
  PROVE  RotInv'
<1>t. table = [j \in Rows |-> table[j]]
  BY DEF RotInv, RotationTypes
<1>1. ASSUME NEW p \in Processes, NEW v \in Plaintexts, Save(p, k, v) PROVE RotInv'
  <2>1. PICK new : new = Row(Ciphertext(v, Resolved(p)), Index(v, Resolved(p)))
    OBVIOUS
  <2>2. /\ table' = [table EXCEPT ![k] = new] /\ Use(p) /\ drifted' = drifted \ {k}
        /\ keyset' = keyset /\ command' = command /\ emptied' = emptied
    BY <1>1, <2>1 DEF Save
  <2>3. new.key = Active(Resolved(p)) /\ new.value = v /\ new.index = <<new.key, new.value>>
    BY <2>1 DEF Row, Ciphertext, Index
  <2>4. table' = [j \in Rows |-> table'[j]] /\ table'[k] = new /\ \A j \in Rows \ {k} : table'[j] = table[j]
    BY <1>t, <2>2
  <2> QED BY <2>2, <2>3, <2>4, RowWritten DEF Values
<1>2. ASSUME NEW p \in Processes, NEW v \in Plaintexts, BulkUpdate(p, k, v) PROVE RotInv'
  <2>1. PICK new : new = Row(Ciphertext(v, Resolved(p)), table[k].index)
    OBVIOUS
  <2>2. /\ table' = [table EXCEPT ![k] = new] /\ Use(p) /\ drifted' = drifted \cup {k}
        /\ keyset' = keyset /\ command' = command /\ emptied' = emptied
    BY <1>2, <2>1 DEF BulkUpdate
  <2>3. new.key = Active(Resolved(p)) /\ new.value = v
    BY <2>1 DEF Row, Ciphertext
  <2>4. table' = [j \in Rows |-> table'[j]] /\ table'[k] = new /\ \A j \in Rows \ {k} : table'[j] = table[j]
    BY <1>t, <2>2
  <2> QED BY <2>2, <2>3, <2>4, RowWritten DEF Values
<1>3. CASE Delete(k)
  <2>1. /\ table' = [table EXCEPT ![k] = GoneRow] /\ drifted' = drifted \ {k}
        /\ keyset' = keyset /\ command' = command /\ emptied' = emptied /\ cached' = cached
    BY <1>3 DEF Delete
  <2>2. table' = [j \in Rows |-> table'[j]] /\ table'[k] = GoneRow /\ \A j \in Rows \ {k} : table'[j] = table[j]
    BY <1>t, <2>1
  <2>3. GoneRow.key = Plain /\ GoneRow.value \in Values
    BY DEF GoneRow, Values
  <2> QED BY <2>1, <2>2, <2>3, RowWritten
<1> QED BY <1>1, <1>2, <1>3

\* A new key is active nowhere yet, and no command runs.
LEMMA PrependInv == ASSUME RotInv, Prepend PROVE RotInv'
<1>1. /\ NewKey \in Ids /\ command = NoCommand /\ keyset' = <<NewKey>> \o keyset /\ ~emptied'
      /\ cached' = cached /\ table' = table /\ command' = command /\ drifted' = drifted /\ emptied' = FALSE
  BY DEF Prepend
<1>2. PICK new \in Ids : new = NewKey
  BY <1>1
<1>3. keyset \in Seq(Ids)
  BY DEF RotInv, RotationTypes
<1>4. keyset' \in Seq(Ids) /\ keyset' # <<>> /\ Range(keyset) \subseteq Range(keyset')
  <2>1. keyset' = <<new>> \o keyset
    BY <1>1, <1>2
  <2>2. keyset' \in Seq(Ids) /\ Len(keyset') = Len(keyset) + 1
    BY <1>3, <2>1
  <2>3. \A i \in 1..Len(keyset) : i + 1 \in 1..Len(keyset') /\ keyset'[i + 1] = keyset[i]
    BY <1>3, <2>1, <2>2
  <2>4. keyset' # <<>> /\ DOMAIN keyset = 1..Len(keyset) /\ DOMAIN keyset' = 1..Len(keyset')
    BY <1>3, <2>2
  <2> QED BY <2>2, <2>3, <2>4 DEF Range
<1>5. RotationTypes'
  BY <1>1, <1>4 DEF RotInv, RotationTypes
<1>6. (\A k \in Rows : Written(k)') /\ CachesKnown'
  BY <1>1, <1>4 DEF RotInv, Written, CachesKnown
<1>7. EmptiedTrue' /\ CommandTrue'
  BY <1>1 DEF EmptiedTrue, CommandTrue, NoCommand
<1> QED BY <1>5, <1>6, <1>7 DEF RotInv

LEMMA RestartInv == ASSUME RotInv, NEW p \in Processes, Restart(p) PROVE RotInv'
<1>1. /\ cached' = [cached EXCEPT ![p] = <<>>] /\ keyset' = keyset /\ table' = table /\ command' = command
      /\ drifted' = drifted /\ emptied' = emptied /\ cached \in [Processes -> Seq(Ids)]
  BY DEF Restart, RotInv, RotationTypes
<1>2. cached' \in [Processes -> Seq(Ids)] /\ \A q \in Processes : cached'[q] = IF q = p THEN <<>> ELSE cached[q]
  BY <1>1
<1>3. RotationTypes'
  BY <1>1, <1>2 DEF RotInv, RotationTypes
<1>4. (\A k \in Rows : Written(k)') /\ CachesKnown' /\ (Deployed => Deployed')
  BY <1>1, <1>2 DEF RotInv, Written, CachesKnown, Deployed
<1>5. \A k \in Rows : (Current(k)' <=> Current(k)) /\ (Passing(k)' <=> Passing(k)) /\ (Waiting(k)' <=> Waiting(k))
  BY <1>1 DEF Current, Passing, Waiting
<1>6. EmptiedTrue'
  BY <1>1, <1>4, <1>5 DEF RotInv, EmptiedTrue
<1>7. CommandTrue'
  BY <1>1, <1>4, <1>5 DEF RotInv, CommandTrue
<1> QED BY <1>3, <1>4, <1>6, <1>7 DEF RotInv

\* The old keys go once a run has left no row under them.
LEMMA DropInv == ASSUME RotInv, DropOld PROVE RotInv'
<1>1. /\ emptied /\ cached' = cached /\ table' = table /\ command' = command
      /\ drifted' = drifted /\ emptied' = emptied /\ keyset \in Seq(Ids) /\ keyset # <<>>
  BY DEF DropOld, RotInv, RotationTypes
<1>2. PICK a \in Ids : a = Active(keyset)
  BY <1>1, HeadIn DEF Active
<1>3. keyset' = <<a>>
  BY <1>2 DEF DropOld
<1>4. keyset' \in Seq(Ids) /\ keyset' # <<>> /\ Active(keyset') = a /\ Range(keyset') = {a}
  BY <1>3 DEF Active, Range
<1>5. Deployed /\ (\A k \in Rows : Current(k))
  BY <1>1 DEF RotInv, EmptiedTrue
<1>6. RotationTypes'
  BY <1>1, <1>4 DEF RotInv, RotationTypes
<1>7. Deployed' /\ CachesKnown'
  BY <1>1, <1>2, <1>4, <1>5 DEF Deployed, CachesKnown
<1>8. \A k \in Rows : Current(k)' /\ Written(k)'
  BY <1>1, <1>2, <1>4, <1>5 DEF RotInv, Current, Written
<1>9. \A k \in Rows : (Passing(k)' <=> Passing(k)) /\ (Waiting(k)' <=> Waiting(k))
  BY <1>1 DEF Passing, Waiting
<1>10. CommandTrue'
  BY <1>1, <1>2, <1>4, <1>7, <1>8 DEF RotInv, CommandTrue
<1> QED BY <1>6, <1>7, <1>8, <1>10 DEF RotInv, EmptiedTrue

\* The command's own bookkeeping, and its end.
LEMMA CommandOnly ==
  ASSUME RotInv, command' \in CommandState, command'.phase \in {"idle", "read"} => command'.batch = {},
         keyset' = keyset, cached' = cached, table' = table, drifted' = drifted, EmptiedTrue', CommandTrue'
  PROVE  RotInv'
<1>1. RotationTypes'
  BY DEF RotInv, RotationTypes
<1>2. (\A k \in Rows : Written(k)') /\ CachesKnown'
  BY DEF RotInv, Written, CachesKnown
<1> QED BY <1>1, <1>2 DEF RotInv

LEMMA EmptiedStays ==
  ASSUME RotInv, emptied' = emptied, keyset' = keyset, cached' = cached, table' = table
  PROVE  EmptiedTrue'
BY DEF RotInv, EmptiedTrue, Deployed, Current

LEMMA NoCommandType == NoCommand \in CommandState /\ NoCommand.phase = "idle" /\ NoCommand.batch = {}
BY DEF NoCommand, CommandState

\* What _plan decides: only a value it cannot read is left under an old key.
LEMMA Plans ==
  ASSUME NEW row, NEW ks, NEW mode
  PROVE  /\ Plan(row, ks, mode).write \in BOOLEAN /\ Plan(row, ks, mode).failed \in BOOLEAN
         /\ Plan(row, ks, mode).write => Plan(row, ks, mode).stored = [key |-> Active(ks), value |-> row.value]
         /\ "rotate" \in mode /\ row.key \notin {Plain, Active(ks)} =>
              Plan(row, ks, mode).write \/ Plan(row, ks, mode).failed
<1> DEFINE again == Rewrite(Ciphertext(row.value, ks))
           plan == Plan(row, ks, mode)
<1>1. /\ again.write = TRUE /\ again.failed = FALSE /\ again.stored = [key |-> Active(ks), value |-> row.value]
      /\ SkipValue.write = FALSE /\ SkipValue.failed = FALSE /\ Unreadable.write = FALSE /\ Unreadable.failed = TRUE
  BY DEF Rewrite, Ciphertext, SkipValue, Unreadable
<1>2. /\ plan \in {again, SkipValue, Unreadable}
      /\ "rotate" \in mode /\ row.key \notin {Plain, Active(ks)} => plan \in {again, Unreadable}
  BY DEF Plan
<1> HIDE DEF again, plan
<1>3. /\ plan.write \in BOOLEAN /\ plan.failed \in BOOLEAN
      /\ plan.write => plan.stored = [key |-> Active(ks), value |-> row.value]
      /\ "rotate" \in mode /\ row.key \notin {Plain, Active(ks)} => plan.write \/ plan.failed
  BY <1>1, <1>2
<1> QED BY <1>3 DEF plan

LEMMA StartInv == ASSUME RotInv, NEW mode \in Modes, StartRotation(mode) PROVE RotInv'
<1> DEFINE now == Deployed
<1>1. PICK c : c = [NoCommand EXCEPT !.mode = mode, !.keys = keyset, !.phase = "read", !.current = now]
  OBVIOUS
<1>2. /\ command' = c /\ keyset' = keyset /\ cached' = cached /\ table' = table /\ drifted' = drifted
      /\ emptied' = emptied /\ keyset \in Seq(Ids) /\ keyset # <<>>
  BY <1>1 DEF StartRotation, RotInv, RotationTypes
<1>3. now \in BOOLEAN
  BY DEF Deployed
<1> HIDE DEF now
<1>4. /\ c \in CommandState /\ c.phase = "read" /\ c.batch = {} /\ c.keys = keyset /\ c.cursor = 0
      /\ (c.current <=> now)
  BY <1>1, <1>2, <1>3 DEF NoCommand, CommandState
<1>5. EmptiedTrue'
  BY <1>2, EmptiedStays
<1>6. \A k \in Rows : ~Passing(k)'
  BY <1>2, <1>4, RowsFinite DEF Passing
<1>7. CommandTrue'
  BY <1>2, <1>4, <1>6 DEF CommandTrue, Deployed, now
<1> QED BY <1>2, <1>4, <1>5, <1>7, CommandOnly

\* Every row of the page is under the active key, waits to be rewritten or has
\* failed; none between the pages is left out.
LEMMA ReadInv == ASSUME RotInv, Read PROVE RotInv'
<1>t. /\ command \in CommandState /\ command.phase = "read" /\ command.batch = {} /\ command.cursor \in Nat
      /\ keyset' = keyset /\ cached' = cached /\ table' = table /\ drifted' = drifted /\ emptied' = emptied
      /\ \A k \in Rows : table[k].value \in Values
  BY DEF Read, RotInv, RotationTypes, CommandState
<1>c. /\ command.keys \in Seq(Ids) /\ command.keys # <<>> /\ Active(command.keys) = Active(keyset)
      /\ Active(keyset) \in Nat
  <2>1. command.keys \in Seq(Ids) /\ command.keys # <<>> /\ Active(command.keys) = Active(keyset)
    BY <1>t DEF RotInv, CommandTrue, CommandState
  <2>2. Head(command.keys) \in Ids
    BY <2>1, HeadIn
  <2> QED BY <2>1, <2>2 DEF Active, Ids
<1> DEFINE plan(k) == Plan(table[k], command.keys, command.mode)
<1>1. PICK page : page = RowPage(command.cursor)
  OBVIOUS
<1>2. /\ page \in SUBSET Rows /\ page \subseteq RowsAfter(command.cursor)
      /\ \A p \in page, q \in RowsAfter(command.cursor) : q < p => q \in page
      /\ Cardinality(page) < BatchSize => RowsAfter(command.cursor) \subseteq page
  BY <1>t, <1>1, RowPages, RowsFinite DEF RowsAfter
<1>3. PICK S : S = {[pk |-> k, stored |-> plan(k).stored] : k \in {j \in page : plan(j).write}}
  OBVIOUS
<1>4. PICK failing \in BOOLEAN : failing <=> (command.failed \/ \E k \in page : plan(k).failed)
  <2> DEFINE b == (command.failed \/ \E k \in page : plan(k).failed)
  <2>1. b \in BOOLEAN
    OBVIOUS
  <2> HIDE DEF b
  <2> WITNESS b \in BOOLEAN
  <2> QED BY DEF b
<1>5. PICK last : last = IF page = {} THEN command.cursor ELSE Max(page)
  OBVIOUS
<1>6. PICK phase : phase = IF Cardinality(page) < BatchSize THEN "last" ELSE "write"
  OBVIOUS
<1>7. PICK c : c = [command EXCEPT !.batch = S, !.failed = failing, !.cursor = last, !.phase = phase]
  OBVIOUS
<1>8. command' = c
  BY <1>t, <1>1, <1>3, <1>4, <1>5, <1>6, <1>7 DEF Read, CommandState
<1>p. ASSUME NEW k \in page
      PROVE  /\ plan(k).write \in BOOLEAN
             /\ plan(k).write => plan(k).stored = [key |-> Active(keyset), value |-> table[k].value]
             /\ "rotate" \in command.mode /\ ~Current(k) => plan(k).write \/ plan(k).failed
  BY <1>c, Plans DEF Current
<1> HIDE DEF plan
<1>9. S \in SUBSET [pk : Rows, stored : StoredValue] /\ \A new \in S : new.stored.key = Active(keyset)
  <2>1. ASSUME NEW new \in S
        PROVE  new \in [pk : Rows, stored : StoredValue] /\ new.stored.key = Active(keyset)
    <3>1. PICK k \in page : plan(k).write /\ new = [pk |-> k, stored |-> plan(k).stored]
      BY <1>3
    <3>2. plan(k).stored = [key |-> Active(keyset), value |-> table[k].value] /\ k \in Rows
      BY <1>2, <1>p, <3>1
    <3> QED BY <1>c, <1>t, <3>1, <3>2 DEF StoredValue
  <2> QED BY <2>1
<1>10. last \in Nat /\ (page # {} => last \in page /\ \A p \in page : p <= last)
  <2>1. CASE page = {}
    BY <1>t, <1>5, <2>1
  <2>2. CASE page # {}
    <3>1. page \in SUBSET Nat /\ IsFiniteSet(page)
      BY <1>2, RowsFinite
    <3>2. PICK m \in page : \A x \in page : x <= m
      BY <2>2, <3>1, Greatest
    <3>3. \A y \in page : m >= y
      BY <3>1, <3>2
    <3>4. Max(page) \in page /\ \A y \in page : Max(page) >= y
      BY <3>3 DEF Max
    <3> QED BY <1>5, <2>2, <3>1, <3>4
  <2> QED BY <2>1, <2>2
<1>11. /\ c \in CommandState /\ c.batch = S /\ (c.failed <=> failing) /\ c.cursor = last /\ c.phase = phase
       /\ c.keys = command.keys /\ c.mode = command.mode /\ c.current = command.current /\ phase \in {"write", "last"}
  <2>1. phase \in {"write", "last"}
    BY <1>6
  <2>2. /\ c.batch = S /\ c.failed = failing /\ c.cursor = last /\ c.phase = phase
        /\ c.keys = command.keys /\ c.mode = command.mode /\ c.current = command.current
    BY <1>t, <1>7 DEF CommandState
  <2>3. c \in CommandState
    BY <1>t, <1>7, <1>9, <1>10, <2>1 DEF CommandState
  <2> QED BY <2>1, <2>2, <2>3
<1>12. EmptiedTrue'
  BY <1>t, EmptiedStays
<1>13. ASSUME "rotate" \in command.mode, command.current, ~failing, NEW k \in Rows, k <= last \/ phase = "last", ~Current(k)
       PROVE  \E new \in S : new.pk = k
  <2>1. ~(k <= command.cursor)
    <3>1. ~command.failed
      BY <1>4, <1>13
    <3>2. \A j \in Rows : Passing(j) => Current(j) \/ Waiting(j)
      BY <1>13, <1>t, <3>1 DEF RotInv, CommandTrue
    <3> QED BY <1>13, <1>t, <3>2 DEF Passing, Waiting
  <2>2. k \in RowsAfter(command.cursor) /\ k \in Nat
    <3>1. table[k] # GoneRow
      BY <1>13 DEF Current, GoneRow
    <3>2. k \in Nat
      BY RowsFinite
    <3> QED BY <1>t, <2>1, <3>1, <3>2 DEF RowsAfter, Stored
  <2>3. k \in page
    <3>1. CASE phase = "last"
      BY <1>2, <1>6, <2>2, <3>1
    <3>2. CASE k <= last
      <4>1. page # {}
        BY <1>5, <2>1, <3>2
      <4>2. last \in page /\ (k < last \/ k = last)
        BY <1>10, <2>2, <3>2, <4>1
      <4> QED BY <1>2, <2>2, <4>2
    <3> QED BY <1>13, <3>1, <3>2
  <2>4. plan(k).write
    BY <1>4, <1>13, <1>p, <2>3
  <2>5. [pk |-> k, stored |-> plan(k).stored] \in S
    BY <1>3, <2>3, <2>4
  <2> QED BY <2>5
<1>14. CommandTrue'
  <2>1. Deployed' <=> Deployed
    BY <1>t DEF Deployed
  <2>2. command.current => Deployed
    BY <1>t DEF RotInv, CommandTrue
  <2>3. \A k \in Rows : /\ Current(k)' <=> Current(k)
                        /\ Passing(k)' <=> (k <= last \/ phase = "last")
                        /\ Waiting(k)' <=> \E new \in S : new.pk = k
    BY <1>t, <1>8, <1>11 DEF Current, Passing, Waiting
  <2> QED BY <1>c, <1>t, <1>8, <1>9, <1>11, <1>13, <2>1, <2>2, <2>3 DEF CommandTrue
<1> QED BY <1>t, <1>8, <1>11, <1>12, <1>14, CommandOnly

\* A stale plan still writes a value and an index under the active key.
LEMMA WriteRowInv == ASSUME RotInv, WriteRow PROVE RotInv'
<1>1. PICK new \in command.batch :
        /\ table' = [k \in Rows |-> IF k = new.pk /\ k \in Stored
                                    THEN Row(new.stored, Index(new.stored.value, command.keys))
                                    ELSE table[k]]
        /\ drifted' = drifted \ {new.pk}
        /\ command' = [command EXCEPT !.batch = @ \ {new}]
  BY DEF WriteRow
<1>t. /\ command \in CommandState /\ command.phase \notin {"idle", "read"} /\ command.batch # {}
      /\ keyset' = keyset /\ cached' = cached /\ emptied' = emptied
      /\ \A k \in Rows : table[k].value \in Values
  BY <1>1 DEF WriteRow, RotInv, RotationTypes
<1>c. /\ Active(command.keys) = Active(keyset) /\ new.stored.key = Active(keyset)
      /\ new.pk \in Rows /\ new.stored.value \in Values /\ Active(keyset) \in Range(keyset)
  <2>1. new \in [pk : Rows, stored : StoredValue]
    BY <1>1, <1>t DEF CommandState
  <2>2. Active(command.keys) = Active(keyset) /\ new.stored.key = Active(keyset)
    BY <1>1, <1>t DEF RotInv, CommandTrue
  <2>3. keyset \in Seq(Ids) /\ keyset # <<>>
    BY DEF RotInv, RotationTypes
  <2>4. Active(keyset) \in Range(keyset)
    BY <2>3, HeadIn DEF Active
  <2> QED BY <2>1, <2>2, <2>4 DEF StoredValue
<1>2. PICK S : S = command.batch \ {new}
  OBVIOUS
<1>3. command' \in CommandState /\ command' = [command EXCEPT !.batch = S]
  BY <1>1, <1>2, <1>t DEF CommandState
<1>4. /\ command'.batch = S /\ command'.phase = command.phase /\ command'.keys = command.keys
      /\ command'.cursor = command.cursor /\ command'.mode = command.mode
      /\ command'.current = command.current /\ command'.failed = command.failed
  BY <1>3, <1>t DEF CommandState
<1>5. PICK x : x = Row(new.stored, Index(new.stored.value, command.keys))
  OBVIOUS
<1>6. x.key = Active(keyset) /\ x.value = new.stored.value /\ x.index = <<Active(keyset), new.stored.value>>
  BY <1>5, <1>c DEF Row, Index
<1>7. /\ \A k \in Rows \ {new.pk} : table'[k] = table[k]
      /\ table'[new.pk] = x \/ (table'[new.pk] = table[new.pk] /\ table[new.pk] = GoneRow)
  BY <1>1, <1>5, <1>c DEF Stored
<1>8. RotationTypes'
  <2>1. table' = [k \in Rows |-> table'[k]]
    BY <1>1
  <2>2. \A k \in Rows : table'[k].value \in Values
    BY <1>c, <1>6, <1>7, <1>t
  <2> QED BY <1>3, <1>4, <1>t, <2>1, <2>2 DEF RotInv, RotationTypes
<1>9. GoneRow.key = Plain
  BY DEF GoneRow
<1>10. ASSUME NEW k \in Rows PROVE Written(k)'
  <2>1. CASE k = new.pk
    <3>1. table'[k].key \in {Plain, Active(keyset)} /\ (table'[k].key # Plain => table'[k].index = <<table'[k].key, table'[k].value>>)
      BY <1>6, <1>7, <1>9, <2>1
    <3> QED BY <1>c, <1>t, <3>1 DEF Written
  <2>2. CASE k # new.pk
    BY <1>1, <1>7, <1>t, <2>2 DEF RotInv, Written
  <2> QED BY <2>1, <2>2
<1>11. \A k \in Rows : Current(k) \/ k = new.pk => Current(k)'
  BY <1>6, <1>7, <1>9, <1>t DEF Current
<1>12. Deployed' <=> Deployed
  BY <1>t DEF Deployed
<1>13. CachesKnown' /\ EmptiedTrue'
  BY <1>t, <1>11, <1>12 DEF RotInv, CachesKnown, EmptiedTrue
<1>14. CommandTrue'
  <2>1. /\ Active(command.keys) = Active(keyset) /\ command.keys # <<>> /\ (command.current => Deployed)
        /\ \A b \in command.batch : b.stored.key = Active(keyset)
    BY <1>t DEF RotInv, CommandTrue
  <2>2. ASSUME "rotate" \in command.mode, command.current, ~command.failed, NEW k \in Rows, Passing(k)
        PROVE  Current(k)' \/ Waiting(k)'
    <3>1. Current(k) \/ Waiting(k)
      BY <1>t, <2>2 DEF RotInv, CommandTrue
    <3>2. Waiting(k) => k = new.pk \/ Waiting(k)'
      BY <1>2, <1>4 DEF Waiting
    <3> QED BY <1>11, <3>1, <3>2
  <2>3. \A k \in Rows : Passing(k)' <=> Passing(k)
    BY <1>4 DEF Passing
  <2>4. command'.keys # <<>> /\ Active(command'.keys) = Active(keyset')
    BY <1>4, <1>t, <2>1
  <2>5. \A b \in command'.batch : b.stored.key = Active(keyset')
    BY <1>2, <1>4, <1>t, <2>1
  <2>6. command'.current => Deployed'
    BY <1>4, <1>12, <2>1
  <2>7. "rotate" \in command'.mode /\ command'.current /\ ~command'.failed =>
          \A k \in Rows : Passing(k)' => Current(k)' \/ Waiting(k)'
    BY <1>4, <2>2, <2>3
  <2> QED BY <2>4, <2>5, <2>6, <2>7 DEF CommandTrue
<1> QED BY <1>8, <1>10, <1>13, <1>14 DEF RotInv

LEMMA NextPageInv == ASSUME RotInv, NextPage PROVE RotInv'
<1>1. /\ command' = [command EXCEPT !.phase = "read"] /\ command.batch = {} /\ command.phase = "write"
      /\ command \in CommandState
      /\ keyset' = keyset /\ cached' = cached /\ table' = table /\ drifted' = drifted /\ emptied' = emptied
  BY DEF NextPage, RotInv, RotationTypes
<1>2. /\ command' \in CommandState /\ command'.batch = {} /\ command'.phase = "read" /\ command'.keys = command.keys
      /\ command'.cursor = command.cursor /\ command'.mode = command.mode
      /\ command'.current = command.current /\ command'.failed = command.failed
  BY <1>1 DEF CommandState
<1>3. CommandTrue'
  <2>1. \A k \in Rows : /\ (Current(k)' <=> Current(k)) /\ (Passing(k)' <=> Passing(k)) /\ (Waiting(k)' <=> Waiting(k))
    BY <1>1, <1>2 DEF Current, Passing, Waiting
  <2>2. Deployed' <=> Deployed
    BY <1>1 DEF Deployed
  <2>3. CommandTrue
    BY DEF RotInv
  <2> QED BY <1>1, <1>2, <2>1, <2>2, <2>3 DEF CommandTrue
<1> QED BY <1>1, <1>2, <1>3, EmptiedStays, CommandOnly

\* The end of a run; a clean one has left no row under an old key.
LEMMA EndInv == ASSUME RotInv, Report \/ Killed PROVE RotInv'
<1>1. /\ command' = NoCommand
      /\ keyset' = keyset /\ cached' = cached /\ table' = table /\ drifted' = drifted
  BY DEF Report, Killed
<1>2. CommandTrue'
  BY <1>1, NoCommandType DEF CommandTrue
<1>3. EmptiedTrue'
  <2>1. CASE emptied' = emptied
    BY <1>1, <2>1, EmptiedStays
  <2>2. CASE Report /\ "rotate" \in command.mode /\ ~command.failed /\ command.current
    <3>1. command.phase = "last" /\ command.batch = {}
      BY <2>2 DEF Report
    <3>2. Deployed /\ \A k \in Rows : Current(k)
      BY <2>2, <3>1 DEF RotInv, CommandTrue, Passing, Waiting
    <3> QED BY <1>1, <3>2 DEF EmptiedTrue, Deployed, Current
  <2>3. Report /\ ~("rotate" \in command.mode /\ ~command.failed /\ command.current) => (emptied' <=> emptied)
    BY DEF Report
  <2>4. (emptied' <=> emptied) => EmptiedTrue'
    BY <1>1 DEF RotInv, EmptiedTrue, Deployed, Current
  <2> QED BY <2>2, <2>3, <2>4 DEF Killed
<1> QED BY <1>1, <1>2, <1>3, NoCommandType, CommandOnly

LEMMA RotationStart == RotationInit => RotInv
<1> SUFFICES ASSUME RotationInit PROVE RotInv
  OBVIOUS
<1>1. PICK plain \in SUBSET Rows :
        table = [k \in Rows |-> IF k \in plain
                              THEN [key |-> Plain, value |-> CHOOSE v \in Plaintexts : TRUE, index |-> <<>>]
                              ELSE GoneRow]
  BY DEF RotationInit
<1>2. PICK x : x = CHOOSE v \in Plaintexts : TRUE
  OBVIOUS
<1>3. x \in Plaintexts
  BY <1>2, RotationAssumption
<1>4. \A k \in Rows : table[k].key = Plain /\ table[k].value \in Values
  BY <1>1, <1>2, <1>3 DEF GoneRow, Values
<1>5. /\ keyset = <<1>> /\ cached = [p \in Processes |-> <<>>] /\ command = NoCommand /\ ~emptied
  BY DEF RotationInit
<1>6. keyset \in Seq(Ids) /\ keyset # <<>> /\ cached \in [Processes -> Seq(Ids)]
  <2>1. 1 \in Ids
    BY RotationAssumption DEF Ids
  <2> QED BY <1>5, <2>1
<1>7. RotationTypes
  BY <1>1, <1>4, <1>5, <1>6, NoCommandType DEF RotationTypes
<1>8. (\A k \in Rows : Written(k)) /\ CachesKnown /\ EmptiedTrue
  BY <1>4, <1>5 DEF Written, CachesKnown, EmptiedTrue
<1>9. CommandTrue
  BY <1>5, NoCommandType DEF CommandTrue
<1> QED BY <1>7, <1>8, <1>9 DEF RotInv

LEMMA RotationStep == RotInv /\ [RotationNext]_rotationVars => RotInv'
<1> SUFFICES ASSUME RotInv, [RotationNext]_rotationVars PROVE RotInv'
  OBVIOUS
<1>1. ASSUME NEW k \in Rows,
             (\E p \in Processes, v \in Plaintexts : Save(p, k, v) \/ BulkUpdate(p, k, v)) \/ Delete(k)
      PROVE  RotInv'
  BY <1>1, ApplicationInv
<1>2. ASSUME NEW p \in Processes, Restart(p) PROVE RotInv'
  BY <1>2, RestartInv
<1>3. ASSUME NEW mode \in Modes, StartRotation(mode) PROVE RotInv'
  BY <1>3, StartInv
<1>4. CASE UNCHANGED rotationVars
  <2>1. /\ keyset' = keyset /\ cached' = cached /\ table' = table /\ command' = command /\ drifted' = drifted
        /\ emptied' = emptied
    BY <1>4 DEF rotationVars
  <2>2. CommandTrue'
    BY <2>1 DEF RotInv, CommandTrue, Deployed, Current, Passing, Waiting
  <2> QED BY <2>1, <2>2, EmptiedStays, CommandOnly DEF RotInv, RotationTypes
<1> QED BY <1>1, <1>2, <1>3, <1>4, PrependInv, DropInv, ReadInv, WriteRowInv, NextPageInv, EndInv DEF RotationNext

LEMMA RotInvHolds == RotationSpec => []RotInv
BY RotationStart, RotationStep, PTL DEF RotationSpec

\* However saves, deployments, kills and runs of the command fall, and however
\* many keys follow one another, no ciphertext loses its key, and a row whose
\* index no bulk write left behind is found by its value.
THEOREM RotationSafeHolds == RotationSpec => []RotationSafe
<1>1. RotInv => RotationSafe
  <2> SUFFICES ASSUME RotInv, NEW k \in Stored, table[k].key # Plain
               PROVE  /\ Decrypts(table[k], keyset)
                      /\ k \notin drifted => table[k].index \in Candidates(table[k].value, keyset)
    BY DEF RotationSafe
  <2>1. Written(k)
    BY DEF RotInv, Stored
  <2> QED BY <2>1 DEF Written, Decrypts, Candidates
<1> QED BY <1>1, RotInvHolds, PTL
=============================================================================
