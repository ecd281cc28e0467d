----------------------------- MODULE MirrorSync -----------------------------
(***************************************************************************)
(* A DUAL model: its table, its Elasticsearch index, and who writes both.  *)
(* SnapModel.save and delete (models.py 1554-1671), QuerySet.delete with   *)
(* its post_delete receiver, and snapadmin_reindex (reindexing.py): jobs,  *)
(* pages of rows, checkpoints, cancel, --resume, --tune and --verify.      *)
(***************************************************************************)
EXTENDS Integers, Sequences, FiniteSets

CONSTANTS
  Pks,         \* primary keys
  Writers,     \* requests and workers that save and delete rows
  Runners,     \* processes running snapadmin_reindex
  ChunkSize,   \* --chunk-size
  Tunings,     \* what --tune may be
  MaxWrites,   \* bound: row versions written in a behaviour
  MaxJobs,     \* bound: SnapReindexJob rows
  MaxMirrorFaults    \* bound: failed calls, crashes, cancels

Versions == 1..MaxWrites
NoRow == 0                                   \* no row, no document

ASSUME MirrorAssumption ==
  /\ Pks \subseteq Nat \ {0} /\ IsFiniteSet(Pks) /\ ChunkSize \in Nat \ {0}
  /\ Tunings \subseteq BOOLEAN /\ {MaxWrites, MaxJobs, MaxMirrorFaults} \subseteq Nat

VARIABLES
  rows,      \* the committed version of each row
  docs,      \* the version in each document
  writes,    \* versions written so far
  doing,        \* what each writer is doing
  jobs,      \* SnapReindexJob rows, oldest first
  run,       \* the local variables of each run_reindex_job
  relaxed,   \* the index has refresh -1 and no replicas
  disturbed, \* history: keys whose last operation overlapped another or failed
  mirrorFaults

mirrorVars == <<rows, docs, writes, doing, jobs, run, relaxed, disturbed, mirrorFaults>>
stores == <<rows, docs, writes>>

Free == [step |-> "free", pk |-> 0, version |-> NoRow]
Doing(s, p, v) == [step |-> s, pk |-> p, version |-> v]
\* "clear": delete() has removed the document; "collect": QuerySet.delete()
\* holds the row's lock until it commits.
WriterSteps == {"free", "index", "clear", "collect", "drop"}

Statuses == {"pending", "processing", "completed", "failed", "cancelled"}
Claimable == {"pending", "failed"}
Unfinished == Statuses \ {"completed"}
Job(s) == [status |-> s, cursor |-> 0, processed |-> 0, total |-> 0]

NoSettings == "none"                         \* _IndexTuner._saved is None
NoRun == [step |-> "idle", job |-> 0, tune |-> FALSE, saved |-> NoSettings,
          cursor |-> 0, processed |-> 0, batch |-> {}, read |-> [p \in Pks |-> NoRow],
          errors |-> {}, next |-> "idle", calm |-> FALSE, fresh |-> FALSE]
Loop == {"check", "fetch", "bulk", "save"}
RunSteps == {"idle", "reset", "claim", "open", "restore", "finish", "fail", "verify", "verified",
             "mismatch"} \cup Loop

Working(w, p) == doing[w].step # "free" /\ doing[w].pk = p
Reading(r, p) == run[r].step = "bulk" /\ p \in run[r].batch
Busy(p) == (\E w \in Writers : Working(w, p)) \/ (\E r \in Runners : Reading(r, p))
Locked(p) == \E w \in Writers : doing[w].step \in {"collect", "drop"} /\ doing[w].pk = p
Faulty == mirrorFaults < MaxMirrorFaults
MirrorFault == Faulty /\ mirrorFaults' = mirrorFaults + 1

\* A new operation on the keys S: undisturbed unless another is going on.
BeginOn(S) == disturbed' = (disturbed \ S) \cup {p \in S : Busy(p)}
\* Nobody else writes while a reindex runs: the calm the run's promise needs.
Stirred == [r \in Runners |-> [run[r] EXCEPT !.calm = FALSE]]

MirrorInit ==
  /\ rows \in [Pks -> {NoRow, 1}]
  /\ docs = rows
  /\ writes = 1
  /\ doing = [w \in Writers |-> Free]
  /\ jobs = <<>>
  /\ run = [r \in Runners |-> NoRun]
  /\ relaxed = FALSE
  /\ disturbed = {}
  /\ mirrorFaults = 0

-----------------------------------------------------------------------------
(* SnapModel.save: the row commits, then the instance is indexed.          *)

SaveRow(w, p) ==
  /\ doing[w] = Free /\ ~Locked(p) /\ writes < MaxWrites
  /\ writes' = writes + 1
  /\ rows' = [rows EXCEPT ![p] = writes + 1]
  /\ doing' = [doing EXCEPT ![w] = Doing("index", p, writes + 1)]
  /\ BeginOn({p})
  /\ run' = Stirred
  /\ UNCHANGED <<docs, jobs, relaxed, mirrorFaults>>

\* bulk_create and update() write rows and nothing else: a reindex follows.
BulkWrite(w, p) ==
  /\ doing[w] = Free /\ ~Locked(p) /\ writes < MaxWrites
  /\ writes' = writes + 1
  /\ rows' = [rows EXCEPT ![p] = writes + 1]
  /\ disturbed' = disturbed \cup {p}
  /\ run' = Stirred
  /\ UNCHANGED <<docs, doing, jobs, relaxed, mirrorFaults>>

IndexLost(p, v) == docs                      \* Mutant: save() forgets the mirror
Indexed(p, v) == [docs EXCEPT ![p] = v]

IndexDoc(w) ==
  /\ doing[w].step = "index"
  /\ docs' = Indexed(doing[w].pk, doing[w].version)
  /\ doing' = [doing EXCEPT ![w] = Free]
  /\ run' = Stirred
  /\ UNCHANGED <<rows, writes, jobs, relaxed, disturbed, mirrorFaults>>

\* delete(): the document goes first, then the row, unless the database refuses.
DeleteInstance(w, p) ==
  /\ doing[w] = Free /\ rows[p] # NoRow
  /\ docs' = [docs EXCEPT ![p] = NoRow]
  /\ doing' = [doing EXCEPT ![w] = Doing("clear", p, NoRow)]
  /\ BeginOn({p})
  /\ run' = Stirred
  /\ UNCHANGED <<rows, writes, jobs, relaxed, mirrorFaults>>

\* QuerySet.delete(): SQL DELETE, the post_delete receiver, then the commit.
DeleteQuery(w, p) ==
  /\ doing[w] = Free /\ rows[p] # NoRow /\ ~Locked(p)
  /\ doing' = [doing EXCEPT ![w] = Doing("collect", p, NoRow)]
  /\ BeginOn({p})
  /\ run' = Stirred
  /\ UNCHANGED <<stores, jobs, relaxed, mirrorFaults>>

Receiver(w) ==
  /\ doing[w].step = "collect"
  /\ docs' = [docs EXCEPT ![doing[w].pk] = NoRow]
  /\ doing' = [doing EXCEPT ![w].step = "drop"]
  /\ run' = Stirred
  /\ UNCHANGED <<rows, writes, jobs, relaxed, disturbed, mirrorFaults>>

CommitDelete(w) ==
  /\ doing[w].step \in {"clear", "drop"}
  /\ doing[w].step = "clear" => ~Locked(doing[w].pk)
  /\ rows' = [rows EXCEPT ![doing[w].pk] = NoRow]
  /\ doing' = [doing EXCEPT ![w] = Free]
  /\ run' = Stirred
  /\ UNCHANGED <<docs, writes, jobs, relaxed, disturbed, mirrorFaults>>

\* index_in_es and delete_from_es log a failing call and go on.
MirrorCallFails(w) ==
  /\ MirrorFault /\ doing[w].step \in {"index", "collect"}
  /\ doing' = [doing EXCEPT ![w] = IF @.step = "index" THEN Free ELSE [@ EXCEPT !.step = "drop"]]
  /\ disturbed' = disturbed \cup {doing[w].pk}
  /\ UNCHANGED <<stores, jobs, run, relaxed>>

\* A protected row, a rollback, a dying process: the document is already gone.
WriterStops(w) ==
  /\ MirrorFault /\ doing[w].step # "free"
  /\ doing' = [doing EXCEPT ![w] = Free]
  /\ disturbed' = disturbed \cup {doing[w].pk}
  /\ UNCHANGED <<stores, jobs, run, relaxed>>

-----------------------------------------------------------------------------
(* start_reindex and run_reindex_job.                                      *)

SetRun(r, e) == run' = [run EXCEPT ![r] = e]
Goto(r, s) == SetRun(r, [run[r] EXCEPT !.step = s])

StartReindex(r, t) ==
  /\ run[r].step = "idle" /\ Len(jobs) < MaxJobs
  /\ jobs' = Append(jobs, Job("pending"))
  /\ SetRun(r, [NoRun EXCEPT !.step = "claim", !.job = Len(jobs) + 1, !.tune = t])
  /\ UNCHANGED <<stores, doing, relaxed, disturbed, mirrorFaults>>

\* --resume: the newest job that is not completed is found, then reset.
Latest(j) == /\ jobs[j].status \in Unfinished
             /\ \A k \in (j + 1)..Len(jobs) : jobs[k].status \notin Unfinished

ResumeFind(r, t) ==
  /\ run[r].step = "idle"
  /\ \E j \in 1..Len(jobs) :
       /\ Latest(j)
       /\ SetRun(r, [NoRun EXCEPT !.step = "reset", !.job = j, !.tune = t])
  /\ UNCHANGED <<stores, doing, jobs, relaxed, disturbed, mirrorFaults>>

ResumeReset(r) ==
  /\ run[r].step = "reset"
  /\ jobs' = [jobs EXCEPT ![run[r].job].status = "pending"]
  /\ Goto(r, "claim")
  /\ UNCHANGED <<stores, doing, relaxed, disturbed, mirrorFaults>>

Claim(r) ==
  /\ run[r].step = "claim" /\ jobs[run[r].job].status \in Claimable
  /\ jobs' = [jobs EXCEPT ![run[r].job].status = "processing"]
  /\ Goto(r, "open")
  /\ UNCHANGED <<stores, doing, relaxed, disturbed, mirrorFaults>>

Skip(r) ==
  /\ run[r].step = "claim" /\ jobs[run[r].job].status \notin Claimable
  /\ SetRun(r, NoRun)
  /\ UNCHANGED <<stores, doing, jobs, relaxed, disturbed, mirrorFaults>>

Alive == {p \in Pks : rows[p] # NoRow}
CalmStart == \A w \in Writers : doing[w] = Free
Fresh(j) == jobs[j].cursor = 0

\* refresh_from_db, count and the save of the total; then _IndexTuner.relax.
Open(r) ==
  LET j == run[r].job
      done == IF Fresh(j) THEN 0 ELSE jobs[j].processed
  IN /\ run[r].step = "open"
     /\ jobs' = [jobs EXCEPT ![j].total = Cardinality(Alive), ![j].processed = done]
     /\ run' = [q \in Runners |-> IF q = r
          THEN [run[r] EXCEPT !.step = "check", !.cursor = jobs[j].cursor, !.processed = done,
                  !.fresh = Fresh(j),
                  !.calm = CalmStart /\ \A s \in Runners \ {r} : run[s].step \notin Loop,
                  !.saved = IF run[r].tune THEN IF relaxed THEN "relaxed" ELSE "normal"
                            ELSE NoSettings]
          ELSE [run[q] EXCEPT !.calm = FALSE]]
     /\ relaxed' = (relaxed \/ run[r].tune)
     /\ UNCHANGED <<stores, doing, disturbed, mirrorFaults>>

CheckStatus(r) ==
  /\ run[r].step = "check"
  /\ IF jobs[run[r].job].status = "cancelled"
       THEN SetRun(r, [run[r] EXCEPT !.step = "restore", !.next = "idle"])
       ELSE Goto(r, "fetch")
  /\ UNCHANGED <<stores, doing, jobs, relaxed, disturbed, mirrorFaults>>

AfterNext(p, c) == p > c + 1                 \* Mutant: the cursor skips a key
\* The first ChunkSize rows past the cursor.
After(p, c) == p > c
Page(c) == {p \in Alive : /\ After(p, c)
                          /\ Cardinality({q \in Alive : After(q, c) /\ q < p}) < ChunkSize}

FetchBatch(r) ==
  /\ run[r].step = "fetch" /\ Page(run[r].cursor) # {}
  /\ SetRun(r, [run[r] EXCEPT !.step = "bulk", !.batch = Page(run[r].cursor),
                      !.read = [p \in Pks |-> IF p \in Page(run[r].cursor) THEN rows[p] ELSE NoRow]])
  /\ BeginOn(Page(run[r].cursor))
  /\ UNCHANGED <<stores, doing, jobs, relaxed, mirrorFaults>>

NoMoreRows(r) ==
  /\ run[r].step = "fetch" /\ Page(run[r].cursor) = {}
  /\ SetRun(r, [run[r] EXCEPT !.step = "restore", !.next = "finish"])
  /\ UNCHANGED <<stores, doing, jobs, relaxed, disturbed, mirrorFaults>>

\* One bulk request; the documents Elasticsearch refuses are reported.
Bulk(r) ==
  /\ run[r].step = "bulk"
  /\ \E rejected \in SUBSET run[r].batch :
       /\ rejected # {} => Faulty
       /\ mirrorFaults' = IF rejected = {} THEN mirrorFaults ELSE mirrorFaults + 1
       /\ docs' = [p \in Pks |-> IF p \in run[r].batch \ rejected THEN run[r].read[p] ELSE docs[p]]
       /\ disturbed' = disturbed \cup rejected
       /\ SetRun(r, [run[r] EXCEPT !.step = "save", !.errors = @ \cup rejected,
                         !.read = NoRun.read])
  /\ UNCHANGED <<rows, writes, doing, jobs, relaxed>>

LastOf(S) == CHOOSE p \in S : \A q \in S : q <= p

SaveCheckpoint(r) ==
  LET c == LastOf(run[r].batch)
      n == run[r].processed + Cardinality(run[r].batch)
  IN /\ run[r].step = "save"
     /\ jobs' = [jobs EXCEPT ![run[r].job].cursor = c, ![run[r].job].processed = n]
     /\ SetRun(r, [run[r] EXCEPT !.step = "check", !.cursor = c, !.processed = n, !.batch = {}])
     /\ UNCHANGED <<stores, doing, relaxed, disturbed, mirrorFaults>>

\* An exception in the loop: restored in the finally, then recorded.
Raise(r) ==
  /\ MirrorFault /\ run[r].step \in Loop \cup {"open"}
  /\ SetRun(r, [run[r] EXCEPT !.step = "restore", !.next = "fail", !.batch = {}, !.read = NoRun.read])
  /\ disturbed' = disturbed \cup (IF run[r].step = "bulk" THEN run[r].batch ELSE {})
  /\ UNCHANGED <<stores, doing, jobs, relaxed>>

RestoredSetting(s) == s = "relaxed"

RestoreSettings(r) ==
  /\ run[r].step = "restore"
  /\ relaxed' = IF run[r].saved = NoSettings THEN relaxed ELSE RestoredSetting(run[r].saved)
  /\ IF run[r].next = "idle" THEN SetRun(r, NoRun) ELSE Goto(r, run[r].next)
  /\ UNCHANGED <<stores, doing, jobs, disturbed, mirrorFaults>>

Finish(r) ==
  /\ run[r].step = "finish"
  /\ jobs' = [jobs EXCEPT ![run[r].job].status = "completed"]
  /\ Goto(r, "verify")
  /\ UNCHANGED <<stores, doing, relaxed, disturbed, mirrorFaults>>

RecordFailure(r) ==
  /\ run[r].step = "fail"
  /\ jobs' = [jobs EXCEPT ![run[r].job].status = "failed"]
  /\ SetRun(r, NoRun)
  /\ UNCHANGED <<stores, doing, relaxed, disturbed, mirrorFaults>>

ExpectedAll(j, errors) == jobs[j].total      \* Mutant: the refused are expected too
\* verify_index: the documents counted against total_rows less the rejected.
Expected(j, errors) == jobs[j].total - Cardinality(errors)

VerifyIndex(r) ==
  /\ run[r].step = "verify"
  /\ IF Cardinality({p \in Pks : docs[p] # NoRow}) = Expected(run[r].job, run[r].errors)
       THEN Goto(r, "verified") ELSE Goto(r, "mismatch")
  /\ UNCHANGED <<stores, doing, jobs, relaxed, disturbed, mirrorFaults>>

EndCommand(r) ==
  /\ run[r].step \in {"verified", "mismatch"}
  /\ SetRun(r, NoRun)
  /\ UNCHANGED <<stores, doing, jobs, relaxed, disturbed, mirrorFaults>>

\* The process dies: no finally, the row stays as it is.
Crash(r) ==
  /\ MirrorFault /\ run[r].step # "idle"
  /\ SetRun(r, NoRun)
  /\ disturbed' = disturbed \cup (IF run[r].step = "bulk" THEN run[r].batch ELSE {})
  /\ UNCHANGED <<stores, doing, jobs, relaxed>>

Cancel(j) ==
  /\ MirrorFault /\ jobs[j].status \in {"pending", "processing"}
  /\ jobs' = [jobs EXCEPT ![j].status = "cancelled"]
  /\ UNCHANGED <<stores, doing, run, relaxed, disturbed>>

WriterStep(w) ==
  \/ \E p \in Pks : SaveRow(w, p) \/ BulkWrite(w, p) \/ DeleteInstance(w, p) \/ DeleteQuery(w, p)
  \/ IndexDoc(w) \/ Receiver(w) \/ CommitDelete(w) \/ MirrorCallFails(w) \/ WriterStops(w)

ReindexStep(r) ==
  \/ \E t \in Tunings : StartReindex(r, t) \/ ResumeFind(r, t)
  \/ ResumeReset(r) \/ Claim(r) \/ Skip(r) \/ Open(r) \/ CheckStatus(r)
  \/ FetchBatch(r) \/ NoMoreRows(r) \/ Bulk(r) \/ SaveCheckpoint(r) \/ Raise(r)
  \/ RestoreSettings(r) \/ Finish(r) \/ RecordFailure(r) \/ VerifyIndex(r) \/ EndCommand(r) \/ Crash(r)

MirrorNext == \/ \E w \in Writers : WriterStep(w)
              \/ \E r \in Runners : ReindexStep(r)
              \/ \E j \in 1..Len(jobs) : Cancel(j)

MirrorSpec == MirrorInit /\ [][MirrorNext]_mirrorVars

-----------------------------------------------------------------------------
(* Properties.                                                             *)

MirrorTypeOK ==
  /\ rows \in [Pks -> Versions \cup {NoRow}] /\ docs \in [Pks -> Versions \cup {NoRow}]
  /\ writes \in Versions /\ relaxed \in BOOLEAN
  /\ doing \in [Writers -> [step : WriterSteps, pk : Pks \cup {0}, version : Versions \cup {NoRow}]]
  /\ disturbed \subseteq Pks
  /\ \A r \in Runners : run[r].step \in RunSteps /\ run[r].job \in 0..Len(jobs)

\* Two stores without a transaction: whatever ran before, a key is searchable
\* exactly as it is stored, unless its last operation overlapped another one or
\* a call of it failed. Every operation alone mends what earlier ones left.
MirrorExact == \A p \in Pks \ disturbed : ~Busy(p) => docs[p] = rows[p]

\* A reindex from the first row, undisturbed by writers, leaves no live row
\* with an older document, however stale the index was and however often
\* earlier jobs crashed, failed or were cancelled.
Calm(r) == run[r].calm /\ run[r].fresh
ReindexHeals ==
  \A r \in Runners :
    Calm(r) /\ run[r].step \in {"verify", "verified", "mismatch"} =>
      \A p \in Alive \ run[r].errors : docs[p] = rows[p]

\* A verified reindex means what it says: a count that matches after such a run
\* leaves no orphaned document and no stale one.
VerifiedExact ==
  \A r \in Runners :
    Calm(r) /\ run[r].step = "verified" =>
      \A p \in Pks : docs[p] = rows[p] \/ (p \in run[r].errors /\ docs[p] = NoRow)
=============================================================================
