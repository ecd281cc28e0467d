------------------------------ MODULE ImportJob ------------------------------
(***************************************************************************)
(* One CSV or NDJSON import (snapadmin/importing.py): a SnapImportJob row,  *)
(* the snapadmin_import processes that run and resume it, the NDJSON report *)
(* beside the exports, and the target table, which other transactions also  *)
(* insert into. Each chunk of rows and its checkpoint commit together.      *)
(***************************************************************************)
EXTENDS Integers, Sequences, FiniteSets

CONSTANTS
  Runners,      \* processes running snapadmin_import
  N,            \* data rows in the input file
  KeyOf,        \* natural key value of each row of the file
  Bad,          \* rows that full_clean() rejects
  ChunkSize,    \* SNAPADMIN_IMPORT_CHUNK_SIZE
  LateResume,   \* an interrupted import may wait past the retention window
  ResumeLive,   \* an operator resumes a job whose runner may still be alive
  MaxFaults     \* bound: exceptions, crashes, cancels and sweeps in a behaviour

Rows == 1..N
Keys == {KeyOf[r] : r \in Rows}

ASSUME ImportAssumption ==
  /\ N \in Nat \ {0} /\ KeyOf \in [Rows -> Keys] /\ Bad \subseteq Rows
  /\ ChunkSize \in Nat \ {0} /\ MaxFaults \in Nat
  /\ {LateResume, ResumeLive} \subseteq BOOLEAN

VARIABLES
  job,     \* the SnapImportJob row; unique: a unique natural key resolves
  pc,      \* where each runner is inside run_import_job
  mem,     \* each runner's in-memory job: rows processed, created, report bytes
  tx,      \* rows each runner has inserted and not committed
  lines,   \* report lines of the chunk in progress
  found,   \* what the duplicate lookup returned
  report,  \* the report file
  made,    \* how many committed records each row of the file has created
  others,  \* keys of records committed by other transactions
  faults

vars == <<job, pc, mem, tx, lines, found, report, made, others, faults>>

Line(r, a) == [row |-> r, action |-> a]
Summary == Line(0, "summary")
Nul == Line(0, "nul")                        \* what truncate() pads with
Actions == {"created", "updated", "skipped", "failed"}
Lines == [row : Rows, action : Actions] \cup {Summary, Nul}
Conflicts == {"fail", "skip", "update"}      \* SnapImportJob.OnConflict

\* Definitions marked "Mutant" are faulty variants that the runs must reject.
Claimable == {"pending", "failed"}
Statuses == {"pending", "processing", "completed", "failed", "cancelled"}
UnfinishedClaimable == Claimable             \* Mutant: a dead runner's job is lost
Unfinished == Statuses \ {"completed"}

Progress(d, c, b) == [done |-> d, created |-> c, bytes |-> b]
NoReport == [there |-> FALSE, lines |-> <<>>]
Report(s) == [there |-> TRUE, lines |-> s]

InChunk == {"look", "store", "report", "commit"}
InRun == {"prepare", "fetch", "check", "summary", "confirm", "publish", "complete"} \cup InChunk
Steps == InRun \cup {"idle", "reset", "claim", "load", "fail"}

Live(w) == pc[w] # "idle"
Goto(w, l) == pc' = [pc EXCEPT ![w] = l]

Init ==
  /\ \E c \in Conflicts, u \in BOOLEAN :
       job = [status |-> "pending", done |-> 0, created |-> 0, bytes |-> 0,
              conflict |-> c, unique |-> u]
  /\ \E w \in Runners : pc = [v \in Runners |-> IF v = w THEN "claim" ELSE "idle"]
  /\ mem = [w \in Runners |-> Progress(0, 0, 0)]
  /\ tx = [w \in Runners |-> {}]
  /\ lines = [w \in Runners |-> <<>>]
  /\ found = [w \in Runners |-> FALSE]
  /\ report = NoReport
  /\ made = [r \in Rows |-> 0]
  /\ others \in SUBSET Keys
  /\ faults = 0

-----------------------------------------------------------------------------
(* start_import(resume=True): the unfinished job is found, then reset.       *)

ResumeFind(w) ==
  /\ ~Live(w) /\ job.status \in Unfinished
  /\ ResumeLive \/ \A v \in Runners : ~Live(v)
  /\ Goto(w, "reset")
  /\ UNCHANGED <<job, mem, tx, lines, found, report, made, others, faults>>

ResumeReset(w) ==
  /\ pc[w] = "reset"
  /\ job' = [job EXCEPT !.status = "pending"]
  /\ Goto(w, "claim")
  /\ UNCHANGED <<mem, tx, lines, found, report, made, others, faults>>

-----------------------------------------------------------------------------
(* run_import_job.                                                           *)

\* UPDATE ... SET status='processing' WHERE status IN (pending, failed).
Claim(w) ==
  /\ pc[w] = "claim" /\ job.status \in Claimable
  /\ job' = [job EXCEPT !.status = "processing"]
  /\ Goto(w, "load")
  /\ UNCHANGED <<mem, tx, lines, found, report, made, others, faults>>

Skip(w) ==
  /\ pc[w] = "claim" /\ job.status \notin Claimable
  /\ Goto(w, "idle")
  /\ UNCHANGED <<job, mem, tx, lines, found, report, made, others, faults>>

Load(w) ==
  /\ pc[w] = "load"
  /\ mem' = [mem EXCEPT ![w] = Progress(job.done, job.created, job.bytes)]
  /\ Goto(w, "prepare")
  /\ UNCHANGED <<job, tx, lines, found, report, made, others, faults>>

\* _prepare_report_file: truncate to the confirmed length and skip the rows
\* already done, or start clean, in memory only, when the report is gone.
CutTo(s, n) == [i \in 1..n |-> IF i \in 1..Len(s) THEN s[i] ELSE Nul]

Prepare(w) ==
  /\ pc[w] = "prepare"
  /\ IF mem[w].done > 0 /\ report.there
       THEN /\ report' = Report(CutTo(report.lines, mem[w].bytes))
            /\ UNCHANGED mem
       ELSE /\ report' = Report(<<>>)
            /\ mem' = [mem EXCEPT ![w] =
                 IF @.done > 0 THEN Progress(0, 0, @.bytes) ELSE @]
  /\ Goto(w, "fetch")
  /\ UNCHANGED <<job, tx, lines, found, made, others, faults>>

\* The next chunk of the file opens its transaction.
Fetch(w) ==
  /\ pc[w] = "fetch" /\ mem[w].done < N
  /\ lines' = [lines EXCEPT ![w] = <<>>]
  /\ tx' = [tx EXCEPT ![w] = {}]
  /\ Goto(w, "look")
  /\ UNCHANGED <<job, mem, found, report, made, others, faults>>

NoMoreRows(w) ==
  /\ pc[w] = "fetch" /\ mem[w].done >= N
  /\ Goto(w, "summary")
  /\ UNCHANGED <<job, mem, tx, lines, found, report, made, others, faults>>

-----------------------------------------------------------------------------
(* _process_row, in the chunk's transaction.                                 *)

RowNumber(w) == mem[w].done + 1
Committed == {KeyOf[r] : r \in {q \in Rows : made[q] > 0}} \cup others
Inserted(w) == {KeyOf[r] : r \in tx[w]}

\* model.objects.filter(**key_values).first()
LookUp(w) ==
  /\ pc[w] = "look"
  /\ found' = [found EXCEPT ![w] =
       job.unique /\ KeyOf[RowNumber(w)] \in Committed \cup Inserted(w)]
  /\ Goto(w, "store")
  /\ UNCHANGED <<job, mem, tx, lines, report, made, others, faults>>

\* A concurrent transaction's uncommitted insert of the same unique key blocks
\* this one until it ends.
Blocked(w) ==
  job.unique /\ \E v \in Runners \ {w} : KeyOf[RowNumber(w)] \in Inserted(v)

\* The row was found: fail, skip or update. It was not: full_clean() and save(),
\* which reject a bad row and a key committed since the lookup.
Outcome(w) ==
  LET r == RowNumber(w)
      taken == job.unique /\ KeyOf[r] \in Committed \cup Inserted(w)
  IN IF found[w] /\ job.conflict = "fail" THEN "failed"
     ELSE IF found[w] /\ job.conflict = "skip" THEN "skipped"
     ELSE IF r \in Bad THEN "failed"
     ELSE IF found[w] THEN "updated"
     ELSE IF taken THEN "failed" ELSE "created"

ChunkFull(w) == Len(lines'[w]) >= ChunkSize \/ mem'[w].done >= N

StoreRow(w) ==
  /\ pc[w] = "store" /\ ~Blocked(w)
  /\ LET r == RowNumber(w)
         new == Outcome(w) = "created"
     IN /\ tx' = [tx EXCEPT ![w] = IF new THEN @ \cup {r} ELSE @]
        /\ lines' = [lines EXCEPT ![w] = Append(@, Line(r, Outcome(w)))]
        /\ mem' = [mem EXCEPT ![w] =
             Progress(r, IF new THEN @.created + 1 ELSE @.created, @.bytes)]
  /\ Goto(w, IF ChunkFull(w) THEN "report" ELSE "look")
  /\ UNCHANGED <<job, found, report, made, others, faults>>

-----------------------------------------------------------------------------
(* The end of a chunk: report lines, fsync, checkpoint, commit.              *)

ReportChunk(w) ==
  /\ pc[w] = "report"
  /\ report' = Report(report.lines \o lines[w])
  /\ mem' = [mem EXCEPT ![w].bytes = Len(report'.lines)]
  /\ Goto(w, "commit")
  /\ UNCHANGED <<job, tx, lines, found, made, others, faults>>

\* The rows and the job's counters become durable together.
LengthUnsaved(w) == [job EXCEPT !.done = mem[w].done, !.created = mem[w].created]
                                             \* Mutant: report_cursor_bytes missing
CursorUnsaved(w) == [job EXCEPT !.created = mem[w].created, !.bytes = mem[w].bytes]
                                             \* Mutant: processed_rows missing
Checkpoint(w) == [job EXCEPT !.done = mem[w].done, !.created = mem[w].created,
                             !.bytes = mem[w].bytes]

Commit(w) ==
  /\ pc[w] = "commit"
  /\ job' = Checkpoint(w)
  /\ made' = [r \in Rows |-> IF r \in tx[w] THEN made[r] + 1 ELSE made[r]]
  /\ tx' = [tx EXCEPT ![w] = {}]
  /\ Goto(w, "check")
  /\ UNCHANGED <<mem, lines, found, report, others, faults>>

\* refresh_from_db(fields=["status"]), after each chunk.
CheckStatus(w) ==
  /\ pc[w] = "check"
  /\ Goto(w, IF job.status = "cancelled" THEN "idle" ELSE "fetch")
  /\ UNCHANGED <<job, mem, tx, lines, found, report, made, others, faults>>

WriteSummary(w) ==
  /\ pc[w] = "summary"
  /\ report' = Report(Append(report.lines, Summary))
  /\ mem' = [mem EXCEPT ![w].bytes = Len(report'.lines)]
  /\ Goto(w, "confirm")
  /\ UNCHANGED <<job, tx, lines, found, made, others, faults>>

ConfirmSummary(w) ==
  /\ pc[w] = "confirm"
  /\ job' = [job EXCEPT !.bytes = mem[w].bytes]
  /\ Goto(w, "publish")
  /\ UNCHANGED <<mem, tx, lines, found, report, made, others, faults>>

\* _publish_report: with the default local storage the report is in place.
Publish(w) ==
  /\ pc[w] = "publish"
  /\ Goto(w, "complete")
  /\ UNCHANGED <<job, mem, tx, lines, found, report, made, others, faults>>

Complete(w) ==
  /\ pc[w] = "complete"
  /\ job' = [job EXCEPT !.status = "completed"]
  /\ Goto(w, "idle")
  /\ UNCHANGED <<mem, tx, lines, found, report, made, others, faults>>

-----------------------------------------------------------------------------
(* Errors, crashes, and what the rest of the site does.                      *)

Fault == faults < MaxFaults /\ faults' = faults + 1

\* An exception inside _run: an open transaction rolls back.
Raise(w) ==
  /\ pc[w] \in InRun /\ Fault
  /\ tx' = [tx EXCEPT ![w] = {}]
  /\ Goto(w, "fail")
  /\ UNCHANGED <<job, mem, lines, found, report, made, others>>

RecordFailure(w) ==
  /\ pc[w] = "fail"
  /\ job' = [job EXCEPT !.status = "failed"]
  /\ Goto(w, "idle")
  /\ UNCHANGED <<mem, tx, lines, found, report, made, others, faults>>

Crash(w) ==
  /\ Live(w) /\ Fault
  /\ tx' = [tx EXCEPT ![w] = {}]
  /\ Goto(w, "idle")
  /\ UNCHANGED <<job, mem, lines, found, report, made, others>>

Cancel ==
  /\ job.status \in {"pending", "processing"} /\ Fault
  /\ job' = [job EXCEPT !.status = "cancelled"]
  /\ UNCHANGED <<pc, mem, tx, lines, found, report, made, others>>

\* _purge_orphan_files: a report is no SnapExportJob's file, so once it is older
\* than SNAPADMIN_EXPORT_RETENTION_DAYS (no runner has written it since) it goes.
SweepReport ==
  /\ report.there /\ \A w \in Runners : ~Live(w)
  /\ job.status = "completed" \/ LateResume
  /\ Fault
  /\ report' = NoReport
  /\ UNCHANGED <<job, pc, mem, tx, lines, found, made, others>>

\* Another transaction inserts a record with a key of the file.
OtherInsert(k) ==
  /\ k \notin others
  /\ job.unique => k \notin Committed /\ \A w \in Runners : k \notin Inserted(w)
  /\ others' = others \cup {k}
  /\ UNCHANGED <<job, pc, mem, tx, lines, found, report, made, faults>>

-----------------------------------------------------------------------------
Run(w) ==
  \/ ResumeReset(w) \/ Claim(w) \/ Skip(w) \/ Load(w) \/ Prepare(w)
  \/ Fetch(w) \/ NoMoreRows(w) \/ LookUp(w) \/ StoreRow(w) \/ ReportChunk(w)
  \/ Commit(w) \/ CheckStatus(w) \/ WriteSummary(w) \/ ConfirmSummary(w)
  \/ Publish(w) \/ Complete(w) \/ RecordFailure(w)

Next ==
  \/ \E w \in Runners : Run(w) \/ ResumeFind(w) \/ Raise(w) \/ Crash(w)
  \/ Cancel \/ SweepReport \/ \E k \in Keys : OtherInsert(k)

Spec == Init /\ [][Next]_vars

\* A started process runs on; the operator resumes whatever is not completed.
Fairness == \A w \in Runners : WF_vars(Run(w)) /\ WF_vars(ResumeFind(w))

FairSpec == Spec /\ Fairness

-----------------------------------------------------------------------------
(* What the module promises.                                                 *)

Progresses == [done : 0..N, created : 0..N, bytes : Nat]

TypeOK ==
  /\ job \in [status : Statuses, done : 0..N, created : 0..N, bytes : Nat,
              conflict : Conflicts, unique : BOOLEAN]
  /\ pc \in [Runners -> Steps]
  /\ mem \in [Runners -> Progresses]
  /\ tx \in [Runners -> SUBSET Rows]
  /\ lines \in [Runners -> Seq(Lines)]
  /\ found \in [Runners -> BOOLEAN]
  /\ report \in [there : BOOLEAN, lines : Seq(Lines)]
  /\ made \in [Rows -> Nat]
  /\ others \in SUBSET Keys
  /\ faults \in 0..MaxFaults

\* "Resume [...] can never re-create a row this chunk already committed"
\* (importing.py:791): no row of the file creates two records.
CreatedOnce == \A r \in Rows : made[r] <= 1

\* The counters say what is in the table, whatever rolled back or crashed: the
\* import's records are exactly the rows before the checkpoint it counts.
TableAccounted ==
  /\ \A r \in Rows : made[r] > 0 => r <= job.done
  /\ job.created = Cardinality({r \in Rows : made[r] > 0})

\* The first k lines of s report rows 1..k, each once, in order, and say
\* "created" of exactly the rows that are in the table.
Reports(s, k) ==
  /\ k <= Len(s)
  /\ \A i \in 1..k : /\ s[i].row = i
                     /\ s[i].action = "created" <=> made[i] = 1

\* What the checkpoint confirms is in the report, however the run before it
\* ended (importing.py:47-57): one true line per processed row, no other row's.
ReportConfirmed ==
  job.done > 0 /\ job.status # "completed" =>
    /\ report.there /\ job.done <= job.bytes /\ job.bytes <= Len(report.lines)
    /\ Reports(report.lines, job.done)
    /\ \A i \in job.done + 1 .. job.bytes : report.lines[i] = Summary

\* However crashes, errors, cancels and other transactions' inserts fall between
\* its steps: no row twice, and counters, table and report in agreement.
ImportAccounted == CreatedOnce /\ TableAccounted /\ ReportConfirmed

\* Once confirmed, a row's line is not lost or rewritten while the job is open.
ConfirmedLinesStay ==
  [][job.status # "completed" =>
       /\ job.done <= Len(report'.lines)
       /\ \A i \in 1..job.done : report'.lines[i] = report.lines[i]]_vars

\* Resumed whenever it stops short, the import gets through its file.
Completes == <>[](job.status = "completed")
=============================================================================
