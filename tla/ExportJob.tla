------------------------------ MODULE ExportJob ------------------------------
(***************************************************************************)
(* One background export (snapadmin/exporting.py): a SnapExportJob row, the *)
(* Celery workers that may run it, the working file on each worker node,    *)
(* the storage the finished file is published to, and the table being       *)
(* exported, which other transactions keep changing.                        *)
(*                                                                         *)
(* A file is a sequence of cells, one "byte" per cell: Header, one cell per *)
(* exported row (its primary key) and Nul, what truncate() pads with.       *)
(***************************************************************************)
EXTENDS Integers, Sequences, FiniteSets

CONSTANTS
  Workers,         \* Celery worker processes
  NodeOf,          \* the host (local filesystem) each worker runs on
  Pks,             \* primary keys the exported table may hold
  Fixed,           \* the rows nobody inserts or deletes meanwhile
  ChunkSize,       \* SNAPADMIN_EXPORT_CHUNK_SIZE
  Format,          \* SnapExportJob.Format
  Remote,          \* SNAPADMIN_EXPORT_STORAGE is not the local export_dir()
  VolumesSurvive,  \* a node's export_dir() outlives the workers on it
  PowerLoss,       \* a node may lose what was written but not fsync-ed
  OperatorResets,  \* an operator puts a stuck job back to "pending"
  MaxFaults        \* bound: exceptions and crashes in one behaviour

Nodes == {NodeOf[w] : w \in Workers}
Header == 0
Nul == -1
None == 0          \* a blank cursor_pk
Cells == Pks \cup {Header, Nul}

ASSUME ExportAssumption ==
  /\ Pks \subseteq Nat \ {0} /\ IsFiniteSet(Pks) /\ Fixed \subseteq Pks
  /\ Workers # {} /\ NodeOf \in [Workers -> Nodes]
  /\ ChunkSize \in Nat \ {0} /\ MaxFaults \in Nat
  /\ Format \in {"csv", "json", "xlsx"}
  /\ {Remote, VolumesSurvive, PowerLoss, OperatorResets} \subseteq BOOLEAN
  /\ ~Remote => \A v, w \in Workers : NodeOf[v] = NodeOf[w]

VARIABLES
  job,        \* the SnapExportJob row
  pc,         \* where each worker is inside run_export_job
  mem,        \* each worker's in-memory job and writer.byte_len
  batch,      \* rows of the chunk a worker still has to write
  sheet,      \* the workbook an XLSX worker spools
  disk,       \* the working file of each node
  published,  \* the file in a remote storage
  table,      \* the exported table
  delivery,   \* a run_export message waits in the broker
  web,        \* the cancel request in progress
  faults

vars == <<job, pc, mem, batch, sheet, disk, published, table, delivery, web, faults>>

Resumable == Format # "xlsx"
HeaderLen == IF Format = "json" THEN 0 ELSE 1
HeaderCells == IF Format = "json" THEN <<>> ELSE <<Header>>

\* Faulty variants of definitions, here and below, are marked "Mutant": the runs
\* must reject them.
ClaimableStuck == {"pending", "failed", "processing"}   \* Mutant: no single-flight
ClaimablePending == {"pending"}                         \* Mutant: failed for ever
Claimable == {"pending", "failed"}
Finished == {"completed", "failed", "cancelled"}   \* SnapJobBase.is_finished
Statuses == Finished \cup {"pending", "processing"}
Inside == {"open", "header", "check", "fetch", "write", "sync", "save", "finish",
           "publish", "upload", "complete"}        \* inside _run's try
Steps == Inside \cup {"idle", "load", "fail"}

NoFile == [there |-> FALSE, cells |-> <<>>, synced |-> 0]
FileWith(s, n) == [there |-> TRUE, cells |-> s, synced |-> n]
ProgressPast(c, b, r) == [cursor |-> c + 1, bytes |-> b, rows |-> r] \* Mutant: off by one
Progress(c, b, r) == [cursor |-> c, bytes |-> b, rows |-> r]
Blank == Progress(None, 0, 0)

Live(w) == pc[w] # "idle"
Goto(w, l) == pc' = [pc EXCEPT ![w] = l]

(***************************************************************************)
(* iter_batches: the first ChunkSize rows of the table with pk > cursor.    *)
(***************************************************************************)
AfterOffset(c) == {p \in table : p > c + 1}     \* Mutant: the window drifts
After(c) == {p \in table : p > c}
NextBatch(c) ==
  {p \in After(c) : Cardinality({q \in After(c) : q < p}) < ChunkSize}

Init ==
  /\ job = [status |-> "pending", cursor |-> None, bytes |-> 0, rows |-> 0]
  /\ pc = [w \in Workers |-> "idle"]
  /\ mem = [w \in Workers |-> Blank]
  /\ batch = [w \in Workers |-> {}]
  /\ sheet = [w \in Workers |-> <<>>]
  /\ disk = [n \in Nodes |-> NoFile]
  /\ published = NoFile
  /\ table \in {Fixed \cup S : S \in SUBSET (Pks \ Fixed)}
  /\ delivery \in BOOLEAN      \* FALSE: create() died between create and delay
  /\ web = "none"
  /\ faults = 0

-----------------------------------------------------------------------------
(* The worker.                                                               *)

\* UPDATE ... SET status='processing' WHERE status IN (pending, failed): won.
Claim(w) ==
  /\ ~Live(w) /\ delivery /\ job.status \in Claimable
  /\ job' = [job EXCEPT !.status = "processing"]
  /\ delivery' = FALSE
  /\ Goto(w, "load")
  /\ UNCHANGED <<mem, batch, sheet, disk, published, table, web, faults>>

\* The update matched no row: the task returns and is acknowledged.
Skip(w) ==
  /\ ~Live(w) /\ delivery /\ job.status \notin Claimable
  /\ delivery' = FALSE
  /\ UNCHANGED <<job, pc, mem, batch, sheet, disk, published, table, web, faults>>

\* objects.get(pk=job_id): a second statement, after the claim.
Load(w) ==
  /\ pc[w] = "load"
  /\ mem' = [mem EXCEPT ![w] = Progress(job.cursor, job.bytes, job.rows)]
  /\ Goto(w, "open")
  /\ UNCHANGED <<job, batch, sheet, disk, published, table, delivery, web, faults>>

\* The job continues from its checkpoint: truncate to cursor_bytes, append.
Untruncated(s, n) == s                       \* Mutant: appends to the tail
Truncated(s, n) == [i \in 1..n |-> IF i \in 1..Len(s) THEN s[i] ELSE Nul]

CanResume(w) == Resumable /\ mem[w].cursor # None /\ disk[NodeOf[w]].there

OpenResuming(w) ==
  /\ pc[w] = "open" /\ CanResume(w)
  /\ disk' = [disk EXCEPT ![NodeOf[w]] =
       FileWith(Truncated(@.cells, mem[w].bytes), mem[w].bytes)]
  /\ Goto(w, "check")
  /\ UNCHANGED <<job, mem, batch, sheet, published, table, delivery, web, faults>>

\* A stale working file is removed, and a cursor without its file is cleared,
\* on the in-memory job only. A line writer reopens the path with "wb".
FreshInPlace == FileWith(<<>>, 0)            \* Mutant: a workbook written in place
FreshFile == IF Resumable THEN FileWith(<<>>, 0) ELSE NoFile

RowsOnFresh(m) == IF m.cursor # None THEN 0 ELSE m.rows

OpenFresh(w) ==
  /\ pc[w] = "open" /\ ~CanResume(w)
  /\ disk' = [disk EXCEPT ![NodeOf[w]] = FreshFile]
  /\ mem' = [mem EXCEPT ![w] = Progress(None, 0, RowsOnFresh(@))]
  /\ Goto(w, "header")
  /\ UNCHANGED <<job, batch, sheet, published, table, delivery, web, faults>>

WriteHeader(w) ==
  /\ pc[w] = "header"
  /\ IF Resumable
       THEN /\ disk' = [disk EXCEPT ![NodeOf[w]] = FileWith(HeaderCells, HeaderLen)]
            /\ mem' = [mem EXCEPT ![w] = Progress(@.cursor, HeaderLen, @.rows)]
            /\ UNCHANGED sheet
       ELSE /\ sheet' = [sheet EXCEPT ![w] = HeaderCells]
            /\ UNCHANGED <<disk, mem>>
  /\ Goto(w, "check")
  /\ UNCHANGED <<job, batch, published, table, delivery, web, faults>>

\* refresh_from_db(fields=["status"]); a cancelled job returns here.
CheckStatus(w) ==
  /\ pc[w] = "check"
  /\ Goto(w, IF job.status = "cancelled" THEN "idle" ELSE "fetch")
  /\ UNCHANGED <<job, mem, batch, sheet, disk, published, table, delivery, web, faults>>

FetchBatch(w) ==
  /\ pc[w] = "fetch"
  /\ LET b == NextBatch(mem[w].cursor)
     IN \E last \in b :
          /\ \A p \in b : p <= last
          /\ batch' = [batch EXCEPT ![w] = b]
          /\ mem' = [mem EXCEPT ![w] = Progress(last, @.bytes, @.rows + Cardinality(b))]
  /\ Goto(w, "write")
  /\ UNCHANGED <<job, sheet, disk, published, table, delivery, web, faults>>

\* StopIteration: no row is left above the cursor.
NoMoreRows(w) ==
  /\ pc[w] = "fetch" /\ After(mem[w].cursor) = {}
  /\ Goto(w, "finish")
  /\ UNCHANGED <<job, mem, batch, sheet, disk, published, table, delivery, web, faults>>

\* One row of the chunk reaches the file (or the spooled sheet), in pk order.
WriteRow(w) ==
  /\ pc[w] = "write"
  /\ \E r \in batch[w] :
       /\ \A p \in batch[w] : r <= p
       /\ batch' = [batch EXCEPT ![w] = @ \ {r}]
       /\ IF Resumable
            THEN /\ disk' = [disk EXCEPT ![NodeOf[w]] = FileWith(Append(@.cells, r), @.synced)]
                 /\ UNCHANGED sheet
            ELSE /\ sheet' = [sheet EXCEPT ![w] = Append(@, r)]
                 /\ UNCHANGED disk
  /\ UNCHANGED <<job, pc, mem, published, table, delivery, web, faults>>

\* fsync, and byte_len grows by what the chunk wrote; a workbook has neither.
Flushed(f) == f                              \* Mutant: flush without fsync
Synced(f) == FileWith(f.cells, Len(f.cells))

Fsync(w) ==
  /\ pc[w] = "write" /\ batch[w] = {}
  /\ IF Resumable
       THEN LET n == Len(disk[NodeOf[w]].cells)
            IN /\ disk' = [disk EXCEPT ![NodeOf[w]] = Synced(@)]
               /\ mem' = [mem EXCEPT ![w] = Progress(@.cursor, n, @.rows)]
       ELSE UNCHANGED <<disk, mem>>
  /\ Goto(w, "save")
  /\ UNCHANGED <<job, batch, sheet, published, table, delivery, web, faults>>

RowsSaved(w) == mem[w].rows

SaveCheckpoint(w) ==
  /\ pc[w] = "save"
  /\ job' = [job EXCEPT !.cursor = mem[w].cursor, !.bytes = mem[w].bytes,
                        !.rows = RowsSaved(w)]
  /\ Goto(w, "check")
  /\ UNCHANGED <<mem, batch, sheet, disk, published, table, delivery, web, faults>>

\* writer.finish(): the workbook is assembled and moved into place; nothing is
\* fsync-ed on that path. A line file is already complete.
Finish(w) ==
  /\ pc[w] = "finish"
  /\ disk' = IF Resumable THEN disk
             ELSE [disk EXCEPT ![NodeOf[w]] = FileWith(sheet[w], 0)]
  /\ Goto(w, IF Remote THEN "publish" ELSE "complete")
  /\ UNCHANGED <<job, mem, batch, sheet, published, table, delivery, web, faults>>

\* _publish to a remote storage: the stale copy goes first, then the upload.
DeleteStale(w) ==
  /\ pc[w] = "publish"
  /\ published' = NoFile
  /\ Goto(w, "upload")
  /\ UNCHANGED <<job, mem, batch, sheet, disk, table, delivery, web, faults>>

Upload(w) ==
  /\ pc[w] = "upload"
  /\ LET s == disk[NodeOf[w]].cells IN published' = FileWith(s, Len(s))
  /\ Goto(w, "complete")
  /\ UNCHANGED <<job, mem, batch, sheet, disk, table, delivery, web, faults>>

Complete(w) ==
  /\ pc[w] = "complete"
  /\ job' = [job EXCEPT !.status = "completed"]
  /\ Goto(w, "idle")
  /\ UNCHANGED <<mem, batch, sheet, disk, published, table, delivery, web, faults>>

-----------------------------------------------------------------------------
(* Errors, crashes and lost volumes.                                         *)

Fault == faults < MaxFaults /\ faults' = faults + 1

\* Any exception inside _run, the writes of a half-written chunk included.
Raise(w) ==
  /\ pc[w] \in Inside /\ Fault
  /\ Goto(w, "fail")
  /\ UNCHANGED <<job, mem, batch, sheet, disk, published, table, delivery, web>>

RecordFailure(w) ==
  /\ pc[w] = "fail"
  /\ job' = [job EXCEPT !.status = "failed"]
  /\ Goto(w, "idle")
  /\ UNCHANGED <<mem, batch, sheet, disk, published, table, delivery, web, faults>>

\* An exception where nothing catches it: objects.get, or the save that records
\* the failure. Celery acknowledges the task; the row stays "processing".
Escape(w) ==
  /\ pc[w] \in {"load", "fail"} /\ Fault
  /\ Goto(w, "idle")
  /\ UNCHANGED <<job, mem, batch, sheet, disk, published, table, delivery, web>>

\* The worker process dies: acks_late, so the broker delivers the task again.
Crash(w) ==
  /\ Live(w) /\ Fault
  /\ delivery' = TRUE
  /\ Goto(w, "idle")
  /\ UNCHANGED <<job, mem, batch, sheet, disk, published, table, web>>

\* The host dies with its workers. Of a surviving volume the bytes not fsync-ed
\* may be lost; an ephemeral one is lost whole.
HostCrash(n) ==
  /\ (VolumesSurvive => PowerLoss) /\ Fault
  /\ pc' = [w \in Workers |-> IF NodeOf[w] = n THEN "idle" ELSE pc[w]]
  /\ delivery' = (delivery \/ \E w \in Workers : NodeOf[w] = n /\ Live(w))
  /\ disk[n].there
  /\ IF VolumesSurvive
     THEN \E k \in disk[n].synced .. Len(disk[n].cells) :
            disk' = [disk EXCEPT ![n] = FileWith(SubSeq(@.cells, 1, k), @.synced)]
     ELSE disk' = [disk EXCEPT ![n] = NoFile]
  /\ UNCHANGED <<job, mem, batch, sheet, published, table, web>>

-----------------------------------------------------------------------------
(* The broker, the operator, the API and the rest of the site.               *)

\* Dispatched again: a broker visibility timeout, or a retry of a failed job.
Redeliver ==
  /\ ~delivery /\ job.status # "pending"
  /\ delivery' = TRUE
  /\ UNCHANGED <<job, pc, mem, batch, sheet, disk, published, table, web, faults>>

\* The documented remedy for a job whose worker died: back to "pending".
OperatorReset ==
  /\ OperatorResets
  /\ job.status \in {"processing", "pending"} /\ \A w \in Workers : ~Live(w)
  /\ ~(job.status = "pending" /\ delivery)
  /\ job' = [job EXCEPT !.status = "pending"]
  /\ delivery' = TRUE
  /\ UNCHANGED <<pc, mem, batch, sheet, disk, published, table, web, faults>>

\* POST cancel: get_object and is_finished, then a save of the status.
CancelRead ==
  /\ web = "none" /\ job.status \notin Finished
  /\ web' = "cancelling"
  /\ UNCHANGED <<job, pc, mem, batch, sheet, disk, published, table, delivery, faults>>

CancelWrite ==
  /\ web = "cancelling"
  /\ job' = [job EXCEPT !.status = "cancelled"]
  /\ web' = "cancelled"
  /\ UNCHANGED <<pc, mem, batch, sheet, disk, published, table, delivery, faults>>

InsertRow(p) ==
  /\ p \notin table
  /\ table' = table \cup {p}
  /\ UNCHANGED <<job, pc, mem, batch, sheet, disk, published, delivery, web, faults>>

DeleteRow(p) ==
  /\ p \in table \ Fixed
  /\ table' = table \ {p}
  /\ UNCHANGED <<job, pc, mem, batch, sheet, disk, published, delivery, web, faults>>

-----------------------------------------------------------------------------
Run(w) ==
  \/ Claim(w) \/ Skip(w) \/ Load(w) \/ OpenResuming(w) \/ OpenFresh(w)
  \/ WriteHeader(w) \/ CheckStatus(w) \/ FetchBatch(w) \/ NoMoreRows(w)
  \/ WriteRow(w) \/ Fsync(w) \/ SaveCheckpoint(w) \/ Finish(w)
  \/ DeleteStale(w) \/ Upload(w) \/ Complete(w) \/ RecordFailure(w)

Break(w) == Raise(w) \/ Escape(w) \/ Crash(w)

Environment ==
  \/ Redeliver \/ OperatorReset \/ CancelRead \/ CancelWrite
  \/ \E p \in Pks : InsertRow(p) \/ DeleteRow(p)
  \/ \E n \in Nodes : HostCrash(n)

Next == (\E w \in Workers : Run(w) \/ Break(w)) \/ Environment

Spec == Init /\ [][Next]_vars

\* Celery runs what it delivers; the operator gets round to stuck jobs and
\* retries failed ones.
Fairness ==
  /\ \A w \in Workers : WF_vars(Run(w))
  /\ WF_vars(OperatorReset)
  /\ WF_vars(job.status = "failed" /\ Redeliver)
  /\ WF_vars(CancelWrite)

FairSpec == Spec /\ Fairness

-----------------------------------------------------------------------------
(* What the module promises.                                                 *)

Home == NodeOf[CHOOSE w \in Workers : TRUE]

\* The file the download endpoint opens.
Delivered == IF Remote THEN published ELSE disk[Home]

\* The first k cells of s are the header and then, in pk order and each once,
\* rows up to pk c, every undisturbed row up to c among them.
Intact(s, k, c) ==
  /\ k \in HeaderLen .. Len(s)
  /\ \A i \in 1..k : s[i] \in Cells \ {Nul} /\ s[i] <= c
  /\ \A i \in 1..k : s[i] = Header <=> i <= HeaderLen
  /\ \A i, j \in 1..k : i < j => s[i] < s[j]
  /\ \A p \in Fixed : p <= c => \E i \in 1..k : s[i] = p

\* s is a finished export: nothing missing, nothing twice, nothing else.
Whole(s) == \E c \in Pks \cup {None} :
  Intact(s, Len(s), c) /\ \A p \in Fixed : p <= c

Cursors == Pks \cup {None}
JobRows == [status : Statuses, cursor : Cursors, bytes : Nat, rows : Nat]
Progresses == [cursor : Cursors, bytes : Nat, rows : Nat]
Files == [there : BOOLEAN, cells : Seq(Cells), synced : Nat]

TypeOK ==
  /\ job \in JobRows
  /\ pc \in [Workers -> Steps]
  /\ mem \in [Workers -> Progresses]
  /\ batch \in [Workers -> SUBSET Pks]
  /\ sheet \in [Workers -> Seq(Cells)]
  /\ disk \in [Nodes -> Files]
  /\ published \in Files
  /\ table \in SUBSET Pks /\ Fixed \subseteq table
  /\ delivery \in BOOLEAN
  /\ web \in {"none", "cancelling", "cancelled"}
  /\ faults \in 0..MaxFaults

\* Single-flight (exporting.py:27): however often the task is delivered, two
\* workers are never inside run_export_job for the same job.
SingleFlight == \A v, w \in Workers : Live(v) /\ Live(w) => v = w

\* Crash-safe resume (exporting.py:19): what the saved (cursor_pk, cursor_bytes)
\* claims is on disk and fsync-ed, whatever crashed and wherever.
CheckpointDurable ==
  Resumable /\ job.cursor # None =>
    \A n \in Nodes : /\ disk[n].there
                     /\ Intact(disk[n].cells, job.bytes, job.cursor)
                     /\ job.bytes <= disk[n].synced

\* A completed job's file holds every row that was there all along, once and in
\* pk order: inserts and deletes elsewhere, crashes, retries and resumes neither
\* lose nor repeat a row (exporting.py:14-26).
CompletedWhole ==
  job.status = "completed" => Delivered.there /\ Whole(Delivered.cells)

\* An XLSX path holds a complete workbook or nothing, also after a failed,
\* crashed or cancelled attempt (exporting.py:46-57, 362).
WorkbookWhole ==
  \A n \in Nodes : ~Resumable /\ disk[n].there => Whole(disk[n].cells)

\* The rows behind the durable checkpoint, and the promise they implement.
CheckpointedRows == {disk[Home].cells[i] : i \in HeaderLen + 1 .. job.bytes}

Promise == INSTANCE ExportPromise WITH
  phase <- IF job.status \in {"completed", "cancelled"} THEN job.status ELSE "open",
  upto <- job.cursor,
  rows <- CheckpointedRows

\* A resumable export on a node whose volume survives implements ExportPromise:
\* crashes, resumes and redeliveries are invisible in what is durably exported.
ImplementsPromise == Promise!Spec

\* Once the API offers the file for download nothing rewrites it.
DeliveredStays == [][job.status = "completed" => Delivered' = Delivered]_vars

\* Under an operator who resets stuck jobs and retries failed ones, and a finite
\* number of faults, the job is settled for good.
Settles == <>[](job.status \in {"completed", "cancelled"})

-----------------------------------------------------------------------------
(***************************************************************************)
(* The inductive invariant behind CheckpointDurable, CompletedWhole and     *)
(* ImplementsPromise: what each place in run_export_job knows of the        *)
(* worker's file. The working file survives, and one node sees it.          *)
(***************************************************************************)
FileCells(w) == disk[NodeOf[w]].cells

FlightInv ==
  /\ SingleFlight
  /\ \A w \in Workers : Live(w) => job.status \in {"processing", "cancelled"}

\* The file is exactly what the in-memory job says, and on disk.
FileMatches(w) ==
  /\ disk[NodeOf[w]].there /\ disk[NodeOf[w]].synced = Len(FileCells(w))
  /\ Intact(FileCells(w), Len(FileCells(w)), mem[w].cursor)
  /\ mem[w].bytes = Len(FileCells(w)) /\ job.bytes <= mem[w].bytes

\* The rows b, not yet written, extend the cells s to an export up to pk c.
Takes(s, c, b) ==
  /\ HeaderLen <= Len(s)
  /\ \A i \in 1..Len(s) : s[i] # Nul /\ (s[i] = Header <=> i <= HeaderLen)
  /\ \A i \in 1..Len(s) : s[i] <= c /\ \A p \in b : s[i] < p
  /\ \A i, j \in 1..Len(s) : i < j => s[i] < s[j]
  /\ \A p \in b : p <= c
  /\ \A p \in Fixed : p <= c => p \in b \/ \E i \in 1..Len(s) : s[i] = p

\* The rows of the chunk not yet written extend the file.
FileTakes(w) ==
  /\ disk[NodeOf[w]].there /\ disk[NodeOf[w]].synced <= Len(FileCells(w))
  /\ Takes(FileCells(w), mem[w].cursor, batch[w]) /\ mem[w].cursor # None
  /\ job.bytes <= Len(FileCells(w)) /\ job.cursor <= mem[w].cursor

Exhausted(w) == \A p \in Fixed : p <= mem[w].cursor

WorkerInv(w) ==
  /\ pc[w] = "open" => mem[w].cursor = job.cursor /\ mem[w].bytes = job.bytes
  /\ pc[w] = "header" =>
       /\ mem[w].cursor = None /\ job.cursor = None
       /\ disk[NodeOf[w]].there /\ FileCells(w) = <<>>
  /\ pc[w] \in {"check", "fetch", "finish", "publish", "upload", "complete"} =>
       FileMatches(w) /\ job.cursor = mem[w].cursor
  /\ pc[w] = "write" => FileTakes(w)
  /\ pc[w] = "save" =>
       FileMatches(w) /\ mem[w].cursor # None /\ job.cursor <= mem[w].cursor
  /\ pc[w] \in {"finish", "publish", "upload", "complete"} => Exhausted(w)
  /\ pc[w] = "complete" /\ Remote => published.there /\ published.cells = FileCells(w)

CheckpointInv ==
  /\ job.cursor = None => job.bytes = 0
  /\ job.cursor # None =>
       \A n \in Nodes : /\ disk[n].there
                        /\ Intact(disk[n].cells, job.bytes, job.cursor)
                        /\ job.bytes <= disk[n].synced

CompletedInv ==
  job.status = "completed" =>
    /\ Delivered.there /\ Whole(Delivered.cells)
    /\ ~Remote => Delivered.synced = Len(Delivered.cells)

ExportInv ==
  /\ FlightInv /\ CheckpointInv /\ CompletedInv
  /\ \A w \in Workers : WorkerInv(w)

\* What the file holds past the checkpoint is the header or the chunk in
\* progress, and a chunk ends at the cursor it will be saved under.
Beyond(w) == job.bytes + 1 .. Len(FileCells(w))

ChunkInv ==
  \A w \in Workers :
    /\ pc[w] \in {"check", "fetch"} => \A i \in Beyond(w) : i <= HeaderLen
    /\ pc[w] \in {"write", "save"} =>
         /\ job.cursor < mem[w].cursor
         /\ \A p \in batch[w] : job.cursor < p
         /\ \A i \in Beyond(w) : i <= HeaderLen \/ FileCells(w)[i] > job.cursor
         /\ \/ mem[w].cursor \in batch[w]
            \/ \E i \in Beyond(w) : FileCells(w)[i] = mem[w].cursor
    /\ pc[w] = "save" => batch[w] = {}

\* The inductive invariant of the proofs.
IInv == ExportInv /\ ChunkInv
=============================================================================
