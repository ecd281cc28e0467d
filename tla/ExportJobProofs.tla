--------------------------- MODULE ExportJobProofs ---------------------------
(* What ExportJob guarantees for every number of workers, nodes and rows.    *)
EXTENDS ExportJob, FiniteSetTheorems, TLAPS

-----------------------------------------------------------------------------
(* Typing.                                                                   *)

\* truncate() leaves a sequence of cells of exactly the length asked for.
LEMMA TruncatedType ==
  ASSUME NEW s \in Seq(Cells), NEW n \in Nat
  PROVE  Truncated(s, n) \in Seq(Cells) /\ Len(Truncated(s, n)) = n
BY DEF Truncated, Cells

\* What the actions assign to a file and to an in-memory job is one.
LEMMA FileType ==
  ASSUME NEW s \in Seq(Cells), NEW n \in Nat
  PROVE  FileWith(s, n) \in Files
BY DEF FileWith, Files

LEMMA NoFileType == NoFile \in Files
BY DEF NoFile, Files

LEMMA ProgressType ==
  ASSUME NEW c \in Cursors, NEW b \in Nat, NEW r \in Nat
  PROVE  Progress(c, b, r) \in Progresses
BY DEF Progress, Progresses

LEMMA FileFields ==
  ASSUME NEW f \in Files
  PROVE  f.there \in BOOLEAN /\ f.cells \in Seq(Cells) /\ f.synced \in Nat
         /\ Len(f.cells) \in Nat
BY DEF Files

LEMMA ProgressFields ==
  ASSUME NEW m \in Progresses
  PROVE  m.cursor \in Cursors /\ m.bytes \in Nat /\ m.rows \in Nat
BY DEF Progresses

LEMMA HeaderType == HeaderCells \in Seq(Cells) /\ HeaderLen \in Nat
                    /\ Len(HeaderCells) = HeaderLen
<1>1. CASE Format = "json"
  BY <1>1 DEF HeaderCells, HeaderLen
<1>2. CASE Format # "json"
  <2>1. Header \in Cells
    BY DEF Cells
  <2>2. <<Header>> \in Seq(Cells) /\ Len(<<Header>>) = 1
    BY <2>1
  <2> QED BY <1>2, <2>2 DEF HeaderCells, HeaderLen
<1> QED BY <1>1, <1>2

LEMMA BatchType ==
  ASSUME NEW c, table \in SUBSET Pks
  PROVE  NextBatch(c) \in SUBSET Pks /\ Cardinality(NextBatch(c)) \in Nat
<1>1. NextBatch(c) \subseteq Pks
  BY DEF NextBatch, After
<1>2. IsFiniteSet(NextBatch(c))
  BY <1>1, FS_Subset, ExportAssumption
<1> QED BY <1>1, <1>2, FS_CardinalityType

\* The row, the workers and the files always have the shape the code gives them.
THEOREM TypeCorrect == Spec => []TypeOK
<1>1. Init => TypeOK
  <2> SUFFICES ASSUME Init PROVE TypeOK
    OBVIOUS
  <2>1. job \in JobRows /\ Blank \in Progresses
    BY DEF Init, JobRows, Cursors, Statuses, Blank, Progress, Progresses
  <2>2. <<>> \in Seq(Cells)
    OBVIOUS
  <2>3. table \in SUBSET Pks /\ Fixed \subseteq table
    BY ExportAssumption DEF Init
  <2>4. sheet \in [Workers -> Seq(Cells)] /\ mem \in [Workers -> Progresses]
    BY <2>1, <2>2 DEF Init
  <2>5. disk \in [Nodes -> Files] /\ published \in Files
    BY NoFileType DEF Init
  <2>6. pc \in [Workers -> Steps] /\ batch \in [Workers -> SUBSET Pks]
    BY DEF Init, Steps
  <2>7. faults \in 0..MaxFaults
    BY ExportAssumption DEF Init
  <2> QED BY <2>1, <2>3, <2>4, <2>5, <2>6, <2>7 DEF Init, TypeOK
<1>2. TypeOK /\ [Next]_vars => TypeOK'
  <2> SUFFICES ASSUME TypeOK, [Next]_vars PROVE TypeOK'
    OBVIOUS
  <2>0. job.cursor \in Cursors /\ job.bytes \in Nat /\ job.rows \in Nat
    BY DEF TypeOK, JobRows
  <2>1. ASSUME NEW w \in Workers, Run(w) PROVE TypeOK'
    <3> DEFINE n == NodeOf[w]
    <3>a. n \in Nodes /\ disk[n] \in Files /\ mem[w] \in Progresses
      BY DEF Nodes, TypeOK
    <3>b. /\ disk[n].there \in BOOLEAN /\ disk[n].cells \in Seq(Cells)
          /\ disk[n].synced \in Nat /\ Len(disk[n].cells) \in Nat
      BY <3>a, FileFields
    <3>c. mem[w].cursor \in Cursors /\ mem[w].bytes \in Nat /\ mem[w].rows \in Nat
      BY <3>a, ProgressFields
    <3>d. sheet[w] \in Seq(Cells) /\ batch[w] \subseteq Pks
      BY DEF TypeOK
    <3> HIDE DEF n
    <3>1. CASE Claim(w) BY <3>1 DEF Claim, TypeOK, Goto, Steps, JobRows, Statuses
    <3>2. CASE Skip(w) BY <3>2 DEF Skip, TypeOK
    <3>3. CASE Load(w)
      <4>1. Progress(job.cursor, job.bytes, job.rows) \in Progresses
        BY <2>0, ProgressType
      <4> QED BY <3>3, <4>1 DEF Load, TypeOK, Goto, Steps, Inside
    <3>4. CASE OpenResuming(w)
      <4>1. FileWith(Truncated(disk[n].cells, mem[w].bytes), mem[w].bytes) \in Files
        BY <3>b, <3>c, TruncatedType, FileType
      <4> QED BY <3>4, <3>a, <4>1 DEF OpenResuming, TypeOK, Goto, Steps, Inside, n
    <3>5. CASE OpenFresh(w)
      <4>1. (IF Resumable THEN FileWith(<<>>, 0) ELSE NoFile) \in Files
        <5>1. <<>> \in Seq(Cells) /\ 0 \in Nat
          OBVIOUS
        <5>2. FileWith(<<>>, 0) \in Files
          BY <5>1, FileType, Zenon
        <5> QED BY <5>2, NoFileType
      <4>2. Progress(None, 0, IF mem[w].cursor # None THEN 0 ELSE mem[w].rows)
              \in Progresses
        BY <3>c, ProgressType DEF Cursors
      <4>3. disk' \in [Nodes -> Files]
        BY <3>5, <3>a, <4>1 DEF OpenFresh, FreshFile, RowsOnFresh, TypeOK, n
      <4>4. mem' \in [Workers -> Progresses]
        BY <3>5, <4>2 DEF OpenFresh, FreshFile, RowsOnFresh, TypeOK
      <4> QED BY <3>5, <4>3, <4>4 DEF OpenFresh, FreshFile, RowsOnFresh, TypeOK, Goto, Steps, Inside
    <3>6. CASE WriteHeader(w)
      <4>1. FileWith(HeaderCells, HeaderLen) \in Files
        BY HeaderType, FileType
      <4>2. Progress(mem[w].cursor, HeaderLen, mem[w].rows) \in Progresses
        BY <3>c, HeaderType, ProgressType
      <4> QED BY <3>6, <3>a, <4>1, <4>2, HeaderType
              DEF WriteHeader, TypeOK, Goto, Steps, Inside, n
    <3>7. CASE CheckStatus(w) BY <3>7 DEF CheckStatus, TypeOK, Goto, Steps, Inside
    <3>8. CASE FetchBatch(w)
      <4> DEFINE b == NextBatch(mem[w].cursor)
      <4>1. b \in SUBSET Pks /\ Cardinality(b) \in Nat
        BY BatchType DEF TypeOK
      <4> HIDE DEF b
      <4>2. PICK last \in b :
              /\ batch' = [batch EXCEPT ![w] = b]
              /\ mem' = [mem EXCEPT ![w] =
                   Progress(last, @.bytes, @.rows + Cardinality(b))]
        BY <3>8 DEF FetchBatch, b
      <4>3. Progress(last, mem[w].bytes, mem[w].rows + Cardinality(b)) \in Progresses
        BY <3>c, <4>1, ProgressType DEF Cursors
      <4> QED BY <3>8, <4>1, <4>2, <4>3 DEF FetchBatch, TypeOK, Goto, Steps, Inside
    <3>9. CASE NoMoreRows(w) BY <3>9 DEF NoMoreRows, TypeOK, Goto, Steps, Inside
    <3>10. CASE WriteRow(w)
      <4>1. PICK r \in batch[w] :
              /\ batch' = [batch EXCEPT ![w] = @ \ {r}]
              /\ IF Resumable
                   THEN /\ disk' = [disk EXCEPT ![n] =
                             FileWith(Append(@.cells, r), @.synced)]
                        /\ UNCHANGED sheet
                   ELSE /\ sheet' = [sheet EXCEPT ![w] = Append(@, r)]
                        /\ UNCHANGED disk
        BY <3>10 DEF WriteRow, n
      <4>2. r \in Cells
        BY <3>d DEF Cells
      <4>3. Append(disk[n].cells, r) \in Seq(Cells) /\ Append(sheet[w], r) \in Seq(Cells)
        BY <3>b, <3>d, <4>2
      <4>4. FileWith(Append(disk[n].cells, r), disk[n].synced) \in Files
        BY <3>b, <4>3, FileType
      <4>5. disk' \in [Nodes -> Files] /\ sheet' \in [Workers -> Seq(Cells)]
        BY <3>a, <4>1, <4>3, <4>4 DEF TypeOK
      <4>6. batch' \in [Workers -> SUBSET Pks]
        BY <4>1 DEF TypeOK
      <4> QED BY <3>10, <4>5, <4>6 DEF WriteRow, TypeOK
    <3>11. CASE Fsync(w)
      <4>1. /\ FileWith(disk[n].cells, Len(disk[n].cells)) \in Files
            /\ Progress(mem[w].cursor, Len(disk[n].cells), mem[w].rows) \in Progresses
        BY <3>b, <3>c, FileType, ProgressType
      <4> QED BY <3>11, <3>a, <4>1 DEF Fsync, Synced, TypeOK, Goto, Steps, Inside, n
    <3>12. CASE SaveCheckpoint(w)
      BY <3>12, <3>c DEF SaveCheckpoint, RowsSaved, TypeOK, JobRows, Goto, Steps, Inside
    <3>13. CASE Finish(w)
      <4>1. FileWith(sheet[w], 0) \in Files
        BY <3>d, FileType
      <4> QED BY <3>13, <3>a, <4>1 DEF Finish, TypeOK, Goto, Steps, Inside, n
    <3>14. CASE DeleteStale(w)
      BY <3>14, NoFileType DEF DeleteStale, TypeOK, Goto, Steps, Inside
    <3>15. CASE Upload(w)
      <4>1. FileWith(disk[n].cells, Len(disk[n].cells)) \in Files
        BY <3>b, FileType
      <4> QED BY <3>15, <4>1 DEF Upload, TypeOK, Goto, Steps, Inside, n
    <3>16. CASE Complete(w)
      BY <3>16 DEF Complete, TypeOK, Goto, Steps, JobRows, Statuses, Finished
    <3>17. CASE RecordFailure(w)
      BY <3>17 DEF RecordFailure, TypeOK, Goto, Steps, JobRows, Statuses, Finished
    <3> QED BY <2>1, <3>1, <3>2, <3>3, <3>4, <3>5, <3>6, <3>7, <3>8, <3>9, <3>10,
               <3>11, <3>12, <3>13, <3>14, <3>15, <3>16, <3>17 DEF Run
  <2>2. ASSUME NEW w \in Workers, Break(w) PROVE TypeOK'
    <3>1. pc' \in [Workers -> Steps] /\ delivery' \in BOOLEAN
      BY <2>2 DEF Break, Raise, Escape, Crash, TypeOK, Goto, Steps
    <3>2. faults' \in 0..MaxFaults
      BY <2>2, ExportAssumption DEF Break, Raise, Escape, Crash, Fault, TypeOK
    <3> QED BY <2>2, <3>1, <3>2 DEF Break, Raise, Escape, Crash, TypeOK
  <2>3. CASE Redeliver \/ OperatorReset \/ CancelRead \/ CancelWrite
    BY <2>3 DEF Redeliver, OperatorReset, CancelRead, CancelWrite, TypeOK, JobRows,
                Statuses, Finished
  <2>4. ASSUME NEW p \in Pks, InsertRow(p) \/ DeleteRow(p) PROVE TypeOK'
    BY <2>4 DEF InsertRow, DeleteRow, TypeOK
  <2>5. ASSUME NEW n \in Nodes, HostCrash(n) PROVE TypeOK'
    <3>1. /\ disk[n].cells \in Seq(Cells) /\ disk[n].synced \in Nat
          /\ Len(disk[n].cells) \in Nat
      BY FileFields DEF TypeOK
    <3>2. ASSUME VolumesSurvive PROVE disk' \in [Nodes -> Files]
      <4>1. PICK k \in disk[n].synced .. Len(disk[n].cells) :
              disk' = [disk EXCEPT ![n] = FileWith(SubSeq(@.cells, 1, k), @.synced)]
        BY <2>5, <3>2 DEF HostCrash
      <4>2. SubSeq(disk[n].cells, 1, k) \in Seq(Cells)
        BY <3>1, <4>1
      <4>3. FileWith(SubSeq(disk[n].cells, 1, k), disk[n].synced) \in Files
        BY <3>1, <4>2, FileType
      <4> QED BY <4>1, <4>3 DEF TypeOK
    <3>3. ASSUME ~VolumesSurvive PROVE disk' \in [Nodes -> Files]
      BY <2>5, <3>3, NoFileType DEF HostCrash, TypeOK
    <3>5. disk' \in [Nodes -> Files]
      BY <3>2, <3>3
    <3>6. pc' \in [Workers -> Steps] /\ faults' \in 0..MaxFaults
      BY <2>5, ExportAssumption DEF HostCrash, Fault, TypeOK, Steps
    <3> QED BY <2>5, <3>5, <3>6 DEF HostCrash, TypeOK
  <2>7. CASE UNCHANGED vars
    BY <2>7 DEF vars, TypeOK
  <2> QED BY <2>1, <2>2, <2>3, <2>4, <2>5, <2>7 DEF Next, Environment
<1> QED BY <1>1, <1>2, PTL DEF Spec

-----------------------------------------------------------------------------
(* Single-flight. The compare-and-set only wins from a status no live worker *)
(* leaves the row in, and the operator resets a job only when no worker has  *)
(* it; a cancel moves the row to a status that cannot be claimed.            *)

\* At most one worker is live, and the row then says processing or cancelled.
LEMMA FlightInductive == TypeOK /\ FlightInv /\ [Next]_vars => FlightInv'
<1> SUFFICES ASSUME TypeOK, FlightInv, [Next]_vars PROVE FlightInv'
  OBVIOUS
<1> USE DEF FlightInv, SingleFlight, Live, Goto
<1>0. pc \in [Workers -> Steps] /\ job \in JobRows
  BY DEF TypeOK
<1>1. ASSUME NEW w \in Workers, Run(w) PROVE FlightInv'
  <2>1. CASE Claim(w)
    <3>1. \A v \in Workers : pc[v] = "idle"
      BY <2>1 DEF Claim, Claimable
    <3>2. job'.status = "processing"
      BY <2>1, <1>0 DEF Claim, JobRows
    <3> QED BY <2>1, <1>0, <3>1, <3>2 DEF Claim
  <2>2. CASE Skip(w) BY <2>2 DEF Skip
  <2>3. CASE Load(w) BY <2>3, <1>0 DEF Load
  <2>4. CASE OpenResuming(w) BY <2>4, <1>0 DEF OpenResuming
  <2>5. CASE OpenFresh(w) BY <2>5, <1>0 DEF OpenFresh, FreshFile, RowsOnFresh
  <2>6. CASE WriteHeader(w) BY <2>6, <1>0 DEF WriteHeader
  <2>7. CASE CheckStatus(w) BY <2>7, <1>0 DEF CheckStatus
  <2>8. CASE FetchBatch(w) BY <2>8, <1>0 DEF FetchBatch
  <2>9. CASE NoMoreRows(w) BY <2>9, <1>0 DEF NoMoreRows
  <2>10. CASE WriteRow(w) BY <2>10, <1>0 DEF WriteRow
  <2>11. CASE Fsync(w) BY <2>11, <1>0 DEF Fsync, Synced
  <2>12. CASE SaveCheckpoint(w)
    <3>1. job'.status = job.status
      BY <2>12, <1>0 DEF SaveCheckpoint, JobRows
    <3> QED BY <2>12, <1>0, <3>1 DEF SaveCheckpoint
  <2>13. CASE Finish(w) BY <2>13, <1>0 DEF Finish
  <2>14. CASE DeleteStale(w) BY <2>14, <1>0 DEF DeleteStale
  <2>15. CASE Upload(w) BY <2>15, <1>0 DEF Upload
  <2>16. CASE Complete(w)
    BY <2>16, <1>0 DEF Complete
  <2>17. CASE RecordFailure(w)
    BY <2>17, <1>0 DEF RecordFailure
  <2> QED BY <1>1, <2>1, <2>2, <2>3, <2>4, <2>5, <2>6, <2>7, <2>8, <2>9, <2>10,
             <2>11, <2>12, <2>13, <2>14, <2>15, <2>16, <2>17 DEF Run
<1>2. ASSUME NEW w \in Workers, Break(w) PROVE FlightInv'
  BY <1>2, <1>0 DEF Break, Raise, Escape, Crash, Inside
<1>3. CASE Redeliver BY <1>3 DEF Redeliver
<1>4. CASE OperatorReset BY <1>4 DEF OperatorReset
<1>5. CASE CancelRead BY <1>5 DEF CancelRead
<1>6. CASE CancelWrite
  <2>1. job'.status = "cancelled"
    BY <1>6, <1>0 DEF CancelWrite, JobRows
  <2> QED BY <1>6, <2>1 DEF CancelWrite
<1>7. ASSUME NEW p \in Pks, InsertRow(p) \/ DeleteRow(p) PROVE FlightInv'
  BY <1>7 DEF InsertRow, DeleteRow
<1>8. ASSUME NEW n \in Nodes, HostCrash(n) PROVE FlightInv'
  BY <1>8, <1>0 DEF HostCrash
<1>10. CASE UNCHANGED vars BY <1>10 DEF vars
<1> QED BY <1>1, <1>2, <1>3, <1>4, <1>5, <1>6, <1>7, <1>8, <1>10
        DEF Next, Environment

LEMMA FlightCorrect == Spec => []FlightInv
<1>1. Init => FlightInv
  BY DEF Init, FlightInv, SingleFlight, Live
<1> QED BY <1>1, FlightInductive, TypeCorrect, PTL DEF Spec

\* However often the broker delivers the task, two workers never run one job.
THEOREM SingleFlightHolds == Spec => []SingleFlight
<1>1. FlightInv => SingleFlight
  BY DEF FlightInv
<1> QED BY <1>1, FlightCorrect, PTL

-----------------------------------------------------------------------------
(* Crash-safe resume. From here on the format is line based, every worker    *)
(* sees the same export_dir() and it survives: exporting.py:585-598 resumes. *)

DurableFile ==
  Resumable /\ VolumesSurvive /\ \A v, w \in Workers : NodeOf[v] = NodeOf[w]

LEMMA OneNode ==
  ASSUME DurableFile
  PROVE  /\ Home \in Nodes /\ \A w \in Workers : NodeOf[w] = Home
         /\ \A n \in Nodes : n = Home
<1>1. (CHOOSE w \in Workers : TRUE) \in Workers
  BY ExportAssumption
<1> QED BY <1>1 DEF DurableFile, Home, Nodes

LEMMA CellsAreIntegers ==
  /\ Cells \subseteq Int /\ Pks \subseteq Cells /\ Pks \subseteq Int /\ Fixed \subseteq Pks
  /\ Cursors \subseteq Int /\ \A p \in Pks : p > Header /\ p # Header /\ p # Nul
BY ExportAssumption DEF Cells, Header, Nul, Cursors, None

\* Whether the first k cells are a good export depends on those cells alone.
LEMMA IntactPrefix ==
  ASSUME NEW s \in Seq(Cells), NEW t \in Seq(Cells), NEW k \in Nat, NEW c,
         Intact(s, k, c), k <= Len(t), \A i \in 1..k : t[i] = s[i]
  PROVE  Intact(t, k, c)
BY DEF Intact, HeaderLen

\* truncate() to a confirmed length keeps the confirmed cells.
LEMMA TruncatedCells ==
  ASSUME NEW s \in Seq(Cells), NEW k \in 0..Len(s)
  PROVE  \A i \in 1..k : Truncated(s, k)[i] = s[i]
BY DEF Truncated

\* A chunk of the ordered query leaves out no undisturbed row below its last one.
LEMMA BatchCovers ==
  ASSUME NEW c \in Cursors, table \in SUBSET Pks, Fixed \subseteq table,
         NEW last \in NextBatch(c), NEW q \in Fixed, q > c, q <= last
  PROVE  q \in NextBatch(c)
<1> DEFINE below(p) == {x \in After(c) : x < p}
<1>1. After(c) \subseteq Pks /\ last \in After(c) /\ q \in After(c)
  BY DEF NextBatch, After
<1>2. IsFiniteSet(below(last)) /\ below(q) \subseteq below(last)
  <2>1. below(last) \subseteq Pks
    BY <1>1
  <2>2. IsFiniteSet(below(last))
    BY <2>1, FS_Subset, ExportAssumption
  <2>3. \A x \in After(c) : x < q => x < last
    BY <1>1, CellsAreIntegers
  <2> QED BY <2>2, <2>3
<1>3. /\ Cardinality(below(q)) <= Cardinality(below(last))
      /\ Cardinality(below(q)) \in Nat /\ Cardinality(below(last)) \in Nat
  BY <1>2, FS_Subset, FS_CardinalityType
<1>4. Cardinality(below(last)) < ChunkSize
  BY DEF NextBatch
<1> QED BY <1>1, <1>3, <1>4, ExportAssumption DEF NextBatch

\* A new file with its header covers the blank cursor.
LEMMA IntactHeader == Intact(HeaderCells, HeaderLen, None)
<1>1. \A p \in Fixed : ~(p <= None)
  BY ExportAssumption DEF None
<1>2. CASE Format = "json"
  BY <1>1, <1>2 DEF Intact, HeaderCells, HeaderLen
<1>3. CASE Format # "json"
  <2>1. HeaderCells = <<Header>> /\ HeaderLen = 1 /\ Header \in Cells \ {Nul}
    BY <1>3 DEF HeaderCells, HeaderLen, Cells, Header, Nul
  <2>2. Len(<<Header>>) = 1 /\ <<Header>>[1] = Header
    OBVIOUS
  <2>3. \A i \in 1..1 : i = 1
    OBVIOUS
  <2> HIDE DEF Header
  <2> QED BY <1>1, <2>1, <2>2, <2>3 DEF Intact, Header, None
<1> QED BY <1>2, <1>3

\* Fetching, writing and flushing a chunk: the cells and the rows still to come
\* stay an export up to the chunk's last pk.
LEMMA TakesBatch ==
  ASSUME NEW s \in Seq(Cells), NEW c \in Cursors, Intact(s, Len(s), c),
         table \in SUBSET Pks, Fixed \subseteq table,
         NEW last \in NextBatch(c), \A p \in NextBatch(c) : p <= last
  PROVE  Takes(s, last, NextBatch(c))
<1> DEFINE b == NextBatch(c)
<1>1. b \subseteq Pks /\ \A p \in b : p > c
  BY DEF NextBatch, After
<1>2. \A q \in Fixed : q > c /\ q <= last => q \in b
  BY BatchCovers
<1>3. c \in Int /\ last \in Int /\ last > c /\ \A p \in b : p \in Int
  BY <1>1, CellsAreIntegers
<1> HIDE DEF b
<1>4. \A i \in 1..Len(s) : /\ s[i] \in Int /\ s[i] # Nul /\ s[i] <= c
                          /\ (s[i] = Header <=> i <= HeaderLen)
  BY CellsAreIntegers DEF Intact
<1>5. \A i \in 1..Len(s) : s[i] <= last /\ \A p \in b : s[i] < p
  BY <1>1, <1>3, <1>4
<1>6. \A p \in Fixed : p <= last => p \in b \/ \E i \in 1..Len(s) : s[i] = p
  <2>1. \A p \in Fixed : p <= c => \E i \in 1..Len(s) : s[i] = p
    BY DEF Intact
  <2>2. \A p \in Fixed : p \in Int
    BY CellsAreIntegers
  <2> QED BY <2>1, <2>2, <1>2, <1>3
<1>7. HeaderLen <= Len(s) /\ \A i, j \in 1..Len(s) : i < j => s[i] < s[j]
  BY DEF Intact, HeaderLen
<1>8. \A p \in b : p <= last
  BY DEF b
<1> QED BY <1>4, <1>5, <1>6, <1>7, <1>8 DEF Takes, b

LEMMA TakesRow ==
  ASSUME NEW s \in Seq(Cells), NEW c \in Cursors, NEW b \in SUBSET Pks, Takes(s, c, b),
         NEW r \in b, \A p \in b : r <= p
  PROVE  Takes(Append(s, r), c, b \ {r})
<1> DEFINE t == Append(s, r)
<1>1. r \in Cells /\ r # Nul /\ r # Header /\ HeaderLen \in Nat /\ Len(s) \in Nat
  BY CellsAreIntegers DEF HeaderLen
<1>2. /\ Len(t) = Len(s) + 1 /\ \A i \in 1..Len(s) : t[i] = s[i]
      /\ t[Len(s) + 1] = r
  BY <1>1
<1>3. \A i \in 1..Len(t) : i \in 1..Len(s) \/ i = Len(s) + 1
  BY <1>1, <1>2
<1> HIDE DEF t
<1>4. /\ HeaderLen <= Len(s) /\ \A i, j \in 1..Len(s) : i < j => s[i] < s[j]
      /\ \A p \in b : p <= c
  BY DEF Takes
<1>5. \A i \in 1..Len(s) : /\ s[i] # Nul /\ (s[i] = Header <=> i <= HeaderLen)
                          /\ s[i] <= c /\ \A p \in b : s[i] < p
  BY DEF Takes
<1>6. \A i \in 1..Len(t) : t[i] # Nul /\ (t[i] = Header <=> i <= HeaderLen)
  <2>1. \A i \in 1..Len(s) : t[i] # Nul /\ (t[i] = Header <=> i <= HeaderLen)
    BY <1>2, <1>5
  <2>2. ~(Len(s) + 1 <= HeaderLen)
    BY <1>1, <1>4
  <2> QED BY <2>1, <2>2, <1>1, <1>2, <1>3
<1>7. \A i \in 1..Len(t) : t[i] <= c
  BY <1>2, <1>3, <1>4, <1>5
<1>8. \A i \in 1..Len(t), p \in b \ {r} : t[i] < p
  <2>1. ASSUME NEW p \in b \ {r} PROVE r < p
    <3>1. r \in Int /\ p \in Int /\ r <= p /\ p # r
      BY CellsAreIntegers
    <3> QED BY <3>1
  <2> QED BY <2>1, <1>2, <1>3, <1>5
<1>9. \A i, j \in 1..Len(t) : i < j => t[i] < t[j]
  BY <1>1, <1>2, <1>3, <1>4, <1>5
<1>10. \A p \in Fixed : p <= c => p \in b \ {r} \/ \E i \in 1..Len(t) : t[i] = p
  <2> SUFFICES ASSUME NEW p \in Fixed, p <= c, p \notin b \ {r}
               PROVE  \E i \in 1..Len(t) : t[i] = p
    OBVIOUS
  <2>1. CASE p = r
    BY <2>1, <1>1, <1>2
  <2>2. CASE p # r
    <3>1. PICK i \in 1..Len(s) : s[i] = p
      BY <2>2 DEF Takes
    <3> QED BY <3>1, <1>1, <1>2
  <2> QED BY <2>1, <2>2
<1>11. HeaderLen <= Len(t) /\ \A p \in b \ {r} : p <= c
  BY <1>1, <1>2, <1>4
<1> QED BY <1>6, <1>7, <1>8, <1>9, <1>10, <1>11 DEF Takes, t

LEMMA TakesDone ==
  ASSUME NEW s \in Seq(Cells), NEW c, Takes(s, c, {})
  PROVE  Intact(s, Len(s), c)
<1>1. \A i \in 1..Len(s) : s[i] \in Cells
  OBVIOUS
<1>2. Len(s) \in HeaderLen .. Len(s)
  BY DEF Takes, HeaderLen
<1> QED BY <1>1, <1>2 DEF Takes, Intact

\* Single-flight makes every other worker idle, so only w's own claim about its
\* file has to be shown again.
LEMMA OthersIdle ==
  ASSUME TypeOK, FlightInv, NEW w \in Workers, Live(w), NEW l,
         Goto(w, l) \/ UNCHANGED pc, WorkerInv(w)'
  PROVE  \A v \in Workers : WorkerInv(v)'
<1> SUFFICES ASSUME NEW v \in Workers, v # w PROVE WorkerInv(v)'
  OBVIOUS
<1>1. pc[v] = "idle"
  BY DEF FlightInv, SingleFlight, Live
<1>2. pc'[v] = "idle"
  BY <1>1 DEF Goto, TypeOK
<1> QED BY <1>2 DEF WorkerInv

\* Nothing a worker does to its file reaches the cells behind the checkpoint.
LEMMA CheckpointFrame ==
  ASSUME TypeOK, TypeOK', DurableFile, CheckpointInv,
         job'.cursor = job.cursor, job'.bytes = job.bytes,
         job.cursor # None =>
           /\ disk'[Home].there /\ job.bytes <= disk'[Home].synced
           /\ job.bytes <= Len(disk'[Home].cells)
           /\ \A i \in 1..job.bytes : disk'[Home].cells[i] = disk[Home].cells[i]
  PROVE  CheckpointInv'
<1>1. /\ disk[Home].cells \in Seq(Cells) /\ disk'[Home].cells \in Seq(Cells)
      /\ job.bytes \in Nat
  BY OneNode, FileFields DEF TypeOK, JobRows
<1>2. ASSUME job.cursor # None
      PROVE  Intact(disk'[Home].cells, job.bytes, job.cursor)
  BY <1>1, <1>2, OneNode, IntactPrefix DEF CheckpointInv
<1> QED BY <1>2, OneNode DEF CheckpointInv

\* Every step keeps the row, the worker's knowledge and the file consistent.
LEMMA ExportInductive ==
  ASSUME DurableFile, TypeOK, TypeOK', ExportInv, [Next]_vars
  PROVE  ExportInv'
<1> DEFINE s == disk[Home].cells
           t == disk'[Home].cells
<1>f. FlightInv /\ FlightInv' /\ CheckpointInv /\ CompletedInv
  BY FlightInductive DEF ExportInv
<1>t. /\ s \in Seq(Cells) /\ t \in Seq(Cells) /\ Len(s) \in Nat /\ Len(t) \in Nat
      /\ disk[Home].synced \in Nat /\ disk[Home] \in Files
  BY OneNode, FileFields DEF TypeOK
<1>j. /\ job \in JobRows /\ job.status \in Statuses /\ job.cursor \in Cursors
      /\ job.bytes \in Nat /\ job.rows \in Nat /\ pc \in [Workers -> Steps]
      /\ mem \in [Workers -> Progresses] /\ disk \in [Nodes -> Files]
      /\ batch \in [Workers -> SUBSET Pks]
  BY DEF TypeOK, JobRows
<1>s. job.cursor # None => /\ disk[Home].there /\ Intact(s, job.bytes, job.cursor)
                          /\ job.bytes <= disk[Home].synced
  BY <1>f, OneNode DEF CheckpointInv
<1>k. job.cursor # None => job.bytes <= Len(s)
  BY <1>s, <1>t, <1>j DEF Intact, HeaderLen
<1>1. ASSUME NEW w \in Workers, Run(w) PROVE ExportInv'
  <2>n. NodeOf[w] = Home /\ Home \in Nodes
    BY OneNode
  <2>m. mem[w].cursor \in Cursors /\ mem[w].bytes \in Nat /\ mem[w].rows \in Nat
        /\ batch[w] \subseteq Pks
    BY <1>j, ProgressFields
  <2>i. WorkerInv(w)
    BY DEF ExportInv
  <2>c. Live(w) => job.status # "completed"
    BY <1>f DEF FlightInv
  <2>u. ASSUME Live(w), NEW l, Goto(w, l) \/ UNCHANGED pc, WorkerInv(w)',
               CheckpointInv', job'.status # "completed"
        PROVE  ExportInv'
    BY <1>f, <2>u, OthersIdle DEF ExportInv, CompletedInv
  <2>d. ASSUME UNCHANGED <<job, disk>> PROVE CheckpointInv'
    BY <1>f, <2>d DEF CheckpointInv
  <2>1. CASE Claim(w)
    <3>1. job'.status = "processing" /\ job'.cursor = job.cursor /\ job'.bytes = job.bytes
      BY <2>1, <1>j DEF Claim, JobRows
    <3>2. pc[w] = "idle" /\ pc'[w] = "load" /\ \A v \in Workers : v # w => pc'[v] = pc[v]
      BY <2>1, <1>j DEF Claim, Live, Goto
    <3>3. \A v \in Workers : pc[v] = "idle"
      BY <2>1, <1>f DEF Claim, Claimable, FlightInv, Live
    <3>4. \A v \in Workers : WorkerInv(v)'
      BY <3>2, <3>3 DEF WorkerInv
    <3>5. CheckpointInv'
      BY <2>1, <1>f, <3>1 DEF Claim, CheckpointInv
    <3> QED BY <1>f, <3>1, <3>4, <3>5 DEF ExportInv, CompletedInv
  <2>2. CASE Skip(w)
    BY <2>2, <1>f DEF Skip, ExportInv, CheckpointInv, CompletedInv, Delivered, WorkerInv,
       FileMatches, FileTakes, FileCells, Exhausted
  <2>3. CASE Load(w)
    <3>1. Live(w) /\ Goto(w, "open") /\ UNCHANGED <<job, disk>> /\ pc'[w] = "open"
      BY <2>3, <1>j DEF Load, Live, Goto
    <3>2. mem'[w].cursor = job.cursor /\ mem'[w].bytes = job.bytes
      BY <2>3, <1>j DEF Load, Progress
    <3>3. WorkerInv(w)'
      BY <3>1, <3>2 DEF WorkerInv
    <3> QED BY <3>1, <3>3, <2>u, <2>d, <2>c
  <2>4. CASE OpenResuming(w)
    <3>1. Live(w) /\ Goto(w, "check") /\ UNCHANGED <<job, mem>> /\ pc'[w] = "check"
          /\ pc[w] = "open"
      BY <2>4, <1>j DEF OpenResuming, Live, Goto
    <3>2. mem[w].cursor = job.cursor /\ mem[w].bytes = job.bytes /\ job.cursor # None
      BY <2>4, <2>i, <3>1 DEF OpenResuming, CanResume, WorkerInv
    <3>3. /\ disk'[Home].there /\ t = Truncated(s, job.bytes)
          /\ disk'[Home].synced = job.bytes
      BY <2>4, <2>n, <1>j, <3>2 DEF OpenResuming, FileWith
    <3>4. Len(t) = job.bytes /\ \A i \in 1..job.bytes : t[i] = s[i]
      <4>1. job.bytes \in 0..Len(s) /\ job.bytes \in Nat
        BY <3>2, <1>t, <1>j, <1>k
      <4> HIDE DEF s, t
      <4> QED BY <3>3, <4>1, <1>t, TruncatedType, TruncatedCells
    <3>5. Intact(t, job.bytes, job.cursor)
      <4> HIDE DEF s, t
      <4> QED BY <3>2, <3>4, <1>s, <1>t, <1>j, IntactPrefix
    <3>6. CheckpointInv'
      BY <3>1, <3>3, <3>4, <1>f, <1>j, CheckpointFrame
    <3>7. FileMatches(w)'
      BY <3>1, <3>2, <3>3, <3>4, <3>5, <2>n, <1>j DEF FileMatches, FileCells
    <3>8. WorkerInv(w)'
      BY <3>1, <3>2, <3>7 DEF WorkerInv
    <3> QED BY <3>1, <3>6, <3>8, <2>u, <2>c
  <2>5. CASE OpenFresh(w)
    <3>1. Live(w) /\ Goto(w, "header") /\ UNCHANGED job /\ pc'[w] = "header"
          /\ pc[w] = "open"
      BY <2>5, <1>j DEF OpenFresh, FreshFile, RowsOnFresh, Live, Goto
    <3>2. job.cursor = None
      BY <2>5, <3>1, <2>i, <2>n, <1>s DEF OpenFresh, FreshFile, RowsOnFresh, CanResume, WorkerInv, DurableFile
    <3>3. disk'[Home].there /\ t = <<>> /\ mem'[w].cursor = None
      BY <2>5, <2>n, <1>j DEF OpenFresh, FreshFile, RowsOnFresh, FileWith, DurableFile, Progress
    <3>4. CheckpointInv'
      BY <3>1, <3>2, <1>f, <1>j, CheckpointFrame
    <3>5. WorkerInv(w)'
      BY <3>1, <3>2, <3>3, <2>n DEF WorkerInv, FileCells
    <3> QED BY <3>1, <3>4, <3>5, <2>u, <2>c
  <2>6. CASE WriteHeader(w)
    <3>1. Live(w) /\ Goto(w, "check") /\ UNCHANGED job /\ pc'[w] = "check"
          /\ pc[w] = "header"
      BY <2>6, <1>j DEF WriteHeader, Live, Goto
    <3>2. job.cursor = None /\ mem[w].cursor = None /\ job.bytes = 0
      BY <3>1, <2>i, <1>f DEF WorkerInv, CheckpointInv
    <3>3. /\ disk'[Home].there /\ t = HeaderCells /\ disk'[Home].synced = HeaderLen
          /\ mem'[w].cursor = None /\ mem'[w].bytes = HeaderLen
      BY <2>6, <2>n, <1>j, <3>2 DEF WriteHeader, FileWith, DurableFile, Progress
    <3>4. CheckpointInv'
      BY <3>1, <3>2, <1>f, <1>j, CheckpointFrame
    <3>5. FileMatches(w)'
      BY <3>1, <3>2, <3>3, <2>n, HeaderType, IntactHeader DEF FileMatches, FileCells
    <3>6. WorkerInv(w)'
      BY <3>1, <3>2, <3>3, <3>5 DEF WorkerInv
    <3> QED BY <3>1, <3>4, <3>6, <2>u, <2>c
  <2>7. CASE CheckStatus(w)
    <3>1. Live(w) /\ UNCHANGED <<job, mem, disk>> /\ pc[w] = "check"
          /\ pc'[w] \in {"idle", "fetch"}
          /\ Goto(w, IF job.status = "cancelled" THEN "idle" ELSE "fetch")
      BY <2>7, <1>j DEF CheckStatus, Live, Goto
    <3>2. WorkerInv(w)'
      BY <3>1, <2>i DEF WorkerInv, FileMatches, FileCells
    <3> QED BY <3>1, <3>2, <2>u, <2>d, <2>c
  <2>8. CASE FetchBatch(w)
    <3> DEFINE b == NextBatch(mem[w].cursor)
    <3>1. Live(w) /\ Goto(w, "write") /\ UNCHANGED <<job, disk>> /\ pc'[w] = "write"
          /\ pc[w] = "fetch"
      BY <2>8, <1>j DEF FetchBatch, Live, Goto
    <3>2. PICK last \in b :
            /\ \A p \in b : p <= last
            /\ batch' = [batch EXCEPT ![w] = b]
            /\ mem' = [mem EXCEPT ![w] = Progress(last, @.bytes, @.rows + Cardinality(b))]
      BY <2>8 DEF FetchBatch
    <3>3. b \subseteq Pks /\ \A p \in b : p > mem[w].cursor
      BY DEF NextBatch, After, TypeOK
    <3>5. mem'[w].cursor = last /\ batch'[w] = b
      BY <3>2, <1>j DEF Progress
    <3>6. FileMatches(w) /\ job.cursor = mem[w].cursor
      BY <3>1, <2>i DEF WorkerInv
    <3>7. last \in Pks /\ last > mem[w].cursor /\ last # None
      BY <3>2, <3>3, CellsAreIntegers DEF None, Header
    <3> HIDE DEF b
    <3>8. FileTakes(w)'
      <4>1. /\ disk[Home].there /\ disk[Home].synced = Len(s)
            /\ Intact(s, Len(s), mem[w].cursor) /\ job.bytes <= Len(s)
        BY <3>6, <2>n DEF FileMatches, FileCells
      <4>2. Takes(s, last, b)
        <5>1. table \in SUBSET Pks /\ Fixed \subseteq table
          BY DEF TypeOK
        <5> HIDE DEF s
        <5> QED BY <4>1, <5>1, <3>2, <1>t, <2>m, TakesBatch DEF b
      <4>3. job.cursor <= last
        <5>1. mem[w].cursor \in Int /\ last \in Int
          BY <3>7, <2>m, CellsAreIntegers
        <5> QED BY <3>6, <3>7, <5>1
      <4>4. UNCHANGED <<s, disk>> /\ disk[Home].synced <= Len(s)
        BY <3>1, <4>1, <1>t
      <4> HIDE DEF s
      <4> QED BY <3>1, <3>5, <3>7, <2>n, <4>1, <4>2, <4>3, <4>4 DEF FileTakes, FileCells, s
    <3>9. WorkerInv(w)'
      BY <3>1, <3>8 DEF WorkerInv
    <3> QED BY <3>1, <3>9, <2>u, <2>d, <2>c
  <2>9. CASE NoMoreRows(w)
    <3>1. Live(w) /\ Goto(w, "finish") /\ UNCHANGED <<job, mem, disk>>
          /\ pc'[w] = "finish" /\ pc[w] = "fetch"
      BY <2>9, <1>j DEF NoMoreRows, Live, Goto
    <3>2. Exhausted(w)
      BY <2>9, <2>m, ExportAssumption DEF NoMoreRows, After, Exhausted, TypeOK, Cursors, None
    <3>3. WorkerInv(w)'
      BY <3>1, <3>2, <2>i DEF WorkerInv, FileMatches, FileCells, Exhausted
    <3> QED BY <3>1, <3>3, <2>u, <2>d, <2>c
  <2>10. CASE WriteRow(w)
    <3>1. Live(w) /\ UNCHANGED <<job, mem, pc>> /\ pc[w] = "write"
      BY <2>10, <1>j DEF WriteRow, Live, Goto
    <3>2. PICK r \in batch[w] :
            /\ \A p \in batch[w] : r <= p
            /\ batch' = [batch EXCEPT ![w] = @ \ {r}]
            /\ disk' = [disk EXCEPT ![Home] = FileWith(Append(@.cells, r), @.synced)]
      BY <2>10, <2>n DEF WriteRow, DurableFile
    <3>3. FileTakes(w)
      BY <3>1, <2>i DEF WorkerInv
    <3>4. /\ disk'[Home].there /\ t = Append(s, r) /\ disk'[Home].synced = disk[Home].synced
          /\ batch'[w] = batch[w] \ {r}
      BY <3>2, <2>n, <1>j DEF FileWith
    <3>5. r \in Pks /\ r \in Cells /\ r # Nul /\ r # Header
      BY <3>2, <2>m, CellsAreIntegers
    <3>6. /\ Len(t) = Len(s) + 1 /\ \A i \in 1..Len(s) : t[i] = s[i]
          /\ t[Len(s) + 1] = r
      BY <3>4, <3>5, <1>t
    <3>7. CheckpointInv'
      BY <3>1, <3>4, <3>6, <1>f, <1>j, <1>t, <1>k, <1>s, CheckpointFrame
    <3>8. FileTakes(w)'
      <4>1. /\ disk[Home].synced <= Len(s) /\ Takes(s, mem[w].cursor, batch[w])
            /\ mem[w].cursor # None /\ job.bytes <= Len(s) /\ job.cursor <= mem[w].cursor
        BY <3>3, <2>n DEF FileTakes, FileCells
      <4>2. Takes(t, mem[w].cursor, batch[w] \ {r})
        <5>1. Takes(Append(s, r), mem[w].cursor, batch[w] \ {r})
          <6> HIDE DEF s
          <6> QED BY <3>2, <4>1, <1>t, <2>m, TakesRow
        <5> HIDE DEF s, t
        <5> QED BY <3>4, <5>1
      <4>3. disk'[Home].synced <= Len(t) /\ job.bytes <= Len(t)
        BY <3>4, <3>6, <4>1, <1>t, <1>j
      <4> HIDE DEF s, t
      <4> QED BY <3>1, <3>4, <2>n, <4>1, <4>2, <4>3 DEF FileTakes, FileCells, t
    <3>9. WorkerInv(w)'
      BY <3>1, <3>8 DEF WorkerInv
    <3> QED BY <3>1, <3>7, <3>9, <2>u, <2>c
  <2>11. CASE Fsync(w)
    <3>1. Live(w) /\ Goto(w, "save") /\ UNCHANGED job /\ pc'[w] = "save"
          /\ pc[w] = "write" /\ batch[w] = {}
      BY <2>11, <1>j DEF Fsync, Synced, Live, Goto
    <3>2. /\ t = s /\ disk'[Home].there = TRUE /\ disk'[Home].synced = Len(s)
          /\ mem'[w].cursor = mem[w].cursor /\ mem'[w].bytes = Len(s)
      BY <2>11, <2>n, <1>j DEF Fsync, Synced, DurableFile, FileWith, Progress
    <3>3. FileTakes(w)
      BY <3>1, <2>i DEF WorkerInv
    <3>4. CheckpointInv'
      BY <3>1, <3>2, <1>f, <1>j, <1>k, CheckpointFrame
    <3>5. Intact(s, Len(s), mem[w].cursor)
      <4>1. Takes(s, mem[w].cursor, {})
        BY <3>1, <3>3, <2>n DEF FileTakes, FileCells
      <4> QED BY <4>1, <1>t, TakesDone
    <3>6. FileMatches(w)' /\ mem'[w].cursor # None /\ job'.cursor <= mem'[w].cursor
      BY <3>1, <3>2, <3>3, <3>5, <2>n DEF FileTakes, FileMatches, FileCells
    <3>7. WorkerInv(w)'
      BY <3>1, <3>6 DEF WorkerInv
    <3> QED BY <3>1, <3>4, <3>7, <2>u, <2>c
  <2>12. CASE SaveCheckpoint(w)
    <3>1. Live(w) /\ Goto(w, "check") /\ UNCHANGED <<mem, disk>> /\ pc'[w] = "check"
          /\ pc[w] = "save"
      BY <2>12, <1>j DEF SaveCheckpoint, Live, Goto
    <3>2. /\ job'.status = job.status /\ job'.cursor = mem[w].cursor
          /\ job'.bytes = mem[w].bytes
      BY <2>12, <1>j DEF SaveCheckpoint, JobRows
    <3>3. FileMatches(w) /\ mem[w].cursor # None
      BY <3>1, <2>i DEF WorkerInv
    <3>4. CheckpointInv'
      BY <3>1, <3>2, <3>3, <2>n, <1>t, OneNode DEF CheckpointInv, FileMatches, FileCells
    <3>5. WorkerInv(w)'
      BY <3>1, <3>2, <3>3, <2>m DEF WorkerInv, FileMatches, FileCells
    <3> QED BY <3>1, <3>2, <3>4, <3>5, <2>u, <2>c
  <2>13. CASE Finish(w)
    <3>1. Live(w) /\ Goto(w, IF Remote THEN "publish" ELSE "complete")
          /\ UNCHANGED <<job, mem, disk>> /\ pc[w] = "finish"
          /\ pc'[w] = IF Remote THEN "publish" ELSE "complete"
      BY <2>13, <1>j DEF Finish, Live, Goto, DurableFile
    <3>2. WorkerInv(w)'
      BY <3>1, <2>i DEF WorkerInv, FileMatches, FileCells, Exhausted
    <3> QED BY <3>1, <3>2, <2>u, <2>d, <2>c
  <2>14. CASE DeleteStale(w)
    <3>1. Live(w) /\ Goto(w, "upload") /\ UNCHANGED <<job, mem, disk>>
          /\ pc[w] = "publish" /\ pc'[w] = "upload"
      BY <2>14, <1>j DEF DeleteStale, Live, Goto
    <3>2. WorkerInv(w)'
      BY <3>1, <2>i DEF WorkerInv, FileMatches, FileCells, Exhausted
    <3> QED BY <3>1, <3>2, <2>u, <2>d, <2>c
  <2>15. CASE Upload(w)
    <3>1. Live(w) /\ Goto(w, "complete") /\ UNCHANGED <<job, mem, disk>>
          /\ pc[w] = "upload" /\ pc'[w] = "complete"
      BY <2>15, <1>j DEF Upload, Live, Goto
    <3>2. published'.there /\ published'.cells = FileCells(w)
      BY <2>15 DEF Upload, FileWith, FileCells
    <3>3. WorkerInv(w)'
      BY <3>1, <3>2, <2>i DEF WorkerInv, FileMatches, FileCells, Exhausted
    <3> QED BY <3>1, <3>3, <2>u, <2>d, <2>c
  <2>16. CASE Complete(w)
    <3>1. pc[w] = "complete" /\ pc'[w] = "idle" /\ Live(w) /\ Goto(w, "idle")
          /\ UNCHANGED <<mem, disk, published>>
      BY <2>16, <1>j DEF Complete, Live, Goto
    <3>2. job'.cursor = job.cursor /\ job'.bytes = job.bytes
      BY <2>16, <1>j DEF Complete, JobRows
    <3>3. /\ disk[Home].there /\ disk[Home].synced = Len(s)
          /\ Intact(s, Len(s), mem[w].cursor) /\ \A p \in Fixed : p <= mem[w].cursor
          /\ Remote => published.there /\ published.cells = s
      BY <3>1, <2>i, <2>n DEF WorkerInv, FileMatches, FileCells, Exhausted
    <3>4. Whole(s)
      BY <3>3, <2>m DEF Whole, Cursors
    <3>5. CompletedInv'
      BY <3>1, <3>3, <3>4 DEF CompletedInv, Delivered
    <3>6. CheckpointInv'
      BY <3>1, <3>2, <1>f DEF CheckpointInv
    <3>7. WorkerInv(w)'
      BY <3>1 DEF WorkerInv
    <3> QED BY <1>f, <3>1, <3>5, <3>6, <3>7, OthersIdle DEF ExportInv
  <2>17. CASE RecordFailure(w)
    <3>1. Live(w) /\ Goto(w, "idle") /\ UNCHANGED <<mem, disk>> /\ pc'[w] = "idle"
      BY <2>17, <1>j DEF RecordFailure, Live, Goto
    <3>2. /\ job'.status = "failed" /\ job'.cursor = job.cursor /\ job'.bytes = job.bytes
      BY <2>17, <1>j DEF RecordFailure, JobRows
    <3>3. CheckpointInv' /\ WorkerInv(w)'
      BY <3>1, <3>2, <1>f DEF CheckpointInv, WorkerInv
    <3> QED BY <3>1, <3>2, <3>3, <2>u
  <2> QED BY <1>1, <2>1, <2>2, <2>3, <2>4, <2>5, <2>6, <2>7, <2>8, <2>9, <2>10,
             <2>11, <2>12, <2>13, <2>14, <2>15, <2>16, <2>17 DEF Run
<1>2. ASSUME NEW w \in Workers, Break(w) PROVE ExportInv'
  <2>1. PICK l \in {"fail", "idle"} : Goto(w, l)
    BY <1>2 DEF Break, Raise, Escape, Crash
  <2>2. Live(w) /\ UNCHANGED <<job, disk, published>> /\ pc'[w] \in {"fail", "idle"}
    BY <1>2, <2>1, <1>j DEF Break, Raise, Escape, Crash, Live, Inside, Goto
  <2>3. WorkerInv(w)'
    BY <2>2 DEF WorkerInv
  <2>4. CheckpointInv' /\ CompletedInv'
    BY <2>2, <1>f DEF CheckpointInv, CompletedInv, Delivered
  <2> QED BY <1>f, <2>1, <2>2, <2>3, <2>4, OthersIdle DEF ExportInv
<1>3. ASSUME UNCHANGED <<pc, mem, disk, published, batch>>,
             job'.cursor = job.cursor, job'.bytes = job.bytes,
             job'.status = "completed" => job.status = "completed"
      PROVE  ExportInv'
  <2>1. \A w \in Workers : WorkerInv(w)'
    BY <1>3 DEF ExportInv, WorkerInv, FileMatches, FileTakes, FileCells, Exhausted
  <2>2. CheckpointInv' /\ CompletedInv'
    BY <1>3, <1>f DEF CheckpointInv, CompletedInv, Delivered
  <2> QED BY <1>f, <2>1, <2>2 DEF ExportInv
<1>4. CASE Redeliver \/ CancelRead
  BY <1>3, <1>4 DEF Redeliver, CancelRead
<1>5. CASE OperatorReset \/ CancelWrite
  BY <1>3, <1>5, <1>j DEF OperatorReset, CancelWrite, JobRows
<1>6. ASSUME NEW p \in Pks, InsertRow(p) \/ DeleteRow(p) PROVE ExportInv'
  BY <1>3, <1>6 DEF InsertRow, DeleteRow
<1>7. ASSUME NEW n \in Nodes, HostCrash(n) PROVE ExportInv'
  <2>1. n = Home /\ Home \in Nodes /\ \A w \in Workers : NodeOf[w] = n
    BY OneNode
  <2>2. UNCHANGED <<job, published>> /\ disk[Home].there
    BY <1>7, <2>1 DEF HostCrash
  <2>3. PICK k \in disk[Home].synced .. Len(s) :
          disk' = [disk EXCEPT ![Home] = FileWith(SubSeq(@.cells, 1, k), @.synced)]
    BY <1>7, <2>1 DEF HostCrash, DurableFile
  <2>4. t = SubSeq(s, 1, k) /\ disk'[Home].there /\ disk'[Home].synced = disk[Home].synced
    BY <2>1, <2>3, <1>j DEF FileWith
  <2>5. Len(t) = k /\ \A i \in 1..k : t[i] = s[i]
    BY <2>3, <2>4, <1>t
  <2>6. CheckpointInv'
    BY <2>2, <2>3, <2>4, <2>5, <1>f, <1>j, <1>t, <1>s, CheckpointFrame
  <2>7. \A w \in Workers : pc'[w] = "idle"
    BY <1>7, <2>1 DEF HostCrash
  <2>8. CompletedInv'
    <3> SUFFICES ASSUME job.status = "completed", ~Remote
                 PROVE  disk'[Home] = disk[Home]
      BY <2>2, <1>f DEF CompletedInv, Delivered
    <3>1. k = Len(s) /\ disk[Home].synced = Len(s)
      BY <2>3, <1>f, <1>t DEF CompletedInv, Delivered
    <3>2. SubSeq(s, 1, Len(s)) = s
      BY <1>t
    <3> QED BY <2>1, <2>2, <2>3, <3>1, <3>2, <1>j, <1>t DEF FileWith, Files
  <2> QED BY <1>f, <2>6, <2>7, <2>8 DEF ExportInv, WorkerInv
<1>9. CASE UNCHANGED vars
  BY <1>3, <1>9 DEF vars
<1> QED BY <1>1, <1>2, <1>4, <1>5, <1>6, <1>7, <1>9 DEF Next, Environment

\* The invariant of a resumable export on a node whose volume survives.
LEMMA ExportCorrect ==
  ASSUME DurableFile
  PROVE  Spec => []ExportInv
<1>1. Init => ExportInv
  <2> SUFFICES ASSUME Init PROVE ExportInv
    OBVIOUS
  <2>1. FlightInv
    BY DEF Init, FlightInv, SingleFlight, Live
  <2>2. CheckpointInv /\ CompletedInv
    BY DEF Init, CheckpointInv, CompletedInv
  <2>3. \A w \in Workers : WorkerInv(w)
    BY DEF Init, WorkerInv
  <2> QED BY <2>1, <2>2, <2>3 DEF ExportInv
<1>2. TypeOK /\ TypeOK' /\ ExportInv /\ [Next]_vars => ExportInv'
  BY ExportInductive
<1> QED BY <1>1, <1>2, TypeCorrect, PTL DEF Spec

\* Whatever crashed, what the saved cursor claims is in the file and on disk.
THEOREM CheckpointDurableHolds ==
  ASSUME DurableFile
  PROVE  Spec => []CheckpointDurable
<1>1. ExportInv => CheckpointDurable
  BY DEF ExportInv, CheckpointInv, CheckpointDurable
<1> QED BY <1>1, ExportCorrect, PTL

\* A completed export holds every undisturbed row once and in order.
THEOREM CompletedWholeHolds ==
  ASSUME DurableFile
  PROVE  Spec => []CompletedWhole
<1>1. ExportInv => CompletedWhole
  BY DEF ExportInv, CompletedInv, CompletedWhole
<1> QED BY <1>1, ExportCorrect, PTL

-----------------------------------------------------------------------------
(* Refinement of ExportPromise.                                              *)

\* The chunk in progress lies between the checkpoint and the worker's cursor.
LEMMA ChunkInductive ==
  ASSUME DurableFile, TypeOK, TypeOK', ExportInv, ExportInv', ChunkInv, [Next]_vars
  PROVE  ChunkInv'
<1> DEFINE s == disk[Home].cells
           t == disk'[Home].cells
<1>f. FlightInv /\ \A w \in Workers : WorkerInv(w)
  BY DEF ExportInv
<1>t. /\ s \in Seq(Cells) /\ t \in Seq(Cells) /\ Len(s) \in Nat /\ Len(t) \in Nat
  BY OneNode, FileFields DEF TypeOK
<1>j. /\ job \in JobRows /\ job.cursor \in Cursors /\ job.bytes \in Nat
      /\ pc \in [Workers -> Steps] /\ mem \in [Workers -> Progresses]
      /\ disk \in [Nodes -> Files] /\ batch \in [Workers -> SUBSET Pks]
      /\ HeaderLen \in Nat
  BY DEF TypeOK, JobRows, HeaderLen
<1>1. ASSUME \A w \in Workers : pc'[w] \notin {"check", "fetch", "write", "save"}
      PROVE  ChunkInv'
  BY <1>1 DEF ChunkInv
<1>2. ASSUME NEW w \in Workers, Run(w) PROVE ChunkInv'
  <2>n. NodeOf[w] = Home /\ Home \in Nodes
    BY OneNode
  <2>m. mem[w].cursor \in Cursors /\ batch[w] \subseteq Pks /\ WorkerInv(w)
    BY <1>f, <1>j, ProgressFields
  <2>o. ASSUME Live(w) \/ \A v \in Workers : ~Live(v), NEW l, Goto(w, l) \/ UNCHANGED pc
        PROVE  \A v \in Workers : v # w => pc'[v] = "idle"
    BY <1>f, <1>j, <2>o DEF FlightInv, SingleFlight, Live, Goto
  <2>1. CASE Skip(w)
    BY <2>1 DEF Skip, ChunkInv, Beyond, FileCells
  <2>2. CASE Claim(w)
    <3>1. \A v \in Workers : ~Live(v)
      BY <2>2, <1>f DEF Claim, Claimable, FlightInv, Live
    <3>2. Goto(w, "load") /\ pc'[w] = "load"
      BY <2>2, <1>j DEF Claim, Goto
    <3> QED BY <3>1, <3>2, <2>o, <1>1
  <2>3. CASE Load(w) \/ OpenFresh(w) \/ NoMoreRows(w) \/ Finish(w) \/ DeleteStale(w)
             \/ Upload(w) \/ Complete(w) \/ RecordFailure(w)
    <3>1. PICK l \in {"open", "header", "finish", "publish", "upload", "complete", "idle"} :
            Goto(w, l) /\ Live(w)
      BY <2>3 DEF Load, OpenFresh, NoMoreRows, Finish, DeleteStale, Upload, Complete,
         RecordFailure, Live
    <3>2. pc'[w] = l
      BY <3>1, <1>j DEF Goto
    <3> QED BY <3>1, <3>2, <2>o, <1>1
  <2>4. CASE OpenResuming(w)
    <3>1. Live(w) /\ Goto(w, "check") /\ pc'[w] = "check" /\ pc[w] = "open" /\ job' = job
      BY <2>4, <1>j DEF OpenResuming, Live, Goto
    <3>2. t = Truncated(s, job.bytes)
      BY <2>4, <3>1, <2>m, <2>n, <1>j DEF OpenResuming, FileWith, WorkerInv
    <3>3. Len(t) = job.bytes
      <4> HIDE DEF s, t
      <4> QED BY <3>2, <1>t, <1>j, TruncatedType
    <3>4. \A i \in Beyond(w)' : i <= HeaderLen
      BY <3>1, <3>3, <2>n, <1>j DEF Beyond, FileCells
    <3> QED BY <3>1, <3>4, <2>o DEF ChunkInv
  <2>5. CASE WriteHeader(w)
    <3>1. Live(w) /\ Goto(w, "check") /\ pc'[w] = "check" /\ pc[w] = "header" /\ job' = job
      BY <2>5, <1>j DEF WriteHeader, Live, Goto
    <3>2. t = HeaderCells
      BY <2>5, <2>n, <1>j DEF WriteHeader, FileWith, DurableFile
    <3>3. \A i \in Beyond(w)' : i <= HeaderLen
      BY <3>1, <3>2, <2>n, <1>j, HeaderType DEF Beyond, FileCells
    <3> QED BY <3>1, <3>3, <2>o DEF ChunkInv
  <2>6. CASE CheckStatus(w)
    <3>1. /\ Live(w) /\ pc[w] = "check" /\ UNCHANGED <<job, disk>> /\ pc'[w] \in {"idle", "fetch"}
          /\ Goto(w, IF job.status = "cancelled" THEN "idle" ELSE "fetch")
      BY <2>6, <1>j DEF CheckStatus, Live, Goto
    <3>2. \A i \in Beyond(w)' : i <= HeaderLen
      BY <3>1 DEF ChunkInv, Beyond, FileCells
    <3> QED BY <3>1, <3>2, <2>o DEF ChunkInv
  <2>7. CASE FetchBatch(w)
    <3> DEFINE b == NextBatch(mem[w].cursor)
    <3>1. /\ Live(w) /\ Goto(w, "write") /\ pc'[w] = "write" /\ pc[w] = "fetch"
          /\ UNCHANGED <<job, disk>>
      BY <2>7, <1>j DEF FetchBatch, Live, Goto
    <3>2. PICK last \in b :
            /\ batch' = [batch EXCEPT ![w] = b]
            /\ mem' = [mem EXCEPT ![w] = Progress(last, @.bytes, @.rows + Cardinality(b))]
      BY <2>7 DEF FetchBatch
    <3>3. mem'[w].cursor = last /\ batch'[w] = b /\ mem[w].cursor = job.cursor
      BY <3>1, <3>2, <2>m, <1>j DEF Progress, WorkerInv
    <3>4. \A p \in b : p > job.cursor
      BY <3>3 DEF NextBatch, After
    <3>5. \A i \in Beyond(w)' : i <= HeaderLen
      BY <3>1 DEF ChunkInv, Beyond, FileCells
    <3>6. last \in Pks /\ last > job.cursor
      BY <3>2, <3>4 DEF NextBatch, After, TypeOK
    <3>7. job.cursor < last /\ \A p \in b : job.cursor < p
      BY <3>4, <3>6
    <3> HIDE DEF b
    <3> QED BY <3>1, <3>2, <3>3, <3>5, <3>7, <2>o DEF ChunkInv
  <2>8. CASE WriteRow(w)
    <3>1. Live(w) /\ UNCHANGED <<job, mem, pc>> /\ pc[w] = "write"
      BY <2>8 DEF WriteRow, Live
    <3>2. PICK r \in batch[w] :
            /\ batch' = [batch EXCEPT ![w] = @ \ {r}]
            /\ disk' = [disk EXCEPT ![Home] = FileWith(Append(@.cells, r), @.synced)]
      BY <2>8, <2>n DEF WriteRow, DurableFile
    <3>3. t = Append(s, r) /\ batch'[w] = batch[w] \ {r} /\ r \in Cells
      BY <3>2, <2>n, <2>m, <1>j, CellsAreIntegers DEF FileWith
    <3>4. /\ Len(t) = Len(s) + 1 /\ t[Len(s) + 1] = r /\ \A i \in 1..Len(s) : t[i] = s[i]
          /\ job.bytes <= Len(s)
      <4>1. job.bytes <= Len(s)
        BY <3>1, <2>m, <2>n DEF WorkerInv, FileTakes, FileCells
      <4> HIDE DEF s, t
      <4> QED BY <3>3, <4>1, <1>t
    <3>5. /\ job.cursor < mem[w].cursor /\ \A p \in batch[w] : job.cursor < p
          /\ \A i \in job.bytes + 1 .. Len(s) : i <= HeaderLen \/ s[i] > job.cursor
          /\ mem[w].cursor \in batch[w] \/ \E i \in job.bytes + 1 .. Len(s) : s[i] = mem[w].cursor
      BY <3>1, <2>n DEF ChunkInv, Beyond, FileCells
    <3>6. r > job.cursor
      BY <3>2, <3>5, <2>m, <1>j, CellsAreIntegers
    <3>7. \A i \in job.bytes + 1 .. Len(t) : i <= HeaderLen \/ t[i] > job.cursor
      <4> HIDE DEF s, t
      <4> QED BY <3>4, <3>5, <3>6, <1>t, <1>j
    <3>8. mem[w].cursor \in batch[w] \ {r}
          \/ \E i \in job.bytes + 1 .. Len(t) : t[i] = mem[w].cursor
      <4>1. CASE mem[w].cursor = r
        <5>1. Len(s) + 1 \in job.bytes + 1 .. Len(t)
          BY <3>4, <1>t, <1>j
        <5> QED BY <4>1, <5>1, <3>4
      <4>2. CASE \E i \in job.bytes + 1 .. Len(s) : s[i] = mem[w].cursor
        <5>1. PICK i \in job.bytes + 1 .. Len(s) : s[i] = mem[w].cursor
          BY <4>2
        <5>2. i \in job.bytes + 1 .. Len(t) /\ t[i] = s[i]
          <6> HIDE DEF s, t
          <6>1. job.bytes \in Nat /\ Len(s) \in Nat
            BY <1>t, <1>j
          <6>2. i \in 1..Len(s) /\ i \in job.bytes + 1 .. Len(t)
            <7>1. i \in Nat /\ job.bytes + 1 <= i /\ i <= Len(s)
              BY <6>1
            <7> QED BY <3>4, <6>1, <7>1
          <6> QED BY <3>4, <6>2
        <5> QED BY <5>1, <5>2
      <4> QED BY <4>1, <4>2, <3>5
    <3>9. Beyond(w)' = job.bytes + 1 .. Len(t) /\ FileCells(w)' = t
      BY <3>1, <2>n DEF Beyond, FileCells
    <3> HIDE DEF s, t
    <3>10. \A v \in Workers : v # w => pc'[v] = "idle"
      BY <3>1, <2>o
    <3>11. job' = job /\ mem' = mem /\ pc'[w] = "write" /\ batch'[w] \subseteq batch[w]
      BY <3>1, <3>3
    <3>12. \A i \in Beyond(w)' : i <= HeaderLen \/ FileCells(w)'[i] > job'.cursor
      BY <3>7, <3>9, <3>11
    <3>13. mem'[w].cursor \in batch'[w] \/ \E i \in Beyond(w)' : FileCells(w)'[i] = mem'[w].cursor
      BY <3>3, <3>8, <3>9, <3>11
    <3> QED BY <3>5, <3>10, <3>11, <3>12, <3>13 DEF ChunkInv
  <2>9. CASE Fsync(w)
    <3>1. /\ Live(w) /\ Goto(w, "save") /\ pc'[w] = "save" /\ pc[w] = "write"
          /\ UNCHANGED <<job, batch>> /\ batch[w] = {}
      BY <2>9, <1>j DEF Fsync, Synced, Live, Goto
    <3>2. t = s /\ mem'[w].cursor = mem[w].cursor
      BY <2>9, <2>n, <1>j DEF Fsync, Synced, DurableFile, FileWith, Progress
    <3>3. FileCells(w)' = FileCells(w) /\ Beyond(w)' = Beyond(w)
      BY <3>1, <3>2, <2>n DEF FileCells, Beyond
    <3> HIDE DEF s, t
    <3> QED BY <3>1, <3>2, <3>3, <2>o DEF ChunkInv
  <2>10. CASE SaveCheckpoint(w)
    <3>1. Live(w) /\ Goto(w, "check") /\ pc'[w] = "check" /\ pc[w] = "save" /\ disk' = disk
      BY <2>10, <1>j DEF SaveCheckpoint, Live, Goto
    <3>2. job'.bytes = mem[w].bytes /\ mem[w].bytes = Len(s)
      BY <2>10, <3>1, <1>j, <2>m, <2>n DEF SaveCheckpoint, JobRows, WorkerInv, FileMatches,
         FileCells
    <3>3. \A i \in Beyond(w)' : i <= HeaderLen
      BY <3>1, <3>2, <2>n, <1>t DEF Beyond, FileCells
    <3> QED BY <3>1, <3>3, <2>o DEF ChunkInv
  <2> QED BY <1>2, <2>1, <2>2, <2>3, <2>4, <2>5, <2>6, <2>7, <2>8, <2>9, <2>10 DEF Run
<1>3. ASSUME NEW w \in Workers, Break(w) PROVE ChunkInv'
  <2>1. /\ UNCHANGED <<job, disk, mem, batch>>
        /\ \A v \in Workers : pc'[v] \in {"fail", "idle"} \/ pc'[v] = pc[v]
    BY <1>3, <1>j DEF Break, Raise, Escape, Crash, Goto
  <2> QED BY <2>1 DEF ChunkInv, Beyond, FileCells
<1>4. ASSUME UNCHANGED <<pc, mem, disk, batch>>, job'.cursor = job.cursor, job'.bytes = job.bytes
      PROVE  ChunkInv'
  BY <1>4 DEF ChunkInv, Beyond, FileCells
<1>5. CASE Redeliver \/ CancelRead \/ UNCHANGED vars
  BY <1>4, <1>5 DEF Redeliver, CancelRead, vars
<1>6. CASE OperatorReset \/ CancelWrite
  BY <1>4, <1>6, <1>j DEF OperatorReset, CancelWrite, JobRows
<1>7. ASSUME NEW p \in Pks, InsertRow(p) \/ DeleteRow(p) PROVE ChunkInv'
  BY <1>4, <1>7 DEF InsertRow, DeleteRow
<1>8. ASSUME NEW n \in Nodes, HostCrash(n) PROVE ChunkInv'
  BY <1>1, <1>8, OneNode DEF HostCrash
<1> QED BY <1>2, <1>3, <1>5, <1>6, <1>7, <1>8 DEF Next, Environment

LEMMA ChunkCorrect ==
  ASSUME DurableFile
  PROVE  Spec => []ChunkInv
<1>1. Init => ChunkInv
  BY DEF Init, ChunkInv
<1>2. TypeOK /\ TypeOK' /\ ExportInv /\ ExportInv' /\ ChunkInv /\ [Next]_vars => ChunkInv'
  BY ChunkInductive
<1> QED BY <1>1, <1>2, TypeCorrect, ExportCorrect, PTL DEF Spec

\* No step that leaves cursor_bytes alone touches the cells it confirms.
LEMMA ConfirmedCellsStay ==
  ASSUME DurableFile, TypeOK, TypeOK', ExportInv, [Next]_vars, job'.bytes = job.bytes,
         job.cursor # None
  PROVE  \A i \in 1..job.bytes : disk'[Home].cells[i] = disk[Home].cells[i]
<1> DEFINE s == disk[Home].cells
           t == disk'[Home].cells
           Stay == \A i \in 1..job.bytes : t[i] = s[i]
<1>1. s \in Seq(Cells) /\ Len(s) \in Nat /\ job.bytes \in Nat /\ disk \in [Nodes -> Files]
      /\ mem \in [Workers -> Progresses] /\ disk[Home].synced \in Nat
  BY OneNode, FileFields DEF TypeOK, JobRows
<1>2. job.bytes <= Len(s) /\ job.bytes <= disk[Home].synced /\ disk[Home].there
  BY <1>1, OneNode DEF ExportInv, CheckpointInv, Intact, HeaderLen
<1>3. ASSUME disk' = disk PROVE Stay
  BY <1>3
<1>4. ASSUME NEW w \in Workers, Run(w) PROVE Stay
  <2>1. NodeOf[w] = Home /\ Home \in Nodes /\ WorkerInv(w)
    BY OneNode DEF ExportInv
  <2>2. CASE OpenResuming(w)
    <3>1. mem[w].bytes = job.bytes
      BY <2>1, <2>2 DEF OpenResuming, WorkerInv
    <3>2. t = Truncated(s, job.bytes)
      BY <2>1, <2>2, <3>1, <1>1 DEF OpenResuming, FileWith
    <3>3. job.bytes \in 0..Len(s)
      BY <1>1, <1>2
    <3> HIDE DEF s, t
    <3> QED BY <1>1, <3>2, <3>3, TruncatedCells
  <2>3. CASE OpenFresh(w) \/ WriteHeader(w)
    BY <2>1, <2>3, <1>2 DEF OpenFresh, FreshFile, RowsOnFresh, WriteHeader, CanResume, WorkerInv, DurableFile
  <2>4. CASE WriteRow(w)
    <3>1. PICK r \in batch[w] :
            disk' = [disk EXCEPT ![Home] = FileWith(Append(@.cells, r), @.synced)]
      BY <2>1, <2>4 DEF WriteRow, DurableFile
    <3>2. t = Append(s, r)
      BY <2>1, <3>1, <1>1 DEF FileWith
    <3>3. r \in Cells
      BY CellsAreIntegers DEF TypeOK
    <3> HIDE DEF s, t
    <3> QED BY <1>1, <1>2, <3>2, <3>3
  <2>5. CASE Fsync(w)
    BY <2>1, <2>5, <1>1 DEF Fsync, Synced, FileWith
  <2> QED BY <1>3, <1>4, <2>2, <2>3, <2>4, <2>5
          DEF Run, Claim, Skip, Load, CheckStatus, FetchBatch, NoMoreRows, SaveCheckpoint,
              Finish, DeleteStale, Upload, Complete, RecordFailure, DurableFile
<1>5. ASSUME NEW n \in Nodes, HostCrash(n) PROVE Stay
  <2>1. PICK k \in disk[Home].synced .. Len(s) :
          disk' = [disk EXCEPT ![Home] = FileWith(SubSeq(@.cells, 1, k), @.synced)]
    BY <1>5, OneNode DEF HostCrash, DurableFile
  <2>2. t = SubSeq(s, 1, k)
    BY <2>1, <1>1, OneNode DEF FileWith
  <2> HIDE DEF s, t
  <2> QED BY <1>1, <1>2, <2>1, <2>2
<1>6. ASSUME NEW w \in Workers, Break(w) PROVE Stay
  BY <1>3, <1>6 DEF Break, Raise, Escape, Crash
<1>8. CASE Redeliver \/ OperatorReset \/ CancelRead \/ CancelWrite \/ UNCHANGED vars
  BY <1>3, <1>8 DEF Redeliver, OperatorReset, CancelRead, CancelWrite, vars
<1>9. ASSUME NEW p \in Pks, InsertRow(p) \/ DeleteRow(p) PROVE Stay
  BY <1>3, <1>9 DEF InsertRow, DeleteRow
<1> QED BY <1>4, <1>5, <1>6, <1>8, <1>9 DEF Next, Environment

Phase == IF job.status \in {"completed", "cancelled"} THEN job.status ELSE "open"

\* A saved chunk extends the promise by the rows between the two checkpoints.
LEMMA SaveExtends ==
  ASSUME DurableFile, TypeOK, TypeOK', ExportInv, ChunkInv, NEW w \in Workers, SaveCheckpoint(w)
  PROVE  Promise!Extend
<1> DEFINE s == disk[Home].cells
           m == job.bytes
           c == mem[w].cursor
           S == {s[i] : i \in {i \in m + 1 .. Len(s) : i > HeaderLen}}
<1>1. /\ pc[w] = "save" /\ Live(w) /\ disk' = disk
      /\ job \in JobRows /\ job'.status = job.status
      /\ job'.cursor = c /\ job'.bytes = mem[w].bytes
  BY DEF SaveCheckpoint, TypeOK, JobRows, Live
<1>2. NodeOf[w] = Home /\ WorkerInv(w) /\ FlightInv /\ CheckpointInv
  BY OneNode DEF ExportInv
<1>3. FileMatches(w) /\ c # None
  BY <1>1, <1>2 DEF WorkerInv
<1>4. /\ Intact(s, Len(s), c) /\ mem[w].bytes = Len(s) /\ m <= Len(s)
  BY <1>2, <1>3 DEF FileMatches, FileCells
<1>5. /\ s \in Seq(Cells) /\ Len(s) \in Nat /\ m \in Nat /\ HeaderLen \in Nat
      /\ mem[w] \in Progresses /\ c \in Cursors /\ job.cursor \in Cursors
  BY <1>1, OneNode, FileFields, ProgressFields DEF TypeOK, JobRows, HeaderLen
<1>6. /\ job.cursor < c
      /\ \A i \in m + 1 .. Len(s) : i <= HeaderLen \/ s[i] > job.cursor
      /\ \E i \in m + 1 .. Len(s) : s[i] = c
  BY <1>1, <1>2 DEF ChunkInv, Beyond, FileCells
<1>7. \A i \in 1..Len(s) : /\ s[i] \in Cells \ {Nul} /\ s[i] <= c
                          /\ (s[i] = Header <=> i <= HeaderLen)
  BY <1>4, <1>5 DEF Intact
<1>8. \A i \in 1..m : s[i] <= job.cursor
  <2>1. CASE job.cursor = None
    BY <2>1, <1>2, <1>5 DEF CheckpointInv
  <2>2. CASE job.cursor # None
    BY <2>2, <1>2, OneNode DEF CheckpointInv, Intact
  <2> QED BY <2>1, <2>2
<1>9. S \subseteq {p \in Pks : job.cursor < p /\ p <= c}
  <2> SUFFICES ASSUME NEW i \in m + 1 .. Len(s), i > HeaderLen
               PROVE  s[i] \in Pks /\ job.cursor < s[i] /\ s[i] <= c
    OBVIOUS
  <2>1. i \in 1..Len(s) /\ ~(i <= HeaderLen)
    BY <1>5
  <2>2. s[i] \in Cells \ {Nul} /\ s[i] # Header /\ s[i] <= c /\ s[i] > job.cursor
    BY <1>6, <1>7, <2>1
  <2>3. s[i] \in Int /\ job.cursor \in Int
    BY <1>5, <2>2, CellsAreIntegers
  <2> HIDE DEF s, m
  <2> QED BY <2>2, <2>3 DEF Cells
<1>10. \A p \in Pks : p > job.cursor /\ (\E i \in 1..Len(s) : s[i] = p) => p \in S
  <2> SUFFICES ASSUME NEW p \in Pks, p > job.cursor, NEW i \in 1..Len(s), s[i] = p
               PROVE  i \in m + 1 .. Len(s) /\ i > HeaderLen
    OBVIOUS
  <2>1. ~(i \in 1..m)
    <3>1. p \in Int /\ job.cursor \in Int
      BY <1>5, CellsAreIntegers
    <3>2. ~(p <= job.cursor)
      BY <3>1
    <3> HIDE DEF s, m
    <3> QED BY <1>8, <3>2
  <2>2. ~(i <= HeaderLen)
    BY <1>7, CellsAreIntegers
  <2> HIDE DEF s, m
  <2> QED BY <2>1, <2>2, <1>5
<1>11. c \in Pks /\ c > job.cursor /\ c \in S
  <2>1. c \in Pks /\ c > job.cursor
    BY <1>3, <1>5, <1>6, CellsAreIntegers DEF Cursors
  <2>2. \E i \in 1..Len(s) : s[i] = c
    BY <1>5, <1>6
  <2> QED BY <2>1, <2>2, <1>10
<1>12. \A p \in Fixed : job.cursor < p /\ p <= c => p \in S
  <2> SUFFICES ASSUME NEW p \in Fixed, job.cursor < p, p <= c PROVE p \in S
    OBVIOUS
  <2>1. \E i \in 1..Len(s) : s[i] = p
    BY <1>4 DEF Intact
  <2>2. p \in Pks /\ p > job.cursor
    BY <1>5, CellsAreIntegers
  <2> QED BY <2>1, <2>2, <1>10
<1>13. CheckpointedRows' = CheckpointedRows \cup S
  <2>1. CheckpointedRows' = {s[i] : i \in HeaderLen + 1 .. Len(s)}
    BY <1>1, <1>4 DEF CheckpointedRows, Home
  <2>2. CheckpointedRows = {s[i] : i \in HeaderLen + 1 .. m}
    BY DEF CheckpointedRows
  <2>3. \A i : i \in HeaderLen + 1 .. Len(s) <=>
               i \in HeaderLen + 1 .. m \/ (i \in m + 1 .. Len(s) /\ i > HeaderLen)
    <3> HIDE DEF s, m
    <3> QED BY <1>4, <1>5
  <2> HIDE DEF s, m
  <2> QED BY <2>1, <2>2, <2>3
<1>14. job.status # "completed" /\ job.status \in {"processing", "cancelled"}
  BY <1>1, <1>2 DEF FlightInv
<1> HIDE DEF S
<1> QED BY <1>1, <1>9, <1>11, <1>12, <1>13, <1>14 DEF Promise!Extend

\* Every step of the export is a step of the promise or changes nothing of it.
LEMMA PromiseStep ==
  ASSUME DurableFile, TypeOK, TypeOK', ExportInv, ChunkInv, [Next]_vars
  PROVE  [Promise!Next]_(Promise!pvars)
<1> DEFINE Rest == job'.cursor = job.cursor /\ CheckpointedRows' = CheckpointedRows
<1>j. job \in JobRows /\ job.bytes \in Nat /\ HeaderLen \in Nat
  BY DEF TypeOK, JobRows, HeaderLen
<1>1. ASSUME job'.bytes = job.bytes PROVE CheckpointedRows' = CheckpointedRows
  <2>1. \A i \in HeaderLen + 1 .. job.bytes : disk'[Home].cells[i] = disk[Home].cells[i]
    <3> SUFFICES ASSUME NEW i \in HeaderLen + 1 .. job.bytes
                 PROVE  disk'[Home].cells[i] = disk[Home].cells[i]
      OBVIOUS
    <3>1. i \in 1..job.bytes /\ job.bytes # 0
      BY <1>j
    <3>2. job.cursor # None
      BY <3>1 DEF ExportInv, CheckpointInv
    <3> QED BY <1>1, <3>1, <3>2, ConfirmedCellsStay
  <2> QED BY <1>1, <2>1 DEF CheckpointedRows, Home
<1>2. ASSUME job'.cursor = job.cursor, job'.bytes = job.bytes, Phase' = Phase
      PROVE  UNCHANGED Promise!pvars
  BY <1>1, <1>2 DEF Phase, Promise!pvars
<1>3. ASSUME job' = job PROVE UNCHANGED Promise!pvars
  BY <1>2, <1>3 DEF Phase
<1>4. ASSUME NEW w \in Workers, Run(w) PROVE [Promise!Next]_(Promise!pvars)
  <2>1. CASE SaveCheckpoint(w)
    BY <2>1, SaveExtends DEF Promise!Next
  <2>2. CASE Claim(w)
    <3>1. /\ job'.cursor = job.cursor /\ job'.bytes = job.bytes
          /\ job'.status = "processing" /\ job.status \in Claimable
      BY <2>2, <1>j DEF Claim, JobRows
    <3> QED BY <3>1, <1>2 DEF Phase, Claimable
  <2>3. CASE Complete(w)
    <3>1. /\ job'.cursor = job.cursor /\ job'.bytes = job.bytes
          /\ job'.status = "completed" /\ pc[w] = "complete"
      BY <2>3, <1>j DEF Complete, JobRows
    <3>2. WorkerInv(w)
      BY DEF ExportInv
    <3>3. \A p \in Fixed : p <= job.cursor
      BY <3>1, <3>2 DEF WorkerInv, Exhausted
    <3> QED BY <3>1, <3>3, <1>1 DEF Promise!Next, Promise!Complete
  <2>4. CASE RecordFailure(w)
    <3>1. /\ job'.cursor = job.cursor /\ job'.bytes = job.bytes
          /\ job'.status = "failed" /\ Live(w)
      BY <2>4, <1>j DEF RecordFailure, JobRows, Live
    <3>2. job.status \in {"processing", "cancelled"}
      BY <3>1 DEF ExportInv, FlightInv
    <3>3. CASE job.status = "processing"
      BY <3>1, <3>3, <1>2 DEF Phase
    <3>4. CASE job.status = "cancelled"
      BY <3>1, <3>4, <1>1 DEF Promise!Next, Promise!Reopen
    <3> QED BY <3>2, <3>3, <3>4
  <2>5. CASE ~(SaveCheckpoint(w) \/ Claim(w) \/ Complete(w) \/ RecordFailure(w))
    <3>1. job' = job
      BY <1>4, <2>5 DEF Run, Skip, Load, OpenResuming, OpenFresh, WriteHeader, CheckStatus,
         FetchBatch, NoMoreRows, WriteRow, Fsync, Finish, DeleteStale, Upload
    <3> QED BY <3>1, <1>3
  <2> QED BY <2>1, <2>2, <2>3, <2>4, <2>5
<1>5. ASSUME NEW w \in Workers, Break(w) PROVE [Promise!Next]_(Promise!pvars)
  BY <1>3, <1>5 DEF Break, Raise, Escape, Crash
<1>6. CASE OperatorReset
  <2>1. /\ job'.cursor = job.cursor /\ job'.bytes = job.bytes
        /\ job'.status = "pending" /\ job.status \in {"processing", "pending"}
    BY <1>6, <1>j DEF OperatorReset, JobRows
  <2> QED BY <2>1, <1>2 DEF Phase
<1>7. CASE CancelWrite
  <2>1. job'.cursor = job.cursor /\ job'.bytes = job.bytes /\ job'.status = "cancelled"
    BY <1>7, <1>j DEF CancelWrite, JobRows
  <2> QED BY <2>1, <1>1 DEF Promise!Next, Promise!Cancel
<1>8. CASE Redeliver \/ CancelRead \/ UNCHANGED vars
  BY <1>3, <1>8 DEF Redeliver, CancelRead, vars
<1>9. ASSUME NEW p \in Pks, InsertRow(p) \/ DeleteRow(p)
      PROVE  [Promise!Next]_(Promise!pvars)
  BY <1>3, <1>9 DEF InsertRow, DeleteRow
<1>10. ASSUME NEW n \in Nodes, HostCrash(n)
       PROVE  [Promise!Next]_(Promise!pvars)
  BY <1>3, <1>10 DEF HostCrash
<1> QED BY <1>4, <1>5, <1>6, <1>7, <1>8, <1>9, <1>10 DEF Next, Environment

\* A line-based export whose working file survives implements ExportPromise for
\* any number of workers, rows, chunk size, crashes and redeliveries.
THEOREM ExportImplementsPromise ==
  ASSUME DurableFile
  PROVE  Spec => ImplementsPromise
<1>1. Init => Promise!Init
  <2> SUFFICES ASSUME Init PROVE Promise!Init
    OBVIOUS
  <2>1. job.status = "pending" /\ job.cursor = 0 /\ job.bytes = 0
    BY DEF Init, None
  <2>2. CheckpointedRows = {}
    BY <2>1 DEF CheckpointedRows, HeaderLen
  <2> QED BY <2>1, <2>2 DEF Promise!Init
<1>2. TypeOK /\ TypeOK' /\ ExportInv /\ ChunkInv /\ [Next]_vars =>
        [Promise!Next]_(Promise!pvars)
  BY PromiseStep
<1> QED BY <1>1, <1>2, TypeCorrect, ExportCorrect, ChunkCorrect, PTL
        DEF Spec, ImplementsPromise, Promise!Spec

\* So no undisturbed row is missing from the durable rows of a completed export.
THEOREM NothingMissing ==
  ASSUME DurableFile
  PROVE  Spec => []Promise!NothingMissing
<1>1. Promise!Spec => []Promise!NothingMissing
  BY ExportAssumption, Promise!NothingMissingHolds
<1> QED BY <1>1, ExportImplementsPromise, PTL DEF ImplementsPromise

-----------------------------------------------------------------------------
\* While a job is completed no worker is left to touch its file, and a power
\* loss takes none of it.
LEMMA DeliveredStep ==
  ASSUME DurableFile, TypeOK, ExportInv, [Next]_vars, job.status = "completed"
  PROVE  Delivered' = Delivered
<1>1. \A w \in Workers : ~Live(w)
  BY DEF ExportInv, FlightInv
<1>2. ASSUME UNCHANGED <<disk, published>> PROVE Delivered' = Delivered
  BY <1>2 DEF Delivered, Home
<1>3. ASSUME NEW w \in Workers, Run(w) \/ Break(w) PROVE Delivered' = Delivered
  <2>1. pc[w] = "idle"
    BY <1>1 DEF Live
  <2>2. Claim(w) \/ Skip(w)
    BY <2>1, <1>3 DEF Run, Break, Load, OpenResuming, OpenFresh, WriteHeader, CheckStatus,
       FetchBatch, NoMoreRows, WriteRow, Fsync, SaveCheckpoint, Finish, DeleteStale, Upload,
       Complete, RecordFailure, Raise, Escape, Crash, Inside, Live
  <2> QED BY <2>2, <1>2 DEF Claim, Skip
<1>4. CASE Redeliver \/ OperatorReset \/ CancelRead \/ CancelWrite \/ UNCHANGED vars
  BY <1>2, <1>4 DEF Redeliver, OperatorReset, CancelRead, CancelWrite, vars
<1>5. ASSUME NEW p \in Pks, InsertRow(p) \/ DeleteRow(p) PROVE Delivered' = Delivered
  BY <1>2, <1>5 DEF InsertRow, DeleteRow
<1>6. ASSUME NEW n \in Nodes, HostCrash(n) PROVE Delivered' = Delivered
  <2> DEFINE s == disk[Home].cells
  <2>1. n = Home /\ Home \in Nodes /\ disk[Home].there /\ published' = published
    BY <1>6, OneNode DEF HostCrash
  <2>2. s \in Seq(Cells) /\ disk \in [Nodes -> Files] /\ disk[Home].synced \in Nat
        /\ Len(s) \in Nat
    BY OneNode, FileFields DEF TypeOK
  <2>3. CASE Remote
    BY <2>1, <2>3 DEF Delivered
  <2>4. CASE ~Remote
    <3>1. PICK k \in disk[Home].synced .. Len(s) :
            disk' = [disk EXCEPT ![Home] = FileWith(SubSeq(@.cells, 1, k), @.synced)]
      BY <1>6, <2>1 DEF HostCrash, DurableFile
    <3>2. k = Len(s) /\ disk[Home].synced = Len(s)
      BY <3>1, <2>2, <2>4 DEF ExportInv, CompletedInv, Delivered
    <3>3. SubSeq(s, 1, Len(s)) = s
      BY <2>2
    <3>4. disk'[Home] = disk[Home]
      BY <2>1, <2>2, <3>1, <3>2, <3>3 DEF FileWith, Files
    <3> QED BY <2>4, <3>4 DEF Delivered, Home
  <2> QED BY <2>3, <2>4
<1> QED BY <1>3, <1>4, <1>5, <1>6 DEF Next, Environment

\* Once the API offers the file for download nothing rewrites or truncates it.
THEOREM DeliveredStaysHolds ==
  ASSUME DurableFile
  PROVE  Spec => DeliveredStays
<1>1. TypeOK /\ ExportInv /\ [Next]_vars => [job.status = "completed" => Delivered' = Delivered]_vars
  BY DeliveredStep
<1> QED BY <1>1, TypeCorrect, ExportCorrect, PTL DEF Spec, DeliveredStays
-----------------------------------------------------------------------------
(* Workbooks. A workbook is spooled by its worker and moved into place when  *)
(* it is finished, on any of many hosts. Finish fsyncs nothing, so a volume  *)
(* that outlives a loss of power is left out: it could keep half of one.     *)

Workbook == ~Resumable /\ ~(VolumesSurvive /\ PowerLoss)

\* What each place in run_export_job knows of the spooled sheet.
SheetInv(w) ==
  /\ pc[w] = "header" => mem[w].cursor = None
  /\ pc[w] \in {"check", "fetch", "save", "finish"} =>
       Intact(sheet[w], Len(sheet[w]), mem[w].cursor)
  /\ pc[w] = "write" => Takes(sheet[w], mem[w].cursor, batch[w])
  /\ pc[w] = "finish" => Exhausted(w)

BookInv == WorkbookWhole /\ \A w \in Workers : SheetInv(w)

LEMMA BookFrame ==
  ASSUME TypeOK, BookInv, UNCHANGED disk, NEW w \in Workers,
         \A v \in Workers \ {w} : UNCHANGED <<pc[v], mem[v], sheet[v], batch[v]>>, SheetInv(w)'
  PROVE  BookInv'
<1>1. \A v \in Workers \ {w} : SheetInv(v)'
  BY DEF BookInv, SheetInv, Exhausted
<1>2. WorkbookWhole'
  BY DEF BookInv, WorkbookWhole
<1> QED BY <1>1, <1>2 DEF BookInv

LEMMA BookInductive ==
  ASSUME Workbook, TypeOK, BookInv, [Next]_vars
  PROVE  BookInv'
<1>j. /\ pc \in [Workers -> Steps] /\ mem \in [Workers -> Progresses]
      /\ disk \in [Nodes -> Files] /\ batch \in [Workers -> SUBSET Pks]
      /\ sheet \in [Workers -> Seq(Cells)]
  BY DEF TypeOK
<1>0. ASSUME UNCHANGED <<disk, mem, batch, sheet>>, \A w \in Workers : pc'[w] \in {pc[w], "idle", "fail", "load"}
      PROVE  BookInv'
  <2>1. \A w \in Workers : SheetInv(w)'
    BY <1>0 DEF BookInv, SheetInv, Exhausted
  <2> QED BY <1>0, <2>1 DEF BookInv, WorkbookWhole
<1>1. ASSUME NEW w \in Workers, Run(w) PROVE BookInv'
  <2>m. /\ mem[w].cursor \in Cursors /\ batch[w] \in SUBSET Pks /\ sheet[w] \in Seq(Cells)
        /\ NodeOf[w] \in Nodes
    BY <1>j, ProgressFields DEF Nodes
  <2>i. SheetInv(w) /\ ~Resumable
    BY DEF BookInv, Workbook
  <2>1. CASE Claim(w) \/ Skip(w) \/ RecordFailure(w)
    BY <2>1, <1>0, <1>j DEF Claim, Skip, RecordFailure, Goto
  <2>2. CASE Load(w)
    <3>1. SheetInv(w)'
      BY <2>2, <1>j DEF Load, Goto, SheetInv
    <3> QED BY <2>2, <3>1, <1>j, BookFrame DEF Load, Goto
  <2>3. CASE OpenResuming(w)
    BY <2>3, <2>i DEF OpenResuming, CanResume
  <2>4. CASE OpenFresh(w)
    <3>1. SheetInv(w)'
      BY <2>4, <1>j DEF OpenFresh, Goto, SheetInv, Progress
    <3>2. \A v \in Workers \ {w} : SheetInv(v)'
      BY <2>4, <1>j DEF OpenFresh, Goto, BookInv, SheetInv, Exhausted
    <3>3. disk' = [disk EXCEPT ![NodeOf[w]] = NoFile]
      BY <2>4, <2>i DEF OpenFresh, FreshFile
    <3>4. WorkbookWhole'
      BY <3>3, <1>j, <2>m DEF BookInv, WorkbookWhole, NoFile
    <3> QED BY <3>1, <3>2, <3>4 DEF BookInv
  <2>5. CASE WriteHeader(w)
    <3>1. /\ sheet'[w] = HeaderCells /\ pc'[w] = "check" /\ UNCHANGED <<disk, mem>>
          /\ mem[w].cursor = None
      BY <2>5, <2>i, <1>j DEF WriteHeader, Goto, SheetInv
    <3>2. Intact(sheet'[w], Len(sheet'[w]), mem'[w].cursor)
      BY <3>1, HeaderType, IntactHeader
    <3>3. SheetInv(w)'
      BY <3>1, <3>2 DEF SheetInv
    <3> QED BY <2>5, <3>1, <3>3, <1>j, BookFrame DEF WriteHeader, Goto
  <2>6. CASE CheckStatus(w)
    <3>1. SheetInv(w)'
      BY <2>6, <2>i, <1>j DEF CheckStatus, Goto, SheetInv
    <3> QED BY <2>6, <3>1, <1>j, BookFrame DEF CheckStatus, Goto
  <2>7. CASE FetchBatch(w)
    <3> DEFINE b == NextBatch(mem[w].cursor)
    <3>1. PICK last \in b :
            /\ \A p \in b : p <= last
            /\ batch' = [batch EXCEPT ![w] = b]
            /\ mem' = [mem EXCEPT ![w] = Progress(last, @.bytes, @.rows + Cardinality(b))]
      BY <2>7 DEF FetchBatch
    <3>2. /\ pc[w] = "fetch" /\ pc'[w] = "write" /\ UNCHANGED <<sheet, disk>>
          /\ \A v \in Workers \ {w} : UNCHANGED <<pc[v], mem[v], sheet[v], batch[v]>>
      BY <2>7, <3>1, <1>j DEF FetchBatch, Goto
    <3>3. table \in SUBSET Pks /\ Fixed \subseteq table
      BY DEF TypeOK
    <3>4. Intact(sheet[w], Len(sheet[w]), mem[w].cursor)
      BY <3>2, <2>i DEF SheetInv
    <3>5. Takes(sheet[w], last, b)
      BY <3>1, <3>3, <3>4, <2>m, TakesBatch
    <3> HIDE DEF b
    <3>6. batch'[w] = b /\ mem'[w].cursor = last /\ sheet'[w] = sheet[w]
      BY <3>1, <3>2, <1>j DEF Progress
    <3>7. SheetInv(w)'
      BY <3>2, <3>5, <3>6 DEF SheetInv
    <3> QED BY <3>2, <3>7, BookFrame
  <2>8. CASE NoMoreRows(w)
    <3>1. \A p \in Fixed : p \in table /\ p \in Int /\ ~(p > mem[w].cursor)
      BY <2>8, CellsAreIntegers DEF NoMoreRows, After, TypeOK
    <3>2. \A p \in Fixed : p <= mem[w].cursor
      <4>1. mem[w].cursor \in Int
        BY <2>m, CellsAreIntegers
      <4> QED BY <3>1, <4>1
    <3>3. SheetInv(w)'
      BY <2>8, <3>2, <2>i, <1>j DEF NoMoreRows, Goto, SheetInv, Exhausted
    <3> QED BY <2>8, <3>3, <1>j, BookFrame DEF NoMoreRows, Goto
  <2>9. CASE WriteRow(w)
    <3>1. PICK r \in batch[w] :
            /\ \A p \in batch[w] : r <= p
            /\ batch' = [batch EXCEPT ![w] = @ \ {r}]
            /\ sheet' = [sheet EXCEPT ![w] = Append(@, r)]
      BY <2>9, <2>i DEF WriteRow
    <3>2. pc[w] = "write" /\ UNCHANGED <<pc, mem, disk>>
      BY <2>9, <2>i DEF WriteRow
    <3>3. Takes(Append(sheet[w], r), mem[w].cursor, batch[w] \ {r})
      BY <3>1, <3>2, <2>i, <2>m, TakesRow DEF SheetInv
    <3>4. sheet'[w] = Append(sheet[w], r) /\ batch'[w] = batch[w] \ {r}
      BY <3>1, <1>j
    <3>5. SheetInv(w)'
      BY <3>2, <3>3, <3>4 DEF SheetInv
    <3> QED BY <3>1, <3>2, <3>5, <1>j, BookFrame
  <2>10. CASE Fsync(w)
    <3>1. /\ pc[w] = "write" /\ batch[w] = {} /\ pc'[w] = "save"
          /\ UNCHANGED <<disk, mem, batch, sheet>>
      BY <2>10, <2>i, <1>j DEF Fsync, Goto
    <3>2. Intact(sheet[w], Len(sheet[w]), mem[w].cursor)
      BY <3>1, <2>i, <2>m, TakesDone DEF SheetInv
    <3>3. SheetInv(w)'
      BY <3>1, <3>2 DEF SheetInv
    <3> QED BY <2>10, <3>1, <3>3, <1>j, BookFrame DEF Fsync, Goto
  <2>11. CASE SaveCheckpoint(w)
    <3>1. SheetInv(w)'
      BY <2>11, <2>i, <1>j DEF SaveCheckpoint, Goto, SheetInv
    <3> QED BY <2>11, <3>1, <1>j, BookFrame DEF SaveCheckpoint, Goto
  <2>12. CASE Finish(w)
    <3>1. disk' = [disk EXCEPT ![NodeOf[w]] = FileWith(sheet[w], 0)]
      BY <2>12, <2>i DEF Finish
    <3>2. Intact(sheet[w], Len(sheet[w]), mem[w].cursor) /\ Exhausted(w)
      BY <2>12, <2>i DEF Finish, SheetInv
    <3>3. Whole(sheet[w])
      BY <3>2, <2>m DEF Whole, Exhausted, Cursors
    <3>4. WorkbookWhole'
      BY <3>1, <3>3, <1>j, <2>m DEF BookInv, WorkbookWhole, FileWith
    <3>5. \A v \in Workers : SheetInv(v)'
      BY <2>12, <1>j DEF Finish, Goto, BookInv, SheetInv, Exhausted
    <3> QED BY <3>4, <3>5 DEF BookInv
  <2>13. CASE DeleteStale(w) \/ Upload(w) \/ Complete(w)
    <3>1. SheetInv(w)'
      BY <2>13, <1>j DEF DeleteStale, Upload, Complete, Goto, SheetInv
    <3> QED BY <2>13, <3>1, <1>j, BookFrame DEF DeleteStale, Upload, Complete, Goto
  <2> QED BY <1>1, <2>1, <2>2, <2>3, <2>4, <2>5, <2>6, <2>7, <2>8, <2>9, <2>10, <2>11,
             <2>12, <2>13 DEF Run
<1>2. ASSUME NEW w \in Workers, Break(w) PROVE BookInv'
  BY <1>2, <1>0, <1>j DEF Break, Raise, Escape, Crash, Goto
<1>3. CASE Redeliver \/ OperatorReset \/ CancelRead \/ CancelWrite \/ UNCHANGED vars
  BY <1>3, <1>0 DEF Redeliver, OperatorReset, CancelRead, CancelWrite, vars
<1>4. ASSUME NEW p \in Pks, InsertRow(p) \/ DeleteRow(p) PROVE BookInv'
  BY <1>4, <1>0 DEF InsertRow, DeleteRow
<1>5. ASSUME NEW n \in Nodes, HostCrash(n) PROVE BookInv'
  <2>1. disk' = [disk EXCEPT ![n] = NoFile] /\ UNCHANGED <<mem, batch, sheet>>
    BY <1>5 DEF HostCrash, Workbook
  <2>2. \A w \in Workers : pc'[w] \in {pc[w], "idle"}
    BY <1>5 DEF HostCrash
  <2>3. WorkbookWhole'
    BY <2>1, <1>j DEF BookInv, WorkbookWhole, NoFile
  <2>4. \A w \in Workers : SheetInv(w)'
    BY <2>1, <2>2 DEF BookInv, SheetInv, Exhausted
  <2> QED BY <2>3, <2>4 DEF BookInv
<1> QED BY <1>1, <1>2, <1>3, <1>4, <1>5 DEF Next, Environment

LEMMA BookCorrect ==
  ASSUME Workbook
  PROVE  Spec => []BookInv
<1>1. Init => BookInv
  BY DEF Init, BookInv, SheetInv, WorkbookWhole, NoFile
<1>2. TypeOK /\ BookInv /\ [Next]_vars => BookInv'
  BY BookInductive
<1> QED BY <1>1, <1>2, TypeCorrect, PTL DEF Spec

\* On every host an XLSX path holds a complete workbook or nothing, whatever
\* attempts failed, crashed or were cancelled before.
THEOREM WorkbookWholeHolds ==
  ASSUME Workbook
  PROVE  Spec => []WorkbookWhole
<1>1. BookInv => WorkbookWhole
  BY DEF BookInv
<1> QED BY <1>1, BookCorrect, PTL

-----------------------------------------------------------------------------
(* Completed workbooks. A remote storage, or a volume that survives, keeps   *)
(* what was delivered.                                                       *)

\* A worker past Finish has its workbook beside it, then in the storage.
HandOver(w) ==
  /\ pc[w] \in {"publish", "upload", "complete"} => disk[NodeOf[w]].there
  /\ pc[w] \in {"publish", "upload"} => Remote
  /\ pc[w] = "complete" /\ Remote => published.there /\ Whole(published.cells)

HandInv ==
  /\ \A w \in Workers : HandOver(w)
  /\ job.status = "completed" => Delivered.there /\ Whole(Delivered.cells)

\* With the claim, whatever one worker does leaves the others idle.
LEMMA HandInductive ==
  ASSUME Workbook, Remote \/ VolumesSurvive, TypeOK, FlightInv, FlightInv', BookInv, HandInv,
         [Next]_vars
  PROVE  HandInv'
<1>j. /\ pc \in [Workers -> Steps] /\ disk \in [Nodes -> Files] /\ job \in JobRows
      /\ \A w \in Workers : NodeOf[w] \in Nodes
  BY DEF TypeOK, Nodes
<1>h. \A n \in Nodes : disk[n].there => Whole(disk[n].cells)
  BY DEF BookInv, WorkbookWhole, Workbook
<1>k. ~Remote => \A w \in Workers : NodeOf[w] = Home
  <2>1. (CHOOSE w \in Workers : TRUE) \in Workers
    BY ExportAssumption
  <2> QED BY <2>1, ExportAssumption DEF Home
<1>0. ASSUME UNCHANGED <<disk, published>>, job'.status = job.status \/ job'.status # "completed",
             \A w \in Workers : pc'[w] = pc[w] \/ pc'[w] \notin {"publish", "upload", "complete"}
      PROVE  HandInv'
  <2>1. \A w \in Workers : HandOver(w)'
    BY <1>0 DEF HandInv, HandOver
  <2>2. Delivered' = Delivered
    BY <1>0 DEF Delivered, Home
  <2> QED BY <1>0, <2>1, <2>2 DEF HandInv
<1>1. ASSUME NEW w \in Workers, Run(w) PROVE HandInv'
  <2>a. ASSUME Live(w), Live(w)', HandOver(w)' PROVE HandInv'
    <3>1. \A v \in Workers : v # w => ~Live(v)'
      BY <2>a DEF FlightInv, SingleFlight
    <3>2. \A v \in Workers : HandOver(v)'
      BY <2>a, <3>1 DEF HandOver, Live
    <3>3. job'.status # "completed"
      BY <2>a DEF FlightInv
    <3> QED BY <3>2, <3>3 DEF HandInv
  <2>i. HandOver(w)
    BY DEF HandInv
  <2>1. CASE Claim(w)
    BY <2>1, <1>0, <1>j DEF Claim, Goto, JobRows
  <2>2. CASE Skip(w) \/ CheckStatus(w) \/ FetchBatch(w) \/ NoMoreRows(w) \/ Load(w)
    BY <2>2, <1>0, <1>j DEF Skip, CheckStatus, FetchBatch, NoMoreRows, Load, Goto
  <2>3. CASE SaveCheckpoint(w) \/ RecordFailure(w)
    BY <2>3, <1>0, <1>j DEF SaveCheckpoint, RecordFailure, Goto, JobRows
  <2>4. CASE OpenResuming(w) \/ OpenFresh(w) \/ WriteHeader(w) \/ WriteRow(w) \/ Fsync(w)
    BY <2>4, <2>a, <1>j
       DEF OpenResuming, OpenFresh, WriteHeader, WriteRow, Fsync, Goto, Live, HandOver
  <2>5. CASE Finish(w)
    <3>1. /\ Live(w) /\ pc'[w] = (IF Remote THEN "publish" ELSE "complete")
          /\ disk' = [disk EXCEPT ![NodeOf[w]] = FileWith(sheet[w], 0)]
      BY <2>5, <1>j DEF Finish, Goto, Live, Workbook
    <3>2. disk'[NodeOf[w]].there
      BY <3>1, <1>j DEF FileWith
    <3> QED BY <3>1, <3>2, <2>a DEF HandOver, Live
  <2>6. CASE DeleteStale(w)
    <3>1. Live(w) /\ pc[w] = "publish" /\ pc'[w] = "upload" /\ UNCHANGED disk
      BY <2>6, <1>j DEF DeleteStale, Goto, Live
    <3> QED BY <3>1, <2>a, <2>i DEF HandOver, Live
  <2>7. CASE Upload(w)
    <3>1. /\ Live(w) /\ pc[w] = "upload" /\ pc'[w] = "complete" /\ UNCHANGED disk
          /\ published'.there /\ published'.cells = disk[NodeOf[w]].cells
      BY <2>7, <1>j DEF Upload, Goto, Live, FileWith
    <3>2. Whole(published'.cells)
      BY <3>1, <2>i, <1>h, <1>j DEF HandOver
    <3> QED BY <3>1, <3>2, <2>a, <2>i DEF HandOver, Live
  <2>8. CASE Complete(w)
    <3>1. pc[w] = "complete" /\ pc'[w] = "idle" /\ UNCHANGED <<disk, published>>
      BY <2>8, <1>j DEF Complete, Goto
    <3>2. \A v \in Workers : HandOver(v)'
      BY <2>8, <3>1, <1>j DEF Complete, Goto, HandInv, HandOver
    <3>3. CASE Remote
      BY <3>1, <3>2, <3>3, <2>i DEF HandInv, HandOver, Delivered
    <3>4. CASE ~Remote
      <4>1. Delivered' = disk[NodeOf[w]]
        BY <3>1, <3>4, <1>k DEF Delivered, Home
      <4> QED BY <4>1, <3>1, <3>2, <2>i, <1>h, <1>j DEF HandInv, HandOver
    <3> QED BY <3>3, <3>4
  <2> QED BY <1>1, <2>1, <2>2, <2>3, <2>4, <2>5, <2>6, <2>7, <2>8 DEF Run
<1>2. ASSUME NEW w \in Workers, Break(w) PROVE HandInv'
  BY <1>2, <1>0, <1>j DEF Break, Raise, Escape, Crash, Goto
<1>3. CASE Redeliver \/ OperatorReset \/ CancelRead \/ CancelWrite \/ UNCHANGED vars
  BY <1>3, <1>0, <1>j DEF Redeliver, OperatorReset, CancelRead, CancelWrite, vars, JobRows
<1>4. ASSUME NEW p \in Pks, InsertRow(p) \/ DeleteRow(p) PROVE HandInv'
  BY <1>4, <1>0 DEF InsertRow, DeleteRow
<1>5. ASSUME NEW n \in Nodes, HostCrash(n) PROVE HandInv'
  <2>1. /\ disk' = [disk EXCEPT ![n] = NoFile] /\ UNCHANGED <<job, published>> /\ Remote
        /\ pc' = [w \in Workers |-> IF NodeOf[w] = n THEN "idle" ELSE pc[w]]
    BY <1>5 DEF HostCrash, Workbook
  <2>2. \A w \in Workers : HandOver(w)'
    BY <2>1, <1>j DEF HandInv, HandOver
  <2>3. Delivered' = Delivered
    BY <2>1 DEF Delivered
  <2> QED BY <2>1, <2>2, <2>3 DEF HandInv
<1> QED BY <1>1, <1>2, <1>3, <1>4, <1>5 DEF Next, Environment

\* A completed workbook holds every row that was there all along, once and in pk
\* order, on whichever host its last attempt ran.
THEOREM CompletedWorkbookHolds ==
  ASSUME Workbook, Remote \/ VolumesSurvive
  PROVE  Spec => []CompletedWhole
<1>1. Init => HandInv
  BY DEF Init, HandInv, HandOver
<1>2. TypeOK /\ FlightInv /\ FlightInv' /\ BookInv /\ HandInv /\ [Next]_vars => HandInv'
  BY HandInductive
<1>3. HandInv => CompletedWhole
  BY DEF HandInv, CompletedWhole
<1> QED BY <1>1, <1>2, <1>3, TypeCorrect, FlightCorrect, BookCorrect, PTL DEF Spec
=============================================================================
