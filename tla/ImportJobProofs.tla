--------------------------- MODULE ImportJobProofs ---------------------------
(***************************************************************************)
(* Safety of an import for every file, chunk size, key, bad row and number *)
(* of processes and faults.  Types hold whoever resumes it.  That no row is*)
(* imported twice, and that counters, table and report agree, is proved for*)
(* one live runner at a time and a report that is not swept under an open  *)
(* job: the run import_sweep shows what a late resume loses.               *)
(***************************************************************************)
EXTENDS ImportJob, FiniteSetTheorems, SequenceTheorems, TLAPS

(***************************************************************************)
(* Types.  No process has created more than it has read, and one that is   *)
(* about to store a row has a row to store.                                *)
(***************************************************************************)
Counted(p) == p.created <= p.done

TypeInv ==
  /\ TypeOK
  /\ Counted(job)
  /\ \A w \in Runners : /\ Counted(mem[w])
                        /\ pc[w] \in {"look", "store"} => mem[w].done < N

(***************************************************************************)
(* The rest of the invariant.                                              *)
(***************************************************************************)
OneRunner ==
  /\ \A v, w \in Runners : Live(v) /\ Live(w) => v = w
  /\ job.status = "completed" => \A w \in Runners : ~Live(w)

NoRowsPending == \A w \in Runners : pc[w] \notin InChunk => tx[w] = {}

\* Only a finished file has lines after its last row: the summaries.
Trailer == job.done < N => job.bytes = job.done

\* The report of a runner between two chunks: a line per row up to the
\* checkpoint, then nothing, or the summaries of runs that ended there.
ReportClean ==
  /\ report.there /\ Reports(report.lines, job.done)
  /\ \A i \in job.done + 1 .. Len(report.lines) : report.lines[i] = Summary
  /\ job.done < N => Len(report.lines) = job.done

Same(w) == mem[w].done = job.done /\ mem[w].created = job.created

\* The chunk in progress: the rows after the checkpoint, each with its line.
ChunkSound(w) ==
  /\ job.done <= mem[w].done /\ job.done < N
  /\ tx[w] \subseteq job.done + 1 .. mem[w].done
  /\ mem[w].created = job.created + Cardinality(tx[w])
  /\ Len(lines[w]) = mem[w].done - job.done
  /\ \A i \in 1..Len(lines[w]) :
       /\ lines[w][i].row = job.done + i
       /\ lines[w][i].action = "created" <=> job.done + i \in tx[w]

\* The same lines at the end of the report, not yet confirmed.
ReportAhead(w) ==
  /\ report.there /\ Reports(report.lines, job.done)
  /\ mem[w].bytes = mem[w].done /\ Len(report.lines) = mem[w].done
  /\ \A i \in job.done + 1 .. mem[w].done :
       /\ report.lines[i].row = i
       /\ report.lines[i].action = "created" <=> i \in tx[w]

Finished(w) == Same(w) /\ job.done = N

AtPlace(w) ==
  /\ pc[w] = "prepare" => mem[w] = Progress(job.done, job.created, job.bytes)
  /\ pc[w] \in {"fetch", "check"} => Same(w) /\ ReportClean
  /\ pc[w] \in {"look", "store", "report"} => ChunkSound(w) /\ ReportClean
  /\ pc[w] \in {"report", "commit"} => mem[w].done > job.done
  /\ pc[w] = "commit" => ChunkSound(w) /\ ReportAhead(w)
  /\ pc[w] = "summary" => Finished(w) /\ ReportClean
  /\ pc[w] = "confirm" => Finished(w) /\ ReportClean /\ mem[w].bytes = Len(report.lines)
  /\ pc[w] \in {"publish", "complete"} => job.done = N

IInv ==
  /\ TypeInv /\ OneRunner /\ NoRowsPending /\ Trailer /\ ImportAccounted
  /\ \A w \in Runners : AtPlace(w)

-----------------------------------------------------------------------------
(* Types.                                                                  *)

JobRecords == [status : Statuses, done : 0..N, created : 0..N, bytes : Nat,
               conflict : Conflicts, unique : BOOLEAN]

LEMMA Assumed == N \in Nat \ {0} /\ MaxFaults \in Nat /\ ChunkSize \in Nat \ {0}
  BY ImportAssumption

LEMMA LineTypes ==
  /\ Summary \in Lines /\ Nul \in Lines
  /\ \A r \in Rows, a \in Actions : Line(r, a) \in Lines
  /\ \A w : Outcome(w) \in Actions
  BY DEF Summary, Nul, Lines, Line, Outcome, Actions

\* A process moves alone.
LEMMA Moved ==
  ASSUME pc \in [Runners -> Steps], NEW w \in Runners, NEW l \in Steps, Goto(w, l)
  PROVE  /\ pc' \in [Runners -> Steps] /\ pc'[w] = l
         /\ \A v \in Runners \ {w} : pc'[v] = pc[v]
  BY DEF Goto

LEMMA InitType == Init => TypeInv
  <1> SUFFICES ASSUME Init PROVE TypeInv
    OBVIOUS
  <1>1. job \in JobRecords /\ Counted(job) /\ faults \in 0..MaxFaults
    BY Assumed DEF Init, JobRecords, Statuses, Counted
  <1>2. pc \in [Runners -> Steps] /\ \A w \in Runners : pc[w] \in {"idle", "claim"}
    BY DEF Init, Steps
  <1>3. mem \in [Runners -> Progresses] /\ \A w \in Runners : Counted(mem[w])
    BY Assumed DEF Init, Progresses, Progress, Counted
  <1>4. report \in [there : BOOLEAN, lines : Seq(Lines)] /\ lines \in [Runners -> Seq(Lines)]
    BY DEF Init, NoReport
  <1>5. tx \in [Runners -> SUBSET Rows] /\ found \in [Runners -> BOOLEAN] /\ made \in [Rows -> Nat]
        /\ others \in SUBSET Keys
    BY DEF Init
  <1> QED BY <1>1, <1>2, <1>3, <1>4, <1>5 DEF TypeInv, TypeOK, JobRecords

\* The part of a type that a change of place alone disturbs.
Placed(w) == pc[w] \in {"look", "store"} => mem[w].done < N

LEMMA RunType ==
  ASSUME TypeInv, NEW w \in Runners, Run(w)
  PROVE  TypeInv'
  <1>t. /\ job \in JobRecords /\ pc \in [Runners -> Steps] /\ mem \in [Runners -> Progresses]
        /\ tx \in [Runners -> SUBSET Rows] /\ lines \in [Runners -> Seq(Lines)]
        /\ found \in [Runners -> BOOLEAN] /\ report \in [there : BOOLEAN, lines : Seq(Lines)]
        /\ made \in [Rows -> Nat] /\ others \in SUBSET Keys /\ faults \in 0..MaxFaults
        /\ Counted(job) /\ \A v \in Runners : Counted(mem[v]) /\ Placed(v)
        /\ mem[w] \in Progresses
    BY DEF TypeInv, TypeOK, JobRecords, Placed
  <1>q. ASSUME job' \in JobRecords, pc' \in [Runners -> Steps], mem' \in [Runners -> Progresses],
               tx' \in [Runners -> SUBSET Rows], lines' \in [Runners -> Seq(Lines)],
               found' \in [Runners -> BOOLEAN], report' \in [there : BOOLEAN, lines : Seq(Lines)],
               made' \in [Rows -> Nat], others' \in SUBSET Keys, faults' \in 0..MaxFaults,
               Counted(job'), \A v \in Runners : Counted(mem'[v]) /\ Placed(v)'
        PROVE  TypeInv'
    BY <1>q DEF TypeInv, TypeOK, JobRecords, Placed, Counted
  <1>s. \A l \in Steps : Goto(w, l) => /\ pc' \in [Runners -> Steps] /\ pc'[w] = l
                                      /\ \A v \in Runners \ {w} : pc'[v] = pc[v]
    BY <1>t, Moved
  <1>1. CASE ResumeReset(w) \/ Claim(w) \/ Complete(w) \/ RecordFailure(w)
    <2>1. /\ job' \in JobRecords /\ Counted(job')
      BY <1>1, <1>t DEF ResumeReset, Claim, Complete, RecordFailure, JobRecords, Statuses, Counted
    <2>2. PICK l \in Steps \ {"look", "store"} : Goto(w, l)
      BY <1>1 DEF ResumeReset, Claim, Complete, RecordFailure, Steps
    <2>3. UNCHANGED <<mem, tx, lines, found, report, made, others, faults>>
      BY <1>1 DEF ResumeReset, Claim, Complete, RecordFailure
    <2>4. \A v \in Runners : Placed(v)'
      BY <1>s, <1>t, <2>2, <2>3 DEF Placed
    <2> QED BY <1>q, <1>s, <1>t, <2>1, <2>2, <2>3, <2>4
  <1>2. CASE Skip(w) \/ NoMoreRows(w) \/ CheckStatus(w) \/ Publish(w)
    <2>2. PICK l \in Steps \ {"look", "store"} : Goto(w, l)
      BY <1>2 DEF Skip, NoMoreRows, CheckStatus, Publish, Steps, InRun
    <2>3. UNCHANGED <<job, mem, tx, lines, found, report, made, others, faults>>
      BY <1>2 DEF Skip, NoMoreRows, CheckStatus, Publish
    <2>4. \A v \in Runners : Placed(v)'
      BY <1>s, <1>t, <2>2, <2>3 DEF Placed
    <2> QED BY <1>q, <1>s, <1>t, <2>2, <2>3, <2>4
  <1>3. CASE Load(w)
    <2>1. Progress(job.done, job.created, job.bytes) \in Progresses
          /\ Counted(Progress(job.done, job.created, job.bytes))
      BY <1>t DEF JobRecords, Progresses, Progress, Counted
    <2>2. mem' \in [Runners -> Progresses] /\ \A v \in Runners : Counted(mem'[v])
      BY <1>3, <1>t, <2>1 DEF Load
    <2>3. Goto(w, "prepare") /\ "prepare" \in Steps /\ UNCHANGED <<job, tx, lines, found, report, made, others, faults>>
          /\ \A v \in Runners \ {w} : mem'[v] = mem[v]
      BY <1>3, <1>t DEF Load, Steps, InRun
    <2>4. \A v \in Runners : Placed(v)'
      BY <1>s, <1>t, <2>3 DEF Placed
    <2> QED BY <1>q, <1>s, <1>t, <2>2, <2>3, <2>4
  <1>4. CASE Prepare(w)
    <2>1. /\ Report(<<>>) \in [there : BOOLEAN, lines : Seq(Lines)]
          /\ Report(CutTo(report.lines, mem[w].bytes)) \in [there : BOOLEAN, lines : Seq(Lines)]
      <3>1. mem[w].bytes \in Nat
        BY <1>t DEF Progresses
      <3>2. \A i \in 1..mem[w].bytes : (IF i \in 1..Len(report.lines) THEN report.lines[i] ELSE Nul) \in Lines
        BY <1>t, LineTypes
      <3>3. CutTo(report.lines, mem[w].bytes) \in Seq(Lines)
        BY <3>1, <3>2 DEF CutTo
      <3> QED BY <3>3 DEF Report
    <2>2. mem'[w] \in Progresses /\ Counted(mem'[w]) /\ \A v \in Runners \ {w} : mem'[v] = mem[v]
      <3>1. Progress(0, 0, mem[w].bytes) \in Progresses /\ Counted(Progress(0, 0, mem[w].bytes))
        BY <1>t, Assumed DEF Progresses, Progress, Counted
      <3>2. mem' = mem \/ mem' = [mem EXCEPT ![w] = IF @.done > 0 THEN Progress(0, 0, @.bytes) ELSE @]
        BY <1>4 DEF Prepare
      <3> QED BY <3>1, <3>2, <1>t
    <2>3. mem' \in [Runners -> Progresses] /\ \A v \in Runners : Counted(mem'[v])
      <3>1. mem' = [v \in Runners |-> mem'[v]]
        BY <1>4, <1>t DEF Prepare
      <3> QED BY <3>1, <2>2, <1>t
    <2>4. Goto(w, "fetch") /\ "fetch" \in Steps /\ UNCHANGED <<job, tx, lines, found, made, others, faults>>
          /\ report' \in [there : BOOLEAN, lines : Seq(Lines)]
      BY <1>4, <2>1 DEF Prepare, Steps, InRun
    <2>5. \A v \in Runners : Placed(v)'
      BY <1>s, <1>t, <2>2, <2>4 DEF Placed
    <2> QED BY <1>q, <1>s, <1>t, <2>3, <2>4, <2>5
  <1>5. CASE Fetch(w)
    <2>1. /\ Goto(w, "look") /\ "look" \in Steps /\ mem[w].done < N
          /\ UNCHANGED <<job, mem, found, report, made, others, faults>>
          /\ lines' \in [Runners -> Seq(Lines)] /\ tx' \in [Runners -> SUBSET Rows]
      BY <1>5, <1>t DEF Fetch, Steps, InRun, InChunk
    <2>2. \A v \in Runners : Placed(v)'
      BY <1>s, <1>t, <2>1 DEF Placed
    <2> QED BY <1>q, <1>s, <1>t, <2>1, <2>2
  <1>6. CASE LookUp(w)
    <2>1. /\ Goto(w, "store") /\ "store" \in Steps /\ mem[w].done < N
          /\ UNCHANGED <<job, mem, tx, lines, report, made, others, faults>>
      BY <1>6, <1>t DEF LookUp, Steps, InRun, InChunk, Placed
    <2>2. (job.unique /\ KeyOf[RowNumber(w)] \in Committed \cup Inserted(w)) \in BOOLEAN
      BY <1>t DEF JobRecords
    <2>3. found' \in [Runners -> BOOLEAN]
      BY <1>6, <1>t, <2>2 DEF LookUp
    <2>4. \A v \in Runners : Placed(v)'
      BY <1>s, <1>t, <2>1 DEF Placed
    <2> QED BY <1>q, <1>s, <1>t, <2>1, <2>3, <2>4
  <1>7. CASE StoreRow(w)
    <2> DEFINE r == RowNumber(w)
               new == Outcome(w) = "created"
               p == Progress(r, IF new THEN mem[w].created + 1 ELSE mem[w].created, mem[w].bytes)
    <2>1. r \in Rows /\ r = mem[w].done + 1
      BY <1>7, <1>t, Assumed DEF StoreRow, Placed, RowNumber, Rows, Progresses
    <2>2. p \in Progresses /\ Counted(p) /\ p.done = r
      BY <1>t, <2>1, Assumed DEF Progresses, Progress, Counted, Rows
    <2>3. /\ mem' = [mem EXCEPT ![w] = p] /\ tx' = [tx EXCEPT ![w] = IF new THEN @ \cup {r} ELSE @]
          /\ lines' = [lines EXCEPT ![w] = Append(@, Line(r, Outcome(w)))]
          /\ Goto(w, IF ChunkFull(w) THEN "report" ELSE "look")
          /\ UNCHANGED <<job, found, report, made, others, faults>>
      BY <1>7 DEF StoreRow
    <2>4. ChunkFull(w) \/ mem'[w].done < N
      BY <1>t, <2>2, <2>3, Assumed DEF ChunkFull, Progresses
    <2>5. PICK l \in {"look", "report"} : Goto(w, l) /\ (l = "look" => mem'[w].done < N)
      BY <2>3, <2>4
    <2>6. l \in Steps
      BY DEF Steps, InRun, InChunk
    <2>7. lines' \in [Runners -> Seq(Lines)]
      <3>1. Append(lines[w], Line(r, Outcome(w))) \in Seq(Lines)
        BY <1>t, <2>1, LineTypes
      <3> QED BY <1>t, <2>3, <3>1
    <2>8. mem' \in [Runners -> Progresses] /\ (\A v \in Runners : Counted(mem'[v]))
          /\ (\A v \in Runners \ {w} : mem'[v] = mem[v]) /\ tx' \in [Runners -> SUBSET Rows]
      <3> HIDE DEF p, r, new
      <3> QED BY <1>t, <2>1, <2>2, <2>3
    <2>9. \A v \in Runners : Placed(v)'
      BY <1>s, <1>t, <2>5, <2>6, <2>8 DEF Placed
    <2> QED BY <1>q, <1>s, <1>t, <2>3, <2>5, <2>6, <2>7, <2>8, <2>9
  <1>8. CASE ReportChunk(w) \/ WriteSummary(w)
    <2>1. PICK s \in Seq(Lines) : report' = Report(s) /\ mem' = [mem EXCEPT ![w].bytes = Len(s)]
      <3>1. report.lines \o lines[w] \in Seq(Lines) /\ Append(report.lines, Summary) \in Seq(Lines)
        BY <1>t, LineTypes
      <3>2. \A s : Report(s).lines = s
        BY DEF Report
      <3>3. CASE ReportChunk(w)
        <4>1. report' = Report(report.lines \o lines[w]) /\ mem' = [mem EXCEPT ![w].bytes = Len(report'.lines)]
          BY <3>3 DEF ReportChunk
        <4> QED BY <3>1, <3>2, <4>1
      <3>4. CASE WriteSummary(w)
        <4>1. report' = Report(Append(report.lines, Summary)) /\ mem' = [mem EXCEPT ![w].bytes = Len(report'.lines)]
          BY <3>4 DEF WriteSummary
        <4> QED BY <3>1, <3>2, <4>1
      <3> QED BY <1>8, <3>3, <3>4
    <2>2. mem'[w] = [mem[w] EXCEPT !.bytes = Len(s)] /\ \A v \in Runners \ {w} : mem'[v] = mem[v]
      BY <1>t, <2>1
    <2>3. Len(s) \in Nat /\ mem'[w] \in Progresses /\ Counted(mem'[w])
      <3>1. Len(s) \in Nat
        OBVIOUS
      <3>2. Counted(mem[w]) /\ mem[w] \in Progresses
        BY <1>t
      <3> QED BY <2>2, <3>1, <3>2 DEF Progresses, Counted
    <2>4. mem' \in [Runners -> Progresses] /\ (\A v \in Runners : Counted(mem'[v]))
      BY <1>t, <2>1, <2>2, <2>3
    <2>5. report' \in [there : BOOLEAN, lines : Seq(Lines)]
      BY <2>1 DEF Report
    <2>6. PICK l \in Steps \ {"look", "store"} : Goto(w, l)
      BY <1>8 DEF ReportChunk, WriteSummary, Steps, InRun, InChunk
    <2>7. \A v \in Runners : Placed(v)'
      BY <1>s, <1>t, <2>2, <2>6 DEF Placed
    <2>8. UNCHANGED <<job, tx, lines, found, made, others, faults>>
      BY <1>8 DEF ReportChunk, WriteSummary
    <2> QED BY <1>q, <1>s, <1>t, <2>4, <2>5, <2>6, <2>7, <2>8
  <1>9. CASE Commit(w) \/ ConfirmSummary(w)
    <2>1. job' \in JobRecords /\ Counted(job')
      BY <1>9, <1>t DEF Commit, ConfirmSummary, Checkpoint, JobRecords, Progresses, Counted
    <2>2. made' \in [Rows -> Nat] /\ tx' \in [Runners -> SUBSET Rows]
      <3>1. CASE Commit(w)
        <4>1. /\ made' = [r \in Rows |-> IF r \in tx[w] THEN made[r] + 1 ELSE made[r]]
              /\ tx' = [tx EXCEPT ![w] = {}]
          BY <3>1 DEF Commit
        <4>2. tx' \in [Runners -> SUBSET Rows]
          BY <1>t, <4>1
        <4> QED BY <1>t, <4>1, <4>2
      <3>2. CASE ConfirmSummary(w)
        BY <1>t, <3>2 DEF ConfirmSummary
      <3> QED BY <1>9, <3>1, <3>2
    <2>3. PICK l \in Steps \ {"look", "store"} : Goto(w, l)
      BY <1>9 DEF Commit, ConfirmSummary, Steps, InRun
    <2>4. UNCHANGED <<mem, lines, found, report, others, faults>>
      BY <1>9 DEF Commit, ConfirmSummary
    <2>5. \A v \in Runners : Placed(v)'
      BY <1>s, <1>t, <2>3, <2>4 DEF Placed
    <2> QED BY <1>q, <1>s, <1>t, <2>1, <2>2, <2>3, <2>4, <2>5
  <1> QED BY <1>1, <1>2, <1>3, <1>4, <1>5, <1>6, <1>7, <1>8, <1>9 DEF Run

LEMMA StepType == TypeInv /\ [Next]_vars => TypeInv'
  <1> SUFFICES ASSUME TypeInv, [Next]_vars PROVE TypeInv'
    OBVIOUS
  <1>t. TypeOK /\ pc \in [Runners -> Steps] /\ faults \in 0..MaxFaults /\ MaxFaults \in Nat
    BY Assumed DEF TypeInv, TypeOK
  <1>1. ASSUME NEW w \in Runners, Run(w) PROVE TypeInv'
    BY <1>1, RunType
  <1>2. ASSUME NEW w \in Runners, ResumeFind(w) PROVE TypeInv'
    <2>1. "reset" \in Steps
      BY DEF Steps
    <2>2. pc' \in [Runners -> Steps] /\ pc'[w] = "reset" /\ \A v \in Runners \ {w} : pc'[v] = pc[v]
      BY <1>2, <1>t, <2>1, Moved DEF ResumeFind
    <2> QED BY <1>2, <2>2 DEF ResumeFind, TypeInv, TypeOK
  <1>3. ASSUME NEW w \in Runners, Raise(w) \/ Crash(w) PROVE TypeInv'
    <2>1. PICK l \in {"fail", "idle"} : Goto(w, l)
      BY <1>3 DEF Raise, Crash
    <2>2. l \in Steps
      BY DEF Steps
    <2>3. pc' \in [Runners -> Steps] /\ pc'[w] = l /\ \A v \in Runners \ {w} : pc'[v] = pc[v]
      BY <1>t, <2>1, <2>2, Moved
    <2>4. faults' \in 0..MaxFaults /\ tx' \in [Runners -> SUBSET Rows]
      <3>1. Fault /\ tx' = [tx EXCEPT ![w] = {}] /\ tx \in [Runners -> SUBSET Rows]
        BY <1>3, <1>t DEF Raise, Crash, TypeOK
      <3>2. tx' \in [Runners -> SUBSET Rows]
        BY <3>1
      <3> QED BY <1>t, <3>1, <3>2 DEF Fault
    <2> QED BY <1>3, <2>3, <2>4 DEF Raise, Crash, TypeInv, TypeOK
  <1>4. CASE Cancel
    <2>1. job' = [job EXCEPT !.status = "cancelled"] /\ faults' \in 0..MaxFaults
          /\ UNCHANGED <<pc, mem, tx, lines, found, report, made, others>>
      BY <1>4, <1>t DEF Cancel, Fault
    <2>2. job' \in JobRecords /\ Counted(job')
      BY <2>1 DEF TypeInv, TypeOK, JobRecords, Statuses, Counted
    <2> QED BY <2>1, <2>2 DEF TypeInv, TypeOK, JobRecords
  <1>5. CASE SweepReport
    <2>1. report' = NoReport /\ faults' \in 0..MaxFaults /\ UNCHANGED <<job, pc, mem, tx, lines, found, made, others>>
      BY <1>5, <1>t DEF SweepReport, Fault
    <2>2. NoReport \in [there : BOOLEAN, lines : Seq(Lines)]
      BY DEF NoReport
    <2> QED BY <2>1, <2>2 DEF TypeInv, TypeOK
  <1>6. ASSUME NEW k \in Keys, OtherInsert(k) PROVE TypeInv'
    BY <1>6 DEF OtherInsert, TypeInv, TypeOK
  <1>7. CASE UNCHANGED vars
    BY <1>7 DEF vars, TypeInv, TypeOK
  <1> QED BY <1>1, <1>2, <1>3, <1>4, <1>5, <1>6, <1>7 DEF Next

\* Every reachable state has its type, whoever resumes the job and whatever is swept.
THEOREM TypeCorrect == Spec => []TypeOK
  <1>1. TypeInv => TypeOK
    BY DEF TypeInv
  <1> QED BY <1>1, InitType, StepType, PTL DEF Spec

-----------------------------------------------------------------------------
(* One live runner, and a report that stays while its job is open.         *)

Setting == ~ResumeLive /\ ~LateResume

\* What the places say of a runner that is not in a run is nothing.
Outside == {"idle", "reset", "claim", "load", "fail"}

LEMMA Unplaced ==
  ASSUME NEW w \in Runners, pc[w] \in Outside
  PROVE  AtPlace(w)
  BY DEF AtPlace, Outside

\* While one runner is live the others are idle, before its step and after it.
LEMMA Alone ==
  ASSUME pc \in [Runners -> Steps], OneRunner, NoRowsPending, NEW w \in Runners, Live(w),
         \A v \in Runners \ {w} : pc'[v] = pc[v] /\ tx'[v] = tx[v],
         AtPlace(w)', pc'[w] \notin InChunk => tx'[w] = {},
         job'.status = "completed" => pc'[w] = "idle"
  PROVE  OneRunner' /\ NoRowsPending' /\ \A v \in Runners : AtPlace(v)'
  <1>1. \A v \in Runners \ {w} : pc[v] = "idle"
    BY DEF OneRunner, Live
  <1>2. \A v \in Runners \ {w} : pc'[v] = "idle" /\ tx'[v] = {}
    BY <1>1 DEF NoRowsPending, InChunk
  <1>3. OneRunner'
    BY <1>2 DEF OneRunner, Live
  <1>4. NoRowsPending'
    BY <1>2 DEF NoRowsPending
  <1>5. \A v \in Runners \ {w} : AtPlace(v)'
    BY <1>2 DEF AtPlace
  <1> QED BY <1>3, <1>4, <1>5

Accounts == Trailer /\ ImportAccounted

\* A step that leaves counters, table and report alone keeps their accounts, if
\* it does not open a completed job again.
LEMMA SameAccounts ==
  ASSUME Accounts, job'.done = job.done, job'.created = job.created, job'.bytes = job.bytes,
         job.status = "completed" => job'.status = "completed", UNCHANGED <<report, made>>
  PROVE  Accounts'
  BY DEF Accounts, Trailer, ImportAccounted, CreatedOnce, TableAccounted, ReportConfirmed, Reports

\* Lines added at the end leave those before them.
LEMMA Appended ==
  ASSUME NEW s \in Seq(Lines), NEW t \in Seq(Lines)
  PROVE  /\ s \o t \in Seq(Lines) /\ Len(s \o t) = Len(s) + Len(t)
         /\ \A i \in 1..Len(s) : (s \o t)[i] = s[i]
         /\ \A i \in 1..Len(t) : (s \o t)[Len(s) + i] = t[i]
  OBVIOUS

\* The rows of a chunk are not in the table: they are counted once.
LEMMA CountChunk ==
  ASSUME TypeInv, TableAccounted, NEW S \in SUBSET (job.done + 1 .. N)
  PROVE  /\ IsFiniteSet(S) /\ Cardinality(S) \in Nat
         /\ Cardinality({r \in Rows : made[r] > 0} \cup S) = job.created + Cardinality(S)
  <1> DEFINE T == {r \in Rows : made[r] > 0}
  <1>1. job.done \in 0..N /\ made \in [Rows -> Nat]
    BY DEF TypeInv, TypeOK
  <1>2. IsFiniteSet(Rows)
    BY FS_Interval, Assumed DEF Rows
  <1>3. S \in SUBSET Rows /\ T \in SUBSET Rows
    BY <1>1, Assumed DEF Rows
  <1>4. IsFiniteSet(S) /\ IsFiniteSet(T) /\ Cardinality(S) \in Nat /\ Cardinality(T) \in Nat
    BY <1>2, <1>3, FS_Subset, FS_CardinalityType
  <1>5. S \cap T = {}
    BY <1>1, <1>3, Assumed DEF TableAccounted, Rows
  <1>6. Cardinality(T \cup S) = Cardinality(T) + Cardinality(S) - Cardinality(T \cap S)
    BY <1>4, FS_Union
  <1>7. Cardinality(T \cap S) = 0
    BY <1>5, FS_EmptySet
  <1>8. Cardinality(T) = job.created
    BY DEF TableAccounted
  <1> QED BY <1>4, <1>6, <1>7, <1>8

LEMMA InitInv == Init => IInv
  <1> SUFFICES ASSUME Init PROVE IInv
    OBVIOUS
  <1>1. TypeInv
    BY InitType
  <1>2. PICK w \in Runners : pc = [v \in Runners |-> IF v = w THEN "claim" ELSE "idle"]
    BY DEF Init
  <1>3. \A v \in Runners : pc[v] \in Outside
    BY <1>2 DEF Outside
  <1>4. OneRunner /\ NoRowsPending
    BY <1>2 DEF OneRunner, Live, NoRowsPending, Init
  <1>5. \A v \in Runners : AtPlace(v)
    BY <1>3, Unplaced
  <1>6. {r \in Rows : made[r] > 0} = {} /\ \A r \in Rows : made[r] = 0
    BY DEF Init
  <1>7. job.done = 0 /\ job.created = 0 /\ job.bytes = 0
    BY DEF Init
  <1>8. Trailer /\ CreatedOnce /\ ReportConfirmed
    BY <1>6, <1>7 DEF Trailer, CreatedOnce, ReportConfirmed
  <1>9. TableAccounted
    BY <1>6, <1>7, FS_EmptySet DEF TableAccounted
  <1> QED BY <1>1, <1>4, <1>5, <1>8, <1>9 DEF IInv, ImportAccounted

\* What a runner's step needs to show, when its others stay where they are.
Kept(w) ==
  /\ \A v \in Runners \ {w} : pc'[v] = pc[v] /\ tx'[v] = tx[v]
  /\ AtPlace(w)'
  /\ pc'[w] \notin InChunk => tx'[w] = {}
  /\ job'.status = "completed" => pc'[w] = "idle"
  /\ Accounts'

LEMMA RunKeeps ==
  ASSUME Setting, IInv, TypeInv', NEW w \in Runners, Run(w)
  PROVE  Kept(w)
  <1>t. /\ job \in JobRecords /\ pc \in [Runners -> Steps] /\ mem \in [Runners -> Progresses]
        /\ tx \in [Runners -> SUBSET Rows] /\ lines \in [Runners -> Seq(Lines)]
        /\ report \in [there : BOOLEAN, lines : Seq(Lines)] /\ made \in [Rows -> Nat]
        /\ mem[w] \in Progresses /\ report.lines \in Seq(Lines) /\ lines[w] \in Seq(Lines)
    BY DEF IInv, TypeInv, TypeOK, JobRecords
  <1>j. job.done \in 0..N /\ job.created \in 0..N /\ job.bytes \in Nat /\ job.status \in Statuses
    BY <1>t DEF JobRecords
  <1>m. mem[w].done \in 0..N /\ mem[w].created \in 0..N /\ mem[w].bytes \in Nat
    BY <1>t DEF Progresses
  <1>a. AtPlace(w) /\ Accounts /\ OneRunner /\ NoRowsPending /\ Trailer /\ TableAccounted /\ ReportConfirmed
    BY DEF IInv, Accounts, ImportAccounted
  <1>l. Live(w) /\ job.status # "completed"
    BY <1>a DEF Run, ResumeReset, Claim, Skip, Load, Prepare, Fetch, NoMoreRows, LookUp, StoreRow,
               ReportChunk, Commit, CheckStatus, WriteSummary, ConfirmSummary, Publish, Complete,
               RecordFailure, Live, OneRunner
  <1>g. \A l : Goto(w, l) => pc'[w] = l /\ \A v \in Runners \ {w} : pc'[v] = pc[v]
    BY <1>t DEF Goto
  <1>x. pc[w] \notin InChunk => tx[w] = {}
    BY <1>a DEF NoRowsPending
  <1>1. CASE ResumeReset(w) \/ Claim(w) \/ Complete(w) \/ RecordFailure(w)
    <2>1. PICK l \in {"claim", "load", "idle"} : Goto(w, l) /\ (l # "idle" => job'.status # "completed")
      BY <1>1, <1>t DEF ResumeReset, Claim, Complete, RecordFailure, JobRecords
    <2>2. job'.done = job.done /\ job'.created = job.created /\ job'.bytes = job.bytes
          /\ UNCHANGED <<tx, report, made>> /\ pc[w] \notin InChunk
      BY <1>1, <1>t DEF ResumeReset, Claim, Complete, RecordFailure, JobRecords, InChunk
    <2>3. AtPlace(w)'
      BY <1>g, <2>1, Unplaced DEF AtPlace
    <2> QED BY <1>a, <1>g, <1>l, <1>x, <2>1, <2>2, <2>3, SameAccounts DEF Kept
  <1>2. CASE Skip(w) \/ Publish(w) \/ CheckStatus(w) \/ NoMoreRows(w) \/ LookUp(w)
    <2>1. UNCHANGED <<job, mem, tx, lines, report, made>>
      BY <1>2 DEF Skip, Publish, CheckStatus, NoMoreRows, LookUp
    <2>2. PICK l \in Steps :
            /\ Goto(w, l)
            /\ \/ l = "idle" /\ pc[w] \in {"claim", "check"}
               \/ l = "complete" /\ pc[w] = "publish"
               \/ l = "fetch" /\ pc[w] = "check"
               \/ l = "summary" /\ pc[w] = "fetch" /\ mem[w].done >= N
               \/ l = "store" /\ pc[w] = "look"
      BY <1>2 DEF Skip, Publish, CheckStatus, NoMoreRows, LookUp, Steps, InRun, InChunk
    <2>3. AtPlace(w)'
      BY <1>a, <1>g, <1>m, <2>1, <2>2, Assumed DEF AtPlace, Same, Finished, ReportClean, Reports, ChunkSound
    <2>4. pc'[w] \notin InChunk => tx'[w] = {}
      BY <1>g, <1>x, <2>1, <2>2 DEF InChunk
    <2>5. Accounts'
      BY <1>a, <2>1, SameAccounts
    <2> QED BY <1>g, <1>l, <2>1, <2>2, <2>3, <2>4, <2>5 DEF Kept
  <1>3. CASE Load(w)
    <2>1. Goto(w, "prepare") /\ mem' = [mem EXCEPT ![w] = Progress(job.done, job.created, job.bytes)]
          /\ UNCHANGED <<job, tx, report, made>> /\ pc[w] \notin InChunk
      BY <1>3 DEF Load, InChunk
    <2>2. AtPlace(w)'
      BY <1>g, <1>t, <2>1 DEF AtPlace
    <2> QED BY <1>a, <1>g, <1>l, <1>x, <2>1, <2>2, SameAccounts DEF Kept
  <1>4. CASE Prepare(w)
    <2>1. mem[w] = Progress(job.done, job.created, job.bytes) /\ Goto(w, "fetch") /\ UNCHANGED <<job, tx, made>>
          /\ pc[w] \notin InChunk
      BY <1>4, <1>a DEF Prepare, AtPlace, InChunk
    <2>2. mem[w].done = job.done /\ mem[w].created = job.created /\ mem[w].bytes = job.bytes
      BY <2>1 DEF Progress
    <2>3. mem' = mem /\ ReportClean' /\ ReportConfirmed'
      <3>1. CASE job.done = 0
        <4>1. report' = Report(<<>>) /\ mem' = mem
          <5>1. ~(mem[w].done > 0)
            BY <2>2, <3>1
          <5>2. report' = Report(<<>>)
            BY <1>4, <5>1 DEF Prepare
          <5>3. mem' = [mem EXCEPT ![w] = mem[w]]
            BY <1>4, <5>1 DEF Prepare
          <5> QED BY <1>t, <5>2, <5>3
        <4>2. report'.lines = <<>> /\ report'.there /\ Len(<<>>) = 0
          BY <4>1 DEF Report
        <4>3. ~(job.done > 0) /\ job' = job
          BY <2>1, <3>1
        <4>4. ReportConfirmed'
          BY <4>3 DEF ReportConfirmed
        <4>5. ReportClean'
          BY <3>1, <4>2, <4>3 DEF ReportClean, Reports
        <4> QED BY <4>1, <4>4, <4>5
      <3>2. CASE job.done # 0
        <4>1. /\ report.there /\ job.done <= job.bytes /\ job.bytes <= Len(report.lines)
              /\ Reports(report.lines, job.done)
              /\ \A i \in job.done + 1 .. job.bytes : report.lines[i] = Summary
          BY <1>a, <1>j, <1>l, <3>2 DEF ReportConfirmed
        <4>2. report' = Report(CutTo(report.lines, job.bytes)) /\ mem' = mem
          BY <1>4, <1>j, <2>2, <3>2, <4>1 DEF Prepare
        <4>3. report'.there /\ report'.lines = CutTo(report.lines, job.bytes)
          BY <4>2 DEF Report
        <4>4. Len(report'.lines) = job.bytes /\ \A i \in 1..job.bytes : report'.lines[i] = report.lines[i]
          BY <1>j, <1>t, <4>1, <4>3 DEF CutTo
        <4>5. Reports(report.lines, job.done)'
          <5>1. made' = made /\ job' = job
            BY <2>1
          <5>2. job.done <= Len(report'.lines) /\ \A i \in 1..job.done : report'.lines[i] = report.lines[i]
            BY <1>j, <4>1, <4>4
          <5> QED BY <4>1, <5>1, <5>2 DEF Reports
        <4>6. \A i \in job.done + 1 .. job.bytes : report'.lines[i] = Summary
          BY <1>j, <4>1, <4>4
        <4> QED BY <1>a, <1>j, <2>1, <4>1, <4>2, <4>3, <4>4, <4>5, <4>6 DEF ReportClean, ReportConfirmed, Trailer
      <3> QED BY <3>1, <3>2
    <2>4. AtPlace(w)'
      BY <1>g, <2>1, <2>2, <2>3 DEF AtPlace, Same
    <2>5. Accounts'
      BY <1>a, <2>1, <2>3 DEF Accounts, Trailer, ImportAccounted, CreatedOnce, TableAccounted
    <2> QED BY <1>g, <1>l, <1>x, <2>1, <2>4, <2>5 DEF Kept
  <1>5. CASE Fetch(w)
    <2>1. /\ pc[w] = "fetch" /\ mem[w].done < N /\ Goto(w, "look") /\ UNCHANGED <<job, mem, report, made>>
          /\ lines' = [lines EXCEPT ![w] = <<>>] /\ tx' = [tx EXCEPT ![w] = {}]
      BY <1>5 DEF Fetch
    <2>2. lines'[w] = <<>> /\ tx'[w] = {} /\ \A v \in Runners \ {w} : tx'[v] = tx[v]
      BY <1>t, <2>1
    <2>3. Same(w) /\ ReportClean
      BY <1>a, <2>1 DEF AtPlace
    <2>4. ChunkSound(w)'
      <3>1. Cardinality(tx'[w]) = 0 /\ Len(lines'[w]) = 0
        BY <2>2, FS_EmptySet
      <3>2. job.done <= mem[w].done /\ job.done < N /\ mem[w].created = job.created + 0 /\ mem[w].done - job.done = 0
        BY <1>j, <1>m, <2>1, <2>3 DEF Same
      <3> QED BY <2>1, <2>2, <3>1, <3>2 DEF ChunkSound
    <2>5. ReportClean'
      BY <2>1, <2>3 DEF ReportClean, Reports
    <2>6. AtPlace(w)'
      BY <1>g, <2>1, <2>4, <2>5 DEF AtPlace
    <2> QED BY <1>a, <1>g, <1>l, <2>1, <2>2, <2>6, SameAccounts DEF Kept, InChunk
  <1>6. CASE StoreRow(w)
    <2> DEFINE r == RowNumber(w)
               new == Outcome(w) = "created"
    <2>1. /\ pc[w] = "store" /\ UNCHANGED <<job, report, made>>
          /\ tx' = [tx EXCEPT ![w] = IF new THEN @ \cup {r} ELSE @]
          /\ lines' = [lines EXCEPT ![w] = Append(@, Line(r, Outcome(w)))]
          /\ mem' = [mem EXCEPT ![w] = Progress(r, IF new THEN @.created + 1 ELSE @.created, @.bytes)]
      BY <1>6 DEF StoreRow
    <2>2. PICK l \in {"look", "report"} : Goto(w, l)
      BY <1>6 DEF StoreRow
    <2>3. ChunkSound(w) /\ ReportClean
      BY <1>a, <2>1 DEF AtPlace
    <2>4. r = mem[w].done + 1
      BY DEF RowNumber
    <2>5. Line(r, Outcome(w)).row = r /\ Line(r, Outcome(w)).action = Outcome(w) /\ Line(r, Outcome(w)) \in Lines
      <3>1. r \in Rows
        BY <1>m, <2>1, <2>4, Assumed DEF IInv, TypeInv, Rows
      <3> QED BY <3>1, LineTypes DEF Line
    <2> HIDE DEF r, new
    <2>6. /\ tx'[w] = (IF new THEN tx[w] \cup {r} ELSE tx[w]) /\ lines'[w] = Append(lines[w], Line(r, Outcome(w)))
          /\ mem'[w].done = r /\ mem'[w].created = (IF new THEN mem[w].created + 1 ELSE mem[w].created)
          /\ \A v \in Runners \ {w} : tx'[v] = tx[v]
      BY <1>t, <2>1 DEF Progress
    <2>7. ChunkSound(w)'
      <3>1. job.done + 1 .. mem[w].done \in SUBSET (job.done + 1 .. N) /\ r \notin tx[w]
        BY <1>j, <1>m, <2>3, <2>4, Assumed DEF ChunkSound
      <3>2. IsFiniteSet(tx[w]) /\ Cardinality(tx[w]) \in Nat
        BY <1>a, <2>3, <3>1, CountChunk DEF ChunkSound, IInv
      <3>3. Cardinality(tx'[w]) = IF new THEN Cardinality(tx[w]) + 1 ELSE Cardinality(tx[w])
        <4>1. Cardinality(tx[w] \cup {r}) = Cardinality(tx[w]) + 1
          BY <3>1, <3>2, FS_AddElement
        <4> QED BY <2>6, <4>1
      <3>4. mem'[w].created = job.created + Cardinality(tx'[w])
        <4>1. mem[w].created = job.created + Cardinality(tx[w])
          BY <2>3 DEF ChunkSound
        <4>2. mem'[w].created = IF new THEN mem[w].created + 1 ELSE mem[w].created
          BY <2>6
        <4>3. job.created \in Int /\ Cardinality(tx[w]) \in Int
          BY <1>j, <3>2
        <4> QED BY <3>3, <4>1, <4>2, <4>3
      <3>5. tx'[w] \subseteq job.done + 1 .. mem'[w].done /\ job.done <= mem'[w].done
        <4>1. tx[w] \subseteq job.done + 1 .. mem[w].done /\ job.done <= mem[w].done
          BY <2>3 DEF ChunkSound
        <4>2. job.done \in Int /\ mem[w].done \in Int /\ mem'[w].done = mem[w].done + 1
          BY <1>j, <1>m, <2>4, <2>6
        <4>3. tx'[w] \subseteq tx[w] \cup {mem[w].done + 1}
          BY <2>4, <2>6
        <4> QED BY <4>1, <4>2, <4>3
      <3>6. Len(lines'[w]) = mem'[w].done - job.done
        <4>1. Len(lines'[w]) = Len(lines[w]) + 1
          BY <1>t, <2>5, <2>6
        <4>2. Len(lines[w]) = mem[w].done - job.done /\ mem'[w].done = mem[w].done + 1
          BY <2>3, <2>4, <2>6 DEF ChunkSound
        <4> QED BY <1>j, <1>m, <4>1, <4>2
      <3>7. ASSUME NEW i \in 1..Len(lines'[w])
            PROVE  /\ lines'[w][i].row = job.done + i
                   /\ lines'[w][i].action = "created" <=> job.done + i \in tx'[w]
        <4>1. Len(lines'[w]) = Len(lines[w]) + 1 /\ Len(lines[w]) \in Nat /\ Len(lines[w]) = mem[w].done - job.done
          BY <1>t, <2>3, <2>6 DEF ChunkSound
        <4>2. CASE i \in 1..Len(lines[w])
          <5>1. lines'[w][i] = lines[w][i] /\ job.done + i # r
            BY <1>j, <1>m, <1>t, <2>4, <2>6, <4>1, <4>2
          <5>2. lines[w][i].row = job.done + i /\ (lines[w][i].action = "created" <=> job.done + i \in tx[w])
            BY <2>3, <4>2 DEF ChunkSound
          <5>3. job.done + i \in tx'[w] <=> job.done + i \in tx[w]
            BY <2>6, <5>1
          <5> QED BY <5>1, <5>2, <5>3
        <4>3. CASE i = Len(lines[w]) + 1
          <5>0. lines'[w][Len(lines[w]) + 1] = Line(r, Outcome(w))
            BY <1>t, <2>5, <2>6
          <5>1. lines'[w][i] = Line(r, Outcome(w)) /\ job.done + i = r
            BY <1>j, <1>m, <2>4, <4>1, <4>3, <5>0
          <5>2. r \in tx'[w] <=> new
            BY <2>6, <3>1
          <5> QED BY <2>5, <5>1, <5>2 DEF new
        <4> QED BY <4>1, <4>2, <4>3
      <3> QED BY <2>1, <2>3, <3>4, <3>5, <3>6, <3>7 DEF ChunkSound
    <2>8. mem'[w].done > job.done
      BY <1>j, <1>m, <2>3, <2>4, <2>6 DEF ChunkSound
    <2>9. ReportClean'
      BY <2>1, <2>3 DEF ReportClean, Reports
    <2>10. AtPlace(w)' /\ pc'[w] \in InChunk
      BY <1>g, <2>1, <2>2, <2>7, <2>8, <2>9 DEF AtPlace, InChunk
    <2> QED BY <1>a, <1>g, <1>l, <2>1, <2>2, <2>6, <2>10, SameAccounts DEF Kept
  <1>7. CASE ReportChunk(w)
    <2>1. /\ pc[w] = "report" /\ Goto(w, "commit") /\ UNCHANGED <<job, tx, lines, made>>
          /\ report' = Report(report.lines \o lines[w]) /\ mem' = [mem EXCEPT ![w].bytes = Len(report'.lines)]
      BY <1>7 DEF ReportChunk
    <2>2. report'.lines = report.lines \o lines[w] /\ report'.there
      BY <2>1 DEF Report
    <2>3. mem'[w].done = mem[w].done /\ mem'[w].created = mem[w].created /\ mem'[w].bytes = Len(report'.lines)
      BY <1>t, <2>1 DEF Progresses
    <2>4. ChunkSound(w) /\ ReportClean /\ mem[w].done > job.done
      BY <1>a, <2>1 DEF AtPlace
    <2>5. Len(report.lines) = job.done /\ Len(lines[w]) = mem[w].done - job.done
      BY <2>4 DEF ChunkSound, ReportClean
    <2>6. /\ Len(report'.lines) = mem[w].done
          /\ \A i \in 1..job.done : report'.lines[i] = report.lines[i]
          /\ \A i \in 1..Len(lines[w]) : report'.lines[job.done + i] = lines[w][i]
      <3> DEFINE both == report.lines \o lines[w]
      <3>1. report.lines \in Seq(Lines) /\ lines[w] \in Seq(Lines)
        BY <1>t
      <3>2. /\ Len(both) = Len(report.lines) + Len(lines[w])
            /\ \A i \in 1..Len(report.lines) : both[i] = report.lines[i]
            /\ \A i \in 1..Len(lines[w]) : both[Len(report.lines) + i] = lines[w][i]
        BY <3>1, Appended
      <3>3. report'.lines = both
        BY <2>2
      <3> HIDE DEF both
      <3>4. Len(both) = mem[w].done
        BY <1>j, <1>m, <2>5, <3>2
      <3>5. \A i \in 1..Len(lines[w]) : both[job.done + i] = lines[w][i]
        BY <2>5, <3>2
      <3>6. \A i \in 1..job.done : both[i] = report.lines[i]
        BY <2>5, <3>2
      <3> QED BY <3>3, <3>4, <3>5, <3>6
    <2>7. Reports(report.lines, job.done)'
      <3>1. made' = made /\ job' = job /\ Reports(report.lines, job.done) /\ job.done <= mem[w].done
        BY <2>1, <2>4 DEF ReportClean, ChunkSound
      <3>2. job.done <= Len(report'.lines) /\ \A i \in 1..job.done : report'.lines[i] = report.lines[i]
        <4>1. mem[w].done \in Nat /\ job.done \in Nat
          BY <1>j, <1>m
        <4> QED BY <2>6, <3>1, <4>1
      <3> QED BY <3>1, <3>2 DEF Reports
    <2>8. ASSUME NEW i \in job.done + 1 .. mem[w].done
          PROVE  report'.lines[i].row = i /\ (report'.lines[i].action = "created" <=> i \in tx[w])
      <3>1. i - job.done \in 1..Len(lines[w]) /\ job.done + (i - job.done) = i
        BY <1>j, <1>m, <2>5, SMTT(30)
      <3>2. /\ lines[w][i - job.done].row = job.done + (i - job.done)
            /\ lines[w][i - job.done].action = "created" <=> job.done + (i - job.done) \in tx[w]
        BY <2>4, <3>1 DEF ChunkSound
      <3> QED BY <2>6, <3>1, <3>2
    <2>9. ChunkSound(w)'
      BY <2>1, <2>3, <2>4 DEF ChunkSound
    <2>10. ReportAhead(w)'
      BY <2>1, <2>2, <2>3, <2>6, <2>7, <2>8 DEF ReportAhead
    <2>11. AtPlace(w)'
      BY <1>g, <2>1, <2>3, <2>4, <2>9, <2>10 DEF AtPlace
    <2>12. ReportConfirmed'
      <3>1. job.done > 0 => job.bytes = job.done
        BY <1>a, <2>4 DEF Trailer, ChunkSound
      <3>2. job.done <= Len(report'.lines) /\ (job.done > 0 => job.bytes <= Len(report'.lines))
        BY <1>j, <1>m, <2>4, <2>6, <3>1
      <3>3. job.done > 0 => \A i \in job.done + 1 .. job.bytes : report'.lines[i] = Summary
        BY <1>j, <3>1
      <3>4. ASSUME job.done > 0
            PROVE  /\ job.done <= job.bytes /\ job.bytes <= Len(report'.lines)
                   /\ \A i \in job.done + 1 .. job.bytes : report'.lines[i] = Summary
        BY <1>j, <3>1, <3>2, <3>3, <3>4
      <3>5. job' = job
        BY <2>1
      <3> QED BY <2>2, <2>7, <3>4, <3>5 DEF ReportConfirmed
    <2>13. Accounts'
      BY <1>a, <2>1, <2>12 DEF Accounts, Trailer, ImportAccounted, CreatedOnce, TableAccounted
    <2> QED BY <1>g, <1>l, <2>1, <2>11, <2>13 DEF Kept, InChunk
  <1>8. CASE Commit(w)
    <2>1. /\ pc[w] = "commit" /\ Goto(w, "check") /\ UNCHANGED <<mem, report>> /\ job' = Checkpoint(w)
          /\ made' = [r \in Rows |-> IF r \in tx[w] THEN made[r] + 1 ELSE made[r]]
          /\ tx' = [tx EXCEPT ![w] = {}]
      BY <1>8 DEF Commit
    <2>2. /\ job'.done = mem[w].done /\ job'.created = mem[w].created /\ job'.bytes = mem[w].bytes
          /\ job'.status = job.status
      BY <1>t, <2>1 DEF Checkpoint, JobRecords
    <2>3. tx'[w] = {} /\ \A v \in Runners \ {w} : tx'[v] = tx[v]
      BY <1>t, <2>1
    <2>4. ChunkSound(w) /\ ReportAhead(w) /\ mem[w].done > job.done
      BY <1>a, <2>1 DEF AtPlace
    <2>5. tx[w] \in SUBSET (job.done + 1 .. N)
      BY <1>j, <1>m, <2>4, Assumed DEF ChunkSound
    <2>6. ASSUME NEW r \in Rows
          PROVE  /\ r \in tx[w] => made[r] = 0 /\ made'[r] = 1
                 /\ r \notin tx[w] => made'[r] = made[r]
                 /\ r > job.done => made[r] = 0
      <3>1. made[r] \in Nat /\ r \in Int /\ (made[r] > 0 => r <= job.done)
        <4>1. made[r] \in Nat
          BY <1>t
        <4>2. r \in Int
          BY Assumed DEF Rows
        <4> QED BY <1>a, <4>1, <4>2 DEF TableAccounted
      <3>2. r \in tx[w] => r > job.done
        BY <1>j, <2>5
      <3> QED BY <1>j, <2>1, <3>1, <3>2
    <2>7. CreatedOnce'
      BY <2>6 DEF CreatedOnce, IInv, ImportAccounted
    <2>8. TableAccounted'
      <3>1. {r \in Rows : made'[r] > 0} = {r \in Rows : made[r] > 0} \cup tx[w]
        BY <1>t, <2>6
      <3>2. Cardinality({r \in Rows : made[r] > 0} \cup tx[w]) = job.created + Cardinality(tx[w])
        BY <1>a, <2>5, CountChunk DEF IInv
      <3>3. job'.created = Cardinality({r \in Rows : made'[r] > 0})
        BY <2>2, <2>4, <3>1, <3>2 DEF ChunkSound
      <3>4. \A r \in Rows : made'[r] > 0 => r <= job'.done
        BY <1>a, <1>j, <1>m, <2>2, <2>4, <2>6 DEF TableAccounted, ChunkSound, Rows
      <3> QED BY <3>3, <3>4 DEF TableAccounted
    <2>9. Reports(report.lines, job.done)'
      <3>1. report.there /\ Len(report.lines) = mem[w].done /\ Reports(report.lines, job.done)
        BY <2>4 DEF ReportAhead
      <3>2. ASSUME NEW i \in 1..mem[w].done
            PROVE  report.lines[i].row = i /\ (report.lines[i].action = "created" <=> made'[i] = 1)
        <4>1. i \in Rows
          BY <1>m, Assumed DEF Rows
        <4>2. CASE i \in 1..job.done
          <5>1. i \notin tx[w]
            BY <1>j, <2>5, <4>2
          <5> QED BY <2>6, <3>1, <4>1, <4>2, <5>1 DEF Reports
        <4>3. CASE i \in job.done + 1 .. mem[w].done
          <5>1. report.lines[i].row = i /\ (report.lines[i].action = "created" <=> i \in tx[w])
            BY <2>4, <4>3 DEF ReportAhead
          <5>2. made'[i] = 1 <=> i \in tx[w]
            BY <1>j, <2>6, <4>1, <4>3
          <5> QED BY <5>1, <5>2
        <4> QED BY <1>j, <1>m, <4>2, <4>3
      <3> QED BY <1>m, <2>1, <2>2, <3>1, <3>2 DEF Reports
    <2>10. job'.bytes = job'.done /\ report'.there /\ Len(report'.lines) = job'.done
      BY <2>1, <2>2, <2>4 DEF ReportAhead
    <2>11. ReportConfirmed' /\ ReportClean' /\ Trailer'
      BY <1>m, <2>2, <2>9, <2>10 DEF ReportConfirmed, ReportClean, Trailer
    <2>12. AtPlace(w)'
      BY <1>g, <2>1, <2>2, <2>11 DEF AtPlace, Same
    <2> QED BY <1>g, <1>l, <2>1, <2>2, <2>3, <2>7, <2>8, <2>11, <2>12 DEF Kept, Accounts, ImportAccounted
  <1>9. CASE WriteSummary(w)
    <2>1. /\ pc[w] = "summary" /\ Goto(w, "confirm") /\ UNCHANGED <<job, tx, lines, made>>
          /\ report' = Report(Append(report.lines, Summary)) /\ mem' = [mem EXCEPT ![w].bytes = Len(report'.lines)]
      BY <1>9 DEF WriteSummary
    <2>2. report'.lines = Append(report.lines, Summary) /\ report'.there
      BY <2>1 DEF Report
    <2>3. mem'[w].done = mem[w].done /\ mem'[w].created = mem[w].created /\ mem'[w].bytes = Len(report'.lines)
      BY <1>t, <2>1 DEF Progresses
    <2>4. Finished(w) /\ ReportClean
      BY <1>a, <2>1 DEF AtPlace
    <2>5. /\ Len(report'.lines) = Len(report.lines) + 1 /\ report'.lines[Len(report.lines) + 1] = Summary
          /\ \A i \in 1..Len(report.lines) : report'.lines[i] = report.lines[i]
      BY <1>t, <2>2, LineTypes
    <2>6. Len(report.lines) \in Nat /\ Reports(report.lines, job.done) /\ job.done <= Len(report.lines)
      BY <1>t, <2>4 DEF ReportClean, Reports
    <2>7. Reports(report.lines, job.done)'
      BY <1>j, <2>1, <2>5, <2>6 DEF Reports
    <2>8. \A i \in job.done + 1 .. Len(report'.lines) : report'.lines[i] = Summary
      <3>1. \A i \in job.done + 1 .. Len(report.lines) : report.lines[i] = Summary
        BY <2>4 DEF ReportClean
      <3>2. SUFFICES ASSUME NEW i \in job.done + 1 .. Len(report'.lines) PROVE report'.lines[i] = Summary
        OBVIOUS
      <3>3. CASE i = Len(report.lines) + 1
        BY <2>5, <3>3
      <3>4. CASE i \in job.done + 1 .. Len(report.lines)
        <4>1. i \in 1..Len(report.lines)
          BY <1>j, <2>6, <3>4
        <4>2. report'.lines[i] = report.lines[i]
          BY <2>5, <4>1
        <4> QED BY <3>1, <3>4, <4>2
      <3> QED BY <1>j, <2>5, <2>6, <3>3, <3>4
    <2>9. ReportClean'
      <3>1. job.done = N /\ job' = job
        BY <2>1, <2>4 DEF Finished
      <3>2. ~(job'.done < N)
        BY <3>1, Assumed
      <3> QED BY <2>2, <2>7, <2>8, <3>1, <3>2 DEF ReportClean
    <2>10. AtPlace(w)'
      BY <1>g, <2>1, <2>3, <2>4, <2>9 DEF AtPlace, Finished, Same
    <2>11. ReportConfirmed'
      BY <1>a, <1>j, <1>l, <2>1, <2>2, <2>5, <2>6, <2>7 DEF ReportConfirmed
    <2>12. Accounts'
      BY <1>a, <2>1, <2>11 DEF Accounts, Trailer, ImportAccounted, CreatedOnce, TableAccounted
    <2> QED BY <1>g, <1>l, <1>x, <2>1, <2>10, <2>12 DEF Kept, InChunk
  <1>10. CASE ConfirmSummary(w)
    <2>1. /\ pc[w] = "confirm" /\ Goto(w, "publish") /\ UNCHANGED <<mem, tx, report, made>>
          /\ job' = [job EXCEPT !.bytes = mem[w].bytes]
      BY <1>10 DEF ConfirmSummary
    <2>2. job'.done = job.done /\ job'.created = job.created /\ job'.bytes = mem[w].bytes /\ job'.status = job.status
      BY <1>t, <2>1 DEF JobRecords
    <2>3. Finished(w) /\ ReportClean /\ mem[w].bytes = Len(report.lines)
      BY <1>a, <2>1 DEF AtPlace
    <2>4. AtPlace(w)'
      BY <1>g, <2>1, <2>2, <2>3 DEF AtPlace, Finished
    <2>5. ReportConfirmed'
      BY <1>j, <2>1, <2>2, <2>3 DEF ReportConfirmed, ReportClean, Reports
    <2>6. Trailer' /\ CreatedOnce' /\ TableAccounted'
      <3>1. job.done = N /\ ~(job'.done < N)
        BY <2>2, <2>3, Assumed DEF Finished
      <3>2. CreatedOnce'
        BY <1>a, <2>1 DEF Accounts, ImportAccounted, CreatedOnce
      <3>3. TableAccounted'
        BY <1>a, <2>1, <2>2 DEF TableAccounted
      <3> QED BY <3>1, <3>2, <3>3 DEF Trailer
    <2> QED BY <1>g, <1>l, <1>x, <2>1, <2>2, <2>4, <2>5, <2>6 DEF Kept, InChunk, Accounts, ImportAccounted
  <1> QED BY <1>1, <1>2, <1>3, <1>4, <1>5, <1>6, <1>7, <1>8, <1>9, <1>10 DEF Run

LEMMA StepInv == ASSUME Setting, IInv, [Next]_vars PROVE IInv'
  <1>t. TypeInv' /\ pc \in [Runners -> Steps] /\ job \in JobRecords /\ tx \in [Runners -> SUBSET Rows]
    BY StepType DEF IInv, TypeInv, TypeOK, JobRecords
  <1>a. Accounts /\ OneRunner /\ NoRowsPending /\ \A v \in Runners : AtPlace(v)
    BY DEF IInv, Accounts
  <1>q. ASSUME Accounts', OneRunner', NoRowsPending', \A v \in Runners : AtPlace(v)' PROVE IInv'
    BY <1>t, <1>q DEF IInv, Accounts
  <1>k. ASSUME NEW w \in Runners, Live(w), Kept(w) PROVE IInv'
    BY <1>t, <1>a, <1>q, <1>k, Alone DEF Kept
  <1>1. ASSUME NEW w \in Runners, Run(w) PROVE IInv'
    <2>1. Live(w)
      BY <1>1 DEF Run, ResumeReset, Claim, Skip, Load, Prepare, Fetch, NoMoreRows, LookUp, StoreRow,
                  ReportChunk, Commit, CheckStatus, WriteSummary, ConfirmSummary, Publish, Complete,
                  RecordFailure, Live
    <2> QED BY <1>1, <1>k, <1>t, <2>1, RunKeeps
  <1>2. ASSUME NEW w \in Runners, ResumeFind(w) PROVE IInv'
    <2>1. /\ \A v \in Runners : pc[v] = "idle" /\ job.status # "completed"
          /\ Goto(w, "reset") /\ UNCHANGED <<job, tx, report, made>>
      BY <1>2 DEF ResumeFind, Setting, Live, Unfinished
    <2>2. pc'[w] = "reset" /\ \A v \in Runners \ {w} : pc'[v] = "idle"
      BY <1>t, <2>1 DEF Goto
    <2>3. OneRunner'
      BY <2>1, <2>2 DEF OneRunner, Live
    <2>4. NoRowsPending'
      BY <1>a, <2>1 DEF NoRowsPending, InChunk
    <2>5. \A v \in Runners : AtPlace(v)'
      BY <2>2 DEF AtPlace
    <2> QED BY <1>a, <1>q, <2>1, <2>3, <2>4, <2>5, SameAccounts
  <1>3. ASSUME NEW w \in Runners, Raise(w) \/ Crash(w) PROVE IInv'
    <2>1. PICK l \in {"fail", "idle"} : Goto(w, l)
      BY <1>3 DEF Raise, Crash
    <2>2. Live(w) /\ tx' = [tx EXCEPT ![w] = {}] /\ UNCHANGED <<job, report, made>>
      BY <1>3 DEF Raise, Crash, Live, InRun, InChunk
    <2>3. /\ pc'[w] = l /\ tx'[w] = {}
          /\ \A v \in Runners \ {w} : pc'[v] = pc[v] /\ tx'[v] = tx[v]
      BY <1>t, <2>1, <2>2 DEF Goto
    <2>4. AtPlace(w)'
      BY <2>3 DEF AtPlace
    <2>5. job'.status # "completed"
      BY <1>a, <2>2 DEF OneRunner
    <2>6. Accounts'
      BY <1>a, <2>2, SameAccounts
    <2> QED BY <1>k, <2>2, <2>3, <2>4, <2>5, <2>6 DEF Kept
  <1>4. CASE Cancel
    <2>1. /\ job'.status = "cancelled" /\ job'.done = job.done /\ job'.created = job.created /\ job'.bytes = job.bytes
          /\ job.status # "completed" /\ UNCHANGED <<pc, mem, tx, lines, report, made>>
      BY <1>4, <1>t DEF Cancel, JobRecords
    <2>2. Accounts'
      BY <1>a, <2>1, SameAccounts
    <2>3. OneRunner' /\ NoRowsPending'
      BY <1>a, <2>1 DEF OneRunner, Live, NoRowsPending
    <2>4. ASSUME NEW v \in Runners PROVE AtPlace(v)'
      <3>1. AtPlace(v)
        BY <1>a
      <3> QED BY <2>1, <3>1 DEF AtPlace, Same, Finished, ReportClean, Reports, ChunkSound, ReportAhead
    <2> QED BY <1>q, <2>2, <2>3, <2>4
  <1>5. CASE SweepReport
    <2>1. job.status = "completed" /\ (\A v \in Runners : pc[v] = "idle") /\ UNCHANGED <<job, pc, tx, made>>
      BY <1>5 DEF SweepReport, Setting, Live
    <2>2. Accounts'
      BY <1>a, <2>1 DEF Accounts, Trailer, ImportAccounted, CreatedOnce, TableAccounted, ReportConfirmed
    <2>3. OneRunner' /\ NoRowsPending'
      BY <1>a, <2>1 DEF OneRunner, Live, NoRowsPending
    <2>4. \A v \in Runners : AtPlace(v)'
      BY <2>1 DEF AtPlace
    <2> QED BY <1>q, <2>2, <2>3, <2>4
  <1>6. CASE (\E k \in Keys : OtherInsert(k)) \/ UNCHANGED vars
    <2>1. UNCHANGED <<job, pc, mem, tx, lines, report, made>>
      BY <1>6 DEF OtherInsert, vars
    <2>2. Accounts'
      BY <1>a, <2>1, SameAccounts
    <2>3. OneRunner' /\ NoRowsPending'
      BY <1>a, <2>1 DEF OneRunner, Live, NoRowsPending
    <2>4. ASSUME NEW v \in Runners PROVE AtPlace(v)'
      <3>1. AtPlace(v)
        BY <1>a
      <3> QED BY <2>1, <3>1 DEF AtPlace, Same, Finished, ReportClean, Reports, ChunkSound, ReportAhead
    <2> QED BY <1>q, <2>2, <2>3, <2>4
  <1> QED BY <1>1, <1>2, <1>3, <1>4, <1>5, <1>6 DEF Next

LEMMA Invariance == ASSUME Setting PROVE Spec => []IInv
  <1>1. IInv /\ [Next]_vars => IInv'
    BY StepInv
  <1> QED BY InitInv, <1>1, PTL DEF Spec

\* Whenever crashes, exceptions, cancels and other transactions' inserts come,
\* for every file, chunk size and number of resumes: no row of the file creates
\* two records, the counters say what is in the table, and the report confirms
\* what the checkpoint claims (importing.py:47-57, :791).
THEOREM ImportAccountedHolds == ASSUME Setting PROVE Spec => []ImportAccounted
  <1>1. IInv => ImportAccounted
    BY DEF IInv
  <1> QED BY <1>1, Invariance, PTL

\* No step takes back or rewrites the line of a row that is confirmed, while
\* the job is open.
THEOREM ConfirmedLinesStayHolds == ASSUME Setting PROVE Spec => ConfirmedLinesStay
  <1>1. ASSUME IInv, [Next]_vars, job.status # "completed"
        PROVE  /\ job.done <= Len(report'.lines)
               /\ \A i \in 1..job.done : report'.lines[i] = report.lines[i]
    <2>t. /\ job.done \in 0..N /\ job.bytes \in Nat /\ report.lines \in Seq(Lines) /\ mem \in [Runners -> Progresses]
          /\ \A w \in Runners : lines[w] \in Seq(Lines)
      BY <1>1 DEF IInv, TypeInv, TypeOK
    <2>c. job.done > 0 => job.done <= job.bytes /\ job.bytes <= Len(report.lines) /\ report.there
      BY <1>1 DEF IInv, ImportAccounted, ReportConfirmed
    <2>l. Len(report.lines) \in Nat /\ job.done <= Len(report.lines)
      BY <2>t, <2>c, Assumed
    <2>1. CASE report' = report
      BY <2>l, <2>1
    <2>2. ASSUME NEW w \in Runners, Prepare(w)
          PROVE  job.done <= Len(report'.lines) /\ \A i \in 1..job.done : report'.lines[i] = report.lines[i]
      <3>1. mem[w].done = job.done /\ mem[w].bytes = job.bytes
        BY <1>1, <2>2 DEF IInv, AtPlace, Prepare, Progress
      <3>2. CASE job.done = 0
        <4>1. report'.lines = <<>>
          BY <2>2, <3>1, <3>2 DEF Prepare, Report
        <4> QED BY <3>2, <4>1
      <3>3. CASE job.done # 0
        <4>1. report'.lines = CutTo(report.lines, job.bytes)
          BY <2>2, <2>c, <2>t, <3>1, <3>3, Assumed DEF Prepare, Report
        <4>2. Len(report'.lines) = job.bytes /\ \A i \in 1..job.bytes : i \in 1..Len(report.lines) => report'.lines[i] = report.lines[i]
          BY <2>t, <4>1 DEF CutTo
        <4> QED BY <2>c, <2>t, <2>l, <3>3, <4>2, Assumed
      <3> QED BY <3>2, <3>3
    <2>3. ASSUME NEW w \in Runners, ReportChunk(w)
          PROVE  job.done <= Len(report'.lines) /\ \A i \in 1..job.done : report'.lines[i] = report.lines[i]
      <3>1. report'.lines = report.lines \o lines[w]
        BY <2>3 DEF ReportChunk, Report
      <3> DEFINE both == report.lines \o lines[w]
      <3>2. report.lines \in Seq(Lines) /\ lines[w] \in Seq(Lines) /\ Len(lines[w]) \in Nat
        BY <2>t
      <3>3. Len(both) = Len(report.lines) + Len(lines[w]) /\ \A i \in 1..Len(report.lines) : both[i] = report.lines[i]
        BY <3>2, Appended
      <3>4. report'.lines = both
        BY <3>1
      <3>5. job.done \in Nat
        BY <2>t, Assumed
      <3> HIDE DEF both
      <3>6. 1..job.done \subseteq 1..Len(report.lines)
        BY <2>l, <3>5
      <3>7. job.done <= Len(both)
        <4>1. Len(both) = Len(report.lines) + Len(lines[w])
          BY <3>3
        <4>2. Len(report.lines) \in Nat /\ Len(lines[w]) \in Nat /\ job.done <= Len(report.lines)
          BY <2>l, <3>2
        <4>3. \A a, b, c \in Nat : a <= b => a <= b + c
          OBVIOUS
        <4> QED BY <3>5, <4>1, <4>2, <4>3, Zenon
      <3> QED BY <3>3, <3>4, <3>6, <3>7
    <2>4. ASSUME NEW w \in Runners, WriteSummary(w)
          PROVE  job.done <= Len(report'.lines) /\ \A i \in 1..job.done : report'.lines[i] = report.lines[i]
      <3>1. report'.lines = Append(report.lines, Summary)
        BY <2>4 DEF WriteSummary, Report
      <3>2. Len(report'.lines) = Len(report.lines) + 1 /\ \A i \in 1..Len(report.lines) : report'.lines[i] = report.lines[i]
        BY <2>t, <3>1, LineTypes
      <3> QED BY <2>l, <2>t, <3>2, Assumed
    <2>5. ~SweepReport
      BY <1>1 DEF SweepReport, Setting
    <2>6. \/ report' = report
          \/ \E w \in Runners : Prepare(w) \/ ReportChunk(w) \/ WriteSummary(w)
      BY <1>1, <2>5 DEF Next, Run, ResumeReset, Claim, Skip, Load, Fetch, NoMoreRows, LookUp, StoreRow, Commit,
                        CheckStatus, ConfirmSummary, Publish, Complete, RecordFailure, ResumeFind, Raise,
                        Crash, Cancel, OtherInsert, vars
    <2> QED BY <2>1, <2>2, <2>3, <2>4, <2>6
  <1>2. IInv /\ [Next]_vars =>
          [job.status # "completed" =>
             /\ job.done <= Len(report'.lines)
             /\ \A i \in 1..job.done : report'.lines[i] = report.lines[i]]_vars
    BY <1>1
  <1> QED BY <1>2, Invariance, PTL DEF Spec, ConfirmedLinesStay
=============================================================================
