------------------------ MODULE RetentionPurgeProofs ------------------------
(***************************************************************************)
(* Safety of the retention purge for every table, tree and sharing of      *)
(* files, whatever fails: the bookkeeping in every case, and what the      *)
(* three stores keep when no deadline is edited during a purge.            *)
(***************************************************************************)
EXTENDS RetentionPurge, TLAPS

(***************************************************************************)
(* Types.  The row of a pass is still remaining and has had its turn; the  *)
(* bulk path has no turns.                                                 *)
(***************************************************************************)
TargetInv ==
    /\ run.target # NoRow => at \in {"files", "delete"} /\ run.target \in run.remaining \ run.turn
    /\ run.target = NoRow /\ at \in {"check", "list", "files", "delete"} => run.turn = {}

TypeInv == PurgeTypes /\ TargetInv

Runs == [purging : SUBSET Pks, remaining : SUBSET Pks, turn : SUBSET Pks,
         target : Pks \cup {NoRow}, todo : SUBSET Files, progress : BOOLEAN,
         deleted : SUBSET Pks, failed : BOOLEAN, removed : SUBSET Files]

\* What the assumptions say of a layout and of the keys.
LEMMA LayoutType ==
    ASSUME layout \in Layouts
    PROVE  (\A p \in Pks : layout.names[p] \subseteq Files) /\ NoRow \notin Pks
  BY PurgeAssumption

LEMMA InitType == PurgeInit => TypeInv
  <1> SUFFICES ASSUME PurgeInit PROVE TypeInv
    OBVIOUS
  <1>1. files \subseteq Files
    BY LayoutType DEF PurgeInit
  <1> QED
    BY <1>1, PurgeAssumption DEF PurgeInit, TypeInv, PurgeTypes, TargetInv, Fresh

\* Every way a purge stops leaves an idle, empty run and a typed result.
LEMMA StopType ==
    ASSUME NEW how \in {"done", "failed"}, NEW r \in Runs, Stop(how, r)
    PROVE  /\ at' = "idle" /\ run' = Fresh({}) /\ TargetInv'
           /\ ended' \in [how : {"none", "done", "failed"}, purging : SUBSET Pks, deleted : SUBSET Pks,
                          kept : SUBSET Pks, removed : SUBSET Files]
  BY DEF Stop, Runs, TargetInv, Fresh

LEMMA FreshType ==
    ASSUME NEW S \in SUBSET Pks
    PROVE  /\ Fresh(S) \in Runs /\ Fresh(S).deleted \cup Fresh(S).remaining = Fresh(S).purging
           /\ Fresh(S).deleted \cap Fresh(S).remaining = {} /\ Fresh(S).turn = {}
           /\ Fresh(S).target = NoRow
  BY DEF Fresh, Runs

\* What a step does to the run, when it keeps the rest in its type.
StepOK ==
    /\ rows' \subseteq Pks /\ layout' \in Layouts /\ due' \in [Pks -> BOOLEAN]
    /\ guarded' \subseteq Pks /\ files' \subseteq Files /\ docs' \subseteq Pks
    /\ purgeFaults' \in 0 .. MaxPurgeFaults /\ edits' \in 0 .. MaxEdits

LEMMA StopKeepsType ==
    ASSUME NEW how \in {"done", "failed"}, NEW r \in Runs, Stop(how, r), StepOK
    PROVE  TypeInv'
  <1>1. Fresh({}) \in Runs /\ Fresh({}).deleted \cup Fresh({}).remaining = Fresh({}).purging
        /\ Fresh({}).deleted \cap Fresh({}).remaining = {} /\ Fresh({}).turn = {}
    BY FreshType
  <1> QED
    BY <1>1, StopType DEF StepOK, TypeInv, PurgeTypes, Runs

\* The file pass sets the list of files and the failure flag only.
LEMMA ForFilesType ==
    ASSUME layout \in Layouts, NEW r \in Runs, NEW S \in SUBSET Pks
    PROVE  /\ ForFiles(r, S) \in Runs /\ ForFiles(r, S).purging = r.purging
           /\ ForFiles(r, S).remaining = r.remaining /\ ForFiles(r, S).turn = r.turn
           /\ ForFiles(r, S).target = r.target /\ ForFiles(r, S).deleted = r.deleted
           /\ ForFiles(r, S).removed = r.removed /\ ForFiles(r, S).failed = FALSE
           /\ ForFiles(r, S).todo = UNION {layout.names[p] : p \in S}
  <1>1. UNION {layout.names[p] : p \in S} \in SUBSET Files
    BY LayoutType
  <1>2. \A T \in SUBSET Files : [r EXCEPT !.todo = T, !.failed = FALSE] \in Runs
    BY DEF Runs
  <1>3. ForFiles(r, S) \in Runs
    BY <1>1, <1>2 DEF ForFiles
  <1> QED
    BY <1>3 DEF ForFiles, Runs

LEMMA FaultType ==
    ASSUME NEW kind, PurgeFault(kind), purgeFaults \in 0 .. MaxPurgeFaults
    PROVE  purgeFaults' \in 0 .. MaxPurgeFaults
  BY PurgeAssumption DEF PurgeFault

LEMMA StepType == TypeInv /\ [PurgeNext]_purgeVars => TypeInv'
  <1> SUFFICES ASSUME TypeInv, [PurgeNext]_purgeVars PROVE TypeInv'
    OBVIOUS
  <1>t. PurgeTypes /\ TargetInv /\ run \in Runs
    BY DEF TypeInv, PurgeTypes, Runs
  <1>l. (\A p \in Pks : layout.names[p] \subseteq Files) /\ NoRow \notin Pks
    BY LayoutType DEF TypeInv, PurgeTypes
  <1> USE DEF world, surroundings
  <1>1. CASE Start
    <2>1. Fresh(DueRows) \in Runs /\ Fresh(DueRows).deleted \cup Fresh(DueRows).remaining = Fresh(DueRows).purging
          /\ Fresh(DueRows).deleted \cap Fresh(DueRows).remaining = {} /\ Fresh(DueRows).turn = {}
          /\ Fresh(DueRows).target = NoRow
      BY FreshType, <1>t DEF DueRows, PurgeTypes
    <2> QED BY <1>1, <1>t, <2>1 DEF Start, TypeInv, PurgeTypes, TargetInv, Runs
  <1>2. CASE Check
    BY <1>2, <1>t DEF Check, AfterCheck, TypeInv, PurgeTypes, TargetInv
  <1>3. CASE ListFiles
    <2>1. DueRows \in SUBSET Pks /\ layout \in Layouts
      BY <1>t DEF DueRows, PurgeTypes
    <2>2. run' = ForFiles(run, DueRows) /\ at = "list" /\ at' = "files"
      BY <1>3 DEF ListFiles
    <2> HIDE DEF DueRows
    <2>3. /\ run' \in Runs /\ run'.purging = run.purging /\ run'.remaining = run.remaining
          /\ run'.turn = run.turn /\ run'.target = run.target /\ run'.deleted = run.deleted
      BY <2>1, <2>2, <1>t, ForFilesType
    <2> QED BY <1>3, <1>t, <2>2, <2>3 DEF ListFiles, TypeInv, PurgeTypes, TargetInv, Runs
  <1>4. CASE FilesDone
    <2>1. StepOK
      BY <1>4, <1>t DEF FilesDone, StepOK, PurgeTypes
    <2>2. CASE run.failed
      BY <1>4, <1>t, <2>1, <2>2, StopKeepsType DEF FilesDone
    <2>3. CASE ~run.failed
      BY <1>4, <1>t, <2>3 DEF FilesDone, TypeInv, PurgeTypes, TargetInv
    <2> QED BY <2>2, <2>3
  <1>5. CASE DeleteDue
    <2>1. StepOK
      BY <1>5, <1>t DEF DeleteDue, StepOK, PurgeTypes
    <2>2. CASE Deletable(DueRows)
      <3>1. run.turn = {}
        BY <1>5, <1>t DEF DeleteDue, TargetInv
      <3>2. run' = [run EXCEPT !.deleted = run.purging, !.remaining = {}]
        BY <1>5, <2>2 DEF DeleteDue
      <3>3. /\ run' \in Runs /\ run'.deleted = run.purging /\ run'.purging = run.purging
            /\ run'.remaining = {} /\ run'.turn = {} /\ run'.target = run.target
        BY <1>t, <3>1, <3>2 DEF Runs
      <3> QED BY <1>5, <1>t, <2>1, <2>2, <3>3 DEF DeleteDue, StepOK, TypeInv, PurgeTypes, TargetInv, Runs
    <2>3. CASE ~Deletable(DueRows)
      BY <1>5, <1>t, <2>1, <2>3, StopKeepsType DEF DeleteDue
    <2> QED BY <2>2, <2>3
  <1>6. CASE NextPass
    <2>1. CASE run.remaining # {} /\ run.progress
      <3>1. run' = [run EXCEPT !.turn = run.remaining, !.progress = FALSE]
        BY <1>6, <2>1 DEF NextPass
      <3>2. /\ run' \in Runs /\ run'.deleted = run.deleted /\ run'.purging = run.purging
            /\ run'.remaining = run.remaining /\ run'.turn = run.remaining /\ run'.target = run.target
        BY <1>t, <3>1 DEF Runs
      <3> QED BY <1>6, <1>t, <2>1, <3>2 DEF NextPass, TypeInv, PurgeTypes, TargetInv, Runs
    <2>2. CASE ~(run.remaining # {} /\ run.progress)
      BY <1>6, <1>t, <2>2 DEF NextPass, TypeInv, PurgeTypes, TargetInv
    <2> QED BY <2>1, <2>2
  <1>7. CASE NextRow
    <2>1. PICK p \in run.turn :
             IF Deletable({p} \cap rows)
               THEN /\ run' = ForFiles([run EXCEPT !.turn = @ \ {p}, !.target = p], {p} \cap rows)
                    /\ at' = "files"
               ELSE run' = [run EXCEPT !.turn = @ \ {p}] /\ UNCHANGED at
      BY <1>7 DEF NextRow
    <2>2. at = "pass" /\ UNCHANGED <<rows, files, docs, layout, due, guarded, edits, ended, purgeFaults>>
      BY <1>7 DEF NextRow
    <2>3. p \in Pks /\ p \in run.remaining
      BY <1>t DEF PurgeTypes
    <2> DEFINE r == [run EXCEPT !.turn = @ \ {p}, !.target = p]
    <2>4. CASE Deletable({p} \cap rows)
      <3>1. /\ r \in Runs /\ r.purging = run.purging /\ r.remaining = run.remaining
            /\ r.turn = run.turn \ {p} /\ r.target = p /\ r.deleted = run.deleted
        BY <1>t, <2>3 DEF Runs
      <3>2. {p} \cap rows \in SUBSET Pks /\ layout \in Layouts
        BY <1>t DEF PurgeTypes
      <3>3. run' = ForFiles(r, {p} \cap rows) /\ at' = "files"
        BY <2>1, <2>4
      <3> HIDE DEF r
      <3>4. /\ run' \in Runs /\ run'.purging = run.purging /\ run'.remaining = run.remaining
            /\ run'.turn = run.turn \ {p} /\ run'.target = p /\ run'.deleted = run.deleted
        BY <3>1, <3>2, <3>3, ForFilesType
      <3> QED BY <1>t, <1>l, <2>2, <2>3, <3>3, <3>4 DEF TypeInv, PurgeTypes, TargetInv, Runs
    <2>5. CASE ~Deletable({p} \cap rows)
      <3>1. run' = [run EXCEPT !.turn = @ \ {p}] /\ UNCHANGED at
        BY <2>1, <2>5
      <3>2. /\ run' \in Runs /\ run'.purging = run.purging /\ run'.remaining = run.remaining
            /\ run'.turn = run.turn \ {p} /\ run'.target = run.target /\ run'.deleted = run.deleted
        BY <1>t, <3>1 DEF Runs
      <3> QED BY <1>t, <2>2, <3>1, <3>2 DEF TypeInv, PurgeTypes, TargetInv, Runs
    <2> QED BY <2>4, <2>5
  <1>8. CASE DeleteRow
    <2>1. StepOK
      BY <1>8, <1>t DEF DeleteRow, StepOK, PurgeTypes
    <2>2. CASE Deletable({run.target} \cap rows)
      <3>1. run' = [RowGone(run) EXCEPT !.target = NoRow] /\ at' = "pass"
        BY <1>8, <2>2 DEF DeleteRow
      <3>2. run.target \in run.remaining /\ run.target \notin run.turn
        BY <1>8, <1>t DEF DeleteRow, TargetInv
      <3>3. /\ run' \in Runs /\ run'.purging = run.purging /\ run'.turn = run.turn
            /\ run'.remaining = run.remaining \ {run.target}
            /\ run'.deleted = run.deleted \cup {run.target} /\ run'.target = NoRow
        BY <1>t, <3>1, <3>2 DEF Runs, RowGone
      <3>4. /\ run'.deleted \cup run'.remaining = run'.purging /\ run'.deleted \cap run'.remaining = {}
            /\ run'.turn \subseteq run'.remaining
        BY <1>t, <3>2, <3>3 DEF PurgeTypes
      <3> QED BY <1>8, <1>t, <2>1, <2>2, <3>1, <3>3, <3>4 DEF DeleteRow, StepOK, TypeInv, PurgeTypes, TargetInv, Runs
    <2>3. CASE ~Deletable({run.target} \cap rows)
      BY <1>8, <1>t, <2>1, <2>3, StopKeepsType DEF DeleteRow
    <2> QED BY <2>2, <2>3
  <1>9. CASE ClearMirror
    <2>1. StepOK
      BY <1>9, <1>t DEF ClearMirror, StepOK, PurgeTypes
    <2> QED BY <1>9, <1>t, <2>1, StopKeepsType DEF ClearMirror
  <1>10. CASE MirrorFails
    <2>1. StepOK
      BY <1>10, <1>t, FaultType DEF MirrorFails, StepOK, PurgeTypes
    <2> QED BY <1>10, <1>t, <2>1, StopKeepsType DEF MirrorFails
  <1>11. CASE Die
    <2>1. StepOK
      BY <1>11, <1>t, FaultType DEF Die, StepOK, PurgeTypes
    <2> QED BY <1>11, <1>t, <2>1, StopKeepsType DEF Die
  <1>12. ASSUME NEW f \in Files, PurgeFile(f) PROVE TypeInv'
    BY <1>12, <1>t DEF PurgeFile, TypeInv, PurgeTypes, TargetInv
  <1>13. ASSUME NEW f \in Files, FileFails(f) PROVE TypeInv'
    <2>1. purgeFaults' \in 0 .. MaxPurgeFaults
      BY <1>13, <1>t, FaultType DEF FileFails, PurgeTypes
    <2> QED BY <1>13, <1>t, <2>1 DEF FileFails, TypeInv, PurgeTypes, TargetInv
  <1>14. ASSUME NEW p \in Pks, MoveDeadline(p) \/ Reference(p) \/ Release(p) PROVE TypeInv'
    <2>1. edits' \in 0 .. MaxEdits
      BY <1>14, <1>t, PurgeAssumption DEF MoveDeadline, Reference, Release, Edit, PurgeTypes
    <2> QED BY <1>14, <1>t, <2>1 DEF MoveDeadline, Reference, Release, Edit, TypeInv, PurgeTypes, TargetInv
  <1>15. CASE UNCHANGED purgeVars
    BY <1>15 DEF purgeVars, TypeInv, PurgeTypes, TargetInv
  <1> QED
    BY <1>1, <1>2, <1>3, <1>4, <1>5, <1>6, <1>7, <1>8, <1>9, <1>10, <1>11, <1>12, <1>13, <1>14, <1>15
    DEF PurgeNext, Purge

\* Types and bookkeeping, also when deadlines are edited during a purge: a row
\* of purging_pks is counted as deleted or as remaining, never both.
THEOREM TypeCorrect == PurgeSpec => []PurgeTypes
  <1>1. PurgeSpec => []TypeInv
    BY InitType, StepType, PTL DEF PurgeSpec
  <1> QED
    BY <1>1, PTL DEF TypeInv

(***************************************************************************)
(* The passes.  While a pass has deleted nothing, the rows it has visited  *)
(* are protected; references are only added while a purge runs.            *)
(***************************************************************************)
PassInv ==
    /\ at \in {"pass", "files", "delete"} /\ ~run.progress =>
          \A p \in run.remaining \ (run.turn \cup {run.target}) : Protected(p)
    /\ at \in {"check", "list"} => run.progress
    /\ at \in {"files", "delete"} /\ run.target = NoRow => run.progress
    /\ at = "mirror" => \A p \in run.remaining : Protected(p)
    /\ at = "idle" => run.remaining = {}

LEMMA PassStep == TypeInv /\ PassInv /\ [PurgeNext]_purgeVars => PassInv'
  <1> SUFFICES ASSUME TypeInv, PassInv, [PurgeNext]_purgeVars PROVE PassInv'
    OBVIOUS
  <1>t. PurgeTypes /\ TargetInv /\ run \in Runs
    BY DEF TypeInv, PurgeTypes, Runs
  <1>n. NoRow \notin Pks /\ layout \in Layouts
    BY PurgeAssumption, <1>t DEF PurgeTypes
  <1>s. ASSUME NEW how, NEW r, Stop(how, r) PROVE PassInv'
    BY <1>s DEF Stop, Fresh, PassInv
  <1> USE DEF world, surroundings
  <1>1. CASE Start
    BY <1>1 DEF Start, Fresh, PassInv
  <1>2. CASE Check
    BY <1>2 DEF Check, AfterCheck, PassInv
  <1>3. CASE ListFiles
    <2>1. run'.progress = run.progress
      BY <1>3, <1>t DEF ListFiles, ForFiles, Runs
    <2> QED BY <1>3, <2>1 DEF ListFiles, PassInv
  <1>4. CASE FilesDone
    <2>1. CASE run.failed
      BY <1>4, <2>1, <1>s DEF FilesDone
    <2>2. CASE ~run.failed
      BY <1>4, <2>2 DEF FilesDone, PassInv, Protected
    <2> QED BY <2>1, <2>2
  <1>5. CASE DeleteDue
    <2>1. CASE Deletable(DueRows)
      <3>1. run'.remaining = {} /\ at' = "mirror"
        BY <1>5, <2>1, <1>t DEF DeleteDue, Runs
      <3> QED BY <3>1 DEF PassInv
    <2>2. CASE ~Deletable(DueRows)
      BY <1>5, <2>2, <1>s DEF DeleteDue
    <2> QED BY <2>1, <2>2
  <1>6. CASE NextPass
    <2>1. CASE run.remaining # {} /\ run.progress
      <3>1. run'.remaining = run.remaining /\ run'.turn = run.remaining /\ at' = "pass"
        BY <1>6, <2>1, <1>t DEF NextPass, Runs
      <3> QED BY <3>1 DEF PassInv
    <2>2. CASE ~(run.remaining # {} /\ run.progress)
      <3>1. at = "pass" /\ run.turn = {} /\ at' = "mirror" /\ UNCHANGED <<run, rows, layout, guarded>>
        BY <1>6, <2>2 DEF NextPass
      <3>2. run.target = NoRow
        BY <1>t, <3>1 DEF TargetInv
      <3>3. \A p \in run.remaining : Protected(p)
        BY <1>t, <1>n, <2>2, <3>1, <3>2 DEF PassInv, PurgeTypes
      <3> QED BY <3>1, <3>3 DEF PassInv, Protected
    <2> QED BY <2>1, <2>2
  <1>7. CASE NextRow
    <2>1. PICK p \in run.turn :
             IF Deletable({p} \cap rows)
               THEN /\ run' = ForFiles([run EXCEPT !.turn = @ \ {p}, !.target = p], {p} \cap rows)
                    /\ at' = "files"
               ELSE run' = [run EXCEPT !.turn = @ \ {p}] /\ UNCHANGED at
      BY <1>7 DEF NextRow
    <2>2. at = "pass" /\ UNCHANGED <<rows, layout, guarded>>
      BY <1>7 DEF NextRow
    <2>3. p \in Pks /\ p # NoRow /\ run.target = NoRow /\ p \in run.turn /\ NoRow \notin run.remaining
      BY <1>t, <1>n, <2>2 DEF PurgeTypes, TargetInv, Runs
    <2>4. CASE Deletable({p} \cap rows)
      <3>1. /\ run'.remaining = run.remaining /\ run'.turn = run.turn \ {p}
            /\ run'.target = p /\ run'.progress = run.progress
        BY <1>t, <2>1, <2>3, <2>4 DEF ForFiles, Runs
      <3> QED BY <2>1, <2>2, <2>3, <2>4, <3>1 DEF PassInv, Protected
    <2>5. CASE ~Deletable({p} \cap rows)
      <3>1. /\ run'.remaining = run.remaining /\ run'.turn = run.turn \ {p}
            /\ run'.target = NoRow /\ run'.progress = run.progress /\ at' = "pass"
        BY <1>t, <2>1, <2>2, <2>3, <2>5 DEF Runs
      <3>2. Protected(p)
        BY <2>5 DEF Deletable
      <3> QED BY <2>2, <2>3, <3>1, <3>2 DEF PassInv, Protected
    <2> QED BY <2>4, <2>5
  <1>8. CASE DeleteRow
    <2>1. CASE Deletable({run.target} \cap rows)
      <3>1. run'.progress /\ at' = "pass"
        BY <1>8, <2>1, <1>t DEF DeleteRow, RowGone, Runs
      <3> QED BY <3>1 DEF PassInv
    <2>2. CASE ~Deletable({run.target} \cap rows)
      BY <1>8, <2>2, <1>s DEF DeleteRow
    <2> QED BY <2>1, <2>2
  <1>9. CASE ClearMirror \/ MirrorFails \/ Die
    BY <1>9, <1>s DEF ClearMirror, MirrorFails, Die
  <1>10. ASSUME NEW f \in Files, PurgeFile(f) \/ FileFails(f) PROVE PassInv'
    <2>1. /\ run'.remaining = run.remaining /\ run'.turn = run.turn /\ run'.target = run.target
          /\ run'.progress = run.progress /\ UNCHANGED <<at, rows, layout, guarded>>
      BY <1>10, <1>t DEF PurgeFile, FileFails, Runs
    <2> QED BY <2>1 DEF PassInv, Protected
  <1>11. ASSUME NEW p \in Pks, MoveDeadline(p) \/ Reference(p) \/ Release(p) PROVE PassInv'
    <2>1. UNCHANGED <<at, run, rows, layout>>
      BY <1>11 DEF MoveDeadline, Reference, Release, Edit
    <2>2. CASE MoveDeadline(p) \/ Reference(p)
      <3>1. guarded \subseteq guarded'
        BY <2>2 DEF MoveDeadline, Reference
      <3> QED BY <2>1, <3>1 DEF PassInv, Protected
    <2>3. CASE Release(p)
      BY <2>1, <2>3 DEF Release, PassInv
    <2> QED BY <1>11, <2>2, <2>3
  <1>12. CASE UNCHANGED purgeVars
    BY <1>12 DEF purgeVars, PassInv, Protected
  <1> QED
    BY <1>1, <1>2, <1>3, <1>4, <1>5, <1>6, <1>7, <1>8, <1>9, <1>10, <1>11, <1>12 DEF PurgeNext, Purge

\* Only the purge that clears the mirror ends well.
LEMMA LeavesFirstStep ==
    ASSUME TypeInv, PassInv, [PurgeNext]_purgeVars, ended.how = "none", ended'.how = "done"
    PROVE  \A p \in ended'.kept : Protected(p)
  <1>1. ASSUME NEW r, Stop("failed", r) PROVE FALSE
    BY <1>1 DEF Stop
  <1>2. ClearMirror
    BY <1>1 DEF PurgeNext, Purge, purgeVars, Start, Check, ListFiles, FilesDone, DeleteDue, NextPass, NextRow,
       DeleteRow, MirrorFails, Die, PurgeFile, FileFails, MoveDeadline, Reference, Release, Edit, TypeInv, PurgeTypes
  <1> QED
    BY <1>2 DEF ClearMirror, Stop, PassInv

\* A purge that ends well keeps a row only because something that stays
\* references it, in whatever order the passes meet the rows and also when
\* deadlines are edited meanwhile.
THEOREM LeavesFirstHolds == PurgeSpec => LeavesFirst
  <1>1. PurgeInit => PassInv
    BY DEF PurgeInit, Fresh, PassInv
  <1>2. PurgeSpec => [](TypeInv /\ PassInv)
    BY <1>1, InitType, StepType, PassStep, PTL DEF PurgeSpec
  <1>3. TypeInv /\ PassInv /\ [PurgeNext]_purgeVars =>
          [ended.how = "none" /\ ended'.how = "done" => \A p \in ended'.kept : Protected(p)]_purgeVars
    BY LeavesFirstStep
  <1> QED
    BY <1>2, <1>3, PTL DEF PurgeSpec, LeavesFirst

(***************************************************************************)
(* The three stores.  The files of the rows about to go (Excluded) may be  *)
(* gone already; a file of any other row is where it was.                  *)
(***************************************************************************)
Selected ==
    /\ ended.how = "none"
    /\ \A p \in run.purging \cap rows : due[p]
    /\ run.deleted \cap rows = {} /\ run.remaining \subseteq rows
    /\ at \in {"check", "list", "files", "delete"} /\ run.target = NoRow =>
          run.purging = DueRows /\ run.deleted = {}

\* A removed file is named only by rows about to go.
RemovedInv ==
    \A f \in run.removed, p \in rows :
        f \in layout.names[p] => at \in {"files", "delete"} /\ p \in Excluded(run)

\* What the file pass leaves in the storage, somebody outside the batch names.
PassedInv ==
    at \in {"files", "delete"} =>
        \A p \in Excluded(run) : \A f \in layout.names[p] \cap files :
            (at = "files" /\ (f \in run.todo \/ run.failed)) \/ Referenced(f, Excluded(run))

RunInv == at # "idle" => Selected /\ RemovedInv /\ PassedInv

EndInv == KeptWhole /\ ReportHonest /\ MirrorExact

StoreInv == NoOrphanFile /\ rows \subseteq docs /\ RunInv /\ EndInv

LEMMA StoreInit == PurgeInit => StoreInv
  BY DEF PurgeInit, StoreInv, NoOrphanFile, RunInv, EndInv, KeptWhole, ReportHonest, MirrorExact

\* A purge that stops with an error leaves nothing to show of its run.
LEMMA StopSafe ==
    ASSUME NEW r, Stop("failed", r)
    PROVE  RunInv' /\ EndInv'
  BY DEF Stop, RunInv, EndInv, KeptWhole, ReportHonest, MirrorExact

\* While a purge runs there is no result yet.
LEMMA BusyEnd == ASSUME ended'.how = "none" PROVE EndInv'
  BY DEF EndInv, KeptWhole, ReportHonest, MirrorExact

LEMMA StoreStep == ~EditsDuringPurge /\ TypeInv /\ StoreInv /\ [PurgeNext]_purgeVars => StoreInv'
  <1> SUFFICES ASSUME ~EditsDuringPurge, TypeInv, StoreInv, [PurgeNext]_purgeVars PROVE StoreInv'
    OBVIOUS
  <1>t. PurgeTypes /\ TargetInv /\ run \in Runs
    BY DEF TypeInv, PurgeTypes, Runs
  <1>s. NoOrphanFile /\ rows \subseteq docs /\ RunInv /\ EndInv
    BY DEF StoreInv
  <1>b. ASSUME at # "idle" PROVE Selected /\ RemovedInv /\ PassedInv
    BY <1>b, <1>s DEF RunInv
  <1>k. ASSUME UNCHANGED <<rows, layout, files, docs>>, RunInv', EndInv' PROVE StoreInv'
    BY <1>k, <1>s DEF StoreInv, NoOrphanFile
  <1> USE DEF world, surroundings
  <1>1. CASE Start
    <2>1. run' = Fresh(DueRows) /\ at' = "check" /\ ended'.how = "none" /\ UNCHANGED <<rows, layout, files, docs, due>>
      BY <1>1, <1>t DEF Start, PurgeTypes
    <2>2. RunInv'
      BY <2>1 DEF RunInv, Selected, RemovedInv, PassedInv, Fresh, DueRows
    <2> QED BY <2>1, <2>2, <1>k, BusyEnd
  <1>2. CASE Check
    <2>1. /\ at = "check" /\ at' \in {"list", "pass"}
          /\ UNCHANGED <<rows, layout, files, docs, due, run, ended>>
      BY <1>2 DEF Check, AfterCheck
    <2>2. RunInv'
      BY <2>1, <1>b DEF RunInv, Selected, RemovedInv, PassedInv, DueRows, Excluded
    <2> QED BY <2>1, <2>2, <1>k, <1>b, BusyEnd DEF Selected
  <1>3. CASE ListFiles
    <2>1. /\ at = "list" /\ at' = "files" /\ run' = ForFiles(run, DueRows)
          /\ UNCHANGED <<rows, layout, files, docs, due, ended>>
      BY <1>3 DEF ListFiles
    <2>2. DueRows \in SUBSET Pks /\ layout \in Layouts
      BY <1>t DEF DueRows, PurgeTypes
    <2>3. /\ run'.purging = run.purging /\ run'.remaining = run.remaining /\ run'.target = run.target
          /\ run'.deleted = run.deleted /\ run'.removed = run.removed
          /\ run'.todo = UNION {layout.names[p] : p \in DueRows}
      BY <1>t, <2>1, <2>2, ForFilesType
    <2>4. run.target = NoRow /\ run.purging = DueRows
      BY <2>1, <1>t, <1>b DEF TargetInv, Selected
    <2>5. Selected' /\ RemovedInv'
      BY <2>1, <2>3, <1>b DEF Selected, RemovedInv, DueRows
    <2>6. PassedInv'
      BY <2>1, <2>3, <2>4 DEF PassedInv, Excluded
    <2> QED BY <2>1, <2>5, <2>6, <1>k, BusyEnd DEF RunInv, Selected
  <1>4. CASE FilesDone
    <2>1. at = "files" /\ run.todo = {} /\ UNCHANGED <<rows, layout, files, docs, due>>
      BY <1>4 DEF FilesDone
    <2>2. CASE run.failed
      BY <1>4, <2>1, <2>2, <1>k, StopSafe DEF FilesDone
    <2>3. CASE ~run.failed
      <3>1. at' = "delete" /\ UNCHANGED <<run, ended>>
        BY <1>4, <2>3 DEF FilesDone
      <3>2. Selected' /\ RemovedInv' /\ PassedInv'
        BY <2>1, <2>3, <3>1, <1>b DEF Selected, RemovedInv, PassedInv, DueRows, Excluded, Referenced
      <3> QED BY <2>1, <3>2, <1>k, BusyEnd DEF RunInv, Selected
    <2> QED BY <2>2, <2>3
  <1>5. CASE DeleteDue
    <2>1. at = "delete" /\ run.target = NoRow /\ UNCHANGED <<layout, files, docs, due>>
      BY <1>5 DEF DeleteDue
    <2>2. CASE ~Deletable(DueRows)
      BY <1>5, <2>1, <2>2, <1>k, StopSafe DEF DeleteDue
    <2>3. CASE Deletable(DueRows)
      <3>1. rows' = rows \ DueRows /\ at' = "mirror" /\ ended' = ended
        BY <1>5, <2>3 DEF DeleteDue
      <3>2. /\ run'.purging = run.purging /\ run'.deleted = run.purging /\ run'.remaining = {}
            /\ run'.removed = run.removed /\ run'.target = NoRow
        BY <1>5, <1>t, <2>1, <2>3 DEF DeleteDue, Runs
      <3>3. run.purging = DueRows /\ Excluded(run) = DueRows
        BY <2>1, <1>b DEF Selected, Excluded
      <3>4. NoOrphanFile'
        BY <2>1, <3>1, <3>3, <1>s, <1>b DEF NoOrphanFile, PassedInv, Referenced
      <3>5. Selected'
        BY <2>1, <3>1, <3>2, <3>3, <1>b DEF Selected
      <3>6. RemovedInv' /\ PassedInv'
        BY <2>1, <3>1, <3>2, <3>3, <1>b DEF RemovedInv, PassedInv
      <3> QED BY <2>1, <3>1, <3>4, <3>5, <3>6, <1>s, BusyEnd DEF StoreInv, RunInv, Selected
    <2> QED BY <2>2, <2>3
  <1>6. CASE NextPass
    <2>1. at = "pass" /\ at' \in {"pass", "mirror"} /\ UNCHANGED <<rows, layout, files, docs, due, ended>>
      BY <1>6 DEF NextPass
    <2>2. /\ run'.purging = run.purging /\ run'.deleted = run.deleted /\ run'.remaining = run.remaining
          /\ run'.removed = run.removed /\ run'.target = run.target
      BY <1>6, <1>t DEF NextPass, Runs
    <2>3. Selected' /\ RemovedInv' /\ PassedInv'
      BY <2>1, <2>2, <1>b DEF Selected, RemovedInv, PassedInv
    <2> QED BY <2>1, <2>3, <1>k, BusyEnd DEF RunInv, Selected
  <1>7. CASE NextRow
    <2>1. PICK p \in run.turn :
             IF Deletable({p} \cap rows)
               THEN /\ run' = ForFiles([run EXCEPT !.turn = @ \ {p}, !.target = p], {p} \cap rows)
                    /\ at' = "files"
               ELSE run' = [run EXCEPT !.turn = @ \ {p}] /\ UNCHANGED at
      BY <1>7 DEF NextRow
    <2>2. at = "pass" /\ UNCHANGED <<rows, layout, files, docs, due, ended>>
      BY <1>7 DEF NextRow
    <2>3. p \in rows /\ p \in Pks /\ p # NoRow /\ layout \in Layouts
      BY <1>t, <1>b, <2>2, LayoutType DEF PurgeTypes, Selected
    <2>4. CASE Deletable({p} \cap rows)
      <3>1. /\ run'.purging = run.purging /\ run'.deleted = run.deleted /\ run'.remaining = run.remaining
            /\ run'.removed = run.removed /\ run'.target = p
            /\ run'.todo = UNION {layout.names[q] : q \in {p} \cap rows}
        BY <1>t, <2>1, <2>3, <2>4 DEF ForFiles, Runs
      <3>2. Selected' /\ RemovedInv'
        BY <2>1, <2>2, <2>3, <2>4, <3>1, <1>b DEF Selected, RemovedInv
      <3>3. PassedInv'
        BY <2>1, <2>2, <2>3, <2>4, <3>1 DEF PassedInv, Excluded
      <3> QED BY <2>2, <3>2, <3>3, <1>k, BusyEnd DEF RunInv, Selected
    <2>5. CASE ~Deletable({p} \cap rows)
      <3>1. /\ run'.purging = run.purging /\ run'.deleted = run.deleted /\ run'.remaining = run.remaining
            /\ run'.removed = run.removed /\ run'.target = run.target /\ at' = "pass"
        BY <1>t, <2>1, <2>2, <2>5 DEF Runs
      <3>2. Selected' /\ RemovedInv' /\ PassedInv'
        BY <2>2, <3>1, <1>b DEF Selected, RemovedInv, PassedInv
      <3> QED BY <2>2, <3>2, <1>k, BusyEnd DEF RunInv, Selected
    <2> QED BY <2>4, <2>5
  <1>8. CASE DeleteRow
    <2>1. at = "delete" /\ run.target # NoRow /\ UNCHANGED <<layout, files, docs, due>>
      BY <1>8 DEF DeleteRow
    <2>2. CASE ~Deletable({run.target} \cap rows)
      BY <1>8, <2>1, <2>2, <1>k, StopSafe DEF DeleteRow
    <2>3. CASE Deletable({run.target} \cap rows)
      <3>1. rows' = rows \ {run.target} /\ at' = "pass" /\ ended' = ended
        BY <1>8, <2>3 DEF DeleteRow
      <3>2. /\ run'.purging = run.purging /\ run'.deleted = run.deleted \cup {run.target}
            /\ run'.remaining = run.remaining \ {run.target} /\ run'.removed = run.removed
        BY <1>8, <1>t, <2>1, <2>3 DEF DeleteRow, RowGone, Runs
      <3>3. Excluded(run) = {run.target}
        BY <2>1 DEF Excluded
      <3>4. NoOrphanFile'
        BY <2>1, <3>1, <3>3, <1>s, <1>b DEF NoOrphanFile, PassedInv, Referenced
      <3>5. Selected'
        BY <2>1, <3>1, <3>2, <1>b DEF Selected
      <3>6. RemovedInv' /\ PassedInv'
        BY <2>1, <3>1, <3>2, <3>3, <1>b DEF RemovedInv, PassedInv
      <3> QED BY <2>1, <3>1, <3>4, <3>5, <3>6, <1>s, BusyEnd DEF StoreInv, RunInv, Selected
    <2> QED BY <2>2, <2>3
  <1>9. CASE ClearMirror
    <2>1. /\ at = "mirror" /\ docs' = docs \ run.deleted /\ at' = "idle" /\ UNCHANGED <<rows, layout, files>>
          /\ ended' = [how |-> "done", purging |-> run.purging, deleted |-> run.deleted,
                       kept |-> run.remaining, removed |-> run.removed]
      BY <1>9 DEF ClearMirror, MirrorPks, Stop
    <2>2. /\ run.deleted \cup run.remaining = run.purging
          /\ run.deleted \cap rows = {} /\ run.remaining \subseteq rows
      BY <2>1, <1>t, <1>b DEF PurgeTypes, Selected
    <2>3. KeptWhole'
      BY <2>1, <1>b DEF KeptWhole, RemovedInv
    <2>4. ReportHonest' /\ MirrorExact' /\ rows' \subseteq docs'
      BY <2>1, <2>2, <1>s DEF ReportHonest, MirrorExact
    <2>5. NoOrphanFile' /\ RunInv'
      BY <2>1, <1>s DEF NoOrphanFile, RunInv
    <2> QED BY <2>3, <2>4, <2>5 DEF StoreInv, EndInv
  <1>10. CASE MirrorFails
    <2>1. PICK S \in SUBSET run.deleted : docs' = docs \ S
      BY <1>10 DEF MirrorFails
    <2>2. Stop("failed", run) /\ at = "mirror" /\ UNCHANGED <<rows, layout, files>>
      BY <1>10 DEF MirrorFails
    <2>3. rows' \subseteq docs' /\ NoOrphanFile'
      BY <2>1, <2>2, <1>s, <1>b DEF Selected, NoOrphanFile
    <2> QED BY <2>2, <2>3, StopSafe DEF StoreInv
  <1>11. CASE Die
    BY <1>11, <1>k, StopSafe DEF Die
  <1>12. ASSUME NEW f \in Files, PurgeFile(f) PROVE StoreInv'
    <2> DEFINE gone == IF Referenced(f, Excluded(run)) THEN {} ELSE {f} \cap files
    <2>1. /\ at = "files" /\ files' = files \ gone /\ UNCHANGED <<at, rows, docs, layout, due, ended>>
          /\ run' = [run EXCEPT !.todo = @ \ {f}, !.removed = @ \cup gone]
      BY <1>12 DEF PurgeFile
    <2>2. /\ run'.purging = run.purging /\ run'.deleted = run.deleted /\ run'.remaining = run.remaining
          /\ run'.removed = run.removed \cup gone /\ run'.target = run.target
          /\ run'.todo = run.todo \ {f} /\ run'.failed = run.failed
      BY <1>t, <2>1 DEF Runs
    <2>3. Excluded(run)' = Excluded(run)
      BY <2>2 DEF Excluded
    <2>4. Selected'
      BY <2>1, <2>2, <1>b DEF Selected, DueRows
    <2>5. RemovedInv'
      BY <2>1, <2>2, <2>3, <1>b DEF RemovedInv, Referenced
    <2>6. PassedInv'
      <3>1. ASSUME NEW p \in Excluded(run), NEW g \in layout.names[p] \cap files'
            PROVE  (g \in run'.todo \/ run'.failed) \/ Referenced(g, Excluded(run))
        <4>1. CASE g = f
          BY <2>1, <3>1, <4>1
        <4>2. CASE g # f
          <5>1. (g \in run.todo \/ run.failed) \/ Referenced(g, Excluded(run))
            BY <2>1, <3>1, <1>b DEF PassedInv
          <5>2. run'.failed = run.failed /\ (g \in run.todo => g \in run'.todo)
            BY <2>2, <4>2
          <5> QED BY <5>1, <5>2
        <4> QED BY <4>1, <4>2
      <3>2. \A g : Referenced(g, Excluded(run))' <=> Referenced(g, Excluded(run))
        BY <2>1, <2>3 DEF Referenced
      <3> QED BY <2>1, <2>3, <3>1, <3>2 DEF PassedInv
    <2>7. NoOrphanFile'
      BY <2>1, <1>s DEF NoOrphanFile
    <2> QED BY <2>1, <2>4, <2>5, <2>6, <2>7, <1>s, BusyEnd DEF StoreInv, RunInv, Selected
  <1>13. ASSUME NEW f \in Files, FileFails(f) PROVE StoreInv'
    <2>1. /\ at = "files" /\ UNCHANGED <<at, rows, files, docs, layout, due, ended>>
          /\ run' = [run EXCEPT !.todo = @ \ {f}, !.failed = TRUE]
      BY <1>13 DEF FileFails
    <2>2. /\ run'.purging = run.purging /\ run'.deleted = run.deleted /\ run'.remaining = run.remaining
          /\ run'.removed = run.removed /\ run'.target = run.target /\ run'.failed = TRUE
      BY <1>t, <2>1 DEF Runs
    <2>3. Selected' /\ RemovedInv' /\ PassedInv'
      BY <2>1, <2>2, <1>b DEF Selected, RemovedInv, PassedInv, DueRows, Excluded
    <2> QED BY <2>1, <2>3, <1>k, BusyEnd DEF RunInv, Selected
  <1>14. ASSUME NEW p \in Pks, MoveDeadline(p) \/ Reference(p) \/ Release(p) PROVE StoreInv'
    <2>1. UNCHANGED <<rows, files, docs, layout, at, run, ended>>
      BY <1>14 DEF MoveDeadline, Reference, Release, Edit
    <2>2. at = "idle" \/ due' = due
      BY <1>14 DEF MoveDeadline, Reference, Release
    <2>3. RunInv'
      BY <2>1, <2>2, <1>s DEF RunInv, Selected, RemovedInv, PassedInv, DueRows, Excluded, Referenced
    <2>4. EndInv'
      BY <2>1, <1>s DEF EndInv, KeptWhole, ReportHonest, MirrorExact
    <2> QED BY <2>1, <2>3, <2>4, <1>k
  <1>15. CASE UNCHANGED purgeVars
    BY <1>15, <1>s DEF purgeVars, StoreInv, NoOrphanFile, RunInv, EndInv, Selected, RemovedInv, PassedInv,
       DueRows, Excluded, Referenced, KeptWhole, ReportHonest, MirrorExact
  <1> QED
    BY <1>1, <1>2, <1>3, <1>4, <1>5, <1>6, <1>7, <1>8, <1>9, <1>10, <1>11, <1>12, <1>13, <1>14, <1>15
    DEF PurgeNext, Purge

LEMMA StoreAlways == ASSUME ~EditsDuringPurge PROVE PurgeSpec => [](TypeInv /\ StoreInv)
  <1>1. PurgeInit => TypeInv /\ StoreInv
    BY InitType, StoreInit
  <1>2. TypeInv /\ StoreInv /\ [PurgeNext]_purgeVars => (TypeInv /\ StoreInv)'
    BY StepType, StoreStep
  <1> QED
    BY <1>1, <1>2, PTL DEF PurgeSpec

\* No file is orphaned by a purge, however it ends.
THEOREM NoOrphanFileHolds == ASSUME ~EditsDuringPurge PROVE PurgeSpec => []NoOrphanFile
  <1>1. TypeInv /\ StoreInv => NoOrphanFile
    BY DEF StoreInv
  <1> QED
    BY <1>1, StoreAlways, PTL

\* A row that outlives a purge that ended well has its files.
THEOREM KeptWholeHolds == ASSUME ~EditsDuringPurge PROVE PurgeSpec => []KeptWhole
  <1>1. TypeInv /\ StoreInv => KeptWhole
    BY DEF StoreInv, EndInv
  <1> QED
    BY <1>1, StoreAlways, PTL

\* The result of a purge is what it did to the table and to the mirror.
THEOREM ResultExact == ASSUME ~EditsDuringPurge PROVE PurgeSpec => []PurgeExact
  <1>1. TypeInv /\ StoreInv => PurgeExact
    BY DEF StoreInv, EndInv, PurgeExact
  <1> QED
    BY <1>1, StoreAlways, PTL

LEMMA FilesOfTheDeadStep ==
    ASSUME TypeInv, StoreInv, [PurgeNext]_purgeVars, NEW f \in files \ files', NEW p \in rows, f \in layout.names[p]
    PROVE  due[p] /\ p \in run.purging
  <1>1. PICK g \in Files : PurgeFile(g)
    BY DEF PurgeNext, Purge, purgeVars, world, surroundings, Start, Check, ListFiles, FilesDone, DeleteDue, NextPass,
       NextRow, DeleteRow, ClearMirror, MirrorFails, Die, FileFails, MoveDeadline, Reference, Release, Edit
  <1>2. at = "files" /\ f = g /\ ~Referenced(f, Excluded(run))
    BY <1>1 DEF PurgeFile
  <1>3. p \in Excluded(run)
    BY <1>2 DEF Referenced
  <1>4. p \in run.purging
    BY <1>2, <1>3 DEF Excluded, TypeInv, PurgeTypes, TargetInv
  <1> QED
    BY <1>2, <1>4 DEF StoreInv, RunInv, Selected

\* A file goes only with every row that names it: all due, all in this purge.
THEOREM FilesOfTheDeadHolds == ASSUME ~EditsDuringPurge PROVE PurgeSpec => FilesOfTheDead
  <1>1. TypeInv /\ StoreInv /\ [PurgeNext]_purgeVars =>
          [\A f \in files \ files' : \A p \in rows : f \in layout.names[p] => due[p] /\ p \in run.purging]_purgeVars
    BY FilesOfTheDeadStep
  <1> QED
    BY <1>1, StoreAlways, PTL DEF PurgeSpec, FilesOfTheDead
=============================================================================
