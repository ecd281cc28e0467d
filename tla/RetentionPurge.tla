--------------------------- MODULE RetentionPurge ---------------------------
(***************************************************************************)
(* SnapModel.purge_expired (models.py): the rows of one DUAL model whose   *)
(* deadline has passed go from the table, from the file storage and from   *)
(* the Elasticsearch mirror.  There is no transaction across the three:    *)
(* files go first, rows second, documents last, and a PROTECT-ed row stays *)
(* with its files.  A DB_ONLY model is the same without the documents.     *)
(***************************************************************************)
EXTENDS Integers, FiniteSets

CONSTANTS Pks,              \* primary keys; a set of positive integers
          Files,            \* (field, path) pairs of data_retention_files
          Layouts,          \* the tables to start from: who names which file, whose child who is
          EditsDuringPurge, \* deadlines may be edited while a purge runs
          Faults,           \* kinds of fault: "storage", "mirror", "crash"
          MaxPurgeFaults,   \* bound on the faults of a behaviour
          MaxEdits          \* bound on the edits of a behaviour

NoRow == 0

ASSUME PurgeAssumption ==
    /\ Pks \subseteq Nat \ {NoRow} /\ IsFiniteSet(Pks)
    /\ Layouts \subseteq [names : [Pks -> SUBSET Files], parent : [Pks -> Pks \cup {NoRow}]]
    /\ EditsDuringPurge \in BOOLEAN
    /\ Faults \subseteq {"storage", "mirror", "crash"}
    /\ MaxPurgeFaults \in Nat /\ MaxEdits \in Nat

VARIABLES rows,    \* primary keys in the table
          layout,  \* the files each row names and its parent (a PROTECT foreign key to itself)
          due,     \* the rows whose deadline is before `now`
          guarded, \* rows another model's PROTECT foreign key references
          files,   \* what the storage holds
          docs,    \* ids in the Elasticsearch index
          at,      \* where purge_expired is
          run,     \* its local variables
          ended,   \* what the last purge returned or raised
          purgeFaults, edits

purgeVars == <<rows, layout, due, guarded, files, docs, at, run, ended, purgeFaults, edits>>

(***************************************************************************)
(* The table.                                                              *)
(***************************************************************************)
\* _retention_filter, evaluated anew by every query that uses it.
DueRows == {p \in rows : due[p]}

\* A row that points at p.  Django's PROTECT refuses even when the referencing
\* row is deleted by the same call.
Protected(p) == p \in guarded \/ \E c \in rows : layout.parent[c] = p

Deletable(S) == \A p \in S : ~Protected(p)

Unchecked(f, excluded) == FALSE                                     \* mutant
SeenByItself(f, excluded) == \E p \in rows : f \in layout.names[p]  \* mutant

\* _file_referenced(exclude_pks): some other row still names the file.
Referenced(f, excluded) == \E p \in rows \ excluded : f \in layout.names[p]

(***************************************************************************)
(* The local variables.  target is the row of a pass, NoRow on the bulk    *)
(* path; turn holds the rows a pass has still to visit; removed is history *)
(* (the files this purge took).                                            *)
(***************************************************************************)
Fresh(S) == [purging |-> S, remaining |-> S, turn |-> {}, target |-> NoRow, todo |-> {},
             progress |-> TRUE, deleted |-> {}, failed |-> FALSE, removed |-> {}]

WholeBatch(r) == r.purging  \* mutant: the bulk path's exclusion used in the passes

\* The rows a file check does not count.
Excluded(r) == IF r.target = NoRow THEN r.purging ELSE {r.target}

ForFiles(r, S) == [r EXCEPT !.todo = UNION {layout.names[p] : p \in S}, !.failed = FALSE]

OnePass(r) == [r EXCEPT !.remaining = @ \ {r.target}, !.deleted = @ \cup {r.target}]  \* mutant

RowGone(r) == [r EXCEPT !.remaining = @ \ {r.target}, !.deleted = @ \cup {r.target}, !.progress = TRUE]

MirrorBatch(r) == r.purging  \* mutant: kept rows lose their documents

\* The ids delete_pks_from_es is given.
MirrorPks(r) == r.deleted

Stop(how, r) ==
    /\ at' = "idle" /\ run' = Fresh({})
    /\ ended' = [how |-> how, purging |-> r.purging, deleted |-> r.deleted, kept |-> r.remaining, removed |-> r.removed]

PurgeFault(kind) == kind \in Faults /\ purgeFaults < MaxPurgeFaults /\ purgeFaults' = purgeFaults + 1

world == <<rows, files, docs>>
surroundings == <<layout, due, guarded, edits>>

(***************************************************************************)
(* purge_expired.                                                          *)
(***************************************************************************)
\* A scheduled task or the command; purging_pks is read once.
Start ==
    /\ at = "idle"
    /\ at' = "check" /\ run' = Fresh(DueRows) /\ ended' = [ended EXCEPT !.how = "none"]
    /\ UNCHANGED <<world, surroundings, purgeFaults>>

BulkOnly(clear) == "list"  \* mutant: one protected row aborts the purge

AfterCheck(clear) == IF clear THEN "list" ELSE "pass"

\* deletable(qs): may the due rows go in one call?
Check ==
    /\ at = "check" /\ at' = AfterCheck(Deletable(DueRows))
    /\ UNCHANGED <<world, surroundings, run, ended, purgeFaults>>

\* _purge_expired_files opens its iterator over the same filter.
ListFiles ==
    /\ at = "list" /\ at' = "files" /\ run' = ForFiles(run, DueRows)
    /\ UNCHANGED <<world, surroundings, ended, purgeFaults>>

\* A file another row names is kept; a file that is gone already counts as done.
PurgeFile(f) ==
    /\ at = "files" /\ f \in run.todo
    /\ LET gone == IF Referenced(f, Excluded(run)) THEN {} ELSE {f} \cap files IN
         /\ files' = files \ gone
         /\ run' = [run EXCEPT !.todo = @ \ {f}, !.removed = @ \cup gone]
    /\ UNCHANGED <<rows, docs, surroundings, at, ended, purgeFaults>>

\* The storage raises: the other files are still tried.
FileFails(f) ==
    /\ at = "files" /\ f \in run.todo /\ ~Referenced(f, Excluded(run)) /\ PurgeFault("storage")
    /\ run' = [run EXCEPT !.todo = @ \ {f}, !.failed = TRUE]
    /\ UNCHANGED <<world, surroundings, at, ended>>

\* SnapPurgeError leaves _delete_expired_rows, and purge_expired, at once.
FilesDone ==
    /\ at = "files" /\ run.todo = {}
    /\ IF run.failed THEN Stop("failed", run)
                     ELSE at' = "delete" /\ UNCHANGED <<run, ended>>
    /\ UNCHANGED <<world, surroundings, purgeFaults>>

\* qs.delete() runs the filter again; the result names purging_pks whatever it deleted.
DeleteDue ==
    /\ at = "delete" /\ run.target = NoRow
    /\ IF Deletable(DueRows)
         THEN /\ rows' = rows \ DueRows
              /\ run' = [run EXCEPT !.deleted = run.purging, !.remaining = {}]
              /\ at' = "mirror" /\ UNCHANGED ended
         ELSE Stop("failed", run) /\ UNCHANGED rows   \* ProtectedError
    /\ UNCHANGED <<files, docs, surroundings, purgeFaults>>

\* Another pass while the last one deleted something.
NextPass ==
    /\ at = "pass" /\ run.turn = {}
    /\ IF run.remaining # {} /\ run.progress
         THEN run' = [run EXCEPT !.turn = run.remaining, !.progress = FALSE] /\ UNCHANGED at
         ELSE at' = "mirror" /\ UNCHANGED run
    /\ UNCHANGED <<world, surroundings, ended, purgeFaults>>

\* The next row in the fixed order of a pass (by number here, by text in the
\* code), left out when it is protected.  Its query is by primary key and does
\* not repeat the filter.
NextRow ==
    /\ at = "pass"
    /\ \E p \in run.turn :
         /\ \A q \in run.turn : p <= q
         /\ IF Deletable({p} \cap rows)
              THEN /\ run' = ForFiles([run EXCEPT !.turn = @ \ {p}, !.target = p], {p} \cap rows)
                   /\ at' = "files"
              ELSE run' = [run EXCEPT !.turn = @ \ {p}] /\ UNCHANGED at
    /\ UNCHANGED <<world, surroundings, ended, purgeFaults>>

DeleteRow ==
    /\ at = "delete" /\ run.target # NoRow
    /\ IF Deletable({run.target} \cap rows)
         THEN /\ rows' = rows \ {run.target}
              /\ run' = [RowGone(run) EXCEPT !.target = NoRow]
              /\ at' = "pass" /\ UNCHANGED ended
         ELSE Stop("failed", run) /\ UNCHANGED rows
    /\ UNCHANGED <<files, docs, surroundings, purgeFaults>>

\* delete_pks_from_es, once, for the rows that went.
ClearMirror ==
    /\ at = "mirror" /\ docs' = docs \ MirrorPks(run) /\ Stop("done", run)
    /\ UNCHANGED <<rows, files, surroundings, purgeFaults>>

\* It fails, having deleted some of the documents.
MirrorFails ==
    /\ at = "mirror" /\ run.deleted # {} /\ PurgeFault("mirror")
    /\ \E S \in SUBSET run.deleted : S # run.deleted /\ docs' = docs \ S
    /\ Stop("failed", run)
    /\ UNCHANGED <<rows, files, surroundings>>

Die == at # "idle" /\ PurgeFault("crash") /\ Stop("failed", run) /\ UNCHANGED <<world, surroundings>>

(***************************************************************************)
(* The rest of the application.                                            *)
(***************************************************************************)
Edit == edits < MaxEdits /\ edits' = edits + 1 /\ UNCHANGED <<world, layout, at, run, ended, purgeFaults>>

\* A deadline passes, or is edited to either side of now.
MoveDeadline(p) ==
    /\ p \in rows /\ (at = "idle" \/ EditsDuringPurge)
    /\ due' = [due EXCEPT ![p] = ~@] /\ Edit /\ UNCHANGED guarded

\* Another model starts to reference a row, at any time.
Reference(p) == p \in rows \ guarded /\ guarded' = guarded \cup {p} /\ Edit /\ UNCHANGED due

Release(p) == at = "idle" /\ p \in guarded /\ guarded' = guarded \ {p} /\ Edit /\ UNCHANGED due

Purge ==
    \/ Start \/ Check \/ ListFiles \/ FilesDone \/ DeleteDue
    \/ NextPass \/ NextRow \/ DeleteRow \/ ClearMirror
    \/ \E f \in Files : PurgeFile(f)

PurgeNext ==
    \/ Purge \/ MirrorFails \/ Die
    \/ \E f \in Files : FileFails(f)
    \/ \E p \in Pks : MoveDeadline(p) \/ Reference(p) \/ Release(p)

PurgeInit ==
    /\ rows = Pks /\ layout \in Layouts /\ due \in [Pks -> BOOLEAN] /\ guarded = {}
    /\ files = UNION {layout.names[p] : p \in Pks} /\ docs = Pks
    /\ at = "idle" /\ run = Fresh({}) /\ purgeFaults = 0 /\ edits = 0
    /\ ended = [how |-> "none", purging |-> {}, deleted |-> {}, kept |-> {}, removed |-> {}]

PurgeSpec == PurgeInit /\ [][PurgeNext]_purgeVars

\* The purge is scheduled again and again, and a purge that runs goes on.
FairPurgeSpec == PurgeSpec /\ WF_purgeVars(Purge)

(***************************************************************************)
(* Properties.                                                             *)
(***************************************************************************)
\* Types, and the bookkeeping of a purge: a row of purging_pks is deleted or remaining.
PurgeTypes ==
    /\ rows \subseteq Pks /\ layout \in Layouts /\ due \in [Pks -> BOOLEAN]
    /\ guarded \subseteq Pks /\ files \subseteq Files /\ docs \subseteq Pks
    /\ at \in {"idle", "check", "list", "files", "delete", "pass", "mirror"}
    /\ run \in [purging : SUBSET Pks, remaining : SUBSET Pks, turn : SUBSET Pks,
                target : Pks \cup {NoRow}, todo : SUBSET Files, progress : BOOLEAN,
                deleted : SUBSET Pks, failed : BOOLEAN, removed : SUBSET Files]
    /\ run.deleted \cup run.remaining = run.purging /\ run.deleted \cap run.remaining = {}
    /\ run.turn \subseteq run.remaining
    /\ ended \in [how : {"none", "done", "failed"}, purging : SUBSET Pks, deleted : SUBSET Pks,
                  kept : SUBSET Pks, removed : SUBSET Files]
    /\ purgeFaults \in 0 .. MaxPurgeFaults /\ edits \in 0 .. MaxEdits

\* A file leaves the storage only when every row that names it is due and in
\* this purge, also when rows share it (models.py 2812-2817, 2838-2852).
FilesOfTheDead ==
    [][\A f \in files \ files' : \A p \in rows :
          f \in layout.names[p] => due[p] /\ p \in run.purging]_purgeVars

\* A purge that ends well has taken no file of a row that stays: the file pass
\* never runs for a row that then survives (models.py 2981-2983).
KeptWhole == ended.how = "done" => \A p \in rows : layout.names[p] \cap ended.removed = {}

\* Every file in the storage is named by a row, also after a purge that failed
\* or died: a retry can still find it (models.py 2807-2810).
NoOrphanFile == \A f \in files : \E p \in rows : f \in layout.names[p]

\* The numbers a purge returns are the rows that went and the rows that stayed
\* (SnapPurgeResult, models.py 2901-2906, 2968).
ReportHonest ==
    ended.how = "done" => /\ ended.deleted = ended.purging \ rows
                          /\ ended.kept = ended.purging \cap rows

\* A row is kept only if something that stays references it: a due subtree
\* goes in one purge, whatever the order of its keys (models.py 2974-2979).
LeavesFirst ==
    [][ended.how = "none" /\ ended'.how = "done" => \A p \in ended'.kept : Protected(p)]_purgeVars

\* After a purge that ended well no deleted row is searchable and every row in
\* the table still is (models.py 2947-2958).
MirrorExact == ended.how = "done" => ended.deleted \cap docs = {} /\ rows \subseteq docs

\* What a purge answers, what the table holds and what a search finds agree.
PurgeExact == ReportHonest /\ MirrorExact

\* Once faults and edits stop, only rows something references outlive their
\* deadline: a failed purge is made good by a later one (models.py 2895-2899).
EventuallyPurged == <>[](\A p \in rows : due[p] => Protected(p))

\* Suppressing the receiver loses nothing: with a mirror that answers, no
\* document outlives its row (models.py 3087-3088).
NothingLost == at = "idle" => docs \subseteq rows
=============================================================================
