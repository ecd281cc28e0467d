----------------------------- MODULE RestoreRuns -----------------------------
(***************************************************************************)
(* snapadmin_restore and snapadmin_rollback (restore.py, snapshot.py): a   *)
(* bundle is fetched, verified and applied part by part over the live      *)
(* system, behind a snapshot with a retention of its own. Bundles lose     *)
(* parts and hold broken ones, as BackupRuns leaves them.                  *)
(***************************************************************************)
EXTENDS Integers, FiniteSets

CONSTANTS
  Bundles,    \* manifests at the destination; a bundle's parts hold its number
  Selections, \* what --only and --skip may select
  Engines,    \* of the database: a subset of {"sqlite", "postgresql"}
  Keep,       \* SNAPADMIN_RESTORE_SNAPSHOT_KEEP
  MaxValues,  \* bound: bundles and edits of the running application
  MaxRuns,    \* bound: restores and rollbacks
  MaxFaults   \* bound

RestoreParts == {"db", "media", "env"}

ASSUME RestoreAssumption ==
  /\ Bundles \subseteq 1..MaxValues /\ Selections \subseteq SUBSET RestoreParts
  /\ Engines \subseteq {"sqlite", "postgresql"}
  /\ {Keep, MaxValues, MaxRuns, MaxFaults} \subseteq Nat

VARIABLES
  live,      \* the database, the media files and the .env in use
  drill,     \* the throwaway alias of a restore drill
  parts,     \* the state of each bundle's files
  encrypted, \* config.age_recipients
  engine,    \* of default and of the drill's alias
  snaps,     \* the snapshot directories
  op,        \* the command in progress, if any
  values,    \* edits so far
  taken,     \* snapshot stamps used
  applied,   \* history: restores that began to apply, by snapshot
  faults

vars == <<live, drill, parts, encrypted, engine, snaps, op, values, taken, applied, faults>>
env == <<parts, encrypted, engine>>

Values == 0..MaxValues
Broken == -1                     \* half-written
Missing == -2                    \* no such file: create_env_bundle returns None

Live == [db : Values \cup {Broken}, media : SUBSET Values, env : Values \cup {Broken, Missing}]
Content(p, v) == IF p = "media" THEN {v} ELSE v
Holding(v) == [p \in RestoreParts |-> Content(p, v)]
Idle == [step |-> "idle", kind |-> "none", bundle |-> 0, parts |-> {}, fetched |-> {},
         source |-> Holding(0), before |-> Holding(0), snap |-> 0, errors |-> FALSE]

Init ==
  /\ live \in {Holding(0), [Holding(0) EXCEPT !.env = Missing]}
  /\ drill = Missing
  /\ parts = [b \in Bundles |-> [p \in RestoreParts |-> "whole"]]
  /\ encrypted \in BOOLEAN
  /\ engine \in Engines
  /\ snaps = {}
  /\ op = Idle
  /\ values = Cardinality(Bundles)
  /\ taken = 0
  /\ applied = {}
  /\ faults = 0

Fault == faults < MaxFaults /\ faults' = faults + 1
Begins == op.step = "idle" /\ taken < MaxRuns

-----------------------------------------------------------------------------
(* The environment: backups prune and break bundles, the application runs. *)

Damage == /\ Fault
          /\ \E b \in Bundles, p \in RestoreParts, s \in {"torn", "gone"} :
               parts' = [parts EXCEPT ![b][p] = s]
          /\ UNCHANGED <<live, drill, encrypted, engine, snaps, op, values, taken, applied>>

\* Restores run in a maintenance window: nothing else writes meanwhile.
Edit == /\ op.step = "idle" /\ values < MaxValues
        /\ values' = values + 1
        /\ live' = [live EXCEPT !.db = values + 1, !.media = @ \cup {values + 1}]
        /\ UNCHANGED <<drill, env, snaps, op, taken, applied, faults>>

-----------------------------------------------------------------------------
(* snapadmin_restore --confirm.                                            *)

\* select_parts: env only when it is named; a drill restores the database only.
StartRestore(b, selected, kind) ==
  /\ Begins
  /\ kind = "drill" => selected = {"db"}
  /\ op' = [Idle EXCEPT !.step = "fetch", !.kind = kind, !.bundle = b, !.parts = selected,
                        !.source = Holding(b), !.before = live]
  /\ UNCHANGED <<live, drill, env, snaps, values, taken, applied, faults>>

Fetch(p) ==
  /\ op.step = "fetch" /\ op.bundle # 0 /\ p \in op.parts \ op.fetched
  /\ op' = IF parts[op.bundle][p] = "gone" THEN Idle
            ELSE [op EXCEPT !.fetched = @ \cup {p},
                            !.source[p] = IF parts[op.bundle][p] = "whole" THEN @ ELSE Content(p, Broken)]
  /\ UNCHANGED <<live, drill, env, snaps, values, taken, applied, faults>>

Downloaded(p) == TRUE                        \* Mutant: verify_checksums dropped
Matches(p) == op.source[p] # Content(p, Broken)

Verify ==
  /\ op.step = "fetch" /\ op.bundle # 0 /\ op.fetched = op.parts
  /\ op' = IF \A p \in op.parts : Matches(p)
             THEN [op EXCEPT !.step = IF op.kind = "restore" THEN "snapshot" ELSE "apply"]
             ELSE Idle
  /\ UNCHANGED <<live, drill, env, snaps, values, taken, applied, faults>>

-----------------------------------------------------------------------------
(* take_snapshot and _prune_snapshots.                                     *)

Newest(S, n) == {s \in S : Cardinality({t \in S : t.id > s.id}) < n}
PrunedEarly(S) == IF Keep = 0 THEN S ELSE Newest(S, Keep - 1)   \* Mutant: off by one
Pruned(S) == IF Keep = 0 THEN S ELSE Newest(S, Keep)

\* A plain .env is never written: without recipients the snapshot fails.
Allowed == "env" \in op.parts => encrypted

TakeSnapshot ==
  /\ op.step = "snapshot" /\ Allowed
  /\ taken' = taken + 1
  /\ snaps' = Pruned(snaps \cup {[id |-> taken + 1, content |-> live, parts |-> op.parts, complete |-> TRUE]})
  /\ op' = [op EXCEPT !.step = "apply", !.snap = taken + 1]
  /\ applied' = applied \cup {[id |-> taken + 1, before |-> op.before, parts |-> op.parts]}
  /\ UNCHANGED <<live, drill, env, values, faults>>

\* A failing dump removes the directory; an age error, or a process that dies,
\* leaves it without a manifest, where later pruning counts it.
SnapshotFails ==
  /\ op.step = "snapshot"
  /\ IF Allowed THEN Fault ELSE UNCHANGED faults
  /\ \E left \in {{}, {[id |-> taken + 1, content |-> live, parts |-> op.parts, complete |-> FALSE]}} :
       /\ left # {} => Allowed
       /\ snaps' = snaps \cup left
  /\ taken' = taken + 1
  /\ op' = Idle
  /\ UNCHANGED <<live, drill, env, values, applied>>

-----------------------------------------------------------------------------
(* perform_restore: apply. Media are extracted over what is there.         *)

Written(p) == [live EXCEPT ![p] = IF p = "media" THEN @ \cup op.source.media ELSE op.source[p]]

HalfWritten(p) ==
  IF p = "media" THEN {[live EXCEPT !.media = @ \cup m] : m \in SUBSET op.source.media}
  ELSE {[live EXCEPT ![p] = Broken], live}

\* The order of RESTORE_PARTS, and for a rollback the names sorted.
Before(p, q) == p # q /\ (p = "db" \/ q = IF op.kind = "rollback" THEN "media" ELSE "env")
NextPart(p) == p \in op.parts /\ \A q \in op.parts : ~Before(q, p)

ApplyPart(p) ==
  /\ op.step = "apply" /\ NextPart(p)
  /\ IF op.kind = "drill"
       THEN drill' = op.source.db /\ UNCHANGED live
       ELSE live' = Written(p) /\ UNCHANGED drill
  /\ op' = [op EXCEPT !.parts = @ \ {p}, !.step = IF op.parts = {p} THEN "record" ELSE "apply"]
  /\ UNCHANGED <<env, snaps, values, taken, applied, faults>>

\* psql runs without ON_ERROR_STOP: a statement that fails is reported on stderr,
\* which is read and dropped, and the exit code of a dump loaded in part is zero.
PsqlGoesOn ==
  /\ Fault /\ op.step = "apply" /\ NextPart("db") /\ engine = "postgresql"
  /\ IF op.kind = "drill"
       THEN drill' = Broken /\ UNCHANGED live
       ELSE live' = [live EXCEPT !.db = Broken] /\ UNCHANGED drill
  /\ op' = [op EXCEPT !.parts = @ \ {"db"}, !.errors = TRUE,
                      !.step = IF op.parts = {"db"} THEN "record" ELSE "apply"]
  /\ UNCHANGED <<env, snaps, values, taken, applied>>

\* A truncated gzip file, a lost connection, a drill without tables, a wrong
\* identity, a process that dies.
ApplyFails(p) ==
  /\ Fault /\ op.step = "apply" /\ NextPart(p)
  /\ IF op.kind = "drill"
       THEN drill' = Broken /\ UNCHANGED live
       ELSE live' \in HalfWritten(p) /\ UNCHANGED drill
  /\ op' = Idle
  /\ UNCHANGED <<env, snaps, values, taken, applied>>

RecordRun ==
  /\ op.step = "record"
  /\ op' = Idle
  /\ UNCHANGED <<live, drill, env, snaps, values, taken, applied, faults>>

-----------------------------------------------------------------------------
(* snapadmin_rollback: perform_restore on a snapshot, without a new one.   *)

Rollback(s) ==
  /\ Begins /\ s.complete
  /\ op' = [Idle EXCEPT !.step = "apply", !.kind = "rollback", !.source = s.content,
              !.parts = {p \in s.parts : p = "env" => s.content.env # Missing},
              !.before = live, !.snap = s.id]
  /\ UNCHANGED <<live, drill, env, snaps, values, taken, applied, faults>>

Command ==
  \/ \E b \in Bundles, sel \in Selections, k \in {"restore", "drill"} : StartRestore(b, sel, k)
  \/ \E s \in snaps : Rollback(s)
  \/ \E p \in RestoreParts : Fetch(p) \/ ApplyPart(p) \/ ApplyFails(p)
  \/ Verify \/ TakeSnapshot \/ SnapshotFails \/ PsqlGoesOn \/ RecordRun

Next == Command \/ Damage \/ Edit

Spec == Init /\ [][Next]_vars

-----------------------------------------------------------------------------
(* Properties.                                                             *)

TypeOK ==
  /\ live \in Live /\ drill \in Values \cup {Broken, Missing}
  /\ encrypted \in BOOLEAN /\ engine \in Engines /\ values \in Values /\ taken \in 0..(MaxRuns + 1)
  /\ op.parts \subseteq RestoreParts /\ op.fetched \subseteq RestoreParts

\* A restore that ends well has applied one bundle and all of it, although the
\* bundle was pruned or broken while it was fetched; one that is refused has
\* changed nothing, and a drill never reaches the live system. The one part of it
\* that can be there in part is a PostgreSQL database, after errors of psql.
Restored == op.step = "record"
Loaded(db) == IF op.errors THEN engine = "postgresql" /\ db = Broken ELSE db = op.bundle
RestoredWhole ==
  /\ op.step \in {"fetch", "snapshot"} \/ op.kind = "drill" => live = op.before
  /\ Restored /\ op.kind = "drill" => Loaded(drill)
  /\ Restored /\ op.kind = "restore" =>
       \A a \in applied : a.id = op.snap =>
         /\ "db" \in a.parts => Loaded(live.db)
         /\ "env" \in a.parts => live.env = op.bundle
         /\ live.media = op.before.media \cup (IF "media" \in a.parts THEN {op.bundle} ELSE {})

\* docs/index.html:3364: "A periodic restore into a throwaway database is what proves
\* a backup works": the database of a drill recorded as completed is the dump's.
DrillProves == Restored /\ op.kind = "drill" => drill = op.bundle

\* Every restore can be undone: while fewer than Keep later snapshot directories
\* exist, the one it took holds, complete, what it was about to replace, however
\* many restores and rollbacks failed at whatever step since.
Undoable ==
  \A a \in applied :
    \/ \E s \in snaps : s.id = a.id /\ s.complete /\ a.parts \subseteq s.parts /\ s.content = a.before
    \/ Keep # 0 /\ Cardinality({s \in snaps : s.id > a.id}) >= Keep
=============================================================================
