----------------------------- MODULE SourceSync -----------------------------
(***************************************************************************)
(* A recurring source sync (etl.py): upsert_from_source in batches that    *)
(* commit one by one, then stale_sync, which counts, diffs, guards, lists  *)
(* and deletes in separate queries while users add and remove rows. A row  *)
(* is known by its natural key, which a user does not use again.           *)
(***************************************************************************)
EXTENDS Integers, FiniteSets

CONSTANTS
  Keys,
  Strategies,    \* "keyset" or "last_seen"
  SyncBatch,
  Num, Den,      \* max_fraction
  Mirrored,      \* values: the model mirrors to Elasticsearch
  MaxSyncs, MaxUserEdits, MaxSyncFaults  \* bounds

ASSUME SyncAssumption ==
  /\ Keys \subseteq Nat /\ IsFiniteSet(Keys) /\ Strategies \subseteq {"keyset", "last_seen"}
  /\ {SyncBatch, Num, Den} \subseteq Nat \ {0} /\ Num <= Den /\ Mirrored \subseteq BOOLEAN
  /\ {MaxSyncs, MaxUserEdits, MaxSyncFaults} \subseteq Nat

VARIABLES
  strategy, mirrored,
  seen,     \* the watermark column of the rows that exist
  indexed,
  used,     \* history: keys that have been a row's
  syncRun,      \* runs begun; the run's number is its run_started
  sync,     \* the local variables of upsert_from_source and stale_sync
  userEdits, syncFaults

syncVars == <<strategy, mirrored, seen, indexed, used, syncRun, sync, userEdits, syncFaults>>

NoSuchRow == -1
Null == 0        \* a row no sync has reported
Present == {k \in Keys : seen[k] # NoSuchRow}
NoSync == [step |-> "idle", feed |-> {}, left |-> {}, total |-> 0, stale |-> {}, pks |-> {}, gone |-> {},
         result |-> "none"]

SyncInit ==
  /\ strategy \in Strategies /\ mirrored \in Mirrored
  /\ seen \in [Keys -> {NoSuchRow, Null}]
  /\ indexed = IF mirrored THEN Present ELSE {}
  /\ used = Present
  /\ syncRun = 0 /\ sync = NoSync
  /\ userEdits = 0 /\ syncFaults = 0

SyncFault == syncFaults < MaxSyncFaults /\ syncFaults' = syncFaults + 1
Become(e) == sync' = e
EndSync(result) == Become([sync EXCEPT !.step = "idle", !.result = result])
SameConf == UNCHANGED <<strategy, mirrored>>

-----------------------------------------------------------------------------
(* upsert_from_source.                                                     *)

\* A feed may be any part of the source, a truncated one too.
BeginSync ==
  /\ sync.step = "idle" /\ syncRun < MaxSyncs
  /\ syncRun' = syncRun + 1
  /\ \E feed \in SUBSET Keys : Become([NoSync EXCEPT !.step = "upsert", !.feed = feed, !.left = feed])
  /\ SameConf /\ UNCHANGED <<seen, indexed, used, userEdits, syncFaults>>

\* bulk_create with update_conflicts: saves and indexes nothing by itself.
UpsertBatch ==
  /\ sync.step = "upsert" /\ sync.left # {}
  /\ \E batch \in SUBSET sync.left :
       /\ Cardinality(batch) = IF Cardinality(sync.left) < SyncBatch THEN Cardinality(sync.left) ELSE SyncBatch
       /\ \A k \in batch, l \in sync.left \ batch : k < l
       /\ seen' = [k \in Keys |-> IF k \in batch THEN syncRun ELSE seen[k]]
       /\ used' = used \cup batch
       /\ Become([sync EXCEPT !.left = @ \ batch])
  /\ SameConf /\ UNCHANGED <<indexed, syncRun, userEdits, syncFaults>>

\* es_reindex_all rewrites the documents of the rows there are.
RewriteDocs ==
  /\ sync.step = "upsert" /\ sync.left = {}
  /\ indexed' = IF mirrored /\ sync.feed # {} THEN indexed \cup Present ELSE indexed
  /\ Become([sync EXCEPT !.step = "count"])
  /\ SameConf /\ UNCHANGED <<seen, used, syncRun, userEdits, syncFaults>>

-----------------------------------------------------------------------------
(* stale_sync.                                                             *)

Count ==
  /\ sync.step = "count"
  /\ IF Present = {} THEN EndSync("done") ELSE Become([sync EXCEPT !.total = Cardinality(Present), !.step = "diff"])
  /\ SameConf /\ UNCHANGED <<seen, indexed, used, syncRun, userEdits, syncFaults>>

\* A watermark nobody has set compares as unknown: never stale.
Watermarked == {k \in Present : seen[k] # Null /\ seen[k] < syncRun}

\* The keys of the key set are fixed by the diff; the watermark filter is
\* evaluated again by every query.
Diff ==
  /\ sync.step = "diff"
  /\ Become([sync EXCEPT !.stale = IF strategy = "keyset" THEN Present \ sync.feed ELSE {}, !.step = "guard"])
  /\ SameConf /\ UNCHANGED <<seen, indexed, used, syncRun, userEdits, syncFaults>>

\* Mutant: the key set's diff is evaluated again, too.
StaleNow == IF strategy = "keyset" THEN Present \ sync.feed ELSE Watermarked

Stale == IF strategy = "keyset" THEN sync.stale \cap Present ELSE Watermarked
Exceeds(stale) == stale * Den > Num * sync.total

\* on_exceed="raise" and "skip" both delete nothing; a dry run stops here too.
Guard ==
  /\ sync.step = "guard"
  /\ IF Stale = {} THEN EndSync("done")
     ELSE IF Exceeds(Cardinality(Stale)) THEN EndSync("aborted")
     ELSE \E dry \in BOOLEAN :
            IF dry THEN EndSync("dry") ELSE Become([sync EXCEPT !.step = IF mirrored THEN "list" ELSE "delete"])
  /\ SameConf /\ UNCHANGED <<seen, indexed, used, syncRun, userEdits, syncFaults>>

ListPks ==
  /\ sync.step = "list"
  /\ Become([sync EXCEPT !.pks = Stale, !.step = "delete"])
  /\ SameConf /\ UNCHANGED <<seen, indexed, used, syncRun, userEdits, syncFaults>>

\* The receiver that would clear the documents is suppressed.
DeleteStale ==
  /\ sync.step = "delete"
  /\ seen' = [k \in Keys |-> IF k \in Stale THEN NoSuchRow ELSE seen[k]]
  /\ Become([sync EXCEPT !.gone = Stale, !.step = IF mirrored THEN "mirror" ELSE "idle",
                         !.result = IF mirrored THEN @ ELSE "done"])
  /\ SameConf /\ UNCHANGED <<indexed, used, syncRun, userEdits, syncFaults>>

ClearMirror ==
  /\ sync.step = "mirror"
  /\ indexed' = indexed \ sync.pks
  /\ EndSync("done")
  /\ SameConf /\ UNCHANGED <<seen, used, syncRun, userEdits, syncFaults>>

\* SnapPurgeError: some documents may have gone.
MirrorFails ==
  /\ SyncFault /\ sync.step = "mirror"
  /\ \E cleared \in SUBSET sync.pks : indexed' = indexed \ cleared
  /\ EndSync("error")
  /\ SameConf /\ UNCHANGED <<seen, used, syncRun, userEdits>>

\* A query raises or the process dies; committed batches stay.
Break ==
  /\ SyncFault /\ sync.step # "idle"
  /\ EndSync("error")
  /\ SameConf /\ UNCHANGED <<seen, indexed, used, syncRun, userEdits>>

-----------------------------------------------------------------------------
(* Users, each with row and document in one step.                          *)

EditRow(k) ==
  /\ userEdits < MaxUserEdits /\ userEdits' = userEdits + 1
  /\ \/ /\ k \notin used /\ k \notin sync.feed
        /\ seen' = [seen EXCEPT ![k] = Null] /\ used' = used \cup {k}
        /\ indexed' = IF mirrored THEN indexed \cup {k} ELSE indexed
     \/ /\ k \in Present
        /\ seen' = [seen EXCEPT ![k] = NoSuchRow] /\ indexed' = indexed \ {k}
        /\ UNCHANGED used
  /\ SameConf /\ UNCHANGED <<syncRun, sync, syncFaults>>

SyncNext == \/ BeginSync \/ UpsertBatch \/ RewriteDocs \/ Count \/ Diff \/ Guard \/ ListPks \/ DeleteStale
            \/ ClearMirror \/ MirrorFails \/ Break \/ \E k \in Keys : EditRow(k)

SyncSpec == SyncInit /\ [][SyncNext]_syncVars

-----------------------------------------------------------------------------
(* Properties.                                                             *)

SyncTypeOK ==
  /\ strategy \in Strategies /\ mirrored \in Mirrored
  /\ seen \in [Keys -> {NoSuchRow, Null} \cup 1..MaxSyncs] /\ indexed \subseteq used /\ Present \subseteq used
  /\ syncRun \in 0..MaxSyncs /\ sync.total \in Nat
  /\ sync.stale \cup sync.pks \cup sync.gone \cup sync.left \cup sync.feed \subseteq Keys

\* A sync never deletes what its own feed reported, what no sync ever reported
\* (by the watermark), or more than the fraction of the table it has counted,
\* although the filter is evaluated again after the guard and others write in
\* between; and no document outlives a row a successful sync has deleted.
SyncBounded ==
  /\ sync.gone \cap sync.feed = {}
  /\ ~Exceeds(Cardinality(sync.gone))
  /\ sync.result = "done" => sync.gone \cap indexed = {}
=============================================================================
