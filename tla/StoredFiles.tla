------------------------------ MODULE StoredFiles ------------------------------
(***************************************************************************)
(* One file field with delete_replaced and delete_on_delete (fields.py):   *)
(* the three signal receivers that remember, replace and delete stored     *)
(* names, and the removals they schedule for after the commit.  A session  *)
(* is a request or a worker: it holds one instance, writes it in one       *)
(* transaction, and after the commit runs its removals one by one, each a  *)
(* look for a row that still names the file and then the call to the       *)
(* storage.  The row a session has written is locked until it commits.     *)
(***************************************************************************)
EXTENDS Naturals, Sequences, SequencesExt, FiniteSets, Functions

CONSTANTS FileRows,       \* primary keys
          FileNames,          \* names the storage gives a file
          Sessions,
          Reuse,          \* whether the storage gives a removed file's name again
          StaleSessions,  \* whether two sessions hold one row at a time
          MaxFileEdits, MaxFileFaults

NoName == "none"       \* no file, or a name that is not remembered
NoFileRow == "absent"  \* no row
Unsaved == "unsaved"   \* a file assigned in memory that no save has stored

ASSUME FilesAssumption ==
  /\ {NoName, NoFileRow, Unsaved} \cap FileNames = {}
  /\ IsFiniteSet(FileRows) /\ 0 \notin FileRows /\ IsFiniteSet(FileNames)
  /\ Reuse \in BOOLEAN /\ StaleSessions \in BOOLEAN
  /\ MaxFileEdits \in Nat /\ MaxFileFaults \in Nat

VARIABLES
  flags,        \* which of delete_replaced and delete_on_delete are on
  holds,        \* the name each committed row holds
  storedNames,  \* the names in storage
  session,      \* what each session holds and has written
  leftovers,    \* files the cleanup says it does not remove (history)
  given,        \* names the storage has given (history)
  fileEdits, fileFaults

fileVars == <<flags, holds, storedNames, session, leftovers, given, fileEdits, fileFaults>>

NoPk == 0
NoInstance == [pk |-> NoPk, current |-> NoName, remembered |-> NoName,
               written |-> FALSE, draft |-> NoName, removals |-> <<>>, uploads |-> {}, phase |-> "idle"]

FilesInit ==
  /\ flags \in SUBSET {"replaced", "on_delete"}
  /\ \E name \in FileNames, holders \in SUBSET FileRows :   \* rows that share one file
       /\ holds = [k \in FileRows |-> IF k \in holders THEN name ELSE NoFileRow]
       /\ storedNames = IF holders = {} THEN {} ELSE {name}
       /\ given = storedNames
  /\ session = [s \in Sessions |-> NoInstance]
  /\ leftovers = {}
  /\ fileEdits = 0 /\ fileFaults = 0

ExistingRows == { k \in FileRows : holds[k] # NoFileRow }
Named == { holds[k] : k \in ExistingRows } \ {NoName}

\* get_available_name: never the name of a file that is there.
Available == FileNames \ (IF Reuse THEN storedNames ELSE storedNames \union given)

Holders(k) == { s \in Sessions : session[s].pk = k }
RowLocked(k) == \E s \in Holders(k) : session[s].written
Hold(s, new) == session' = [session EXCEPT ![s] = new]

-----------------------------------------------------------------------------
(* The receivers.                                                          *)

\* _delete_stored_file: the removal waits for the commit.
Scheduled(held, name) ==
  IF name = NoName THEN held.removals ELSE Append(held.removals, name)

\* _delete_replaced_files, after a save that left the instance naming current.
AfterSave(held, current) ==
  [held EXCEPT
    !.current = current,
    !.written = TRUE,
    !.removals = IF "replaced" \in flags /\ held.remembered # current
                 THEN Scheduled(held, held.remembered) ELSE @,
    !.remembered = IF current = NoName THEN @ ELSE current]

\* _remember_stored_names: only a name loaded from the database.
Loads(s, k, deferred) ==
  /\ session[s] = NoInstance
  /\ k \in ExistingRows /\ ~RowLocked(k)
  /\ StaleSessions \/ Holders(k) = {}
  /\ Hold(s, [NoInstance EXCEPT !.pk = k, !.draft = holds[k], !.current = holds[k], !.phase = "open",
                                 !.remembered = IF deferred THEN NoName ELSE holds[k]])
  /\ UNCHANGED <<flags, holds, storedNames, leftovers, given, fileEdits, fileFaults>>

EditFile(s) ==
  /\ session[s].phase = "open"
  /\ fileEdits < MaxFileEdits
  /\ fileEdits' = fileEdits + 1

\* A write waits for the lock of the row another session has written.
Lock(s) == session[s].written \/ ~RowLocked(session[s].pk)

\* create(): a new row never removes a file.
Create(s, k, name) ==
  /\ session[s] = NoInstance
  /\ fileEdits < MaxFileEdits /\ fileEdits' = fileEdits + 1
  /\ k \notin ExistingRows /\ Holders(k) = {}
  /\ name \in Available
  /\ storedNames' = storedNames \union {name} /\ given' = given \union {name}
  /\ Hold(s, [NoInstance EXCEPT !.pk = k, !.current = name, !.remembered = name, !.written = TRUE,
                                 !.draft = name, !.uploads = {name}, !.phase = "open"])
  /\ UNCHANGED <<flags, holds, leftovers, fileFaults>>

\* A file is assigned; a save that names other fields stores nothing of it,
\* yet the receiver takes its name for the current one.
AssignAndSaveOthers(s) ==
  LET held == session[s] IN
  /\ EditFile(s) /\ Lock(s) /\ held.draft # NoFileRow
  /\ Hold(s, AfterSave(held, Unsaved))
  /\ leftovers' = leftovers \union {held.draft}
  /\ UNCHANGED <<flags, holds, storedNames, given, fileFaults>>

\* A file is assigned and saved: pre_save stores it before the row is written.
Replace(s, name) ==
  LET held == session[s] IN
  /\ EditFile(s) /\ Lock(s) /\ held.draft # NoFileRow
  /\ name \in Available
  /\ storedNames' = storedNames \union {name} /\ given' = given \union {name}
  /\ Hold(s, [AfterSave(held, name) EXCEPT !.draft = name, !.uploads = @ \union {name}])
  /\ leftovers' = IF "replaced" \in flags /\ held.remembered = held.draft
                  THEN leftovers ELSE leftovers \union {held.draft}
  /\ UNCHANGED <<flags, holds, fileFaults>>

\* The field is cleared and saved; the name that was remembered stays so.
Clear(s) ==
  LET held == session[s] IN
  /\ EditFile(s) /\ Lock(s) /\ held.draft \notin {NoFileRow, NoName}
  /\ Hold(s, [AfterSave(held, NoName) EXCEPT !.draft = NoName])
  /\ leftovers' = IF "replaced" \in flags /\ held.remembered = held.draft
                  THEN leftovers ELSE leftovers \union {held.draft}
  /\ UNCHANGED <<flags, holds, storedNames, given, fileFaults>>

\* A plain save writes the name the instance holds.
SaveAgain(s) ==
  LET held == session[s] IN
  /\ EditFile(s) /\ Lock(s) /\ held.draft # NoFileRow
  /\ held.current # Unsaved
  /\ Hold(s, [AfterSave(held, held.current) EXCEPT !.draft = held.current])
  /\ leftovers' = IF held.draft = held.current THEN leftovers
                  ELSE leftovers \union {held.draft}
  /\ UNCHANGED <<flags, holds, storedNames, given, fileFaults>>

\* _delete_files_of_deleted_row: the name the instance holds.
DeleteHeld(s) ==
  LET held == session[s] IN
  /\ EditFile(s) /\ Lock(s) /\ held.draft # NoFileRow
  /\ Hold(s, [held EXCEPT !.draft = NoFileRow, !.written = TRUE,
                    !.removals = IF "on_delete" \in flags /\ held.current # Unsaved
                                 THEN Scheduled(held, held.current) ELSE @])
  /\ leftovers' = IF "on_delete" \in flags /\ held.current = held.draft
                  THEN leftovers ELSE leftovers \union {held.draft}
  /\ UNCHANGED <<flags, holds, storedNames, given, fileFaults>>

\* QuerySet.update sends no signal.
QueryUpdate(k) ==
  /\ fileEdits < MaxFileEdits /\ fileEdits' = fileEdits + 1
  /\ k \in ExistingRows /\ ~RowLocked(k)
  /\ StaleSessions \/ Holders(k) = {}
  /\ holds' = [holds EXCEPT ![k] = NoName]
  /\ leftovers' = leftovers \union {holds[k]}
  /\ UNCHANGED <<flags, storedNames, session, given, fileFaults>>

-----------------------------------------------------------------------------
(* The transaction and what runs after it.                                 *)

CommitNow(s) ==
  LET held == session[s] IN
  /\ held.phase = "open" /\ held.written
  /\ holds' = [holds EXCEPT ![held.pk] = held.draft]
  /\ Hold(s, [held EXCEPT !.written = FALSE, !.uploads = {}, !.phase = "look"])
  /\ UNCHANGED <<flags, storedNames, leftovers, given, fileEdits, fileFaults>>

\* The instance survives a rollback with what it remembers; a file a discarded
\* save stored stays, and so does what the instance no longer remembers.
Discard(s) ==
  LET held == session[s] IN
  /\ held.phase = "open" /\ held.written
  /\ fileFaults < MaxFileFaults /\ fileFaults' = fileFaults + 1
  /\ Hold(s, [held EXCEPT !.written = FALSE, !.removals = <<>>, !.uploads = {},
                    !.draft = holds[held.pk],
                    !.phase = IF held.pk \in ExistingRows THEN "open" ELSE "over"])
  /\ leftovers' = leftovers \union held.uploads \union {holds[held.pk]}
  /\ UNCHANGED <<flags, holds, storedNames, given, fileEdits>>

SharedOnly(name) ==   \* Mutant: the check of a delete, where the row itself still counts.
  \E j, k \in ExistingRows : j # k /\ holds[j] = name /\ holds[k] = name
\* _file_referenced, asked of every row that is committed by now.
Referenced(name) == name \in Named

\* remove(): nothing is done for a file some row still names.
Look(s) ==
  LET held == session[s] IN
  /\ held.phase = "look" /\ held.removals # <<>>
  /\ Hold(s, IF Referenced(Head(held.removals))
            THEN [held EXCEPT !.removals = Tail(@)]
            ELSE [held EXCEPT !.phase = "remove"])
  /\ UNCHANGED <<flags, holds, storedNames, leftovers, given, fileEdits, fileFaults>>

RemoveStored(s) ==
  LET held == session[s] IN
  /\ held.phase = "remove"
  /\ Hold(s, [held EXCEPT !.removals = Tail(@), !.phase = "look"])
  /\ storedNames' = storedNames \ {Head(held.removals)}
  /\ UNCHANGED <<flags, holds, leftovers, given, fileEdits, fileFaults>>

\* A storage error is logged; the removals after it still run.
RemoveStoredFails(s) ==
  LET held == session[s] IN
  /\ held.phase = "remove"
  /\ fileFaults < MaxFileFaults /\ fileFaults' = fileFaults + 1
  /\ Hold(s, [held EXCEPT !.removals = Tail(@), !.phase = "look"])
  /\ leftovers' = leftovers \union {Head(held.removals)}
  /\ UNCHANGED <<flags, holds, storedNames, given, fileEdits>>

\* The session goes on with its instance in a new transaction, or is over.
Continue(s) ==
  LET held == session[s] IN
  /\ held.phase = "look" /\ held.removals = <<>> /\ held.draft # NoFileRow
  /\ Hold(s, [held EXCEPT !.phase = "open"])
  /\ UNCHANGED <<flags, holds, storedNames, leftovers, given, fileEdits, fileFaults>>

End(s) ==
  LET held == session[s] IN
  /\ session[s] # NoInstance /\ ~held.written /\ held.removals = <<>>
  /\ Hold(s, NoInstance)
  /\ UNCHANGED <<flags, holds, storedNames, leftovers, given, fileEdits, fileFaults>>

\* The process dies: nothing of an open transaction stays but the files it
\* stored, and the removals that have not run are lost.
SessionDies(s) ==
  LET held == session[s] IN
  /\ held # NoInstance
  /\ fileFaults < MaxFileFaults /\ fileFaults' = fileFaults + 1
  /\ Hold(s, NoInstance)
  /\ leftovers' = leftovers \union held.uploads \union Range(held.removals)
  /\ UNCHANGED <<flags, holds, storedNames, given, fileEdits>>

FilesNext ==
  \/ \E s \in Sessions, k \in FileRows :
       \/ \E deferred \in BOOLEAN : Loads(s, k, deferred)
       \/ \E name \in FileNames : Create(s, k, name)
  \/ \E s \in Sessions :
       \/ \E name \in FileNames : Replace(s, name)
       \/ AssignAndSaveOthers(s) \/ Clear(s) \/ SaveAgain(s) \/ DeleteHeld(s)
       \/ CommitNow(s) \/ Discard(s) \/ Look(s) \/ RemoveStored(s) \/ RemoveStoredFails(s)
       \/ Continue(s) \/ End(s) \/ SessionDies(s)
  \/ \E k \in FileRows : QueryUpdate(k)

FilesSpec == FilesInit /\ [][FilesNext]_fileVars

-----------------------------------------------------------------------------
(* Properties.                                                             *)

AllThrough == \A s \in Sessions : ~session[s].written /\ session[s].removals = <<>>

\* What _file_referenced says of every cleanup: a file is only removed when no row
\* names it.  It asks, and deletes afterwards: a file that is gone by then may have
\* been followed by another of the same name.
NamedStored == Named \subseteq storedNames

\* However saves, deletes, rollbacks, storage errors and the removals of
\* several sessions fall: a file some row names is in storage, and once every
\* transaction and its removals are through, a file that no row names is one
\* the cleanup says it leaves (a flag that is off, a deferred load, a discarded
\* upload, an error, a death, a bulk write).
FilesFollowRows ==
  /\ NamedStored
  /\ AllThrough => storedNames \subseteq Named \union leftovers

\* The types of the variables.
FilesTypeOK ==
  /\ \A k \in FileRows : holds[k] \in FileNames \union {NoName, NoFileRow}
  /\ storedNames \subseteq given /\ given \subseteq FileNames
  /\ \A s \in Sessions : Range(session[s].removals) \subseteq FileNames \union {Unsaved}
  /\ fileEdits \in 0..MaxFileEdits /\ fileFaults \in 0..MaxFileFaults
================================================================================
