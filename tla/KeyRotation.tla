------------------------------ MODULE KeyRotation ------------------------------
(***************************************************************************)
(* Field encryption while its keyset is rotated: web processes that cache  *)
(* the keyset for their lifetime (encryption/keys.py), the writes of an    *)
(* encrypted field and its blind index (fields.py, encryption/cipher.py,   *)
(* encryption/blind_index.py), and the command that converts stored rows   *)
(* (snapadmin_encrypt_fields).  A key is a number, younger keys are        *)
(* larger; a ciphertext is the key it names and the value it holds, and an *)
(* index is the key it was derived from and the value it was derived of.   *)
(* Nonces, padding and the binding to a column are not told apart.         *)
(***************************************************************************)
EXTENDS Naturals, Sequences, Functions, FiniteSetsExt, FiniteSets

CONSTANTS Processes,   \* the web and worker processes of the project
          Rows,        \* primary keys of the table
          Plaintexts,      \* plaintexts
          BatchSize,   \* --batch-size
          MaxKeys,     \* keys the operator ever generates
          MaxEdits,    \* writes of the application
          MaxCommands      \* runs of the command

ASSUME RotationAssumption ==
  /\ Rows \subseteq Nat \ {0} /\ IsFiniteSet(Rows)
  /\ Plaintexts # {} /\ BatchSize \in Nat \ {0} /\ MaxKeys \in Nat \ {0}

VARIABLES
  keyset,    \* the configured keys, the active one first
  cached,    \* the keyset each process resolved, <<>> before the first use
  table,      \* the rows of the table
  command,   \* the running snapadmin_encrypt_fields
  drifted,   \* rows whose index a bulk write left behind (history)
  emptied,   \* the last run left no row under an old key, by its report
  edits, commands

rotationVars == <<keyset, cached, table, command, drifted, emptied, edits, commands>>

Plain == 0
GoneRow == [key |-> Plain, value |-> "gone", index |-> <<>>]
Ids == 1..MaxKeys
Modes == {{"adopt", "rotate"}, {"rotate"}, {"reindex"}}
Row(stored, index) == [key |-> stored.key, value |-> stored.value, index |-> index]
NoCommand == [mode |-> {}, keys |-> <<>>, cursor |-> 0, phase |-> "idle",
         batch |-> {}, failed |-> FALSE, current |-> FALSE]

Stored == { k \in Rows : table[k] # GoneRow }

--------------------------------------------------------------------------------
(* The keyset and the cipher.                                               *)

Active(ks) == Head(ks)

\* get_keyset: the configuration is read once per process.
Resolved(p) == IF cached[p] = <<>> THEN keyset ELSE cached[p]

Ciphertext(v, ks) == [key |-> Active(ks), value |-> v]
Index(v, ks) == <<Active(ks), v>>

\* index_candidates: a lookup matches under every key of the keyset.
Candidates(v, ks) == { <<id, v>> : id \in Range(ks) }

Decrypts(row, ks) == row.key \in Range(ks)

--------------------------------------------------------------------------------
(* The application.                                                         *)

RotationInit ==
  /\ keyset = <<1>>
  /\ cached = [p \in Processes |-> <<>>]
  /\ \E plain \in SUBSET Rows :   \* rows an adopted column already held
       table = [k \in Rows |-> IF k \in plain
                              THEN [key |-> Plain, value |-> CHOOSE v \in Plaintexts : TRUE, index |-> <<>>]
                              ELSE GoneRow]
  /\ command = NoCommand
  /\ drifted = {}
  /\ emptied = FALSE
  /\ edits = 0 /\ commands = 0

Use(p) == cached' = [cached EXCEPT ![p] = Resolved(p)]

\* save(): the value and its index are written under the active key.
Save(p, k, v) ==
  /\ edits < MaxEdits
  /\ Use(p)
  /\ table' = [table EXCEPT ![k] = Row(Ciphertext(v, Resolved(p)), Index(v, Resolved(p)))]
  /\ drifted' = drifted \ {k}
  /\ edits' = edits + 1
  /\ UNCHANGED <<keyset, command, emptied, commands>>

\* QuerySet.update and bulk_update write the value without its index.
BulkUpdate(p, k, v) ==
  /\ edits < MaxEdits
  /\ k \in Stored
  /\ Use(p)
  /\ table' = [table EXCEPT ![k] = Row(Ciphertext(v, Resolved(p)), @.index)]
  /\ drifted' = drifted \union {k}
  /\ edits' = edits + 1
  /\ UNCHANGED <<keyset, command, emptied, commands>>

Delete(k) ==
  /\ edits < MaxEdits
  /\ k \in Stored
  /\ table' = [table EXCEPT ![k] = GoneRow]
  /\ drifted' = drifted \ {k}
  /\ edits' = edits + 1
  /\ UNCHANGED <<keyset, cached, command, emptied, commands>>

--------------------------------------------------------------------------------
(* The operator: prepend a key, deploy it process by process, convert the   *)
(* rows, drop the old keys once a run has reported none left.               *)

NewKey == Max(Range(keyset)) + 1

Prepend ==
  /\ NewKey \in Ids
  /\ command = NoCommand
  /\ keyset' = <<NewKey>> \o keyset
  /\ emptied' = FALSE
  /\ UNCHANGED <<cached, table, command, drifted, edits, commands>>

Restart(p) ==
  /\ cached[p] # <<>>
  /\ cached' = [cached EXCEPT ![p] = <<>>]
  /\ UNCHANGED <<keyset, table, command, drifted, emptied, edits, commands>>

Deployed == \A p \in Processes : cached[p] = <<>> \/ Active(cached[p]) = Active(keyset)

DropOld ==
  /\ emptied
  /\ Len(keyset) > 1
  /\ keyset' = <<Active(keyset)>>
  /\ UNCHANGED <<cached, table, command, drifted, emptied, edits, commands>>

--------------------------------------------------------------------------------
(* snapadmin_encrypt_fields --apply.                                        *)

SkipValue == [write |-> FALSE, failed |-> FALSE]
Unreadable == [write |-> FALSE, failed |-> TRUE]
Rewrite(stored) == [write |-> TRUE, failed |-> FALSE, stored |-> stored]

\* _plan: what to do with one stored value.
Plan(row, ks, mode) ==
  LET again == Rewrite(Ciphertext(row.value, ks)) IN
  CASE row.key = Plain -> IF "adopt" \in mode THEN again ELSE SkipValue
    [] row.key = Active(ks) -> IF "reindex" \in mode THEN again ELSE SkipValue
    [] OTHER -> IF "rotate" \notin mode THEN SkipValue
                ELSE IF Decrypts(row, ks) THEN again ELSE Unreadable

RowsAfterNext(pk) == { k \in Stored : k > pk + 1 }   \* Mutant: the cursor moves past a row.
RowsAfter(pk) == { k \in Stored : k > pk }

\* The next page of the keyset pagination: the first BatchSize rows past pk.
RowPage(pk) == { k \in RowsAfter(pk) : Cardinality({ j \in RowsAfter(pk) : j < k }) < BatchSize }

StartRotation(mode) ==
  /\ command = NoCommand
  /\ commands < MaxCommands
  /\ command' = [NoCommand EXCEPT !.mode = mode, !.keys = keyset, !.phase = "read",
                             !.current = Deployed]
  /\ commands' = commands + 1
  /\ UNCHANGED <<keyset, cached, table, drifted, emptied, edits>>

\* SELECT ... WHERE pk > cursor LIMIT n, then a plan for every row of the page.
Read ==
  /\ command.phase = "read"
  /\ LET page == RowPage(command.cursor)
         plan(k) == Plan(table[k], command.keys, command.mode)
     IN command' = [command EXCEPT
          !.batch = { [pk |-> k, stored |-> plan(k).stored] : k \in { j \in page : plan(j).write } },
          !.failed = @ \/ \E k \in page : plan(k).failed,
          !.cursor = IF page = {} THEN @ ELSE Max(page),
          !.phase = IF Cardinality(page) < BatchSize THEN "last" ELSE "write"]
  /\ UNCHANGED <<keyset, cached, table, drifted, emptied, edits, commands>>

\* _write: one UPDATE per row, in key order and by primary key alone; the index
\* is derived again.
First(new) == \A other \in command.batch : new.pk <= other.pk

WriteRow ==
  /\ \E new \in command.batch :
       /\ First(new)
       /\ table' = [k \in Rows |-> IF k = new.pk /\ k \in Stored
                                  THEN Row(new.stored, Index(new.stored.value, command.keys))
                                  ELSE table[k]]
       /\ drifted' = drifted \ {new.pk}
       /\ command' = [command EXCEPT !.batch = @ \ {new}]
  /\ UNCHANGED <<keyset, cached, emptied, edits, commands>>

NextPage ==
  /\ command.phase = "write" /\ command.batch = {}
  /\ command' = [command EXCEPT !.phase = "read"]
  /\ UNCHANGED <<keyset, cached, table, drifted, emptied, edits, commands>>

\* _report: with no failure the operator takes it that the old keys are free,
\* if every process wrote under the active key while the run read the table.
Report ==
  /\ command.phase = "last" /\ command.batch = {}
  /\ emptied' = (emptied \/ /\ "rotate" \in command.mode
                            /\ ~command.failed /\ command.current)
  /\ command' = NoCommand
  /\ UNCHANGED <<keyset, cached, table, drifted, edits, commands>>

\* The command is killed: the batches written stay.
Killed ==
  /\ command # NoCommand
  /\ command' = NoCommand
  /\ UNCHANGED <<keyset, cached, table, drifted, emptied, edits, commands>>

RotationNext ==
  \/ \E p \in Processes, k \in Rows, v \in Plaintexts : Save(p, k, v) \/ BulkUpdate(p, k, v)
  \/ \E k \in Rows : Delete(k)
  \/ \E p \in Processes : Restart(p)
  \/ Prepend \/ DropOld
  \/ \E mode \in Modes : StartRotation(mode)
  \/ Read \/ WriteRow \/ NextPage \/ Report \/ Killed

RotationSpec == RotationInit /\ [][RotationNext]_rotationVars

--------------------------------------------------------------------------------
(* Properties.                                                              *)

\* The types of the variables.
RotationTypeOK ==
  /\ Range(keyset) \subseteq Ids /\ keyset # <<>>
  /\ \A p \in Processes : Range(cached[p]) \subseteq Ids
  /\ \A k \in Stored : table[k].key \in Ids \union {Plain} /\ table[k].value \in Plaintexts
  /\ drifted \subseteq Rows /\ emptied \in BOOLEAN

\* However saves, kills and retries of the command fall, dropping the old keys
\* after a clean run leaves every ciphertext readable, and every row whose
\* index no bulk write left behind can be found by its value.
RotationSafe ==
  \A k \in Stored : table[k].key # Plain =>
    /\ Decrypts(table[k], keyset)
    /\ k \notin drifted => table[k].index \in Candidates(table[k].value, keyset)

\* Re-encrypting moves a value to another key; it is not a write of the value.
RotationKeepsValues ==
  [][ (\E new \in command.batch : command' = [command EXCEPT !.batch = @ \ {new}])
      => \A k \in Stored : table'[k].value = table[k].value ]_rotationVars
================================================================================
