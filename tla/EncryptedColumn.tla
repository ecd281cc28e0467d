--------------------------- MODULE EncryptedColumn ---------------------------
(***************************************************************************)
(* One encrypted field of a model and its blind-index sibling column       *)
(* (fields.py, SnapModel.save in models.py): rows in the database,         *)
(* instances in memory that may have been loaded without one of the two    *)
(* columns, the ways Django writes them, fixtures, and the lookups that    *)
(* are answered through the sibling or refused.                            *)
(*                                                                         *)
(* A text is NULL, a plain value, or an envelope: the key it names and the *)
(* value it seals.  An index is the key it was derived under and the text  *)
(* it was derived from.  Nonces and the cipher itself are not told apart.  *)
(* Django's part (which columns a save writes) is modelled from its use.   *)
(***************************************************************************)
EXTENDS Naturals, Sequences, Functions

CONSTANTS ColumnRows,      \* primary keys
          Handles,         \* instances in memory, one per process
          ColumnValues,    \* plaintexts
          FieldKinds,      \* what the wrapped field holds: "text", "int", "date"
          Fixtures,        \* whether rows are dumped and loaded again
          Partial,         \* whether instances are loaded with .only() and .defer()
          MaxColumnWrites  \* writes of the table, and changes of the keyset

ASSUME ColumnAssumption ==
  /\ 0 \notin ColumnRows
  /\ FieldKinds \subseteq {"text", "int", "date"}
  /\ Fixtures \in BOOLEAN /\ Partial \in BOOLEAN /\ MaxColumnWrites \in Nat

VARIABLES
  field,     \* the declaration: kind, blind_index, unique, and whether on a SnapModel
  keyset,    \* the configured keys, the active one first; <<>> where none is
  table,     \* the two columns of every row
  held,      \* the instance each handle holds
  fixture,   \* the dumped rows
  meant,     \* what the application last wrote to each row (history)
  drifted,   \* rows whose index a documented path left behind (history)
  torn,      \* rows written from a partly loaded instance, or from a fixture (history)
  columnWrites

columnVars == <<field, keyset, table, held, fixture, meant, drifted, torn, columnWrites>>

Null == [shape |-> "null", key |-> 0, value |-> "none"]
Deferred == [shape |-> "deferred", key |-> 0, value |-> "none"]
Plain(v) == [shape |-> "plain", key |-> 0, value |-> v]
Envelope(k, v) == [shape |-> "envelope", key |-> k, value |-> v]
Texts == { Plain(v) : v \in ColumnValues } \union {Null}

NoIndex == [key |-> 0, text |-> Null]
NotLoaded == [key |-> 0, text |-> Deferred]
NoRecord == [stored |-> Deferred, index |-> NotLoaded]
Unheld == [pk |-> 0, source |-> Deferred, sibling |-> NotLoaded]
Present == { k \in ColumnRows : table[k] # NoRecord }

-----------------------------------------------------------------------------
(* The field.                                                              *)

\* encode_plaintext of an envelope: the text of a character field, a ValueError
\* of an integer one, an AttributeError, which nothing catches, of a date.
Encodes(text) == text.shape = "plain" \/ field.kind = "text"
Raises(text) == field.indexed /\ text.shape = "envelope" /\ field.kind = "date"

\* blind_index_of: without a keyset, or of what cannot be encoded, no index.
IndexOf(text) ==
  IF text = Null \/ keyset = <<>> \/ ~Encodes(text)
  THEN NoIndex
  ELSE [key |-> Head(keyset), text |-> text]

\* index_candidates: one index per key of the keyset.
Candidates(text) == { [key |-> k, text |-> text] : k \in Range(keyset) }

\* get_db_prep_value: NULL and an envelope are written as they are.
Sealed(text) ==
  IF text.shape = "plain" THEN Envelope(Head(keyset), text.value) ELSE text
Sealable(text) == text.shape = "plain" => keyset # <<>>

\* from_db_value
Opened(stored) == IF stored = Null THEN Null ELSE Plain(stored.value)
Readable(stored) == stored # Null => stored.key \in Range(keyset)

\* The descriptor of the sibling: derived from the source when that is loaded,
\* else what was loaded, else what the row holds.
SiblingOf(instance) ==
  IF instance.source # Deferred THEN IndexOf(instance.source)
  ELSE IF instance.sibling # NotLoaded THEN instance.sibling
  ELSE table[instance.pk].index

-----------------------------------------------------------------------------
(* Writing.                                                                *)

BothColumns == {"source", "index"}
DeclaredColumns == IF field.indexed THEN BothColumns ELSE {"source"}

Loaded(instance) ==
  (IF instance.source # Deferred THEN {"source"} ELSE {})
  \union (IF instance.sibling # NotLoaded THEN {"index"} ELSE {})

NamedOnly(named) == named   \* Mutant: update_fields is passed on as it is.
\* SnapModel.save: update_fields that name the field name its index too.
WithIndexColumns(named) ==
  IF field.snap /\ field.indexed /\ "source" \in named THEN named \union {"index"} ELSE named

\* One UPDATE or INSERT of some columns of row k from an instance in memory.
RowWritten(k, columns, instance) ==
  [stored |-> IF "source" \in columns THEN Sealed(instance.source) ELSE table[k].stored,
   index |-> IF "index" \in columns THEN SiblingOf(instance)
             ELSE IF k \in Present THEN table[k].index ELSE NoIndex]

\* The unique constraint is on the sibling column.
Unique(k, row) ==
  field.unique /\ row.index # NoIndex
    => \A other \in Present \ {k} : table[other].index # row.index

Writes(k, columns, instance) ==
  /\ columnWrites < MaxColumnWrites
  /\ "source" \in columns => Sealable(instance.source)
  /\ "index" \in columns => ~Raises(instance.source)
  /\ Unique(k, RowWritten(k, columns, instance))
  /\ table' = [table EXCEPT ![k] = RowWritten(k, columns, instance)]
  /\ meant' = IF "source" \in columns
              THEN [meant EXCEPT ![k] = Opened(Sealed(instance.source))] ELSE meant
  /\ columnWrites' = columnWrites + 1
  /\ UNCHANGED <<field, keyset, fixture>>

\* A write of both columns from the value itself repairs the row.
Repairs(k) == drifted' = drifted \ {k} /\ torn' = torn \ {k}

ColumnInit ==
  /\ field \in [kind : FieldKinds, indexed : BOOLEAN, unique : BOOLEAN, snap : BOOLEAN]
  /\ field.unique => field.indexed
  /\ keyset = <<1>>
  /\ table = [k \in ColumnRows |-> NoRecord]
  /\ held = [h \in Handles |-> Unheld]
  /\ fixture = [k \in ColumnRows |-> NoRecord]
  /\ meant = [k \in ColumnRows |-> Null]
  /\ drifted = {} /\ torn = {} /\ columnWrites = 0

\* Model.objects.create, or a bulk_create.
CreateRow(h, k, text) ==
  LET new == [pk |-> k, source |-> text, sibling |-> NoIndex] IN
  /\ k \notin Present
  /\ Writes(k, DeclaredColumns, new)
  /\ held' = [held EXCEPT ![h] = new]
  /\ Repairs(k)

\* get(), .only() and .defer(); a ciphertext that cannot be read raises.
LoadInstance(h, k, columns) ==
  /\ k \in Present
  /\ columns # DeclaredColumns => Partial
  /\ "source" \in columns => Readable(table[k].stored)
  /\ held' = [held EXCEPT ![h] =
       [pk |-> k,
        source |-> IF "source" \in columns THEN Opened(table[k].stored) ELSE Deferred,
        sibling |-> IF "index" \in columns THEN table[k].index ELSE NotLoaded]]
  /\ UNCHANGED <<field, keyset, table, fixture, meant, drifted, torn, columnWrites>>

Assign(h, text) ==
  /\ held[h] # Unheld
  /\ held' = [held EXCEPT ![h].source = text]
  /\ UNCHANGED <<field, keyset, table, fixture, meant, drifted, torn, columnWrites>>

\* save(): of a partly loaded instance Django writes the columns it has.
SaveInstance(h) ==
  LET columns == Loaded(held[h]) \intersect DeclaredColumns IN
  /\ columns # {}
  /\ Writes(held[h].pk, columns, held[h])
  /\ IF columns = DeclaredColumns THEN Repairs(held[h].pk)
     ELSE torn' = torn \union {held[h].pk} /\ UNCHANGED drifted
  /\ UNCHANGED held

\* save(update_fields=[field])
SaveNamed(h) ==
  LET columns == WithIndexColumns({"source"}) IN
  /\ held[h].source # Deferred
  /\ Writes(held[h].pk, columns, held[h])
  /\ IF columns = DeclaredColumns \/ field.snap THEN Repairs(held[h].pk)
     ELSE drifted' = drifted \union {held[h].pk} /\ UNCHANGED torn
  /\ UNCHANGED held

\* bulk_update of the field, with or without its index named beside it.
BulkUpdate(h, columns) ==
  /\ held[h].source # Deferred
  /\ "source" \in columns /\ columns \subseteq DeclaredColumns
  /\ Writes(held[h].pk, columns, held[h])
  /\ IF columns = DeclaredColumns THEN Repairs(held[h].pk)
     ELSE drifted' = drifted \union {held[h].pk} /\ UNCHANGED torn
  /\ UNCHANGED held

\* QuerySet.update(field=value)
QueryUpdate(k, text) ==
  /\ k \in Present
  /\ Writes(k, {"source"}, [pk |-> k, source |-> text, sibling |-> NotLoaded])
  /\ drifted' = IF field.indexed THEN drifted \union {k} ELSE drifted
  /\ UNCHANGED <<held, torn>>

\* dumpdata: value_to_string seals the value again, the index goes out as it reads.
Dump ==
  /\ Fixtures
  /\ Present # {} /\ \A k \in Present : Readable(table[k].stored)
  /\ keyset # <<>>
  /\ fixture' = [k \in ColumnRows |->
       IF k \in Present
       THEN [stored |-> Sealed(Opened(table[k].stored)),
             index |-> IndexOf(Opened(table[k].stored))]
       ELSE NoRecord]
  /\ UNCHANGED <<field, keyset, table, held, meant, drifted, torn, columnWrites>>

\* loaddata: to_python leaves the envelope as it is, and the raw save asks the
\* descriptor for the index like every other.
Reload(k) ==
  /\ fixture[k] # NoRecord
  /\ Writes(k, DeclaredColumns, [pk |-> k, source |-> fixture[k].stored, sibling |-> fixture[k].index])
  /\ drifted' = drifted \ {k}
  /\ torn' = torn \union {k}
  /\ UNCHANGED held

\* The keyset is rotated, or the process runs where no key is configured.
Configure ==
  /\ columnWrites < MaxColumnWrites
  /\ keyset' \in {<<2, 1>>} \union (IF Fixtures THEN {<<>>} ELSE {})
  /\ keyset' # keyset
  /\ columnWrites' = columnWrites + 1
  /\ UNCHANGED <<field, table, held, fixture, meant, drifted, torn>>

ColumnNext ==
  \/ \E h \in Handles, k \in ColumnRows, text \in Texts : CreateRow(h, k, text)
  \/ \E h \in Handles, k \in ColumnRows, columns \in SUBSET DeclaredColumns : LoadInstance(h, k, columns)
  \/ \E h \in Handles, text \in Texts : Assign(h, text)
  \/ \E h \in Handles : SaveInstance(h) \/ SaveNamed(h)
  \/ \E h \in Handles, columns \in SUBSET BothColumns : BulkUpdate(h, columns)
  \/ \E k \in ColumnRows, text \in Texts : QueryUpdate(k, text)
  \/ Dump
  \/ \E k \in ColumnRows : Reload(k)
  \/ Configure

ColumnSpec == ColumnInit /\ [][ColumnNext]_columnVars

-----------------------------------------------------------------------------
(* Lookups.                                                                *)

\* exact and in of a field with a blind index; NULL is looked up as isnull.
Found(texts) ==
  { k \in Present : \E text \in texts \ {Null} : table[k].index \in Candidates(text) }
IsNull == { k \in Present : table[k].stored = Null }

\* get_lookup: whether the field answers a lookup or refuses it.
Answers(lookup) == lookup = "isnull" \/ (field.indexed /\ lookup \in {"exact", "in"})

-----------------------------------------------------------------------------
(* Properties.                                                             *)

Holding(text) == { k \in Present : meant[k] = text }

\* What was written is what is read, through every way of writing.
ReadsBack == \A k \in Present : Opened(table[k].stored) = meant[k]

AnswersRightBut(excused) ==
  /\ IsNull = Holding(Null)
  /\ Answers("exact") /\ keyset # <<>> =>
       \A v \in ColumnValues : Found({Plain(v)}) \ excused = Holding(Plain(v)) \ excused

\* However saves of several instances, partial saves and rotations fall, a
\* value reads back as written, a lookup the field answers finds exactly the
\* rows that hold the value, but those whose index a documented path, a partly
\* loaded instance or a fixture left behind, and a unique field holds a value
\* twice only under two keys.
AnswersRight ==
  /\ ReadsBack
  /\ AnswersRightBut(drifted \union torn)
  /\ field.unique =>
       \A j, k \in Present \ (drifted \union torn) :
         j # k /\ table[j].index # NoIndex => table[j].index # table[k].index

\* docs/index.html: bulk_update(), QuerySet.update() and save(update_fields=...)
\* of a plain model are the write paths that cannot refresh the sibling column.
OnlyThreePathsDrift == AnswersRightBut(drifted)

\* The types of the variables.
ColumnTypeOK ==
  /\ keyset \in {<<>>, <<1>>, <<2, 1>>}
  /\ \A h \in Handles : held[h].pk \in ColumnRows \union {0}
  /\ \A k \in ColumnRows : meant[k] \in Texts
  /\ drifted \subseteq ColumnRows /\ torn \subseteq ColumnRows /\ columnWrites \in 0..MaxColumnWrites
=============================================================================
