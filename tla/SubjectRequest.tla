---------------------------- MODULE SubjectRequest ----------------------------
(***************************************************************************)
(* snapadmin_subject_request: the export and the erasure of everything     *)
(* that reaches one data subject, while the application goes on writing    *)
(* and the storage or Elasticsearch fails.  The rows are                   *)
(*   "path"     rows a subject_path leads to (the subject's own included), *)
(*   "index"    such rows of a model kept in Elasticsearch only,           *)
(*   "cascade"  rows that a delete of a "path" row takes with it and whose *)
(*              model has receivers, so that Django collects them,         *)
(*   "fast"     the same of a model without receivers: Django deletes them *)
(*              by one query and collects nothing,                         *)
(*   "protect"  rows that forbid the delete of a "path" row,               *)
(*   "other"    rows of somebody else, of the same model as "path".        *)
(* Django's Collector is modelled from its use.  The masking of an export  *)
(* is FieldAccess's, the documents of mirrored rows are MirrorSync's.      *)
(***************************************************************************)
EXTENDS Naturals, FiniteSets, FiniteSetsExt

CONSTANTS Layouts,     \* what kind each row is of
          Uploads,     \* stored files
          Recipients,  \* whether an export is encrypted
          MaxRequests, MaxSubjectChanges, MaxRequestFaults

NoFile == "none"      \* a row without a file
NotYet == "absent"    \* a row that has not been created
Gone == "gone"        \* a row that has been deleted; its key is not given again

Records == UNION { DOMAIN layout : layout \in Layouts }
Kinds == {"path", "index", "cascade", "fast", "protect", "other"}

ASSUME SubjectAssumption ==
  /\ \A layout \in Layouts : DOMAIN layout = Records /\ \A k \in Records : layout[k] \in Kinds
  /\ IsFiniteSet(Records)
  /\ {NoFile, NotYet, Gone} \cap Uploads = {}
  /\ Recipients \subseteq BOOLEAN

VARIABLES
  kind,     \* the layout
  records,  \* the file each row names, or that there is no such row
  storage,  \* the uploads in storage
  request,  \* the command that runs
  bundle,   \* the export files in storage: the model of each, and if it is encrypted
  audit,    \* the last audit entry, with what the command had found (history)
  requests, subjectChanges, requestFaults

subjectVars == <<kind, records, storage, request, bundle, audit, requests, subjectChanges, requestFaults>>

NoRequest == [action |-> "none", phase |-> "idle", confirm |-> FALSE, seal |-> FALSE,
              matched |-> {}, data |-> {}, names |-> {}, files |-> {}, report |-> 0,
              failed |-> {}, left |-> {}, model |-> "none", counted |-> 0, rest |-> {}, rows |-> {}]
NoAuditEntry == [action |-> "none"]

PresentRecords == { k \in Records : records[k] \notin {NotYet, Gone} }
Of(kinds) == { k \in PresentRecords : kind[k] \in kinds }
Model(k) == IF kind[k] = "other" THEN "path" ELSE kind[k]

Found == Of({"path", "index"})      \* what a subject_path leads to

Go(phase) == request' = [request EXCEPT !.phase = phase]

SubjectInit ==
  /\ kind \in Layouts
  /\ records \in [Records -> Uploads \union {NoFile, NotYet}]
  \* a name is shared by rows of one model only
  /\ \A j, k \in Records : records[j] = records[k] /\ records[j] \in Uploads => Model(j) = Model(k)
  /\ storage = Uploads
  /\ request = NoRequest
  /\ bundle = {}
  /\ audit = NoAuditEntry
  /\ requests = 0 /\ subjectChanges = 0 /\ requestFaults = 0

-----------------------------------------------------------------------------
(* The application.                                                        *)

\* A row is added, of the subject or not; a child needs its parent.
Add(k) ==
  /\ subjectChanges < MaxSubjectChanges
  /\ records[k] = NotYet
  /\ kind[k] \in {"cascade", "fast", "protect"} => Of({"path"}) # {}
  /\ records' = [records EXCEPT ![k] = NoFile]
  /\ subjectChanges' = subjectChanges + 1
  /\ UNCHANGED <<kind, storage, request, bundle, audit, requests, requestFaults>>

\* A row without a file comes to name the file a row of its model names.  (A
\* row that leaves such a file while the command runs is not modelled: nobody
\* would look at the file again.)
Adopt(k, j) ==
  /\ subjectChanges < MaxSubjectChanges
  /\ {j, k} \subseteq PresentRecords /\ records[k] = NoFile /\ Model(j) = Model(k) /\ records[j] \in Uploads
  /\ records' = [records EXCEPT ![k] = records[j]]
  /\ subjectChanges' = subjectChanges + 1
  /\ UNCHANGED <<kind, storage, request, bundle, audit, requests, requestFaults>>

\* A row without a file, and without children, is removed.  (Not while an
\* erasure runs, which would count it and find it gone.)
RemoveRecord(k) ==
  /\ subjectChanges < MaxSubjectChanges
  /\ request.phase \notin {"walk", "dry", "erase", "files", "index"}
  /\ k \in Of({"path", "index", "other"}) /\ records[k] = NoFile
  /\ kind[k] = "path" => Of({"cascade", "fast", "protect"}) = {}
  /\ records' = [records EXCEPT ![k] = Gone]
  /\ subjectChanges' = subjectChanges + 1
  /\ UNCHANGED <<kind, storage, request, bundle, audit, requests, requestFaults>>

-----------------------------------------------------------------------------
(* handle and _collect_matches.                                            *)

\* The operator may see raw PII, or nothing starts.
BeginRequest(action, confirm, seal) ==
  /\ request.phase = "idle"
  /\ requests < MaxRequests
  /\ requests' = requests + 1
  /\ LET matched == Found IN
       request' = IF matched = {} THEN request
                  ELSE [NoRequest EXCEPT !.action = action, !.confirm = confirm, !.seal = seal,
                                    !.matched = matched, !.left = matched,
                                    !.phase = IF action = "delete" THEN "walk" ELSE "export"]
  /\ bundle' = {}
  /\ audit' = NoAuditEntry
  /\ UNCHANGED <<kind, records, storage, subjectChanges, requestFaults>>

\* A CommandError, an exception nothing catches, or a killed process.
Abort ==
  /\ request' = NoRequest
  /\ UNCHANGED <<kind, records, storage, bundle, audit, requests, subjectChanges>>

RequestKilled ==
  /\ request.phase # "idle"
  /\ requestFaults < MaxRequestFaults /\ requestFaults' = requestFaults + 1
  /\ Abort

-----------------------------------------------------------------------------
(* _run_delete.                                                            *)

Doomed == request.matched \ { k \in Records : kind[k] = "index" }

NamedAtAll(k, gone) ==   \* Mutant: the rows that go are not excepted.
  \E j \in PresentRecords : Model(j) = Model(k) /\ records[j] = records[k]
\* _file_referenced, but for the rows that go.
NamedBeyond(k, gone) ==
  \E j \in PresentRecords \ gone : Model(j) = Model(k) /\ records[j] = records[k]

\* The Collector's walk over the matched rows; a protected relation refuses
\* everything, and the files are listed of what was collected.
Walk ==
  /\ request.phase = "walk"
  /\ LET data == (Doomed \intersect PresentRecords) \union
                 (IF Doomed # {} THEN Of({"cascade"}) ELSE {})
         named == { k \in data : records[k] \in Uploads /\ ~NamedBeyond(k, data) }
     IN IF Doomed # {} /\ Of({"protect"}) # {}
        THEN request' = NoRequest
        ELSE request' = [request EXCEPT
               !.data = data,
               !.names = { records[k] : k \in data } \intersect Uploads,
               !.files = { <<Model(k), records[k]>> : k \in named },
               !.report = Cardinality(data) + Cardinality(request.matched \ Doomed),
               !.phase = IF request.confirm THEN "erase" ELSE "dry"]
  /\ UNCHANGED <<kind, records, storage, bundle, audit, requests, subjectChanges, requestFaults>>

\* Without --confirm the report is all there is.
DryRun ==
  /\ request.phase = "dry"
  /\ request' = NoRequest
  /\ UNCHANGED <<kind, records, storage, bundle, audit, requests, subjectChanges, requestFaults>>

\* collector.delete(): one transaction, the fast deletes queried now; a child
\* that came since the walk violates its foreign key and undoes all of it.
Erase ==
  /\ request.phase = "erase"
  /\ IF request.data # {} /\ (Of({"cascade"}) \ request.data # {} \/ Of({"protect"}) # {})
     THEN request' = NoRequest /\ UNCHANGED records
     ELSE /\ records' = [k \in Records |->
               IF k \in request.data \union (IF request.data # {} THEN Of({"fast"}) ELSE {})
               THEN Gone ELSE records[k]]
          /\ Go("files")
  /\ UNCHANGED <<kind, storage, bundle, audit, requests, subjectChanges, requestFaults>>

\* _delete_stored_files: one file after the other, looked up once more.
RemoveUpload(entry) ==
  LET named == \E j \in PresentRecords : Model(j) = entry[1] /\ records[j] = entry[2] IN
  /\ request.phase = "files" /\ entry \in request.files
  /\ request' = [request EXCEPT !.files = @ \ {entry}]
  /\ storage' = IF named THEN storage ELSE storage \ {entry[2]}
  /\ UNCHANGED <<kind, records, bundle, audit, requests, subjectChanges, requestFaults>>

\* An error is reported, never raised.
RemoveUploadFails(entry) ==
  /\ request.phase = "files" /\ entry \in request.files
  /\ requestFaults < MaxRequestFaults /\ requestFaults' = requestFaults + 1
  /\ request' = [request EXCEPT !.files = @ \ {entry}, !.failed = @ \union {entry[2]}]
  /\ UNCHANGED <<kind, records, storage, bundle, audit, requests, subjectChanges>>

FilesDone ==
  /\ request.phase = "files" /\ request.files = {}
  /\ Go("index")
  /\ UNCHANGED <<kind, records, storage, bundle, audit, requests, subjectChanges, requestFaults>>

\* EsQuerySet.delete() of the rows kept in Elasticsearch only; a call that
\* fails raises out of the command.
EraseDocument(k) ==
  /\ request.phase = "index" /\ k \in request.left /\ kind[k] = "index"
  /\ records' = [records EXCEPT ![k] = Gone]
  /\ request' = [request EXCEPT !.left = @ \ {k}]
  /\ UNCHANGED <<kind, storage, bundle, audit, requests, subjectChanges, requestFaults>>

EraseFails ==
  /\ request.phase = "index" /\ \E k \in request.left : kind[k] = "index"
  /\ requestFaults < MaxRequestFaults /\ requestFaults' = requestFaults + 1
  /\ Abort

RecordDeletion ==
  /\ request.phase = "index" /\ ~\E k \in request.left : kind[k] = "index"
  /\ audit' = [action |-> "delete", rows |-> request.data \union request.matched,
               report |-> request.report, names |-> request.names, failed |-> request.failed]
  /\ request' = NoRequest
  /\ UNCHANGED <<kind, records, storage, bundle, requests, subjectChanges, requestFaults>>

-----------------------------------------------------------------------------
(* _run_export.                                                            *)

Models(ks) == { Model(k) : k \in ks }
OfModel(ks, m) == { k \in ks : Model(k) = m }

\* One export job per model, run here.  It counts the rows, ...
CountRows(m) ==
  /\ request.phase = "export" /\ m \in Models(request.left)
  /\ request' = [request EXCEPT !.phase = "rows", !.model = m, !.counted = Cardinality(OfModel(Found, m)),
                                !.rest = { k \in Records : Model(k) = m /\ kind[k] \in {"path", "index"} }]
  /\ UNCHANGED <<kind, records, storage, bundle, audit, requests, subjectChanges, requestFaults>>

\* ... then reads them in the order of their keys, a query for every page: a row
\* that has come is read, one that has gone is not.
ReadRow(k) ==
  /\ request.phase = "rows" /\ k \in request.rest /\ \A j \in request.rest : k =< j
  /\ request' = [request EXCEPT !.rest = @ \ {k}, !.rows = @ \union ({k} \intersect PresentRecords)]
  /\ UNCHANGED <<kind, records, storage, bundle, audit, requests, subjectChanges, requestFaults>>

\* A job that counted another number of rows than were found is refused, and
\* what was written before it stays.
EndModel ==
  LET found == OfModel(request.matched, request.model) IN
  /\ request.phase = "rows" /\ request.rest = {}
  /\ bundle' = bundle \union {[model |-> request.model, rows |-> request.rows, sealed |-> FALSE]}
  /\ request' = IF request.counted # Cardinality(found) THEN NoRequest
                ELSE [request EXCEPT !.phase = "export", !.left = @ \ found, !.model = "none", !.counted = 0, !.rows = {}]
  /\ UNCHANGED <<kind, records, storage, audit, requests, subjectChanges, requestFaults>>

SaveManifest ==
  /\ request.phase = "export" /\ request.left = {}
  /\ bundle' = bundle \union {[model |-> "manifest", rows |-> {}, sealed |-> FALSE]}
  /\ Go(IF request.seal THEN "seal" ELSE "record")
  /\ UNCHANGED <<kind, records, storage, audit, requests, subjectChanges, requestFaults>>

Plaintext == { f \in bundle : ~f.sealed }

\* _encrypt_bundle: the file is written encrypted, then the plaintext deleted.
SealFile(f) ==
  /\ request.phase = "seal" /\ f \in Plaintext
  /\ bundle' = (bundle \ {f}) \union {[f EXCEPT !.sealed = TRUE]}
  /\ UNCHANGED <<kind, records, storage, request, audit, requests, subjectChanges, requestFaults>>

BundleSealed ==
  /\ request.phase = "seal" /\ Plaintext = {}
  /\ Go("record")
  /\ UNCHANGED <<kind, records, storage, bundle, audit, requests, subjectChanges, requestFaults>>

RecordExport ==
  /\ request.phase = "record"
  /\ audit' = [action |-> "export", rows |-> request.matched, seal |-> request.seal]
  /\ request' = NoRequest
  /\ UNCHANGED <<kind, records, storage, bundle, requests, subjectChanges, requestFaults>>

SubjectNext ==
  \/ \E k \in Records : Add(k) \/ RemoveRecord(k) \/ \E j \in Records : Adopt(k, j)
  \/ \E confirm \in BOOLEAN : BeginRequest("delete", confirm, FALSE)
  \/ \E seal \in Recipients : BeginRequest("export", FALSE, seal)
  \/ RequestKilled \/ Walk \/ DryRun \/ Erase \/ FilesDone \/ EraseFails \/ RecordDeletion
  \/ \E entry \in request.files : RemoveUpload(entry) \/ RemoveUploadFails(entry)
  \/ \E k \in Records : EraseDocument(k) \/ ReadRow(k)
  \/ \E m \in Kinds : CountRows(m)
  \/ EndModel \/ SaveManifest \/ BundleSealed \/ RecordExport
  \/ \E f \in bundle : SealFile(f)

SubjectSpec == SubjectInit /\ [][SubjectNext]_subjectVars

-----------------------------------------------------------------------------
(* Properties.                                                             *)

\* An erasure that is on record took every row it had found and counted, and
\* of the files those rows named, as far as Django collected the rows, only one
\* that a row still names or that is reported as failed is left.
ErasureComplete ==
  audit.action = "delete" =>
    /\ audit.rows \intersect PresentRecords = {}
    /\ audit.report = Cardinality(audit.rows)
    /\ \A name \in audit.names \intersect storage :
         name \in audit.failed \/ \E k \in PresentRecords : records[k] = name

\* An export that is on record holds every row that was found, but those that
\* are gone, and nothing of it is in plain text when recipients were named.
ExportComplete ==
  audit.action = "export" =>
    /\ \A m \in Models(audit.rows) : \E f \in bundle :
         f.model = m /\ OfModel(audit.rows, m) \intersect PresentRecords \subseteq f.rows
    /\ audit.seal => Plaintext = {}

\* However the application, the storage and Elasticsearch interfere, a request
\* that is recorded as served was served.
SubjectServed == ErasureComplete /\ ExportComplete

\* What the documentation says of the manifest: it lists what was exported.  The
\* row_count it gives is the number found, compared with a count taken before the
\* rows are read: a row that comes or goes in between makes the file differ.
ManifestExact ==
  audit.action = "export" =>
    \A m \in Models(audit.rows) : \E f \in bundle :
      f.model = m /\ Cardinality(f.rows) = Cardinality(OfModel(audit.rows, m))

\* The types of the variables.
SubjectTypeOK ==
  /\ kind \in Layouts /\ records \in [Records -> Uploads \union {NoFile, NotYet, Gone}]
  /\ storage \subseteq Uploads /\ request.matched \subseteq Records /\ request.data \subseteq Records
  /\ requests \in 0..MaxRequests /\ subjectChanges \in 0..MaxSubjectChanges /\ requestFaults \in 0..MaxRequestFaults
================================================================================
