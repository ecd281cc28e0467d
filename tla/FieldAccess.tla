----------------------------- MODULE FieldAccess -----------------------------
(***************************************************************************)
(* Who sees which raw value of a model's row, and where: the REST API, its *)
(* filters, ordering, search and fetch-by, GraphQL, background exports,    *)
(* the admin's columns and forms, the audit trail and its labels           *)
(* (masking.py and everything that asks it). Permissions are granted and   *)
(* taken away while exports wait and audit rows stay.                      *)
(***************************************************************************)
EXTENDS Integers, FiniteSets

CONSTANTS
  Users,
  Fields,
  Perms,           \* permissions; Super and Pii are two of them
  Models,          \* declarations and settings of one model, see IsModel
  MaxFieldChanges  \* bound: grants, revocations and deactivations

Super == "super"
Pii == "view_raw_pii"
Staff == "staff"       \* whom SNAPADMIN_PII_ACCESS_CHECK answers True for
NoName == "none"
NoRule == [pattern |-> "none", constant |-> FALSE, permission |-> NoName]

\* A rule's pattern is absent, fits some values, or cannot be used.
RuleShapes == [pattern : {"none", "fits", "unusable"}, constant : BOOLEAN, permission : Perms \cup {NoName}]
Values == {"null", "usual", "unmatched", "huge"}

IsModel(m) ==
  /\ m.listed \subseteq Fields        \* SNAPADMIN_MASKED_FIELDS
  /\ m.ruled \subseteq Fields         \* the fields SNAPADMIN_MASKING_RULES names
  /\ m.rule \in [m.ruled -> RuleShapes]
  /\ m.check \in {NoName, "staff", "raises"}  \* SNAPADMIN_PII_ACCESS_CHECK
  /\ m.encrypted \subseteq Fields /\ m.siblings \subseteq Fields \* with blind indexes
  /\ m.read \in UNION {[S -> Perms] : S \in SUBSET Fields}  \* api_field_permissions
  /\ m.write \in UNION {[S -> Perms] : S \in SUBSET Fields}
  /\ m.foreign \subseteq Fields       \* foreign keys, whose column has a name of its own
  /\ m.excluded \subseteq Fields      \* api_exclude_fields
  /\ m.writable \subseteq Fields      \* api_write_fields
  /\ m.search \subseteq SUBSET Fields \* search fields, as the fields of their path
  /\ m.routed \in BOOLEAN            \* mirrored, and a search is routed to the mirror
  /\ m.text \subseteq Fields         \* what the mirror matches a term against
  /\ m.indexed \subseteq Fields
  /\ m.label \subseteq Fields         \* what __str__ prints
  /\ m.strict \in BOOLEAN             \* SNAPADMIN_API_STRICT_QUERY_PARAMS
  /\ m.open \in BOOLEAN               \* not SNAPADMIN_GRAPHQL_REQUIRE_AUTH

ASSUME FieldAccessAssumption ==
  /\ {Super, Pii, Staff} \subseteq Perms /\ NoName \notin Perms
  /\ IsFiniteSet(Fields) /\ MaxFieldChanges \in Nat
  /\ \A m \in Models : IsModel(m)

VARIABLES
  model,
  active, holds,  \* the users' accounts
  job,            \* an export job: its status and who submitted it
  trail,          \* audit rows: the field an edit changed, and what was stored
  given,          \* what the last request gave away, to whom, by which door, and
                  \* the fields it matched on that the door checks nobody for
  fieldChanges

fieldVars == <<model, active, holds, job, trail, given, fieldChanges>>

NoJob == [status |-> "none", by |-> NoName]
NothingGiven == [user |-> NoName, door |-> "api", fields |-> {}, unchecked |-> {}]

-----------------------------------------------------------------------------
(* masking.py: what is sensitive and who may see it raw.                   *)

EncryptedFields == model.encrypted \cup model.siblings
MaskedFields == model.listed \cup model.ruled \cup EncryptedFields
RuleFor(f) == IF f \in model.ruled THEN model.rule[f] ELSE NoRule

HasPerm(u, p) == active[u] /\ holds[u] \cap {p, Super} # {}

\* Only True itself unlocks; a check that raises answers False.
AccessCheckAllows(u) == model.check = "staff" /\ Staff \in holds[u]

\* user_can_view_pii without a field.
CanViewPii(u) ==
  /\ active[u]
  /\ \/ Super \in holds[u]
     \/ model.check = NoName /\ HasPerm(u, Pii)
     \/ AccessCheckAllows(u)

CanViewField(u, f) ==
  \/ CanViewPii(u)
  \/ RuleFor(f).permission # NoName /\ HasPerm(u, RuleFor(f).permission)

CanRead(u, f) == f \in DOMAIN model.read => HasPerm(u, model.read[f])
CanWrite(u, f) == f \in DOMAIN model.write => HasPerm(u, model.write[f])

\* Null hides nothing; everything else is starred.
MaskValue(v) == IF v = "null" THEN "null" ELSE "masked"

\* A pattern that cannot be used, does not match, or would have to run on a
\* value too long for it gives way to the built-in masker.
ApplyRule(r, v) ==
  CASE r.pattern = "none" /\ r.constant /\ v # "null" -> "constant"
    [] r.pattern = "fits" /\ v = "usual" -> "rewritten"
    [] OTHER -> MaskValue(v)

MaskField(u, f, v) == IF CanViewField(u, f) THEN "raw" ELSE ApplyRule(RuleFor(f), v)
\* mask_field with no viewer in hand.
MaskForAll(f, v) == ApplyRule(RuleFor(f), v)

-----------------------------------------------------------------------------
(* The accounts.                                                           *)

FieldInit ==
  /\ model \in Models
  /\ active = [u \in Users |-> TRUE]
  /\ holds = [u \in Users |-> {}]
  /\ job = NoJob
  /\ trail = {}
  /\ given = NothingGiven
  /\ fieldChanges = 0

Account(u) ==
  /\ fieldChanges < MaxFieldChanges /\ fieldChanges' = fieldChanges + 1
  /\ given' = NothingGiven
  /\ UNCHANGED <<model, job, trail>>

Grant(u) ==
  /\ \E p \in Perms : p \notin holds[u] /\ holds' = [holds EXCEPT ![u] = @ \cup {p}]
  /\ UNCHANGED active /\ Account(u)

Revoke(u) ==
  /\ holds[u] # {} /\ holds' = [holds EXCEPT ![u] = {}]
  /\ UNCHANGED active /\ Account(u)

Deactivate(u) ==
  /\ active[u] /\ active' = [active EXCEPT ![u] = FALSE]
  /\ UNCHANGED holds /\ Account(u)

GivesBoth(u, door, fields, unchecked) ==
  given' = [user |-> u, door |-> door, fields |-> fields, unchecked |-> unchecked]
Gives(u, door, fields) == GivesBoth(u, door, fields, {})
Reads == UNCHANGED <<model, active, holds, job, trail, fieldChanges>>

\* The reference: what the settings entitle a user to, by door.
Unlocks(f) ==
  {Super} \cup (IF model.check = NoName THEN {Pii} ELSE IF model.check = "staff" THEN {Staff} ELSE {})
          \cup (IF f \in model.ruled THEN {model.rule[f].permission} ELSE {})
Sensitive(f) == f \in model.listed \cup model.ruled \cup model.encrypted \cup model.siblings
Granted(u, rights, f) == f \in DOMAIN rights => active[u] /\ holds[u] \cap {rights[f], Super} # {}
Entitled(u, door) ==
  {f \in Fields :
     IF door = "write" THEN Granted(u, model.write, f) /\ f \in model.writable
     ELSE /\ Sensitive(f) => active[u] /\ holds[u] \cap Unlocks(f) # {}
          /\ door = "api" => Granted(u, model.read, f)}

-----------------------------------------------------------------------------
(* The REST API.                                                           *)

\* PIIMaskingSerializerMixin over FieldPermissionSerializerMixin.
Serialized(u, f, v) ==
  IF f \in model.excluded \/ ~CanRead(u, f) THEN "absent"
  ELSE IF f \in MaskedFields /\ ~CanViewPii(u) THEN MaskField(u, f, v) ELSE "raw"

\* A field answers to its name; a foreign key's generated filters to its column.
Name(f) == [field |-> f, column |-> FALSE]
Column(f) == [field |-> f, column |-> f \in model.foreign]
Names == {Name(f) : f \in Fields} \cup {Column(f) : f \in Fields}
AtMostOne(names) == {{}} \cup {{n} : n \in names}

HiddenFields(u) ==
  (IF CanViewPii(u) THEN {} ELSE MaskedFields) \cup {f \in Fields : ~CanRead(u, f)}

\* Mutant: a foreign key is hidden by its name alone.
HiddenByName(u) == {Name(f) : f \in HiddenFields(u)}
\* _hidden_filter_fields
Hidden(u) == UNION {{Name(f), Column(f)} : f \in HiddenFields(u)}

\* No filter is generated for ciphertext or a blind index.
Filters == {Column(f) : f \in Fields \ EncryptedFields}
VisibleFilters(u) == Filters \ Hidden(u)
VisibleOrdering(u) == {Name(f) : f \in Fields \ model.excluded} \ Hidden(u)
VisibleSearch(u) == {path \in model.search : \A f \in path : Name(f) \notin Hidden(u)}

\* Strict: whatever nothing will act on is refused. Otherwise it is dropped.
Accepted(sent, visible) == model.strict => sent \subseteq visible
Matched(sent, visible) == {n.field : n \in sent \cap visible}

\* A term goes to the mirror as it is: es_search matches it against every text
\* field, or, when Elasticsearch fails, against every search field.
SearchChecked(u, searched) == IF searched /\ ~model.routed THEN UNION VisibleSearch(u) ELSE {}
SearchUnchecked(searched) == IF searched /\ model.routed THEN {model.text, UNION model.search} ELSE {{}}

\* list, count and export: filters, ordering terms and a search term.
Listing(u) ==
  /\ active[u]
  /\ \E filters \in AtMostOne(Names), order \in AtMostOne({Name(f) : f \in Fields}),
        searched \in BOOLEAN :
       /\ filters = {} \/ order = {}
       /\ Accepted(filters, VisibleFilters(u)) /\ Accepted(order, VisibleOrdering(u))
       /\ searched /\ model.strict => model.routed \/ VisibleSearch(u) # {}
       /\ \E matched \in SearchUnchecked(searched) :
            GivesBoth(u, "api", {f \in Fields : \E v \in Values : Serialized(u, f, v) = "raw"}
                                \cup Matched(filters, VisibleFilters(u))
                                \cup Matched(order, VisibleOrdering(u))
                                \cup SearchChecked(u, searched), matched)
  /\ Reads

FetchBy(u) ==
  /\ active[u]
  /\ \E f \in model.indexed :
       /\ Name(f) \notin Hidden(u)
       /\ Gives(u, "api", {f} \cup {g \in Fields : \E v \in Values : Serialized(u, g, v) = "raw"})
  /\ Reads

\* A field outside api_write_fields is read-only, and ignored; a guarded field
\* refuses the whole write.
Write(u) ==
  /\ active[u]
  /\ \E body \in SUBSET Fields :
       LET valid == (body \cap model.writable) \ model.excluded
       IN /\ \A f \in valid : CanWrite(u, f)
          /\ Gives(u, "write", valid)
  /\ Reads

-----------------------------------------------------------------------------
(* GraphQL: a resolver nulls what REST leaves out.                         *)

Resolved(u, f, v) ==
  IF f \in model.excluded THEN "absent" ELSE IF ~CanRead(u, f) THEN "null"
  ELSE IF f \notin MaskedFields \/ CanViewPii(u) THEN "raw" ELSE MaskField(u, f, v)

GraphQL(u) ==
  /\ active[u] \/ model.open
  /\ \E searched \in BOOLEAN :
       /\ searched => model.routed \/ VisibleSearch(u) # {}
       /\ \E matched \in SearchUnchecked(searched) :
            GivesBoth(u, "api", {f \in Fields : \E v \in Values : Resolved(u, f, v) = "raw"}
                                \cup SearchChecked(u, searched), matched)
  /\ Reads

-----------------------------------------------------------------------------
(* Background exports: filters are judged at submission, rows at the run.  *)

ExportMasked(u) == IF CanViewPii(u) THEN {} ELSE MaskedFields
ExportFilters == {Column(f) : f \in Fields}

Submit(u) ==
  /\ active[u] /\ job.status = "none"
  /\ \E filters \in AtMostOne(ExportFilters) :
       /\ \A n \in filters : ~n.column => n.field \notin ExportMasked(u)
       /\ GivesBoth(u, "filter", {n.field : n \in {x \in filters : ~x.column}},
                                 {n.field : n \in {x \in filters : x.column}})
  /\ job' = [status |-> "pending", by |-> u]
  /\ UNCHANGED <<model, active, holds, trail, fieldChanges>>

RunExport ==
  LET u == job.by
  IN /\ job.status = "pending"
     /\ Gives(u, "admin", {f \in Fields : f \in ExportMasked(u) =>
                                \E v \in Values : MaskField(u, f, v) = "raw"})
     /\ job' = [job EXCEPT !.status = "completed"]
     /\ UNCHANGED <<model, active, holds, trail, fieldChanges>>

-----------------------------------------------------------------------------
(* The admin and the audit trail.                                          *)

ChangeList(u) ==
  /\ active[u]
  /\ Gives(u, "admin", {f \in Fields : f \in MaskedFields /\ ~CanViewPii(u) =>
                            \E v \in Values : MaskField(u, f, v) = "raw"})
  /\ Reads

FormFields(u) == Fields \ (IF CanViewPii(u) THEN {} ELSE MaskedFields)
ChangeForm(u) == active[u] /\ Gives(u, "admin", FormFields(u)) /\ Reads

\* save_model stores the raw diff in SnapAdmin's trail, redacted if encrypted,
\* and a masked copy in Django's own history.
Edit(u) ==
  /\ active[u]
  /\ \E f \in FormFields(u), v \in Values :
       trail' = {[field |-> f,
                  stored |-> IF f \in model.encrypted THEN "redacted" ELSE "raw",
                  message |-> IF f \in model.encrypted THEN "redacted"
                              ELSE IF f \in MaskedFields THEN MaskForAll(f, v) ELSE "raw"]}
  /\ given' = NothingGiven
  /\ UNCHANGED <<model, active, holds, job, fieldChanges>>

\* mask_changes, for the timeline's viewer.
Timeline(u) ==
  /\ active[u]
  /\ \E v \in Values :
       Gives(u, "admin", {r.field : r \in {s \in trail :
         s.stored = "raw" /\ (s.field \in MaskedFields => MaskField(u, s.field, v) = "raw")}})
  /\ Reads

\* An audit row's own page: the raw diff, or one masked for nobody in particular.
AuditForm(u) ==
  /\ active[u]
  /\ \E v \in Values :
       Gives(u, "admin", {r.field : r \in {s \in trail :
         s.stored = "raw"
         /\ (CanViewPii(u) \/ (s.field \in MaskedFields => MaskForAll(s.field, v) = "raw"))}})
  /\ Reads

AdminHistory(u) ==
  /\ active[u]
  /\ Gives(u, "admin", {r.field : r \in {s \in trail : s.message = "raw"}})
  /\ Reads

\* object_repr_hidden: a label may print any field, so it takes the right to all.
LabelHidden(u) == \E f \in MaskedFields : ~CanViewField(u, f)

AuditLabels(u) ==
  /\ active[u] /\ trail # {}
  /\ Gives(u, "admin", IF LabelHidden(u) THEN {} ELSE model.label)
  /\ Reads

Request(u) ==
  \/ Listing(u) \/ FetchBy(u) \/ Write(u) \/ GraphQL(u) \/ Submit(u)
  \/ ChangeList(u) \/ ChangeForm(u) \/ Edit(u) \/ Timeline(u) \/ AuditForm(u)
  \/ AdminHistory(u) \/ AuditLabels(u)

FieldNext ==
  \/ \E u \in Users : Grant(u) \/ Revoke(u) \/ Deactivate(u) \/ Request(u)
  \/ RunExport

FieldSpec == FieldInit /\ [][FieldNext]_fieldVars

-----------------------------------------------------------------------------
(* Properties.                                                             *)

FieldTypeOK ==
  /\ model \in Models /\ active \in [Users -> BOOLEAN] /\ holds \in [Users -> SUBSET Perms]
  /\ job.by \in Users \cup {NoName} /\ given.fields \subseteq Fields
  /\ fieldChanges \in 0..MaxFieldChanges

\* The fields a door matches on without asking for its caller: a search that goes to
\* Elasticsearch, and a background export's filter by a foreign key's column.
Unguarded(door) ==
  CASE door = "api" /\ model.routed -> model.text \cup UNION model.search
    [] door = "filter" -> model.foreign
    [] OTHER -> {}

\* No surface gives away, as a value or by a filter, an ordering, a search or a count,
\* a field its caller is not entitled to see, and none writes one its caller may not
\* write. A background export's filters are held to what its user may see when
\* submitting it, its file to what that user may see when it runs. What is matched is
\* held to the same, but for the unguarded fields, on which the next two are violated.
RawOnlyToEntitled ==
  given.user # NoName =>
    /\ given.fields \subseteq Entitled(given.user, given.door)
    /\ given.unchecked \subseteq Entitled(given.user, given.door) \cup Unguarded(given.door)

\* What get_queryset says of ?search=: it never answers match or no match on a field
\* its caller may not see. That is done to the search fields of the database alone.
SearchBlind ==
  given.user # NoName /\ given.door = "api" => given.unchecked \subseteq Entitled(given.user, "api")

\* What _validate_export_filters says of a masked field: a filter on it is rejected.
\* A foreign key is filtered by its column, which is not the name that is masked.
ExportFilterBlind ==
  given.user # NoName /\ given.door = "filter" => given.unchecked \subseteq Entitled(given.user, "filter")
=============================================================================
