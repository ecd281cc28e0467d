------------------------- MODULE DeclarationChecks -------------------------
(***************************************************************************)
(* The system checks of snapadmin/checks.py that read what a model declares *)
(* and the shape of SNAPADMIN_SHARDING, each beside the code the declaration *)
(* reaches.  XOptions, XReports and XFailures are as in SettingsChecks.      *)
(***************************************************************************)
EXTENDS SettingsChecks

-----------------------------------------------------------------------------
(* What a client may write: api_write_fields, api_read_only, and the verbs.  *)

Reads == {"get", "head", "options"}
WriteVerbs == {"post", "put", "patch"}
Verbs == Reads \cup WriteVerbs \cup {"delete"}

WritesOptions ==
  [rest      |-> <<FALSE, TRUE>>,
   fields    |-> <<"unset", "none", "some">>,
   read_only |-> <<FALSE, TRUE>>,
   methods   |-> <<{"unset"}, {"get"}, {"get", "post"}, {"get", "delete"}>>,
   action    |-> <<{}, {"post"}, {"get"}, {"get", "post"}>>]

Explicit(s) == s.methods # {"unset"}
\* _resolve_http_method_names: the explicit verbs win over api_read_only.
Allowed(s) == IF Explicit(s) THEN s.methods \cup {"head", "options"}
              ELSE IF s.read_only THEN Reads ELSE Verbs

\* _api_writable_models asks api_read_only first.
ApiWritable(s) == ~s.read_only /\ (Explicit(s) => s.methods \cap WriteVerbs # {})
WriteFieldReports(s) == When(ApiWritable(s) /\ s.fields = "unset", "W004")
ReadOnlyReports(s) == When(s.fields = "none" /\ ~s.read_only /\ ~Explicit(s), "W007")
ActionReports(s) ==
  When((Explicit(s) \/ s.read_only) /\ ~(s.action \subseteq Allowed(s)), "E008")
WritesReports(s) ==
  IF ~s.rest THEN {} ELSE WriteFieldReports(s) \cup ReadOnlyReports(s) \cup ActionReports(s)

\* DRF turns a verb down before a handler runs, an action's verb included.
Writes(s) == Allowed(s) \cap WriteVerbs # {}
WritesFailures(s) ==
  IF ~s.rest THEN {}
  ELSE When(Writes(s) /\ s.fields = "unset",
            IF s.read_only THEN "read-only model writable" ELSE "every field writable")
         \cup When("post" \in Allowed(s) /\ s.fields = "none",
                   IF Explicit(s) THEN "blank row on purpose" ELSE "blank row created")
         \cup When(s.action \ Allowed(s) # {}, "action turned down")

-----------------------------------------------------------------------------
(* subject_path: how a subject request reaches the rows of a model.          *)

SubjectOptions ==
  [path    |-> <<"undeclared", "None", "", "a number", "name", "typo", "relation",
                 "fk__name", "fk__fk__fk__name", "fk__fk__fk__fk__name", "m2m__name",
                 "reverse__name">>,
   subject |-> <<FALSE, TRUE>>,
   identifier |-> <<"", "name", "email">>,
   mode    |-> <<"DB_ONLY", "ES_ONLY">>,
   column  |-> <<"plain", "encrypted", "blind index">>,
   mapped  |-> <<TRUE, FALSE>>]

Hops(path) == CASE path \in {"fk__name", "m2m__name", "reverse__name"} -> 1
                [] path = "fk__fk__fk__name" -> 3
                [] path = "fk__fk__fk__fk__name" -> 4
                [] OTHER -> 0
\* _resolves_forward: foreign keys only, up to anything get_field knows by that name.
ResolvesForward(path) == path \notin {"typo", "m2m__name", "reverse__name"}

\* Each problem is the only answer of its model.
SubjectReports(s) ==
  CASE s.path = "undeclared" -> {"E011"}
    [] s.path = "None" -> {}
    [] OTHER -> When(\/ s.subject /\ (s.identifier = "" \/ s.path # s.identifier)
                     \/ s.path \in {"", "a number"}
                     \/ Hops(s.path) > 3
                     \/ ~ResolvesForward(s.path)
                     \/ Hops(s.path) > 0 /\ s.mode = "ES_ONLY", "E012")

\* _collect_matches: a falsy path is skipped, any other is a lookup.
Skipped(s) == s.path \in {"undeclared", "None", ""}
LookupFails(s) ==
  \/ s.path = "a number"
  \/ /\ s.mode = "DB_ONLY"
     /\ \/ s.path \in {"typo", "relation"}
        \/ s.path = "name" /\ s.column = "encrypted"
\* EsQuerySet.filter compares a key of the document with the value, nothing else.
MatchesNothing(s) ==
  s.mode = "ES_ONLY" /\ (Hops(s.path) > 0 \/ s.path \in {"typo", "relation"} \/ ~s.mapped
                          \/ s.column # "plain")

SubjectFailures(s) ==
  IF Skipped(s)
  THEN When(s.path \in {"undeclared", ""}, "data missed")
         \cup When(s.subject /\ s.path = "None", "subject without a path")
  ELSE When(s.subject /\ s.path # s.identifier, "subject by another field")
         \cup When(LookupFails(s),
            CASE s.path = "relation" -> "path ends in a relation"
              [] s.path = "name" -> "encrypted path refused"
              [] OTHER -> "request crashes")
         \cup When(~LookupFails(s) /\ MatchesNothing(s),
                   CASE s.path = "relation" -> "path ends in a relation"
                     [] s.path = "name" -> "field not in the documents"
                     [] OTHER -> "request finds nothing")

-----------------------------------------------------------------------------
(* tenant_scoped, its column, and the manager that scopes the rows.          *)

TenancyOptions ==
  [scoped   |-> <<FALSE, TRUE>>,
   snap     |-> <<TRUE, FALSE>>,
   column   |-> <<"tenant_id", "foreign key", "missing", "reverse relation">>,
   objects  |-> <<"EsManager", "own EsManager", "own manager", "hides a mixin's">>,
   active   |-> <<FALSE, TRUE>>]

\* Django's managers: objects is the first in MRO order; the default is the first that
\* the class itself declares, so active unless an objects of its own stands above it.
ObjectsScopes(s) == s.snap /\ s.objects # "own manager"
DefaultScopes(s) == ObjectsScopes(s) /\ (s.active => s.objects = "own EsManager")

ScopingReports(s) == When(s.scoped /\ (~s.snap \/ s.column = "missing"), "E009")
\* _tenant_scoping_manager_lost, _shadowed_objects_manager.
ManagerLost(s) == s.snap /\ s.scoped /\ ~ObjectsScopes(s)
Shadowed(s) == s.snap /\ s.objects = "hides a mixin's"
TenancyReports(s) == ScopingReports(s) \cup When(ManagerLost(s) \/ Shadowed(s), "E027")

ColumnFilters(s) == s.column \in {"tenant_id", "foreign key"}
TenancyFailures(s) ==
  When(s.scoped /\ ~ObjectsScopes(s), "every tenant's rows")
    \cup When(s.scoped /\ ObjectsScopes(s) /\ ~DefaultScopes(s), "admin reads every tenant")
    \cup When(s.scoped /\ ObjectsScopes(s) /\ ~ColumnFilters(s),
              IF s.column = "missing" THEN "no rows for a tenant" ELSE "tenant is no column")
    \cup When(s.snap /\ s.objects = "hides a mixin's", "scope of a mixin lost")

-----------------------------------------------------------------------------
(* SNAPADMIN_SHARDING: its shape, its strategy and the ranges of its shards. *)

SampleKeys == 1..4
ShardingOptions ==
  [enabled   |-> <<FALSE, TRUE>>,
   shape     |-> <<"two shards", "no primary", "odd list", "nothing", "bad DSN", "low > high">>,
   strategy  |-> <<"modulo", "hash", "range", "custom", "other">>,
   func      |-> <<"unset", "good", "cannot import", "another shard">>,
   selection |-> <<"round_robin", "other">>,
   ranges    |-> <<"none", "meet", "apart", "touch", "overlap">>,
   key       |-> <<"number", "text">>]

\* The keys of the two shards, in the order they are declared.
RangeOf(s) == CASE s.ranges = "meet" -> <<1..2, 3..4>>
              [] s.ranges = "apart" -> <<1..1, 3..4>>
              [] s.ranges = "touch" -> <<1..2, 2..4>>
              [] s.ranges = "overlap" -> <<1..3, 2..4>>
              [] OTHER -> <<{}, {}>>
\* get_shards and parse_dsn; configure_sharding keeps everything off when they raise.
ShardsResolve(s) == s.shape = "two shards"
Resolved(s) == s.enabled /\ ShardsResolve(s)

ShapeReports(s) == When(~ShardsResolve(s), "E013")
StrategyReports(s) ==
  When(\/ s.strategy = "other"
       \/ s.strategy = "custom" /\ s.func \in {"unset", "cannot import"}, "E014")
    \cup When(s.selection = "other", "E015")
RangeReports(s) ==
  When(/\ ShardsResolve(s) /\ s.strategy = "range"
       /\ \/ s.ranges = "none"
          \/ Min(RangeOf(s)[2]) <= Max(RangeOf(s)[1]), "E016")
ShardingReports(s) ==
  IF ~s.enabled THEN {} ELSE ShapeReports(s) \cup StrategyReports(s) \cup RangeReports(s)

\* _shard_for_value: the shards a key may go to; none when the write is refused.
Owners(s, key) ==
  CASE s.strategy \in {"modulo", "range"} /\ s.key = "text" -> {}
    [] s.strategy = "range" /\ s.key = "number" -> {i \in 1..2 : key \in RangeOf(s)[i]}
    [] s.strategy = "custom" -> IF s.func = "good" THEN {1 + (key % 2)} ELSE {}
    [] s.strategy = "other" -> {}
    [] OTHER -> {1 + (key % 2)}

ShardingFailures(s) ==
  IF ~s.enabled THEN {}
  ELSE When(~Resolved(s), "everything on default")
         \cup When(Resolved(s) /\ s.selection = "other", "replicas in turn")
         \cup When(Resolved(s) /\ \E key \in SampleKeys : Cardinality(Owners(s, key)) > 1,
                   "first shard wins")
         \cup When(Resolved(s) /\ \E key \in SampleKeys : Owners(s, key) = {},
                   CASE s.strategy = "range" /\ s.key = "number" /\ s.ranges = "apart"
                          -> "key of no shard"
                     [] s.strategy \in {"modulo", "range"} /\ s.key = "text"
                          -> IF s.strategy = "range" /\ s.ranges = "none"
                             THEN "no write goes through" ELSE "text key refused"
                     [] s.strategy = "custom" /\ s.func = "another shard"
                          -> "function names no shard"
                     [] OTHER -> "no write goes through")

-----------------------------------------------------------------------------
(* An encrypted field, the options that ask too much of it, and its mirror.  *)

EncryptedOptions ==
  [blind_index |-> <<FALSE, TRUE>>,
   searchable  |-> <<FALSE, TRUE>>,
   filterable  |-> <<FALSE, TRUE>>,
   unique      |-> <<FALSE, TRUE>>,
   db_index    |-> <<FALSE, TRUE>>,
   ordering    |-> <<"pk", "ssn", "-ssn", "F('ssn')", "customer__ssn">>,
   source      |-> <<"ssn", "plain", "typo">>,
   es_mapping  |-> <<"none", "another field", "the encrypted field">>,
   es_auto     |-> <<FALSE, TRUE>>]

UsageReports(s) ==
  When(s.searchable /\ ~s.blind_index, "E021")
    \cup When(s.filterable, "E024")
    \cup When(s.unique /\ ~s.blind_index, "E022")
    \cup When(s.db_index /\ ~s.blind_index, "W019")
    \cup When(s.ordering \in {"ssn", "-ssn"}, "E023")
    \cup When(s.blind_index /\ s.source # "ssn", "W020")
NotIndexedReports(s) == When(s.es_mapping = "the encrypted field", "E020")
EncryptedReports(s) == UsageReports(s) \cup NotIndexedReports(s)

\* get_es_mapping, and get_es_document, which leaves encrypted fields out of it.
EsDerived(s) == IF s.es_auto THEN {"plain"} \cup When(s.blind_index, "index") ELSE {}
EsExplicit(s) == CASE s.es_mapping = "none" -> {}
                   [] s.es_mapping = "another field" -> {"plain"}
                   [] OTHER -> {"encrypted"}
EsDocument(s) == (EsDerived(s) \cup EsExplicit(s)) \ {"encrypted"}

EncryptedFailures(s) ==
  When(s.searchable /\ ~s.blind_index, "search finds nothing")
    \cup When(s.filterable, "filter lists the values")
    \cup When(s.unique /\ ~s.blind_index, "constraint enforces nothing")
    \cup When(s.db_index /\ ~s.blind_index, "index nobody uses")
    \cup When(s.ordering \in {"ssn", "-ssn"}, "sorted by ciphertext")
    \cup When(s.ordering \in {"F('ssn')", "customer__ssn"}, "sorted by an expression")
    \cup When(s.blind_index /\ s.source # "ssn", "index is stale")
    \cup When(s.es_mapping = "the encrypted field", "mapped and never sent")
    \cup When("encrypted" \in EsDocument(s), "encrypted value indexed")
    \cup When("index" \in EsDocument(s), "blind index mirrored")

-----------------------------------------------------------------------------
(* The mirror of a model: whether a document would hold more than its id.    *)

MirrorOptions ==
  [mode    |-> <<"DB_ONLY", "DUAL", "ES_ONLY">>,
   indexed |-> <<FALSE, TRUE>>,
   mapping |-> <<"none", "a field", "the encrypted field">>,
   auto    |-> <<FALSE, TRUE>>,
   plain   |-> <<TRUE, FALSE>>]

Indexed(s) == s.mode # "DB_ONLY" \/ s.indexed
\* get_es_mapping: what is derived, and what is declared.
EsMapping(s) ==
  When(s.auto /\ s.plain, "derived") \cup When(s.mapping # "none", s.mapping)
MirrorReports(s) ==
  When(Indexed(s) /\ EsMapping(s) = {}, "E026") \cup When(s.mapping = "the encrypted field", "E020")
\* get_es_document: what a document holds beside its id.
MirrorFailures(s) ==
  When(Indexed(s) /\ EsMapping(s) \ {"the encrypted field"} = {}, "documents hold the id alone")

-----------------------------------------------------------------------------
(* The admin that serves a model, on every site of the project.              *)

FormOptions ==
  [form      |-> <<TRUE, FALSE>>,
   read_only |-> <<FALSE, TRUE>>,
   enabled   |-> <<TRUE, FALSE>>,
   admin     |-> <<"generated", "nowhere", "both", "by hand", "by hand, masking">>,
   masked    |-> <<FALSE, TRUE>>,
   computed  |-> <<"good", "unknown argument">>,
   sections  |-> <<FALSE, TRUE>>]

\* _generated_admin_would_render: a model registered nowhere counts as generated.
GeneratedRenders(s) == s.admin \in {"generated", "nowhere", "both"}
HandWritten(s) == s.admin \in {"both", "by hand"}

EmptyFormReports(s) ==
  When(s.enabled /\ ~s.read_only /\ GeneratedRenders(s) /\ ~s.form, "W015")
MaskingAdminReports(s) == When(HandWritten(s) /\ s.masked, "W025")
ArgumentReports(s) == When(s.computed # "good", "W033")
SectionReports(s) == When(s.sections, "W026")
FormReports(s) ==
  EmptyFormReports(s) \cup MaskingAdminReports(s) \cup ArgumentReports(s) \cup SectionReports(s)

\* get_admin_fields: a view-only admin shows the row whole.  An empty list of form fields
\* is no list to Django: the form is then every editable field, which W015 calls empty.
FormShows(s) ==
  CASE s.form -> "flagged" [] s.read_only /\ ~s.form -> "the row" [] OTHER -> "every field"
\* register_admin: not when it is off, and a site that has an admin for the model keeps it.
Registered(s) == s.enabled /\ s.admin \in {"generated", "both"}
FormFailures(s) ==
  When(Registered(s) /\ FormShows(s) = "every field", "unflagged fields in the form")
    \cup When(s.masked /\ HandWritten(s), "hand-written admin shows raw")
    \cup When(s.computed # "good", "argument does nothing")
    \cup When(s.sections, "sections do nothing")
=============================================================================
