--------------------------- MODULE SettingsChecks ---------------------------
(***************************************************************************)
(* The system checks of snapadmin/checks.py that read SNAPADMIN_* settings, *)
(* each beside the code the settings reach.  For every group of settings    *)
(*                                                                          *)
(*   XOptions      what an operator may write, option by option, the shipped *)
(*                 value first;                                              *)
(*   XReports(s)   the identifiers the checks report of the settings s;      *)
(*   XFailures(s)  what goes wrong when the program uses s.                  *)
(*                                                                          *)
(* A check that raises takes manage.py check down with it: it reports        *)
(* "stops" and no check behind it is heard.                                  *)
(***************************************************************************)
EXTENDS Integers, Sequences, FiniteSets, SequencesExt

When(condition, what) == IF condition THEN {what} ELSE {}

-----------------------------------------------------------------------------
(* Masking: SNAPADMIN_MASKED_FIELDS, _MASKING_RULES, _MASKING_PENDING_APPS.  *)

MaskingOptions ==
  [setting |-> <<"fields", "rules">>,
   map     |-> <<"dict", "list">>,
   key     |-> <<"model", "other case", "unknown", "absent app">>,
   entry   |-> <<"none", "names", "one name", "number", "mixed", "mapping">>,
   name    |-> <<"field", "unknown">>,
   rule    |-> <<"good", "not a dict", "nested", "not a regex">>,
   pending |-> <<"none", "the app", "not a list">>]

\* apps.get_model finds a model by its app's label as it is written.
Resolves(s) == s.key = "model"
Installed(s) == s.key # "absent app"
ListsAName(s) == s.entry \in {"names", "one name", "mixed", "mapping"}

UnresolvedKey(s, error) ==
  IF s.pending = "the app" /\ ~Installed(s) THEN "I002" ELSE error

PendingReports(s) ==
  When(s.pending = "not a list", "E028") \cup When(s.pending = "the app" /\ Installed(s), "W034")

MaskedFieldsReports(s) ==
  CASE s.map # "dict" -> {"E028"}
    [] s.map = "dict" /\ ~Resolves(s) -> {UnresolvedKey(s, "E001")}
    [] s.map = "dict" /\ Resolves(s) /\ s.entry \in {"one name", "number"} -> {"E028"}
    [] OTHER -> When(s.entry = "mixed", "E028")
                  \cup When(ListsAName(s) /\ s.name = "unknown", "E002")

MaskingRulesReports(s) ==
  CASE s.map # "dict" -> {"E028"}
    [] s.map = "dict" /\ ~Resolves(s) -> {UnresolvedKey(s, "E003")}
    [] s.map = "dict" /\ Resolves(s) /\ s.entry \notin {"none", "mapping"} -> {"E028"}
    [] OTHER -> When(s.entry = "mapping" /\ s.name = "unknown", "E004")
                  \cup When(s.entry = "mapping" /\ s.name = "field" /\ s.rule # "good", "E005")

MaskingReports(s) ==
  PendingReports(s)
    \cup IF s.setting = "fields" THEN MaskedFieldsReports(s) ELSE MaskingRulesReports(s)

\* The entry that is read back for the model: keys are compared without case.
ModelEntry(s) == IF s.map = "dict" /\ s.key \in {"model", "other case"} THEN s.entry ELSE "none"
FieldNames(s) == ModelEntry(s) \in {"names", "one name", "mixed", "mapping"} /\ s.name = "field"
Masked(s) ==
  FieldNames(s) /\ (s.setting = "rules" /\ ModelEntry(s) = "mapping" => s.rule # "not a dict")

MaskingFailures(s) ==
  When(s.entry # "none" /\ Installed(s) /\ ~Masked(s), "shown unmasked")
    \cup When(s.setting = "rules" /\ Masked(s) /\ s.entry = "mapping" /\ s.rule # "good",
              "rule not applied")

-----------------------------------------------------------------------------
(* SNAPADMIN_PII_ACCESS_CHECK: the function that says who sees raw data.     *)

PiiOptions ==
  [check  |-> <<"unset", "a function", "missing", "not callable", "async", "async object">>,
   answer |-> <<"grants", "denies", "raises", "truthy", "awaitable">>]

\* _resolve_pii_access_check: it imports, it is callable and it is not async.
PiiCheckUsable(s) == s.check \notin {"missing", "not callable", "async", "async object"}
PiiReports(s) == When(s.check # "unset" /\ ~PiiCheckUsable(s), "W035")

\* Only True itself unlocks.
PiiAllows(s) == PiiCheckUsable(s) /\ s.answer = "grants"
PiiFailures(s) ==
  When(s.check # "unset" /\ ~PiiAllows(s) /\ s.answer # "denies",
       IF PiiCheckUsable(s) THEN "check answers badly" ELSE "entitled user masked")
    \cup When(s.check # "unset" /\ PiiAllows(s) /\ s.answer # "grants", "stranger sees raw data")

-----------------------------------------------------------------------------
(* The admin index: SNAPADMIN_NESTED_APPS, _HIDDEN_APPS, and its AdminSite.  *)

Apps == {"shop", "stock", "gone"}
IndexOptions ==
  [source |-> <<"none", "shop", "gone">>,
   target |-> <<"stock", "shop", "gone">>,
   hidden |-> <<{}, {"stock"}>>,
   others |-> <<"no other site", "an empty site", "a site with models">>]

NestingReports(s) == When(s.source # "none" /\ s.target = "gone", "W002")
SiteReports(s) ==
  When((s.source # "none" \/ s.hidden # {}) /\ s.others = "a site with models", "W006")
IndexReports(s) == NestingReports(s) \cup SiteReports(s)

\* apply_nested_apps moves a group when both ends are in the index.
Moves(s) == {s.source, s.target} \subseteq (Apps \ {"gone"}) /\ s.source # s.target
Groups(s) == (Apps \ {"gone"}) \ ((IF Moves(s) THEN {s.source} ELSE {}) \cup s.hidden)
\* Where the models of an app are shown.
ShownIn(s, app) == {IF Moves(s) /\ app = s.source THEN s.target ELSE app} \cap Groups(s)

IndexFailures(s) ==
  When(s.source # "none" /\ s.target = "gone" , "models stay in their group")
    \cup When(s.source = "gone" \/ s.source = s.target, "nothing to move")
    \cup When(\E app \in (Apps \ {"gone"}) \ s.hidden : ShownIn(s, app) = {}, "models vanish")
    \cup When((s.source # "none" \/ s.hidden # {}) /\ s.others = "a site with models",
              "other site not nested")

-----------------------------------------------------------------------------
(* SNAPADMIN_SSO_PROVIDERS and the buttons of the login page.                *)

SsoOptions ==
  [meta    |-> <<"not a dict", "dict">>,
   url     |-> <<"", "/path", "//host", "https://HOST", "https://other">>,
   allowed |-> <<{}, {"host"}>>]

Host(url) == CASE url \in {"//host", "https://HOST"} -> {"host"}
               [] url = "https://other" -> {"other"}
               [] OTHER -> {}
SsoUsable(s) == s.meta = "dict" /\ s.url # ""
SsoSafe(s) == s.url # "//host" /\ (s.allowed # {} => Host(s.url) \subseteq s.allowed)

SsoReports(s) == When(~SsoUsable(s), "W003") \cup When(SsoUsable(s) /\ ~SsoSafe(s), "W005")
SsoFailures(s) == When(~(SsoUsable(s) /\ SsoSafe(s)), "button not shown")

-----------------------------------------------------------------------------
(* The parts of a backup bundle, and whether it is encrypted.                *)

BundleOptions ==
  [keep       |-> <<"a number", "text", "None">>,
   enabled    |-> <<FALSE, TRUE>>,
   include    |-> <<"db", "db and env", "unknown part", "a string">>,
   recipients |-> <<"none", "good", "malformed", "no such key">>,
   env_file   |-> <<"unset", "missing", "a file">>,
   network    |-> <<FALSE, TRUE>>,
   beat       |-> <<FALSE, TRUE>>]

NumberReports(value) == When(value = "text", "E029")
Configured(s) == s.keep = "a number"
NamesEnv(s) == s.include \in {"db and env", "a string"}
BackupIntent(s) == s.beat \/ s.network \/ s.recipients # "none"

RecipientReports(s) == When(s.recipients = "malformed", "W008")
EnvReports(s) == When(NamesEnv(s) /\ s.recipients = "none", "E007")
OffsiteReports(s) ==
  When(Configured(s) /\ s.enabled /\ s.recipients = "none" /\ s.network, "W021")
\* Mutant: a beat entry is no sign that backups are wanted.
DisabledUnbeaten(s) ==
  When(~(Configured(s) /\ s.enabled) /\ (s.network \/ s.recipients # "none"), "W023")
DisabledReports(s) == When(~(Configured(s) /\ s.enabled) /\ BackupIntent(s), "W023")
EnvFileReports(s) ==
  When(Configured(s) /\ s.enabled /\ s.include = "db and env" /\ s.env_file # "a file", "W024")
BundleReports(s) ==
  IF s.keep = "None" THEN {"stops"}
  ELSE NumberReports(s.keep) \cup RecipientReports(s) \cup EnvReports(s) \cup OffsiteReports(s)
         \cup DisabledReports(s) \cup EnvFileReports(s)

\* check_env_requires_encryption, then the parts in turn: what a run ships and how.
Refused(s) == s.include = "db and env" /\ s.recipients = "none"
UnknownPart(s) == s.include \in {"unknown part", "a string"}
Encrypts(s) == s.recipients # "none"
\* The dump is the first part to meet a recipient that is none.
BreaksFirst(s) == s.include # "a string" /\ s.recipients \in {"malformed", "no such key"}
Shipped(s) ==
  IF ~s.enabled \/ ~Configured(s) \/ Refused(s) \/ UnknownPart(s)
     \/ s.recipients \in {"malformed", "no such key"}
  THEN {}
  ELSE {"db"} \cup When(s.include = "db and env" /\ s.env_file = "a file", "env")

BundleFailures(s) ==
  CASE ~Configured(s) -> {"backup crashes"}
    [] Configured(s) /\ ~s.enabled -> When(BackupIntent(s), "nothing backed up")
    [] OTHER -> When(Refused(s), "backup refused")
         \cup When(UnknownPart(s) /\ ~BreaksFirst(s), "unknown part")
         \cup When(BreaksFirst(s), IF s.recipients = "malformed" THEN "encryption fails"
                                   ELSE "no such recipient")
         \cup When(Shipped(s) # {} /\ s.include = "db and env" /\ "env" \notin Shipped(s),
                   "bundle without env")
         \cup When("db" \in Shipped(s) /\ s.network /\ ~Encrypts(s), "dump leaves in plain")
         \cup When("env" \in Shipped(s) /\ ~Encrypts(s), "env leaves in plain")

-----------------------------------------------------------------------------
(* Where it is shipped: an S3 bucket and an SFTP account.                    *)

TargetOptions ==
  [enabled    |-> <<TRUE, FALSE>>,
   bucket     |-> <<FALSE, TRUE>>,
   endpoint   |-> <<"unset", "https://", "no scheme">>,
   access_key |-> <<FALSE, TRUE>>,
   secret_key |-> <<FALSE, TRUE>>,
   ambient    |-> <<"none", "detected", "instance profile">>,
   sftp       |-> <<FALSE, TRUE>>,
   sftp_dir   |-> <<"/", "/backups", "backups">>,
   account    |-> <<"plain", "jailed", "logs in there">>]

\* s3_ambient_credentials_likely sees the environment and the files, never the instance.
AmbientLikely(s) == s.ambient = "detected"
S3Reports(s) ==
  When(/\ s.bucket
       /\ \/ s.endpoint = "no scheme"
          \/ ~s.access_key /\ ~s.secret_key /\ ~AmbientLikely(s), "W011")
SftpReports(s) == When(s.enabled /\ s.sftp /\ s.sftp_dir = "/backups", "W022")
TargetReports(s) == S3Reports(s) \cup SftpReports(s)

\* _s3_client hands both keys on when there is an access key, else it leaves it to boto3.
Authenticates(s) == IF s.access_key THEN s.secret_key ELSE s.ambient # "none"
\* store_remote_sftp changes into the directory as the server resolves it.
SftpStores(s) == ~(s.sftp_dir = "/backups" /\ s.account = "jailed")

TargetFailures(s) ==
  When(s.enabled /\ s.bucket /\ s.endpoint = "no scheme", "no such endpoint")
    \cup When(s.enabled /\ s.bucket /\ ~Authenticates(s),
              IF s.access_key \/ s.secret_key THEN "half a key pair" ELSE "no credentials")
    \cup When(s.enabled /\ s.sftp /\ ~SftpStores(s), "upload refused")
    \cup When(s.enabled /\ s.sftp /\ s.sftp_dir = "backups" /\ s.account = "logs in there",
              "one level too deep")

-----------------------------------------------------------------------------
(* When it runs and what is kept: the beat, the intervals and the tiers.     *)

Day == 24
Week == 7 * Day
CadenceOptions ==
  [enabled |-> <<TRUE, FALSE>>,
   beat    |-> <<"none", "daily", "weekly", "weekdays", "weekly in seconds">>,
   local   |-> <<Day, Week>>,
   network |-> <<0, Day, Week>>,
   keep    |-> <<7, 1, 0>>,
   daily   |-> <<0, 2, -1>>,
   weekly  |-> <<0, 2, -1>>]

\* The gaps between firings, from Monday on; only the first is timed.
Gaps(beat) == CASE beat = "daily" -> <<Day, Day>>
                [] beat = "weekdays" -> <<Day, 3 * Day>>
                [] OTHER -> <<Week, Week>>
Timed(beat) == beat \in {"daily", "weekly", "weekdays"}
\* The intervals of the active destinations.
Intervals(s) == {s.local} \cup When(s.network # 0, s.network)
Tiers(s) == {<<s.daily, Day>>, <<s.weekly, Week>>}

TierReports(s) ==
  When(s.keep < 1 \/ \E tier \in Tiers(s) : tier[1] < 0, "W036")
    \cup When(s.enabled /\ \E tier \in Tiers(s), every \in Intervals(s) :
                                 tier[1] > 0 /\ every > tier[2], "W037")
ScheduleReports(s) ==
  When(s.enabled /\ Timed(s.beat) /\ Head(Gaps(s.beat)) > Min(Intervals(s)), "W010")
CadenceReports(s) == TierReports(s) \cup ScheduleReports(s)

\* _select_stale: how many backups are kept, and the hours a tier of them reaches back.
Kept(s) == Max({s.keep, 1})
Spans(tier, every) == tier[1] * Max({tier[2], every})

CadenceFailures(s) ==
  When(s.beat # "none" /\ s.enabled /\ Min(Intervals(s)) < Max({Gaps(s.beat)[i] : i \in {1, 2}}),
       CASE s.beat = "weekdays" /\ Min(Intervals(s)) >= Day -> "weekend skipped"
         [] s.beat = "weekly in seconds" -> "untimed beat too slow"
         [] OTHER -> "days skipped")
    \cup When(Kept(s) # s.keep, "keeps another number")
    \cup When(\E tier \in Tiers(s) : tier[1] < 0, "tier is off")
    \cup When(s.enabled /\ \E tier \in Tiers(s), every \in Intervals(s) :
                 tier[1] > 0 /\ Spans(tier, every) # tier[1] * tier[2], "tier spans longer")

-----------------------------------------------------------------------------
(* The purge: who runs it, and the rates of the API's throttles.             *)

PurgeOptions ==
  [audit    |-> <<"365", "0", "text", "None">>,
   exports  |-> <<FALSE, TRUE>>,
   models   |-> <<FALSE, TRUE>>,
   beat     |-> <<FALSE, TRUE>>,
   cron     |-> <<FALSE, TRUE>>,
   declared |-> <<FALSE, TRUE>>]

Retained(s) == s.audit = "365" \/ s.exports \/ s.models
PurgeReports(s) ==
  CASE s.audit = "None" -> {"stops"}
    [] s.audit = "text" -> {"E029"}
    [] OTHER -> When(Retained(s) /\ ~s.beat /\ ~s.declared, "W012")
PurgeFailures(s) ==
  When(s.audit \in {"text", "None"} /\ (s.beat \/ s.cron), "purge crashes")
    \cup When(s.audit \in {"365", "0"} /\ Retained(s) /\ ~s.beat /\ ~s.cron,
              IF s.declared THEN "declared but not run" ELSE "nothing purged")

ThrottleOptions ==
  [rate |-> <<"unset", "None", "blank", "600/min", "600", "600 / min">>,
   scoped |-> <<"none", "10/min", "600 / min">>,
   drf  |-> <<"none", "10/min", "600/min">>]

\* _resolve_throttle_rate, and what DRF's parse_rate makes of it.
Effective(s) == CASE s.rate = "None" -> "None"
                  [] s.rate \in {"600/min", "600", "600 / min"} -> s.rate
                  [] s.rate \in {"unset", "blank"} /\ s.scoped # "none" -> s.scoped
                  [] OTHER -> "600/min"
Parses(rate) == rate \in {"None", "10/min", "600/min"}

RateReports(s) == When(s.rate = "600", "E029") \cup When(s.rate = "blank", "W029")
DrfRateReports(s) == When(s.drf # "none" /\ s.drf # Effective(s), "W028")
ThrottleReports(s) == RateReports(s) \cup DrfRateReports(s)
ThrottleFailures(s) ==
  When(~Parses(Effective(s)),
       IF Effective(s) = "600" THEN "requests answer 500" ELSE "spaced rate answers 500")
    \cup When(s.rate = "blank", "blank does not disable")
    \cup When(s.drf # "none" /\ s.drf # Effective(s), "rate of other views")

-----------------------------------------------------------------------------
(* SNAPADMIN_PROFILE, the surfaces it switches on, and their extras.         *)

SurfaceOptions ==
  [profile    |-> <<"unset", "admin", "api", "full", "adnim">>,
   rest       |-> <<"unset", "on", "off">>,
   swagger    |-> <<"unset", "on", "off">>,
   graphql    |-> <<"unset", "on", "off">>,
   api_extra  |-> <<TRUE, FALSE>>,
   graphql_extra |-> <<TRUE, FALSE>>,
   schema     |-> <<"builds", "two types of one name">>]

Profiles == {"admin", "api", "full"}
\* get_setting: an explicit value, the profile's, or the read site's own default.
Preset(profile, name) ==
  CASE profile = "admin" -> "off"
    [] profile \in {"api", "full"} /\ name # "swagger" -> "on"
    [] OTHER -> "unset"
GetSetting(s, name, default) ==
  CASE s[name] # "unset" -> s[name] = "on"
    [] s[name] = "unset" /\ Preset(s.profile, name) # "unset" -> Preset(s.profile, name) = "on"
    [] OTHER -> default
Starts(s) == s.profile \in Profiles \cup {"unset"}
Rest(s) == GetSetting(s, "rest", FALSE)
Swagger(s) == GetSetting(s, "swagger", Rest(s))
GraphQL(s) == GetSetting(s, "graphql", FALSE)

ContradictionReports(s) ==
  When(s.profile # "unset" /\ \E name \in {"rest", "swagger", "graphql"} :
          s[name] # "unset" /\ Preset(s.profile, name) \notin {"unset", s[name]}, "W009")
ExtraReports(s) ==
  When(\/ (Rest(s) \/ Swagger(s)) /\ ~s.api_extra
       \/ GraphQL(s) /\ ~s.graphql_extra, "E010")
SurfaceReports(s) ==
  IF ~Starts(s) THEN {"stops"} ELSE ContradictionReports(s) \cup ExtraReports(s)

\* snapadmin.urls, imported: the surfaces mounted, or none when an import fails.
UrlsImport(s) == (Rest(s) \/ Swagger(s) => s.api_extra) /\ (GraphQL(s) => s.graphql_extra)
\* Any other failure to build the schema is logged, and the rest is mounted without it.
GraphqlMounted(s) == GraphQL(s) /\ s.graphql_extra /\ s.schema = "builds"
SurfaceFailures(s) ==
  IF ~Starts(s) THEN {"does not start"}
  ELSE When(~UrlsImport(s), "URLs do not import")
         \cup When(s.profile = "admin" /\ (Rest(s) \/ Swagger(s) \/ GraphQL(s)),
                   "profile overridden")
         \cup When(s.profile \in {"api", "full"} /\ ~(Rest(s) /\ GraphQL(s)),
                   "profile overridden")
         \cup When(Swagger(s) /\ ~Rest(s), "documents no routes")
         \cup When(UrlsImport(s) /\ GraphQL(s) /\ ~GraphqlMounted(s), "GraphQL not mounted")

-----------------------------------------------------------------------------
(* SNAPADMIN_ENCRYPTION: the keyset, where it comes from and who may read it. *)

KeyOptions ==
  [dict     |-> <<TRUE, FALSE>>,
   provider |-> <<"none", "good", "misconfigured", "raises">>,
   file     |-> <<"none", "good", "missing", "not text">>,
   readable |-> <<FALSE, TRUE>>,
   env      |-> <<"none", "good", "misconfigured">>,
   declared |-> <<"none", "good", "misconfigured">>,
   reused   |-> <<FALSE, TRUE>>,
   strict   |-> <<TRUE, FALSE>>,
   debug    |-> <<FALSE, TRUE>>,
   fields   |-> <<FALSE, TRUE>>]

Sources == <<"provider", "file", "env", "declared">>
\* _resolve: the first source that is configured, whatever becomes of it.
KeySource(s) == LET first == SelectInSeq(Sources, LAMBDA name : s[name] # "none")
                IN  IF first = 0 THEN "none" ELSE Sources[first]
Keyset(s) ==
  CASE ~s.dict -> "misconfigured"
    [] s.dict /\ KeySource(s) = "none" -> "none"
    [] s.dict /\ KeySource(s) # "none" /\ s[KeySource(s)] \in {"misconfigured", "missing"}
         -> "misconfigured"
    [] s.dict /\ KeySource(s) # "none" /\ s[KeySource(s)] \in {"raises", "not text"} -> "raises"
    [] OTHER -> "good"

KeysetReports(s) ==
  When(s.reused, "E017") \cup When(KeySource(s) = "declared" /\ ~s.debug, "W017")
KeyFileReports(s) == When(s.file \in {"good", "not text"} /\ s.readable, "W016")
RequiredReports(s) == When(s.fields, IF s.strict THEN "E018" ELSE "W018")
\* check_encryption_key_file reads the settings outside the guard of _encryption_keyset.
KeyReports(s) ==
  CASE ~s.dict \/ Keyset(s) = "raises" -> {"stops"}
    [] Keyset(s) = "misconfigured" /\ s.dict -> {"E019"}
    [] Keyset(s) = "none" -> RequiredReports(s)
    [] OTHER -> KeysetReports(s) \cup KeyFileReports(s)

\* require_keyset: what the column holds after a save.
Stored(s) == IF Keyset(s) = "good" THEN "ciphertext" ELSE "nothing"
KeyFailures(s) ==
  When(s.fields /\ Stored(s) = "nothing", "column unusable")
    \cup When(s.fields /\ Stored(s) = "plaintext", "plaintext stored")
    \cup When(Keyset(s) = "good" /\ s.reused, "key dies with SECRET_KEY")
    \cup When(Keyset(s) = "good" /\ KeySource(s) = "declared" /\ ~s.debug, "key in the code")
    \cup When(Keyset(s) = "good" /\ KeySource(s) = "file" /\ s.readable, "key readable")

-----------------------------------------------------------------------------
(* The rest: a replica's alias, a cap, the theme, two removed names, the     *)
(* error monitor's page, the startup report and another package's admin.     *)

OtherOptions ==
  [alias      |-> <<"unset", "replica", "typo">>,
   fetch_by   |-> <<"10000", "1000000", "text", "-1">>,
   theme      |-> <<"active", "not installed", "import fails">>,
   removed    |-> <<FALSE, TRUE>>,
   monitor    |-> <<FALSE, TRUE>>,
   registered |-> <<TRUE, FALSE>>,
   report     |-> <<"auto", "True", "False", "on">>,
   admin_app  |-> <<"unset", "entry", "label", "head.tail", "typo">>]

AliasReports(s) == When(s.alias = "typo", "W001")
FetchByReports(s) == When(s.fetch_by = "1000000", "W013") \cup NumberReports(s.fetch_by)
ThemeReports(s) ==
  When(s.theme = "not installed", "I001") \cup When(s.theme = "import fails", "W032")
RemovedReports(s) == When(s.removed, "W030")
MonitorReports(s) == When(s.monitor /\ ~s.registered, "W031")
ReportReports(s) == When(s.report = "on", "W027")
AdminAppReports(s) == When(s.admin_app \in {"label", "typo"}, "E025")
OtherReports(s) ==
  AliasReports(s) \cup FetchByReports(s) \cup ThemeReports(s) \cup RemovedReports(s)
    \cup MonitorReports(s) \cup ReportReports(s) \cup AdminAppReports(s)

\* analytics_db_alias, report_mode and django-extra-settings' own lookup.
ReadAlias(s) == IF s.alias = "replica" THEN "replica" ELSE "default"
ReportMode(s) == IF s.report \in {"True", "False", "auto"} THEN s.report ELSE "auto"
AdminAppFound(s) == s.admin_app \in {"unset", "entry", "head.tail"}
OtherFailures(s) ==
  When(s.alias # "unset" /\ ReadAlias(s) = "default", "replica ignored")
    \cup When(s.fetch_by = "text", "fetch-by answers 500")
    \cup When(s.fetch_by = "1000000", "cap is no cap")
    \cup When(s.fetch_by = "-1", "cap switched off")
    \cup When(s.theme # "active", "stock admin")
    \cup When(s.removed, "another storage")
    \cup When(s.monitor /\ ~s.registered, "errors nobody sees")
    \cup When(ReportMode(s) # s.report, "no startup report")
    \cup When(~AdminAppFound(s), "settings admin raises")
=============================================================================
