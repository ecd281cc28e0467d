--------------------------- MODULE StartupChecks ---------------------------
(***************************************************************************)
(* A deploy and the system checks: an operator writes settings and models    *)
(* declare options (Edit), manage.py check reports on them (Check, the       *)
(* checks register_checks hands to Django), and the program uses them (Use). *)
(* What a check does not report, it lets through: nothing but its message    *)
(* stands between a declaration and what goes wrong with it later.           *)
(***************************************************************************)
EXTENDS SettingsChecks, DeclarationChecks

VARIABLES feature,   \* the group of settings that is being deployed
          settings,  \* what they say, option by option
          checked,   \* manage.py check has run over them
          reported,  \* the identifiers it printed
          failed     \* what went wrong in use

vars == <<feature, settings, checked, reported, failed>>

Options ==
  [masking |-> MaskingOptions, pii |-> PiiOptions, index |-> IndexOptions,
   sso |-> SsoOptions, bundle |-> BundleOptions, target |-> TargetOptions,
   cadence |-> CadenceOptions, purge |-> PurgeOptions, throttle |-> ThrottleOptions,
   surface |-> SurfaceOptions, key |-> KeyOptions, other |-> OtherOptions,
   writes |-> WritesOptions, subject |-> SubjectOptions, tenancy |-> TenancyOptions,
   sharding |-> ShardingOptions, encrypted |-> EncryptedOptions,
   mirror |-> MirrorOptions, form |-> FormOptions]

Reports(f, s) ==
  CASE f = "masking" -> MaskingReports(s) [] f = "pii" -> PiiReports(s)
    [] f = "index" -> IndexReports(s) [] f = "sso" -> SsoReports(s)
    [] f = "bundle" -> BundleReports(s) [] f = "target" -> TargetReports(s)
    [] f = "cadence" -> CadenceReports(s) [] f = "purge" -> PurgeReports(s)
    [] f = "throttle" -> ThrottleReports(s) [] f = "surface" -> SurfaceReports(s)
    [] f = "key" -> KeyReports(s) [] f = "other" -> OtherReports(s)
    [] f = "writes" -> WritesReports(s) [] f = "subject" -> SubjectReports(s)
    [] f = "tenancy" -> TenancyReports(s) [] f = "sharding" -> ShardingReports(s)
    [] f = "encrypted" -> EncryptedReports(s) [] f = "mirror" -> MirrorReports(s)
    [] f = "form" -> FormReports(s)

Failures(f, s) ==
  CASE f = "masking" -> MaskingFailures(s) [] f = "pii" -> PiiFailures(s)
    [] f = "index" -> IndexFailures(s) [] f = "sso" -> SsoFailures(s)
    [] f = "bundle" -> BundleFailures(s) [] f = "target" -> TargetFailures(s)
    [] f = "cadence" -> CadenceFailures(s) [] f = "purge" -> PurgeFailures(s)
    [] f = "throttle" -> ThrottleFailures(s) [] f = "surface" -> SurfaceFailures(s)
    [] f = "key" -> KeyFailures(s) [] f = "other" -> OtherFailures(s)
    [] f = "writes" -> WritesFailures(s) [] f = "subject" -> SubjectFailures(s)
    [] f = "tenancy" -> TenancyFailures(s) [] f = "sharding" -> ShardingFailures(s)
    [] f = "encrypted" -> EncryptedFailures(s) [] f = "mirror" -> MirrorFailures(s)
    [] f = "form" -> FormFailures(s)

Init ==
  /\ feature \in DOMAIN Options
  /\ settings = [o \in DOMAIN Options[feature] |-> Head(Options[feature][o])]
  /\ checked = FALSE
  /\ reported = {}
  /\ failed = {}

\* One more option is given a value that is not the shipped one, and deployed.
Edit ==
  /\ checked /\ failed = Failures(feature, settings)
  /\ \E o \in DOMAIN settings :
       /\ settings[o] = Head(Options[feature][o])
       /\ \E value \in ToSet(Tail(Options[feature][o])) : settings' = [settings EXCEPT ![o] = value]
  /\ checked' = FALSE /\ reported' = {} /\ failed' = {}
  /\ UNCHANGED feature

\* manage.py check runs what register_checks registered.
Check ==
  /\ checked' = TRUE
  /\ reported' = Reports(feature, settings)
  /\ UNCHANGED <<feature, settings, failed>>

Use ==
  /\ failed' = Failures(feature, settings)
  /\ UNCHANGED <<feature, settings, checked, reported>>

Next == Edit \/ Check \/ Use
Spec == Init /\ [][Next]_vars

-----------------------------------------------------------------------------
(* The identifiers whose message names a failure, from the docstrings and    *)
(* hints of checks.py.                                                       *)

Names(id) ==
  CASE id = "E001" -> {"shown unmasked"}
    [] id = "E002" -> {"shown unmasked"}
    [] id = "E003" -> {"shown unmasked", "rule not applied"}
    [] id = "E004" -> {"shown unmasked"}
    [] id = "E005" -> {"rule not applied"}
    [] id = "E028" -> {"shown unmasked"}
    [] id = "W035" -> {"entitled user masked"}
    [] id = "W002" -> {"models stay in their group"}
    [] id = "W006" -> {"other site not nested"}
    [] id \in {"W003", "W005"} -> {"button not shown"}
    [] id = "E029" -> {"backup crashes", "purge crashes", "requests answer 500",
                       "fetch-by answers 500"}
    [] id = "stops" -> {"backup crashes", "purge crashes", "does not start", "column unusable"}
    [] id = "W023" -> {"nothing backed up"}
    [] id = "E007" -> {"backup refused"}
    [] id = "W008" -> {"encryption fails"}
    [] id = "W024" -> {"bundle without env"}
    [] id = "W021" -> {"dump leaves in plain"}
    [] id = "W011" -> {"no such endpoint", "no credentials"}
    [] id = "W022" -> {"upload refused"}
    [] id = "W010" -> {"days skipped"}
    [] id = "W036" -> {"keeps another number", "tier is off"}
    [] id = "W037" -> {"tier spans longer"}
    [] id = "W012" -> {"nothing purged"}
    [] id = "W029" -> {"blank does not disable"}
    [] id = "W028" -> {"rate of other views"}
    [] id = "E010" -> {"URLs do not import"}
    [] id = "W009" -> {"profile overridden"}
    [] id \in {"E018", "W018", "E019"} -> {"column unusable"}
    [] id = "E017" -> {"key dies with SECRET_KEY"}
    [] id = "W017" -> {"key in the code"}
    [] id = "W016" -> {"key readable"}
    [] id = "W001" -> {"replica ignored"}
    [] id = "W013" -> {"cap is no cap"}
    [] id \in {"I001", "W032"} -> {"stock admin"}
    [] id = "W030" -> {"another storage"}
    [] id = "W031" -> {"errors nobody sees"}
    [] id = "W027" -> {"no startup report"}
    [] id = "E025" -> {"settings admin raises"}
    [] id = "W004" -> {"every field writable"}
    [] id = "W007" -> {"blank row created"}
    [] id = "E008" -> {"action turned down"}
    [] id = "E011" -> {"data missed"}
    [] id = "E012" -> {"data missed", "request crashes", "request finds nothing",
                       "subject by another field"}
    [] id = "E009" -> {"every tenant's rows", "no rows for a tenant"}
    [] id = "E027" -> {"every tenant's rows", "scope of a mixin lost"}
    [] id = "E013" -> {"everything on default"}
    [] id = "E014" -> {"no write goes through"}
    [] id = "E015" -> {"replicas in turn"}
    [] id = "E016" -> {"first shard wins", "no write goes through"}
    [] id = "E020" -> {"mapped and never sent", "documents hold the id alone"}
    [] id = "E021" -> {"search finds nothing"}
    [] id = "E022" -> {"constraint enforces nothing"}
    [] id = "E023" -> {"sorted by ciphertext"}
    [] id = "E024" -> {"filter lists the values"}
    [] id = "W019" -> {"index nobody uses"}
    [] id = "W020" -> {"index is stale"}
    [] id = "E026" -> {"documents hold the id alone"}
    [] id = "W015" -> {"unflagged fields in the form"}
    [] id = "W025" -> {"hand-written admin shows raw"}
    [] id = "W033" -> {"argument does nothing"}
    [] id = "W026" -> {"sections do nothing"}
    [] OTHER -> {}

\* What an identifier is printed for although its message says otherwise.
Misnames(id) == IF id = "E005" THEN {"shown unmasked"} ELSE {}

\* What no check looks for: found by writing the checks beside the code they stand for.
Silent ==
  {"check answers badly", "nothing to move", "models vanish", "unknown part",
   "no such recipient", "half a key pair", "one level too deep", "weekend skipped",
   "untimed beat too slow", "declared but not run", "spaced rate answers 500",
   "cap switched off", "documents no routes", "GraphQL not mounted", "read-only model writable",
   "blank row on purpose", "subject without a path", "path ends in a relation",
   "encrypted path refused", "field not in the documents", "admin reads every tenant",
   "tenant is no column", "key of no shard", "text key refused",
   "function names no shard", "sorted by an expression", "blind index mirrored"}

\* What goes wrong in use after a check that printed nothing about it is one of the known
\* gaps: neither a failure that a check exists for slips past it (a guard too wide, an
\* order of tests that answers for the wrong one), nor is there another gap, nor another
\* message than E005's that announces something else than what happens.  What must
\* never happen whatever is declared (plaintext stored, an encrypted value in a document,
\* the .env leaving unencrypted, raw data for whoever a broken check lets in) is named by
\* no identifier, so it violates this too.
ChecksHonest ==
  checked => failed \subseteq (Silent \cup UNION {Names(id) \cup Misnames(id) : id \in reported})

\* What the hint of E005 and get_masking_rules say of a rule that is ignored: its field
\* falls back to the built-in masker. A rule that is no dict takes its field with it.
IgnoredRuleMasks ==
  checked /\ "E005" \in reported => "shown unmasked" \notin failed
=============================================================================
