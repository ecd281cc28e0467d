------------------------------- MODULE EsScan -------------------------------
(***************************************************************************)
(* The Elasticsearch query methods of SnapModel (models.py es_search,      *)
(* es_filter, es_count, es_aggregate, es_scan): which store answers, and   *)
(* the deep scan that pages through the index and looks every page up in   *)
(* the table while rows and documents come and go. Hits are sorted by the  *)
(* primary key, so a page is the set of its keys.                          *)
(***************************************************************************)
EXTENDS Integers, FiniteSets, Sequences, Functions

CONSTANTS
  Keys,        \* primary keys whose rows match the query's terms
  TextKeys,    \* those that match its query_string too
  Modes,       \* es_storage_mode
  PageSizes, Limits,    \* page_size and limit; Unlimited for None
  MaxChanges, MaxFaults \* bounds

Unlimited == 0

ASSUME EsScanAssumption ==
  /\ Keys \subseteq Nat \ {0} /\ IsFiniteSet(Keys) /\ TextKeys \subseteq Keys
  /\ Modes \subseteq {"DUAL", "ES_ONLY", "DB_ONLY"}
  /\ PageSizes \subseteq Nat \ {0} /\ Limits \subseteq Nat
  /\ {MaxChanges, MaxFaults} \subseteq Nat

VARIABLES
  call,     \* arguments and settings
  rows, docs,
  steady,   \* history: keys whose row and document were there all along
  scan,     \* the generator: its cursor, the page it asked for, what it still yields of it
  out,      \* what it has yielded
  reply,    \* what the last of the other query methods returned
  changes, faults

scanVars == <<call, rows, docs, steady, scan, out, reply, changes, faults>>

ScanCalls == [mode : Modes, enabled : BOOLEAN, fallback : BOOLEAN, pkOnly : BOOLEAN, text : BOOLEAN,
              page : PageSizes, limit : Limits]
NoReply == [backend |-> "none", keys |-> {}, full |-> FALSE]

ScanInit ==
  /\ call \in ScanCalls
  /\ rows \in SUBSET Keys /\ docs \in SUBSET Keys
  /\ call.mode = "ES_ONLY" => rows = {}
  /\ call.mode = "DB_ONLY" => docs = {}
  /\ steady = IF call.mode = "DUAL" THEN rows \cap docs ELSE rows \cup docs
  /\ scan = [step |-> "start", cursor |-> 0, size |-> 0, hits |-> {}, emit |-> {}]
  /\ out = <<>>
  /\ reply = NoReply
  /\ changes = 0 /\ faults = 0

Intended == call.mode # "DB_ONLY"
UseEs == Intended /\ call.enabled
Matching(S) == IF call.text THEN S \cap TextKeys ELSE S
FirstKeys(S, n) == { k \in S : Cardinality({ j \in S : j < k }) < n }
Fault == faults < MaxFaults /\ faults' = faults + 1
Scanning(e) == scan' = e
Stores == <<call, rows, docs, steady>>

\* The store that answers when Elasticsearch did not.
Otherwise == IF call.mode = "ES_ONLY" THEN "empty"
             ELSE IF Intended /\ ~call.fallback THEN "raise" ELSE "database"

-----------------------------------------------------------------------------
(* es_scan.                                                                *)

Start ==
  /\ scan.step = "start"
  /\ Scanning([scan EXCEPT !.step = IF UseEs THEN "search" ELSE "fallback"])
  /\ UNCHANGED <<Stores, out, reply, changes, faults>>

Remaining == IF call.limit = Unlimited THEN call.page
             ELSE IF call.page < call.limit - Len(out) THEN call.page ELSE call.limit - Len(out)

Hydrated == call.mode = "DUAL" /\ ~call.pkOnly

\* Nothing is asked for once the limit is reached; nothing found ends the scan too.
Search ==
  LET hits == FirstKeys({ k \in Matching(docs) : k > scan.cursor }, Remaining)
  IN /\ scan.step = "search"
     /\ Scanning([scan EXCEPT !.size = Remaining, !.hits = hits,
                              !.emit = IF Hydrated THEN {} ELSE hits,
                              !.step = IF hits = {} THEN "done"
                                       ELSE IF Hydrated THEN "hydrate" ELSE "yield"])
     /\ UNCHANGED <<Stores, out, reply, changes, faults>>

\* in_bulk: a document without a row is left out.
Hydrate ==
  /\ scan.step = "hydrate"
  /\ Scanning([scan EXCEPT !.emit = scan.hits \cap rows, !.step = "yield"])
  /\ UNCHANGED <<Stores, out, reply, changes, faults>>

Yield ==
  /\ scan.step \in {"yield", "drain"}
  /\ \E k \in scan.emit :
       /\ \A j \in scan.emit : k <= j
       /\ out' = Append(out, k)
       /\ Scanning([scan EXCEPT !.emit = @ \ {k}])
  /\ UNCHANGED <<Stores, reply, changes, faults>>

\* Mutant: a page is the last one if it yielded less than asked for.
ExhaustedIfFewYielded == Cardinality(scan.hits \cap rows) < scan.size
\* The cursor is the last hit, yielded or not; a page shorter than asked for is
\* the last one.
Exhausted == Cardinality(scan.hits) < scan.size

EndPage ==
  /\ scan.step = "yield" /\ scan.emit = {}
  /\ \E last \in scan.hits :
       /\ \A k \in scan.hits : k <= last
       /\ Scanning([scan EXCEPT !.cursor = last, !.step = IF Exhausted THEN "done" ELSE "search"])
  /\ UNCHANGED <<Stores, out, reply, changes, faults>>

\* Elasticsearch or the lookup fails: after the first yield the scan just stops.
ScanFails ==
  /\ Fault /\ scan.step \in {"search", "hydrate"}
  /\ Scanning([scan EXCEPT !.step = IF out # <<>> \/ call.mode = "ES_ONLY" THEN "stopped" ELSE "fallback"])
  /\ UNCHANGED <<Stores, out, reply, changes>>

\* The database cannot evaluate the query_string and leaves it out.
Fallback ==
  /\ scan.step = "fallback"
  /\ Scanning([scan EXCEPT !.step = CASE Otherwise = "empty" -> "stopped"
                                      [] Otherwise = "raise" -> "raised"
                                      [] OTHER -> "drain",
                           !.emit = IF Otherwise # "database" THEN {}
                                    ELSE IF call.limit = Unlimited THEN rows ELSE FirstKeys(rows, call.limit)])
  /\ UNCHANGED <<Stores, out, reply, changes, faults>>

Drained ==
  /\ scan.step = "drain" /\ scan.emit = {}
  /\ Scanning([scan EXCEPT !.step = "done"])
  /\ UNCHANGED <<Stores, out, reply, changes, faults>>

-----------------------------------------------------------------------------
(* The methods that return one answer. Each picks its store for itself.    *)

\* Hits come unsorted and capped; a DUAL model's are looked up in the table.
EsPage(limit) ==
  {found \in SUBSET Matching(docs) :
     Cardinality(found) = IF limit < Cardinality(Matching(docs)) THEN limit ELSE Cardinality(Matching(docs))}
Looked(found) == IF call.mode = "DUAL" THEN found \cap rows ELSE found

Replies(backend, keys, full) == reply' = [backend |-> backend, keys |-> keys, full |-> full]
DbAnswer(keys) == Replies(Otherwise, IF Otherwise = "database" THEN keys ELSE {}, Otherwise = "database")

KeepFaults == UNCHANGED faults

EsSearch ==
  \/ /\ UseEs /\ KeepFaults
     /\ \E found \in EsPage(call.page) : Replies("elasticsearch", Looked(found), Cardinality(docs) <= call.page)
  \/ /\ UseEs /\ Fault
     \* es_search knows no db_fallback: only an ES_ONLY model has nowhere to go.
     /\ IF call.mode = "ES_ONLY" THEN Replies("empty", {}, FALSE) ELSE Replies("database", Matching(rows), TRUE)
  \/ /\ ~UseEs /\ KeepFaults
     /\ IF call.mode = "ES_ONLY" THEN Replies("empty", {}, FALSE) ELSE Replies("database", Matching(rows), TRUE)

EsFilter ==
  \/ /\ UseEs /\ KeepFaults
     /\ \E found \in EsPage(call.page) : Replies("elasticsearch", Looked(found), Cardinality(docs) <= call.page)
  \/ /\ (IF UseEs THEN Fault ELSE KeepFaults)
     /\ DbAnswer(rows)

\* _count and the facets cover every match and never look at the table.
EsCount ==
  \/ UseEs /\ KeepFaults /\ Replies("index", Matching(docs), TRUE)
  \/ (IF UseEs THEN Fault ELSE KeepFaults) /\ DbAnswer(rows)

Ask ==
  /\ reply = NoReply /\ scan.step = "start"
  /\ EsSearch \/ EsFilter \/ EsCount
  /\ UNCHANGED <<Stores, scan, out, changes>>

ForgetReply ==
  /\ reply # NoReply /\ reply' = NoReply
  /\ UNCHANGED <<Stores, scan, out, changes, faults>>

-----------------------------------------------------------------------------
(* Others write rows and documents, together or one before the other.      *)

ChangeStores(k) ==
  /\ changes < MaxChanges /\ changes' = changes + 1
  /\ reply = NoReply /\ scan.step # "start"
  /\ \/ call.mode # "ES_ONLY" /\ rows' = rows \cup {k} /\ UNCHANGED docs
     \/ rows' = rows \ {k} /\ UNCHANGED docs
     \/ call.mode # "DB_ONLY" /\ docs' = docs \cup {k} /\ UNCHANGED rows
     \/ docs' = docs \ {k} /\ UNCHANGED rows
  /\ steady' = steady \ {k}
  /\ UNCHANGED <<call, scan, out, reply, faults>>

ScanNext == \/ Start \/ Search \/ Hydrate \/ Yield \/ EndPage \/ ScanFails \/ Fallback \/ Drained
            \/ Ask \/ ForgetReply \/ \E k \in Keys : ChangeStores(k)

ScanSpec == ScanInit /\ [][ScanNext]_scanVars

-----------------------------------------------------------------------------
(* Properties.                                                             *)

ScanSteps == {"start", "search", "hydrate", "yield", "fallback", "drain", "done", "stopped", "raised"}

ScanTypeOK ==
  /\ call \in ScanCalls /\ rows \subseteq Keys /\ docs \subseteq Keys /\ steady \subseteq Keys
  /\ scan.step \in ScanSteps /\ scan.cursor \in Keys \cup {0}
  /\ scan.hits \subseteq Keys /\ scan.emit \subseteq Keys /\ out \in Seq(Keys)

\* A scan yields every match once, in ascending order and within the limit; what
\* was there all along is never skipped up to the last key it yielded, and not
\* at all once it has ended by itself below the limit, although documents
\* without rows, rows without documents and changes behind and ahead of the
\* cursor come in between, and although Elasticsearch may fail. An answer no
\* limit cut short holds everything that was there.
ScanFaithful ==
  LET ended == scan.step = "done" /\ (call.limit = Unlimited \/ Len(out) < call.limit)
  IN /\ \A i \in 1..(Len(out) - 1) : out[i] < out[i + 1]
     /\ call.limit # Unlimited => Len(out) <= call.limit
     /\ \A k \in Matching(steady) : (\E i \in DOMAIN out : k < out[i]) \/ ended => k \in Range(out)
     /\ scan.step = "raised" => out = <<>> /\ ~call.fallback
     /\ reply.full => Matching(steady) \subseteq reply.keys
=============================================================================
