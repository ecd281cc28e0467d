----------------------------- MODULE AdminEdits -----------------------------
(***************************************************************************)
(* Edits through a generated admin and the audit trail they leave          *)
(* (SnapSaveMixin and SnapadminAuditLog in models.py, audit.py): add,      *)
(* change with an inline child, delete, and the "delete selected" action,  *)
(* beside writes that leave no trail and the retention of the trail.       *)
(*                                                                         *)
(* Django's views are modelled from their use: add, change and delete run  *)
(* in one transaction, the action does not.  A query that fails in a       *)
(* transaction dooms it: every later query raises, and when none follows   *)
(* the transaction is rolled back without an exception.                    *)
(***************************************************************************)
EXTENDS Integers, Sequences, SequencesExt, FiniteSets

CONSTANTS Staff,      \* requests that run at a time
          Parents,    \* objects with a change form of their own
          Children,   \* objects that are edited inline, all of one parent
          Parent,     \* that parent
          Fields,
          Forms,      \* the rows a form can be filled in with
          MaxRequests, MaxFaults

Objects == Parents \union Children
AdminAssumption ==
  /\ IsFiniteSet(Objects) /\ Parents \intersect Children = {} /\ Parent \in Parents
  /\ \A f \in Forms : DOMAIN f = Fields
  /\ \A f \in Forms, x \in Fields : f[x] \in Nat
  /\ MaxRequests \in Nat /\ MaxFaults \in Nat

VARIABLES
  rows,       \* the committed row of each object
  trail,      \* the committed entries, in the order of their commits
  aged,       \* how many of them are past SNAPADMIN_AUDIT_RETENTION_DAYS
  base,       \* what the entries purged so far say of each object (history)
  session,    \* what each request has still to do, and its transaction
  disturbed,  \* objects the trail need not account for (history)
  undone,     \* whether an answered edit was rolled back (history)
  requests, faults

vars == <<rows, trail, aged, base, session, disturbed, undone, requests, faults>>

All(v) == [x \in Fields |-> v]
Absent == All(-1)   \* never created
Gone == All(-2)     \* deleted; its key is not given again
Torn == All(-3)     \* no state an entry can follow

Family(o) == IF o = Parent THEN Children \union {o} ELSE {o}
Is(state, o) == state[o] \notin {Absent, Gone}
Present == { o \in Objects : Is(rows, o) }

Idle == [held |-> {}, atomic |-> TRUE, todo |-> <<>>, pending |-> <<>>, entries |-> <<>>,
         doomed |-> FALSE]

\* The row as the transaction of s sees it: its last write, or the committed row.
Wrote(held, o) == \E i \in DOMAIN held.pending : held.pending[i][1] = o
After(state, writes) ==
  FoldLeft(LAMBDA acc, w : [acc EXCEPT ![w[1]] = w[2]], state, writes)
Locked(s, o) == \E t \in Staff \ {s} : Wrote(session[t], o)
Busy(o) == \E s \in Staff : o \in session[s].held
\* A key that no row and no open transaction has; keys are not given twice.
Fresh(o) == rows[o] = Absent /\ ~\E s \in Staff : session[s].atomic /\ o \in session[s].held

Init ==
  /\ rows \in [Objects -> {Absent, CHOOSE f \in Forms : TRUE}]
  /\ \A c \in Children : Is(rows, c) => Is(rows, Parent)
  /\ trail = <<>> /\ aged = 0 /\ base = rows
  /\ session = [s \in Staff |-> Idle]
  /\ disturbed = {} /\ undone = FALSE
  /\ requests = 0 /\ faults = 0

-----------------------------------------------------------------------------
(* What each view does, in the order of the code.                          *)

Write(o, form) == [do |-> "write", object |-> o, row |-> form]
Erase(os) == [do |-> "erase", objects |-> os]
Log == [do |-> "log"]             \* a LogEntry; an error is raised
Stamp == [do |-> "stamp"]         \* _stamp_tenant: refused, or the row has a tenant
Courtesy == [do |-> "courtesy"]   \* a LogEntry; an error is logged
Entry(action, o, old, new) ==
  [do |-> "entry", entry |-> [action |-> action, object |-> o, old |-> old, new |-> new]]

\* change_entry of what differs between form.initial and form.cleaned_data.
Changed(old, form) == { x \in Fields : old[x] # form[x] }
Part(form, xs) == [x \in xs |-> form[x]]
Created(o, form) == Entry("create", o, <<>>, form)
Updated(o, old, form) ==
  Entry("update", o, Part(old, Changed(old, form)), Part(form, Changed(old, form)))
Deleted(o) == Entry("delete", o, <<>>, <<>>)

NoInline == [do |-> "nothing"]
Inlines ==
  {NoInline} \union
  { [do |-> "add", child |-> c, form |-> f] : c \in { c \in Children : Fresh(c) }, f \in Forms }
  \union { [do |-> "change", child |-> c, form |-> f] : c \in Children \intersect Present, f \in Forms }
  \union { [do |-> "delete", child |-> c] : c \in Children \intersect Present }

\* save_related: a LogEntry for an inline row that has changed.
RelatedLog(inline) == IF inline.do = "change" THEN <<Courtesy>> ELSE <<>>

ParentOnly(inline) ==   \* Mutant: Django's own save_formset.
  IF inline.do = "nothing" THEN <<>>
  ELSE IF inline.do = "delete" THEN <<Erase({inline.child})>>
  ELSE <<Write(inline.child, inline.form)>>
\* save_formset
SaveFormset(inline) ==
  CASE inline.do = "nothing" -> <<>>
    [] inline.do = "delete" -> <<Deleted(inline.child), Erase({inline.child})>>
    [] inline.do = "add" -> <<Stamp, Write(inline.child, inline.form), Created(inline.child, inline.form)>>
    [] OTHER -> <<Write(inline.child, inline.form),
                  Updated(inline.child, rows[inline.child], inline.form)>>

\* save_model of a new object, then log_addition.
AddPlan(o, form) == <<Stamp, Write(o, form), Created(o, form), Log>>

\* save_model, save_related, and log_change unless save_model has logged.
ChangePlan(o, form, inline) ==
  LET edited == Changed(rows[o], form) # {} IN
  <<Write(o, form)>>
  \o (IF edited THEN <<Log, Updated(o, rows[o], form)>> ELSE <<>>)
  \o RelatedLog(inline) \o SaveFormset(inline)
  \o (IF edited THEN <<>> ELSE <<Log>>)

\* log_deletions and delete_model; the children go by cascade.
DeletePlan(o) == <<Log, Deleted(o), Erase(Family(o))>>

\* delete_queryset: an entry for every row that was listed, then one query
\* that deletes what matches by now.
BulkPlan(listed, matched) ==
  <<Log>> \o [i \in 1..Cardinality(listed) |-> Deleted(SetToSeq(listed)[i])]
  \o <<Erase(UNION { Family(o) : o \in matched })>>

-----------------------------------------------------------------------------
Free(s) == session[s] = Idle /\ requests < MaxRequests
Start(s, held, atomic, plan) ==
  /\ Free(s) /\ requests' = requests + 1
  /\ session' = [session EXCEPT ![s] = [Idle EXCEPT !.held = held, !.atomic = atomic, !.todo = plan]]
  /\ disturbed' = disturbed \union { o \in held : Busy(o) }
  /\ UNCHANGED <<rows, trail, aged, base, undone, faults>>

Add(s, o, form) == Fresh(o) /\ Start(s, {o}, TRUE, AddPlan(o, form))

Change(s, o, form, inline) ==
  /\ o \in Present /\ (inline = NoInline \/ o = Parent)
  /\ Start(s, Family(o), TRUE, ChangePlan(o, form, inline))

Delete(s, o) == o \in Present /\ Start(s, Family(o), TRUE, DeletePlan(o))

\* Rows that were ticked, or everything the filter of the list matches.
DeleteSelected(s, ticked) ==
  /\ ticked # {} /\ ticked \subseteq Present \intersect Parents
  /\ Start(s, UNION { Family(o) : o \in ticked }, FALSE, BulkPlan(ticked, ticked))
DeleteListed(s) ==
  /\ Present \intersect Parents # {}
  /\ Start(s, Objects, FALSE, BulkPlan(Present \intersect Parents, Parents))

\* One step of a request.
Doing(s, what) == session[s].todo # <<>> /\ Head(session[s].todo).do = what
Item(s) == Head(session[s].todo)
Goes(s, held) == session' = [session EXCEPT ![s] = [held EXCEPT !.todo = Tail(@)]]

WriteRow(s) ==
  /\ Doing(s, "write") /\ ~session[s].doomed
  /\ ~Locked(s, Item(s).object)
  /\ Item(s).object \in Children => Is(After(rows, session[s].pending), Parent) /\ ~Locked(s, Parent)
  /\ Goes(s, [session[s] EXCEPT !.pending = Append(@, <<Item(s).object, Item(s).row>>)])
  /\ UNCHANGED <<rows, trail, aged, base, disturbed, undone, requests, faults>>

EraseRows(s) ==
  /\ Doing(s, "erase") /\ ~session[s].doomed
  /\ \A o \in Item(s).objects : ~Locked(s, o)
  /\ LET there == { o \in Item(s).objects : Is(After(rows, session[s].pending), o) }
         writes == SetToSeq({ <<o, Gone>> : o \in there })
     IN IF session[s].atomic
        THEN Goes(s, [session[s] EXCEPT !.pending = @ \o writes]) /\ UNCHANGED rows
        ELSE Goes(s, session[s]) /\ rows' = After(rows, writes)
  /\ UNCHANGED <<trail, aged, base, disturbed, undone, requests, faults>>

\* record_audit
RecordAudit(s) ==
  /\ Doing(s, "entry") /\ ~session[s].doomed
  /\ IF session[s].atomic
     THEN Goes(s, [session[s] EXCEPT !.entries = Append(@, Item(s).entry)]) /\ UNCHANGED trail
     ELSE Goes(s, session[s]) /\ trail' = Append(trail, Item(s).entry)
  /\ UNCHANGED <<rows, aged, base, disturbed, undone, requests, faults>>

LogIt(s) ==
  /\ Doing(s, "log") \/ Doing(s, "courtesy")
  /\ ~session[s].doomed
  /\ Goes(s, session[s])
  /\ UNCHANGED <<rows, trail, aged, base, disturbed, undone, requests, faults>>

\* A tenant is bound to the request, or the model has none.
StampTenant(s) ==
  /\ Doing(s, "stamp") /\ Goes(s, session[s])
  /\ UNCHANGED <<rows, trail, aged, base, disturbed, undone, requests, faults>>

\* The insert of an entry fails, and the exception is swallowed; outside of a
\* transaction nothing else happens.
SwallowedFailure(s) ==
  /\ Doing(s, "entry") \/ Doing(s, "courtesy")
  /\ ~session[s].doomed
  /\ faults < MaxFaults /\ faults' = faults + 1
  /\ Goes(s, [session[s] EXCEPT !.doomed = session[s].atomic])
  /\ disturbed' = IF session[s].atomic THEN disturbed ELSE disturbed \union session[s].held
  /\ UNCHANGED <<rows, trail, aged, base, undone, requests>>

\* In a doomed transaction a query raises: record_audit swallows that too.
SwallowedAgain(s) ==
  /\ session[s].doomed /\ (Doing(s, "entry") \/ Doing(s, "courtesy"))
  /\ Goes(s, session[s])
  /\ UNCHANGED <<rows, trail, aged, base, disturbed, undone, requests, faults>>

\* The request ends with an error, or its process dies: the transaction is
\* rolled back; what the action has recorded by then stays.
End(s) == session' = [session EXCEPT ![s] = Idle]
Fail(s) ==
  /\ End(s)
  /\ disturbed' = IF session[s].atomic THEN disturbed ELSE disturbed \union session[s].held
  /\ UNCHANGED <<rows, trail, aged, base, undone, requests>>

Refuse(s) == Doing(s, "stamp") /\ Fail(s) /\ UNCHANGED faults
RaiseInDoomed(s) ==
  /\ session[s].doomed /\ \E what \in {"write", "erase", "log"} : Doing(s, what)
  /\ Fail(s) /\ UNCHANGED faults
Orphaned(s) ==   \* the parent of an inline row is gone
  /\ Doing(s, "write") /\ ~session[s].doomed /\ Item(s).object \in Children
  /\ ~Is(After(rows, session[s].pending), Parent) /\ ~Locked(s, Parent)
  /\ Fail(s) /\ UNCHANGED faults
Break(s) ==
  /\ session[s] # Idle
  /\ faults < MaxFaults /\ faults' = faults + 1
  /\ Fail(s)

\* The answer is that of success; a doomed transaction ends in a rollback.
Mended(s) ==
  { o \in session[s].held : /\ \E i \in DOMAIN session[s].entries :
                                 LET e == session[s].entries[i] IN
                                 e.action \in {"create", "delete"} /\ o \in Family(e.object)
                            /\ \A t \in Staff \ {s} : o \notin session[t].held }
Answer(s) ==
  /\ session[s] # Idle /\ session[s].todo = <<>>
  /\ End(s)
  /\ IF session[s].doomed
     THEN undone' = TRUE /\ UNCHANGED <<rows, trail, disturbed>>
     ELSE /\ rows' = After(rows, session[s].pending)
          /\ trail' = trail \o session[s].entries
          /\ disturbed' = disturbed \ Mended(s)
          /\ UNCHANGED undone
  /\ UNCHANGED <<aged, base, requests, faults>>

-----------------------------------------------------------------------------
(* Writes without a trail, and the trail's retention.                      *)

\* REST, GraphQL, QuerySet.update(), a shell.
WriteElsewhere(o, form) ==
  /\ requests < MaxRequests /\ requests' = requests + 1
  /\ o \in Present /\ rows[o] # form /\ \A s \in Staff : ~Wrote(session[s], o)
  /\ rows' = [rows EXCEPT ![o] = form]
  /\ disturbed' = disturbed \union {o}
  /\ UNCHANGED <<trail, aged, base, session, undone, faults>>

\* What an entry says became of the objects.
Applied(state, e) ==
  CASE e.action = "create" -> [state EXCEPT ![e.object] = IF @ = Absent THEN e.new ELSE Torn]
    [] e.action = "update" ->
         [state EXCEPT ![e.object] =
            IF \A x \in DOMAIN e.old : @[x] = e.old[x]
            THEN [x \in Fields |-> IF x \in DOMAIN e.new THEN e.new[x] ELSE @[x]]
            ELSE Torn]
    [] OTHER -> [o \in Objects |-> IF o \in Family(e.object) /\ state[o] # Absent THEN Gone ELSE state[o]]
Replayed(state, entries) == FoldLeft(Applied, state, entries)

Age == aged' = Len(trail) /\ aged' # aged
       /\ UNCHANGED <<rows, trail, base, session, disturbed, undone, requests, faults>>

\* SnapadminAuditLog.purge_expired, and snapadmin_audit_export --purge.
PurgeExpired ==
  /\ aged > 0
  /\ base' = Replayed(base, SubSeq(trail, 1, aged))
  /\ trail' = SubSeq(trail, aged + 1, Len(trail))
  /\ aged' = 0
  /\ UNCHANGED <<rows, session, disturbed, undone, requests, faults>>

Next ==
  \/ \E s \in { t \in Staff : Free(t) } :
       \/ \E o \in Parents, form \in Forms : Add(s, o, form)
       \/ \E o \in Parents, form \in Forms, inline \in Inlines : Change(s, o, form, inline)
       \/ \E o \in Parents : Delete(s, o)
       \/ \E ticked \in SUBSET Parents : DeleteSelected(s, ticked)
       \/ DeleteListed(s)
  \/ \E s \in Staff :
       \/ WriteRow(s) \/ EraseRows(s) \/ RecordAudit(s) \/ LogIt(s)
       \/ StampTenant(s) \/ Refuse(s) \/ SwallowedFailure(s) \/ SwallowedAgain(s)
       \/ RaiseInDoomed(s) \/ Orphaned(s) \/ Break(s) \/ Answer(s)
  \/ \E o \in Objects, form \in Forms : WriteElsewhere(o, form)
  \/ Age \/ PurgeExpired

Spec == Init /\ [][Next]_vars

-----------------------------------------------------------------------------
(* Properties.                                                             *)

\* The rows of a "delete selected" between its entries and its query.
Unsettled == UNION { session[s].held : s \in { s \in Staff : ~session[s].atomic } }

\* However edits, failures and deaths fall, an edit and its entries are
\* committed together: the entries in the trail, read one after the other from
\* what the purged ones say, lead to the rows as they are, old values, inline
\* rows and cascades included.  Excused are rows of overlapping requests, rows
\* of a "delete selected" that is running or failed half-way, and rows written
\* elsewhere.
TrailTrue ==
  LET told == Replayed(base, trail)
  IN  \A o \in Objects \ (disturbed \union Unsettled) : told[o] = rows[o]

\* audit.py: "Fail-safe: any error is logged and swallowed so auditing never
\* breaks the underlying admin operation."
AuditHarmless == ~undone

\* The types of the variables.
TypeOK ==
  /\ rows \in [Objects -> Forms \union {Absent, Gone}]
  /\ aged \in 0..Len(trail) /\ disturbed \subseteq Objects
  /\ \A s \in Staff : session[s].held \subseteq Objects
  /\ requests \in 0..MaxRequests /\ faults \in 0..MaxFaults
=============================================================================
