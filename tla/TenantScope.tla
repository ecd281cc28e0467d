----------------------------- MODULE TenantScope -----------------------------
(***************************************************************************)
(* Row-level tenancy (tenancy.py) of one tenant-scoped model: the context  *)
(* variable of a thread that serves one request or job after another, who  *)
(* binds and resets it, what a query sees under it and which tenant a row  *)
(* is created for.                                                         *)
(***************************************************************************)
EXTENDS Integers, FiniteSets, Sequences

CONSTANTS
  Threads,
  Tenants,
  Rows,         \* primary keys of the model
  Storages,     \* es_storage_mode: "DB" or "ES_ONLY"
  Middleware,   \* SnapTenantMiddleware is installed
  MaxJobs       \* bound

Unset == "unset"        \* nobody asked
NoTenant == "none"      \* a resolver found no tenant
AllTenants == "all"     \* use_all_tenants, or a resolver that returns it
NoRow == "no row"       \* the column of a row that does not exist
Bindings == Tenants \cup {Unset, NoTenant, AllTenants}

ASSUME TenantAssumption ==
  /\ IsFiniteSet(Threads) /\ IsFiniteSet(Tenants) /\ IsFiniteSet(Rows)
  /\ Tenants \cap {Unset, NoTenant, AllTenants, NoRow} = {}
  /\ Storages \subseteq {"DB", "ES_ONLY"} /\ Middleware \in BOOLEAN /\ MaxJobs \in Nat

VARIABLES
  storage,
  tenant,   \* the tenant column of the rows that exist, NoTenant for NULL
  jobs,     \* tenants stamped on export jobs that wait for a worker
  bound,    \* the context variable, per thread
  saved,    \* the tokens of the binds that have not been reset
  work      \* what each thread does, for whom, and what its last query returned

vars == <<storage, tenant, jobs, bound, saved, work>>

Idle == [step |-> "idle", surface |-> "none", user |-> Unset, got |-> {}, made |-> {}]

Init ==
  /\ storage \in Storages
  /\ tenant \in [Rows -> Tenants \cup {NoTenant, NoRow}]
  /\ jobs = <<>>
  /\ bound = [t \in Threads |-> Unset]
  /\ saved = [t \in Threads |-> <<>>]
  /\ work = [t \in Threads |-> Idle]

Bind(t, value) == /\ bound' = [bound EXCEPT ![t] = value]
                  /\ saved' = [saved EXCEPT ![t] = <<bound[t]>> \o @]
\* A token restores what was bound before it, whatever was bound since.
Reset(t, depth) == /\ bound' = [bound EXCEPT ![t] = saved[t][depth]]
                   /\ saved' = [saved EXCEPT ![t] = SubSeq(@, depth + 1, Len(@))]
KeepBound == UNCHANGED <<bound, saved>>
Step(t, step) == work' = [work EXCEPT ![t].step = step, ![t].got = {}, ![t].made = {}]
At(t, step, surfaces) == work[t].step = step /\ work[t].surface \in surfaces

-----------------------------------------------------------------------------
(* What a query sees.                                                      *)

Existing == {r \in Rows : tenant[r] # NoRow}
Of(value) == {r \in Existing : tenant[r] = value}
\* Mutant: no tenant bound means no filter.
ScopedIfBound(value) == IF value \in {AllTenants, Unset, NoTenant} THEN Existing ELSE Of(value)
Scoped(value) == CASE value = AllTenants -> Existing
                   [] value \in {Unset, NoTenant} -> {}
                   [] OTHER -> Of(value)

\* EsQuerySet.get asks Elasticsearch for the document and checks the filters
\* chained so far: none() drops the hits and chains none, and what a REST view
\* fetches from is the result of es_search, which has none either.
NoFilterChained(t) ==
  storage = "ES_ONLY" /\ (bound[t] \in {Unset, NoTenant} \/ work[t].surface = "rest")
Fetched(t, r) == {r} \cap IF NoFilterChained(t) THEN Existing ELSE Scoped(bound[t])

-----------------------------------------------------------------------------
(* A request: the middleware, authentication, the view, and the way back.  *)

\* A session user is known to the middleware; a token user only to DRF.
Arrive(t) ==
  /\ work[t] = Idle
  /\ \E surface \in {"admin", "rest", "graphql"}, user \in Bindings \ {Unset}, session \in BOOLEAN :
       LET known == IF session THEN user ELSE NoTenant
       IN /\ surface = "admin" => session
          /\ work' = [work EXCEPT ![t] = [Idle EXCEPT !.step = "auth", !.surface = surface,
                                                       !.user = user]]
          /\ IF Middleware THEN Bind(t, known) ELSE KeepBound
  /\ UNCHANGED <<storage, tenant, jobs>>

\* initial() and GraphQL's dispatch rebind for the user they authenticated; a
\* request that fails authentication binds nothing.
Authenticate(t) ==
  /\ work[t].step = "auth"
  /\ IF work[t].surface = "admin" THEN KeepBound ELSE Bind(t, work[t].user)
  /\ Step(t, "view")
  /\ UNCHANGED <<storage, tenant, jobs>>

Unauthenticated(t) ==
  /\ work[t].step = "auth"
  /\ Step(t, "leave")
  /\ UNCHANGED <<storage, tenant, jobs, bound, saved>>

\* finalize_response, or the end of GraphQL's with block.
Finalize(t) ==
  /\ work[t].step = "view" /\ work[t].surface \in {"admin", "rest", "graphql"}
  /\ IF work[t].surface = "admin" THEN KeepBound ELSE Reset(t, 1)
  /\ Step(t, "leave")
  /\ UNCHANGED <<storage, tenant, jobs>>

\* DRF re-raises an exception it has no response for and calls no
\* finalize_response; a with block unwinds.
Unhandled(t) ==
  /\ work[t].step = "view" /\ work[t].surface \in {"admin", "rest", "graphql"}
  /\ IF work[t].surface = "graphql" THEN Reset(t, 1) ELSE KeepBound
  /\ Step(t, "leave")
  /\ UNCHANGED <<storage, tenant, jobs>>

Leave(t) ==
  /\ work[t].step = "leave"
  /\ IF Middleware THEN Reset(t, Len(saved[t])) ELSE KeepBound
  /\ work' = [work EXCEPT ![t] = Idle]
  /\ UNCHANGED <<storage, tenant, jobs>>

-----------------------------------------------------------------------------
(* What a view or a job does under the binding.                            *)

Doing(t) == work[t].step = "view"

List(t) ==
  /\ Doing(t)
  /\ work' = [work EXCEPT ![t].got = Scoped(bound[t]), ![t].made = {}]
  /\ UNCHANGED <<storage, tenant, jobs, bound, saved>>

Get(t, r) ==
  /\ Doing(t)
  /\ work' = [work EXCEPT ![t].got = Fetched(t, r), ![t].made = {}]
  /\ UNCHANGED <<storage, tenant, jobs, bound, saved>>

\* perform_create and _stamp_tenant: the tenant a new row gets, NoTenant if it
\* is refused. Only an operator bound to all tenants names it.
Stamped(value, named) == IF value = AllTenants THEN named
                         ELSE IF value \in Tenants /\ named \in {NoTenant, value} THEN value ELSE NoTenant

Create(t, r) ==
  /\ At(t, "view", {"admin", "rest"}) /\ tenant[r] = NoRow
  /\ \E named \in Tenants \cup {NoTenant} :
       LET stamp == Stamped(bound[t], named)
       IN /\ stamp # NoTenant
          /\ tenant' = [tenant EXCEPT ![r] = stamp]
          /\ work' = [work EXCEPT ![t].made = {r}, ![t].got = {}]
  /\ UNCHANGED <<storage, jobs, bound, saved>>

\* A row that get_object found. An update moves no row to another tenant:
\* perform_update refuses a body that names one.
Delete(t, r) ==
  /\ At(t, "view", {"admin", "rest"}) /\ r \in Fetched(t, r)
  /\ tenant' = [tenant EXCEPT ![r] = NoRow]
  /\ work' = [u \in Threads |-> [work[u] EXCEPT !.got = @ \ {r}, !.made = @ \ {r}]]
  /\ UNCHANGED <<storage, jobs, bound, saved>>

RequestExport(t) ==
  /\ At(t, "view", {"rest"}) /\ bound[t] \in Tenants /\ Len(jobs) < MaxJobs
  /\ jobs' = Append(jobs, bound[t])
  /\ UNCHANGED <<storage, tenant, bound, saved, work>>

\* A worker thread replays the tenant the job was stamped with.
StartExport(t) ==
  /\ work[t] = Idle /\ jobs # <<>>
  /\ Bind(t, Head(jobs))
  /\ work' = [work EXCEPT ![t] = [Idle EXCEPT !.step = "view", !.surface = "job", !.user = Head(jobs)]]
  /\ jobs' = Tail(jobs)
  /\ UNCHANGED <<storage, tenant>>

\* _background_context of the purge, the reindex and the subject request, in a
\* thread of its own or in the request that asked for a reindex.
EnterBackground(t) ==
  /\ \/ work[t] = Idle
     \/ At(t, "view", {"admin", "rest"})
  /\ Bind(t, AllTenants)
  /\ work' = [work EXCEPT ![t].step = "background", ![t].got = {}, ![t].made = {},
                          ![t].surface = IF @ = "none" THEN "sweep" ELSE @]
  /\ UNCHANGED <<storage, tenant, jobs>>

\* The with block ends, normally or by an exception.
LeaveBackground(t) ==
  /\ work[t].step = "background"
  /\ Reset(t, 1)
  /\ IF work[t].surface = "sweep" THEN work' = [work EXCEPT ![t] = Idle] ELSE Step(t, "view")
  /\ UNCHANGED <<storage, tenant, jobs>>

EndExport(t) ==
  /\ At(t, "view", {"job"})
  /\ Reset(t, 1)
  /\ work' = [work EXCEPT ![t] = Idle]
  /\ UNCHANGED <<storage, tenant, jobs>>

Serve(t) == \/ Arrive(t) \/ Authenticate(t) \/ Unauthenticated(t) \/ Finalize(t) \/ Unhandled(t)
            \/ Leave(t) \/ List(t) \/ (\E r \in Rows : Get(t, r) \/ Create(t, r) \/ Delete(t, r))
            \/ RequestExport(t) \/ StartExport(t) \/ EnterBackground(t) \/ LeaveBackground(t)
            \/ EndExport(t)

Next == \E t \in Threads : Serve(t)

Spec == Init /\ [][Next]_vars

-----------------------------------------------------------------------------
(* Properties.                                                             *)

TypeOK ==
  /\ storage \in Storages
  /\ tenant \in [Rows -> Tenants \cup {NoTenant, NoRow}]
  /\ jobs \in Seq(Tenants)
  /\ bound \in [Threads -> Bindings]
  /\ \A t \in Threads : saved[t] \in Seq(Bindings) /\ work[t].got \subseteq Rows /\ work[t].made \subseteq Rows

\* Whatever a thread served before, and however that ended, a query returns rows
\* of the tenant of the request or job it serves and no others, a row is created
\* for that tenant (by an operator: for some tenant), and a thread between two
\* pieces of work is bound to nothing.
TenantKept ==
  \A t \in Threads :
    /\ work[t].user # AllTenants => work[t].got \cup work[t].made \subseteq Of(work[t].user) \ Of(NoTenant)
    /\ \A r \in work[t].made : tenant[r] \in Tenants
    /\ work[t] = Idle => bound[t] = Unset

\* The same for what a view has no tenant for: nothing bound, nothing returned by
\* the model's manager.
DefaultDeny ==
  \A t \in Threads : bound[t] \in {Unset, NoTenant} /\ work[t].surface # "rest" => work[t].got = {}

\* What perform_update relies on: a view reaches a row because the queryset it gets it
\* from was scoped to the request's tenant.
ReachedInScope ==
  \A t \in Threads : bound[t] \in Tenants => work[t].got \subseteq Of(bound[t])
=============================================================================
