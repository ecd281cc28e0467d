---------------------------- MODULE RequestsProofs ----------------------------
(***************************************************************************)
(* What requests and callers go through, for every number of them: tenancy *)
(* (TenantScope), quotas (Quotas), access (ApiAccess), raw values          *)
(* (FieldAccess), the alert cooldown (AlertCooldown), the router           *)
(* (Sharding), encrypted columns with their lookups (EncryptedColumn) and  *)
(* the deep scan of the index (EsScan).                                    *)
(***************************************************************************)
EXTENDS TenantScope, Quotas, ApiAccess, FieldAccess, AlertCooldown, Sharding,
        EncryptedColumn, EsScan, SequenceTheorems, FiniteSetTheorems, WellFoundedInduction, TLAPS

-----------------------------------------------------------------------------
(* Tenancy: what a thread is bound to at each place of a request, a job or *)
(* a sweep, and what that says of the rows its queries return and its      *)
(* creates make. The middleware is installed and the rows are in the       *)
(* database: an ES_ONLY model can give away a row (the runs tenant_deny    *)
(* and tenant_fetch), and without the middleware an unhandled REST         *)
(* exception leaves its thread bound.                                      *)

Requests == {"admin", "rest", "graphql"}
Works == [step : {"idle", "auth", "view", "background", "leave"},
          surface : Requests \cup {"none", "job", "sweep"},
          user : Bindings, got : SUBSET Rows, made : SUBSET Rows]

TypeInv ==
  /\ storage \in Storages
  /\ tenant \in [Rows -> Tenants \cup {NoTenant, NoRow}]
  /\ jobs \in Seq(Tenants)
  /\ bound \in [Threads -> Bindings]
  /\ saved \in [Threads -> Seq(Bindings)]
  /\ work \in [Threads -> Works]

(***************************************************************************)
(* The binding of a thread and the tokens above it, by what it does.        *)
(***************************************************************************)
\* Between two pieces of work nothing is bound and no token is left.
IdleClean(t) ==
  work[t].step = "idle" => work[t] = Idle /\ bound[t] = Unset /\ saved[t] = <<>>

\* The outermost token restores the empty binding.
Outermost(t) ==
  work[t].step # "idle" =>
    saved[t] # <<>> /\ saved[t][Len(saved[t])] = Unset /\ work[t].surface # "none"

\* A session user is bound already; others rebind in the view's frame.
Entered(t) ==
  work[t].step = "auth" =>
    /\ work[t].surface \in Requests
    /\ work[t].surface = "admin" => bound[t] = work[t].user

\* A view, and the job of an export, run as the user they are for.
Viewing(t) ==
  work[t].step = "view" =>
    /\ bound[t] = work[t].user /\ work[t].surface # "sweep"
    /\ work[t].surface \in {"rest", "graphql"} => Len(saved[t]) >= 2

\* A background block sits inside a view, or is a sweep of its own.
InBackground(t) ==
  work[t].step = "background" =>
    \/ work[t].surface = "sweep" /\ Len(saved[t]) = 1
    \/ work[t].surface = "admin" /\ Len(saved[t]) >= 2 /\ saved[t][1] = work[t].user
    \/ work[t].surface = "rest" /\ Len(saved[t]) >= 3 /\ saved[t][1] = work[t].user

Surfaces(t) ==
  /\ work[t].surface = "job" => work[t].step = "view" /\ Len(saved[t]) = 1
  /\ work[t].surface = "sweep" => work[t].step = "background"

Placed(t) == /\ IdleClean(t) /\ Outermost(t) /\ Entered(t) /\ Viewing(t)
             /\ InBackground(t) /\ Surfaces(t)

BindInv == \A t \in Threads : Placed(t)

\* What the last query returned and the last create made, for whom.
RowsInv ==
  \A t \in Threads :
    /\ work[t].user # AllTenants => work[t].got \cup work[t].made \subseteq Of(work[t].user) \ Of(NoTenant)
    /\ \A r \in work[t].made : tenant[r] \in Tenants

Inv == TypeInv /\ BindInv /\ RowsInv

-----------------------------------------------------------------------------
(* The stack of tokens.                                                    *)

LEMMA Push ==
  ASSUME NEW S, NEW s \in Seq(S), NEW v \in S
  PROVE  /\ <<v>> \o s \in Seq(S) /\ <<v>> \o s # <<>>
         /\ Len(<<v>> \o s) = Len(s) + 1 /\ (<<v>> \o s)[1] = v
         /\ \A i \in 1..Len(s) : (<<v>> \o s)[i + 1] = s[i]
         /\ s # <<>> => (<<v>> \o s)[Len(<<v>> \o s)] = s[Len(s)]
  OBVIOUS

LEMMA Drop ==
  ASSUME NEW S, NEW s \in Seq(S), NEW d \in 1..Len(s)
  PROVE  /\ SubSeq(s, d + 1, Len(s)) \in Seq(S) /\ s[d] \in S
         /\ Len(SubSeq(s, d + 1, Len(s))) = Len(s) - d
         /\ d < Len(s) => /\ SubSeq(s, d + 1, Len(s)) # <<>>
                          /\ SubSeq(s, d + 1, Len(s))[Len(s) - d] = s[Len(s)]
         /\ d = Len(s) => SubSeq(s, d + 1, Len(s)) = <<>>
  <1>1. d \in Int /\ Len(s) \in Int /\ \A i \in d + 1 .. Len(s) : s[i] \in S
    OBVIOUS
  <1>2. /\ SubSeq(s, d + 1, Len(s)) \in Seq(S)
        /\ Len(SubSeq(s, d + 1, Len(s))) = IF d + 1 <= Len(s) THEN Len(s) - (d + 1) + 1 ELSE 0
        /\ \A i \in 1 .. Len(s) - (d + 1) + 1 : SubSeq(s, d + 1, Len(s))[i] = s[d + 1 + i - 1]
    BY <1>1, SubSeqProperties
  <1>3. Len(s) - d \in 1 .. Len(s) - (d + 1) + 1 <=> d < Len(s)
    BY <1>1
  <1>4. d + 1 + (Len(s) - d) - 1 = Len(s)
    BY <1>1
  <1>5. d < Len(s) => SubSeq(s, d + 1, Len(s))[Len(s) - d] = s[Len(s)]
    BY <1>2, <1>3, <1>4
  <1>6. d = Len(s) => SubSeq(s, d + 1, Len(s)) = <<>>
    BY <1>1, SubSeqEmpty
  <1>7. Len(SubSeq(s, d + 1, Len(s))) = Len(s) - d
    BY <1>1, <1>2
  <1>8. d < Len(s) => SubSeq(s, d + 1, Len(s)) # <<>>
    <2>1. Len(<<>>) = 0 /\ (d < Len(s) => Len(s) - d # 0)
      BY <1>1
    <2> QED BY <1>7, <2>1, Zenon
  <1> QED BY <1>1, <1>2, <1>5, <1>6, <1>7, <1>8

-----------------------------------------------------------------------------
(* The invariant.                                                          *)

Setting == Middleware /\ Storages = {"DB"}

LEMMA InitInv == Setting /\ Init => Inv
  <1> SUFFICES ASSUME Setting, Init PROVE Inv
    OBVIOUS
  <1>1. Idle \in Works /\ Idle.step = "idle" /\ Idle.surface = "none" /\ Idle.user = Unset
        /\ Idle.got = {} /\ Idle.made = {}
    BY DEF Idle, Works, Bindings
  <1>2. TypeInv
    BY <1>1 DEF Init, TypeInv, Bindings
  <1>3. BindInv
    BY <1>1 DEF Init, BindInv, Placed, IdleClean, Outermost, Entered, Viewing, InBackground, Surfaces
  <1>4. RowsInv
    BY <1>1 DEF Init, RowsInv
  <1> QED BY <1>2, <1>3, <1>4 DEF Inv

\* A bind pushes what was bound; a reset restores a token and drops those above it.
LEMMA BindType ==
  ASSUME TypeInv, NEW t \in Threads, NEW v \in Bindings, Bind(t, v)
  PROVE  /\ bound' \in [Threads -> Bindings] /\ saved' \in [Threads -> Seq(Bindings)]
         /\ bound'[t] = v /\ saved'[t] # <<>> /\ saved'[t][1] = bound[t]
         /\ Len(saved'[t]) = Len(saved[t]) + 1
         /\ saved'[t][Len(saved'[t])] = IF saved[t] = <<>> THEN bound[t] ELSE saved[t][Len(saved[t])]
         /\ \A u \in Threads \ {t} : bound'[u] = bound[u] /\ saved'[u] = saved[u]
  <1>1. saved[t] \in Seq(Bindings) /\ bound[t] \in Bindings
    BY DEF TypeInv
  <1>2. /\ <<bound[t]>> \o saved[t] \in Seq(Bindings) /\ <<bound[t]>> \o saved[t] # <<>>
        /\ Len(<<bound[t]>> \o saved[t]) = Len(saved[t]) + 1
        /\ (<<bound[t]>> \o saved[t])[1] = bound[t]
        /\ saved[t] # <<>> =>
             (<<bound[t]>> \o saved[t])[Len(<<bound[t]>> \o saved[t])] = saved[t][Len(saved[t])]
    BY <1>1, Push
  <1>3. saved[t] = <<>> => Len(<<bound[t]>> \o saved[t]) = 1
    BY <1>1
  <1>4. saved'[t] = <<bound[t]>> \o saved[t]
    BY DEF Bind, TypeInv
  <1> QED BY <1>1, <1>2, <1>3, <1>4 DEF Bind, TypeInv

LEMMA ResetType ==
  ASSUME TypeInv, NEW t \in Threads, NEW d \in 1..Len(saved[t]), Reset(t, d)
  PROVE  /\ bound' \in [Threads -> Bindings] /\ saved' \in [Threads -> Seq(Bindings)]
         /\ bound'[t] = saved[t][d] /\ Len(saved'[t]) = Len(saved[t]) - d
         /\ d = Len(saved[t]) => saved'[t] = <<>>
         /\ d < Len(saved[t]) => saved'[t] # <<>> /\ saved'[t][Len(saved'[t])] = saved[t][Len(saved[t])]
         /\ \A u \in Threads \ {t} : bound'[u] = bound[u] /\ saved'[u] = saved[u]
  <1>1. saved[t] \in Seq(Bindings)
    BY DEF TypeInv
  <1>2. saved'[t] = SubSeq(saved[t], d + 1, Len(saved[t]))
    BY DEF Reset, TypeInv
  <1>3. /\ SubSeq(saved[t], d + 1, Len(saved[t])) \in Seq(Bindings) /\ saved[t][d] \in Bindings
        /\ Len(SubSeq(saved[t], d + 1, Len(saved[t]))) = Len(saved[t]) - d
        /\ d < Len(saved[t]) =>
             /\ SubSeq(saved[t], d + 1, Len(saved[t])) # <<>>
             /\ SubSeq(saved[t], d + 1, Len(saved[t]))[Len(saved[t]) - d] = saved[t][Len(saved[t])]
        /\ d = Len(saved[t]) => SubSeq(saved[t], d + 1, Len(saved[t])) = <<>>
    BY <1>1, Drop
  <1>4. /\ saved' = [saved EXCEPT ![t] = saved'[t]] /\ bound' = [bound EXCEPT ![t] = saved[t][d]]
    BY <1>2 DEF Reset, TypeInv
  <1>5. saved'[t] \in Seq(Bindings)
    BY <1>2, <1>3
  <1>6. saved' \in [Threads -> Seq(Bindings)] /\ bound' \in [Threads -> Bindings]
    BY <1>3, <1>4, <1>5 DEF TypeInv
  <1> QED BY <1>2, <1>3, <1>4, <1>6 DEF TypeInv

\* Step changes where a thread is and forgets its last answer.
LEMMA StepType ==
  ASSUME TypeInv, NEW t \in Threads, NEW step \in {"auth", "view", "leave"}, Step(t, step)
  PROVE  /\ work' \in [Threads -> Works] /\ work'[t].step = step /\ work'[t].surface = work[t].surface
         /\ work'[t].user = work[t].user /\ work'[t].got = {} /\ work'[t].made = {}
         /\ \A u \in Threads \ {t} : work'[u] = work[u]
  <1>1. /\ work' = [work EXCEPT ![t] = [work[t] EXCEPT !.step = step, !.got = {}, !.made = {}]]
        /\ work \in [Threads -> Works] /\ work[t] \in Works
    BY DEF Step, TypeInv
  <1>2. \A u \in Threads \ {t} : work'[u] = work[u]
    BY <1>1
  <1>3. work'[t] = [work[t] EXCEPT !.step = step, !.got = {}, !.made = {}]
    BY <1>1
  <1>4. /\ work'[t] \in Works /\ work'[t].step = step /\ work'[t].surface = work[t].surface
        /\ work'[t].user = work[t].user /\ work'[t].got = {} /\ work'[t].made = {}
    BY <1>1, <1>3 DEF Works
  <1>5. work' \in [Threads -> Works]
    BY <1>1, <1>4
  <1> QED BY <1>2, <1>4, <1>5

\* A thread's steps touch its own binding only.
LEMMA OthersPlaced ==
  ASSUME BindInv, NEW t \in Threads, Placed(t)',
         \A u \in Threads \ {t} : bound'[u] = bound[u] /\ saved'[u] = saved[u] /\ work'[u] = work[u]
  PROVE  BindInv'
  <1> SUFFICES ASSUME NEW u \in Threads \ {t} PROVE Placed(u)'
    BY DEF BindInv
  <1>1. Placed(u) /\ bound'[u] = bound[u] /\ saved'[u] = saved[u] /\ work'[u] = work[u]
    BY DEF BindInv
  <1> QED BY <1>1 DEF Placed, IdleClean, Outermost, Entered, Viewing, InBackground, Surfaces

LEMMA StepTypeBind ==
  ASSUME Setting, Inv, NEW t \in Threads, Serve(t)
  PROVE  TypeInv' /\ BindInv'
  <1>i. TypeInv /\ BindInv /\ Middleware /\ work[t] \in Works /\ bound[t] \in Bindings /\ saved[t] \in Seq(Bindings)
    BY DEF Inv, Setting, TypeInv
  <1>b. IdleClean(t) /\ Outermost(t) /\ Entered(t) /\ Viewing(t) /\ InBackground(t) /\ Surfaces(t)
    BY <1>i DEF BindInv, Placed
  <1>e. /\ Idle \in Works /\ Idle.step = "idle" /\ Idle.surface = "none" /\ Idle.user = Unset
        /\ Idle.got = {} /\ Idle.made = {}
    BY DEF Idle, Works, Bindings
  <1>1. CASE Arrive(t)
    <2>1. PICK surface \in Requests, user \in Bindings \ {Unset}, session \in BOOLEAN :
            /\ surface = "admin" => session
            /\ work' = [work EXCEPT ![t] = [Idle EXCEPT !.step = "auth", !.surface = surface, !.user = user]]
            /\ Bind(t, IF session THEN user ELSE NoTenant)
      BY <1>1, <1>i DEF Arrive, Requests
    <2>2. (IF session THEN user ELSE NoTenant) \in Bindings
      BY DEF Bindings
    <2>3. saved[t] = <<>> /\ bound[t] = Unset
      BY <1>1, <1>b, <1>e DEF Arrive, IdleClean
    <2>r. /\ bound' \in [Threads -> Bindings] /\ saved' \in [Threads -> Seq(Bindings)]
          /\ bound'[t] = (IF session THEN user ELSE NoTenant) /\ saved'[t] # <<>> /\ saved'[t][1] = bound[t]
          /\ Len(saved'[t]) = Len(saved[t]) + 1
          /\ saved'[t][Len(saved'[t])] = IF saved[t] = <<>> THEN bound[t] ELSE saved[t][Len(saved[t])]
          /\ \A u \in Threads \ {t} : bound'[u] = bound[u] /\ saved'[u] = saved[u]
      BY <1>i, <2>1, <2>2, BindType
    <2>w. work'[t] \in Works /\ work'[t].step = "auth" /\ work'[t].surface = surface /\ work'[t].user = user
          /\ work' \in [Threads -> Works] /\ \A u \in Threads \ {t} : work'[u] = work[u]
      BY <2>1, <1>i, <1>e DEF TypeInv, Works, Requests
    <2>4. TypeInv'
      BY <1>1, <1>i, <2>r, <2>w DEF Arrive, TypeInv
    <2>5. Placed(t)'
      BY <2>1, <2>3, <2>r, <2>w DEF Placed, IdleClean, Outermost, Entered, Viewing, InBackground, Surfaces, Requests
    <2> QED BY <1>i, <2>4, <2>5, <2>r, <2>w, OthersPlaced
  <1>2. CASE Authenticate(t)
    <2>w. /\ work' \in [Threads -> Works] /\ work'[t].step = "view" /\ work'[t].surface = work[t].surface
          /\ work'[t].user = work[t].user /\ \A u \in Threads \ {t} : work'[u] = work[u]
      BY <1>2, <1>i, StepType DEF Authenticate
    <2>k. work[t].step = "auth" /\ TypeInv /\ UNCHANGED <<storage, tenant, jobs>>
      BY <1>2, <1>i DEF Authenticate
    <2>1. CASE work[t].surface = "admin"
      <3>1. UNCHANGED <<bound, saved>>
        BY <1>2, <2>1 DEF Authenticate, KeepBound
      <3>2. Placed(t)'
        BY <1>b, <2>1, <2>k, <2>w, <3>1 DEF Placed, IdleClean, Outermost, Entered, Viewing, InBackground, Surfaces, Requests
      <3>3. TypeInv'
        BY <2>k, <2>w, <3>1 DEF TypeInv
      <3> QED BY <1>i, <2>w, <3>1, <3>2, <3>3, OthersPlaced
    <2>2. CASE work[t].surface # "admin"
      <3>r. /\ bound' \in [Threads -> Bindings] /\ saved' \in [Threads -> Seq(Bindings)]
            /\ bound'[t] = work[t].user /\ saved'[t] # <<>> /\ saved'[t][1] = bound[t]
            /\ Len(saved'[t]) = Len(saved[t]) + 1
            /\ saved'[t][Len(saved'[t])] = IF saved[t] = <<>> THEN bound[t] ELSE saved[t][Len(saved[t])]
            /\ \A u \in Threads \ {t} : bound'[u] = bound[u] /\ saved'[u] = saved[u]
        BY <1>2, <1>i, <2>2, BindType DEF Authenticate, Works
      <3>2. Placed(t)'
        BY <1>i, <1>b, <2>2, <2>k, <2>w, <3>r DEF Placed, IdleClean, Outermost, Entered, Viewing, InBackground, Surfaces, Requests
      <3>3. TypeInv'
        BY <2>k, <2>w, <3>r DEF TypeInv
      <3> QED BY <1>i, <2>w, <3>r, <3>2, <3>3, OthersPlaced
    <2> QED BY <2>1, <2>2
  <1>3. CASE Unauthenticated(t)
    <2>w. /\ work' \in [Threads -> Works] /\ work'[t].step = "leave" /\ work'[t].surface = work[t].surface
          /\ work'[t].user = work[t].user /\ \A u \in Threads \ {t} : work'[u] = work[u]
      BY <1>3, <1>i, StepType DEF Unauthenticated
    <2>1. work[t].step = "auth" /\ UNCHANGED <<storage, tenant, jobs, bound, saved>>
      BY <1>3 DEF Unauthenticated
    <2>2. Placed(t)'
      BY <1>b, <2>1, <2>w DEF Placed, IdleClean, Outermost, Entered, Viewing, InBackground, Surfaces, Requests
    <2>3. TypeInv'
      BY <1>i, <2>1, <2>w DEF TypeInv
    <2> QED BY <1>i, <2>1, <2>2, <2>3, <2>w, OthersPlaced
  <1>4. CASE Finalize(t) \/ Unhandled(t)
    <2>w. /\ work' \in [Threads -> Works] /\ work'[t].step = "leave" /\ work'[t].surface = work[t].surface
          /\ work'[t].user = work[t].user /\ \A u \in Threads \ {t} : work'[u] = work[u]
      BY <1>4, <1>i, StepType DEF Finalize, Unhandled
    <2>k. /\ work[t].step = "view" /\ work[t].surface \in Requests /\ UNCHANGED <<storage, tenant, jobs>>
          /\ KeepBound \/ (Reset(t, 1) /\ work[t].surface # "admin")
      BY <1>4 DEF Finalize, Unhandled, Requests
    <2>1. CASE KeepBound
      <3>1. UNCHANGED <<bound, saved>>
        BY <2>1 DEF KeepBound
      <3>2. Placed(t)'
        BY <1>b, <2>k, <2>w, <3>1 DEF Placed, IdleClean, Outermost, Entered, Viewing, InBackground, Surfaces, Requests
      <3>3. TypeInv'
        BY <1>i, <2>k, <2>w, <3>1 DEF TypeInv
      <3> QED BY <1>i, <2>w, <3>1, <3>2, <3>3, OthersPlaced
    <2>2. CASE Reset(t, 1) /\ work[t].surface # "admin"
      <3>1. 1 \in 1..Len(saved[t]) /\ Len(saved[t]) >= 2
        BY <1>i, <1>b, <2>2, <2>k DEF Viewing, Requests
      <3>r. /\ bound' \in [Threads -> Bindings] /\ saved' \in [Threads -> Seq(Bindings)]
            /\ bound'[t] = saved[t][1] /\ Len(saved'[t]) = Len(saved[t]) - 1
            /\ 1 = Len(saved[t]) => saved'[t] = <<>>
            /\ 1 < Len(saved[t]) => saved'[t] # <<>> /\ saved'[t][Len(saved'[t])] = saved[t][Len(saved[t])]
            /\ \A u \in Threads \ {t} : bound'[u] = bound[u] /\ saved'[u] = saved[u]
        BY <1>i, <2>2, <3>1, ResetType
      <3>2. Placed(t)'
        BY <1>i, <1>b, <2>k, <2>w, <3>1, <3>r DEF Placed, IdleClean, Outermost, Entered, Viewing, InBackground, Surfaces, Requests
      <3>3. TypeInv'
        BY <1>i, <2>k, <2>w, <3>r DEF TypeInv
      <3> QED BY <1>i, <2>w, <3>r, <3>2, <3>3, OthersPlaced
    <2> QED BY <2>k, <2>1, <2>2
  <1>5. CASE Leave(t)
    <2>1. Len(saved[t]) \in 1..Len(saved[t]) /\ saved[t][Len(saved[t])] = Unset
      BY <1>5, <1>i, <1>b DEF Leave, Outermost
    <2>r. /\ bound' \in [Threads -> Bindings] /\ saved' \in [Threads -> Seq(Bindings)]
          /\ bound'[t] = saved[t][Len(saved[t])] /\ Len(saved'[t]) = Len(saved[t]) - Len(saved[t])
          /\ Len(saved[t]) = Len(saved[t]) => saved'[t] = <<>>
          /\ Len(saved[t]) < Len(saved[t]) => saved'[t] # <<>> /\ saved'[t][Len(saved'[t])] = saved[t][Len(saved[t])]
          /\ \A u \in Threads \ {t} : bound'[u] = bound[u] /\ saved'[u] = saved[u]
      BY <1>5, <1>i, <2>1, ResetType DEF Leave
    <2>w. work' \in [Threads -> Works] /\ work'[t] = Idle /\ \A u \in Threads \ {t} : work'[u] = work[u]
      BY <1>5, <1>i, <1>e DEF Leave, TypeInv
    <2>2. Placed(t)'
      BY <1>e, <2>1, <2>r, <2>w DEF Placed, IdleClean, Outermost, Entered, Viewing, InBackground, Surfaces, Requests
    <2>3. TypeInv'
      BY <1>5, <1>i, <2>r, <2>w DEF Leave, TypeInv
    <2> QED BY <1>i, <2>2, <2>3, <2>r, <2>w, OthersPlaced
  <1>6. CASE List(t) \/ (\E r \in Rows : Get(t, r))
    <2>1. PICK S \in SUBSET Rows : work' = [work EXCEPT ![t].got = S, ![t].made = {}]
      BY <1>6 DEF List, Get, Scoped, Fetched, NoFilterChained, Of, Existing
    <2>2. work[t].step = "view" /\ UNCHANGED <<storage, tenant, jobs, bound, saved>>
      BY <1>6 DEF List, Get, Doing
    <2>w. /\ work' \in [Threads -> Works] /\ work'[t].step = "view" /\ work'[t].surface = work[t].surface
          /\ work'[t].user = work[t].user /\ \A u \in Threads \ {t} : work'[u] = work[u]
      BY <1>i, <2>1, <2>2 DEF TypeInv, Works
    <2>3. Placed(t)'
      BY <1>b, <2>2, <2>w DEF Placed, IdleClean, Outermost, Entered, Viewing, InBackground, Surfaces, Requests
    <2>4. TypeInv'
      BY <1>i, <2>2, <2>w DEF TypeInv
    <2> QED BY <1>i, <2>2, <2>3, <2>4, <2>w, OthersPlaced
  <1>7. CASE \E r \in Rows : Create(t, r)
    <2>1. PICK r \in Rows, stamp \in Tenants :
            /\ work' = [work EXCEPT ![t].made = {r}, ![t].got = {}] /\ tenant' = [tenant EXCEPT ![r] = stamp]
      BY <1>7 DEF Create, Stamped
    <2>2. work[t].step = "view" /\ UNCHANGED <<storage, jobs, bound, saved>>
      BY <1>7 DEF Create, At
    <2>w. /\ work' \in [Threads -> Works] /\ work'[t].step = "view" /\ work'[t].surface = work[t].surface
          /\ work'[t].user = work[t].user /\ \A u \in Threads \ {t} : work'[u] = work[u]
      BY <1>i, <2>1, <2>2 DEF TypeInv, Works
    <2>3. Placed(t)'
      BY <1>b, <2>2, <2>w DEF Placed, IdleClean, Outermost, Entered, Viewing, InBackground, Surfaces, Requests
    <2>4. TypeInv'
      BY <1>i, <2>1, <2>2, <2>w DEF TypeInv
    <2> QED BY <1>i, <2>2, <2>3, <2>4, <2>w, OthersPlaced
  <1>8. CASE \E r \in Rows : Delete(t, r)
    <2>1. PICK r \in Rows :
            /\ work' = [u \in Threads |-> [work[u] EXCEPT !.got = @ \ {r}, !.made = @ \ {r}]]
            /\ tenant' = [tenant EXCEPT ![r] = NoRow] /\ UNCHANGED <<storage, jobs, bound, saved>>
      BY <1>8 DEF Delete
    <2>2. ASSUME NEW u \in Threads
          PROVE  /\ work'[u] \in Works /\ work'[u].step = work[u].step
                 /\ work'[u].surface = work[u].surface /\ work'[u].user = work[u].user
                 /\ work[u] = Idle => work'[u] = Idle
      <3>1. work[u] \in Works /\ work'[u] = [work[u] EXCEPT !.got = @ \ {r}, !.made = @ \ {r}]
        BY <1>i, <2>1 DEF TypeInv
      <3>2. ASSUME work[u] = Idle PROVE work'[u] = Idle
        <4>1. work[u].got \ {r} = {} /\ work[u].made \ {r} = {}
          BY <3>2 DEF Idle
        <4>2. work'[u] = [Idle EXCEPT !.got = {}, !.made = {}]
          BY <3>1, <3>2, <4>1
        <4> QED BY <4>2 DEF Idle
      <3> QED BY <3>1, <3>2 DEF Works
    <2>3. ASSUME NEW u \in Threads PROVE Placed(u)'
      <3>1. Placed(u) /\ bound'[u] = bound[u] /\ saved'[u] = saved[u]
        BY <1>i, <2>1 DEF BindInv
      <3>2. /\ work'[u].step = work[u].step /\ work'[u].surface = work[u].surface
            /\ work'[u].user = work[u].user /\ (work[u] = Idle => work'[u] = Idle)
        BY <2>2
      <3> QED BY <3>1, <3>2 DEF Placed, IdleClean, Outermost, Entered, Viewing, InBackground, Surfaces
    <2>4. TypeInv'
      <3>1. work' \in [Threads -> Works]
        BY <2>1, <2>2
      <3> QED BY <1>i, <2>1, <3>1 DEF TypeInv
    <2> QED BY <2>3, <2>4 DEF BindInv
  <1>9. CASE RequestExport(t)
    <2>1. jobs' = Append(jobs, bound[t]) /\ bound[t] \in Tenants /\ UNCHANGED <<storage, tenant, bound, saved, work>>
      BY <1>9 DEF RequestExport
    <2>2. TypeInv'
      BY <1>i, <2>1 DEF TypeInv
    <2>3. BindInv'
      BY <1>i, <2>1 DEF BindInv, Placed, IdleClean, Outermost, Entered, Viewing, InBackground, Surfaces, Requests
    <2> QED BY <2>2, <2>3
  <1>10. CASE StartExport(t)
    <2>1. Head(jobs) \in Tenants /\ Tail(jobs) \in Seq(Tenants) /\ work[t] = Idle /\ jobs' = Tail(jobs)
          /\ Head(jobs) \in Bindings /\ UNCHANGED <<storage, tenant>>
      BY <1>10, <1>i DEF StartExport, TypeInv, Bindings
    <2>2. saved[t] = <<>> /\ bound[t] = Unset /\ Len(saved[t]) = 0
      BY <1>b, <1>e, <2>1 DEF IdleClean
    <2>r. /\ bound' \in [Threads -> Bindings] /\ saved' \in [Threads -> Seq(Bindings)]
          /\ bound'[t] = Head(jobs) /\ saved'[t] # <<>> /\ saved'[t][1] = bound[t]
          /\ Len(saved'[t]) = Len(saved[t]) + 1
          /\ saved'[t][Len(saved'[t])] = IF saved[t] = <<>> THEN bound[t] ELSE saved[t][Len(saved[t])]
          /\ \A u \in Threads \ {t} : bound'[u] = bound[u] /\ saved'[u] = saved[u]
      BY <1>10, <1>i, <2>1, BindType DEF StartExport
    <2>w. work'[t] \in Works /\ work'[t].step = "view" /\ work'[t].surface = "job" /\ work'[t].user = Head(jobs)
          /\ work' \in [Threads -> Works] /\ \A u \in Threads \ {t} : work'[u] = work[u]
      BY <1>10, <1>i, <1>e, <2>1 DEF StartExport, TypeInv, Works
    <2>3. Placed(t)'
      BY <2>1, <2>2, <2>r, <2>w DEF Placed, IdleClean, Outermost, Entered, Viewing, InBackground, Surfaces, Requests
    <2>4. TypeInv'
      BY <1>i, <2>1, <2>r, <2>w DEF TypeInv
    <2> QED BY <1>i, <2>3, <2>4, <2>r, <2>w, OthersPlaced
  <1>11. CASE EnterBackground(t)
    <2>1. /\ AllTenants \in Bindings /\ Bind(t, AllTenants) /\ UNCHANGED <<storage, tenant, jobs>>
          /\ work[t] = Idle \/ (work[t].step = "view" /\ work[t].surface \in {"admin", "rest"})
      BY <1>11 DEF EnterBackground, Bindings, At
    <2>r. /\ bound' \in [Threads -> Bindings] /\ saved' \in [Threads -> Seq(Bindings)]
          /\ bound'[t] = AllTenants /\ saved'[t] # <<>> /\ saved'[t][1] = bound[t]
          /\ Len(saved'[t]) = Len(saved[t]) + 1
          /\ saved'[t][Len(saved'[t])] = IF saved[t] = <<>> THEN bound[t] ELSE saved[t][Len(saved[t])]
          /\ \A u \in Threads \ {t} : bound'[u] = bound[u] /\ saved'[u] = saved[u]
      BY <1>i, <2>1, BindType
    <2>w. work'[t] \in Works /\ work'[t].step = "background" /\ work'[t].user = work[t].user
          /\ work'[t].surface = (IF work[t].surface = "none" THEN "sweep" ELSE work[t].surface)
          /\ work' \in [Threads -> Works] /\ \A u \in Threads \ {t} : work'[u] = work[u]
      BY <1>11, <1>i DEF EnterBackground, TypeInv, Works
    <2>3. ASSUME work[t] = Idle PROVE Placed(t)'
      <3>1. saved[t] = <<>> /\ bound[t] = Unset /\ Len(saved[t]) = 0
        BY <1>b, <1>e, <2>3 DEF IdleClean
      <3> QED BY <1>e, <2>3, <3>1, <2>r, <2>w DEF Placed, IdleClean, Outermost, Entered, Viewing, InBackground, Surfaces, Requests
    <2>4. ASSUME work[t].step = "view" /\ work[t].surface \in {"admin", "rest"}
          PROVE  Placed(t)'
      BY <1>i, <1>b, <2>4, <2>r, <2>w DEF Placed, IdleClean, Outermost, Entered, Viewing, InBackground, Surfaces, Requests
    <2>5. TypeInv'
      BY <1>i, <2>1, <2>r, <2>w DEF TypeInv
    <2> QED BY <1>i, <2>1, <2>3, <2>4, <2>5, <2>r, <2>w, OthersPlaced
  <1>12. CASE LeaveBackground(t) \/ EndExport(t)
    <2>1. 1 \in 1..Len(saved[t]) /\ Reset(t, 1) /\ UNCHANGED <<storage, tenant, jobs>>
          /\ saved[t][Len(saved[t])] = Unset
      BY <1>12, <1>i, <1>b DEF LeaveBackground, EndExport, At, Outermost
    <2>r. /\ bound' \in [Threads -> Bindings] /\ saved' \in [Threads -> Seq(Bindings)]
          /\ bound'[t] = saved[t][1] /\ Len(saved'[t]) = Len(saved[t]) - 1
          /\ 1 = Len(saved[t]) => saved'[t] = <<>>
          /\ 1 < Len(saved[t]) => saved'[t] # <<>> /\ saved'[t][Len(saved'[t])] = saved[t][Len(saved[t])]
          /\ \A u \in Threads \ {t} : bound'[u] = bound[u] /\ saved'[u] = saved[u]
      BY <1>i, <2>1, ResetType
    <2>2. CASE work[t].step = "background" /\ work[t].surface # "sweep"
      <3>w. /\ work' \in [Threads -> Works] /\ work'[t].step = "view" /\ work'[t].surface = work[t].surface
            /\ work'[t].user = work[t].user /\ \A u \in Threads \ {t} : work'[u] = work[u]
        BY <1>12, <1>i, <2>2, StepType DEF LeaveBackground, EndExport, At
      <3>2. Placed(t)'
        BY <1>i, <1>b, <2>1, <2>2, <2>r, <3>w DEF Placed, IdleClean, Outermost, Entered, Viewing, InBackground, Surfaces, Requests
      <3>3. TypeInv'
        BY <1>i, <2>1, <2>r, <3>w DEF TypeInv
      <3> QED BY <1>i, <2>r, <3>w, <3>2, <3>3, OthersPlaced
    <2>3. CASE ~(work[t].step = "background" /\ work[t].surface # "sweep")
      <3>1. Len(saved[t]) = 1
        BY <1>12, <1>b, <2>3 DEF LeaveBackground, EndExport, At, InBackground, Surfaces
      <3>w. work' \in [Threads -> Works] /\ work'[t] = Idle /\ \A u \in Threads \ {t} : work'[u] = work[u]
        BY <1>12, <1>i, <1>e, <2>3 DEF LeaveBackground, EndExport, At, TypeInv
      <3>2. Placed(t)'
        BY <1>e, <2>1, <2>r, <3>1, <3>w DEF Placed, IdleClean, Outermost, Entered, Viewing, InBackground, Surfaces, Requests
      <3>3. TypeInv'
        BY <1>i, <2>1, <2>r, <3>w DEF TypeInv
      <3> QED BY <1>i, <2>r, <3>w, <3>2, <3>3, OthersPlaced
    <2> QED BY <2>2, <2>3
  <1> QED
    BY <1>1, <1>2, <1>3, <1>4, <1>5, <1>6, <1>7, <1>8, <1>9, <1>10, <1>11, <1>12 DEF Serve

\* A query under a tenant returns that tenant's rows; under none, no rows.
LEMMA ScopedRows ==
  ASSUME Setting, TypeInv, NEW v \in Bindings \ {AllTenants}
  PROVE  /\ Scoped(v) \subseteq Of(v) \ Of(NoTenant)
         /\ \A t \in Threads, r \in Rows : bound[t] = v => Fetched(t, r) \subseteq Of(v) \ Of(NoTenant)
  BY TenantAssumption DEF Setting, TypeInv, Scoped, Fetched, NoFilterChained, Of, Existing, Bindings

\* A create stamps the tenant it is bound to, or refuses.
LEMMA StampedTenant ==
  ASSUME NEW v \in Bindings, NEW named \in Tenants \cup {NoTenant}, Stamped(v, named) # NoTenant
  PROVE  Stamped(v, named) \in Tenants /\ (v # AllTenants => Stamped(v, named) = v)
  BY DEF Stamped

Served(t) ==
  /\ work[t].user # AllTenants => work[t].got \cup work[t].made \subseteq Of(work[t].user) \ Of(NoTenant)
  /\ \A r \in work[t].made : tenant[r] \in Tenants

LEMMA StepRows ==
  ASSUME Setting, Inv, NEW t \in Threads, Serve(t)
  PROVE  RowsInv'
  <1>i. TypeInv /\ BindInv /\ RowsInv /\ work[t] \in Works
    BY DEF Inv, TypeInv
  <1>b. work[t].step = "view" => bound[t] = work[t].user
    BY <1>i DEF BindInv, Placed, Viewing
  <1>s. \A u \in Threads : Served(u)
    BY <1>i DEF RowsInv, Served
  <1>q. (\A u \in Threads : Served(u)') => RowsInv'
    BY DEF RowsInv, Served
  <1>1. CASE List(t) \/ (\E r \in Rows : Get(t, r))
    <2>1. PICK S \in SUBSET Rows :
            /\ work' = [work EXCEPT ![t].got = S, ![t].made = {}]
            /\ bound[t] # AllTenants => S \subseteq Of(bound[t]) \ Of(NoTenant)
      <3>1. ASSUME List(t)
            PROVE  \E S \in SUBSET Rows :
                     /\ work' = [work EXCEPT ![t].got = S, ![t].made = {}]
                     /\ bound[t] # AllTenants => S \subseteq Of(bound[t]) \ Of(NoTenant)
        <4>1. bound[t] # AllTenants => Scoped(bound[t]) \subseteq Of(bound[t]) \ Of(NoTenant)
          BY <1>i, ScopedRows DEF TypeInv
        <4>2. Scoped(bound[t]) \in SUBSET Rows
          BY DEF Scoped, Of, Existing
        <4> QED BY <3>1, <4>1, <4>2 DEF List
      <3>2. ASSUME NEW r \in Rows, Get(t, r)
            PROVE  \E S \in SUBSET Rows :
                     /\ work' = [work EXCEPT ![t].got = S, ![t].made = {}]
                     /\ bound[t] # AllTenants => S \subseteq Of(bound[t]) \ Of(NoTenant)
        <4>1. bound[t] # AllTenants => Fetched(t, r) \subseteq Of(bound[t]) \ Of(NoTenant)
          BY <1>i, ScopedRows DEF TypeInv
        <4>2. Fetched(t, r) \in SUBSET Rows
          BY DEF Fetched, NoFilterChained, Scoped, Of, Existing
        <4> QED BY <3>2, <4>1, <4>2 DEF Get
      <3> QED BY <1>1, <3>1, <3>2
    <2>2. work[t].step = "view" /\ UNCHANGED tenant
      BY <1>1 DEF List, Get, Doing
    <2>3. /\ work'[t].user = work[t].user /\ work'[t].got = S /\ work'[t].made = {}
          /\ \A u \in Threads \ {t} : work'[u] = work[u]
      <3>1. work' = [work EXCEPT ![t].got = S, ![t].made = {}]
        BY <2>1
      <3> QED BY <1>i, <3>1 DEF TypeInv, Works
    <2>4. Served(t)'
      <3>1. bound[t] # AllTenants => S \subseteq Of(bound[t]) \ Of(NoTenant)
        BY <2>1
      <3>2. \A v \in Bindings : Of(v)' = Of(v)
        BY <2>2 DEF Of, Existing
      <3>3. bound[t] = work[t].user /\ bound[t] \in Bindings /\ NoTenant \in Bindings
        BY <1>b, <1>i, <2>2 DEF TypeInv, Bindings
      <3> QED BY <2>3, <3>1, <3>2, <3>3 DEF Served
    <2>5. ASSUME NEW u \in Threads \ {t} PROVE Served(u)'
      <3>1. Served(u) /\ work'[u] = work[u]
        BY <1>s, <2>3
      <3> QED BY <2>2, <3>1 DEF Served, Of, Existing
    <2> QED BY <1>q, <2>4, <2>5
  <1>2. CASE \E r \in Rows : Create(t, r)
    <2>1. PICK r \in Rows, named \in Tenants \cup {NoTenant} :
            /\ Stamped(bound[t], named) # NoTenant
            /\ tenant' = [tenant EXCEPT ![r] = Stamped(bound[t], named)]
            /\ work' = [work EXCEPT ![t].made = {r}, ![t].got = {}]
            /\ tenant[r] = NoRow /\ work[t].step = "view"
      BY <1>2 DEF Create, At
    <2>2. /\ Stamped(bound[t], named) \in Tenants /\ bound[t] \in Bindings
          /\ bound[t] # AllTenants => Stamped(bound[t], named) = bound[t]
      BY <1>i, <2>1, StampedTenant DEF TypeInv
    <2>3. /\ work'[t].user = work[t].user /\ work'[t].got = {} /\ work'[t].made = {r}
          /\ \A u \in Threads \ {t} : work'[u] = work[u]
      BY <1>i, <2>1 DEF TypeInv, Works
    <2>4. tenant'[r] \in Tenants /\ (\A q \in Rows \ {r} : tenant'[q] = tenant[q]) /\ NoTenant \notin Tenants /\ NoRow \notin Tenants
      BY <1>i, <2>1, <2>2, TenantAssumption DEF TypeInv, Setting
    <2>5. Served(t)'
      <3>1. work[t].user # AllTenants => tenant'[r] = work[t].user
        BY <1>b, <1>i, <2>1, <2>2 DEF TypeInv
      <3>2. tenant'[r] # NoRow /\ tenant'[r] # NoTenant /\ tenant'[r] \in Tenants
        BY <2>4
      <3> QED BY <2>3, <3>1, <3>2 DEF Served, Of, Existing
    <2>6. ASSUME NEW u \in Threads \ {t} PROVE Served(u)'
      <3>1. Served(u) /\ work'[u] = work[u] /\ work[u] \in Works
        BY <1>i, <1>s, <2>3 DEF TypeInv
      <3>2. r \notin Existing /\ Existing \subseteq Existing'
        BY <2>1, <2>4 DEF Existing
      <3>3. \A v \in Bindings : Of(v) \subseteq Of(v)' /\ Of(v)' \subseteq Of(v) \cup {r}
        BY <2>4, <3>2 DEF Of, Existing
      <3>4. /\ work'[u].user = work[u].user /\ work'[u].got = work[u].got /\ work'[u].made = work[u].made
            /\ work[u].made \subseteq Rows /\ work[u].user \in Bindings
        BY <3>1 DEF Works
      <3> QED BY <2>4, <3>1, <3>2, <3>3, <3>4 DEF Served, Of, Existing
    <2> QED BY <1>q, <2>5, <2>6
  <1>3. CASE \E r \in Rows : Delete(t, r)
    <2>1. PICK r \in Rows :
            /\ work' = [u \in Threads |-> [work[u] EXCEPT !.got = @ \ {r}, !.made = @ \ {r}]]
            /\ tenant' = [tenant EXCEPT ![r] = NoRow]
      BY <1>3 DEF Delete
    <2>2. ASSUME NEW u \in Threads PROVE Served(u)'
      <3>1. Served(u) /\ work[u] \in Works /\ work'[u] = [work[u] EXCEPT !.got = @ \ {r}, !.made = @ \ {r}]
        BY <1>i, <1>s, <2>1 DEF TypeInv
      <3>2. work'[u].user = work[u].user /\ work'[u].got = work[u].got \ {r} /\ work'[u].made = work[u].made \ {r}
        BY <3>1 DEF Works
      <3>3. \A q \in Rows \ {r} : tenant'[q] = tenant[q]
        BY <1>i, <2>1 DEF TypeInv
      <3>4. work[u].made \subseteq Rows
        BY <3>1 DEF Works
      <3> QED BY <3>1, <3>2, <3>3, <3>4 DEF Served, Of, Existing
    <2> QED BY <1>q, <2>2
  <1>4. CASE RequestExport(t)
    BY <1>4, <1>i DEF RequestExport, RowsInv, Of, Existing
  <1>5. ASSUME tenant' = tenant, \A u \in Threads \ {t} : work'[u] = work[u],
               work'[t].got = {}, work'[t].made = {}
        PROVE  RowsInv'
    BY <1>q, <1>s, <1>5 DEF Served, Of, Existing
  <1>6. CASE \/ Arrive(t) \/ Authenticate(t) \/ Unauthenticated(t) \/ Finalize(t) \/ Unhandled(t) \/ Leave(t)
             \/ StartExport(t) \/ EnterBackground(t) \/ LeaveBackground(t) \/ EndExport(t)
    <2>1. tenant' = tenant
      BY <1>6 DEF Arrive, Authenticate, Unauthenticated, Finalize, Unhandled, Leave, StartExport,
                  EnterBackground, LeaveBackground, EndExport
    <2>2. \A u \in Threads \ {t} : work'[u] = work[u]
      BY <1>6, <1>i DEF TypeInv, Arrive, Authenticate, Unauthenticated, Finalize, Unhandled, Leave, StartExport,
                       EnterBackground, LeaveBackground, EndExport, Step
    <2>3. work'[t].got = {} /\ work'[t].made = {}
      <3>1. Idle \in Works /\ Idle.got = {} /\ Idle.made = {}
        BY DEF Idle, Works, Bindings
      <3>2. CASE Arrive(t) \/ StartExport(t)
        <4>1. PICK step, surface, user :
                work' = [work EXCEPT ![t] = [Idle EXCEPT !.step = step, !.surface = surface, !.user = user]]
          BY <3>2 DEF Arrive, StartExport
        <4> QED BY <4>1, <1>i DEF TypeInv, Idle
      <3>3. ASSUME NEW step, Step(t, step) PROVE work'[t].got = {} /\ work'[t].made = {}
        BY <3>3, <1>i DEF Step, TypeInv, Works
      <3>4. CASE Authenticate(t) \/ Unauthenticated(t) \/ Finalize(t) \/ Unhandled(t)
        BY <3>3, <3>4 DEF Authenticate, Unauthenticated, Finalize, Unhandled
      <3>5. CASE Leave(t) \/ EndExport(t)
        BY <3>1, <3>5, <1>i DEF TypeInv, Leave, EndExport
      <3>6. CASE EnterBackground(t)
        BY <3>6, <1>i DEF EnterBackground, TypeInv, Works
      <3>7. CASE LeaveBackground(t)
        BY <3>1, <3>3, <3>7, <1>i DEF LeaveBackground, TypeInv
      <3> QED BY <1>6, <3>2, <3>4, <3>5, <3>6, <3>7
    <2> QED BY <1>5, <2>1, <2>2, <2>3
  <1> QED BY <1>1, <1>2, <1>3, <1>4, <1>6 DEF Serve

LEMMA Invariance == ASSUME Setting PROVE Spec => []Inv
  <1>1. Init => Inv
    BY InitInv
  <1>2. Inv /\ [Next]_vars => Inv'
    <2> SUFFICES ASSUME Inv, [Next]_vars PROVE Inv'
      OBVIOUS
    <2>1. ASSUME NEW t \in Threads, Serve(t) PROVE Inv'
      BY <2>1, StepTypeBind, StepRows DEF Inv
    <2>2. CASE UNCHANGED vars
      BY <2>2 DEF vars, Inv, TypeInv, BindInv, Placed, IdleClean, Outermost, Entered, Viewing,
                  InBackground, Surfaces, RowsInv, Of, Existing
    <2> QED BY <2>1, <2>2 DEF Next
  <1> QED BY <1>1, <1>2, PTL DEF Spec

-----------------------------------------------------------------------------
(* The theorems.                                                           *)

\* Every reachable state has its type, for any threads, tenants and rows: a reset
\* always finds its token.
THEOREM TypeCorrect == ASSUME Setting PROVE Spec => []TypeOK
  <1>1. Inv => TypeOK
    BY DEF Inv, TypeInv, TypeOK, Works
  <1> QED BY <1>1, Invariance, PTL

\* However requests, jobs and background blocks follow one another on however
\* many threads, and however they end, each sees and makes rows of its tenant
\* alone, and a thread between two pieces of work is bound to nothing.
THEOREM TenantKeptHolds == ASSUME Setting PROVE Spec => []TenantKept
  <1>1. Inv => TenantKept
    <2> SUFFICES ASSUME Inv, NEW t \in Threads
                 PROVE  Served(t) /\ (work[t] = Idle => bound[t] = Unset)
      BY DEF TenantKept, Served
    <2>1. Served(t) /\ IdleClean(t)
      BY DEF Inv, RowsInv, Served, BindInv, Placed
    <2> QED BY <2>1 DEF IdleClean, Idle
  <1> QED BY <1>1, Invariance, PTL

-----------------------------------------------------------------------------
(* Quotas: counters of several callers on a cache that forgets.            *)

CallerState == [step : Steps, key : CounterKeys, late : BOOLEAN]

QuotaTypes ==
  /\ counter \in [CounterKeys -> Int] /\ passed \in [CounterKeys -> Int]
  /\ caller \in [Callers -> CallerState]
  /\ stolen \in Nat /\ forgotten \in SUBSET Callers

\* A window's counter has counted every call the window let through.
WindowTrue(k) ==
  /\ counter[k] = Absent => passed[k] = 0
  /\ counter[k] # Absent => 0 <= counter[k] /\ passed[k] <= counter[k]
  /\ passed[k] <= Limit

\* The living counter has counted every reservation but the forgotten ones, and
\* what those have taken from it is known and bounded.
SlotTrue ==
  /\ counter[Slot] = Absent => Counted \subseteq forgotten
  /\ counter[Slot] # Absent => Cardinality(Counted \ forgotten) <= counter[Slot] + stolen
  /\ Cardinality(Holders \ forgotten) <= Concurrency + stolen
  /\ stolen + Cardinality(forgotten) <= Cardinality(Callers)

QuotaInv == QuotaTypes /\ (\A k \in 1..Windows : WindowTrue(k)) /\ SlotTrue

LEMMA CallersFinite ==
  /\ \A S \in SUBSET Callers : IsFiniteSet(S) /\ Cardinality(S) \in Nat
  /\ \A S \in SUBSET Callers : \A T \in SUBSET S : Cardinality(T) <= Cardinality(S)
  /\ Absent \in Int /\ Absent < 0 - Cardinality(Callers) /\ Cardinality(Callers) \in Nat
<1>1. IsFiniteSet(Callers)
  BY QuotasAssumption
<1>2. Cardinality(Callers) \in Nat
  BY <1>1, FS_CardinalityType
<1> QED BY <1>1, <1>2, FS_Subset, FS_CardinalityType DEF Absent

LEMMA OneAdded ==
  ASSUME NEW S \in SUBSET Callers, NEW T \in SUBSET Callers, NEW c \in Callers, T \subseteq S \cup {c}
  PROVE  Cardinality(T) <= Cardinality(S) + 1
<1>1. IsFiniteSet(S) /\ Cardinality(S) \in Nat
  BY CallersFinite
<1>2. S \cup {c} \in SUBSET Callers
  OBVIOUS
<1>3. Cardinality(S \cup {c}) <= Cardinality(S) + 1
  BY <1>1, FS_AddElement
<1>4. Cardinality(T) <= Cardinality(S \cup {c}) /\ Cardinality(T) \in Nat /\ Cardinality(S \cup {c}) \in Nat
  BY <1>2, CallersFinite
<1> QED BY <1>1, <1>3, <1>4

LEMMA OneRemoved ==
  ASSUME NEW S \in SUBSET Callers, NEW c \in S
  PROVE  Cardinality(S \ {c}) = Cardinality(S) - 1
BY CallersFinite, FS_RemoveElement

LEMMA KeysRange ==
  /\ Slot \in CounterKeys /\ First \in CounterKeys /\ (\A k \in CounterKeys : After(k) \in CounterKeys) /\ (\A k \in 1..Windows : k \in CounterKeys /\ k # Slot)
  /\ (\A k \in CounterKeys : k # Slot => k \in 1..Windows) /\ Limit \in Nat /\ Concurrency \in Nat /\ Concurrency >= 1
BY QuotasAssumption DEF Slot, CounterKeys, First, After

LEMMA IdleType == IdleCaller \in CallerState /\ IdleCaller.step = "idle"
BY KeysRange DEF IdleCaller, CallerState, Steps

\* A step that counts nobody anew and leaves the concurrency counter alone.
LEMMA SlotKept ==
  ASSUME QuotaInv, Counted' \subseteq Counted, Holders' \subseteq Holders, forgotten' \subseteq forgotten,
         Counted' \cap forgotten \subseteq forgotten', counter'[Slot] = counter[Slot], stolen' = stolen
  PROVE  SlotTrue'
<1>1. forgotten \in SUBSET Callers /\ Counted \in SUBSET Callers /\ Holders \in SUBSET Callers
  BY DEF QuotaInv, QuotaTypes, Counted, Holders, RefusedCallers
<1>2. Counted' \ forgotten' \subseteq Counted \ forgotten /\ Holders' \ forgotten' \subseteq Holders \ forgotten
  BY DEF Counted, Holders, RefusedCallers
<1>3. /\ Counted \ forgotten \in SUBSET Callers /\ Holders \ forgotten \in SUBSET Callers
      /\ Counted' \ forgotten' \in SUBSET Callers /\ Holders' \ forgotten' \in SUBSET Callers
      /\ forgotten' \in SUBSET Callers
  BY <1>1, <1>2
<1>4. /\ Cardinality(Counted' \ forgotten') <= Cardinality(Counted \ forgotten)
      /\ Cardinality(Holders' \ forgotten') <= Cardinality(Holders \ forgotten)
      /\ Cardinality(forgotten') <= Cardinality(forgotten)
  BY <1>1, <1>2, <1>3, CallersFinite
<1>5. /\ Cardinality(Counted' \ forgotten') \in Nat /\ Cardinality(Counted \ forgotten) \in Nat
      /\ Cardinality(Holders' \ forgotten') \in Nat /\ Cardinality(Holders \ forgotten) \in Nat
      /\ Cardinality(forgotten') \in Nat /\ Cardinality(forgotten) \in Nat
  BY <1>1, <1>3, CallersFinite
<1>6. counter[Slot] \in Int /\ stolen \in Nat /\ Concurrency \in Nat /\ Cardinality(Callers) \in Nat
  BY KeysRange, CallersFinite DEF QuotaInv, QuotaTypes
<1>7. counter[Slot] = Absent => Counted' \subseteq forgotten'
  BY DEF QuotaInv, SlotTrue
<1>8. counter[Slot] # Absent => Cardinality(Counted \ forgotten) <= counter[Slot] + stolen
  BY DEF QuotaInv, SlotTrue
<1>9. /\ Cardinality(Holders \ forgotten) <= Concurrency + stolen
      /\ stolen + Cardinality(forgotten) <= Cardinality(Callers)
  BY DEF QuotaInv, SlotTrue
<1>10. counter'[Slot] # Absent => Cardinality(Counted' \ forgotten') <= counter'[Slot] + stolen'
  BY <1>4, <1>5, <1>6, <1>8
<1>11. /\ Cardinality(Holders' \ forgotten') <= Concurrency + stolen'
       /\ stolen' + Cardinality(forgotten') <= Cardinality(Callers)
  BY <1>4, <1>5, <1>6, <1>9
<1> QED BY <1>7, <1>10, <1>11 DEF SlotTrue

\* The concurrency counter is gone, and what it counted is forgotten with it.
LEMMA SlotGone ==
  ASSUME QuotaInv, counter'[Slot] = Absent, forgotten' = Counted, stolen' = 0, caller' = caller
  PROVE  SlotTrue'
<1>1. Counted' = forgotten' /\ Holders' \ forgotten' = {} /\ forgotten' \in SUBSET Callers
  BY DEF Counted, Holders, RefusedCallers
<1>2. Cardinality(Holders' \ forgotten') = 0
  BY <1>1, FS_EmptySet
<1>3. Cardinality(forgotten') <= Cardinality(Callers) /\ Cardinality(forgotten') \in Nat
  BY <1>1, CallersFinite
<1> QED BY <1>1, <1>2, <1>3, KeysRange DEF SlotTrue

\* A window whose counter and calls a step leaves alone.
LEMMA WindowKept ==
  ASSUME NEW k, WindowTrue(k), counter'[k] = counter[k], passed'[k] = passed[k]
  PROVE  WindowTrue(k)'
BY DEF WindowTrue

\* One caller's next local state, and whom it adds to the counted ones.
LEMMA CallerMoves ==
  ASSUME QuotaTypes, NEW c \in Callers, NEW x \in CallerState, caller' = [caller EXCEPT ![c] = x]
  PROVE  /\ caller' \in [Callers -> CallerState]
         /\ Counted' \subseteq Counted \cup {c} /\ Holders' \subseteq Holders \cup {c}
         /\ (x.step # "held" => Holders' \subseteq Holders \ {c})
         /\ (x.step \notin {"held", "refused"} => Counted' \subseteq Counted \ {c})
<1>1. caller' \in [Callers -> CallerState]
  BY DEF QuotaTypes
<1>2. \A d \in Callers : caller'[d] = IF d = c THEN x ELSE caller[d]
  BY DEF QuotaTypes
<1> QED BY <1>1, <1>2 DEF Counted, Holders, RefusedCallers

\* What the answer to a count does to the caller and to the calls let through.
LEMMA AnswerMeans ==
  ASSUME QuotaTypes, NEW c \in Callers, NEW n \in Int, NEW seen \in [CounterKeys -> Int], Answer(c, n, seen)
  PROVE  /\ caller' \in [Callers -> CallerState]
         /\ passed' = (IF caller[c].key = Slot \/ n > Limit THEN seen
                       ELSE [seen EXCEPT ![caller[c].key] = @ + 1])
         /\ Counted' \subseteq Counted \cup {c} /\ Holders' \subseteq Holders \cup {c}
         /\ (caller[c].key # Slot => Counted' \subseteq Counted /\ Holders' \subseteq Holders)
         /\ (n > Concurrency => Holders' \subseteq Holders)
<1>1. caller[c] \in CallerState /\ caller[c].key \in CounterKeys
  BY DEF QuotaTypes, CallerState
<1>2. CASE caller[c].key = Slot /\ n > Concurrency
  <2>1. [caller[c] EXCEPT !.step = "refused"] \in CallerState /\ [caller[c] EXCEPT !.step = "refused"].step = "refused"
    BY <1>1 DEF CallerState, Steps
  <2>2. caller' = [caller EXCEPT ![c] = [caller[c] EXCEPT !.step = "refused"]] /\ passed' = seen
    BY <1>2 DEF Answer, Cap
  <2> QED BY <1>2, <2>1, <2>2, CallerMoves
<1>3. CASE caller[c].key = Slot /\ ~(n > Concurrency)
  <2>1. [caller[c] EXCEPT !.step = "held"] \in CallerState
    BY <1>1 DEF CallerState, Steps
  <2>2. caller' = [caller EXCEPT ![c] = [caller[c] EXCEPT !.step = "held"]] /\ passed' = seen
    BY <1>3 DEF Answer, Cap
  <2> QED BY <1>3, <2>1, <2>2, CallerMoves
<1>4. CASE caller[c].key # Slot /\ n > Limit
  <2>1. caller' = [caller EXCEPT ![c] = IdleCaller] /\ passed' = seen
    BY <1>4 DEF Answer, Cap
  <2> QED BY <1>4, <2>1, CallerMoves, IdleType
<1>5. CASE caller[c].key # Slot /\ ~(n > Limit)
  <2> DEFINE x == [IdleCaller EXCEPT !.step = "incr", !.key = After(caller[c].key)]
  <2>1. x \in CallerState /\ x.step = "incr"
    BY <1>1, KeysRange DEF IdleCaller, CallerState, Steps
  <2>2. caller' = [caller EXCEPT ![c] = x] /\ passed' = [seen EXCEPT ![caller[c].key] = @ + 1]
    BY <1>5 DEF Answer, Cap
  <2> QED BY <1>5, <2>1, <2>2, CallerMoves
<1> QED BY <1>2, <1>3, <1>4, <1>5

\* Counting at the concurrency counter: the caller joins the counted ones, and
\* the holders when the count is within the cap.
LEMMA SlotCounts ==
  ASSUME QuotaInv, NEW c \in Callers, NEW n \in Int, n = counter[Slot], counter[Slot] # Absent,
         counter'[Slot] = n + 1, Counted' \subseteq Counted \cup {c}, Holders' \subseteq Holders \cup {c},
         n + 1 > Concurrency => Holders' \subseteq Holders, forgotten' = forgotten, stolen' = stolen
  PROVE  SlotTrue'
<1>1. forgotten \in SUBSET Callers /\ Counted \in SUBSET Callers /\ Holders \in SUBSET Callers
  BY DEF QuotaInv, QuotaTypes, Counted, Holders, RefusedCallers
<1>2. /\ Counted \ forgotten \in SUBSET Callers /\ Holders \ forgotten \in SUBSET Callers
      /\ Counted' \ forgotten' \in SUBSET Callers /\ Holders' \ forgotten' \in SUBSET Callers
  BY <1>1
<1>3. Cardinality(Counted' \ forgotten') <= Cardinality(Counted \ forgotten) + 1
  BY <1>1, <1>2, OneAdded
<1>4. /\ Cardinality(Holders' \ forgotten') <= Cardinality(Counted' \ forgotten')
      /\ (n + 1 > Concurrency => Cardinality(Holders' \ forgotten') <= Cardinality(Holders \ forgotten))
  <2>1. Holders' \ forgotten' \in SUBSET (Counted' \ forgotten')
    BY DEF Counted
  <2>2. n + 1 > Concurrency => Holders' \ forgotten' \in SUBSET (Holders \ forgotten)
    OBVIOUS
  <2> QED BY <1>2, <2>1, <2>2, CallersFinite
<1>5. /\ Cardinality(Counted' \ forgotten') \in Nat /\ Cardinality(Counted \ forgotten) \in Nat
      /\ Cardinality(Holders' \ forgotten') \in Nat /\ Cardinality(Holders \ forgotten) \in Nat
      /\ Cardinality(forgotten) \in Nat
  BY <1>1, <1>2, CallersFinite
<1>6. stolen \in Nat /\ Concurrency \in Nat /\ Cardinality(Callers) \in Nat
  BY KeysRange, CallersFinite DEF QuotaInv, QuotaTypes
<1>7. /\ Cardinality(Counted \ forgotten) <= n + stolen
      /\ Cardinality(Holders \ forgotten) <= Concurrency + stolen
      /\ stolen + Cardinality(forgotten) <= Cardinality(Callers)
  BY DEF QuotaInv, SlotTrue
<1>8. counter'[Slot] # Absent
  BY <1>5, <1>6, <1>7 DEF Absent
<1>9. Cardinality(Counted' \ forgotten') <= counter'[Slot] + stolen'
  BY <1>3, <1>5, <1>6, <1>7
<1>10. Cardinality(Holders' \ forgotten') <= Concurrency + stolen'
  BY <1>4, <1>5, <1>6, <1>7, <1>9
<1> QED BY <1>7, <1>8, <1>9, <1>10 DEF SlotTrue

LEMMA IncrementKeeps == ASSUME QuotaInv, NEW c \in Callers, Increment(c) PROVE QuotaInv'
<1>1. caller[c] \in CallerState /\ caller[c].key \in CounterKeys
  BY DEF QuotaInv, QuotaTypes, CallerState
<1>2. PICK k \in CounterKeys : k = caller[c].key
  BY <1>1
<1>3. PICK n \in Int : n = counter[k]
  BY <1>2 DEF QuotaInv, QuotaTypes
<1>4. CASE n = Absent
  <2>1. PICK s \in {"add", "set"} : To(c, s)
    BY <1>2, <1>3, <1>4 DEF Increment
  <2>2. counter' = counter /\ passed' = passed /\ forgotten' = forgotten /\ stolen' = stolen
    BY <1>2, <1>3, <1>4 DEF Increment
  <2>3. [caller[c] EXCEPT !.step = s] \in CallerState /\ [caller[c] EXCEPT !.step = s].step = s
    BY <1>1, <2>1 DEF CallerState, Steps
  <2>4. caller' = [caller EXCEPT ![c] = [caller[c] EXCEPT !.step = s]]
    BY <2>1 DEF To
  <2>5. caller' \in [Callers -> CallerState] /\ Counted' \subseteq Counted /\ Holders' \subseteq Holders
    BY <2>1, <2>3, <2>4, CallerMoves DEF QuotaInv
  <2>6. QuotaTypes'
    BY <2>2, <2>5 DEF QuotaInv, QuotaTypes
  <2>7. SlotTrue'
    BY <2>2, <2>5, SlotKept
  <2> QED BY <2>2, <2>6, <2>7, WindowKept DEF QuotaInv
<1>5. CASE n # Absent
  <2>1. counter' = [counter EXCEPT ![k] = OneMore(k)] /\ Answer(c, n + 1, passed)
    BY <1>2, <1>3, <1>5 DEF Increment
  <2>2. forgotten' = forgotten /\ stolen' = stolen
    BY DEF Increment
  <2>3. PICK seen \in [CounterKeys -> Int] : seen = passed
    BY DEF QuotaInv, QuotaTypes
  <2>4. /\ caller' \in [Callers -> CallerState]
        /\ passed' = (IF k = Slot \/ n + 1 > Limit THEN seen ELSE [seen EXCEPT ![k] = @ + 1])
        /\ Counted' \subseteq Counted \cup {c} /\ Holders' \subseteq Holders \cup {c}
        /\ (k # Slot => Counted' \subseteq Counted /\ Holders' \subseteq Holders)
        /\ (n + 1 > Concurrency => Holders' \subseteq Holders)
    <3>1. Answer(c, n + 1, seen) /\ n + 1 \in Int /\ QuotaTypes
      BY <2>1, <2>3 DEF QuotaInv
    <3> QED BY <3>1, <1>2, AnswerMeans
  <2>5. OneMore(k) = (IF k # Slot /\ n > Limit THEN n ELSE n + 1)
    BY <1>3 DEF OneMore
  <2>6. QuotaTypes'
    <3>1. counter' \in [CounterKeys -> Int]
      BY <2>1, <2>5 DEF QuotaInv, QuotaTypes
    <3>2. passed' \in [CounterKeys -> Int]
      BY <2>3, <2>4
    <3> QED BY <2>2, <2>4, <3>1, <3>2 DEF QuotaInv, QuotaTypes
  <2>7. \A j \in CounterKeys : j # k => counter'[j] = counter[j] /\ passed'[j] = passed[j]
    BY <2>1, <2>3, <2>4 DEF QuotaInv, QuotaTypes
  <2>8. counter'[k] = OneMore(k)
    BY <2>1 DEF QuotaInv, QuotaTypes
  <2>9. SlotTrue'
    <3>1. CASE k = Slot
      BY <1>3, <1>5, <2>2, <2>4, <2>5, <2>8, <3>1, SlotCounts
    <3>2. CASE k # Slot
      BY <2>2, <2>4, <2>7, <3>2, KeysRange, SlotKept
    <3> QED BY <3>1, <3>2
  <2>10. ASSUME NEW j \in 1..Windows PROVE WindowTrue(j)'
    <3>0. WindowTrue(j) /\ j \in CounterKeys /\ j # Slot
      BY KeysRange DEF QuotaInv
    <3>1. CASE j = k
      <4>1. counter'[j] = (IF n > Limit THEN n ELSE n + 1) /\ passed[j] \in Int
        BY <2>5, <2>8, <3>0, <3>1 DEF QuotaInv, QuotaTypes
      <4>2. passed'[j] = IF n + 1 > Limit THEN passed[j] ELSE passed[j] + 1
        BY <2>3, <2>4, <3>0, <3>1
      <4>3. 0 <= n /\ passed[j] <= n /\ passed[j] <= Limit
        BY <1>3, <1>5, <3>0, <3>1 DEF WindowTrue
      <4>4. Limit \in Nat /\ Absent < 0 /\ Absent \in Int
        BY KeysRange, CallersFinite
      <4>5. 0 <= counter'[j] /\ passed'[j] <= counter'[j] /\ passed'[j] <= Limit /\ counter'[j] # Absent
        BY <4>1, <4>2, <4>3, <4>4
      <4> QED BY <4>5 DEF WindowTrue
    <3>2. CASE j # k
      BY <2>7, <3>0, <3>2, WindowKept
    <3> QED BY <3>1, <3>2
  <2> QED BY <2>6, <2>9, <2>10 DEF QuotaInv
<1> QED BY <1>4, <1>5

LEMMA AddKeeps == ASSUME QuotaInv, NEW c \in Callers, Add(c) PROVE QuotaInv'
<1>1. caller[c] \in CallerState /\ caller[c].key \in CounterKeys
  BY DEF QuotaInv, QuotaTypes, CallerState
<1>2. PICK k \in CounterKeys : k = caller[c].key
  BY <1>1
<1>3. PICK n \in Int : n = counter[k]
  BY <1>2 DEF QuotaInv, QuotaTypes
<1>4. /\ counter' = [counter EXCEPT ![k] = IF n = Absent THEN 0 ELSE n] /\ To(c, "again")
      /\ forgotten' = forgotten /\ stolen' = stolen /\ passed' = passed
  BY <1>2, <1>3 DEF Add, Added
<1>5. caller' \in [Callers -> CallerState] /\ Counted' \subseteq Counted /\ Holders' \subseteq Holders
  <2>1. [caller[c] EXCEPT !.step = "again"] \in CallerState /\ [caller[c] EXCEPT !.step = "again"].step = "again"
    BY <1>1 DEF CallerState, Steps
  <2>2. caller' = [caller EXCEPT ![c] = [caller[c] EXCEPT !.step = "again"]]
    BY <1>4 DEF To
  <2> QED BY <2>1, <2>2, CallerMoves DEF QuotaInv
<1>6. QuotaTypes'
  BY <1>4, <1>5 DEF QuotaInv, QuotaTypes
<1>7. \A j \in CounterKeys : j # k => counter'[j] = counter[j]
  BY <1>4 DEF QuotaInv, QuotaTypes
<1>8. counter'[k] = IF n = Absent THEN 0 ELSE n
  BY <1>4 DEF QuotaInv, QuotaTypes
<1>9. Absent \in Int /\ Absent < 0
  BY CallersFinite
<1>10. SlotTrue'
  <2>1. CASE k = Slot /\ n = Absent
    <3>1. Counted \subseteq forgotten /\ Holders \subseteq forgotten
      BY <1>3, <2>1 DEF QuotaInv, SlotTrue, Counted
    <3>2. Counted' \ forgotten' = {} /\ Holders' \ forgotten' = {}
      BY <1>4, <1>5, <3>1
    <3>3. Cardinality(Counted' \ forgotten') = 0 /\ Cardinality(Holders' \ forgotten') = 0
      BY <3>2, FS_EmptySet
    <3>4. stolen \in Nat /\ Concurrency \in Nat /\ counter'[Slot] = 0 /\ stolen' = stolen
      BY <1>4, <1>8, <2>1, KeysRange DEF QuotaInv, QuotaTypes
    <3>5. stolen' + Cardinality(forgotten') <= Cardinality(Callers)
      BY <1>4 DEF QuotaInv, SlotTrue
    <3>6. /\ counter'[Slot] # Absent
          /\ Cardinality(Counted' \ forgotten') <= counter'[Slot] + stolen'
          /\ Cardinality(Holders' \ forgotten') <= Concurrency + stolen'
      <4>1. counter'[Slot] # Absent
        BY <1>9, <3>4
      <4>2. /\ Cardinality(Counted' \ forgotten') <= counter'[Slot] + stolen'
            /\ Cardinality(Holders' \ forgotten') <= Concurrency + stolen'
        BY <3>3, <3>4
      <4> QED BY <4>1, <4>2
    <3> QED BY <3>5, <3>6 DEF SlotTrue
  <2>2. CASE ~(k = Slot /\ n = Absent)
    <3>1. counter'[Slot] = counter[Slot]
      BY <1>3, <1>7, <1>8, <2>2, KeysRange
    <3> QED BY <1>4, <1>5, <3>1, SlotKept
  <2> QED BY <2>1, <2>2
<1>11. ASSUME NEW j \in 1..Windows PROVE WindowTrue(j)'
  <2>1. WindowTrue(j) /\ j \in CounterKeys /\ passed[j] \in Int /\ Limit \in Nat
    BY KeysRange DEF QuotaInv, QuotaTypes
  <2>2. CASE j = k /\ n = Absent
    BY <1>3, <1>4, <1>8, <1>9, <2>1, <2>2 DEF WindowTrue
  <2>3. CASE ~(j = k /\ n = Absent)
    <3>1. counter'[j] = counter[j] /\ passed'[j] = passed[j]
      BY <1>3, <1>4, <1>7, <1>8, <2>1, <2>3
    <3> QED BY <2>1, <3>1, WindowKept
  <2> QED BY <2>2, <2>3
<1> QED BY <1>6, <1>10, <1>11 DEF QuotaInv

LEMMA SetOneKeeps == ASSUME QuotaInv, NEW c \in Callers, SetOne(c) PROVE QuotaInv'
<1>1. caller[c] \in CallerState /\ caller[c].key \in CounterKeys
  BY DEF QuotaInv, QuotaTypes, CallerState
<1>2. PICK k \in CounterKeys : k = caller[c].key
  BY <1>1
<1>3. counter' = [counter EXCEPT ![k] = 1] /\ caller[c].step = "set"
  BY <1>2 DEF SetOne
<1>4. counter' \in [CounterKeys -> Int] /\ counter'[k] = 1 /\ (\A j \in CounterKeys : j # k => counter'[j] = counter[j])
  BY <1>3 DEF QuotaInv, QuotaTypes
<1>5. Absent \in Int /\ Absent < 0
  BY CallersFinite
<1>6. CASE k = Slot
  <2>1. forgotten' = Counted /\ stolen' = 0 /\ Answer(c, 1, passed)
    BY <1>2, <1>6 DEF SetOne
  <2>2. PICK seen \in [CounterKeys -> Int] : seen = passed
    BY DEF QuotaInv, QuotaTypes
  <2>3. caller' \in [Callers -> CallerState] /\ passed' = seen /\ Counted' \subseteq Counted \cup {c}
    <3>1. Answer(c, 1, seen) /\ QuotaTypes /\ 1 \in Int
      BY <2>1, <2>2 DEF QuotaInv
    <3> QED BY <1>2, <1>6, <3>1, AnswerMeans
  <2>4. Counted \in SUBSET Callers
    BY DEF Counted, Holders, RefusedCallers
  <2>5. QuotaTypes'
    BY <1>4, <2>1, <2>2, <2>3, <2>4 DEF QuotaInv, QuotaTypes
  <2>6. SlotTrue'
    <3>1. Counted' \ forgotten' \in SUBSET {c} /\ Holders' \ forgotten' \in SUBSET {c}
      BY <2>1, <2>3 DEF Counted
    <3>2. {c} \in SUBSET Callers /\ Cardinality({c}) = 1
      BY FS_Singleton
    <3>3. /\ Cardinality(Counted' \ forgotten') <= 1 /\ Cardinality(Holders' \ forgotten') <= 1
          /\ Cardinality(forgotten') <= Cardinality(Callers)
          /\ Cardinality(Counted' \ forgotten') \in Nat /\ Cardinality(Holders' \ forgotten') \in Nat
          /\ Cardinality(forgotten') \in Nat
      BY <2>1, <2>4, <3>1, <3>2, CallersFinite
    <3>4. counter'[Slot] = 1 /\ Concurrency \in Nat /\ Concurrency >= 1
      BY <1>4, <1>6, KeysRange
    <3>5. counter'[Slot] # Absent
      BY <1>5, <3>4
    <3>6. /\ Cardinality(Counted' \ forgotten') <= counter'[Slot] + 0
          /\ Cardinality(Holders' \ forgotten') <= Concurrency + 0
          /\ 0 + Cardinality(forgotten') <= Cardinality(Callers)
      BY <3>3, <3>4
    <3> QED BY <2>1, <3>5, <3>6 DEF SlotTrue
  <2>7. \A j \in 1..Windows : counter'[j] = counter[j] /\ passed'[j] = passed[j]
    BY <1>4, <1>6, <2>2, <2>3, KeysRange
  <2> QED BY <2>5, <2>6, <2>7, WindowKept DEF QuotaInv
<1>7. CASE k # Slot
  <2>1. Answer(c, 1, [passed EXCEPT ![k] = 0]) /\ forgotten' = forgotten /\ stolen' = stolen
    BY <1>2, <1>7 DEF SetOne
  <2>2. PICK seen \in [CounterKeys -> Int] : seen = [passed EXCEPT ![k] = 0]
    <3>1. [passed EXCEPT ![k] = 0] \in [CounterKeys -> Int]
      BY DEF QuotaInv, QuotaTypes
    <3> QED BY <3>1
  <2>3. /\ caller' \in [Callers -> CallerState]
        /\ passed' = (IF k = Slot \/ 1 > Limit THEN seen ELSE [seen EXCEPT ![k] = @ + 1])
        /\ Counted' \subseteq Counted /\ Holders' \subseteq Holders
    <3>1. Answer(c, 1, seen) /\ QuotaTypes /\ 1 \in Int
      BY <2>1, <2>2 DEF QuotaInv
    <3> QED BY <1>2, <1>7, <3>1, AnswerMeans
  <2>4. seen[k] = 0 /\ (\A j \in CounterKeys : j # k => seen[j] = passed[j])
    BY <2>2 DEF QuotaInv, QuotaTypes
  <2>5. passed' \in [CounterKeys -> Int]
    BY <2>3
  <2>6. QuotaTypes'
    BY <1>4, <2>1, <2>3, <2>5 DEF QuotaInv, QuotaTypes
  <2>7. SlotTrue'
    BY <1>4, <1>7, <2>1, <2>3, KeysRange, SlotKept
  <2>8. ASSUME NEW j \in 1..Windows PROVE WindowTrue(j)'
    <3>0. WindowTrue(j) /\ j \in CounterKeys /\ Limit \in Nat
      BY KeysRange DEF QuotaInv
    <3>1. CASE j = k
      <4>1. passed'[j] = (IF 1 > Limit THEN 0 ELSE 1) /\ counter'[j] = 1
        BY <1>4, <1>7, <2>3, <2>4, <3>1
      <4>2. 0 <= counter'[j] /\ passed'[j] <= counter'[j] /\ passed'[j] <= Limit /\ counter'[j] # Absent
        BY <1>5, <3>0, <4>1
      <4> QED BY <4>2 DEF WindowTrue
    <3>2. CASE j # k
      <4>1. counter'[j] = counter[j] /\ passed'[j] = passed[j]
        BY <1>4, <2>3, <2>4, <3>0, <3>2
      <4> QED BY <3>0, <4>1, WindowKept
    <3> QED BY <3>1, <3>2
  <2> QED BY <2>6, <2>7, <2>8 DEF QuotaInv
<1> QED BY <1>6, <1>7

LEMMA ReleaseKeeps == ASSUME QuotaInv, NEW c \in Callers, Release(c) PROVE QuotaInv'
<1>1. PICK n \in Int : n = counter[Slot]
  BY KeysRange DEF QuotaInv, QuotaTypes
<1>2. PICK s \in Nat : s = stolen
  BY DEF QuotaInv, QuotaTypes
<1>3. /\ c \in Counted /\ forgotten' = forgotten \ {c} /\ caller' = [caller EXCEPT ![c] = IdleCaller] /\ passed' = passed
      /\ stolen' = IF c \in forgotten /\ n # Absent THEN s + 1 ELSE s
      /\ counter' = [counter EXCEPT ![Slot] = IF n = Absent THEN Absent ELSE n - 1]
  BY <1>1, <1>2 DEF Release
<1>4. caller' \in [Callers -> CallerState] /\ Counted' \subseteq Counted \ {c} /\ Holders' \subseteq Holders \ {c}
  BY <1>3, IdleType, CallerMoves DEF QuotaInv
<1>5. /\ counter'[Slot] = (IF n = Absent THEN Absent ELSE n - 1)
      /\ \A j \in 1..Windows : counter'[j] = counter[j]
  BY <1>3, KeysRange DEF QuotaInv, QuotaTypes
<1>6. Absent \in Int /\ Absent < 0 - Cardinality(Callers) /\ Cardinality(Callers) \in Nat
  BY CallersFinite
<1>7. QuotaTypes'
  <2>1. stolen' \in Nat
    BY <1>3
  <2>2. forgotten' \in SUBSET Callers
    BY <1>3 DEF QuotaInv, QuotaTypes
  <2>3. counter' \in [CounterKeys -> Int]
    <3>1. (IF n = Absent THEN Absent ELSE n - 1) \in Int
      BY <1>6
    <3> QED BY <1>3, <3>1 DEF QuotaInv, QuotaTypes
  <2> QED BY <1>3, <1>4, <2>1, <2>2, <2>3 DEF QuotaInv, QuotaTypes
<1>8. SlotTrue'
  <2>1. forgotten \in SUBSET Callers /\ Counted \in SUBSET Callers /\ Holders \in SUBSET Callers
    BY DEF QuotaInv, QuotaTypes, Counted, Holders, RefusedCallers
  <2>2. CASE n = Absent
    <3>1. counter'[Slot] = counter[Slot] /\ stolen' = stolen
      BY <1>1, <1>2, <1>3, <1>5, <2>2
    <3> QED BY <1>3, <1>4, <3>1, SlotKept
  <2>3. CASE n # Absent
    <3>1. /\ Cardinality(Counted \ forgotten) <= n + s /\ Cardinality(Holders \ forgotten) <= Concurrency + s
          /\ s + Cardinality(forgotten) <= Cardinality(Callers)
      BY <1>1, <1>2, <2>3 DEF QuotaInv, SlotTrue
    <3>2. counter'[Slot] = n - 1
      BY <1>5, <2>3
    <3>3. CASE c \in forgotten
      <4>1. stolen' = s + 1
        BY <1>3, <2>3, <3>3
      <4>2. Cardinality(forgotten') = Cardinality(forgotten) - 1
        BY <1>3, <2>1, <3>3, OneRemoved
      <4>3. Counted' \ forgotten' \in SUBSET (Counted \ forgotten) /\ Holders' \ forgotten' \in SUBSET (Holders \ forgotten)
        BY <1>3, <1>4, <3>3
      <4>4. Counted \ forgotten \in SUBSET Callers /\ Holders \ forgotten \in SUBSET Callers
        BY <2>1
      <4>5. /\ Cardinality(Counted' \ forgotten') <= Cardinality(Counted \ forgotten)
            /\ Cardinality(Holders' \ forgotten') <= Cardinality(Holders \ forgotten)
        BY <4>3, <4>4, CallersFinite
      <4>6. /\ Cardinality(Counted' \ forgotten') \in Nat /\ Cardinality(Holders' \ forgotten') \in Nat
            /\ Cardinality(Counted \ forgotten) \in Nat /\ Cardinality(Holders \ forgotten) \in Nat
            /\ Cardinality(forgotten) \in Nat /\ Concurrency \in Nat
        <5>1. Counted' \ forgotten' \in SUBSET Callers /\ Holders' \ forgotten' \in SUBSET Callers
          BY <4>3, <4>4
        <5> QED BY <2>1, <4>4, <5>1, CallersFinite, KeysRange
      <4>7. Cardinality(forgotten') \in Nat
        BY <1>3, <2>1, CallersFinite
      <4>8. /\ Cardinality(Counted' \ forgotten') <= (n - 1) + (s + 1)
            /\ Cardinality(Holders' \ forgotten') <= Concurrency + (s + 1)
            /\ (s + 1) + Cardinality(forgotten') <= Cardinality(Callers)
        BY <1>6, <3>1, <4>2, <4>5, <4>6
      <4>9. n - 1 # Absent
        BY <1>6, <4>6, <4>7, <4>8
      <4> QED BY <3>2, <4>1, <4>8, <4>9 DEF SlotTrue
    <3>4. CASE c \notin forgotten
      <4>1. stolen' = s /\ forgotten' = forgotten
        BY <1>3, <3>4
      <4>2. Counted' \ forgotten' \in SUBSET ((Counted \ forgotten) \ {c}) /\ Holders' \ forgotten' \in SUBSET (Holders \ forgotten)
        BY <1>4, <4>1
      <4>3. Cardinality((Counted \ forgotten) \ {c}) = Cardinality(Counted \ forgotten) - 1
        <5>1. Counted \ forgotten \in SUBSET Callers /\ c \in Counted \ forgotten
          BY <1>3, <2>1, <3>4
        <5> QED BY <5>1, OneRemoved
      <4>4. /\ Counted \ forgotten \in SUBSET Callers /\ Holders \ forgotten \in SUBSET Callers
            /\ (Counted \ forgotten) \ {c} \in SUBSET Callers
        BY <2>1
      <4>5. /\ Cardinality(Counted' \ forgotten') <= Cardinality((Counted \ forgotten) \ {c})
            /\ Cardinality(Holders' \ forgotten') <= Cardinality(Holders \ forgotten)
        BY <4>2, <4>4, CallersFinite
      <4>6. /\ Cardinality(Counted' \ forgotten') \in Nat /\ Cardinality(Holders' \ forgotten') \in Nat
            /\ Cardinality(Counted \ forgotten) \in Nat /\ Cardinality(Holders \ forgotten) \in Nat
            /\ Cardinality(forgotten) \in Nat /\ Concurrency \in Nat
        <5>1. Counted' \ forgotten' \in SUBSET Callers /\ Holders' \ forgotten' \in SUBSET Callers
          BY <4>2, <4>4
        <5> QED BY <2>1, <4>4, <5>1, CallersFinite, KeysRange
      <4>7. /\ Cardinality(Counted' \ forgotten') <= (n - 1) + s
            /\ Cardinality(Holders' \ forgotten') <= Concurrency + s
        BY <3>1, <4>3, <4>5, <4>6
      <4>8. n - 1 # Absent
        BY <1>6, <3>1, <4>6, <4>7
      <4> QED BY <3>1, <3>2, <4>1, <4>7, <4>8 DEF SlotTrue
    <3> QED BY <3>3, <3>4
  <2> QED BY <2>2, <2>3
<1>9. \A j \in 1..Windows : WindowTrue(j)'
  BY <1>3, <1>5, WindowKept DEF QuotaInv
<1> QED BY <1>7, <1>8, <1>9 DEF QuotaInv

\* A window's or the concurrency counter is gone: expired, evicted, or of a bucket that is over.
LEMMA GoneKeeps ==
  ASSUME QuotaInv, NEW k \in CounterKeys, counter' = [counter EXCEPT ![k] = Absent], Forget(k), caller' = caller
  PROVE  QuotaInv'
<1>1. Absent \in Int /\ Counted \in SUBSET Callers
  BY CallersFinite DEF Counted, Holders, RefusedCallers
<1>2. /\ counter' \in [CounterKeys -> Int] /\ passed' \in [CounterKeys -> Int] /\ counter'[k] = Absent
      /\ \A j \in CounterKeys : j # k => counter'[j] = counter[j] /\ passed'[j] = passed[j]
      /\ k # Slot => passed'[k] = 0
  BY <1>1 DEF QuotaInv, QuotaTypes, Forget
<1>3. QuotaTypes'
  BY <1>1, <1>2 DEF QuotaInv, QuotaTypes, Forget
<1>4. SlotTrue'
  <2>1. CASE k = Slot
    BY <1>2, <2>1, SlotGone DEF Forget
  <2>2. CASE k # Slot
    <3>1. forgotten' = forgotten /\ stolen' = stolen /\ Counted' = Counted /\ Holders' = Holders
      BY <2>2 DEF Forget, Counted, Holders, RefusedCallers
    <3> QED BY <1>2, <2>2, <3>1, KeysRange, SlotKept
  <2> QED BY <2>1, <2>2
<1>5. ASSUME NEW j \in 1..Windows PROVE WindowTrue(j)'
  <2>1. WindowTrue(j) /\ j \in CounterKeys /\ j # Slot /\ Limit \in Nat
    BY KeysRange DEF QuotaInv
  <2>2. CASE j = k
    BY <1>2, <2>1, <2>2 DEF WindowTrue
  <2>3. CASE j # k
    BY <1>2, <2>1, <2>3, WindowKept
  <2> QED BY <2>2, <2>3
<1> QED BY <1>3, <1>4, <1>5 DEF QuotaInv

\* A step that leaves the counters alone and counts nobody anew.
LEMMA QuietKeeps ==
  ASSUME QuotaInv, caller' \in [Callers -> CallerState], Counted' \subseteq Counted, Holders' \subseteq Holders,
         counter' = counter, passed' = passed, stolen' = stolen, forgotten' \subseteq forgotten,
         Counted' \cap forgotten \subseteq forgotten'
  PROVE  QuotaInv'
<1>1. QuotaTypes'
  BY DEF QuotaInv, QuotaTypes
<1> QED BY <1>1, SlotKept, WindowKept DEF QuotaInv

LEMMA CallKeeps == ASSUME QuotaInv, NEW c \in Callers, Call(c) PROVE QuotaInv'
<1>0. QuotaTypes /\ IdleCaller \in CallerState /\ IdleCaller.step = "idle"
  BY IdleType DEF QuotaInv
<1>1. CASE Reserve(c)
  <2> DEFINE x == [IdleCaller EXCEPT !.step = "incr", !.key = First]
  <2>1. x \in CallerState /\ x.step = "incr" /\ caller' = [caller EXCEPT ![c] = x]
    BY <1>1, KeysRange DEF Reserve, IdleCaller, CallerState, Steps
  <2> QED BY <1>0, <1>1, <2>1, CallerMoves, QuietKeeps DEF Reserve
<1>2. CASE CountLate(c)
  <2>1. PICK x \in {IdleCaller, [IdleCaller EXCEPT !.step = "incr", !.key = After(caller[c].key)]} : caller' = [caller EXCEPT ![c] = x]
    BY <1>2 DEF CountLate
  <2>2. caller[c].key \in CounterKeys
    BY <1>0 DEF QuotaTypes, CallerState
  <2>3. x \in CallerState /\ x.step \in {"idle", "incr"}
    <3>1. CASE x = IdleCaller
      BY <1>0, <3>1
    <3>2. CASE x = [IdleCaller EXCEPT !.step = "incr", !.key = After(caller[c].key)]
      <4>1. After(caller[c].key) \in CounterKeys
        BY <2>2, KeysRange
      <4> QED BY <3>2, <4>1 DEF IdleCaller, CallerState, Steps
    <3> QED BY <2>1, <3>1, <3>2
  <2> QED BY <1>0, <1>2, <2>1, <2>3, CallerMoves, QuietKeeps DEF CountLate
<1>3. CASE Cooldown(c)
  <2>1. caller' = caller /\ counter' = counter /\ passed' = passed /\ stolen' = stolen /\ forgotten' = forgotten
    BY <1>3 DEF Cooldown
  <2>2. Counted' = Counted /\ Holders' = Holders /\ caller' \in [Callers -> CallerState]
    BY <1>0, <2>1 DEF Counted, Holders, RefusedCallers, QuotaTypes
  <2> QED BY <2>1, <2>2, QuietKeeps
<1>4. CASE Die(c)
  <2>1. /\ caller' = [caller EXCEPT ![c] = IdleCaller] /\ counter' = counter /\ passed' = passed /\ stolen' = stolen
        /\ forgotten' = forgotten \ {c}
    BY <1>4 DEF Die
  <2>2. caller' \in [Callers -> CallerState] /\ Counted' \subseteq Counted \ {c} /\ Holders' \subseteq Holders \ {c}
    BY <1>0, <2>1, CallerMoves, IdleType
  <2> QED BY <2>1, <2>2, QuietKeeps
<1> QED BY <1>1, <1>2, <1>3, <1>4, IncrementKeeps, AddKeeps, SetOneKeeps, ReleaseKeeps DEF Call

LEMMA QuotaStep == ASSUME QuotaInv, [QuotaNext]_quotaVars PROVE QuotaInv'
<1>1. ASSUME NEW k \in CounterKeys, NextBucket(k) PROVE QuotaInv'
  <2>1. /\ caller' \in [Callers -> CallerState]
        /\ \A c \in Callers : caller'[c].step = caller[c].step
    BY <1>1 DEF NextBucket, QuotaInv, QuotaTypes, CallerState, Steps
  <2>2. Counted' = Counted /\ Holders' = Holders
    BY <2>1 DEF Counted, Holders, RefusedCallers
  <2>3. Absent \in Int /\ k # Slot
    BY <1>1, CallersFinite DEF NextBucket
  <2>4. /\ counter' = [counter EXCEPT ![k] = Absent] /\ passed' = [passed EXCEPT ![k] = 0]
        /\ forgotten' = forgotten /\ stolen' = stolen
    BY <1>1 DEF NextBucket
  <2>5. QuotaTypes'
    BY <2>1, <2>3, <2>4 DEF QuotaInv, QuotaTypes
  <2>6. counter'[Slot] = counter[Slot]
    BY <2>3, <2>4, KeysRange DEF QuotaInv, QuotaTypes
  <2>7. SlotTrue'
    BY <2>2, <2>4, <2>6, SlotKept
  <2>8. ASSUME NEW j \in 1..Windows PROVE WindowTrue(j)'
    <3>1. WindowTrue(j) /\ j \in CounterKeys /\ Limit \in Nat
      BY KeysRange DEF QuotaInv
    <3>2. CASE j = k
      <4>1. counter'[j] = Absent /\ passed'[j] = 0
        BY <2>4, <3>1, <3>2 DEF QuotaInv, QuotaTypes
      <4> QED BY <3>1, <4>1 DEF WindowTrue
    <3>3. CASE j # k
      <4>1. counter'[j] = counter[j] /\ passed'[j] = passed[j]
        BY <2>4, <3>1, <3>3 DEF QuotaInv, QuotaTypes
      <4> QED BY <3>1, <4>1, WindowKept
    <3> QED BY <3>2, <3>3
  <2> QED BY <2>5, <2>7, <2>8 DEF QuotaInv
<1>2. ASSUME NEW k \in CounterKeys, EvictCounter(k) PROVE QuotaInv'
  BY <1>2, GoneKeeps DEF EvictCounter
<1>3. CASE SlotTick
  <2>1. CASE ttl = 1
    BY <1>3, <2>1, GoneKeeps, KeysRange DEF SlotTick
  <2>2. CASE ttl # 1
    <3>1. UNCHANGED <<counter, forgotten, stolen, passed, caller>>
      BY <1>3, <2>2 DEF SlotTick
    <3>2. Counted' = Counted /\ Holders' = Holders /\ caller' \in [Callers -> CallerState]
      BY <3>1 DEF Counted, Holders, RefusedCallers, QuotaInv, QuotaTypes
    <3> QED BY <3>1, <3>2, QuietKeeps
  <2> QED BY <2>1, <2>2
<1>4. CASE CooldownEnds \/ UNCHANGED quotaVars
  <2>1. UNCHANGED <<counter, forgotten, stolen, passed, caller>>
    BY <1>4 DEF CooldownEnds, quotaVars
  <2>2. Counted' = Counted /\ Holders' = Holders /\ caller' \in [Callers -> CallerState]
    BY <2>1 DEF Counted, Holders, RefusedCallers, QuotaInv, QuotaTypes
  <2> QED BY <2>1, <2>2, QuietKeeps
<1> QED BY <1>1, <1>2, <1>3, <1>4, CallKeeps DEF QuotaNext

\* limits.py, for every number of callers, windows, limits and faults: a window lets
\* no more calls of one bucket through than its limit while its counter lives, and no
\* more reservations are held than the cap, but for those released from an older counter.
THEOREM QuotaKeptHolds == QuotaSpec => []QuotaKept
<1>1. QuotaInit => QuotaInv
  <2> SUFFICES ASSUME QuotaInit PROVE QuotaInv
    OBVIOUS
  <2>1. Counted = {} /\ Holders = {} /\ Holders \ forgotten = {} /\ forgotten = {} /\ stolen = 0
    BY IdleType DEF QuotaInit, Counted, Holders, RefusedCallers
  <2>2. Cardinality({}) = 0
    BY FS_EmptySet
  <2>3. Absent \in Int /\ Cardinality(Callers) \in Nat /\ Concurrency \in Nat /\ Limit \in Nat
    BY CallersFinite, KeysRange
  <2>4. QuotaTypes
    BY <2>1, <2>3, IdleType DEF QuotaInit, QuotaTypes
  <2>5. \A k \in 1..Windows : WindowTrue(k)
    BY <2>3, KeysRange DEF QuotaInit, WindowTrue
  <2>6. counter[Slot] = Absent
    BY KeysRange DEF QuotaInit
  <2>7. SlotTrue
    BY <2>1, <2>2, <2>3, <2>6 DEF SlotTrue
  <2> QED BY <2>4, <2>5, <2>7 DEF QuotaInv
<1>2. QuotaInv /\ [QuotaNext]_quotaVars => QuotaInv'
  BY QuotaStep
<1>3. QuotaInv => QuotaKept
  BY DEF QuotaInv, WindowTrue, SlotTrue, QuotaKept
<1> QED BY <1>1, <1>2, <1>3, PTL DEF QuotaSpec

-----------------------------------------------------------------------------
(* ApiAccess: what the owner, the token and the model's policy were when   *)
(* each check of a request looked at them.                                 *)

Permissions == Verbs \cup {"special", "super"}
TokenRows(n) == [key : 0..n, active : BOOLEAN, expired : BOOLEAN, scope : Scopes]
Management == {"none", "rename", "rotate", "deactivate", "edit", "destroy"}
Actions == Reading \cup {"create", "update", "partial_update", "destroy", "archive", "dispatch_action", Nothing}
Calls == [pc : {"idle", "permit", "handle", "served"}, scope : Scopes, active : BOOLEAN, action : Actions,
          method : Methods \cup {Nothing}, perms : SUBSET Permissions]

AccessTypes ==
  /\ policy \in Policies /\ owner \in [active : BOOLEAN, perms : SUBSET Permissions]
  /\ minted \in Nat /\ token \in TokenRows(minted) /\ dead \subseteq 0..minted /\ off \in BOOLEAN
  /\ manager \in [Managers -> [kind : Management, copy : TokenRows(minted)]]
  /\ request \in [Workers -> Calls]

\* Past the checks, a call is one the model takes, with a permission that was checked.
PermittedTrue ==
  \A w \in Workers :
    request[w].pc = "handle" =>
      /\ policy.registered /\ request[w].action # Nothing
      /\ request[w].method \in MethodNames(request[w].action)
      /\ HasPermission(request[w], request[w].action)

AccessInv == AccessTypes /\ PermittedTrue /\ RevocationSticks /\ ServedWithinRights

-----------------------------------------------------------------------------
(* ApiAccess: one token and the requests made with it.                     *)

LEMMA RowsGrow == \A n \in Nat : TokenRows(n) \subseteq TokenRows(n + 1)
BY DEF TokenRows

LEMMA NoRowTyped == NoTokenRow \in TokenRows(0) /\ (\A n \in Nat : NoTokenRow \in TokenRows(n)) /\ NoTokenRow.active = FALSE
BY DEF NoTokenRow, TokenRows, Scopes

LEMMA CallTyped == IdleRequest \in Calls /\ IdleRequest.pc = "idle"
BY DEF IdleRequest, Calls, Scopes, Nothing, Actions

\* What a step that leaves the requests, the policy and the account alone keeps of the calls.
LEMMA CallsKept ==
  ASSUME AccessInv, request' = request, policy' = policy
  PROVE  PermittedTrue' /\ ServedWithinRights'
BY DEF AccessInv, PermittedTrue, ServedWithinRights, MethodNames, HasPermission, RequiredVerb,
       Needs, SpecPermission, Offered

\* A management request loads the row, or writes it back, whole or in part.
LEMMA ManageStep ==
  ASSUME AccessInv, NEW m \in Managers,
         Load(m) \/ Rename(m) \/ AdminEdit(m) \/ Rotate(m) \/ DeactivateToken(m) \/ Destroy(m)
  PROVE  AccessInv'
<1>1. PICK n \in Nat : n = minted
  BY DEF AccessInv, AccessTypes
<1>2. /\ token \in TokenRows(n) /\ dead \subseteq 0..n /\ off \in BOOLEAN
      /\ manager \in [Managers -> [kind : Management, copy : TokenRows(n)]]
  BY <1>1 DEF AccessInv, AccessTypes
<1>3. manager[m].copy \in TokenRows(n) /\ [kind |-> Nothing, copy |-> NoTokenRow] \in [kind : Management, copy : TokenRows(n)]
  BY <1>2, NoRowTyped DEF Nothing, Management
<1>4. policy' = policy /\ request' = request /\ owner' = owner
  BY DEF Load, Rename, AdminEdit, Rotate, DeactivateToken, Destroy, Done, Written
<1>5. policy' \in Policies /\ owner' \in [active : BOOLEAN, perms : SUBSET Permissions] /\ request' \in [Workers -> Calls]
  BY <1>4 DEF AccessInv, AccessTypes
<1>6. CASE Load(m)
  <2>1. minted' = minted /\ token' = token /\ dead' = dead /\ off' = off
    BY <1>6 DEF Load
  <2>2. PICK k \in {"rename", "rotate", "deactivate", "edit", "destroy"} :
          manager' = [manager EXCEPT ![m] = [kind |-> k, copy |-> token]]
    BY <1>6 DEF Load
  <2>3. [kind |-> k, copy |-> token] \in [kind : Management, copy : TokenRows(n)]
    BY <1>2 DEF Management
  <2>4. manager' \in [Managers -> [kind : Management, copy : TokenRows(n)]]
    BY <1>2, <2>2, <2>3
  <2>5. AccessTypes'
    BY <1>1, <1>2, <1>5, <2>1, <2>4 DEF AccessTypes
  <2>6. RevocationSticks'
    BY <2>1 DEF RevocationSticks, AccessInv
  <2> QED BY <1>4, <2>5, <2>6, CallsKept DEF AccessInv
<1>7. ASSUME NEW act, Done(m, act) PROVE manager' \in [Managers -> [kind : Management, copy : TokenRows(n)]]
  BY <1>2, <1>3, <1>7 DEF Done, Quiet
<1>8. ASSUME NEW copy \in TokenRows(n), NEW act, Done(m, act), Written(copy) PROVE AccessInv'
  <2>1. token' = copy /\ dead' = dead \ {copy.key} /\ off' = ~copy.active /\ minted' = n
    BY <1>1, <1>8 DEF Written
  <2>2. copy.active \in BOOLEAN
    BY DEF TokenRows
  <2>3. off' \in BOOLEAN
    BY <2>1, <2>2
  <2>4. token' \in TokenRows(minted') /\ dead' \subseteq 0..minted' /\ minted' \in Nat
    BY <1>2, <2>1
  <2>5. AccessTypes'
    BY <1>5, <1>7, <1>8, <2>1, <2>3, <2>4 DEF AccessTypes
  <2>6. RevocationSticks'
    BY <2>1, <2>2 DEF RevocationSticks
  <2> QED BY <1>4, <2>5, <2>6, CallsKept DEF AccessInv
<1>9. CASE Rename(m)
  BY <1>3, <1>8, <1>9 DEF Rename
<1>10. CASE AdminEdit(m)
  <2>1. PICK alive \in BOOLEAN, expired \in BOOLEAN, s \in Scopes :
          Written([manager[m].copy EXCEPT !.active = alive, !.expired = expired, !.scope = s])
    BY <1>10 DEF AdminEdit
  <2>2. [manager[m].copy EXCEPT !.active = alive, !.expired = expired, !.scope = s] \in TokenRows(n)
    BY <1>3 DEF TokenRows
  <2>3. Done(m, "edit")
    BY <1>10 DEF AdminEdit
  <2>4. PICK copy \in TokenRows(n) : copy = [manager[m].copy EXCEPT !.active = alive, !.expired = expired, !.scope = s]
    BY <2>2
  <2> QED BY <1>8, <2>1, <2>3, <2>4
<1>11. CASE Rotate(m)
  <2>1. manager' \in [Managers -> [kind : Management, copy : TokenRows(n)]] /\ off' = off
    BY <1>7, <1>11 DEF Rotate
  <2>2. CASE token = NoTokenRow
    <3>1. token' = token /\ minted' = minted /\ dead' = dead
      BY <1>11, <2>2 DEF Rotate
    <3>2. AccessTypes' /\ RevocationSticks'
      BY <1>1, <1>2, <1>5, <2>1, <3>1 DEF AccessTypes, RevocationSticks, AccessInv
    <3> QED BY <1>4, <3>2, CallsKept DEF AccessInv
  <2>3. CASE token # NoTokenRow
    <3>1. minted' = n + 1 /\ token' = [token EXCEPT !.key = n + 1] /\ dead' = dead \cup {token.key}
      BY <1>1, <1>11, <2>3 DEF Rotate, Rotated
    <3>2. token.key \in 0..n
      BY <1>2 DEF TokenRows
    <3>3. token' \in TokenRows(n + 1) /\ token'.key = n + 1 /\ token'.active = token.active
      BY <1>2, <3>1 DEF TokenRows
    <3>4. dead' \subseteq 0..n /\ n + 1 \notin dead' /\ 0..n \subseteq 0..(n + 1) /\ n + 1 \in Nat
      BY <1>2, <3>1, <3>2
    <3>5. manager' \in [Managers -> [kind : Management, copy : TokenRows(n + 1)]]
      BY <2>1, RowsGrow
    <3>6. AccessTypes'
      BY <1>2, <1>5, <2>1, <3>1, <3>3, <3>4, <3>5 DEF AccessTypes
    <3>7. RevocationSticks'
      BY <2>1, <3>3, <3>4 DEF RevocationSticks, AccessInv
    <3> QED BY <1>4, <3>6, <3>7, CallsKept DEF AccessInv
  <2> QED BY <2>2, <2>3
<1>12. CASE DeactivateToken(m) \/ Destroy(m)
  <2>1. manager' \in [Managers -> [kind : Management, copy : TokenRows(n)]] /\ minted' = n
    BY <1>1, <1>7, <1>12 DEF DeactivateToken, Destroy
  <2>2. token.key \in 0..n
    BY <1>2 DEF TokenRows
  <2>3. dead' \subseteq 0..n /\ off' \in BOOLEAN
    BY <1>2, <1>12, <2>2 DEF DeactivateToken, Destroy
  <2>4. [token EXCEPT !.active = FALSE] \in TokenRows(n) /\ [token EXCEPT !.active = FALSE].active = FALSE
    BY <1>2 DEF TokenRows
  <2>5. token' \in TokenRows(n) /\ token'.active = FALSE
    BY <1>1, <1>12, <2>4, NoRowTyped DEF DeactivateToken, Destroy, Deactivated
  <2>6. AccessTypes' /\ RevocationSticks'
    BY <1>5, <2>1, <2>3, <2>5 DEF AccessTypes, RevocationSticks
  <2> QED BY <1>4, <2>6, CallsKept DEF AccessInv
<1> QED BY <1>6, <1>9, <1>10, <1>11, <1>12

LEMMA AccountStep == ASSUME AccessInv, ExpireToken \/ SetPermissions \/ Disable PROVE AccessInv'
<1>1. UNCHANGED <<policy, request, minted, dead, off, manager>>
  BY DEF ExpireToken, SetPermissions, Disable, Change
<1>2. owner' \in [active : BOOLEAN, perms : SUBSET Permissions]
  <2>1. CASE ExpireToken
    BY <2>1 DEF ExpireToken, AccessInv, AccessTypes
  <2>2. CASE SetPermissions
    <3>1. PICK p \in PermissionSets : owner' = [owner EXCEPT !.perms = p]
      BY <2>2 DEF SetPermissions, Change
    <3>2. p \in SUBSET Permissions
      BY ApiAccessAssumption DEF Permissions
    <3> QED BY <3>1, <3>2 DEF AccessInv, AccessTypes
  <2>3. CASE Disable
    BY <2>3 DEF Disable, Change, AccessInv, AccessTypes
  <2> QED BY <2>1, <2>2, <2>3
<1>3. token' \in TokenRows(minted) /\ token'.key = token.key /\ token'.active = token.active
  BY DEF ExpireToken, SetPermissions, Disable, Change, AccessInv, AccessTypes, TokenRows
<1>4. AccessTypes' /\ RevocationSticks'
  BY <1>1, <1>2, <1>3 DEF AccessInv, AccessTypes, RevocationSticks
<1> QED BY <1>1, <1>4, CallsKept DEF AccessInv

\* A permission that is needed is the one that was asked for.
LEMMA NeedsAsked == \A a : RequiredVerb(a) # Nothing => Needs(a) = RequiredVerb(a) /\ a # "dispatch_action"
BY DEF RequiredVerb, Needs, Reading, Nothing, Verbs

LEMMA OffersTaken ==
  \A a, method : policy.registered /\ method \in MethodNames(a) => Offered(a, method)
BY DEF MethodNames, Offered

\* One request to the model moves on.
LEMMA RequestMoves ==
  ASSUME AccessInv, NEW w \in Workers, NEW x \in Calls, request' = [request EXCEPT ![w] = x], Rest,
         x.pc = "handle" => /\ policy.registered /\ x.action # Nothing
                            /\ x.method \in MethodNames(x.action) /\ HasPermission(x, x.action),
         x.pc = "served" => /\ policy.registered /\ Offered(x.action, x.method) /\ x.scope # "other"
                            /\ x.perms \cap {Needs(x.action), "super"} # {}
                            /\ (x.action = "destroy" => policy.deletable)
  PROVE  AccessInv'
<1>1. \A v \in Workers : request'[v] = IF v = w THEN x ELSE request[v]
  BY DEF AccessInv, AccessTypes
<1>2. UNCHANGED <<policy, owner, token, minted, dead, off, manager>>
  BY DEF Rest
<1>3. AccessTypes' /\ RevocationSticks'
  BY <1>2 DEF AccessInv, AccessTypes, RevocationSticks
<1>4. PermittedTrue'
  <2> SUFFICES ASSUME NEW v \in Workers, request'[v].pc = "handle"
               PROVE  /\ policy.registered /\ request'[v].action # Nothing
                      /\ request'[v].method \in MethodNames(request'[v].action)
                      /\ HasPermission(request'[v], request'[v].action)
    BY <1>2 DEF PermittedTrue, MethodNames, HasPermission, RequiredVerb
  <2> QED BY <1>1 DEF AccessInv, PermittedTrue
<1>5. ServedWithinRights'
  <2> SUFFICES ASSUME NEW v \in Workers, request'[v].pc = "served"
               PROVE  /\ policy.registered /\ Offered(request'[v].action, request'[v].method)
                      /\ request'[v].scope # "other"
                      /\ request'[v].perms \cap {Needs(request'[v].action), "super"} # {}
                      /\ (request'[v].action = "destroy" => policy.deletable)
    BY <1>2 DEF ServedWithinRights, Offered, Needs, SpecPermission
  <2> QED BY <1>1 DEF AccessInv, ServedWithinRights
<1> QED BY <1>3, <1>4, <1>5 DEF AccessInv

LEMMA RefusedKeeps == ASSUME AccessInv, NEW w \in Workers, RefuseRequest(w), Rest PROVE AccessInv'
BY CallTyped, RequestMoves DEF RefuseRequest

LEMMA ServeStep ==
  ASSUME AccessInv, NEW w \in Workers,
         AuthenticateRequest(w) \/ Permit(w) \/ DispatchAction(w) \/ Handle(w) \/ Finish(w)
  PROVE  AccessInv'
<1>1. request[w] \in Calls /\ owner \in [active : BOOLEAN, perms : SUBSET Permissions] /\ token.scope \in Scopes
  BY DEF AccessInv, AccessTypes, TokenRows
<1>2. PermsRead(request[w]) \in Calls
  BY <1>1 DEF PermsRead, Calls
<1>3. CASE AuthenticateRequest(w)
  <2>1. PICK route \in Routes, method \in Methods, scheme \in Schemes, number \in 1..minted :
          IF owner.active /\ (scheme = "token" => Accepts(number))
          THEN request' = [request EXCEPT ![w] =
                 [IdleRequest EXCEPT !.pc = "permit", !.active = TRUE, !.perms = owner.perms \cap {"super"},
                              !.action = ActionOf(route, method), !.method = method,
                              !.scope = IF scheme = "token" THEN token.scope ELSE "this"]]
          ELSE RefuseRequest(w)
    BY <1>3 DEF AuthenticateRequest
  <2>2. Rest
    BY <1>3 DEF AuthenticateRequest
  <2>3. ActionOf(route, method) \in Actions
    BY DEF ActionOf, Actions, Reading, Routes, Methods, Nothing
  <2> DEFINE x == [IdleRequest EXCEPT !.pc = "permit", !.active = TRUE, !.perms = owner.perms \cap {"super"},
                               !.action = ActionOf(route, method), !.method = method,
                               !.scope = IF scheme = "token" THEN token.scope ELSE "this"]
  <2>4. x \in Calls /\ x.pc = "permit"
    <3>1. owner.perms \cap {"super"} \in SUBSET Permissions
      BY <1>1
    <3>2. (IF scheme = "token" THEN token.scope ELSE "this") \in Scopes
      BY <1>1 DEF Scopes
    <3> QED BY <2>3, <3>1, <3>2, CallTyped DEF Calls, IdleRequest
  <2>5. RefuseRequest(w) \/ request' = [request EXCEPT ![w] = x]
    BY <2>1
  <2> HIDE DEF x
  <2> QED BY <2>2, <2>4, <2>5, RefusedKeeps, RequestMoves
<1>4. CASE Permit(w)
  <2> DEFINE r == PermsRead(request[w])
             x == [request[w] EXCEPT !.pc = "handle", !.perms = IF r.action = "dispatch_action" THEN @ ELSE r.perms]
  <2>1. Rest
    BY <1>4 DEF Permit
  <2>2. CASE HasPermission(r, r.action) /\ policy.registered /\ r.action # Nothing /\ r.method \in MethodNames(r.action)
    <3>1. request' = [request EXCEPT ![w] = x]
      BY <1>4, <2>2 DEF Permit
    <3>2. /\ x \in Calls /\ x.pc = "handle" /\ x.action = r.action /\ x.method = r.method
          /\ x.scope = r.scope /\ x.active = r.active /\ (r.action # "dispatch_action" => x.perms = r.perms)
      BY <1>1, <1>2 DEF Calls, PermsRead
    <3>3. HasPermission(x, x.action)
      BY <2>2, <3>2, NeedsAsked DEF HasPermission, CanAccessModel, AccountHas
    <3> HIDE DEF x, r
    <3> QED BY <2>1, <2>2, <3>1, <3>2, <3>3, RequestMoves
  <2>3. CASE ~(HasPermission(r, r.action) /\ policy.registered /\ r.action # Nothing /\ r.method \in MethodNames(r.action))
    <3>1. RefuseRequest(w)
      BY <1>4, <2>3 DEF Permit
    <3> QED BY <2>1, <3>1, RefusedKeeps
  <2> QED BY <2>2, <2>3
<1>5. CASE DispatchAction(w)
  <2> DEFINE r == PermsRead(request[w])
             x == [r EXCEPT !.pc = "served"]
  <2>1. Rest /\ request[w].pc = "handle" /\ request[w].action = "dispatch_action"
    BY <1>1, <1>5 DEF DispatchAction, PermsRead, Calls
  <2>2. CASE policy.spec.declared /\ r.method \in policy.spec.methods /\ AccountHas(r, SpecPermission)
    <3>1. request' = [request EXCEPT ![w] = x]
      BY <1>5, <2>2 DEF DispatchAction
    <3>2. /\ x \in Calls /\ x.pc = "served" /\ x.action = "dispatch_action" /\ x.method = request[w].method
          /\ x.scope = request[w].scope /\ x.perms = r.perms
      BY <1>1, <1>2, <2>1 DEF Calls, PermsRead
    <3>3. policy.registered /\ Offered(x.action, x.method)
      BY <2>1, <3>2, OffersTaken DEF AccessInv, PermittedTrue
    <3>4. x.scope # "other"
      <4>1. HasPermission(request[w], "dispatch_action") /\ "dispatch_action" # Nothing
        BY <2>1 DEF AccessInv, PermittedTrue, Nothing
      <4> QED BY <3>2, <4>1 DEF HasPermission, CanAccessModel
    <3>5. x.perms \cap {Needs(x.action), "super"} # {}
      <4>1. Needs("dispatch_action") = SpecPermission
        BY DEF Needs, Reading
      <4> QED BY <2>2, <3>2, <4>1 DEF AccountHas
    <3> HIDE DEF x, r
    <3> QED BY <2>1, <3>1, <3>2, <3>3, <3>4, <3>5, RequestMoves
  <2>3. CASE ~(policy.spec.declared /\ r.method \in policy.spec.methods /\ AccountHas(r, SpecPermission))
    <3>1. RefuseRequest(w)
      BY <1>5, <2>3 DEF DispatchAction
    <3> QED BY <2>1, <3>1, RefusedKeeps
  <2> QED BY <2>2, <2>3
<1>6. CASE Handle(w)
  <2> DEFINE r == request[w]
             x == [r EXCEPT !.pc = "served"]
  <2>1. Rest /\ r.pc = "handle" /\ r.action # "dispatch_action"
    BY <1>6 DEF Handle
  <2>2. CASE ~(r.action = "destroy" /\ ~policy.deletable)
    <3>1. request' = [request EXCEPT ![w] = x]
      BY <1>6, <2>2 DEF Handle
    <3>2. /\ x \in Calls /\ x.pc = "served" /\ x.action = r.action /\ x.method = r.method
          /\ x.scope = r.scope /\ x.perms = r.perms
      BY <1>1 DEF Calls
    <3>3. /\ policy.registered /\ r.action # Nothing
          /\ r.method \in MethodNames(r.action) /\ HasPermission(r, r.action)
      BY <2>1 DEF AccessInv, PermittedTrue
    <3>4. RequiredVerb(r.action) # Nothing /\ CanAccessModel(r.scope) /\ AccountHas(r, RequiredVerb(r.action))
      BY <2>1, <3>3 DEF HasPermission
    <3>5. x.scope # "other" /\ x.perms \cap {Needs(x.action), "super"} # {}
      BY <3>2, <3>4, NeedsAsked DEF CanAccessModel, AccountHas
    <3>6. Offered(x.action, x.method)
      BY <3>2, <3>3, OffersTaken
    <3>7. x.action = "destroy" => policy.deletable
      BY <2>2, <3>2
    <3> HIDE DEF x, r
    <3> QED BY <2>1, <3>1, <3>2, <3>3, <3>5, <3>6, <3>7, RequestMoves
  <2>3. CASE r.action = "destroy" /\ ~policy.deletable
    <3>1. RefuseRequest(w)
      BY <1>6, <2>3 DEF Handle
    <3> QED BY <2>1, <3>1, RefusedKeeps
  <2> QED BY <2>2, <2>3
<1>7. CASE Finish(w)
  BY <1>7, CallTyped, RequestMoves DEF Finish
<1> QED BY <1>3, <1>4, <1>5, <1>6, <1>7

\* api/authentication.py and api/views.py, for every number of requests and managers,
\* every declaration of the model and every set of permissions: a revoked key lets
\* nobody in until a whole row that has it alive is written back, and a served call is
\* one the model offers, within the token's models and the permissions that were checked.
THEOREM AccessBoundedHolds == AccessSpec => []AccessBounded
<1>1. AccessInit => AccessInv
  <2> SUFFICES ASSUME AccessInit PROVE AccessInv
    OBVIOUS
  <2>1. PICK perms \in PermissionSets : owner = [active |-> TRUE, perms |-> perms]
    BY DEF AccessInit
  <2>2. perms \in SUBSET Permissions
    BY ApiAccessAssumption DEF Permissions
  <2>3. PICK s \in Scopes : token = [key |-> 1, active |-> TRUE, expired |-> FALSE, scope |-> s]
    BY DEF AccessInit
  <2>4. minted = 1 /\ dead = {} /\ off = FALSE /\ policy \in Policies
    BY DEF AccessInit
  <2>5. Quiet \in [kind : Management, copy : TokenRows(1)]
    BY NoRowTyped DEF Quiet, Management, Nothing
  <2>6. manager \in [Managers -> [kind : Management, copy : TokenRows(1)]] /\ request \in [Workers -> Calls]
    BY <2>5, CallTyped DEF AccessInit
  <2>7. token \in TokenRows(1) /\ owner \in [active : BOOLEAN, perms : SUBSET Permissions]
    BY <2>1, <2>2, <2>3 DEF TokenRows
  <2>8. AccessTypes /\ RevocationSticks
    BY <2>4, <2>6, <2>7 DEF AccessTypes, RevocationSticks
  <2>9. PermittedTrue /\ ServedWithinRights
    BY CallTyped DEF AccessInit, PermittedTrue, ServedWithinRights
  <2> QED BY <2>8, <2>9 DEF AccessInv
<1>2. AccessInv /\ [AccessNext]_accessVars => AccessInv'
  <2> SUFFICES ASSUME AccessInv, [AccessNext]_accessVars PROVE AccessInv'
    OBVIOUS
  <2>1. CASE AccessNext
    BY <2>1, ManageStep, AccountStep, ServeStep DEF AccessNext
  <2>2. CASE UNCHANGED accessVars
    <3>1. UNCHANGED <<policy, owner, token, minted, dead, off, manager, request>>
      BY <2>2 DEF accessVars
    <3>2. AccessTypes' /\ RevocationSticks'
      BY <3>1 DEF AccessInv, AccessTypes, RevocationSticks
    <3> QED BY <3>1, <3>2, CallsKept DEF AccessInv
  <2> QED BY <2>1, <2>2
<1>3. AccessInv => AccessBounded
  BY DEF AccessInv, AccessBounded
<1> QED BY <1>1, <1>2, <1>3, PTL DEF AccessSpec

-----------------------------------------------------------------------------
(* FieldAccess: raw values of one model's row, by every door.              *)

Entries == [field : Fields, stored : {"raw", "redacted"}, message : {"raw", "null", "masked", "constant", "rewritten", "redacted"}]

\* What an export runs for, and what the audit trail holds, raw or for everyone.
FieldTypes ==
  /\ model \in Models /\ active \in [Users -> BOOLEAN] /\ holds \in [Users -> SUBSET Perms]
  /\ job.status \in {"none", "pending", "completed"} /\ (job.status # "none" => job.by \in Users)
  /\ trail \subseteq Entries
TrailMasked == \A r \in trail : r.message = "raw" => r.field \notin MaskedFields

FieldInv == FieldTypes /\ TrailMasked /\ RawOnlyToEntitled

\* Whoever the masking lets see a field is entitled to it, and no rule answers "raw".
LEMMA MaskingHonest ==
  ASSUME FieldTypes, NEW u \in Users, NEW f \in Fields
  PROVE  /\ (CanViewField(u, f) => active[u] /\ holds[u] \cap Unlocks(f) # {})
         /\ \A v : ApplyRule(RuleFor(f), v) # "raw"
         /\ \A v : (MaskField(u, f, v) = "raw" => active[u] /\ holds[u] \cap Unlocks(f) # {})
         /\ (CanViewPii(u) => CanViewField(u, f))
         /\ (Sensitive(f) <=> f \in MaskedFields)
         /\ (CanRead(u, f) <=> Granted(u, model.read, f)) /\ (CanWrite(u, f) <=> Granted(u, model.write, f))
<1>1. CanViewField(u, f) => active[u] /\ holds[u] \cap Unlocks(f) # {}
  BY DEF CanViewField, CanViewPii, HasPerm, AccessCheckAllows, Unlocks, RuleFor, NoRule, NoName, Super, Pii, Staff
<1>2. \A v : MaskValue(v) # "raw"
  BY DEF MaskValue
<1>3. \A v : ApplyRule(RuleFor(f), v) # "raw"
  BY <1>2 DEF ApplyRule
<1>4. \A v : MaskField(u, f, v) = "raw" => CanViewField(u, f)
  BY <1>3 DEF MaskField
<1> QED BY <1>1, <1>3, <1>4 DEF CanViewField, Sensitive, MaskedFields, EncryptedFields, CanRead, CanWrite, Granted, HasPerm

\* A user who may see a field raw is entitled to it at the doors without column rights.
LEMMA AdminEntitles ==
  ASSUME FieldTypes, NEW u \in Users, NEW f \in Fields,
         f \in MaskedFields => CanViewField(u, f)
  PROVE  f \in Entitled(u, "admin")
BY MaskingHonest DEF Entitled

LEMMA ApiEntitles ==
  ASSUME FieldTypes, NEW u \in Users, NEW f \in Fields,
         f \in MaskedFields => CanViewField(u, f), CanRead(u, f)
  PROVE  f \in Entitled(u, "api")
BY MaskingHonest DEF Entitled

\* What is not hidden from a filter, an ordering or a search is readable and unmasked.
LEMMA NotHidden ==
  ASSUME FieldTypes, NEW u \in Users, NEW f \in Fields, Name(f) \notin Hidden(u) \/ Column(f) \notin Hidden(u)
  PROVE  f \in Entitled(u, "api")
<1>1. f \notin HiddenFields(u)
  BY DEF Hidden
<1> QED BY <1>1, ApiEntitles, MaskingHonest DEF HiddenFields

LEMMA SerializedEntitles ==
  ASSUME FieldTypes, NEW u \in Users, NEW f \in Fields, NEW v, Serialized(u, f, v) = "raw" \/ Resolved(u, f, v) = "raw"
  PROVE  f \in Entitled(u, "api")
<1>1. CanRead(u, f) /\ (f \in MaskedFields => CanViewPii(u) \/ MaskField(u, f, v) = "raw")
  BY DEF Serialized, Resolved
<1>2. f \in MaskedFields => CanViewField(u, f)
  BY <1>1, MaskingHonest DEF MaskField
<1> QED BY <1>1, <1>2, ApiEntitles

\* A request leaves the accounts alone, so what it gives away is judged by them.
LEMMA EntitledKept ==
  ASSUME UNCHANGED <<model, active, holds>>
  PROVE  /\ \A u, door : Entitled(u, door)' = Entitled(u, door)
         /\ \A door : Unguarded(door)' = Unguarded(door)
BY DEF Entitled, Sensitive, Unlocks, Granted, Unguarded

LEMMA GivesBothKeeps ==
  ASSUME FieldInv, NEW u \in Users, NEW door \in {"api", "admin", "write", "filter"}, NEW S, S \subseteq Entitled(u, door),
         NEW T, T \subseteq Entitled(u, door) \cup Unguarded(door), GivesBoth(u, door, S, T), Reads
  PROVE  FieldInv'
<1>1. FieldTypes' /\ TrailMasked'
  BY DEF FieldInv, FieldTypes, TrailMasked, Reads, MaskedFields, EncryptedFields
<1>2. given'.user = u /\ given'.door = door /\ given'.fields = S /\ given'.unchecked = T
  BY DEF GivesBoth
<1>3. \A v, d : Entitled(v, d)' = Entitled(v, d) /\ Unguarded(d)' = Unguarded(d)
  BY EntitledKept DEF Reads
<1>4. RawOnlyToEntitled'
  BY <1>2, <1>3 DEF RawOnlyToEntitled
<1> QED BY <1>1, <1>4 DEF FieldInv

LEMMA GivesKeeps ==
  ASSUME FieldInv, NEW u \in Users, NEW door \in {"api", "admin", "write", "filter"}, NEW S, S \subseteq Entitled(u, door),
         Gives(u, door, S), Reads
  PROVE  FieldInv'
BY GivesBothKeeps DEF Gives

LEMMA ModelTyped ==
  ASSUME FieldTypes
  PROVE  IsModel(model) /\ model.search \subseteq SUBSET Fields /\ model.indexed \subseteq Fields
         /\ model.label \subseteq Fields /\ model.encrypted \subseteq MaskedFields
BY FieldAccessAssumption DEF FieldTypes, IsModel, MaskedFields, EncryptedFields

LEMMA SearchEntitles ==
  ASSUME FieldTypes, NEW u \in Users, NEW searched
  PROVE  /\ SearchChecked(u, searched) \subseteq Entitled(u, "api")
         /\ \A matched \in SearchUnchecked(searched) : matched \subseteq Unguarded("api")
<1>1. ASSUME NEW path \in VisibleSearch(u), NEW f \in path PROVE f \in Entitled(u, "api")
  <2>1. path \in SUBSET Fields /\ Name(f) \notin Hidden(u)
    BY ModelTyped DEF VisibleSearch
  <2> QED BY <2>1, NotHidden
<1> QED BY <1>1 DEF SearchChecked, SearchUnchecked, Unguarded

LEMMA MatchEntitles ==
  ASSUME FieldTypes, NEW u \in Users, NEW sent, NEW visible,
         visible = VisibleFilters(u) \/ visible = VisibleOrdering(u)
  PROVE  Matched(sent, visible) \subseteq Entitled(u, "api")
<1> SUFFICES ASSUME NEW n \in visible PROVE n.field \in Entitled(u, "api")
  BY DEF Matched
<1>1. CASE visible = VisibleFilters(u)
  <2>1. PICK f \in Fields : n = Column(f) /\ n \notin Hidden(u)
    BY <1>1 DEF VisibleFilters, Filters
  <2>2. n.field = f
    BY <2>1 DEF Column
  <2> QED BY <2>1, <2>2, NotHidden
<1>2. CASE visible = VisibleOrdering(u)
  <2>1. PICK f \in Fields : n = Name(f) /\ n \notin Hidden(u)
    BY <1>2 DEF VisibleOrdering
  <2>2. n.field = f
    BY <2>1 DEF Name
  <2> QED BY <2>1, <2>2, NotHidden
<1> QED BY <1>1, <1>2

\* The REST and GraphQL reads.
LEMMA ApiStep ==
  ASSUME FieldInv, NEW u \in Users, Listing(u) \/ FetchBy(u) \/ GraphQL(u)
  PROVE  FieldInv'
<1> DEFINE Shown == {f \in Fields : \E v \in Values : Serialized(u, f, v) = "raw"}
           Named == {f \in Fields : \E v \in Values : Resolved(u, f, v) = "raw"}
<1>0. FieldTypes
  BY DEF FieldInv
<1>1. Shown \subseteq Entitled(u, "api") /\ Named \subseteq Entitled(u, "api")
  BY <1>0, SerializedEntitles
<1>2. Reads
  BY DEF Listing, FetchBy, GraphQL
<1>3. CASE Listing(u)
  <2>1. PICK filters \in AtMostOne(Names), order \in AtMostOne({Name(f) : f \in Fields}), searched \in BOOLEAN :
          \E matched \in SearchUnchecked(searched) :
            GivesBoth(u, "api", Shown \cup Matched(filters, VisibleFilters(u)) \cup Matched(order, VisibleOrdering(u))
                                     \cup SearchChecked(u, searched), matched)
    BY <1>3 DEF Listing
  <2>2. PICK S : S = Shown \cup Matched(filters, VisibleFilters(u)) \cup Matched(order, VisibleOrdering(u))
                     \cup SearchChecked(u, searched)
    OBVIOUS
  <2>3. PICK matched \in SearchUnchecked(searched) : GivesBoth(u, "api", S, matched)
    BY <2>1, <2>2
  <2> HIDE DEF Shown
  <2>4. Matched(filters, VisibleFilters(u)) \subseteq Entitled(u, "api")
    BY <1>0, MatchEntitles
  <2>5. Matched(order, VisibleOrdering(u)) \subseteq Entitled(u, "api")
    BY <1>0, MatchEntitles
  <2>6. S \subseteq Entitled(u, "api") /\ matched \subseteq Entitled(u, "api") \cup Unguarded("api")
    BY <1>0, <1>1, <2>2, <2>4, <2>5, SearchEntitles
  <2> QED BY <1>2, <2>3, <2>6, GivesBothKeeps
<1>4. CASE FetchBy(u)
  <2>1. PICK f \in model.indexed : Name(f) \notin Hidden(u) /\ Gives(u, "api", {f} \cup Shown)
    BY <1>4 DEF FetchBy
  <2>2. f \in Entitled(u, "api")
    BY <1>0, <2>1, ModelTyped, NotHidden
  <2>3. PICK S : S = {f} \cup Shown
    OBVIOUS
  <2> HIDE DEF Shown
  <2> QED BY <1>1, <1>2, <2>1, <2>2, <2>3, GivesKeeps
<1>5. CASE GraphQL(u)
  <2>1. PICK searched \in BOOLEAN :
          \E matched \in SearchUnchecked(searched) :
            GivesBoth(u, "api", Named \cup SearchChecked(u, searched), matched)
    BY <1>5 DEF GraphQL
  <2>2. PICK S : S = Named \cup SearchChecked(u, searched)
    OBVIOUS
  <2>3. PICK matched \in SearchUnchecked(searched) : GivesBoth(u, "api", S, matched)
    BY <2>1, <2>2
  <2> HIDE DEF Named
  <2>4. S \subseteq Entitled(u, "api") /\ matched \subseteq Entitled(u, "api") \cup Unguarded("api")
    BY <1>0, <1>1, <2>2, SearchEntitles
  <2> QED BY <1>2, <2>3, <2>4, GivesBothKeeps
<1> QED BY <1>3, <1>4, <1>5

LEMMA WriteStep == ASSUME FieldInv, NEW u \in Users, Write(u) PROVE FieldInv'
<1>0. FieldTypes /\ Reads /\ active[u]
  BY DEF FieldInv, Write
<1>1. PICK body \in SUBSET Fields :
        /\ \A f \in (body \cap model.writable) \ model.excluded : CanWrite(u, f)
        /\ Gives(u, "write", (body \cap model.writable) \ model.excluded)
  BY DEF Write
<1>2. (body \cap model.writable) \ model.excluded \subseteq Entitled(u, "write")
  BY <1>0, <1>1, MaskingHonest DEF Entitled
<1> QED BY <1>0, <1>1, <1>2, GivesKeeps

\* The admin's pages, the timeline and the audit rows.
LEMMA AdminStep ==
  ASSUME FieldInv, NEW u \in Users,
         ChangeList(u) \/ ChangeForm(u) \/ Timeline(u) \/ AuditForm(u) \/ AdminHistory(u) \/ AuditLabels(u)
  PROVE  FieldInv'
<1>0. FieldTypes /\ TrailMasked /\ Reads
  BY DEF FieldInv, ChangeList, ChangeForm, Timeline, AuditForm, AdminHistory, AuditLabels
<1>1. ASSUME NEW S \in SUBSET Fields, \A f \in S : f \in MaskedFields => CanViewField(u, f), Gives(u, "admin", S)
      PROVE  FieldInv'
  <2>1. S \subseteq Entitled(u, "admin")
    BY <1>0, <1>1, AdminEntitles
  <2> QED BY <1>0, <1>1, <2>1, GivesKeeps
<1>2. \A f \in Fields : \A v : f \in MaskedFields => (MaskField(u, f, v) = "raw" => CanViewField(u, f)) /\ MaskForAll(f, v) # "raw"
  BY <1>0, MaskingHonest DEF MaskField, MaskForAll
<1>3. \A f \in Fields : CanViewPii(u) => CanViewField(u, f)
  BY DEF CanViewField
<1>4. \A r \in trail : r.field \in Fields
  BY <1>0 DEF FieldTypes, Entries
<1>5. CASE ChangeList(u)
  <2>1. PICK S : S = {f \in Fields : f \in MaskedFields /\ ~CanViewPii(u) => \E v \in Values : MaskField(u, f, v) = "raw"}
    OBVIOUS
  <2>2. S \in SUBSET Fields /\ \A f \in S : f \in MaskedFields => CanViewField(u, f)
    BY <1>2, <1>3, <2>1
  <2> QED BY <1>1, <1>5, <2>1, <2>2 DEF ChangeList
<1>6. CASE ChangeForm(u)
  <2>1. FormFields(u) \in SUBSET Fields /\ \A f \in FormFields(u) : f \in MaskedFields => CanViewField(u, f)
    BY <1>3 DEF FormFields
  <2>2. PICK S : S = FormFields(u)
    OBVIOUS
  <2> QED BY <1>1, <1>6, <2>1, <2>2 DEF ChangeForm
<1>7. CASE Timeline(u)
  <2>1. PICK v \in Values : Gives(u, "admin", {r.field : r \in {s \in trail :
          s.stored = "raw" /\ (s.field \in MaskedFields => MaskField(u, s.field, v) = "raw")}})
    BY <1>7 DEF Timeline
  <2>2. PICK S : S = {r.field : r \in {s \in trail :
          s.stored = "raw" /\ (s.field \in MaskedFields => MaskField(u, s.field, v) = "raw")}}
    OBVIOUS
  <2>3. S \in SUBSET Fields /\ \A f \in S : f \in MaskedFields => CanViewField(u, f)
    BY <1>2, <1>4, <2>2
  <2> QED BY <1>1, <2>1, <2>2, <2>3
<1>8. CASE AuditForm(u)
  <2>1. PICK v \in Values : Gives(u, "admin", {r.field : r \in {s \in trail :
          s.stored = "raw" /\ (CanViewPii(u) \/ (s.field \in MaskedFields => MaskForAll(s.field, v) = "raw"))}})
    BY <1>8 DEF AuditForm
  <2>2. PICK S : S = {r.field : r \in {s \in trail :
          s.stored = "raw" /\ (CanViewPii(u) \/ (s.field \in MaskedFields => MaskForAll(s.field, v) = "raw"))}}
    OBVIOUS
  <2>3. S \in SUBSET Fields /\ \A f \in S : f \in MaskedFields => CanViewField(u, f)
    BY <1>2, <1>3, <1>4, <2>2
  <2> QED BY <1>1, <2>1, <2>2, <2>3
<1>9. CASE AdminHistory(u)
  <2>1. PICK S : S = {r.field : r \in {s \in trail : s.message = "raw"}}
    OBVIOUS
  <2>2. S \in SUBSET Fields /\ \A f \in S : f \in MaskedFields => CanViewField(u, f)
    BY <1>0, <1>4, <2>1 DEF TrailMasked
  <2> QED BY <1>1, <1>9, <2>1, <2>2 DEF AdminHistory
<1>10. CASE AuditLabels(u)
  <2>1. PICK S : S = IF LabelHidden(u) THEN {} ELSE model.label
    OBVIOUS
  <2>2. S \in SUBSET Fields /\ \A f \in S : f \in MaskedFields => CanViewField(u, f)
    BY <1>0, <2>1, ModelTyped DEF LabelHidden
  <2> QED BY <1>1, <1>10, <2>1, <2>2 DEF AuditLabels
<1> QED BY <1>5, <1>6, <1>7, <1>8, <1>9, <1>10

LEMMA EditStep == ASSUME FieldInv, NEW u \in Users, Edit(u) PROVE FieldInv'
<1>0. FieldTypes
  BY DEF FieldInv
<1>1. PICK f \in FormFields(u), v \in Values :
        trail' = {[field |-> f,
                   stored |-> IF f \in model.encrypted THEN "redacted" ELSE "raw",
                   message |-> IF f \in model.encrypted THEN "redacted"
                               ELSE IF f \in MaskedFields THEN MaskForAll(f, v) ELSE "raw"]}
  BY DEF Edit
<1>2. f \in Fields
  BY DEF FormFields
<1>3. MaskForAll(f, v) \in {"null", "masked", "constant", "rewritten"}
  BY DEF MaskForAll, ApplyRule, MaskValue
<1>4. /\ \A r \in trail' : r \in Entries /\ (r.message = "raw" => r.field \notin MaskedFields)
  BY <1>1, <1>2, <1>3, <1>0, ModelTyped DEF Entries
<1>5. UNCHANGED <<model, active, holds, job>> /\ given'.user = NoName
  BY DEF Edit, NothingGiven
<1>6. FieldTypes' /\ TrailMasked'
  BY <1>0, <1>4, <1>5 DEF FieldTypes, TrailMasked, MaskedFields, EncryptedFields
<1> QED BY <1>5, <1>6 DEF FieldInv, RawOnlyToEntitled

LEMMA AccountKeeps == ASSUME FieldInv, NEW u \in Users, Grant(u) \/ Revoke(u) \/ Deactivate(u) PROVE FieldInv'
<1>1. UNCHANGED <<model, job, trail>> /\ given'.user = NoName
  BY DEF Grant, Revoke, Deactivate, Account, NothingGiven
<1>2. active' \in [Users -> BOOLEAN] /\ holds' \in [Users -> SUBSET Perms]
  BY DEF Grant, Revoke, Deactivate, FieldInv, FieldTypes
<1>3. FieldTypes' /\ TrailMasked'
  BY <1>1, <1>2 DEF FieldInv, FieldTypes, TrailMasked, MaskedFields, EncryptedFields
<1> QED BY <1>1, <1>3 DEF FieldInv, RawOnlyToEntitled

\* Background exports judge their filters at submission and their rows at the run.
LEMMA ExportStep == ASSUME FieldInv, (\E u \in Users : Submit(u)) \/ RunExport PROVE FieldInv'
<1>0. FieldTypes /\ UNCHANGED <<model, active, holds, trail>>
  BY DEF FieldInv, Submit, RunExport
<1>1. TrailMasked'
  BY <1>0 DEF FieldInv, TrailMasked, MaskedFields, EncryptedFields
<1>2. \A v, d : Entitled(v, d)' = Entitled(v, d) /\ Unguarded(d)' = Unguarded(d)
  BY <1>0, EntitledKept
<1>3. CASE \E u \in Users : Submit(u)
  <2>1. PICK u \in Users : Submit(u)
    BY <1>3
  <2>2. PICK filters \in AtMostOne(ExportFilters) :
          /\ \A n \in filters : ~n.column => n.field \notin ExportMasked(u)
          /\ GivesBoth(u, "filter", {n.field : n \in {x \in filters : ~x.column}},
                                    {n.field : n \in {x \in filters : x.column}})
    BY <2>1 DEF Submit
  <2>3. FieldTypes'
    BY <1>0, <2>1 DEF FieldTypes, Submit
  <2>4. ASSUME NEW n \in filters
        PROVE  IF n.column THEN n.field \in Unguarded("filter") ELSE n.field \in Entitled(u, "filter")
    <3>1. PICK f \in Fields : n = Column(f)
      BY <2>2 DEF AtMostOne, ExportFilters
    <3>2. n.field = f /\ (n.column <=> f \in model.foreign)
      BY <3>1 DEF Column
    <3>3. f \in MaskedFields /\ f \notin model.foreign => CanViewField(u, f)
      BY <2>2, <3>2, <2>4 DEF ExportMasked, CanViewField
    <3> QED BY <1>0, <3>2, <3>3, MaskingHonest DEF Entitled, Unguarded
  <2>5. /\ {n.field : n \in {x \in filters : ~x.column}} \subseteq Entitled(u, "filter")
        /\ {n.field : n \in {x \in filters : x.column}} \subseteq Unguarded("filter")
    BY <2>4
  <2>6. RawOnlyToEntitled'
    BY <1>2, <2>2, <2>5 DEF GivesBoth, RawOnlyToEntitled
  <2> QED BY <1>1, <2>3, <2>6 DEF FieldInv
<1>4. CASE RunExport
  <2>1. job.by \in Users
    BY <1>0, <1>4 DEF FieldTypes, RunExport
  <2>2. PICK u \in Users : u = job.by
    BY <2>1
  <2>3. Gives(u, "admin", {f \in Fields : f \in ExportMasked(u) => \E v \in Values : MaskField(u, f, v) = "raw"})
    BY <1>4, <2>2 DEF RunExport
  <2>4. \A f \in Fields : \A v : MaskField(u, f, v) = "raw" /\ f \in MaskedFields => CanViewField(u, f)
    BY <1>0, MaskingHonest DEF MaskField
  <2>5. {f \in Fields : f \in ExportMasked(u) => \E v \in Values : MaskField(u, f, v) = "raw"} \subseteq Entitled(u, "admin")
    BY <1>0, <2>4, AdminEntitles DEF ExportMasked, CanViewField
  <2>6. RawOnlyToEntitled'
    BY <1>2, <2>3, <2>5 DEF Gives, GivesBoth, RawOnlyToEntitled
  <2>7. FieldTypes'
    <3>1. job' = [job EXCEPT !.status = "completed"] /\ job.status = "pending"
      BY <1>4 DEF RunExport
    <3> QED BY <1>0, <3>1 DEF FieldTypes
  <2> QED BY <1>1, <2>6, <2>7 DEF FieldInv
<1> QED BY <1>3, <1>4

\* masking.py and every surface that asks it, for every model, set of permissions and
\* number of users: no door gives away or lets match a field its caller is not entitled
\* to, nor writes one its caller may not write; what is matched unguarded is a search
\* routed to Elasticsearch and an export's filter by a foreign key's column, no more.
THEOREM RawOnlyToEntitledHolds == FieldSpec => []RawOnlyToEntitled
<1>1. FieldInit => FieldInv
  BY DEF FieldInit, FieldInv, FieldTypes, TrailMasked, RawOnlyToEntitled, NoJob, NothingGiven
<1>2. FieldInv /\ [FieldNext]_fieldVars => FieldInv'
  <2> SUFFICES ASSUME FieldInv, [FieldNext]_fieldVars PROVE FieldInv'
    OBVIOUS
  <2>1. CASE FieldNext
    BY <2>1, AccountKeeps, ApiStep, WriteStep, AdminStep, EditStep, ExportStep DEF FieldNext, Request
  <2>2. CASE UNCHANGED fieldVars
    <3>1. UNCHANGED <<model, active, holds, job, trail, given>>
      BY <2>2 DEF fieldVars
    <3>2. \A u, door : Entitled(u, door)' = Entitled(u, door) /\ Unguarded(door)' = Unguarded(door)
      BY <3>1, EntitledKept
    <3>3. RawOnlyToEntitled'
      BY <3>1, <3>2 DEF FieldInv, RawOnlyToEntitled
    <3>4. FieldTypes' /\ TrailMasked'
      BY <3>1 DEF FieldInv, FieldTypes, TrailMasked, MaskedFields, EncryptedFields
    <3> QED BY <3>3, <3>4 DEF FieldInv
  <2> QED BY <2>1, <2>2
<1>3. FieldInv => RawOnlyToEntitled
  BY DEF FieldInv
<1> QED BY <1>1, <1>2, <1>3, PTL DEF FieldSpec

-----------------------------------------------------------------------------
(* AlertCooldown: one cache key claimed by senders that run side by side.  *)

Places == {"idle", "count", "clear", "arm", "group", "send", "release", "delete"}
Claiming == {"group", "send", "release", "delete"}

CooldownTypes ==
  /\ now \in Nat /\ tokens \in Nat
  /\ key \in [token : 0..tokens, until : Int]
  /\ sender \in [Senders -> [step : Places, token : 0..tokens, force : BOOLEAN]]
  /\ heard \subseteq [token : 1..tokens, at : Int]

\* A claim has one owner, and nobody has heard of it while its owner holds it.
ClaimsOwned ==
  /\ \A s \in Senders : sender[s].token # NoToken => sender[s].step \in Claiming
  /\ \A r, s \in Senders : r # s /\ sender[r].token # NoToken => sender[r].token # sender[s].token
  /\ \A s \in Senders, h \in heard : h.token # sender[s].token

\* Every announced claim is the key's own or a cooldown older than it.
HeardInOrder ==
  /\ key.token # NoToken => key.until - CooldownLength <= now
  /\ \A h \in heard :
       IF key.token = NoToken THEN h.at + CooldownLength <= now
       ELSE IF h.token = key.token THEN h.at = key.until - CooldownLength
            ELSE h.at + CooldownLength <= key.until - CooldownLength

CooldownInv == CooldownTypes /\ ClaimsOwned /\ HeardInOrder /\ CooldownHonest

Locals(n) == [step : Places, token : 0..n, force : BOOLEAN]

LEMMA AlertConstants == CooldownLength \in Nat /\ CooldownLength >= 1
BY AlertAssumption

LEMMA IdleLocals == /\ IdleSender.token = NoToken /\ IdleSender.step = "idle" /\ (\A n \in Nat : IdleSender \in Locals(n))
                    /\ (\A n \in Nat : Free \in [token : 0..n, until : Int]) /\ Free.token = NoToken
BY DEF IdleSender, Locals, Places, NoToken, Free

LEMMA LocalsOf ==
  ASSUME CooldownTypes, NEW s \in Senders
  PROVE  /\ sender[s] \in Locals(tokens) /\ sender \in [Senders -> Locals(tokens)]
         /\ sender[s].step \in Places /\ sender[s].token \in 0..tokens /\ sender[s].token \in Nat
BY DEF CooldownTypes, Locals

\* A step of one sender that claims nothing new and leaves the key and the heard claims alone.
LEMMA SenderMoves ==
  ASSUME CooldownInv, NEW s \in Senders, NEW x \in Locals(tokens), sender' = [sender EXCEPT ![s] = x],
         UNCHANGED <<now, tokens, key, heard>>, silent \subseteq silent',
         x.token = NoToken \/ (x.token = sender[s].token /\ x.step \in Claiming),
         WindowClaimed /\ key.token = sender[s].token => x.token = key.token \/ key.token \in silent'
  PROVE  CooldownInv'
<1>1. \A r \in Senders : sender'[r] = IF r = s THEN x ELSE sender[r]
  BY DEF CooldownInv, CooldownTypes
<1>2. CooldownTypes' /\ HeardInOrder'
  BY DEF CooldownInv, CooldownTypes, HeardInOrder, Locals
<1>3. ClaimsOwned'
  <2>1. ASSUME NEW r \in Senders, sender'[r].token # NoToken PROVE sender'[r].step \in Claiming /\ sender[r].token = sender'[r].token
    BY <1>1, <2>1 DEF CooldownInv, ClaimsOwned
  <2>2. \A r, q \in Senders : r # q /\ sender'[r].token # NoToken => sender'[r].token # sender'[q].token
    <3> SUFFICES ASSUME NEW r \in Senders, NEW q \in Senders, r # q, sender'[r].token # NoToken, sender'[r].token = sender'[q].token
                 PROVE  FALSE
      OBVIOUS
    <3>1. sender'[q].token # NoToken
      OBVIOUS
    <3> QED BY <2>1, <3>1 DEF CooldownInv, ClaimsOwned
  <2>3. \A r \in Senders, h \in heard : h.token # sender'[r].token
    <3> SUFFICES ASSUME NEW r \in Senders, NEW h \in heard, h.token = sender'[r].token PROVE FALSE
      OBVIOUS
    <3>1. h.token # NoToken
      BY DEF CooldownInv, CooldownTypes, NoToken
    <3> QED BY <2>1, <3>1 DEF CooldownInv, ClaimsOwned
  <2> QED BY <2>1, <2>2, <2>3 DEF ClaimsOwned
<1>4. CooldownHonest'
  <2>1. WindowClaimed' <=> WindowClaimed
    BY DEF WindowClaimed
  <2>2. ASSUME WindowClaimed PROVE key.token \in {h.token : h \in heard} \cup silent' \/ \E r \in Senders : sender'[r].token = key.token
    <3>1. CASE key.token \in {h.token : h \in heard} \cup silent
      BY <3>1
    <3>2. CASE \E r \in Senders : sender[r].token = key.token
      <4>1. PICK r \in Senders : sender[r].token = key.token
        BY <3>2
      <4>2. CASE r = s
        BY <1>1, <2>2, <4>1, <4>2
      <4>3. CASE r # s
        BY <1>1, <4>1, <4>3
      <4> QED BY <4>2, <4>3
    <3> QED BY <2>2, <3>1, <3>2 DEF CooldownInv, CooldownHonest
  <2>3. \A a, b \in heard' : a # b => a.at - b.at >= CooldownLength \/ b.at - a.at >= CooldownLength
    BY DEF CooldownInv, CooldownHonest
  <2> QED BY <2>1, <2>2, <2>3 DEF CooldownHonest
<1> QED BY <1>2, <1>3, <1>4 DEF CooldownInv

\* The key is freed, and the announced claims start anew or are a cooldown old.
LEMMA KeyFreed ==
  ASSUME CooldownInv, key' = Free, heard' \subseteq heard, UNCHANGED <<now, tokens>>,
         \A h \in heard' : h.at + CooldownLength <= now,
         sender' \in [Senders -> Locals(tokens)],
         \A r \in Senders : sender'[r] = sender[r] \/ sender'[r].token = NoToken
  PROVE  CooldownInv'
<1>1. CooldownTypes'
  BY IdleLocals DEF CooldownInv, CooldownTypes, Locals
<1>2. ClaimsOwned'
  <2>1. \A r \in Senders : sender'[r].token # NoToken => sender'[r] = sender[r]
    OBVIOUS
  <2>2. \A r \in Senders : sender'[r].token # NoToken => sender'[r].step \in Claiming
    BY <2>1 DEF CooldownInv, ClaimsOwned
  <2>3. \A r, q \in Senders : r # q /\ sender'[r].token # NoToken => sender'[r].token # sender'[q].token
    <3> SUFFICES ASSUME NEW r \in Senders, NEW q \in Senders, r # q, sender'[r].token # NoToken, sender'[r].token = sender'[q].token
                 PROVE  FALSE
      OBVIOUS
    <3>1. sender'[q].token # NoToken
      OBVIOUS
    <3> QED BY <2>1, <3>1 DEF CooldownInv, ClaimsOwned
  <2>4. \A r \in Senders, h \in heard' : h.token # sender'[r].token
    <3> SUFFICES ASSUME NEW r \in Senders, NEW h \in heard', h.token = sender'[r].token PROVE FALSE
      OBVIOUS
    <3>1. h.token # NoToken
      BY DEF CooldownInv, CooldownTypes, NoToken
    <3> QED BY <2>1, <3>1 DEF CooldownInv, ClaimsOwned
  <2> QED BY <2>2, <2>3, <2>4 DEF ClaimsOwned
<1>3. HeardInOrder' /\ ~WindowClaimed'
  BY IdleLocals DEF HeardInOrder, WindowClaimed
<1>4. CooldownHonest'
  BY <1>3 DEF CooldownInv, CooldownHonest
<1> QED BY <1>1, <1>2, <1>3, <1>4 DEF CooldownInv

LEMMA ArmStep == ASSUME CooldownInv, NEW s \in Senders, ArmCooldown(s) PROVE CooldownInv'
<1>0. /\ sender[s].step = "arm" /\ sender[s].token = NoToken /\ sender[s] \in Locals(tokens)
      /\ UNCHANGED <<now, heard, silent>>
  BY LocalsOf DEF ArmCooldown, CooldownInv, ClaimsOwned, Claiming
<1>1. CASE WindowClaimed
  <2> DEFINE x == IF sender[s].force THEN [sender[s] EXCEPT !.step = "send"] ELSE IdleSender
  <2>1. sender' = [sender EXCEPT ![s] = x] /\ UNCHANGED <<tokens, key>>
    BY <1>1 DEF ArmCooldown, Become
  <2>2. [sender[s] EXCEPT !.step = "send"] \in Locals(tokens) /\ [sender[s] EXCEPT !.step = "send"].token = NoToken
    BY <1>0 DEF Locals, Places
  <2>3. x \in Locals(tokens) /\ x.token = NoToken
    BY <2>2, IdleLocals DEF CooldownInv, CooldownTypes
  <2>4. WindowClaimed => key.token # sender[s].token
    BY <1>0 DEF WindowClaimed
  <2> HIDE DEF x
  <2> QED BY <1>0, <2>1, <2>3, <2>4, SenderMoves
<1>2. CASE ~WindowClaimed
  <2>1. PICK n \in Nat : n = tokens
    BY DEF CooldownInv, CooldownTypes
  <2>2. PICK t \in Nat : t = now
    BY DEF CooldownInv, CooldownTypes
  <2> DEFINE p == IF kind = "spike" THEN "group" ELSE "send"
             x == [sender[s] EXCEPT !.token = n + 1, !.step = p]
  <2>3. tokens' = n + 1 /\ key' = [token |-> n + 1, until |-> t + CooldownLength] /\ sender' = [sender EXCEPT ![s] = x]
    BY <1>2, <2>1, <2>2 DEF ArmCooldown, Become
  <2>4. x \in Locals(n + 1) /\ x.token = n + 1 /\ x.step \in Claiming
    <3>1. p \in {"group", "send"}
      OBVIOUS
    <3>2. sender[s] \in Locals(n)
      BY <1>0, <2>1
    <3>3. n + 1 \in 0..(n + 1) /\ sender[s] \in Locals(n + 1)
      BY <3>2 DEF Locals
    <3>4. p \in Places /\ p \in Claiming
      BY <3>1 DEF Places, Claiming
    <3> HIDE DEF p
    <3>5. x \in Locals(n + 1)
      BY <3>3, <3>4 DEF Locals
    <3>6. x.token = n + 1 /\ x.step = p
      BY <3>2 DEF Locals
    <3> HIDE DEF x
    <3> QED BY <3>4, <3>5, <3>6
  <2> HIDE DEF x
  <2>5. \A r \in Senders : sender'[r] = IF r = s THEN x ELSE sender[r]
    BY <2>3 DEF CooldownInv, CooldownTypes
  <2>6. /\ \A r \in Senders : sender[r] \in Locals(n + 1) /\ sender[r].token <= n
        /\ \A h \in heard : h \in [token : 1..(n + 1), at : Int] /\ h.token <= n /\ h.at \in Int
    BY <2>1 DEF CooldownInv, CooldownTypes, Locals
  <2>7. CooldownTypes'
    <3>1. key' \in [token : 0..(n + 1), until : Int] /\ now' \in Nat
      BY <1>0, <2>2, <2>3, AlertConstants
    <3>2. sender' \in [Senders -> Locals(n + 1)] /\ heard' \subseteq [token : 1..(n + 1), at : Int]
      BY <1>0, <2>3, <2>4, <2>5, <2>6 DEF CooldownInv, CooldownTypes
    <3> QED BY <2>3, <3>1, <3>2 DEF CooldownTypes, Locals
  <2>8. ClaimsOwned'
    <3>1. \A r \in Senders : sender'[r].token # NoToken => sender'[r].step \in Claiming
      BY <2>4, <2>5 DEF CooldownInv, ClaimsOwned
    <3>2. \A r, q \in Senders : r # q /\ sender'[r].token # NoToken => sender'[r].token # sender'[q].token
      <4> SUFFICES ASSUME NEW r \in Senders, NEW q \in Senders, r # q, sender'[r].token # NoToken
                   PROVE  sender'[r].token # sender'[q].token
        OBVIOUS
      <4>1. sender[r].token <= n /\ sender[q].token <= n /\ sender[r].token \in Int /\ sender[q].token \in Int
        BY <2>1, LocalsOf DEF CooldownInv
      <4>2. CASE r # s /\ q # s
        BY <2>5, <4>2 DEF CooldownInv, ClaimsOwned
      <4>3. CASE r = s \/ q = s
        BY <2>4, <2>5, <4>1, <4>3
      <4> QED BY <4>2, <4>3
    <3>3. \A r \in Senders, h \in heard : h.token # sender'[r].token
      <4> SUFFICES ASSUME NEW r \in Senders, NEW h \in heard PROVE h.token # sender'[r].token
        OBVIOUS
      <4>1. CASE r = s
        <5>1. h.token \in Int /\ h.token <= n
          BY <2>6
        <5> QED BY <2>4, <2>5, <4>1, <5>1
      <4>2. CASE r # s
        BY <2>5, <4>2 DEF CooldownInv, ClaimsOwned
      <4> QED BY <4>1, <4>2
    <3> QED BY <1>0, <3>1, <3>2, <3>3 DEF ClaimsOwned
  <2>9. HeardInOrder'
    <3>1. key'.token = n + 1 /\ key'.until - CooldownLength = t /\ key'.token # NoToken
      BY <2>3, AlertConstants DEF NoToken
    <3>2. ASSUME NEW h \in heard PROVE h.token # n + 1 /\ h.at + CooldownLength <= t
      <4>1. h.at \in Int /\ h.token \in Int /\ h.token <= n /\ key.until \in Int /\ key.token \in 0..n
        BY <2>1, <2>6 DEF CooldownInv, CooldownTypes
      <4>2. CASE key.token = NoToken
        BY <2>2, <4>1, <4>2 DEF CooldownInv, HeardInOrder
      <4>3. CASE key.token # NoToken
        <5>1. key.until <= t /\ key.until - CooldownLength <= t
          BY <1>2, <2>2, <4>1, <4>3 DEF WindowClaimed, CooldownInv, HeardInOrder
        <5>2. h.at = key.until - CooldownLength \/ h.at + CooldownLength <= key.until - CooldownLength
          BY <4>3 DEF CooldownInv, HeardInOrder
        <5> QED BY <4>1, <5>1, <5>2, AlertConstants
      <4> QED BY <4>1, <4>2, <4>3
    <3> QED BY <1>0, <2>2, <3>1, <3>2 DEF HeardInOrder
  <2>10. CooldownHonest'
    <3>1. sender'[s].token = key'.token
      BY <2>3, <2>4, <2>5
    <3> QED BY <1>0, <3>1 DEF CooldownHonest, CooldownInv
  <2> QED BY <2>7, <2>8, <2>9, <2>10 DEF CooldownInv
<1> QED BY <1>1, <1>2

LEMMA DispatchStep == ASSUME CooldownInv, NEW s \in Senders, Dispatch(s) PROVE CooldownInv'
<1>0. sender[s] \in Locals(tokens) /\ UNCHANGED <<now, tokens, key, silent>> /\ tokens \in Nat
  BY LocalsOf DEF Dispatch, CooldownInv, CooldownTypes
<1>1. PICK taken \in SUBSET Channels :
        /\ heard' = IF taken # {} /\ sender[s].token # NoToken /\ key.token = sender[s].token
                      THEN heard \cup {[token |-> key.token, at |-> key.until - CooldownLength]} ELSE heard
        /\ sender' = [sender EXCEPT ![s] = IF AnyDelivered(taken) \/ sender[s].token = NoToken
                                           THEN IdleSender ELSE [sender[s] EXCEPT !.step = "release"]]
  BY DEF Dispatch, Become
<1>2. CASE ~(taken # {} /\ sender[s].token # NoToken /\ key.token = sender[s].token)
  <2> DEFINE x == IF AnyDelivered(taken) \/ sender[s].token = NoToken THEN IdleSender ELSE [sender[s] EXCEPT !.step = "release"]
  <2>1. /\ [sender[s] EXCEPT !.step = "release"] \in Locals(tokens)
        /\ [sender[s] EXCEPT !.step = "release"].token = sender[s].token
        /\ [sender[s] EXCEPT !.step = "release"].step \in Claiming
    BY <1>0 DEF Locals, Places, Claiming
  <2>2. x \in Locals(tokens) /\ (x.token = NoToken \/ (x.token = sender[s].token /\ x.step \in Claiming))
    BY <1>0, <2>1, IdleLocals
  <2>3. WindowClaimed /\ key.token = sender[s].token => x.token = key.token
    BY <1>2, <2>1 DEF WindowClaimed, AnyDelivered
  <2>4. sender' = [sender EXCEPT ![s] = x] /\ heard' = heard
    BY <1>1, <1>2
  <2> HIDE DEF x
  <2> QED BY <1>0, <2>2, <2>3, <2>4, SenderMoves
<1>3. CASE taken # {} /\ sender[s].token # NoToken /\ key.token = sender[s].token
  <2>1. PICK h0 : h0 = [token |-> key.token, at |-> key.until - CooldownLength]
    OBVIOUS
  <2>2. heard' = heard \cup {h0} /\ sender' = [sender EXCEPT ![s] = IdleSender]
    BY <1>1, <1>3, <2>1 DEF AnyDelivered
  <2>3. h0.token = key.token /\ h0.at = key.until - CooldownLength /\ h0 \in [token : 1..tokens, at : Int]
    <3>1. key.token \in 1..tokens /\ key.until \in Int
      BY <1>3 DEF CooldownInv, CooldownTypes, NoToken
    <3> QED BY <2>1, <3>1, AlertConstants
  <2>4. \A r \in Senders : sender'[r] = IF r = s THEN IdleSender ELSE sender[r]
    BY <2>2 DEF CooldownInv, CooldownTypes
  <2>5. CooldownTypes'
    <3>1. sender' \in [Senders -> Locals(tokens)]
      BY <1>0, <2>2, LocalsOf, IdleLocals DEF CooldownInv
    <3>2. heard' \subseteq [token : 1..tokens, at : Int]
      BY <2>2, <2>3 DEF CooldownInv, CooldownTypes
    <3> QED BY <1>0, <3>1, <3>2 DEF CooldownInv, CooldownTypes, Locals
  <2>6. ClaimsOwned'
    <3>1. \A r \in Senders : sender'[r].token # NoToken => r # s /\ sender'[r] = sender[r]
      BY <2>4, IdleLocals
    <3>2. \A r \in Senders : sender'[r].token # NoToken => sender'[r].step \in Claiming
      BY <3>1 DEF CooldownInv, ClaimsOwned
    <3>3. \A r, q \in Senders : r # q /\ sender'[r].token # NoToken => sender'[r].token # sender'[q].token
      <4> SUFFICES ASSUME NEW r \in Senders, NEW q \in Senders, r # q, sender'[r].token # NoToken, sender'[r].token = sender'[q].token
                   PROVE  FALSE
        OBVIOUS
      <4>1. sender'[q].token # NoToken
        OBVIOUS
      <4> QED BY <3>1, <4>1 DEF CooldownInv, ClaimsOwned
    <3>4. \A r \in Senders, h \in heard' : h.token # sender'[r].token
      <4> SUFFICES ASSUME NEW r \in Senders, NEW h \in heard', h.token = sender'[r].token PROVE FALSE
        OBVIOUS
      <4>1. h.token # NoToken /\ r # s /\ sender'[r] = sender[r]
        BY <2>5, <3>1 DEF CooldownTypes, NoToken
      <4>2. CASE h \in heard
        BY <4>1, <4>2 DEF CooldownInv, ClaimsOwned
      <4>3. CASE h = h0
        BY <1>3, <2>3, <4>1, <4>3 DEF CooldownInv, ClaimsOwned
      <4> QED BY <2>2, <4>2, <4>3
    <3> QED BY <3>2, <3>3, <3>4 DEF ClaimsOwned
  <2>7. \A h \in heard : h.token # key.token /\ h.at + CooldownLength <= key.until - CooldownLength
    BY <1>3 DEF CooldownInv, ClaimsOwned, HeardInOrder
  <2>8. HeardInOrder'
    BY <1>0, <1>3, <2>2, <2>3, <2>7 DEF CooldownInv, HeardInOrder
  <2>9. CooldownHonest'
    <3>1. key.token \in {h.token : h \in heard'}
      BY <2>2, <2>3
    <3>2. \A h \in heard : h0.at - h.at >= CooldownLength
      BY <2>3, <2>7, AlertConstants DEF CooldownInv, CooldownTypes
    <3>3. \A a, b \in heard' : a # b => a.at - b.at >= CooldownLength \/ b.at - a.at >= CooldownLength
      BY <2>2, <3>2 DEF CooldownInv, CooldownHonest
    <3> QED BY <1>0, <3>1, <3>3 DEF CooldownHonest
  <2> QED BY <2>5, <2>6, <2>8, <2>9 DEF CooldownInv
<1> QED BY <1>2, <1>3

LEMMA DeleteStep == ASSUME CooldownInv, NEW s \in Senders, DeleteKey(s) \/ ClearOnRecovery(s) PROVE CooldownInv'
<1>1. /\ key' = Free /\ sender' = [sender EXCEPT ![s] = IdleSender] /\ UNCHANGED <<now, tokens>>
      /\ (heard' = {} \/ (heard' = heard /\ key.token = sender[s].token))
  BY DEF DeleteKey, ClearOnRecovery, Become
<1>2. /\ sender' \in [Senders -> Locals(tokens)]
      /\ \A r \in Senders : sender'[r] = sender[r] \/ sender'[r].token = NoToken
  BY <1>1, LocalsOf, IdleLocals DEF CooldownInv, CooldownTypes
<1>3. ASSUME NEW h \in heard' PROVE h.at + CooldownLength <= now
  <2>1. h \in heard /\ h.token # key.token /\ h.at \in Int /\ key.until \in Int /\ now \in Nat
    BY <1>1 DEF CooldownInv, ClaimsOwned, CooldownTypes
  <2> QED BY <2>1, AlertConstants DEF CooldownInv, HeardInOrder
<1> QED BY <1>1, <1>2, <1>3, KeyFreed

LEMMA SendStep == ASSUME CooldownInv, NEW s \in Senders, Send(s) PROVE CooldownInv'
<1>0. sender[s] \in Locals(tokens) /\ tokens \in Nat /\ sender[s].step \in Places
  BY LocalsOf DEF CooldownInv, CooldownTypes
<1>1. \A p \in Places : [sender[s] EXCEPT !.step = p] \in Locals(tokens) /\ [sender[s] EXCEPT !.step = p].token = sender[s].token
                        /\ [sender[s] EXCEPT !.step = p].step = p
  BY <1>0 DEF Locals
<1>2. sender[s].step \notin Claiming => sender[s].token = NoToken
  BY DEF CooldownInv, ClaimsOwned
<1>3. CASE RecordError(s) \/ CountRecent(s) \/ GroupEvents(s)
  <2>1. PICK p \in Places : /\ sender' = [sender EXCEPT ![s] = [sender[s] EXCEPT !.step = p]]
                            /\ (sender[s].token = NoToken \/ p \in Claiming)
    <3>1. CASE RecordError(s)
      BY <3>1, IdleLocals DEF RecordError, SenderStep, Become, Places
    <3>2. CASE CountRecent(s)
      BY <1>2, <3>2 DEF CountRecent, SenderStep, Become, Places, Claiming
    <3>3. CASE GroupEvents(s)
      BY <3>3 DEF GroupEvents, SenderStep, Become, Places, Claiming
    <3> QED BY <1>3, <3>1, <3>2, <3>3
  <2>2. UNCHANGED <<now, tokens, key, heard, silent>>
    BY <1>3 DEF RecordError, CountRecent, GroupEvents
  <2> DEFINE x == [sender[s] EXCEPT !.step = p]
  <2>3. sender' = [sender EXCEPT ![s] = x] /\ x \in Locals(tokens) /\ x.token = sender[s].token
        /\ (x.token = NoToken \/ x.step \in Claiming)
    BY <1>1, <2>1
  <2> HIDE DEF x
  <2> QED BY <2>2, <2>3, SenderMoves
<1>4. CASE Probe(s)
  <2>1. PICK force \in BOOLEAN :
          sender' = [sender EXCEPT ![s] =
            [IdleSender EXCEPT !.force = force,
                         !.step = IF ~down THEN "clear" ELSE IF Channels # {} THEN "arm" ELSE "idle"]]
    BY <1>4 DEF Probe, Become
  <2> DEFINE p == IF ~down THEN "clear" ELSE IF Channels # {} THEN "arm" ELSE "idle"
             x == [IdleSender EXCEPT !.force = force, !.step = p]
  <2>2. x \in Locals(tokens) /\ x.token = NoToken
    <3>1. p \in Places
      BY DEF Places
    <3> HIDE DEF p
    <3>2. x \in Locals(tokens)
      BY <1>0, <3>1, IdleLocals DEF Locals
    <3>3. x.token = NoToken
      BY DEF IdleSender
    <3> HIDE DEF x
    <3> QED BY <3>2, <3>3
  <2>3. sender[s].token = NoToken /\ UNCHANGED <<now, tokens, key, heard, silent>>
    BY <1>4, IdleLocals DEF Probe
  <2>4. sender' = [sender EXCEPT ![s] = x]
    BY <2>1
  <2>5. ~(WindowClaimed /\ key.token = sender[s].token)
    BY <2>3 DEF WindowClaimed
  <2> HIDE DEF x
  <2> QED BY <2>2, <2>3, <2>4, <2>5, SenderMoves
<1>5. CASE Abort(s)
  <2>1. /\ sender' = [sender EXCEPT ![s] = IdleSender] /\ UNCHANGED <<now, tokens, key, heard>>
        /\ silent' = IF sender[s].step \in Claiming THEN silent \cup {sender[s].token} ELSE silent
    BY <1>5 DEF Abort, Become, Claiming
  <2>2. WindowClaimed /\ key.token = sender[s].token => key.token \in silent'
    BY <1>2, <2>1 DEF WindowClaimed
  <2> QED BY <1>0, <2>1, <2>2, IdleLocals, SenderMoves
<1>6. CASE CompareToken(s)
  <2>1. UNCHANGED <<now, tokens, key, heard, silent>>
    BY <1>6 DEF CompareToken
  <2>2. CASE WindowClaimed /\ key.token = sender[s].token
    <3>1. sender' = [sender EXCEPT ![s] = [sender[s] EXCEPT !.step = "delete"]]
      BY <1>6, <2>2 DEF CompareToken, Become
    <3>2. "delete" \in Places /\ "delete" \in Claiming
      BY DEF Places, Claiming
    <3> QED BY <1>1, <2>1, <2>2, <3>1, <3>2, SenderMoves
  <2>3. CASE ~(WindowClaimed /\ key.token = sender[s].token)
    <3>1. sender' = [sender EXCEPT ![s] = IdleSender]
      BY <1>6, <2>3 DEF CompareToken, Become
    <3> QED BY <1>0, <2>1, <2>3, <3>1, IdleLocals, SenderMoves
  <2> QED BY <2>2, <2>3
<1> QED BY <1>3, <1>4, <1>5, <1>6, ArmStep, DispatchStep, DeleteStep DEF Send

\* alerts.py and its two callers, for every number of senders, channels and errors and
\* every cooldown: a window that is claimed mutes nobody for nothing, and announced
\* claims are a cooldown apart.
THEOREM CooldownHonestHolds == AlertSpec => []CooldownHonest
<1>1. AlertInit => CooldownInv
  <2> SUFFICES ASSUME AlertInit PROVE CooldownInv
    OBVIOUS
  <2>1. now = 0 /\ tokens = 0 /\ key = Free /\ heard = {} /\ \A s \in Senders : sender[s] = IdleSender
    BY DEF AlertInit
  <2>2. sender \in [Senders -> Locals(0)]
    BY IdleLocals DEF AlertInit
  <2>3. CooldownTypes
    BY <2>1, <2>2, IdleLocals DEF CooldownTypes, Locals
  <2> QED BY <2>1, <2>3, IdleLocals DEF CooldownInv, ClaimsOwned, HeardInOrder, CooldownHonest, WindowClaimed
<1>2. CooldownInv /\ [AlertNext]_alertVars => CooldownInv'
  <2> SUFFICES ASSUME CooldownInv, [AlertNext]_alertVars PROVE CooldownInv'
    OBVIOUS
  <2>1. CASE ClockTick
    <3>1. now' = now + 1 /\ now \in Nat /\ UNCHANGED <<tokens, key, sender, heard, silent>>
      BY <2>1 DEF ClockTick, CooldownInv, CooldownTypes
    <3>2. WindowClaimed' => WindowClaimed
      BY <3>1 DEF WindowClaimed, CooldownInv, CooldownTypes
    <3>3. CooldownTypes' /\ ClaimsOwned' /\ CooldownHonest'
      BY <3>1, <3>2 DEF CooldownInv, CooldownTypes, ClaimsOwned, CooldownHonest
    <3>4. HeardInOrder'
      BY <3>1, AlertConstants DEF CooldownInv, CooldownTypes, HeardInOrder
    <3> QED BY <3>3, <3>4 DEF CooldownInv
  <2>2. CASE EvictKey
    <3>1. key' = Free /\ heard' = {} /\ UNCHANGED <<now, tokens, sender, silent>>
      BY <2>2 DEF EvictKey
    <3>2. sender' \in [Senders -> Locals(tokens)]
      BY <3>1 DEF CooldownInv, CooldownTypes, Locals
    <3> QED BY <3>1, <3>2, KeyFreed
  <2>3. CASE SendDigest \/ BreakOrMend \/ UNCHANGED alertVars
    <3>1. UNCHANGED <<now, tokens, key, sender, heard, silent>>
      BY <2>3 DEF SendDigest, BreakOrMend, alertVars
    <3> QED BY <3>1 DEF CooldownInv, CooldownTypes, ClaimsOwned, HeardInOrder, CooldownHonest, WindowClaimed
  <2> QED BY <2>1, <2>2, <2>3, SendStep DEF AlertNext
<1>3. CooldownInv => CooldownHonest
  BY DEF CooldownInv
<1> QED BY <1>1, <1>2, <1>3, PTL DEF AlertSpec

-----------------------------------------------------------------------------
(* Sharding: no replica of a shard is a primary, so that replication never *)
(* takes back what a scope reads.                                          *)

Overrides(n) ==
  [master : BOOLEAN, shard : {0} \cup DOMAIN Shards, replica : BOOLEAN,
   own : [BOOLEAN -> [ShardKeys -> 0..n]]]
ScopesKnown == scopes \in [Processes -> Seq(Overrides(writes))]

ShardingTypes ==
  /\ config \in Configs /\ Configured
  /\ writes \in Nat
  /\ store \in [AllHosts -> [ShardKeys -> Nat]]

\* Where a scope that asks for no replica reads and writes the row of key k, with
\* the key or without ...
Pinned(scope) == IF scope.shard # 0 THEN ~scope.replica ELSE scope.master
PinOf(scope, k, keyed) ==
  IF scope.shard # 0 THEN Shards[scope.shard].primary
  ELSE IF ~keyed THEN DefaultDatabase
  ELSE IF ShardOf(k) = NoDatabase THEN NoDatabase ELSE Shards[ShardOf(k)].primary

\* ... there is what was written in it, whatever has been replicated since.
Stored(scope) ==
  \A k \in ShardKeys, keyed \in BOOLEAN :
    Pinned(scope) /\ PinOf(scope, k, keyed) # NoDatabase
      => store[PinOf(scope, k, keyed)][k] >= scope.own[keyed][k]
OwnStored == \A p \in Processes : \A i \in DOMAIN scopes[p] : Stored(scopes[p][i])

ShardingInv == ShardingTypes /\ ScopesKnown /\ OwnStored /\ ScopeReadsOwn

Primaries == {Shards[s].primary : s \in DOMAIN Shards}
Replicas == UNION {Range(Shards[s].replicas) : s \in DOMAIN Shards}

LEMMA Multiples ==
  ASSUME NEW g \in Nat, NEW s \in Int, NEW t \in Int, NEW i \in 1..(g - 1)
  PROVE  (t - 1) * g + 1 # (s - 1) * g + 1 + i
<1>1. CASE t - s >= 1
  <2>1. PICK m \in Nat : t = s + 1 + m
    BY <1>1
  <2>2. (t - 1) * g = (s - 1) * g + g + m * g /\ m * g >= 0
    BY <2>1
  <2>3. (s - 1) * g \in Int /\ (t - 1) * g \in Int /\ m * g \in Int
    OBVIOUS
  <2> QED BY <2>2, <2>3
<1>2. CASE t - s <= 0
  <2>1. PICK m \in Nat : s = t + m
    BY <1>2
  <2>2. (s - 1) * g = (t - 1) * g + m * g /\ m * g >= 0
    BY <2>1
  <2>3. (s - 1) * g \in Int /\ (t - 1) * g \in Int /\ m * g \in Int
    OBVIOUS
  <2> QED BY <2>2, <2>3
<1> QED BY <1>1, <1>2

LEMMA Lowest == ASSUME NEW S \in SUBSET Nat, S # {} PROVE \E m \in S : \A x \in S : m <= x
<1>1. PICK m \in S : \A x \in S : <<x, m>> \notin OpToRel(<, Nat)
  BY NatLessThanWellFounded, WFMin
<1>2. ASSUME NEW x \in S PROVE m <= x
  <2>1. x \in Nat /\ m \in Nat /\ ~(x < m)
    BY <1>1 DEF OpToRel
  <2> QED BY <2>1
<1> QED BY <1>2

LEMMA GroupNumbers ==
  ASSUME config \in Configs
  PROVE  ReplicasPerShard \in Nat /\ GroupSize \in Nat \ {0} /\ config.sharding \in BOOLEAN
BY ShardingAssumption DEF ReplicasPerShard, GroupSize

LEMMA ShardsOf ==
  ASSUME config \in Configs, Configured
  PROVE  /\ DOMAIN Shards = 1..Len(Shards) /\ Len(Shards) \in Nat \ {0}
         /\ \A s \in DOMAIN Shards : Shards[s].primary \in Hosts
<1>1. CASE ~config.sharding
  BY <1>1, ShardingAssumption DEF Shards, Group, Hosts
<1>2. CASE config.sharding
  <2>1. PICK g \in Nat \ {0} : g = GroupSize
    BY GroupNumbers
  <2>2. Databases % g = 0 /\ Databases \in Nat \ {0}
    BY <1>2, <2>1, ShardingAssumption DEF Configured
  <2>3. Databases \div g \in Nat \ {0}
    BY <2>1, <2>2
  <2>4. Shards = [s \in 1..(Databases \div g) |-> Group((s - 1) * g + 1, s * g)]
    BY <1>2, <2>1 DEF Shards
  <2>5. ASSUME NEW s \in 1..(Databases \div g) PROVE (s - 1) * g + 1 \in Hosts
    <3>1. PICK q \in Nat : q = Databases \div g
      BY <2>3
    <3>2. q * g <= Databases /\ q * g \in Int
      BY <2>1, <2>2, <3>1
    <3>3. PICK m \in Nat : q = s + m
      BY <3>1
    <3>4. q * g = (s - 1) * g + g + m * g /\ m * g >= 0 /\ (s - 1) * g >= 0
      BY <3>3
    <3>5. (s - 1) * g \in Int /\ m * g \in Int
      BY <3>3
    <3> QED BY <2>2, <3>2, <3>4, <3>5 DEF Hosts
  <2>6. DOMAIN Shards = 1..(Databases \div g) /\ Len(Shards) = Databases \div g
    BY <2>3, <2>4
  <2> QED BY <2>3, <2>4, <2>5, <2>6 DEF Group
<1> QED BY <1>1, <1>2, GroupNumbers

\* The slices of the list of databases: a replica of one shard is no shard's primary.
LEMMA ReplicasApart == ASSUME config \in Configs, Configured PROVE Primaries \cap Replicas = {}
<1> SUFFICES ASSUME NEW s \in DOMAIN Shards, NEW t \in DOMAIN Shards,
                    Shards[t].primary \in Range(Shards[s].replicas)
             PROVE  FALSE
  BY DEF Primaries, Replicas
<1>1. CASE ~config.sharding
  <2>1. PICK n \in Nat : n = IF config.mirroring THEN Databases ELSE 1
    BY ShardingAssumption
  <2>2. Shards = <<Group(1, n)>> /\ s = 1 /\ t = 1
    BY <1>1, <2>1 DEF Shards
  <2>3. Shards[s].replicas = [i \in 1..(n - 1) |-> 1 + i] /\ Shards[t].primary = 1
    BY <2>2 DEF Group
  <2> QED BY <2>3 DEF Range
<1>2. CASE config.sharding
  <2>1. PICK g \in Nat \ {0} : g = GroupSize
    BY GroupNumbers
  <2>2. Shards = [r \in 1..(Databases \div g) |-> Group((r - 1) * g + 1, r * g)] /\ s \in Int /\ t \in Int
    BY <1>2, <2>1, ShardsOf DEF Shards
  <2>3. /\ Shards[t].primary = (t - 1) * g + 1
        /\ Shards[s].replicas = [i \in 1..(s * g - ((s - 1) * g + 1)) |-> (s - 1) * g + 1 + i]
    BY <2>2 DEF Group
  <2>4. s * g - ((s - 1) * g + 1) = g - 1
    BY <2>2
  <2>5. PICK i \in 1..(g - 1) : (t - 1) * g + 1 = (s - 1) * g + 1 + i
    BY <2>3, <2>4 DEF Range
  <2> QED BY <2>2, <2>5, Multiples
<1> QED BY <1>1, <1>2, GroupNumbers

LEMMA ShardChosen ==
  ASSUME config \in Configs, Configured, NEW k \in ShardKeys
  PROVE  ShardOf(k) = NoDatabase \/ ShardOf(k) \in DOMAIN Shards
<1>1. PICK n \in Nat \ {0} : n = Len(Shards) /\ DOMAIN Shards = 1..n
  BY ShardsOf
<1>2. CASE config.strategy = "modulo"
  <2>1. k \in Nat /\ ShardOf(k) = (k % n) + 1
    BY <1>1, <1>2, ShardingAssumption DEF ShardOf
  <2> QED BY <1>1, <2>1
<1>3. CASE config.strategy = "hash"
  <2>1. PICK h \in Nat : h = Hash[k]
    BY ShardingAssumption
  <2>2. ShardOf(k) = (h % n) + 1
    BY <1>1, <1>3, <2>1 DEF ShardOf
  <2> QED BY <1>1, <2>1, <2>2
<1>4. CASE config.strategy = "custom"
  BY <1>4 DEF ShardOf
<1>5. CASE config.strategy = "range"
  <2> DEFINE covering == {s \in DOMAIN Shards : k \in config.ranges[s]}
  <2>1. ShardOf(k) = IF covering = {} THEN NoDatabase ELSE CHOOSE s \in covering : \A r \in covering : s <= r
    BY <1>5 DEF ShardOf
  <2>2. CASE covering # {}
    <3> HIDE DEF covering
    <3>1. covering \subseteq DOMAIN Shards /\ covering \in SUBSET Nat
      BY <1>1 DEF covering
    <3>2. \E s \in covering : \A r \in covering : s <= r
      BY <2>2, <3>1, Lowest
    <3>3. (CHOOSE s \in covering : \A r \in covering : s <= r) \in covering
      BY <3>2
    <3> QED BY <2>1, <2>2, <3>1, <3>3
  <2> QED BY <2>1, <2>2
<1> QED BY <1>2, <1>3, <1>4, <1>5, ShardingAssumption

LEMMA NothingTyped == \A n \in Nat : NoScope \in Overrides(n) /\ NothingWritten \in [BOOLEAN -> [ShardKeys -> 0..n]]
BY DEF NoScope, NothingWritten, Overrides

LEMMA LaterTyped == ASSUME NEW n \in Nat PROVE Overrides(n) \subseteq Overrides(n + 1)
<1>1. [BOOLEAN -> [ShardKeys -> 0..n]] \subseteq [BOOLEAN -> [ShardKeys -> 0..(n + 1)]]
  OBVIOUS
<1> QED BY <1>1 DEF Overrides

LEMMA ScopeKnown ==
  ASSUME ShardingTypes, ScopesKnown, NEW p \in Processes
  PROVE  /\ Scope(p) \in Overrides(writes)
         /\ scopes[p] \in Seq(Overrides(writes))
         /\ scopes[p] # << >> => /\ Len(scopes[p]) \in DOMAIN scopes[p] /\ Scope(p) = scopes[p][Len(scopes[p])]
<1>1. NoScope \in Overrides(writes)
  BY NothingTyped DEF ShardingTypes
<1>2. scopes[p] \in Seq(Overrides(writes)) /\ scopes[p] # << >> => Last(scopes[p]) \in Overrides(writes)
  <2>1. ASSUME NEW S, NEW q \in Seq(S), q # << >> PROVE q[Len(q)] \in S
    BY <2>1
  <2> QED BY <2>1 DEF ScopesKnown, Last
<1>3. scopes[p] # << >> => Len(scopes[p]) \in DOMAIN scopes[p] /\ Scope(p) = scopes[p][Len(scopes[p])]
  <2>1. ASSUME NEW S, NEW q \in Seq(S), q # << >> PROVE Len(q) \in DOMAIN q
    BY <2>1
  <2> QED BY <2>1 DEF ScopesKnown, Last, Scope
<1> QED BY <1>1, <1>2, <1>3 DEF Scope, ScopesKnown

LEMMA PinPlaced ==
  ASSUME ShardingTypes, NEW n, NEW x \in Overrides(n), NEW k \in ShardKeys, NEW keyed \in BOOLEAN,
         PinOf(x, k, keyed) # NoDatabase
  PROVE  PinOf(x, k, keyed) \in Primaries \cup {DefaultDatabase} /\ PinOf(x, k, keyed) \in AllHosts
<1>1. x.shard # 0 => x.shard \in DOMAIN Shards
  BY DEF Overrides
<1>2. ShardOf(k) = NoDatabase \/ ShardOf(k) \in DOMAIN Shards
  BY ShardChosen DEF ShardingTypes
<1>3. \A s \in DOMAIN Shards : Shards[s].primary \in Primaries /\ Shards[s].primary \in Hosts
  BY ShardsOf DEF Primaries, ShardingTypes
<1> QED BY <1>1, <1>2, <1>3 DEF PinOf, AllHosts

\* A scope that asks for no replica sends reads and writes to one database.
LEMMA PinnedRoutes ==
  ASSUME NEW p \in Processes, NEW k \in ShardKeys, NEW keyed \in BOOLEAN, Pinned(Scope(p))
  PROVE  /\ RouteRead(p, k, keyed) = {PinOf(Scope(p), k, Way(p, keyed))}
         /\ RouteWrite(p, k, keyed) = PinOf(Scope(p), k, Way(p, keyed))
         /\ Way(p, keyed) \in BOOLEAN
<1>1. CASE Targeted(p)
  BY <1>1 DEF RouteRead, RouteWrite, PinOf, Targeted, Pinned, Way
<1>2. CASE ~Targeted(p)
  BY <1>2 DEF RouteRead, RouteWrite, PinOf, Targeted, Pinned, Way
<1> QED BY <1>1, <1>2

LEMMA PinnedMeans == \A p \in Processes : Pinned(Scope(p)) <=> ~UsesReplicas(p)
BY DEF Pinned, UsesReplicas, Targeted

\* What is routed where depends on the settings and the scopes alone.
LEMMA SameShards ==
  ASSUME UNCHANGED config
  PROVE  /\ Shards' = Shards /\ (Configured' <=> Configured) /\ ReplicasPerShard' = ReplicasPerShard
         /\ \A n : Overrides(n)' = Overrides(n)
BY DEF Shards, Configured, Overrides, GroupSize, ReplicasPerShard, Group

LEMMA SamePins ==
  ASSUME UNCHANGED config, NEW x, NEW y, x.shard = y.shard, NEW k, NEW keyed
  PROVE  PinOf(x, k, keyed)' = PinOf(y, k, keyed)
<1>1. Shards' = Shards
  BY SameShards
<1>2. ShardOf(k)' = ShardOf(k)
  BY <1>1 DEF ShardOf
<1> QED BY <1>1, <1>2 DEF PinOf

\* AllHosts that only grow where a scope is pinned keep what it wrote there.
LEMMA StoredKept ==
  ASSUME UNCHANGED config, NEW x, Stored(x),
         \A k \in ShardKeys, keyed \in BOOLEAN : Pinned(x) /\ PinOf(x, k, keyed) # NoDatabase =>
           /\ x.own[keyed][k] \in Int
           /\ store[PinOf(x, k, keyed)][k] \in Int /\ store'[PinOf(x, k, keyed)][k] \in Int
           /\ store'[PinOf(x, k, keyed)][k] >= store[PinOf(x, k, keyed)][k]
  PROVE  Stored(x)'
<1> SUFFICES ASSUME NEW k \in ShardKeys, NEW keyed \in BOOLEAN, Pinned(x), PinOf(x, k, keyed)' # NoDatabase
             PROVE  store'[PinOf(x, k, keyed)'][k] >= x.own[keyed][k]
  BY DEF Stored, Pinned
<1>1. PICK h : h = PinOf(x, k, keyed) /\ h = PinOf(x, k, keyed)'
  BY SamePins
<1>2. /\ x.own[keyed][k] \in Int /\ store[h][k] \in Int /\ store'[h][k] \in Int
      /\ store'[h][k] >= store[h][k]
  BY <1>1
<1>3. store[h][k] >= x.own[keyed][k]
  BY <1>1 DEF Stored
<1> QED BY <1>1, <1>2, <1>3

LEMMA NotedKeeps ==
  ASSUME NEW n \in Nat, n = writes, NEW x \in Overrides(n), NEW way \in BOOLEAN, NEW k \in ShardKeys
  PROVE  /\ Noted(x, way, k) \in Overrides(n + 1)
         /\ Noted(x, way, k).shard = x.shard /\ (Pinned(Noted(x, way, k)) <=> Pinned(x))
         /\ \A j \in ShardKeys, b \in BOOLEAN :
              Noted(x, way, k).own[b][j] = IF b = way /\ j = k THEN n + 1 ELSE x.own[b][j]
<1>1. x \in Overrides(n + 1)
  BY LaterTyped
<1>2. PICK w \in [BOOLEAN -> [ShardKeys -> 0..(n + 1)]] : w = x.own
  BY <1>1 DEF Overrides
<1>3. PICK v : v = [w EXCEPT ![way] = [w[way] EXCEPT ![k] = n + 1]]
  OBVIOUS
<1>4. /\ v \in [BOOLEAN -> [ShardKeys -> 0..(n + 1)]]
      /\ \A j \in ShardKeys, b \in BOOLEAN : v[b][j] = IF b = way /\ j = k THEN n + 1 ELSE w[b][j]
  BY <1>3
<1>5. Noted(x, way, k) = [x EXCEPT !.own = v]
  BY <1>2, <1>3 DEF Noted
<1> QED BY <1>1, <1>2, <1>4, <1>5 DEF Overrides, Pinned

\* What a process reads in a scope is judged by that scope alone.
LEMMA ReadsKept ==
  ASSUME ScopeReadsOwn, \A p \in Processes : readBack'.process # p \/ (readBack' = readBack /\ scopes'[p] = scopes[p])
  PROVE  ScopeReadsOwn'
<1> SUFFICES ASSUME NEW p \in Processes, ReadIn(p)', ~UsesReplicas(p)'
             PROVE  readBack'.version >= Scope(p)'.own[Way(p, readBack.keyed)'][readBack'.key]
  BY DEF ScopeReadsOwn
<1>1. readBack' = readBack /\ scopes'[p] = scopes[p]
  BY DEF ReadIn
<1>2. Scope(p)' = Scope(p) /\ Way(p, readBack.keyed)' = Way(p, readBack.keyed) /\ (UsesReplicas(p)' <=> UsesReplicas(p))
  BY <1>1 DEF Scope, Way, UsesReplicas, Targeted
<1> QED BY <1>1, <1>2 DEF ScopeReadsOwn, ReadIn

LEMMA Forgotten ==
  ASSUME NEW p \in Processes, Forgets(p)
  PROVE  \A q \in Processes : readBack'.process # q \/ (readBack' = readBack /\ q # p)
BY ShardingAssumption DEF Forgets, NothingRead, NoDatabase

LEMMA StoreTyped ==
  ASSUME ShardingTypes, NEW d \in AllHosts, NEW k \in ShardKeys
  PROVE  store[d][k] \in Nat
BY DEF ShardingTypes

LEMMA OwnTyped ==
  ASSUME NEW n \in Nat, NEW x \in Overrides(n), NEW k \in ShardKeys, NEW keyed \in BOOLEAN
  PROVE  x.own[keyed][k] \in 0..n
BY DEF Overrides

\* Steps that leave what processes wrote and read alone.
LEMMA Unwritten ==
  ASSUME ShardingInv, UNCHANGED <<config, store, scopes, writes>>,
         \A p \in Processes : readBack'.process # p \/ readBack' = readBack
  PROVE  ShardingInv'
<1>1. ShardingTypes' /\ ScopesKnown'
  BY SameShards DEF ShardingInv, ShardingTypes, ScopesKnown
<1>2. OwnStored'
  <2> SUFFICES ASSUME NEW p \in Processes, NEW i \in DOMAIN scopes[p] PROVE Stored(scopes[p][i])'
    BY DEF OwnStored
  <2>1. PICK x : x = scopes[p][i] /\ x = (scopes[p][i])'
    OBVIOUS
  <2>2. Stored(x)
    BY <2>1 DEF ShardingInv, OwnStored
  <2>3. \A k, keyed : PinOf(x, k, keyed)' = PinOf(x, k, keyed)
    BY SamePins
  <2> QED BY <2>1, <2>2, <2>3 DEF Stored, Pinned
<1>3. ScopeReadsOwn'
  BY ReadsKept DEF ShardingInv
<1> QED BY <1>1, <1>2, <1>3 DEF ShardingInv

LEMMA ReplicateStep ==
  ASSUME ShardingInv, NEW s \in DOMAIN Shards, NEW d \in Hosts, NEW k \in ShardKeys, Replicate(s, d, k)
  PROVE  ShardingInv'
<1>1. /\ d \in Replicas /\ store' = [store EXCEPT ![d][k] = store[Shards[s].primary][k]]
      /\ UNCHANGED <<config, scopes, readBack, writes>>
  BY DEF Replicate, Replicas
<1>2. ShardingTypes' /\ ScopesKnown'
  <2>1. Shards[s].primary \in AllHosts
    BY ShardsOf DEF ShardingInv, ShardingTypes, AllHosts
  <2>2. store' \in [AllHosts -> [ShardKeys -> Nat]]
    BY <1>1, <2>1 DEF ShardingInv, ShardingTypes
  <2> QED BY <1>1, <2>2, SameShards DEF ShardingInv, ShardingTypes, ScopesKnown
<1>3. d \notin Primaries \cup {DefaultDatabase}
  <2>1. d # DefaultDatabase
    BY ShardingAssumption DEF Hosts, DefaultDatabase
  <2> QED BY <1>1, <2>1, ReplicasApart DEF ShardingInv, ShardingTypes
<1>4. OwnStored'
  <2> SUFFICES ASSUME NEW p \in Processes, NEW i \in DOMAIN scopes[p] PROVE Stored(scopes[p][i])'
    BY <1>1 DEF OwnStored
  <2>1. PICK x \in Overrides(writes) : x = scopes[p][i] /\ x = (scopes[p][i])'
    BY <1>1 DEF ShardingInv, ScopesKnown
  <2>2. Stored(x)
    BY <2>1 DEF ShardingInv, OwnStored
  <2>3. ASSUME NEW j \in ShardKeys, NEW keyed \in BOOLEAN, PinOf(x, j, keyed) # NoDatabase
        PROVE  /\ x.own[keyed][j] \in Int
               /\ store[PinOf(x, j, keyed)][j] \in Int /\ store'[PinOf(x, j, keyed)][j] = store[PinOf(x, j, keyed)][j]
    <3>1. PinOf(x, j, keyed) \in AllHosts /\ PinOf(x, j, keyed) # d
      BY <1>3, <2>3, PinPlaced DEF ShardingInv
    <3>2. writes \in Nat
      BY DEF ShardingInv, ShardingTypes
    <3>3. x.own[keyed][j] \in 0..writes
      BY <3>2, OwnTyped
    <3>4. store'[PinOf(x, j, keyed)][j] = store[PinOf(x, j, keyed)][j]
      BY <1>1, <3>1 DEF ShardingInv, ShardingTypes
    <3>5. store[PinOf(x, j, keyed)][j] \in Nat
      BY <3>1, StoreTyped DEF ShardingInv
    <3> QED BY <3>2, <3>3, <3>4, <3>5
  <2>4. Stored(x)'
    BY <1>1, <2>2, <2>3, StoredKept
  <2> QED BY <2>1, <2>4 DEF Stored, Pinned, PinOf
<1>5. ScopeReadsOwn'
  BY <1>1, ReadsKept DEF ShardingInv
<1> QED BY <1>2, <1>4, <1>5 DEF ShardingInv

\* A scope that begins has written nothing yet, and the others keep what they wrote.
LEMMA ScopeStep ==
  ASSUME ShardingInv, NEW p \in Processes, NEW stack \in Seq(Overrides(writes)),
         scopes' = [scopes EXCEPT ![p] = stack], Forgets(p), UNCHANGED <<config, store, writes>>,
         \A i \in DOMAIN stack : (i \in DOMAIN scopes[p] /\ stack[i] = scopes[p][i]) \/ stack[i].own = NothingWritten
  PROVE  ShardingInv'
<1>1. ShardingTypes' /\ ScopesKnown'
  BY SameShards DEF ShardingInv, ShardingTypes, ScopesKnown
<1>2. OwnStored'
  <2> SUFFICES ASSUME NEW q \in Processes, NEW i \in DOMAIN scopes'[q] PROVE Stored(scopes[q][i])'
    BY DEF OwnStored
  <2>1. PICK x \in Overrides(writes) : x = (scopes[q][i])'
    BY <1>1, SameShards DEF ScopesKnown
  <2>2. Stored(x) \/ x.own = NothingWritten
    BY <2>1 DEF ShardingInv, OwnStored, ScopesKnown
  <2>3. \A k, keyed : PinOf(x, k, keyed)' = PinOf(x, k, keyed)
    BY SamePins
  <2>4. ASSUME NEW k \in ShardKeys, NEW keyed \in BOOLEAN, PinOf(x, k, keyed) # NoDatabase
        PROVE  store[PinOf(x, k, keyed)][k] \in Nat
    BY <2>4, PinPlaced, StoreTyped DEF ShardingInv
  <2>5. x.own = NothingWritten => \A k \in ShardKeys, keyed \in BOOLEAN : x.own[keyed][k] = 0
    BY DEF NothingWritten
  <2>6. Stored(x)
    BY <2>2, <2>4, <2>5 DEF Stored
  <2> QED BY <2>1, <2>3, <2>6 DEF Stored, Pinned
<1>3. ScopeReadsOwn'
  <2>1. \A q \in Processes : q # p => scopes'[q] = scopes[q]
    BY DEF ShardingInv, ScopesKnown
  <2> QED BY <2>1, Forgotten, ReadsKept DEF ShardingInv
<1> QED BY <1>1, <1>2, <1>3 DEF ShardingInv

LEMMA SaveStep ==
  ASSUME ShardingInv, NEW p \in Processes, NEW k \in ShardKeys, NEW keyed \in BOOLEAN, Save(p, k, keyed)
  PROVE  ShardingInv'
<1>1. Forgets(p) /\ UNCHANGED config
  BY DEF Save
<1>2. CASE UNCHANGED <<store, scopes, writes>>
  BY <1>1, <1>2, Forgotten, Unwritten
<1>3. CASE ~UNCHANGED <<store, scopes, writes>>
  <2>1. PICK d : d = RouteWrite(p, k, keyed)
    OBVIOUS
  <2>2. /\ d # NoDatabase /\ store' = [store EXCEPT ![d][k] = writes + 1] /\ writes' = writes + 1
        /\ scopes' = IF scopes[p] = << >> THEN scopes
                     ELSE [scopes EXCEPT ![p][Len(scopes[p])] = Noted(@, Way(p, keyed), k)]
    BY <1>3, <2>1 DEF Save
  <2>3. PICK n \in Nat : n = writes
    BY DEF ShardingInv, ShardingTypes
  <2>4. ShardingTypes'
    <3>1. store \in [AllHosts -> [ShardKeys -> Nat]] /\ store' = [store EXCEPT ![d][k] = n + 1] /\ n + 1 \in Nat
      BY <2>2, <2>3 DEF ShardingInv, ShardingTypes
    <3>2. store' \in [AllHosts -> [ShardKeys -> Nat]]
      BY <3>1
    <3> QED BY <1>1, <2>2, <2>3, <3>2, SameShards DEF ShardingInv, ShardingTypes
  <2>5. Way(p, keyed) \in BOOLEAN
    BY DEF Way, Targeted
  <2>6. PICK m, top : m = Len(scopes[p]) /\ top = Noted(Scope(p), Way(p, keyed), k)
    OBVIOUS
  <2>7. /\ \A q \in Processes : \A i : ~(q = p /\ scopes[p] # << >> /\ i = m) => scopes'[q][i] = scopes[q][i]
        /\ \A q \in Processes : DOMAIN scopes'[q] = DOMAIN scopes[q]
        /\ scopes[p] # << >> => /\ m \in DOMAIN scopes[p] /\ scopes'[p] = [scopes[p] EXCEPT ![m] = top]
                               /\ scopes'[p][m] = top
    <3>1. scopes[p] # << >> => m \in DOMAIN scopes[p] /\ Scope(p) = scopes[p][m]
      BY <2>6, ScopeKnown DEF ShardingInv
    <3>2. scopes \in [Processes -> Seq(Overrides(writes))]
      BY DEF ShardingInv, ScopesKnown
    <3>3. CASE scopes[p] = << >>
      BY <2>2, <3>3
    <3>4. CASE scopes[p] # << >>
      <4>1. scopes' = [scopes EXCEPT ![p] = [scopes[p] EXCEPT ![m] = top]]
        BY <2>2, <2>6, <3>1, <3>4
      <4>2. DOMAIN scopes = Processes
        BY <3>2
      <4>3. scopes'[p] = [scopes[p] EXCEPT ![m] = top] /\ \A q \in Processes : q # p => scopes'[q] = scopes[q]
        BY <4>1, <4>2
      <4>4. PICK s \in Seq(Overrides(writes)) : s = scopes[p] /\ m \in DOMAIN s
        BY <3>1, <3>2, <3>4
      <4>5. PICK u : u = [s EXCEPT ![m] = top]
        OBVIOUS
      <4>6. DOMAIN u = DOMAIN s /\ u[m] = top /\ \A i : i # m => u[i] = s[i]
        BY <4>4, <4>5
      <4>7. scopes'[p] = u /\ DOMAIN scopes'[p] = DOMAIN scopes[p]
        BY <4>3, <4>4, <4>5, <4>6
      <4> QED BY <3>4, <4>3, <4>4, <4>6, <4>7
    <3> QED BY <3>3, <3>4
  <2>8. Scope(p) \in Overrides(n) /\ top \in Overrides(n + 1)
    BY <2>3, <2>5, <2>6, ScopeKnown, NotedKeeps DEF ShardingInv
  <2>9. /\ top.shard = Scope(p).shard /\ (Pinned(top) <=> Pinned(Scope(p)))
        /\ \A j \in ShardKeys, b \in BOOLEAN :
             top.own[b][j] = IF b = Way(p, keyed) /\ j = k THEN n + 1 ELSE Scope(p).own[b][j]
    BY <2>3, <2>5, <2>8, <2>6, NotedKeeps
  <2>10. ScopesKnown'
    <3>1. ASSUME NEW q \in Processes PROVE scopes'[q] \in Seq(Overrides(n + 1))
      <4>1. scopes[q] \in Seq(Overrides(n)) /\ scopes[q] \in Seq(Overrides(n + 1))
        <5>1. scopes[q] \in Seq(Overrides(n))
          BY <2>3, ScopeKnown DEF ShardingInv
        <5>2. ASSUME NEW S, NEW T, S \subseteq T PROVE Seq(S) \subseteq Seq(T)
          BY <5>2
        <5> QED BY <5>1, <5>2, LaterTyped
      <4>2. CASE q = p /\ scopes[p] # << >>
        <5>1. scopes'[q] = [scopes[q] EXCEPT ![m] = top] /\ m \in DOMAIN scopes[q]
          BY <2>7, <4>2
        <5> QED BY <2>8, <4>1, <5>1, ExceptSeq
      <4>3. CASE ~(q = p /\ scopes[p] # << >>)
        <5>1. scopes'[q] = scopes[q]
          BY <2>2, <4>3 DEF ShardingInv, ScopesKnown
        <5> QED BY <4>1, <5>1
      <4> QED BY <4>2, <4>3
    <3>2. scopes' \in [Processes -> Seq(Overrides(n + 1))]
      <4>1. DOMAIN scopes' = Processes /\ scopes' = [q \in Processes |-> scopes'[q]]
        BY <2>2 DEF ShardingInv, ScopesKnown
      <4> QED BY <3>1, <4>1
    <3>3. writes' = n + 1
      BY <2>2, <2>3
    <3> QED BY <1>1, <3>2, <3>3, SameShards DEF ScopesKnown
  <2>11. ASSUME NEW x \in Overrides(n), NEW j \in ShardKeys, NEW b \in BOOLEAN, PinOf(x, j, b) # NoDatabase
         PROVE  /\ x.own[b][j] \in Nat /\ x.own[b][j] <= n
                /\ store[PinOf(x, j, b)][j] \in Nat
                /\ store'[PinOf(x, j, b)][j] = IF PinOf(x, j, b) = d /\ j = k THEN n + 1 ELSE store[PinOf(x, j, b)][j]
    <3>1. PICK h \in AllHosts : h = PinOf(x, j, b)
      BY <2>11, PinPlaced DEF ShardingInv
    <3>2. x.own[b][j] \in 0..n
      BY OwnTyped
    <3>3. store[h][j] \in Nat
      BY StoreTyped DEF ShardingInv
    <3>4. store'[h][j] = IF h = d /\ j = k THEN n + 1 ELSE store[h][j]
      BY <2>2, <2>3 DEF ShardingInv, ShardingTypes
    <3> QED BY <3>1, <3>2, <3>3, <3>4
  <2>12. OwnStored'
    <3> SUFFICES ASSUME NEW q \in Processes, NEW i \in DOMAIN scopes'[q] PROVE Stored(scopes[q][i])'
      BY DEF OwnStored
    <3>1. PICK x \in Overrides(n) : x = scopes[q][i] /\ Stored(x)
      BY <2>3, <2>7 DEF ShardingInv, OwnStored, ScopesKnown
    <3>2. ASSUME NEW j \in ShardKeys, NEW b \in BOOLEAN, NEW h, h = PinOf(x, j, b), h # NoDatabase, Pinned(x)
          PROVE  /\ x.own[b][j] \in Nat /\ x.own[b][j] <= n /\ store[h][j] >= x.own[b][j]
                 /\ store[h][j] \in Nat
                 /\ store'[h][j] = IF h = d /\ j = k THEN n + 1 ELSE store[h][j]
                 /\ store'[h][j] >= x.own[b][j]
      <4>1. store[h][j] >= x.own[b][j]
        BY <3>1, <3>2 DEF Stored
      <4>2. /\ x.own[b][j] \in Nat /\ x.own[b][j] <= n /\ store[h][j] \in Nat
            /\ store'[h][j] = IF h = d /\ j = k THEN n + 1 ELSE store[h][j]
        BY <2>11, <3>2
      <4> QED BY <4>1, <4>2
    <3>3. CASE ~(q = p /\ scopes[p] # << >> /\ i = m)
      <4>1. x = (scopes[q][i])'
        BY <2>7, <3>1, <3>3
      <4>2. ASSUME NEW j \in ShardKeys, NEW b \in BOOLEAN, Pinned(x), PinOf(x, j, b)' # NoDatabase
            PROVE  store'[PinOf(x, j, b)'][j] >= x.own[b][j]
        <5>1. PICK h : h = PinOf(x, j, b) /\ h = PinOf(x, j, b)'
          BY <1>1, SamePins
        <5>2. h # NoDatabase /\ Pinned(x)
          BY <4>2, <5>1
        <5>3. store'[h][j] >= x.own[b][j]
          BY <3>2, <5>1, <5>2
        <5> QED BY <5>1, <5>3
      <4> QED BY <4>1, <4>2 DEF Stored, Pinned
    <3>4. CASE q = p /\ scopes[p] # << >> /\ i = m
      <4>1. top = (scopes[q][i])' /\ x = Scope(p)
        <5>1. Scope(p) = scopes[p][m]
          BY <2>6, <3>4, ScopeKnown DEF ShardingInv
        <5> QED BY <2>7, <3>1, <3>4, <5>1
      <4>2. ASSUME NEW j \in ShardKeys, NEW b \in BOOLEAN, Pinned(top), PinOf(top, j, b)' # NoDatabase
            PROVE  store'[PinOf(top, j, b)'][j] >= top.own[b][j]
        <5>1. top.shard = x.shard /\ Pinned(x) /\ Pinned(Scope(p))
          BY <2>9, <4>1, <4>2
        <5>2. PinOf(top, j, b)' = PinOf(x, j, b)
          BY ONLY <1>1, <5>1, SamePins
        <5>3. PICK h : h = PinOf(x, j, b) /\ h = PinOf(top, j, b)' /\ h # NoDatabase
          BY <4>2, <5>2
        <5>4. /\ x.own[b][j] \in Nat /\ x.own[b][j] <= n /\ store[h][j] >= x.own[b][j]
              /\ store[h][j] \in Nat
              /\ store'[h][j] = IF h = d /\ j = k THEN n + 1 ELSE store[h][j]
          BY <3>2, <5>1, <5>3
        <5>5. b = Way(p, keyed) /\ j = k => h = d
          <6>1. d = PinOf(Scope(p), k, Way(p, keyed))
            BY <2>1, <5>1, PinnedRoutes
          <6> QED BY <4>1, <5>3, <6>1
        <5>6. top.own[b][j] = IF b = Way(p, keyed) /\ j = k THEN n + 1 ELSE x.own[b][j]
          BY <2>9, <4>1
        <5>7. store'[h][j] >= top.own[b][j]
          BY <5>4, <5>5, <5>6
        <5> QED BY <5>3, <5>7
      <4> QED BY <4>1, <4>2 DEF Stored, Pinned
    <3> QED BY <3>3, <3>4
  <2>13. ScopeReadsOwn'
    <3>1. \A q \in Processes : q # p => scopes'[q] = scopes[q]
      BY <2>2 DEF ShardingInv, ScopesKnown
    <3> QED BY <1>1, <3>1, Forgotten, ReadsKept DEF ShardingInv
  <2> QED BY <2>4, <2>10, <2>12, <2>13 DEF ShardingInv
<1> QED BY <1>2, <1>3

LEMMA GetStep ==
  ASSUME ShardingInv, NEW p \in Processes, NEW k \in ShardKeys, NEW keyed \in BOOLEAN, GetRow(p, k, keyed)
  PROVE  ShardingInv'
<1>1. PICK d \in RouteRead(p, k, keyed) :
        /\ readBack' = IF d # NoDatabase /\ up[d]
                       THEN [process |-> p, key |-> k, keyed |-> keyed, version |-> store[d][k]] ELSE NothingRead
        /\ UNCHANGED <<config, store, scopes, writes>>
  BY DEF GetRow
<1>2. CASE readBack' = NothingRead
  BY <1>1, <1>2, Unwritten, ShardingAssumption DEF NothingRead, NoDatabase
<1>3. CASE d # NoDatabase /\ readBack' = [process |-> p, key |-> k, keyed |-> keyed, version |-> store[d][k]]
  <2>1. ShardingTypes' /\ ScopesKnown' /\ OwnStored'
    <3>2. ShardingTypes' /\ ScopesKnown'
      BY <1>1, SameShards DEF ShardingInv, ShardingTypes, ScopesKnown
    <3>3. ASSUME NEW q \in Processes, NEW i \in DOMAIN scopes'[q] PROVE Stored(scopes[q][i])'
      <4>1. PICK x : x = scopes[q][i] /\ x = (scopes[q][i])' /\ Stored(x)
        BY <1>1, <3>3 DEF ShardingInv, OwnStored
      <4>2. \A j, b : PinOf(x, j, b)' = PinOf(x, j, b)
        BY <1>1, SamePins
      <4> QED BY <1>1, <4>1, <4>2 DEF Stored, Pinned
    <3> QED BY <3>2, <3>3 DEF OwnStored
  <2>2. ScopeReadsOwn'
    <3>1. Scope(p)' = Scope(p) /\ (UsesReplicas(p)' <=> UsesReplicas(p)) /\ Way(p, keyed)' = Way(p, keyed)
      BY <1>1 DEF Scope, UsesReplicas, Targeted, Way
    <3> SUFFICES ASSUME scopes[p] # << >>, ~UsesReplicas(p)
                 PROVE  store[d][k] >= Scope(p).own[Way(p, keyed)][k]
      BY <1>1, <1>3, <3>1 DEF ScopeReadsOwn, ReadIn, Way
    <3>2. Pinned(Scope(p))
      BY PinnedMeans
    <3>3. d = PinOf(Scope(p), k, Way(p, keyed)) /\ Way(p, keyed) \in BOOLEAN
      BY <1>1, <3>2, PinnedRoutes
    <3>4. Stored(Scope(p))
      BY ScopeKnown DEF ShardingInv, OwnStored
    <3> QED BY <1>3, <3>2, <3>3, <3>4 DEF Stored
  <2> QED BY <2>1, <2>2 DEF ShardingInv
<1> QED BY <1>1, <1>2, <1>3

LEMMA EnterStep ==
  ASSUME ShardingInv, NEW p \in Processes, NEW x \in Overrides(writes), Enter(p, x)
  PROVE  ShardingInv'
<1>1. PICK y : y = [x EXCEPT !.own = NothingWritten]
  OBVIOUS
<1>2. y \in Overrides(writes) /\ y.own = NothingWritten
  BY <1>1, NothingTyped DEF Overrides, ShardingInv, ShardingTypes
<1>3. PICK s \in Seq(Overrides(writes)) : s = scopes[p]
  BY ScopeKnown DEF ShardingInv
<1>4. /\ Append(s, y) \in Seq(Overrides(writes))
      /\ \A i \in DOMAIN Append(s, y) : (i \in DOMAIN s /\ Append(s, y)[i] = s[i]) \/ Append(s, y)[i].own = NothingWritten
  BY <1>2
<1>5. scopes' = [scopes EXCEPT ![p] = Append(s, y)] /\ Forgets(p) /\ UNCHANGED <<config, store, writes>>
  BY <1>1, <1>3 DEF Enter
<1> QED BY <1>3, <1>4, <1>5, ScopeStep

\* sharding/router.py, for every number of databases, every slicing of them, every
\* strategy and every set of processes: a scope pinned to a primary reads at least
\* what was written in it the same way, whatever scopes are nested in it.
THEOREM ScopeReadsOwnHolds == ShardSpec => []ScopeReadsOwn
<1>1. ShardInit => ShardingInv
  <2> SUFFICES ASSUME ShardInit PROVE ShardingInv
    OBVIOUS
  <2>1. ShardingTypes
    BY DEF ShardInit, ShardingTypes
  <2>2. ScopesKnown /\ \A p \in Processes : scopes[p] = << >>
    BY DEF ShardInit, ScopesKnown
  <2> QED BY <2>1, <2>2 DEF ShardingInv, OwnStored, ScopeReadsOwn, ReadIn
<1>2. ShardingInv /\ [ShardNext]_shardVars => ShardingInv'
  <2> SUFFICES ASSUME ShardingInv, [ShardNext]_shardVars PROVE ShardingInv'
    OBVIOUS
  <2>1. ASSUME NEW p \in Processes, MasterOnly(p) PROVE ShardingInv'
    <3>1. [Scope(p) EXCEPT !.master = TRUE] \in Overrides(writes)
      BY ScopeKnown DEF ShardingInv, Overrides
    <3> QED BY <2>1, <3>1, EnterStep DEF MasterOnly
  <2>2. ASSUME NEW p \in Processes, NEW s \in DOMAIN Shards, NEW replica \in BOOLEAN, Target(p, s, replica)
        PROVE  ShardingInv'
    <3>1. [Scope(p) EXCEPT !.shard = s, !.replica = replica] \in Overrides(writes)
      BY ScopeKnown DEF ShardingInv, Overrides
    <3> QED BY <2>2, <3>1, EnterStep DEF Target
  <2>3. ASSUME NEW p \in Processes, Exit(p) PROVE ShardingInv'
    <3>1. PICK s \in Seq(Overrides(writes)) : s = scopes[p] /\ s # << >>
      BY <2>3, ScopeKnown DEF ShardingInv, Exit
    <3>2. Front(s) \in Seq(Overrides(writes)) /\ \A i \in DOMAIN Front(s) : i \in DOMAIN s /\ Front(s)[i] = s[i]
      BY <3>1 DEF Front
    <3>3. scopes' = [scopes EXCEPT ![p] = Front(s)] /\ Forgets(p) /\ UNCHANGED <<config, store, writes>>
      BY <2>3, <3>1 DEF Exit
    <3> QED BY <3>1, <3>2, <3>3, ScopeStep
  <2>4. CASE (\E p \in Processes, d \in Hosts : ExpireProbe(p, d)) \/ (\E d \in AllHosts : Fail(d) \/ Return(d))
             \/ UNCHANGED shardVars
    <3>1. UNCHANGED <<config, store, scopes, readBack, writes>>
      BY <2>4 DEF ExpireProbe, Fail, Return, shardVars
    <3> QED BY <3>1, Unwritten
  <2> QED BY <2>1, <2>2, <2>3, <2>4, SaveStep, GetStep, ReplicateStep DEF ShardNext
<1>3. ShardingInv => ScopeReadsOwn
  BY DEF ShardingInv
<1> QED BY <1>1, <1>2, <1>3, PTL DEF ShardSpec

-----------------------------------------------------------------------------
(* EncryptedColumn: what a row, an instance and a fixture may hold, and    *)
(* that the index of a row nobody left behind is of the value beside it.   *)

ColumnKeys == {1, 2}
Envelopes == { Envelope(n, v) : n \in ColumnKeys, v \in ColumnValues }
StoredTexts == Envelopes \cup {Null}
Sources == Texts \cup Envelopes \cup {Deferred}
Indexes == [key : ColumnKeys \cup {0}, text : Sources]
ColumnInstances == [pk : ColumnRows \cup {0}, source : Sources, sibling : Indexes]
ColumnRecords == [stored : StoredTexts \cup {Deferred}, index : Indexes]

ColumnTypes ==
  /\ field \in [kind : FieldKinds, indexed : BOOLEAN, unique : BOOLEAN, snap : BOOLEAN]
  /\ field.unique => field.indexed
  /\ keyset \in {<<>>, << 1 >>, <<2, 1>>}
  /\ table \in [ColumnRows -> ColumnRecords]
  /\ held \in [Handles -> ColumnInstances]
  /\ fixture \in [ColumnRows -> ColumnRecords]
  /\ meant \in [ColumnRows -> Texts]

\* A row is there with both columns or not at all, a fixture likewise; an instance
\* is of a row and holds a plaintext.
RowsWhole ==
  /\ \A k \in Present : table[k].stored # Deferred
  /\ \A k \in ColumnRows : fixture[k] # NoRecord => fixture[k].stored # Deferred
  /\ \A h \in Handles : held[h] # Unheld => held[h].pk \in Present /\ held[h].source \notin Envelopes

\* The index a lookup finds: of the value, under a key of the keyset.
Excused == drifted \cup torn
IndexTrue ==
  field.indexed =>
    \A k \in Present \ Excused :
      IF meant[k] = Null THEN table[k].index = NoIndex
      ELSE /\ table[k].index.text = meant[k] /\ table[k].index.key \in ColumnKeys
           /\ table[k].index.key = 2 => keyset # << 1 >>

\* What the constraint of the database holds up, excused rows too.
IndexUnique ==
  field.unique =>
    \A j, k \in Present : j # k /\ table[j].index # NoIndex => table[j].index # table[k].index

ColumnInv == ColumnTypes /\ RowsWhole /\ ReadsBack /\ IndexTrue /\ IndexUnique

LEMMA Shapes ==
  /\ \A text \in Texts : text # Deferred /\ text \notin Envelopes
  /\ \A text \in Texts : text # Null => text.shape = "plain" /\ text.value \in ColumnValues /\ text = Plain(text.value)
  /\ \A text \in Envelopes : text # Null /\ text # Deferred /\ text.shape = "envelope" /\ text.value \in ColumnValues
  /\ Null.shape = "null" /\ Null # Deferred /\ Null \in Texts
  /\ NoIndex \in Indexes /\ NotLoaded \in Indexes /\ NoRecord \in ColumnRecords
BY DEF Texts, Plain, Null, Deferred, Envelopes, Envelope, NoIndex, NotLoaded, NoRecord, Indexes, Sources,
       ColumnRecords, ColumnKeys

LEMMA KeysKnown ==
  ASSUME keyset \in {<<>>, << 1 >>, <<2, 1>>}
  PROVE  /\ keyset # <<>> => Head(keyset) \in ColumnKeys /\ 1 \in Range(keyset) /\ Range(keyset) \subseteq ColumnKeys
         /\ keyset # <<>> /\ keyset # << 1 >> => Range(keyset) = ColumnKeys
         /\ keyset = << 1 >> => Head(keyset) = 1 /\ Range(keyset) = {1}
<1>1. CASE keyset = <<>>
  BY <1>1
<1>2. CASE keyset = << 1 >>
  <2>1. DOMAIN keyset = {1} /\ keyset[1] = 1 /\ Head(keyset) = 1
    BY <1>2
  <2> QED BY <1>2, <2>1 DEF Range, ColumnKeys
<1>3. CASE keyset = <<2, 1>>
  <2>1. DOMAIN keyset = {1, 2} /\ keyset[1] = 2 /\ keyset[2] = 1 /\ Head(keyset) = 2 /\ keyset # << 1 >>
    BY <1>3
  <2> QED BY <1>3, <2>1 DEF Range, ColumnKeys
<1> QED BY <1>1, <1>2, <1>3

\* What a write stores, what it reads back as, and the index that is derived from it.
LEMMA Sealing ==
  ASSUME ColumnTypes, NEW text \in Texts, Sealable(text)
  PROVE  /\ Sealed(text) \in StoredTexts /\ Sealed(text) # Deferred /\ Opened(Sealed(text)) = text
         /\ IndexOf(text) = IF text = Null THEN NoIndex ELSE [key |-> Head(keyset), text |-> text]
<1>1. CASE text = Null
  BY <1>1, Shapes DEF Sealed, Opened, IndexOf, StoredTexts
<1>2. CASE text # Null
  <2>1. text.shape = "plain" /\ text.value \in ColumnValues /\ text = Plain(text.value) /\ keyset # <<>>
    BY <1>2, Shapes DEF Sealable
  <2>2. Head(keyset) \in ColumnKeys
    BY <2>1, KeysKnown DEF ColumnTypes
  <2>3. Sealed(text) = Envelope(Head(keyset), text.value)
    BY <2>1 DEF Sealed
  <2>4. Sealed(text) \in Envelopes /\ Sealed(text).value = text.value
    BY <2>1, <2>2, <2>3 DEF Envelopes, Envelope
  <2> QED BY <1>2, <2>1, <2>4, Shapes DEF Opened, IndexOf, StoredTexts, Encodes
<1> QED BY <1>1, <1>2

LEMMA Opening ==
  ASSUME NEW stored \in StoredTexts
  PROVE  /\ Opened(stored) \in Texts
         /\ Opened(stored) = Null <=> stored = Null
BY Shapes DEF Opened, StoredTexts, Texts, Plain, Null

LEMMA IndexTyped ==
  ASSUME ColumnTypes, NEW text \in Sources
  PROVE  IndexOf(text) \in Indexes
<1>1. CASE IndexOf(text) = NoIndex
  BY <1>1, Shapes
<1>2. CASE IndexOf(text) = [key |-> Head(keyset), text |-> text] /\ keyset # <<>>
  <2>1. Head(keyset) \in ColumnKeys
    BY <1>2, KeysKnown DEF ColumnTypes
  <2> QED BY <1>2, <2>1 DEF Indexes
<1> QED BY <1>1, <1>2 DEF IndexOf

\* One write of row k, by whatever way: both columns of a new row, the index with the
\* source of an instance or without it, and the bookkeeping of what it leaves behind.
LEMMA RowStep ==
  ASSUME ColumnInv, NEW k \in ColumnRows, NEW columns \in SUBSET BothColumns, NEW instance \in ColumnInstances,
         Writes(k, columns, instance), columns \subseteq DeclaredColumns,
         "source" \in columns => instance.source # Deferred,
         k \in Present \/ columns = DeclaredColumns,
         "index" \in columns /\ "source" \notin columns => instance.pk = k,
         \A j \in ColumnRows \ {k} : j \in Excused' <=> j \in Excused,
         k \in Excused' \/ ~field.indexed \/ (columns = DeclaredColumns /\ instance.source \in Texts),
         held' \in [Handles -> ColumnInstances],
         \A h \in Handles :
           held'[h] # Unheld => held'[h].pk \in Present \cup {k} /\ held'[h].source \notin Envelopes
  PROVE  ColumnInv'
<1> DEFINE row == RowWritten(k, columns, instance)
<1>1. /\ "source" \in columns => Sealable(instance.source) /\ instance.source \in Texts \cup Envelopes
      /\ Unique(k, row) /\ table' = [table EXCEPT ![k] = row]
      /\ meant' = IF "source" \in columns THEN [meant EXCEPT ![k] = Opened(Sealed(instance.source))] ELSE meant
      /\ UNCHANGED <<field, keyset, fixture>>
  BY DEF Writes, ColumnInstances, Sources
<1>2. ColumnTypes /\ RowsWhole /\ ReadsBack /\ IndexTrue /\ IndexUnique
  BY DEF ColumnInv
<1>3. "source" \notin columns => k \in Present
  BY DEF DeclaredColumns, BothColumns
<1>4. row.stored \in StoredTexts
  <2>1. CASE "source" \in columns /\ instance.source \in Texts
    <3>1. Sealed(instance.source) \in StoredTexts
      BY <1>1, <1>2, <2>1, Sealing
    <3> QED BY <2>1, <3>1 DEF RowWritten
  <2>2. CASE "source" \in columns /\ instance.source \in Envelopes
    BY <2>2, Shapes DEF RowWritten, Sealed, StoredTexts
  <2>3. CASE "source" \notin columns
    BY <1>2, <1>3, <2>3 DEF RowWritten, ColumnTypes, ColumnRecords, RowsWhole
  <2> QED BY <1>1, <2>1, <2>2, <2>3
<1>5. "index" \in columns => SiblingOf(instance) \in Indexes
  <2>1. instance.source \in Sources /\ instance.sibling \in Indexes
    BY DEF ColumnInstances
  <2>2. IndexOf(instance.source) \in Indexes
    BY <1>2, <2>1, IndexTyped
  <2>3. table[k].index \in Indexes
    BY <1>2 DEF ColumnTypes, ColumnRecords
  <2> QED BY <2>1, <2>2, <2>3 DEF SiblingOf
<1>6. row.index \in Indexes
  BY <1>2, <1>5, Shapes DEF RowWritten, ColumnTypes, ColumnRecords
<1>7. row \in ColumnRecords /\ row.stored # Deferred /\ row # NoRecord
  <2>1. row = [stored |-> row.stored, index |-> row.index]
    BY DEF RowWritten
  <2>2. row.stored # Deferred
    BY <1>4, Shapes DEF StoredTexts
  <2> QED BY <1>4, <1>6, <2>1, <2>2 DEF ColumnRecords, NoRecord
<1>8. "source" \in columns => Opened(Sealed(instance.source)) = Opened(row.stored)
  BY DEF RowWritten
<1>9. Opened(row.stored) \in Texts
  BY <1>4, Opening
<1>10. "source" \notin columns => row.stored = table[k].stored
  BY DEF RowWritten
<1>11. "index" \notin columns => row.index = IF k \in Present THEN table[k].index ELSE NoIndex
  BY DEF RowWritten
<1>12. columns = DeclaredColumns /\ field.indexed /\ instance.source \in Texts =>
         row.index = IF instance.source = Null THEN NoIndex ELSE [key |-> Head(keyset), text |-> instance.source]
  <2> SUFFICES ASSUME columns = DeclaredColumns, field.indexed, instance.source \in Texts
               PROVE  row.index = IF instance.source = Null THEN NoIndex
                                  ELSE [key |-> Head(keyset), text |-> instance.source]
    OBVIOUS
  <2>1. "index" \in columns /\ "source" \in columns
    BY DEF DeclaredColumns, BothColumns
  <2>2. IndexOf(instance.source) = IF instance.source = Null THEN NoIndex
                                   ELSE [key |-> Head(keyset), text |-> instance.source]
    BY <1>1, <1>2, <2>1, Sealing
  <2>3. instance.source # Deferred
    BY Shapes
  <2> QED BY <2>1, <2>2, <2>3 DEF RowWritten, SiblingOf
<1>13. columns = DeclaredColumns /\ instance.source \in Texts => Opened(row.stored) = instance.source
  <2> SUFFICES ASSUME columns = DeclaredColumns, instance.source \in Texts
               PROVE  Opened(row.stored) = instance.source
    OBVIOUS
  <2>1. "source" \in columns
    BY DEF DeclaredColumns, BothColumns
  <2>2. Opened(Sealed(instance.source)) = instance.source
    BY <1>1, <1>2, <2>1, Sealing
  <2> QED BY <1>8, <2>1, <2>2
<1> HIDE DEF row
<1>14. /\ table' \in [ColumnRows -> ColumnRecords]
       /\ table'[k] = row /\ \A j \in ColumnRows \ {k} : table'[j] = table[j]
  BY <1>1, <1>2, <1>7 DEF ColumnTypes
<1>15. Present' = Present \cup {k}
  BY <1>7, <1>14 DEF Present
<1>16. /\ meant' \in [ColumnRows -> Texts]
       /\ meant'[k] = Opened(row.stored) /\ \A j \in ColumnRows \ {k} : meant'[j] = meant[j]
  <2>1. CASE "source" \in columns
    <3>1. meant' = [meant EXCEPT ![k] = Opened(row.stored)]
      BY <1>1, <1>8, <2>1
    <3> QED BY <1>2, <1>9, <3>1 DEF ColumnTypes
  <2>2. CASE "source" \notin columns
    <3>1. meant' = meant
      BY <1>1, <2>2
    <3>2. meant[k] = Opened(table[k].stored)
      BY <1>2, <1>3, <2>2 DEF ReadsBack
    <3> QED BY <1>2, <1>10, <2>2, <3>1, <3>2 DEF ColumnTypes
  <2> QED BY <2>1, <2>2
<1>17. ColumnTypes'
  BY <1>1, <1>2, <1>14, <1>16 DEF ColumnTypes
<1>18. RowsWhole'
  <2>1. \A j \in Present' : table'[j].stored # Deferred
    BY <1>2, <1>7, <1>14, <1>15 DEF RowsWhole, Present
  <2>2. \A j \in ColumnRows : fixture'[j] # NoRecord => fixture'[j].stored # Deferred
    BY <1>1, <1>2 DEF RowsWhole
  <2>3. \A h \in Handles : held'[h] # Unheld => held'[h].pk \in Present' /\ held'[h].source \notin Envelopes
    BY <1>15
  <2> QED BY <2>1, <2>2, <2>3 DEF RowsWhole
<1>19. ReadsBack'
  <2>1. \A s : Opened(s)' = Opened(s)
    BY DEF Opened
  <2>2. \A j \in Present' : Opened(table'[j].stored) = meant'[j]
    BY <1>2, <1>14, <1>15, <1>16 DEF ReadsBack, Present
  <2> QED BY <2>2 DEF ReadsBack, Opened
<1>20. IndexTrue'
  <2> SUFFICES ASSUME field.indexed, NEW j \in Present', j \notin Excused'
               PROVE  IF meant'[j] = Null THEN table'[j].index = NoIndex
                      ELSE /\ table'[j].index.text = meant'[j] /\ table'[j].index.key \in ColumnKeys
                           /\ table'[j].index.key = 2 => keyset # << 1 >>
    BY <1>1 DEF IndexTrue
  <2>1. CASE j # k
    BY <1>2, <1>14, <1>15, <1>16, <2>1 DEF IndexTrue, Present
  <2>2. CASE j = k
    <3>1. columns = DeclaredColumns /\ instance.source \in Texts
      BY <2>2
    <3>2. meant'[j] = instance.source
      BY <1>13, <1>16, <2>2, <3>1
    <3>3. table'[j].index = IF instance.source = Null THEN NoIndex ELSE [key |-> Head(keyset), text |-> instance.source]
      BY <1>12, <1>14, <2>2, <3>1
    <3>4. instance.source # Null => keyset # <<>>
      BY <1>1, <3>1, Shapes DEF Sealable, DeclaredColumns, BothColumns
    <3>5. keyset # <<>> => Head(keyset) \in ColumnKeys
      BY <1>2, KeysKnown DEF ColumnTypes
    <3>6. keyset = << 1 >> => Head(keyset) = 1
      BY <1>2, KeysKnown DEF ColumnTypes
    <3> QED BY <3>2, <3>3, <3>4, <3>5, <3>6
  <2> QED BY <2>1, <2>2
<1>21. IndexUnique'
  <2>1. field.unique /\ row.index # NoIndex => \A j \in Present \ {k} : table[j].index # row.index
    BY <1>1 DEF Unique
  <2> QED BY <1>1, <1>2, <1>14, <1>15, <2>1 DEF IndexUnique, Present
<1> QED BY <1>17, <1>18, <1>19, <1>20, <1>21 DEF ColumnInv

\* A step that leaves the rows: an instance is loaded or assigned, a fixture is dumped,
\* keys are added or withdrawn; key 1 is never the only one again.
LEMMA Unstored ==
  ASSUME ColumnInv, UNCHANGED <<field, table, meant, drifted, torn>>,
         keyset' \in {<<>>, << 1 >>, <<2, 1>>}, keyset' = << 1 >> => keyset = << 1 >>,
         held' \in [Handles -> ColumnInstances],
         \A h \in Handles : held'[h] # Unheld => held'[h].pk \in Present /\ held'[h].source \notin Envelopes,
         fixture' \in [ColumnRows -> ColumnRecords],
         \A k \in ColumnRows : fixture'[k] # NoRecord => fixture'[k].stored # Deferred
  PROVE  ColumnInv'
<1>1. Present' = Present /\ Excused' = Excused
  BY DEF Present, Excused
<1>2. ColumnTypes' /\ RowsWhole' /\ ReadsBack'
  BY <1>1 DEF ColumnInv, ColumnTypes, RowsWhole, ReadsBack, Opened
<1>3. IndexTrue'
  BY <1>1 DEF ColumnInv, IndexTrue
<1>4. IndexUnique'
  BY <1>1 DEF ColumnInv, IndexUnique
<1> QED BY <1>2, <1>3, <1>4 DEF ColumnInv

LEMMA HeldKept ==
  ASSUME ColumnInv
  PROVE  /\ held \in [Handles -> ColumnInstances]
         /\ \A h \in Handles : held[h] # Unheld => held[h].pk \in Present /\ held[h].source \notin Envelopes
         /\ \A h \in Handles : held[h].source # Deferred \/ held[h].sibling # NotLoaded => held[h] # Unheld
         /\ fixture \in [ColumnRows -> ColumnRecords]
         /\ \A k \in ColumnRows : fixture[k] # NoRecord => fixture[k].stored # Deferred
         /\ DeclaredColumns \in SUBSET BothColumns
BY DEF ColumnInv, ColumnTypes, RowsWhole, Unheld, DeclaredColumns, BothColumns

\* An instance that is saved whole, in part, or by the name of its field.
LEMMA SavedStep ==
  ASSUME ColumnInv, NEW h \in Handles, NEW columns \in SUBSET BothColumns,
         Writes(held[h].pk, columns, held[h]), UNCHANGED held, columns \subseteq DeclaredColumns,
         held[h].source # Deferred \/ held[h].sibling # NotLoaded,
         "source" \in columns => held[h].source # Deferred,
         \/ columns = DeclaredColumns /\ Repairs(held[h].pk)
         \/ torn' = torn \cup {held[h].pk} /\ UNCHANGED drifted
         \/ drifted' = drifted \cup {held[h].pk} /\ UNCHANGED torn
  PROVE  ColumnInv'
<1>1. PICK k \in Present : k = held[h].pk
  BY HeldKept
<1>2. k \in ColumnRows /\ held[h] \in ColumnInstances
  BY <1>1, HeldKept DEF Present
<1>3. held[h].source \notin Envelopes /\ held[h].source \in Sources
  BY <1>2, HeldKept DEF ColumnInstances
<1>4. \A j \in ColumnRows \ {k} : j \in Excused' <=> j \in Excused
  BY <1>1 DEF Repairs, Excused
<1>5. k \in Excused' \/ ~field.indexed \/ (columns = DeclaredColumns /\ held[h].source \in Texts)
  <2>1. CASE columns = DeclaredColumns /\ Repairs(held[h].pk)
    BY <1>3, <2>1 DEF Sources, DeclaredColumns, BothColumns
  <2>2. CASE torn' = torn \cup {k} \/ drifted' = drifted \cup {k}
    BY <2>2 DEF Excused
  <2> QED BY <1>1, <2>1, <2>2
<1>6. held' \in [Handles -> ColumnInstances]
  BY HeldKept
<1>7. \A i \in Handles : held'[i] # Unheld => held'[i].pk \in Present \cup {k} /\ held'[i].source \notin Envelopes
  BY HeldKept
<1>8. Writes(k, columns, held[h])
  BY <1>1
<1> QED BY <1>1, <1>2, <1>4, <1>5, <1>6, <1>7, <1>8, RowStep

\* A row that is created or loaded from a fixture.
LEMMA CreatedStep ==
  ASSUME ColumnInv, NEW h \in Handles, NEW k \in ColumnRows, NEW text \in Texts, CreateRow(h, k, text)
  PROVE  ColumnInv'
<1> DEFINE new == [pk |-> k, source |-> text, sibling |-> NoIndex]
<1>1. new \in ColumnInstances /\ new.source = text /\ new.pk = k
  BY Shapes DEF ColumnInstances, Sources
<1>2. text # Deferred /\ text \notin Envelopes
  BY Shapes
<1>3. Writes(k, DeclaredColumns, new) /\ held' = [held EXCEPT ![h] = new] /\ Repairs(k)
  BY DEF CreateRow
<1> HIDE DEF new
<1>4. held' \in [Handles -> ColumnInstances]
  BY <1>1, <1>3, HeldKept
<1>5. \A i \in Handles : held'[i] # Unheld => held'[i].pk \in Present \cup {k} /\ held'[i].source \notin Envelopes
  BY <1>1, <1>2, <1>3, HeldKept
<1>6. \A j \in ColumnRows \ {k} : j \in Excused' <=> j \in Excused
  BY <1>3 DEF Repairs, Excused
<1>7. DeclaredColumns \in SUBSET BothColumns
  BY HeldKept
<1>8. "source" \in DeclaredColumns => new.source # Deferred
  BY <1>1, <1>2
<1>9. new.source \in Texts
  BY <1>1
<1> QED BY <1>1, <1>3, <1>4, <1>5, <1>6, <1>7, <1>8, <1>9, RowStep

LEMMA ReloadedStep ==
  ASSUME ColumnInv, NEW k \in ColumnRows, Reload(k)
  PROVE  ColumnInv'
<1> DEFINE new == [pk |-> k, source |-> fixture[k].stored, sibling |-> fixture[k].index]
<1>1. fixture[k] \in ColumnRecords /\ fixture[k].stored # Deferred
  BY HeldKept DEF Reload
<1>2. new \in ColumnInstances /\ new.source # Deferred /\ new.pk = k
  BY <1>1, Shapes DEF ColumnInstances, ColumnRecords, StoredTexts, Sources
<1>3. /\ Writes(k, DeclaredColumns, new) /\ UNCHANGED held
      /\ drifted' = drifted \ {k} /\ torn' = torn \cup {k}
  BY DEF Reload
<1> HIDE DEF new
<1>4. held' \in [Handles -> ColumnInstances]
  BY <1>3, HeldKept
<1>5. \A i \in Handles : held'[i] # Unheld => held'[i].pk \in Present \cup {k} /\ held'[i].source \notin Envelopes
  BY <1>3, HeldKept
<1>6. (\A j \in ColumnRows \ {k} : j \in Excused' <=> j \in Excused) /\ k \in Excused'
  BY <1>3 DEF Excused
<1>7. DeclaredColumns \in SUBSET BothColumns
  BY HeldKept
<1> QED BY <1>2, <1>3, <1>4, <1>5, <1>6, <1>7, RowStep

LEMMA UpdatedStep ==
  ASSUME ColumnInv, NEW k \in ColumnRows, NEW text \in Texts, QueryUpdate(k, text)
  PROVE  ColumnInv'
<1> DEFINE new == [pk |-> k, source |-> text, sibling |-> NotLoaded]
<1>1. new \in ColumnInstances /\ new.source # Deferred /\ new.pk = k
  BY Shapes DEF ColumnInstances, Sources
<1>2. /\ Writes(k, {"source"}, new) /\ UNCHANGED <<held, torn>> /\ k \in Present
      /\ drifted' = IF field.indexed THEN drifted \cup {k} ELSE drifted
  BY DEF QueryUpdate
<1> HIDE DEF new
<1>3. held' \in [Handles -> ColumnInstances]
  BY <1>2, HeldKept
<1>4. \A i \in Handles : held'[i] # Unheld => held'[i].pk \in Present \cup {k} /\ held'[i].source \notin Envelopes
  BY <1>2, HeldKept
<1>5. (\A j \in ColumnRows \ {k} : j \in Excused' <=> j \in Excused) /\ (k \in Excused' \/ ~field.indexed)
  BY <1>2 DEF Excused
<1>6. {"source"} \in SUBSET BothColumns /\ {"source"} \subseteq DeclaredColumns /\ "index" \notin {"source"}
  BY DEF BothColumns, DeclaredColumns
<1> QED BY <1>1, <1>2, <1>3, <1>4, <1>5, <1>6, RowStep

LEMMA LoadedStep ==
  ASSUME ColumnInv, NEW h \in Handles,
         (\E k \in ColumnRows, columns \in SUBSET DeclaredColumns : LoadInstance(h, k, columns))
           \/ (\E text \in Texts : Assign(h, text))
  PROVE  ColumnInv'
<1>1. PICK new \in ColumnInstances :
        /\ held' = [held EXCEPT ![h] = new] /\ new.pk \in Present /\ new.source \notin Envelopes
        /\ UNCHANGED <<field, keyset, table, fixture, meant, drifted, torn>>
  <2>1. ASSUME NEW k \in ColumnRows, NEW columns \in SUBSET DeclaredColumns, LoadInstance(h, k, columns)
        PROVE  \E new \in ColumnInstances :
                 /\ held' = [held EXCEPT ![h] = new] /\ new.pk \in Present /\ new.source \notin Envelopes
                 /\ UNCHANGED <<field, keyset, table, fixture, meant, drifted, torn>>
    <3> DEFINE new == [pk |-> k,
                       source |-> IF "source" \in columns THEN Opened(table[k].stored) ELSE Deferred,
                       sibling |-> IF "index" \in columns THEN table[k].index ELSE NotLoaded]
    <3>1. table[k] \in ColumnRecords /\ table[k].stored # Deferred /\ k \in Present
      BY <2>1 DEF LoadInstance, ColumnInv, ColumnTypes, RowsWhole
    <3>2. Opened(table[k].stored) \in Texts
      BY <3>1, Opening DEF ColumnRecords
    <3>3. new.source \in Texts \cup {Deferred} /\ new.sibling \in Indexes
      BY <3>1, <3>2, Shapes DEF ColumnRecords
    <3>4. new \in ColumnInstances /\ new.source \notin Envelopes
      BY <3>3, Shapes DEF ColumnInstances, Sources
    <3> QED BY <2>1, <3>1, <3>4 DEF LoadInstance
  <2>2. ASSUME NEW text \in Texts, Assign(h, text)
        PROVE  \E new \in ColumnInstances :
                 /\ held' = [held EXCEPT ![h] = new] /\ new.pk \in Present /\ new.source \notin Envelopes
                 /\ UNCHANGED <<field, keyset, table, fixture, meant, drifted, torn>>
    <3> DEFINE new == [held[h] EXCEPT !.source = text]
    <3>1. held[h] \in ColumnInstances /\ held[h].pk \in Present
      BY <2>2, HeldKept DEF Assign
    <3>2. new \in ColumnInstances /\ new.pk = held[h].pk /\ new.source = text
      BY <3>1 DEF ColumnInstances, Sources
    <3>3. held' = [held EXCEPT ![h] = new]
      BY <2>2, <3>1 DEF Assign
    <3> QED BY <2>2, <3>1, <3>2, <3>3, Shapes DEF Assign
  <2> QED BY <2>1, <2>2
<1>2. held' \in [Handles -> ColumnInstances]
  BY <1>1, HeldKept
<1>3. \A i \in Handles : held'[i] # Unheld => held'[i].pk \in Present /\ held'[i].source \notin Envelopes
  BY <1>1, HeldKept
<1> QED BY <1>1, <1>2, <1>3, HeldKept, Unstored DEF ColumnInv, ColumnTypes

LEMMA DumpedStep ==
  ASSUME ColumnInv, Dump
  PROVE  ColumnInv'
<1>1. ASSUME NEW k \in Present
      PROVE  /\ Sealed(Opened(table[k].stored)) \in StoredTexts
             /\ Sealed(Opened(table[k].stored)) # Deferred
             /\ IndexOf(Opened(table[k].stored)) \in Indexes
  <2>1. table[k].stored \in StoredTexts
    BY DEF ColumnInv, ColumnTypes, ColumnRecords, RowsWhole, Present
  <2>2. Opened(table[k].stored) \in Texts /\ Sealable(Opened(table[k].stored))
    BY <2>1, Opening DEF Dump, Sealable
  <2> QED BY <2>2, Sealing, IndexTyped DEF ColumnInv, Sources
<1>2. fixture' \in [ColumnRows -> ColumnRecords]
  BY <1>1, Shapes DEF Dump, ColumnRecords
<1>3. \A k \in ColumnRows : fixture'[k] # NoRecord => fixture'[k].stored # Deferred
  BY <1>1 DEF Dump
<1>4. UNCHANGED <<field, keyset, table, held, meant, drifted, torn>>
  BY DEF Dump
<1> QED BY <1>2, <1>3, <1>4, HeldKept, Unstored DEF ColumnInv, ColumnTypes

LEMMA Answered ==
  ASSUME ColumnInv
  PROVE  AnswersRight
<1>1. \A k \in Present : table[k].stored = Null <=> meant[k] = Null
  <2> SUFFICES ASSUME NEW k \in Present PROVE table[k].stored = Null <=> meant[k] = Null
    OBVIOUS
  <2>1. table[k].stored \in StoredTexts /\ meant[k] = Opened(table[k].stored)
    BY DEF ColumnInv, ColumnTypes, ColumnRecords, RowsWhole, ReadsBack, Present
  <2> QED BY <2>1, Opening
<1>2. ASSUME field.indexed, keyset # <<>>, NEW v \in ColumnValues
      PROVE  Found({Plain(v)}) \ Excused = Holding(Plain(v)) \ Excused
  <2>1. Plain(v) # Null /\ Plain(v) \in Texts
    BY DEF Plain, Null, Texts
  <2>2. ASSUME NEW k \in Present \ Excused
        PROVE  table[k].index \in Candidates(Plain(v)) <=> meant[k] = Plain(v)
    <3>1. meant[k] = Null => table[k].index = NoIndex
      BY <1>2 DEF ColumnInv, IndexTrue
    <3>2. meant[k] # Null => /\ table[k].index.text = meant[k] /\ table[k].index.key \in ColumnKeys
                             /\ table[k].index.key = 2 => keyset # << 1 >>
      BY <1>2 DEF ColumnInv, IndexTrue
    <3>3. NoIndex \notin Candidates(Plain(v))
      BY <2>1 DEF NoIndex, Candidates
    <3>4. meant[k] # Null => table[k].index.key \in Range(keyset)
      BY <1>2, <3>2, KeysKnown DEF ColumnInv, ColumnTypes, ColumnKeys
    <3>5. table[k].index = [key |-> table[k].index.key, text |-> table[k].index.text]
      BY DEF ColumnInv, ColumnTypes, ColumnRecords, Indexes, Present
    <3> QED BY <2>1, <3>1, <3>2, <3>3, <3>4, <3>5 DEF Candidates
  <2> QED BY <2>1, <2>2 DEF Found, Holding
<1>3. AnswersRightBut(Excused)
  <2>1. IsNull = Holding(Null)
    BY <1>1 DEF IsNull, Holding
  <2> QED BY <1>2, <2>1 DEF AnswersRightBut, Answers
<1> QED BY <1>3 DEF ColumnInv, IndexUnique, AnswersRight, Excused

\* fields.py, for every field, any rows, instances and values: whatever saves, bulk
\* writes, fixtures and rotations do in any order, a value reads back as written, a
\* lookup that is answered finds the rows that hold it, and a unique field holds it once.
THEOREM AnswersRightHolds == ColumnSpec => []AnswersRight
<1>1. ColumnInit => ColumnInv
  <2> SUFFICES ASSUME ColumnInit PROVE ColumnInv
    OBVIOUS
  <2>1. Present = {} /\ \A k \in ColumnRows : fixture[k] = NoRecord
    BY DEF ColumnInit, Present
  <2>2. \A h \in Handles : held[h] = Unheld
    BY DEF ColumnInit
  <2>3. Unheld \in ColumnInstances
    BY Shapes DEF Unheld, ColumnInstances, Sources
  <2>4. ColumnTypes
    BY <2>3, Shapes DEF ColumnInit, ColumnTypes
  <2> QED BY <2>1, <2>2, <2>4 DEF ColumnInv, RowsWhole, ReadsBack, IndexTrue, IndexUnique
<1>2. ColumnInv /\ [ColumnNext]_columnVars => ColumnInv'
  <2> SUFFICES ASSUME ColumnInv, [ColumnNext]_columnVars PROVE ColumnInv'
    OBVIOUS
  <2>1. ASSUME NEW h \in Handles, SaveInstance(h) PROVE ColumnInv'
    <3> DEFINE columns == Loaded(held[h]) \cap DeclaredColumns
    <3>1. columns \in SUBSET BothColumns /\ columns \subseteq DeclaredColumns /\ columns # {}
      BY <2>1, HeldKept DEF SaveInstance
    <3>2. held[h].source # Deferred \/ held[h].sibling # NotLoaded
      BY <3>1 DEF Loaded
    <3>3. "source" \in columns => held[h].source # Deferred
      BY DEF Loaded
    <3>4. Writes(held[h].pk, columns, held[h]) /\ UNCHANGED held
      BY <2>1 DEF SaveInstance
    <3>5. \/ columns = DeclaredColumns /\ Repairs(held[h].pk)
          \/ torn' = torn \cup {held[h].pk} /\ UNCHANGED drifted
      BY <2>1 DEF SaveInstance
    <3> HIDE DEF columns
    <3> QED BY <3>1, <3>2, <3>3, <3>4, <3>5, SavedStep
  <2>2. ASSUME NEW h \in Handles, SaveNamed(h) PROVE ColumnInv'
    <3> DEFINE columns == WithIndexColumns({"source"})
    <3>1. columns \in SUBSET BothColumns /\ columns \subseteq DeclaredColumns
          /\ (field.snap => columns = DeclaredColumns)
      BY DEF WithIndexColumns, BothColumns, DeclaredColumns
    <3>2. held[h].source # Deferred /\ Writes(held[h].pk, columns, held[h]) /\ UNCHANGED held
      BY <2>2 DEF SaveNamed
    <3>3. \/ columns = DeclaredColumns /\ Repairs(held[h].pk)
          \/ drifted' = drifted \cup {held[h].pk} /\ UNCHANGED torn
      BY <2>2, <3>1 DEF SaveNamed
    <3> HIDE DEF columns
    <3> QED BY <3>1, <3>2, <3>3, SavedStep
  <2>3. ASSUME NEW h \in Handles, NEW columns \in SUBSET BothColumns, BulkUpdate(h, columns) PROVE ColumnInv'
    <3>1. /\ held[h].source # Deferred /\ Writes(held[h].pk, columns, held[h]) /\ UNCHANGED held
          /\ columns \subseteq DeclaredColumns
      BY <2>3 DEF BulkUpdate
    <3>2. \/ columns = DeclaredColumns /\ Repairs(held[h].pk)
          \/ drifted' = drifted \cup {held[h].pk} /\ UNCHANGED torn
      BY <2>3 DEF BulkUpdate
    <3> QED BY <3>1, <3>2, SavedStep
  <2>4. CASE Configure
    <3>1. keyset' \in {<<>>, << 1 >>, <<2, 1>>} /\ (keyset' = << 1 >> => keyset = << 1 >>)
      BY <2>4 DEF Configure
    <3>2. UNCHANGED <<field, table, held, fixture, meant, drifted, torn>>
      BY <2>4 DEF Configure
    <3> QED BY <3>1, <3>2, HeldKept, Unstored
  <2>5. CASE UNCHANGED columnVars
    <3>1. UNCHANGED <<field, keyset, table, held, fixture, meant, drifted, torn>>
      BY <2>5 DEF columnVars
    <3> QED BY <3>1, HeldKept, Unstored DEF ColumnInv, ColumnTypes
  <2> QED BY <2>1, <2>2, <2>3, <2>4, <2>5, CreatedStep, LoadedStep, UpdatedStep, DumpedStep, ReloadedStep DEF ColumnNext
<1> QED BY <1>1, <1>2, Answered, PTL DEF ColumnSpec

-----------------------------------------------------------------------------
(* The deep scan (EsScan): what it has yielded, what it holds of the page  *)
(* it asked for, and how far it has come, while rows and documents come    *)
(* and go under it and Elasticsearch may fail.                             *)

ScanState == [step : ScanSteps, cursor : Keys \cup {0}, size : Nat, hits : SUBSET Keys, emit : SUBSET Keys]

ScanTypes ==
  /\ call \in ScanCalls
  /\ rows \in SUBSET Keys /\ docs \in SUBSET Keys /\ steady \in SUBSET Keys
  /\ scan \in ScanState
  /\ out \in Seq(Keys)

\* What the scan must not miss, and where it was all along.
Due == Matching(steady)
SteadyStored ==
  /\ call.mode # "DB_ONLY" => steady \subseteq docs
  /\ call.mode # "ES_ONLY" => steady \subseteq rows

\* Every key once, in ascending order, and no match that was there all along
\* left out before the last of them.
Ascends == \A i, j \in DOMAIN out : i < j => out[i] < out[j]
NoGap == \A i \in DOMAIN out, k \in Due : k < out[i] => k \in Range(out)

\* What it may still yield of the page it holds.
Pending == CASE scan.step = "hydrate" -> scan.hits
             [] scan.step \in {"yield", "drain"} -> scan.emit
             [] OTHER -> {}
WithinLimit == call.limit # Unlimited => Len(out) + Cardinality(Pending) <= call.limit

\* Up to the cursor all was yielded that was there all along.
Paged ==
  scan.step \in {"search", "hydrate", "yield"} =>
    /\ Intended
    /\ \A k \in Due : k <= scan.cursor => k \in Range(out)

\* The page begins behind the cursor and skips no match before its last one, nor
\* any at all when it is short; the keys yielded are the earlier ones.
PageWhole ==
  scan.step \in {"hydrate", "yield"} =>
    /\ \A h \in scan.hits : h > scan.cursor
    /\ \A k \in Due : k > scan.cursor /\ (Exhausted \/ \E h \in scan.hits : k < h) => k \in scan.hits
Behind ==
  /\ scan.step \in {"search", "hydrate"} => \A i \in DOMAIN out : out[i] <= scan.cursor
  /\ scan.step = "yield" => \A i \in DOMAIN out : out[i] <= scan.cursor \/ out[i] \in scan.hits
  /\ scan.step \in {"yield", "drain"} => \A i \in DOMAIN out, e \in scan.emit : out[i] < e

\* What the lookup leaves out of a page was not there all along.
PageHeld ==
  /\ scan.step = "hydrate" => Hydrated
  /\ scan.step = "yield" => /\ scan.emit \subseteq scan.hits
                            /\ \A k \in Due \cap scan.hits : k \in Range(out) \cup scan.emit

\* The database's answer begins before anything was yielded and skips nothing.
FellBack ==
  /\ scan.step \in {"start", "fallback", "raised"} => out = <<>>
  /\ scan.step = "start" => scan.cursor = 0
  /\ scan.step = "raised" => ~call.fallback
  /\ scan.step = "drain" =>
       /\ \A k \in Due, e \in scan.emit : k < e => k \in Range(out) \cup scan.emit
       /\ call.limit = Unlimited \/ Len(out) + Cardinality(scan.emit) < call.limit => Due \subseteq Range(out) \cup scan.emit

\* A scan that ended by itself below the limit missed nothing.
EndedWhole == scan.step = "done" /\ (call.limit = Unlimited \/ Len(out) < call.limit) => Due \subseteq Range(out)

FullAnswer == reply.full => Due \subseteq reply.keys

ScanInv == /\ ScanTypes /\ SteadyStored /\ Ascends /\ NoGap /\ WithinLimit /\ Paged /\ PageWhole /\ Behind
           /\ PageHeld /\ FellBack /\ EndedWhole /\ FullAnswer

LEMMA ScanKeys ==
  /\ Keys \subseteq Nat \ {0}
  /\ \A S \in SUBSET Keys : IsFiniteSet(S) /\ Cardinality(S) \in Nat /\ \A T \in SUBSET S : Cardinality(T) <= Cardinality(S)
<1>1. Keys \subseteq Nat \ {0} /\ IsFiniteSet(Keys)
  BY EsScanAssumption
<1> QED BY <1>1, FS_Subset, FS_CardinalityType

\* The greatest of finitely many keys.
LEMMA GreatestKey == ASSUME NEW S \in SUBSET Keys, S # {} PROVE \E m \in S : \A x \in S : x <= m
<1> DEFINE Above(d) == {x \in S : x > d}
           Sizes == {Cardinality(Above(d)) : d \in S}
<1>1. \A d \in S : Above(d) \in SUBSET Keys /\ d \in Nat
  BY ScanKeys
<1>2. Sizes \in SUBSET Nat /\ Sizes # {}
  <2> HIDE DEF Above
  <2> QED BY <1>1, ScanKeys
<1>3. PICK n \in Sizes : \A x \in Sizes : n <= x
  <2> HIDE DEF Sizes
  <2> QED BY <1>2, Lowest
<1>4. PICK m \in S : n = Cardinality(Above(m))
  BY <1>3
<1>5. ASSUME NEW x \in S PROVE x <= m
  <2> SUFFICES ASSUME x > m PROVE FALSE
    BY <1>1
  <2>1. Above(x) \subseteq Above(m) \ {x} /\ x \in Above(m)
    BY <1>1
  <2>2. Cardinality(Above(m) \ {x}) = Cardinality(Above(m)) - 1 /\ Cardinality(Above(m) \ {x}) \in Nat
    <3> HIDE DEF Above
    <3> QED BY <1>1, <2>1, ScanKeys, FS_RemoveElement
  <2>3. Cardinality(Above(x)) <= Cardinality(Above(m) \ {x}) /\ Cardinality(Above(x)) \in Nat
    <3>1. Above(m) \ {x} \in SUBSET Keys
      BY <1>1
    <3> HIDE DEF Above
    <3> QED BY <1>1, <2>1, <3>1, ScanKeys
  <2>4. n <= Cardinality(Above(x))
    BY <1>3
  <2> HIDE DEF Above
  <2> QED BY <1>1, <1>4, <2>2, <2>3, <2>4, ScanKeys
<1> QED BY <1>5

\* A page is the first so many keys, all of them when there are fewer.
LEMMA FirstOnes ==
  ASSUME NEW S \in SUBSET Keys, NEW n \in Nat
  PROVE  /\ FirstKeys(S, n) \in SUBSET S
         /\ \A k \in S, j \in FirstKeys(S, n) : k < j => k \in FirstKeys(S, n)
         /\ Cardinality(FirstKeys(S, n)) <= n
         /\ Cardinality(FirstKeys(S, n)) < n => FirstKeys(S, n) = S
         /\ FirstKeys(S, n) = {} => n = 0 \/ S = {}
<1> DEFINE Below(k) == {j \in S : j < k}
           F == FirstKeys(S, n)
<1>1. F \in SUBSET S /\ F = {k \in S : Cardinality(Below(k)) < n}
  BY DEF FirstKeys
<1>2. \A k \in S : k \in Nat /\ Below(k) \in SUBSET Keys /\ Cardinality(Below(k)) \in Nat
  <2>1. \A k \in S : k \in Nat /\ Below(k) \in SUBSET Keys
    BY ScanKeys
  <2> HIDE DEF Below
  <2> QED BY <2>1, ScanKeys
<1>3. ASSUME NEW k \in S, NEW j \in F, k < j PROVE k \in F
  <2>1. Below(k) \in SUBSET Below(j) /\ j \in S
    <3>1. j \in S
      BY <1>1
    <3>2. \A i \in S : i < k => i < j
      <4> HIDE DEF Below, F
      <4> QED BY <1>2, <1>3, <3>1
    <3> QED BY <3>1, <3>2
  <2>2. Cardinality(Below(k)) <= Cardinality(Below(j)) /\ Cardinality(Below(j)) < n
    <3> HIDE DEF Below, F
    <3> QED BY <1>1, <1>2, <2>1, ScanKeys
  <2> HIDE DEF Below, F
  <2> QED BY <1>1, <1>2, <2>1, <2>2
<1>4. Cardinality(F) <= n
  <2>1. CASE F = {}
    BY <2>1, FS_EmptySet
  <2>2. CASE F # {}
    <3>1. F \in SUBSET Keys
      BY <1>1
    <3>2. PICK m \in F : \A x \in F : x <= m
      <4> HIDE DEF F
      <4> QED BY <2>2, <3>1, GreatestKey
    <3>3. F \ {m} \in SUBSET Below(m) /\ m \in S
      <4>1. m \in S
        BY <1>1
      <4>2. \A x \in F : x \in S /\ (x # m => x < m)
        <5>1. \A x \in F : x \in S
          BY <1>1
        <5> HIDE DEF Below, F
        <5> QED BY <1>2, <3>2, <4>1, <5>1
      <4> QED BY <4>1, <4>2
    <3>4. Cardinality(F \ {m}) = Cardinality(F) - 1
      <4> HIDE DEF F
      <4> QED BY <3>1, <3>2, ScanKeys, FS_RemoveElement
    <3>5. Cardinality(F \ {m}) <= Cardinality(Below(m)) /\ Cardinality(Below(m)) < n
      <4> HIDE DEF F, Below
      <4> QED BY <1>1, <1>2, <3>2, <3>3, ScanKeys
    <3> HIDE DEF F, Below
    <3> QED BY <1>2, <3>1, <3>3, <3>4, <3>5, ScanKeys
  <2> QED BY <2>1, <2>2
<1>5. ASSUME Cardinality(F) < n PROVE F = S
  <2> SUFFICES ASSUME F # S PROVE FALSE
    OBVIOUS
  <2>1. S \ F \in SUBSET Nat /\ S \ F # {}
    BY <1>1, <1>2
  <2>2. PICK m \in S \ F : \A x \in S \ F : m <= x
    <3> HIDE DEF F
    <3> QED BY <2>1, Lowest
  <2>3. Below(m) \in SUBSET F
    BY <1>2, <2>1, <2>2
  <2>4. F \in SUBSET Keys
    BY <1>1
  <2>5. Cardinality(Below(m)) <= Cardinality(F)
    <3> HIDE DEF F, Below
    <3> QED BY <2>3, <2>4, ScanKeys
  <2>6. Cardinality(Below(m)) < n
    <3> HIDE DEF F, Below
    <3> QED BY <1>2, <1>5, <2>2, <2>4, <2>5, ScanKeys
  <2> HIDE DEF Below, F
  <2> QED BY <1>1, <2>2, <2>6
<1>6. ASSUME F = {}, n # 0 PROVE S = {}
  <2>1. Cardinality(F) = 0
    BY <1>6, FS_EmptySet
  <2> HIDE DEF F
  <2> QED BY <1>5, <1>6, <2>1
<1> HIDE DEF Below
<1> QED BY <1>1, <1>3, <1>4, <1>5, <1>6

LEMMA Dues == ASSUME ScanTypes PROVE /\ Due \in SUBSET steady
                                     /\ Due \in SUBSET Keys
                                     /\ \A S \in SUBSET Keys : Matching(S) \in SUBSET S
                                     /\ steady \subseteq docs => Due \subseteq Matching(docs)
                                     /\ steady \subseteq rows => Due \subseteq Matching(rows)
BY DEF ScanTypes, Due, Matching

LEMMA ScanTyped ==
  ASSUME ScanTypes
  PROVE  /\ scan.cursor \in Nat /\ call.limit \in Nat /\ call.page \in Nat \ {0} /\ Len(out) \in Nat
         /\ \A i \in DOMAIN out : out[i] \in Keys /\ out[i] \in Nat /\ out[i] \in Range(out)
         /\ Range(out) \in SUBSET Keys
         /\ IsFiniteSet(scan.hits) /\ IsFiniteSet(scan.emit) /\ IsFiniteSet(Pending)
         /\ Cardinality(scan.hits) \in Nat /\ Cardinality(scan.emit) \in Nat /\ Cardinality(Pending) \in Nat
<1>1. call.limit \in Nat /\ call.page \in Nat \ {0}
  BY EsScanAssumption DEF ScanTypes, ScanCalls
<1>2. scan.cursor \in Nat
  <2>1. scan.cursor \in Keys \cup {0}
    BY DEF ScanTypes, ScanState
  <2>2. CASE scan.cursor \in Keys
    BY <2>2, ScanKeys
  <2>3. CASE scan.cursor = 0
    BY <2>3
  <2> QED BY <2>1, <2>2, <2>3
<1>3. \A i \in DOMAIN out : out[i] \in Keys /\ out[i] \in Range(out)
  <2>1. \A i \in DOMAIN out : out[i] \in Keys
    BY DEF ScanTypes
  <2>2. \A i \in DOMAIN out : out[i] \in Range(out)
    BY Zenon DEF Range
  <2> QED BY <2>1, <2>2
<1>4. Range(out) \in SUBSET Keys
  BY <1>3 DEF Range
<1>5. scan.hits \in SUBSET Keys /\ scan.emit \in SUBSET Keys
  BY DEF ScanTypes, ScanState
<1>6. Pending \in SUBSET Keys
  BY <1>5 DEF Pending
<1>7. Len(out) \in Nat
  BY DEF ScanTypes
<1> QED BY <1>1, <1>2, <1>3, <1>4, <1>5, <1>6, <1>7, ScanKeys

\* A step of the generator that yields nothing leaves what was yielded and
\* what is due.
LEMMA ScanMoves ==
  ASSUME ScanInv, scan' \in ScanState, UNCHANGED <<Stores, out, reply>>
  PROVE  ScanTypes' /\ SteadyStored' /\ Ascends' /\ NoGap' /\ FullAnswer' /\ Due' = Due
<1>1. call' = call /\ rows' = rows /\ docs' = docs /\ steady' = steady /\ out' = out /\ reply' = reply
  BY DEF Stores
<1>2. Due' = Due
  BY <1>1 DEF Due, Matching
<1> QED BY <1>1, <1>2 DEF ScanInv, ScanTypes, SteadyStored, Ascends, NoGap, FullAnswer

LEMMA StartStep == ASSUME ScanInv, Start PROVE ScanInv'
<1>1. scan' = [scan EXCEPT !.step = IF UseEs THEN "search" ELSE "fallback"] /\ UNCHANGED <<Stores, out, reply>>
  BY DEF Start, Scanning
<1>2. scan \in ScanState /\ scan.step = "start" /\ scan.cursor = 0 /\ out = <<>> /\ out \in Seq(Keys)
  BY DEF ScanInv, ScanTypes, FellBack, Start
<1>3. scan' \in ScanState /\ scan'.step = (IF UseEs THEN "search" ELSE "fallback") /\ scan'.cursor = 0 /\ scan'.step \in {"search", "fallback"}
  BY <1>1, <1>2 DEF ScanState, ScanSteps
<1>4. ScanTypes' /\ SteadyStored' /\ Ascends' /\ NoGap' /\ FullAnswer' /\ Due' = Due
  BY <1>1, <1>3, ScanMoves
<1>5. call' = call /\ out' = <<>> /\ DOMAIN out' = {}
  BY <1>1, <1>2 DEF Stores
<1>6. WithinLimit'
  <2>1. Pending' = {} /\ Cardinality(Pending') = 0 /\ Len(out') = 0
    BY <1>3, <1>5, FS_EmptySet DEF Pending
  <2>2. call.limit \in Nat
    BY EsScanAssumption DEF ScanInv, ScanTypes, ScanCalls
  <2> QED BY <1>5, <2>1, <2>2 DEF WithinLimit
<1>7. Paged'
  <2>1. Due \subseteq Nat \ {0}
    BY Dues, ScanKeys DEF ScanInv
  <2>2. scan'.step = "search" => Intended'
    BY <1>3, <1>5 DEF UseEs, Intended
  <2>3. \A k \in Due : ~(k <= 0)
    BY <2>1
  <2> QED BY <1>3, <1>4, <2>2, <2>3 DEF Paged
<1>8. PageWhole' /\ Behind' /\ PageHeld' /\ FellBack' /\ EndedWhole'
  BY <1>3, <1>5 DEF PageWhole, Behind, PageHeld, FellBack, EndedWhole
<1> QED BY <1>4, <1>6, <1>7, <1>8 DEF ScanInv

LEMMA SearchStep == ASSUME ScanInv, Search PROVE ScanInv'
<1> DEFINE found == {k \in Matching(docs) : k > scan.cursor}
           hits == FirstKeys(found, Remaining)
           to == IF hits = {} THEN "done" ELSE IF Hydrated THEN "hydrate" ELSE "yield"
<1>t. /\ scan \in ScanState /\ out \in Seq(Keys) /\ call \in ScanCalls /\ docs \in SUBSET Keys
      /\ call.limit \in Nat /\ call.page \in Nat \ {0} /\ scan.cursor \in Nat
  BY ScanTyped DEF ScanInv, ScanTypes
<1>1. /\ scan' = [scan EXCEPT !.size = Remaining, !.hits = hits, !.emit = IF Hydrated THEN {} ELSE hits, !.step = to]
      /\ UNCHANGED <<Stores, out, reply>> /\ scan.step = "search"
  BY DEF Search, Scanning
<1>2. Remaining \in Nat /\ (call.limit # 0 => Len(out) + Remaining <= call.limit)
      /\ (Remaining = 0 => call.limit # 0 /\ Len(out) = call.limit)
  <2>1. Pending = {} /\ Cardinality(Pending) = 0
    BY <1>1, FS_EmptySet DEF Pending
  <2>2. call.limit # 0 => Len(out) <= call.limit
    BY <1>t, <2>1 DEF ScanInv, WithinLimit, Unlimited
  <2> QED BY <1>t, <2>2 DEF Remaining, Unlimited
<1>3. found \in SUBSET Keys /\ \A k \in found : k \in Nat /\ k > scan.cursor
  BY <1>t, ScanKeys, Dues DEF ScanInv
<1>4. /\ hits \in SUBSET found /\ hits \in SUBSET Keys
      /\ \A k \in found, j \in hits : k < j => k \in hits
      /\ Cardinality(hits) <= Remaining /\ Cardinality(hits) \in Nat
      /\ Cardinality(hits) < Remaining => hits = found
      /\ hits = {} => Remaining = 0 \/ found = {}
  <2>1. /\ hits \in SUBSET found /\ \A k \in found, j \in hits : k < j => k \in hits
        /\ Cardinality(hits) <= Remaining
        /\ Cardinality(hits) < Remaining => hits = found
        /\ hits = {} => Remaining = 0 \/ found = {}
    <3> HIDE DEF found
    <3> QED BY <1>2, <1>3, FirstOnes
  <2>2. hits \in SUBSET Keys
    BY <1>3, <2>1
  <2>3. Cardinality(hits) \in Nat
    BY <2>2, ScanKeys
  <2> QED BY <2>1, <2>2, <2>3
<1>5. \A k \in Due : k \in Nat /\ (k > scan.cursor => k \in found)
  <2>1. Intended
    BY <1>1 DEF ScanInv, Paged
  <2>2. Due \subseteq Matching(docs) /\ Due \subseteq Nat
    BY <2>1, Dues, ScanKeys DEF ScanInv, SteadyStored, Intended
  <2> QED BY <2>2
<1> HIDE DEF found, hits
<1>6. /\ scan'.size = Remaining /\ scan'.hits = hits /\ scan'.emit = (IF Hydrated THEN {} ELSE hits)
      /\ scan'.cursor = scan.cursor /\ scan'.step = to /\ scan' \in ScanState
  BY <1>1, <1>t, <1>2, <1>4 DEF ScanState, ScanSteps
<1>7. ScanTypes' /\ SteadyStored' /\ Ascends' /\ NoGap' /\ FullAnswer' /\ Due' = Due
  BY <1>1, <1>6, ScanMoves
<1>8. call' = call /\ out' = out
  BY <1>1 DEF Stores
<1>9. to \in {"done", "hydrate", "yield"} /\ (to = "done" <=> hits = {}) /\ (to = "hydrate" => Hydrated) /\ (to = "yield" => ~Hydrated)
  OBVIOUS
<1> HIDE DEF to
<1>10. WithinLimit'
  <2>1. Pending' = (IF to = "done" THEN {} ELSE hits)
    BY <1>6, <1>9 DEF Pending
  <2>2. Cardinality(Pending') <= Remaining /\ Cardinality(Pending') \in Nat
    BY <1>2, <1>4, <2>1, FS_EmptySet
  <2> QED BY <1>t, <1>2, <1>8, <2>2 DEF WithinLimit, Unlimited
<1>11. \A k \in Due : k <= scan.cursor => k \in Range(out)
  BY <1>1 DEF ScanInv, Paged
<1>12. Paged'
  <2>1. Intended'
    BY <1>1, <1>8 DEF ScanInv, Paged, Intended
  <2> QED BY <1>6, <1>7, <1>8, <1>11, <2>1 DEF Paged
<1>13. PageWhole'
  <2>1. \A k \in Due : k > scan.cursor /\ (Cardinality(hits) < Remaining \/ \E h \in hits : k < h) => k \in hits
    BY <1>4, <1>5
  <2>2. \A h \in hits : h > scan.cursor
    BY <1>3, <1>4
  <2>3. Exhausted' <=> Cardinality(hits) < Remaining
    BY <1>6 DEF Exhausted
  <2> QED BY <1>6, <1>7, <2>1, <2>2, <2>3 DEF PageWhole
<1>14. Behind'
  <2>1. \A i \in DOMAIN out : out[i] <= scan.cursor
    BY <1>1 DEF ScanInv, Behind
  <2>2. \A i \in DOMAIN out : out[i] \in Nat
    BY ScanTyped DEF ScanInv
  <2>3. \A e \in scan'.emit : e \in Nat /\ e > scan.cursor
    BY <1>3, <1>4, <1>6
  <2>4. \A i \in DOMAIN out, e \in scan'.emit : out[i] < e
    BY <1>t, <2>1, <2>2, <2>3
  <2> QED BY <1>6, <1>8, <2>1, <2>4 DEF Behind
<1>15. PageHeld' /\ FellBack'
  <2>1. Hydrated' <=> Hydrated
    BY <1>8 DEF Hydrated
  <2> QED BY <1>6, <1>7, <1>9, <2>1 DEF PageHeld, FellBack
<1>16. EndedWhole'
  <2>1. SUFFICES ASSUME to = "done", call.limit = 0 \/ Len(out) < call.limit PROVE Due \subseteq Range(out)
    BY <1>6, <1>7, <1>8 DEF EndedWhole, Unlimited
  <2>2. found = {}
    BY <1>t, <1>2, <1>4, <1>9, <2>1
  <2>3. \A k \in Due : ~(k > scan.cursor) /\ k \in Nat
    BY <1>5, <2>2
  <2> QED BY <1>t, <1>11, <2>3
<1> QED BY <1>7, <1>10, <1>12, <1>13, <1>14, <1>15, <1>16 DEF ScanInv

LEMMA HydrateStep == ASSUME ScanInv, Hydrate PROVE ScanInv'
<1>t. /\ scan \in ScanState /\ rows \in SUBSET Keys /\ call.limit \in Nat /\ Len(out) \in Nat
      /\ scan.hits \in SUBSET Keys
      /\ \A i \in DOMAIN out : out[i] \in Nat
  BY ScanTyped DEF ScanInv, ScanTypes, ScanState
<1>1. /\ scan' = [scan EXCEPT !.emit = scan.hits \cap rows, !.step = "yield"]
      /\ UNCHANGED <<Stores, out, reply>> /\ scan.step = "hydrate"
  BY DEF Hydrate, Scanning
<1>2. /\ scan'.size = scan.size /\ scan'.hits = scan.hits /\ scan'.emit = scan.hits \cap rows
      /\ scan'.cursor = scan.cursor /\ scan'.step = "yield" /\ scan' \in ScanState
  BY <1>1, <1>t DEF ScanState, ScanSteps
<1>3. ScanTypes' /\ SteadyStored' /\ Ascends' /\ NoGap' /\ FullAnswer' /\ Due' = Due
  BY <1>1, <1>2, ScanMoves
<1>4. call' = call /\ out' = out
  BY <1>1 DEF Stores
<1>5. WithinLimit'
  <2>1. Pending = scan.hits /\ Pending' = scan.hits \cap rows
    BY <1>1, <1>2 DEF Pending
  <2>2. Cardinality(Pending') <= Cardinality(Pending) /\ Cardinality(Pending') \in Nat /\ Cardinality(Pending) \in Nat
    <3>1. Pending' \in SUBSET Pending /\ Pending \in SUBSET Keys /\ Pending' \in SUBSET Keys
      BY <1>t, <2>1
    <3> HIDE DEF Pending
    <3> QED BY <3>1, ScanKeys
  <2> QED BY <1>t, <1>4, <2>2 DEF ScanInv, WithinLimit, Unlimited
<1>6. Paged'
  BY <1>1, <1>2, <1>3, <1>4 DEF ScanInv, Paged, Intended
<1>7. PageWhole'
  <2>1. Exhausted' <=> Exhausted
    BY <1>2 DEF Exhausted
  <2> QED BY <1>1, <1>2, <1>3, <2>1 DEF ScanInv, PageWhole
<1>8. Behind'
  <2>1. \A i \in DOMAIN out : out[i] <= scan.cursor
    BY <1>1 DEF ScanInv, Behind
  <2>2. \A e \in scan'.emit : e \in Nat /\ e > scan.cursor
    BY <1>1, <1>2, <1>t, ScanKeys DEF ScanInv, PageWhole
  <2>3. \A i \in DOMAIN out, e \in scan'.emit : out[i] < e
    BY <1>t, <2>1, <2>2, ScanTyped DEF ScanInv
  <2> QED BY <1>2, <1>4, <2>1, <2>3 DEF Behind
<1>9. PageHeld'
  <2>1. Due \subseteq rows
    BY <1>1, Dues DEF ScanInv, PageHeld, Hydrated, SteadyStored
  <2> QED BY <1>2, <1>3, <2>1 DEF PageHeld
<1>10. FellBack' /\ EndedWhole'
  BY <1>2 DEF FellBack, EndedWhole
<1> QED BY <1>3, <1>5, <1>6, <1>7, <1>8, <1>9, <1>10 DEF ScanInv

LEMMA EndPageStep == ASSUME ScanInv, EndPage PROVE ScanInv'
<1>t. /\ scan \in ScanState /\ call.limit \in Nat /\ Len(out) \in Nat
      /\ scan.hits \in SUBSET Keys /\ scan.cursor \in Nat
      /\ \A i \in DOMAIN out : out[i] \in Nat
      /\ \A k \in Due : k \in Nat
  BY ScanTyped, Dues, ScanKeys DEF ScanInv, ScanTypes, ScanState
<1>1. /\ UNCHANGED <<Stores, out, reply>> /\ scan.step = "yield" /\ scan.emit = {}
      /\ \E last \in scan.hits : /\ \A k \in scan.hits : k <= last
                                 /\ scan' = [scan EXCEPT !.cursor = last, !.step = IF Exhausted THEN "done" ELSE "search"]
  BY DEF EndPage, Scanning
<1>2. PICK last \in scan.hits : /\ \A k \in scan.hits : k <= last
                                /\ scan' = [scan EXCEPT !.cursor = last, !.step = IF Exhausted THEN "done" ELSE "search"]
  BY <1>1
<1>3. /\ scan'.cursor = last /\ scan'.step = (IF Exhausted THEN "done" ELSE "search") /\ scan'.step \in {"done", "search"}
      /\ scan' \in ScanState
  BY <1>2, <1>t DEF ScanState, ScanSteps
<1>4. ScanTypes' /\ SteadyStored' /\ Ascends' /\ NoGap' /\ FullAnswer' /\ Due' = Due
  BY <1>1, <1>3, ScanMoves
<1>5. call' = call /\ out' = out
  BY <1>1 DEF Stores
<1>6. last \in Nat /\ last > scan.cursor
  BY <1>1, <1>t, ScanKeys DEF ScanInv, PageWhole
<1>7. \A k \in Due : (k <= last \/ Exhausted) => k \in Range(out)
  <2> SUFFICES ASSUME NEW k \in Due, k <= last \/ Exhausted PROVE k \in Range(out)
    OBVIOUS
  <2>1. CASE k <= scan.cursor
    BY <1>1, <2>1 DEF ScanInv, Paged
  <2>2. CASE k > scan.cursor
    <3>1. k \in scan.hits
      <4>1. k = last \/ (k > scan.cursor /\ (Exhausted \/ k < last))
        BY <1>t, <1>6, <2>2
      <4> QED BY <1>1, <4>1 DEF ScanInv, PageWhole
    <3> QED BY <1>1, <3>1 DEF ScanInv, PageHeld
  <2> QED BY <1>t, <2>1, <2>2
<1>8. WithinLimit'
  <2>1. Pending = {} /\ Pending' = {} /\ Cardinality({}) = 0
    BY <1>1, <1>3, FS_EmptySet DEF Pending
  <2> QED BY <1>5, <2>1 DEF ScanInv, WithinLimit
<1>9. Paged'
  BY <1>1, <1>3, <1>4, <1>5, <1>7 DEF ScanInv, Paged, Intended
<1>10. Behind'
  <2>1. \A i \in DOMAIN out : out[i] <= last
    <3>1. \A i \in DOMAIN out : out[i] <= scan.cursor \/ out[i] \in scan.hits
      BY <1>1 DEF ScanInv, Behind
    <3> QED BY <1>t, <1>2, <1>6, <3>1
  <2> QED BY <1>3, <1>5, <2>1 DEF Behind
<1>11. PageWhole' /\ PageHeld' /\ FellBack' /\ EndedWhole'
  BY <1>3, <1>4, <1>5, <1>7 DEF PageWhole, PageHeld, FellBack, EndedWhole
<1> QED BY <1>4, <1>8, <1>9, <1>10, <1>11 DEF ScanInv

\* The steps that leave the index for good.
LEMMA StoppedStep ==
  ASSUME ScanInv, UNCHANGED <<Stores, out, reply>>,
         NEW to \in {"stopped", "fallback"}, scan' = [scan EXCEPT !.step = to], to = "fallback" => out = <<>>
  PROVE  ScanInv'
<1>t. scan \in ScanState /\ call.limit \in Nat /\ Len(out) \in Nat /\ Cardinality(Pending) \in Nat
  BY ScanTyped DEF ScanInv, ScanTypes
<1>1. scan'.step = to /\ scan' \in ScanState
  BY <1>t DEF ScanState, ScanSteps
<1>2. ScanTypes' /\ SteadyStored' /\ Ascends' /\ NoGap' /\ FullAnswer' /\ Due' = Due
  BY <1>1, ScanMoves
<1>3. call' = call /\ out' = out
  BY DEF Stores
<1>4. WithinLimit'
  <2>1. Pending' = {} /\ Cardinality(Pending') = 0
    BY <1>1, FS_EmptySet DEF Pending
  <2> QED BY <1>t, <1>3, <2>1 DEF ScanInv, WithinLimit, Unlimited
<1>5. Paged' /\ PageWhole' /\ Behind' /\ PageHeld' /\ FellBack' /\ EndedWhole'
  BY <1>1, <1>3 DEF Paged, PageWhole, Behind, PageHeld, FellBack, EndedWhole
<1> QED BY <1>2, <1>4, <1>5 DEF ScanInv

LEMMA FailsStep == ASSUME ScanInv, ScanFails PROVE ScanInv'
<1> DEFINE to == IF out # <<>> \/ call.mode = "ES_ONLY" THEN "stopped" ELSE "fallback"
<1>1. scan' = [scan EXCEPT !.step = to] /\ UNCHANGED <<Stores, out, reply>>
  BY DEF ScanFails, Scanning
<1>2. to \in {"stopped", "fallback"} /\ (to = "fallback" => out = <<>>)
  OBVIOUS
<1> HIDE DEF to
<1> QED BY <1>1, <1>2, StoppedStep

LEMMA FallbackStep == ASSUME ScanInv, Fallback PROVE ScanInv'
<1> DEFINE to == CASE Otherwise = "empty" -> "stopped" [] Otherwise = "raise" -> "raised" [] OTHER -> "drain"
           answer == IF Otherwise # "database" THEN {} ELSE IF call.limit = Unlimited THEN rows ELSE FirstKeys(rows, call.limit)
<1>t. scan \in ScanState /\ call.limit \in Nat /\ rows \in SUBSET Keys
  BY ScanTyped DEF ScanInv, ScanTypes
<1>1. /\ scan' = [scan EXCEPT !.step = to, !.emit = answer]
      /\ UNCHANGED <<Stores, out, reply>> /\ scan.step = "fallback"
  BY DEF Fallback, Scanning
<1>2. out = <<>> /\ DOMAIN out = {} /\ Len(out) = 0
  BY <1>1 DEF ScanInv, FellBack
<1>3. /\ to \in {"stopped", "raised", "drain"}
      /\ to = "raised" => ~call.fallback
      /\ to = "drain" <=> Otherwise = "database"
      /\ to = "drain" => Due \subseteq rows
  <2>1. Otherwise \in {"empty", "raise", "database"} /\ (Otherwise = "raise" => ~call.fallback)
        /\ (Otherwise = "database" => call.mode # "ES_ONLY")
    BY DEF Otherwise
  <2>2. call.mode # "ES_ONLY" => Due \subseteq rows
    BY Dues DEF ScanInv, SteadyStored
  <2> HIDE DEF Otherwise
  <2> QED BY <2>1, <2>2
<1>4. /\ answer \in SUBSET Keys /\ answer \in SUBSET rows
      /\ to # "drain" => answer = {}
      /\ to = "drain" => /\ \A k \in rows, e \in answer : k < e => k \in answer
                         /\ call.limit # 0 => Cardinality(answer) <= call.limit
                         /\ call.limit = 0 \/ Cardinality(answer) < call.limit => answer = rows
  <2>1. CASE to # "drain"
    BY <1>3, <2>1
  <2>2. CASE to = "drain" /\ call.limit = 0
    <3>1. answer = rows
      BY <1>3, <2>2 DEF Unlimited
    <3> HIDE DEF answer, to
    <3> QED BY <1>t, <2>2, <3>1
  <2>3. CASE to = "drain" /\ call.limit # 0
    <3>1. answer = FirstKeys(rows, call.limit)
      BY <1>3, <2>3 DEF Unlimited
    <3> HIDE DEF answer, to
    <3> QED BY <1>t, <2>3, <3>1, FirstOnes
  <2> QED BY <2>1, <2>2, <2>3
<1> HIDE DEF to, answer
<1>5. scan'.step = to /\ scan'.emit = answer /\ scan' \in ScanState
  BY <1>1, <1>t, <1>3, <1>4 DEF ScanState, ScanSteps
<1>6. ScanTypes' /\ SteadyStored' /\ Ascends' /\ NoGap' /\ FullAnswer' /\ Due' = Due
  BY <1>1, <1>5, ScanMoves
<1>7. call' = call /\ out' = out
  BY <1>1 DEF Stores
<1>8. Cardinality(answer) \in Nat
  BY <1>4, ScanKeys
<1>9. WithinLimit'
  <2>1. Pending' = answer
    BY <1>3, <1>4, <1>5 DEF Pending
  <2>2. call.limit # 0 => Cardinality(answer) <= call.limit
    BY <1>t, <1>4, FS_EmptySet
  <2> QED BY <1>t, <1>2, <1>7, <1>8, <2>1, <2>2 DEF WithinLimit, Unlimited
<1>10. Paged' /\ PageWhole' /\ Behind' /\ PageHeld' /\ EndedWhole'
  BY <1>2, <1>3, <1>5, <1>7 DEF Paged, PageWhole, Behind, PageHeld, EndedWhole
<1>11. FellBack'
  <2>1. to = "drain" => \A k \in Due, e \in answer : k < e => k \in answer
    BY <1>3, <1>4
  <2>2. to = "drain" /\ (call.limit = 0 \/ Len(out) + Cardinality(answer) < call.limit) => Due \subseteq answer
    BY <1>t, <1>2, <1>3, <1>4, <1>8
  <2> QED BY <1>2, <1>3, <1>5, <1>6, <1>7, <2>1, <2>2 DEF FellBack, Unlimited
<1> QED BY <1>6, <1>9, <1>10, <1>11 DEF ScanInv

LEMMA DrainedStep == ASSUME ScanInv, Drained PROVE ScanInv'
<1>t. scan \in ScanState /\ call.limit \in Nat /\ Len(out) \in Nat
  BY ScanTyped DEF ScanInv, ScanTypes
<1>1. scan' = [scan EXCEPT !.step = "done"] /\ UNCHANGED <<Stores, out, reply>> /\ scan.step = "drain" /\ scan.emit = {}
  BY DEF Drained, Scanning
<1>2. scan'.step = "done" /\ scan' \in ScanState
  BY <1>1, <1>t DEF ScanState, ScanSteps
<1>3. ScanTypes' /\ SteadyStored' /\ Ascends' /\ NoGap' /\ FullAnswer' /\ Due' = Due
  BY <1>1, <1>2, ScanMoves
<1>4. call' = call /\ out' = out
  BY <1>1 DEF Stores
<1>5. Cardinality(scan.emit) = 0
  BY <1>1, FS_EmptySet
<1>6. WithinLimit'
  <2>1. Pending = {} /\ Pending' = {}
    BY <1>1, <1>2 DEF Pending
  <2> QED BY <1>4, <2>1 DEF ScanInv, WithinLimit
<1>7. EndedWhole'
  <2>1. call.limit = 0 \/ Len(out) < call.limit => Due \subseteq Range(out)
    BY <1>t, <1>1, <1>5 DEF ScanInv, FellBack, Unlimited
  <2> QED BY <1>2, <1>3, <1>4, <2>1 DEF EndedWhole, Unlimited
<1>8. Paged' /\ PageWhole' /\ Behind' /\ PageHeld' /\ FellBack'
  BY <1>2 DEF Paged, PageWhole, Behind, PageHeld, FellBack
<1> QED BY <1>3, <1>6, <1>7, <1>8 DEF ScanInv

LEMMA YieldStep == ASSUME ScanInv, Yield PROVE ScanInv'
<1>t. /\ scan \in ScanState /\ call.limit \in Nat /\ Len(out) \in Nat /\ out \in Seq(Keys) /\ scan.emit \in SUBSET Keys
      /\ \A i \in DOMAIN out : out[i] \in Nat
      /\ \A k \in Due : k \in Nat
      /\ \A e \in scan.emit : e \in Nat
  BY ScanTyped, Dues, ScanKeys DEF ScanInv, ScanTypes, ScanState
<1>1. /\ scan.step \in {"yield", "drain"} /\ UNCHANGED <<Stores, reply>>
      /\ \E k \in scan.emit : /\ \A j \in scan.emit : k <= j
                              /\ out' = Append(out, k)
                              /\ scan' = [scan EXCEPT !.emit = @ \ {k}]
  BY DEF Yield, Scanning
<1>2. PICK k \in scan.emit : /\ \A j \in scan.emit : k <= j
                             /\ out' = Append(out, k)
                             /\ scan' = [scan EXCEPT !.emit = @ \ {k}]
  BY <1>1
<1>3. /\ scan'.step = scan.step /\ scan'.cursor = scan.cursor /\ scan'.size = scan.size /\ scan'.hits = scan.hits
      /\ scan'.emit = scan.emit \ {k} /\ scan' \in ScanState
  BY <1>2, <1>t DEF ScanState
<1>4. call' = call /\ rows' = rows /\ docs' = docs /\ steady' = steady /\ reply' = reply /\ Due' = Due
  BY <1>1 DEF Stores, Due, Matching
<1>5. /\ out' \in Seq(Keys) /\ Len(out') = Len(out) + 1
      /\ \A i \in DOMAIN out' : (i \in DOMAIN out /\ out'[i] = out[i]) \/ (i = Len(out) + 1 /\ out'[i] = k)
      /\ \A i \in DOMAIN out : i \in DOMAIN out' /\ out'[i] = out[i] /\ i <= Len(out) /\ i \in Nat
      /\ Len(out) + 1 \in DOMAIN out' /\ out'[Len(out) + 1] = k
  <2>1. k \in Keys /\ DOMAIN out = 1..Len(out)
    BY <1>t
  <2>2. /\ out' \in Seq(Keys) /\ Len(out') = Len(out) + 1 /\ out'[Len(out) + 1] = k
        /\ \A i \in 1..Len(out) : out'[i] = out[i]
    BY <1>2, <1>t, <2>1, AppendProperties
  <2>3. DOMAIN out' = 1..(Len(out) + 1)
    BY <2>2
  <2>4. \A i \in 1..(Len(out) + 1) : i \in 1..Len(out) \/ i = Len(out) + 1
    BY <1>t
  <2>5. \A i \in 1..Len(out) : i \in 1..(Len(out) + 1) /\ i <= Len(out) /\ i \in Nat
    BY <1>t
  <2>6. Len(out) + 1 \in 1..(Len(out) + 1)
    BY <1>t
  <2> QED BY <2>1, <2>2, <2>3, <2>4, <2>5, <2>6
<1>6. /\ \A x \in Range(out) : x \in Range(out')
      /\ k \in Range(out')
      /\ \A x \in Range(out') : x \in Range(out) \/ x = k
  <2>1. \A x \in Range(out) : x \in Range(out')
    BY Zenon, <1>5 DEF Range
  <2>2. k \in Range(out')
    BY Zenon, <1>5 DEF Range
  <2>3. \A x \in Range(out') : x \in Range(out) \/ x = k
    BY Zenon, <1>5 DEF Range
  <2> QED BY <2>1, <2>2, <2>3
<1>7. /\ \A i \in DOMAIN out, e \in scan.emit : out[i] < e
      /\ \A j \in scan'.emit : k < j
  <2>1. \A i \in DOMAIN out, e \in scan.emit : out[i] < e
    BY <1>1 DEF ScanInv, Behind
  <2> QED BY <1>t, <1>2, <1>3, <2>1
<1>8. ScanTypes' /\ SteadyStored' /\ FullAnswer'
  BY <1>3, <1>4, <1>5 DEF ScanInv, ScanTypes, SteadyStored, FullAnswer
<1>9. Ascends'
  <2>1. \A i, j \in DOMAIN out : i < j => out[i] < out[j]
    BY DEF ScanInv, Ascends
  <2> SUFFICES ASSUME NEW i \in DOMAIN out', NEW j \in DOMAIN out', i < j PROVE out'[i] < out'[j]
    BY DEF Ascends
  <2>2. i \in DOMAIN out /\ out'[i] = out[i]
    BY <1>5, <1>t
  <2> QED BY <1>5, <1>7, <2>1, <2>2
<1>10. \A d \in Due : d < k => d \in Range(out)
  <2> SUFFICES ASSUME NEW d \in Due, d < k PROVE d \in Range(out)
    OBVIOUS
  <2>1. d \notin scan.emit
    BY <1>t, <1>2
  <2>2. CASE scan.step = "drain"
    BY <2>1, <2>2 DEF ScanInv, FellBack
  <2>3. CASE scan.step = "yield"
    <3>1. CASE d <= scan.cursor
      BY <2>3, <3>1 DEF ScanInv, Paged
    <3>2. CASE d > scan.cursor
      <4>1. k \in scan.hits
        BY <2>3 DEF ScanInv, PageHeld
      <4>2. d \in scan.hits
        BY <2>3, <3>2, <4>1 DEF ScanInv, PageWhole
      <4> QED BY <2>1, <2>3, <4>2 DEF ScanInv, PageHeld
    <3>3. scan.cursor \in Nat
      BY ScanTyped DEF ScanInv
    <3> QED BY <1>t, <3>1, <3>2, <3>3
  <2> QED BY <1>1, <2>2, <2>3
<1>11. NoGap'
  <2>1. \A i \in DOMAIN out, d \in Due : d < out[i] => d \in Range(out)
    BY DEF ScanInv, NoGap
  <2> QED BY <1>4, <1>5, <1>6, <1>10, <2>1 DEF NoGap
<1>12. /\ Cardinality(scan'.emit) = Cardinality(scan.emit) - 1 /\ Cardinality(scan.emit) \in Nat
       /\ Len(out') + Cardinality(scan'.emit) = Len(out) + Cardinality(scan.emit)
  <2>1. IsFiniteSet(scan.emit) /\ Cardinality(scan.emit) \in Nat
    BY ScanTyped DEF ScanInv
  <2>2. Cardinality(scan'.emit) = Cardinality(scan.emit) - 1
    BY <1>3, <2>1, FS_RemoveElement
  <2> QED BY <1>t, <1>5, <2>1, <2>2
<1>13. WithinLimit'
  <2>1. Pending = scan.emit /\ Pending' = scan'.emit
    BY <1>1, <1>3 DEF Pending
  <2> QED BY <1>4, <1>12, <2>1 DEF ScanInv, WithinLimit
<1>14. Paged' /\ PageWhole'
  <2>1. Exhausted' <=> Exhausted
    BY <1>3 DEF Exhausted
  <2>2. Intended' <=> Intended
    BY <1>4 DEF Intended
  <2>3. Paged'
    BY <1>3, <1>4, <1>6, <2>2 DEF ScanInv, Paged
  <2>4. PageWhole'
    BY <1>3, <1>4, <2>1 DEF ScanInv, PageWhole
  <2> QED BY <2>3, <2>4
<1>15. PageHeld'
  <2>1. scan.step = "yield" => scan'.emit \subseteq scan.hits /\ \A d \in Due \cap scan.hits : d \in Range(out') \cup scan'.emit
    BY <1>3, <1>6 DEF ScanInv, PageHeld
  <2> QED BY <1>1, <1>3, <1>4, <2>1 DEF PageHeld
<1>16. Behind'
  <2>1. \A i \in DOMAIN out', e \in scan'.emit : out'[i] < e
    BY <1>3, <1>5, <1>7
  <2>2. scan.step = "yield" => \A i \in DOMAIN out' : out'[i] <= scan.cursor \/ out'[i] \in scan.hits
    <3>1. scan.step = "yield" => k \in scan.hits
      BY DEF ScanInv, PageHeld
    <3>2. scan.step = "yield" => \A i \in DOMAIN out : out[i] <= scan.cursor \/ out[i] \in scan.hits
      BY DEF ScanInv, Behind
    <3> QED BY <1>5, <3>1, <3>2
  <2> QED BY <1>1, <1>3, <2>1, <2>2 DEF Behind
<1>17. FellBack'
  <2>1. scan.step = "drain" => \A d \in Due, e \in scan'.emit : d < e => d \in Range(out') \cup scan'.emit
    BY <1>3, <1>6 DEF ScanInv, FellBack
  <2>2. scan.step = "drain" /\ (call.limit = Unlimited \/ Len(out') + Cardinality(scan'.emit) < call.limit)
          => Due \subseteq Range(out') \cup scan'.emit
    BY <1>3, <1>6, <1>12 DEF ScanInv, FellBack
  <2> QED BY <1>1, <1>3, <1>4, <2>1, <2>2 DEF FellBack
<1>18. EndedWhole'
  BY <1>1, <1>3 DEF EndedWhole
<1> QED BY <1>8, <1>9, <1>11, <1>13, <1>14, <1>15, <1>16, <1>17, <1>18 DEF ScanInv

\* Others' writes only take keys out of what is due.
LEMMA ChangedStep == ASSUME ScanInv, NEW k \in Keys, ChangeStores(k) PROVE ScanInv'
<1>1. /\ scan' = scan /\ out' = out /\ reply' = NoReply /\ reply = NoReply /\ call' = call /\ steady' = steady \ {k}
      /\ scan.step # "start"
      /\ \/ call.mode # "ES_ONLY" /\ rows' = rows \cup {k} /\ docs' = docs
         \/ rows' = rows \ {k} /\ docs' = docs
         \/ call.mode # "DB_ONLY" /\ docs' = docs \cup {k} /\ rows' = rows
         \/ docs' = docs \ {k} /\ rows' = rows
  BY DEF ChangeStores
<1>2. rows' \in SUBSET Keys /\ docs' \in SUBSET Keys /\ rows \ {k} \subseteq rows' /\ docs \ {k} \subseteq docs'
  BY <1>1 DEF ScanInv, ScanTypes
<1>3. Due' \subseteq Due
  BY <1>1 DEF Due, Matching
<1>4. ScanTypes'
  BY <1>1, <1>2 DEF ScanInv, ScanTypes
<1>5. SteadyStored'
  <2>1. steady' \subseteq steady /\ (steady \subseteq docs => steady' \subseteq docs') /\ (steady \subseteq rows => steady' \subseteq rows')
    BY <1>1, <1>2
  <2> QED BY <1>1, <2>1 DEF ScanInv, SteadyStored
<1>6. Ascends' /\ NoGap' /\ WithinLimit'
  BY <1>1, <1>3 DEF ScanInv, Ascends, NoGap, WithinLimit, Pending
<1>7. Paged' /\ PageWhole' /\ Behind'
  BY <1>1, <1>3 DEF ScanInv, Paged, PageWhole, Behind, Intended, Exhausted
<1>8. PageHeld' /\ FellBack' /\ EndedWhole'
  BY <1>1, <1>3 DEF ScanInv, PageHeld, FellBack, EndedWhole, Hydrated
<1>9. FullAnswer'
  BY <1>1 DEF FullAnswer, NoReply
<1> QED BY <1>4, <1>5, <1>6, <1>7, <1>8, <1>9 DEF ScanInv

\* The methods that return one answer claim it is full only when it is.
LEMMA AskStep == ASSUME ScanInv, Ask PROVE ScanInv'
<1>t. ScanTypes /\ docs \in SUBSET Keys /\ rows \in SUBSET Keys /\ call \in ScanCalls
  BY DEF ScanInv, ScanTypes
<1>1. call' = call /\ rows' = rows /\ docs' = docs /\ steady' = steady /\ scan' = scan /\ out' = out /\ Due' = Due
  BY DEF Ask, Stores, Due, Matching
<1>2. (UseEs => Due \subseteq Matching(docs)) /\ (call.mode # "ES_ONLY" => Due \subseteq Matching(rows) /\ Due \subseteq rows)
  <2>1. (UseEs => steady \subseteq docs) /\ (call.mode # "ES_ONLY" => steady \subseteq rows)
    BY DEF ScanInv, SteadyStored, UseEs, Intended
  <2> QED BY <1>t, <2>1, Dues
<1>3. ASSUME NEW found \in EsPage(call.page), UseEs, Cardinality(docs) <= call.page PROVE Due \subseteq Looked(found)
  <2>1. /\ found \in SUBSET Matching(docs) /\ Matching(docs) \in SUBSET docs
        /\ Cardinality(found) = IF call.page < Cardinality(Matching(docs)) THEN call.page ELSE Cardinality(Matching(docs))
    BY <1>t, Dues DEF EsPage
  <2>2. /\ Cardinality(Matching(docs)) <= Cardinality(docs) /\ Cardinality(docs) \in Nat /\ Cardinality(Matching(docs)) \in Nat
        /\ IsFiniteSet(Matching(docs)) /\ call.page \in Nat
    <3>1. Matching(docs) \in SUBSET Keys
      BY <1>t, <2>1
    <3> QED BY <1>t, <2>1, <3>1, ScanKeys, ScanTyped
  <2>3. Cardinality(found) = Cardinality(Matching(docs))
    BY <1>3, <2>1, <2>2
  <2>4. found = Matching(docs)
    BY <2>1, <2>2, <2>3, FS_Subset
  <2> QED BY <1>2, <1>3, <2>4 DEF Looked
<1>4. (Otherwise = "database") => call.mode # "ES_ONLY"
  BY DEF Otherwise
<1>5. FullAnswer'
  <2> SUFFICES ASSUME reply'.full PROVE Due \subseteq reply'.keys
    BY <1>1 DEF FullAnswer
  <2>1. EsSearch \/ EsFilter \/ EsCount
    BY DEF Ask
  <2>2. \/ UseEs /\ \E found \in EsPage(call.page) : Replies("elasticsearch", Looked(found), Cardinality(docs) <= call.page)
        \/ call.mode = "ES_ONLY" /\ Replies("empty", {}, FALSE)
        \/ call.mode # "ES_ONLY" /\ Replies("database", Matching(rows), TRUE)
        \/ DbAnswer(rows)
        \/ UseEs /\ Replies("index", Matching(docs), TRUE)
    BY <2>1 DEF EsSearch, EsFilter, EsCount
  <2>3. CASE UseEs /\ \E found \in EsPage(call.page) : Replies("elasticsearch", Looked(found), Cardinality(docs) <= call.page)
    <3>1. PICK found \in EsPage(call.page) : Replies("elasticsearch", Looked(found), Cardinality(docs) <= call.page)
      BY <2>3
    <3>2. reply'.keys = Looked(found) /\ Cardinality(docs) <= call.page
      BY <3>1 DEF Replies
    <3> QED BY <1>3, <2>3, <3>2
  <2>4. CASE call.mode = "ES_ONLY" /\ Replies("empty", {}, FALSE)
    BY <2>4 DEF Replies
  <2>5. CASE call.mode # "ES_ONLY" /\ Replies("database", Matching(rows), TRUE)
    BY <1>2, <2>5 DEF Replies
  <2>6. CASE DbAnswer(rows)
    BY <1>2, <1>4, <2>6 DEF DbAnswer, Replies
  <2>7. CASE UseEs /\ Replies("index", Matching(docs), TRUE)
    BY <1>2, <2>7 DEF Replies
  <2> QED BY <2>2, <2>3, <2>4, <2>5, <2>6, <2>7
<1>6. ScanTypes' /\ SteadyStored' /\ Ascends' /\ NoGap' /\ WithinLimit'
  BY <1>1 DEF ScanInv, ScanTypes, SteadyStored, Ascends, NoGap, WithinLimit, Pending
<1>7. Paged' /\ PageWhole' /\ Behind' /\ PageHeld' /\ FellBack' /\ EndedWhole'
  BY <1>1 DEF ScanInv, Paged, PageWhole, Behind, PageHeld, FellBack, EndedWhole, Intended, Exhausted, Hydrated
<1> QED BY <1>5, <1>6, <1>7 DEF ScanInv

LEMMA Unchanging == ASSUME ScanInv, UNCHANGED <<Stores, scan, out>>, UNCHANGED reply \/ reply' = NoReply PROVE ScanInv'
<1>1. call' = call /\ rows' = rows /\ docs' = docs /\ steady' = steady /\ scan' = scan /\ out' = out /\ Due' = Due
  BY DEF Stores, Due, Matching
<1>2. FullAnswer'
  BY <1>1 DEF ScanInv, FullAnswer, NoReply
<1>3. ScanTypes' /\ SteadyStored' /\ Ascends' /\ NoGap' /\ WithinLimit'
  BY <1>1 DEF ScanInv, ScanTypes, SteadyStored, Ascends, NoGap, WithinLimit, Pending
<1>4. Paged' /\ PageWhole' /\ Behind' /\ PageHeld' /\ FellBack' /\ EndedWhole'
  BY <1>1 DEF ScanInv, Paged, PageWhole, Behind, PageHeld, FellBack, EndedWhole, Intended, Exhausted, Hydrated
<1> QED BY <1>2, <1>3, <1>4 DEF ScanInv

LEMMA ScanStarts == ASSUME ScanInit PROVE ScanInv
<1>1. /\ scan = [step |-> "start", cursor |-> 0, size |-> 0, hits |-> {}, emit |-> {}] /\ out = <<>> /\ reply = NoReply
      /\ call \in ScanCalls /\ rows \in SUBSET Keys /\ docs \in SUBSET Keys
      /\ call.mode = "ES_ONLY" => rows = {}
      /\ call.mode = "DB_ONLY" => docs = {}
      /\ steady = IF call.mode = "DUAL" THEN rows \cap docs ELSE rows \cup docs
  BY DEF ScanInit
<1>2. scan \in ScanState /\ scan.step = "start" /\ scan.cursor = 0 /\ out \in Seq(Keys) /\ Len(out) = 0 /\ DOMAIN out = {}
  BY <1>1 DEF ScanState, ScanSteps
<1>3. ScanTypes
  BY <1>1, <1>2 DEF ScanTypes
<1>4. SteadyStored
  <2>1. call.mode \in {"DUAL", "ES_ONLY", "DB_ONLY"}
    BY <1>1, EsScanAssumption DEF ScanCalls
  <2> QED BY <1>1, <2>1 DEF SteadyStored
<1>5. WithinLimit
  <2>1. Pending = {} /\ Cardinality(Pending) = 0 /\ call.limit \in Nat
    BY <1>2, <1>3, FS_EmptySet, ScanTyped DEF Pending
  <2> QED BY <1>2, <2>1 DEF WithinLimit, Unlimited
<1>6. Ascends /\ NoGap /\ Paged /\ PageWhole /\ Behind /\ PageHeld /\ FellBack /\ EndedWhole /\ FullAnswer
  BY <1>1, <1>2 DEF Ascends, NoGap, Paged, PageWhole, Behind, PageHeld, FellBack, EndedWhole, FullAnswer, NoReply
<1> QED BY <1>3, <1>4, <1>5, <1>6 DEF ScanInv

LEMMA ScanInvFaithful == ScanInv => ScanFaithful
<1> SUFFICES ASSUME ScanInv PROVE ScanFaithful
  OBVIOUS
<1>t. /\ call.limit \in Nat /\ Len(out) \in Nat /\ Cardinality(Pending) \in Nat
      /\ DOMAIN out = 1..Len(out)
  BY ScanTyped DEF ScanInv, ScanTypes
<1>1. \A i \in 1..(Len(out) - 1) : out[i] < out[i + 1]
  <2>1. \A i \in 1..(Len(out) - 1) : i \in 1..Len(out) /\ i + 1 \in 1..Len(out) /\ i < i + 1
    BY <1>t
  <2> QED BY <1>t, <2>1 DEF ScanInv, Ascends
<1>2. call.limit # Unlimited => Len(out) <= call.limit
  BY <1>t DEF ScanInv, WithinLimit, Unlimited
<1>3. \A k \in Matching(steady) : (\E i \in DOMAIN out : k < out[i]) => k \in Range(out)
  BY DEF ScanInv, NoGap, Due
<1>4. scan.step = "done" /\ (call.limit = Unlimited \/ Len(out) < call.limit) => Matching(steady) \subseteq Range(out)
  BY DEF ScanInv, EndedWhole, Due
<1>5. scan.step = "raised" => out = <<>> /\ ~call.fallback
  BY DEF ScanInv, FellBack
<1>6. reply.full => Matching(steady) \subseteq reply.keys
  BY DEF ScanInv, FullAnswer, Due
<1> QED BY <1>1, <1>2, <1>3, <1>4, <1>5, <1>6 DEF ScanFaithful

\* A deep scan yields every match once, in ascending order and within its limit;
\* what was there all along is never skipped before the last key it yielded, nor
\* at all when it ends by itself below the limit (models.py es_scan), for every
\* page size and limit, any number of rows and documents that come and go in
\* between, and Elasticsearch failing at any page; and an answer no limit cut
\* short holds everything that was there.
THEOREM ScanFaithfulHolds == ScanSpec => []ScanFaithful
<1>1. ScanInit => ScanInv
  BY ScanStarts
<1>2. ScanInv /\ [ScanNext]_scanVars => ScanInv'
  <2> SUFFICES ASSUME ScanInv, [ScanNext]_scanVars PROVE ScanInv'
    OBVIOUS
  <2>1. CASE Start BY <2>1, StartStep
  <2>2. CASE Search BY <2>2, SearchStep
  <2>3. CASE Hydrate BY <2>3, HydrateStep
  <2>4. CASE Yield BY <2>4, YieldStep
  <2>5. CASE EndPage BY <2>5, EndPageStep
  <2>6. CASE ScanFails BY <2>6, FailsStep
  <2>7. CASE Fallback BY <2>7, FallbackStep
  <2>8. CASE Drained BY <2>8, DrainedStep
  <2>9. CASE Ask BY <2>9, AskStep
  <2>10. CASE ForgetReply BY <2>10, Unchanging DEF ForgetReply
  <2>11. CASE \E k \in Keys : ChangeStores(k) BY <2>11, ChangedStep
  <2>12. CASE UNCHANGED scanVars
    <3>1. UNCHANGED <<Stores, scan, out>> /\ UNCHANGED reply
      BY <2>12 DEF scanVars, Stores
    <3> QED BY <3>1, Unchanging
  <2> QED BY <2>1, <2>2, <2>3, <2>4, <2>5, <2>6, <2>7, <2>8, <2>9, <2>10, <2>11, <2>12 DEF ScanNext
<1> QED BY <1>1, <1>2, ScanInvFaithful, PTL DEF ScanSpec
==============================================================================
