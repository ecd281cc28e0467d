------------------------------ MODULE ApiAccess ------------------------------
(***************************************************************************)
(* Requests to the generated REST API of one model (api/authentication.py, *)
(* api/views.py) with a token of models.APIToken, while that token is      *)
(* renamed, rotated, deactivated, edited and deleted by other requests,    *)
(* each of which loads the row and writes it back, and while the owner's   *)
(* permissions change.                                                     *)
(***************************************************************************)
EXTENDS Integers, FiniteSets

CONSTANTS
  Workers,          \* threads serving requests to the model
  Managers,         \* threads serving requests that manage the token
  Policies,         \* declarations of a model, see IsPolicy
  PermissionSets,   \* sets of permissions the owner may hold; "super" is a superuser's
  Schemes,          \* SNAPADMIN_API_AUTHENTICATION_CLASSES: a subset of {"token", "session"}
  MaxKeys,          \* bound: keys minted
  MaxAccessChanges  \* bound: management requests and changes of the owner's account

Nothing == "none"
Verbs == {"view", "add", "change", "delete"}
Safe == {"get", "head", "options"}
Methods == {"get", "post", "put", "patch", "delete", "head", "options"}
Scopes == {"this", "other"}    \* allowed_models: empty or naming this model, or others
NoTokenRow == [key |-> 0, active |-> FALSE, expired |-> FALSE, scope |-> "this"]
IdleRequest == [pc |-> "idle", scope |-> "this", active |-> FALSE, action |-> Nothing,
                method |-> Nothing, perms |-> {}]
Quiet == [kind |-> Nothing, copy |-> NoTokenRow]

IsPolicy(p) ==
  /\ p.registered \in BOOLEAN
  /\ p.methods \subseteq Methods        \* api_http_method_names
  /\ p.listed \in BOOLEAN               \* whether it is given at all
  /\ p.readOnly \in BOOLEAN             \* api_read_only
  /\ p.spec.declared \in BOOLEAN        \* a @snap_action: does the model have it,
  /\ p.spec.methods \subseteq Methods   \* its methods,
  /\ p.spec.permission \in Verbs \cup {Nothing, "special"} \* its own permission
  /\ p.mapped \in Verbs \cup {Nothing, "approve"} \* SNAPADMIN_API_ACTION_PERMISSIONS of "archive"
  /\ p.deletable \in BOOLEAN            \* api_can_delete and SNAPADMIN_API_DELETE_GUARD

ASSUME ApiAccessAssumption ==
  /\ Schemes \subseteq {"token", "session"}
  /\ PermissionSets \subseteq SUBSET (Verbs \cup {"special", "super"})
  /\ {MaxKeys, MaxAccessChanges} \subseteq Nat
  /\ \A p \in Policies : IsPolicy(p)

VARIABLES
  policy,
  owner,     \* [active, perms]: the account the token belongs to
  token,     \* its row, or NoTokenRow
  minted,    \* keys minted so far
  dead,      \* history: keys that were rotated away or deleted with their row
  off,       \* history: whether the token was deactivated
  manager,   \* a management request: its kind and the row it loaded
  request,   \* a request to the model
  accessChanges

accessVars == <<policy, owner, token, minted, dead, off, manager, request, accessChanges>>

AccessInit ==
  /\ policy \in Policies
  /\ \E perms \in PermissionSets : owner = [active |-> TRUE, perms |-> perms]
  /\ \E s \in Scopes : token = [key |-> 1, active |-> TRUE, expired |-> FALSE, scope |-> s]
  /\ minted = 1 /\ dead = {} /\ off = FALSE
  /\ manager = [m \in Managers |-> Quiet]
  /\ request = [w \in Workers |-> IdleRequest]
  /\ accessChanges = 0

-----------------------------------------------------------------------------
(* The token's row.                                                        *)

\* get_object: the row as it is now; its owner's and superusers' alone.
Load(m) ==
  /\ manager[m] = Quiet /\ token # NoTokenRow
  /\ accessChanges < MaxAccessChanges /\ accessChanges' = accessChanges + 1
  /\ \E k \in {"rename", "rotate", "deactivate", "edit", "destroy"} :
       manager' = [manager EXCEPT ![m] = [kind |-> k, copy |-> token]]
  /\ UNCHANGED <<policy, owner, token, minted, dead, off, request>>

Done(m, kind) ==
  /\ manager[m].kind = kind /\ manager' = [manager EXCEPT ![m] = Quiet]
  /\ UNCHANGED <<policy, owner, request, accessChanges>>

\* A save without update_fields writes the whole copy back, and inserts it
\* again where the row is gone. What its copy says is alive is alive again.
Written(copy) ==
  /\ token' = copy
  /\ dead' = dead \ {copy.key} /\ off' = ~copy.active
  /\ UNCHANGED minted

Rename(m) == Done(m, "rename") /\ Written(manager[m].copy)

\* The admin's form may change the flags and the scopes as well.
AdminEdit(m) ==
  /\ Done(m, "edit")
  /\ \E active \in BOOLEAN, expired \in BOOLEAN, s \in Scopes :
       Written([manager[m].copy EXCEPT !.active = active, !.expired = expired, !.scope = s])

\* Mutant: rotate saves the whole row it loaded.
RotatedWhole(m) == [manager[m].copy EXCEPT !.key = minted + 1]
Rotated(m) == [token EXCEPT !.key = minted + 1]

\* update_fields: the prefix and the digest only. Without the row the save fails.
Rotate(m) ==
  /\ Done(m, "rotate")
  /\ UNCHANGED off
  /\ IF token = NoTokenRow THEN UNCHANGED <<token, minted, dead>>
     ELSE /\ minted < MaxKeys /\ minted' = minted + 1
          /\ token' = Rotated(m)
          /\ dead' = dead \cup {token.key}

Deactivated(m) == [token EXCEPT !.active = FALSE]

DeactivateToken(m) ==
  /\ Done(m, "deactivate")
  /\ IF token = NoTokenRow THEN UNCHANGED <<token, off>>
     ELSE token' = Deactivated(m) /\ off' = TRUE
  /\ UNCHANGED <<minted, dead>>

Destroy(m) ==
  /\ Done(m, "destroy") /\ token' = NoTokenRow
  /\ dead' = IF token = NoTokenRow THEN dead ELSE dead \cup {token.key}
  /\ UNCHANGED <<minted, off>>

ExpireToken ==
  /\ token # NoTokenRow /\ ~token.expired /\ token' = [token EXCEPT !.expired = TRUE]
  /\ UNCHANGED <<policy, owner, minted, dead, off, manager, request, accessChanges>>

-----------------------------------------------------------------------------
(* The account.                                                            *)

Change(account) ==
  /\ accessChanges < MaxAccessChanges /\ accessChanges' = accessChanges + 1
  /\ owner' = account
  /\ UNCHANGED <<policy, token, minted, dead, off, manager, request>>

\* set_permissions replaces them all.
SetPermissions ==
  \E perms \in PermissionSets : perms # owner.perms /\ Change([owner EXCEPT !.perms = perms])

Disable == owner.active /\ Change([owner EXCEPT !.active = FALSE])

-----------------------------------------------------------------------------
(* A request to the model.                                                 *)

\* The viewset's action for a route and a method; the project mounted "archive".
ActionOf(route, method) ==
  CASE method = "options" -> "metadata"
    [] route = "list" /\ method \in {"get", "head"} -> "list"
    [] route = "list" /\ method = "post" -> "create"
    [] route = "object" /\ method \in {"get", "head"} -> "retrieve"
    [] route = "object" /\ method = "put" -> "update"
    [] route = "object" /\ method = "patch" -> "partial_update"
    [] route = "object" /\ method = "delete" -> "destroy"
    [] route \in {"count", "export"} /\ method \in {"get", "head"} -> route
    [] route \in {"fetch_by", "archive"} /\ method = "post" -> route
    [] route = "action" /\ method # "options" -> "dispatch_action"
    [] OTHER -> Nothing

Routes == {"list", "object", "count", "export", "fetch_by", "archive", "action"}

Reading == {"list", "retrieve", "count", "export", "fetch_by", "metadata"}

\* Built-in entries win; an unmapped action is refused.
RequiredVerb(a) ==
  CASE a \in Reading -> "view"
    [] a = "create" -> "add"
    [] a \in {"update", "partial_update"} -> "change"
    [] a = "destroy" -> "delete"
    [] a = "archive" /\ policy.mapped \in Verbs -> policy.mapped
    [] OTHER -> Nothing

\* api_http_method_names, then api_read_only; fetch_by is a POST that reads.
MethodNames(a) ==
  LET allowed == IF ~policy.registered THEN {}
                 ELSE IF policy.listed THEN policy.methods \cup {"head", "options"}
                 ELSE IF policy.readOnly THEN Safe ELSE Methods
  IN allowed \cup (IF a = "fetch_by" /\ "get" \in allowed THEN {"post"} ELSE {})

CanAccessModel(scope) == scope = "this"
AccountHas(r, p) == r.active /\ r.perms \cap {p, "super"} # {}

\* APITokenAuthentication, or a session, whose row is the account itself.
Accepts(key) == token # NoTokenRow /\ token.key = key /\ token.active /\ ~token.expired

\* 401, 403, 404 and 405.
RefuseRequest(w) == request' = [request EXCEPT ![w] = IdleRequest]
Rest == UNCHANGED <<policy, owner, token, minted, dead, off, manager, accessChanges>>

AuthenticateRequest(w) ==
  /\ request[w].pc = "idle"
  /\ \E route \in Routes, method \in Methods, scheme \in Schemes, key \in 1..minted :
       IF owner.active /\ (scheme = "token" => Accepts(key))
       THEN request' = [request EXCEPT ![w] =
              [IdleRequest EXCEPT !.pc = "permit", !.active = TRUE, !.perms = owner.perms \cap {"super"},
                           !.action = ActionOf(route, method), !.method = method,
                           !.scope = IF scheme = "token" THEN token.scope ELSE "this"]]
       ELSE RefuseRequest(w)
  /\ Rest

\* TokenModelPermission; a @snap_action answers for its permission itself.
HasPermission(r, a) ==
  \/ a = Nothing
  \/ a = "dispatch_action" /\ CanAccessModel(r.scope)
  \/ RequiredVerb(a) # Nothing /\ CanAccessModel(r.scope) /\ AccountHas(r, RequiredVerb(a))

\* The account's permissions are read at the first check, and kept.
PermsRead(r) == [r EXCEPT !.perms = @ \cup (owner.perms \ {"super"})]

\* The permission, then initial's 404, then the model's methods.
Permit(w) ==
  LET r == PermsRead(request[w])
      a == r.action
  IN /\ r.pc = "permit"
     /\ IF HasPermission(r, a) /\ policy.registered /\ a # Nothing /\ r.method \in MethodNames(a)
        THEN request' = [request EXCEPT ![w] =
               [@ EXCEPT !.pc = "handle",
                         !.perms = IF a = "dispatch_action" THEN request[w].perms ELSE r.perms]]
        ELSE RefuseRequest(w)
     /\ Rest

\* The permission of a @snap_action: its own, or derived from its methods.
SpecPermission ==
  IF policy.spec.permission # Nothing THEN policy.spec.permission
  ELSE IF policy.spec.methods \subseteq Safe THEN "view" ELSE "change"

DispatchAction(w) ==
  LET r == PermsRead(request[w])
  IN /\ r.pc = "handle" /\ r.action = "dispatch_action"
     /\ IF policy.spec.declared /\ r.method \in policy.spec.methods /\ AccountHas(r, SpecPermission)
        THEN request' = [request EXCEPT ![w] = [r EXCEPT !.pc = "served"]]
        ELSE RefuseRequest(w)
     /\ Rest

Handle(w) ==
  LET r == request[w]
  IN /\ r.pc = "handle" /\ r.action # "dispatch_action"
     /\ IF r.action = "destroy" /\ ~policy.deletable THEN RefuseRequest(w)
        ELSE request' = [request EXCEPT ![w] = [@ EXCEPT !.pc = "served"]]
     /\ Rest

Finish(w) ==
  /\ request[w].pc = "served" /\ request' = [request EXCEPT ![w] = IdleRequest] /\ Rest

AccessNext ==
  \/ \E m \in Managers : Load(m) \/ Rename(m) \/ AdminEdit(m) \/ Rotate(m) \/ DeactivateToken(m) \/ Destroy(m)
  \/ ExpireToken \/ SetPermissions \/ Disable
  \/ \E w \in Workers : AuthenticateRequest(w) \/ Permit(w) \/ DispatchAction(w) \/ Handle(w) \/ Finish(w)

AccessSpec == AccessInit /\ [][AccessNext]_accessVars

-----------------------------------------------------------------------------
(* Properties.                                                             *)

AccessTypeOK ==
  /\ policy \in Policies /\ minted \in 1..MaxKeys /\ dead \subseteq 1..minted
  /\ token.key \in 0..minted /\ token.scope \in Scopes
  /\ \A m \in Managers : manager[m].copy.key \in 0..minted
  /\ \A w \in Workers : request[w].pc \in {"idle", "permit", "handle", "served"}

\* A key that was rotated away or deleted, and a token that was deactivated, let
\* nobody in again until a rename or an admin form writes a whole row back that
\* has them alive.
RevocationSticks == token.active => token.key \notin dead /\ ~off

\* What a call may do, by the declarations: what it needs, and whether the
\* model takes calls of its method at all.
Needs(a) ==
  CASE a \in Reading -> "view" [] a = "create" -> "add" [] a = "destroy" -> "delete"
    [] a \in {"update", "partial_update"} -> "change"
    [] a = "archive" -> policy.mapped
    [] OTHER -> SpecPermission
Offered(a, method) ==
  LET declared == IF policy.listed THEN policy.methods ELSE IF policy.readOnly THEN Safe ELSE Methods
  IN \/ method \in declared \cup {"head", "options"}
     \/ a = "fetch_by" /\ "get" \in declared

\* A served call is one the model offers, within the token's models and the
\* permissions its owner held when they were checked, and no vetoed delete.
ServedWithinRights ==
  \A w \in Workers :
    LET r == request[w]
    IN r.pc = "served" =>
         /\ policy.registered /\ Offered(r.action, r.method) /\ r.scope # "other"
         /\ r.perms \cap {Needs(r.action), "super"} # {}
         /\ r.action = "destroy" => policy.deletable

\* Access ends where a key, a scope, a permission or a model's policy ends.
AccessBounded == RevocationSticks /\ ServedWithinRights
=============================================================================
