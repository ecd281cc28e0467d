----------------------------- MODULE MCRequests -----------------------------
(***************************************************************************)
(* Small instances of what requests and callers go through, for TLC, one   *)
(* at a time: an initial state picks the scene. The components that        *)
(* theorems are about are extended, with variables of their own at rest in *)
(* another scene; v1, v2, ... are the variables of the others.             *)
(***************************************************************************)
EXTENDS TenantScope, Quotas, ApiAccess, MCFieldAccess, AlertCooldown, Sharding,
        EncryptedColumn, EsScan

CONSTANTS p1, p2, text1, text2

VARIABLES scene, v1, v2, v3, v4, v5, v6, v7, v8, v9

others == <<v1, v2, v3, v4, v5, v6, v7, v8, v9>>
callerVars == <<vars, quotaVars, accessVars>>
valueVars == <<fieldVars, columnVars, scanVars>>
serverVars == <<alertVars, shardVars>>
requestVars == <<scene, others, callerVars, valueVars, serverVars>>
Unused == "unused"

-----------------------------------------------------------------------------
(* Values of the constants that are too long for a configuration file.     *)

\* SNAPADMIN_SHARDING dictionaries: a mirrored database that fails over, shards
\* by hash without fallback, a custom function with failover, ranges.
Sharded(sharding, replicas, strategy, selection, failover, fallback) ==
  [sharding |-> sharding, mirroring |-> replicas > 0, replicas_per_shard |-> replicas,
   strategy |-> strategy, ranges |-> <<{1}, {1, 2}, {}>>, selection |-> selection,
   auto_failover |-> failover, fallback |-> fallback]
ShardConfigs ==
  {Sharded(FALSE, 2, "modulo", "round_robin", TRUE, TRUE),
   Sharded(FALSE, 2, "hash", "random", FALSE, FALSE),
   Sharded(TRUE, 2, "custom", "first_available", TRUE, TRUE),
   Sharded(TRUE, 0, "range", "random", FALSE, TRUE)}
Crc32 == [k \in {1} |-> 7]
CustomRouter == [k \in {1} |-> k]

\* Declarations of a model: everything, read-only, a list of methods, unregistered.
Declared(registered, listed, methods, readOnly, spec, permission, mapped, deletable) ==
  [registered |-> registered, listed |-> listed, methods |-> methods, readOnly |-> readOnly,
   spec |-> [declared |-> registered, methods |-> spec, permission |-> permission],
   mapped |-> mapped, deletable |-> deletable]
Open == Declared(TRUE, FALSE, {}, FALSE, {"post"}, "none", "none", TRUE)
DeclaredPolicies ==
  {Open,
   Declared(TRUE, FALSE, {}, TRUE, {"get", "post"}, "none", "change", TRUE),
   Declared(TRUE, TRUE, {"get", "delete"}, FALSE, {"get"}, "special", "approve", FALSE),
   Declared(FALSE, FALSE, {}, FALSE, {"post"}, "none", "none", TRUE)}

-----------------------------------------------------------------------------
\* Two objects, one of them with an inline child; a form changes one field or both.
D == INSTANCE AdminEdits WITH
  Staff <- {p1, p2}, Parents <- {"o", "q"}, Children <- {"c"}, Parent <- "o", Fields <- {"f", "g"},
  Forms <- {[f |-> 0, g |-> 0], [f |-> 1, g |-> 0], [f |-> 1, g |-> 1]},
  MaxRequests <- 2, MaxFaults <- 1,
  rows <- v1, trail <- v2, aged <- v3, base <- v4, session <- v5, disturbed <- v6, undone <- v7,
  requests <- v8, faults <- v9

ASSUME RequestsAssumption == D!AdminAssumption

-----------------------------------------------------------------------------
NoTenancy == Init /\ tenant = [r \in Rows |-> NoRow]
NoAccess == AccessInit /\ policy = Open /\ owner.perms = {} /\ token.scope = "this"
NoFields == FieldInit /\ model.open
NoColumn == ColumnInit /\ field.kind = "text" /\ ~field.indexed /\ ~field.snap
NoScan == /\ ScanInit /\ rows = {} /\ docs = {}
          /\ call.mode = "DUAL" /\ call.limit = Unlimited
          /\ call.enabled /\ call.fallback /\ call.pkOnly /\ call.text
NoAlert == AlertInit /\ kind = "spike"
NoShards == ShardInit /\ config.strategy = "modulo"
NoCallers == NoTenancy /\ QuotaInit /\ NoAccess
NoValues == NoFields /\ NoColumn /\ NoScan
NoServers == NoAlert /\ NoShards
Unchosen == /\ v1 = Unused /\ v2 = Unused /\ v3 = Unused /\ v4 = Unused /\ v5 = Unused
            /\ v6 = Unused /\ v7 = Unused /\ v8 = Unused /\ v9 = Unused
SameScene == UNCHANGED <<scene, callerVars, valueVars, serverVars>>

InitTenant == scene = "tenant" /\ Init /\ QuotaInit /\ NoAccess /\ NoValues /\ NoServers
TenantScene == /\ scene = "tenant" /\ Next
               /\ UNCHANGED <<scene, others, quotaVars, accessVars, valueVars, serverVars>>

\* Where a cooldown has begun, nobody dies and the third caller stays away.
InitQuota == scene = "quota" /\ NoCallers /\ NoValues /\ NoServers
QuotaScene == /\ scene = "quota" /\ QuotaNext
              /\ cooling' => quotaFaults' = 0 /\ caller'["p3"] = IdleCaller
              /\ UNCHANGED <<scene, others, vars, accessVars, valueVars, serverVars>>

\* One request manages the token, twice if the model is open, or two do that of
\* an open model with an owner whose permissions stay.
InitAccess == /\ AccessInit /\ NoTenancy /\ QuotaInit /\ NoValues /\ NoServers
              /\ \/ scene = "access"
                 \/ scene = "managed" /\ policy = Open /\ owner.perms = {"view"}
AccessScene == /\ scene \in {"access", "managed"} /\ AccessNext
               /\ scene = "access" => manager'[p2] = Quiet
               /\ policy # Open => accessChanges' < MaxAccessChanges
               /\ scene = "managed" => owner'.perms = {"view"}
               /\ UNCHANGED <<scene, others, vars, quotaVars, valueVars, serverVars>>

\* An export job and the audit trail share nothing: one of them at a time.
InitField == scene = "field" /\ FieldInit /\ NoCallers /\ NoColumn /\ NoScan /\ NoServers
FieldScene == /\ scene = "field" /\ FieldNext
              /\ job' = NoJob \/ trail' = {}
              /\ UNCHANGED <<scene, others, callerVars, columnVars, scanVars, serverVars>>

\* All kinds of columns with fixtures and one instance, or two processes that hold
\* one row (without fixtures the kind is all one). Only text
\* on a SnapModel takes all the writes; the first value is text1, as either may be.
InitColumn == /\ ColumnInit /\ NoCallers /\ NoFields /\ NoScan /\ NoServers
              /\ \/ scene = "column"
                 \/ scene = "shared row" /\ field.kind = "text" /\ ~field.unique
ColumnScene == /\ scene \in {"column", "shared row"} /\ ColumnNext
               /\ scene = "column" => held'[p2] = Unheld
               /\ columnWrites' = MaxColumnWrites => field.kind = "text" /\ field.snap
               /\ columnWrites' = 1 => \A k \in ColumnRows : meant'[k] # text2
               /\ scene = "shared row" => table'[2] = NoRecord /\ keyset' # <<>> /\ UNCHANGED fixture
               /\ UNCHANGED <<scene, others, callerVars, fieldVars, scanVars, serverVars>>

InitScan == scene = "scan" /\ ScanInit /\ NoCallers /\ NoFields /\ NoColumn /\ NoServers
ScanScene == /\ scene = "scan" /\ ScanNext
             /\ UNCHANGED <<scene, others, callerVars, fieldVars, columnVars, serverVars>>

InitAlert == scene = "alert" /\ AlertInit /\ NoCallers /\ NoValues /\ NoShards
AlertScene == /\ scene = "alert" /\ AlertNext
              /\ UNCHANGED <<scene, others, callerVars, valueVars, shardVars>>

\* Two writes where rows have a shard and no replicas, one with replicas.
InitShard == scene = "shard" /\ ShardInit /\ NoCallers /\ NoValues /\ NoAlert
ShardScene == /\ scene = "shard" /\ ShardNext
              /\ config.mirroring => writes' < MaxWrites
              /\ UNCHANGED <<scene, others, callerVars, valueVars, alertVars>>

InitEdit == scene = "edit" /\ D!Init
EditScene == /\ scene = "edit" /\ D!Next /\ SameScene
             /\ v8' = 1 => v5'[p2] = D!Idle   \* p1 begins, as either may

RequestsInit ==
  \/ /\ Unchosen
     /\ \/ InitTenant \/ InitQuota \/ InitAccess \/ InitField \/ InitColumn \/ InitScan
        \/ InitAlert \/ InitShard
  \/ /\ NoCallers /\ NoValues /\ NoServers
     /\ InitEdit
RequestsNext ==
  \/ TenantScene \/ QuotaScene \/ AccessScene \/ FieldScene \/ ColumnScene \/ ScanScene
  \/ AlertScene \/ ShardScene \/ EditScene

RequestsSpec == RequestsInit /\ [][RequestsNext]_requestVars

-----------------------------------------------------------------------------
(* The properties of the components that are instantiated, each in its     *)
(* scene; the others are those of the modules this one extends.            *)

\* AdminEdits: the entries of the audit trail account for the rows.
TrailTrue == scene = "edit" => D!TrailTrue

\* AdminEdits: a failing audit entry leaves the edit it is about alone.
AuditHarmless == scene = "edit" => D!AuditHarmless
=============================================================================
