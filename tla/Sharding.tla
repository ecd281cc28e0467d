-------------------------------- MODULE Sharding --------------------------------
(***************************************************************************)
(* The sharding router (sharding/router.py): the slicing of the configured *)
(* databases into shards (registration.py), the choice of a shard by the   *)
(* value of its key, the choice of a primary or a replica by each process  *)
(* with its cached probes (health.py), and the scopes that override it     *)
(* (state.py, decorators.py).  A database holds a version of every row; a  *)
(* replica receives its primary's version some time later (external).  The *)
(* router sees the key of a row only in the instance that Django passes    *)
(* (save, refresh_from_db); a query has none and goes to Django's default  *)
(* database.                                                               *)
(***************************************************************************)
EXTENDS Naturals, Sequences, FiniteSets, SequencesExt

CONSTANTS Processes,
          ShardKeys,  \* values of the shard key
          Databases,  \* the number of DSNs in the flat DATABASES list
          Configs,    \* SNAPADMIN_SHARDING dictionaries
          Hash,       \* crc32 of every key (external)
          Custom,     \* CUSTOM_ROUTER_FUNC: the shard's number for every key
          MaxWrites, MaxShardFaults, MaxDepth

ASSUME ShardingAssumption ==
  /\ ShardKeys \subseteq Nat
  /\ Databases \in Nat \ {0}
  /\ Hash \in [ShardKeys -> Nat]
  /\ 0 \notin Processes       \* which stands for no process
  /\ \A c \in Configs : /\ {c.sharding, c.mirroring} \subseteq BOOLEAN /\ c.replicas_per_shard \in Nat
                        /\ c.strategy \in {"modulo", "hash", "custom", "range"}

VARIABLES
  config,      \* the SNAPADMIN_SHARDING in force
  up,          \* which databases answer
  store,       \* store[d][k]: the version of row k that database d holds, or 0
  cached,      \* cached[p][d]: p's last probe of d, if it has not expired
  position,    \* position[p]: where p's round robin stands
  scopes,      \* scopes[p]: the open overrides of p, outermost first, each with
               \* the versions written in it by either way (history)
  readBack,    \* what the last read returned
  writes, shardFaults

shardVars == <<config, up, store, cached, position, scopes, readBack, writes, shardFaults>>

Hosts == 1..Databases
DefaultDatabase == Databases + 1 \* where Django goes when the router has no opinion
AllHosts == Hosts \union {DefaultDatabase}
NoDatabase == 0                  \* the query raises
NothingWritten == [keyed \in BOOLEAN |-> [k \in ShardKeys |-> 0]]
NoScope == [master |-> FALSE, shard |-> 0, replica |-> FALSE, own |-> NothingWritten]
NothingRead == [process |-> NoDatabase, key |-> NoDatabase, keyed |-> FALSE, version |-> 0]

--------------------------------------------------------------------------------
(* Configuration.                                                           *)

\* _build_auto_shards: groups of one primary and its replicas, in list order.
ReplicasPerShard == IF config.mirroring THEN config.replicas_per_shard ELSE 0
GroupSize == 1 + ReplicasPerShard
Group(first, last) ==
  [primary |-> first, replicas |-> [i \in 1..(last - first) |-> first + i]]

Shards ==
  IF ~config.sharding THEN <<Group(1, IF config.mirroring THEN Databases ELSE 1)>>
  ELSE [s \in 1..(Databases \div GroupSize) |->
          Group((s - 1) * GroupSize + 1, s * GroupSize)]

\* An uneven list is a configuration error: the router is not installed.
Configured == config.sharding => Databases % GroupSize = 0

\* _shard_for_value: the number of the key's shard, NoDatabase when none covers it.
ShardOf(key) ==
  CASE config.strategy = "modulo" -> (key % Len(Shards)) + 1
    [] config.strategy = "hash"   -> (Hash[key] % Len(Shards)) + 1
    [] config.strategy = "custom" -> IF Custom[key] \in DOMAIN Shards THEN Custom[key] ELSE NoDatabase
    [] config.strategy = "range"  ->
         LET covering == { s \in DOMAIN Shards : key \in config.ranges[s] } IN
         IF covering = {} THEN NoDatabase ELSE CHOOSE s \in covering : \A r \in covering : s <= r

ShardInit ==
  /\ config \in Configs
  /\ Configured
  /\ up = [d \in AllHosts |-> TRUE]
  /\ store = [d \in AllHosts |-> [k \in ShardKeys |-> 0]]
  /\ cached = [p \in Processes |-> [d \in Hosts |-> "unknown"]]
  /\ position = [p \in Processes |-> [s \in DOMAIN Shards |-> 0]]
  /\ scopes = [p \in Processes |-> <<>>]
  /\ readBack = NothingRead
  /\ writes = 0 /\ shardFaults = 0

--------------------------------------------------------------------------------
(* Health.                                                                  *)

\* is_alive: a probe is believed until it expires.
IsAlive(p, d) == IF cached[p][d] = "unknown" THEN up[d] ELSE cached[p][d] = "up"

Probed(p, ds) ==
  cached' = [cached EXCEPT ![p] =
    [d \in Hosts |-> IF d \in ds THEN (IF IsAlive(p, d) THEN "up" ELSE "down") ELSE @[d]]]

ExpireProbe(p, d) ==
  /\ cached[p][d] # "unknown"
  /\ cached' = [cached EXCEPT ![p][d] = "unknown"]
  /\ UNCHANGED <<config, up, store, position, scopes, readBack, writes, shardFaults>>

Fail(d) ==
  /\ up[d] /\ shardFaults < MaxShardFaults
  /\ up' = [up EXCEPT ![d] = FALSE]
  /\ shardFaults' = shardFaults + 1
  /\ UNCHANGED <<config, store, cached, position, scopes, readBack, writes>>

Return(d) ==
  /\ ~up[d]
  /\ up' = [up EXCEPT ![d] = TRUE]
  /\ UNCHANGED <<config, store, cached, position, scopes, readBack, writes, shardFaults>>

\* Replication brings a replica to its primary's version, late (external).
Replicate(s, d, k) ==
  /\ d \in Range(Shards[s].replicas)
  /\ up[d] /\ up[Shards[s].primary]
  /\ store[d][k] # store[Shards[s].primary][k]
  /\ store' = [store EXCEPT ![d][k] = store[Shards[s].primary][k]]
  /\ UNCHANGED <<config, up, cached, position, scopes, readBack, writes, shardFaults>>

--------------------------------------------------------------------------------
(* Scopes: snap_master_only and snap_target set a context variable and put  *)
(* back the value before theirs.                                            *)

Scope(p) == IF scopes[p] = <<>> THEN NoScope ELSE Last(scopes[p])
Targeted(p) == Scope(p).shard # 0

Forgets(p) == readBack' = IF readBack.process = p THEN NothingRead ELSE readBack

Enter(p, scope) ==
  /\ Len(scopes[p]) < MaxDepth
  /\ scopes' = [scopes EXCEPT ![p] = Append(@, [scope EXCEPT !.own = NothingWritten])]
  /\ Forgets(p)
  /\ UNCHANGED <<config, up, store, cached, position, writes, shardFaults>>

MasterOnly(p) == Enter(p, [Scope(p) EXCEPT !.master = TRUE])
Target(p, s, replica) == Enter(p, [Scope(p) EXCEPT !.shard = s, !.replica = replica])

Exit(p) ==
  /\ scopes[p] # <<>>
  /\ scopes' = [scopes EXCEPT ![p] = Front(@)]
  /\ Forgets(p)
  /\ UNCHANGED <<config, up, store, cached, position, writes, shardFaults>>

--------------------------------------------------------------------------------
(* Routing.                                                                 *)

FirstOf(ds, replicas) == LET i == CHOOSE i \in DOMAIN replicas :
                                    /\ replicas[i] \in ds
                                    /\ \A j \in 1..(i - 1) : replicas[j] \notin ds
                         IN replicas[i]

Live(p, shard) == { d \in Range(shard.replicas) : IsAlive(p, d) }

\* _write_alias, and the databases it probes on the way.
WriteAlias(p, shard) ==
  IF ~config.auto_failover \/ IsAlive(p, shard.primary) \/ Live(p, shard) = {}
  THEN shard.primary
  ELSE FirstOf(Live(p, shard), shard.replicas)

WriteProbes(p, shard) ==
  IF ~config.auto_failover THEN {}
  ELSE IF IsAlive(p, shard.primary) THEN {shard.primary}
  ELSE IF Live(p, shard) = {} THEN {shard.primary} \union Range(shard.replicas)
  ELSE {shard.primary} \union { shard.replicas[i] : i \in
         { i \in DOMAIN shard.replicas : \A j \in 1..(i - 1) : shard.replicas[j] \notin Live(p, shard) } }

\* _round_robin_pick: the offset of the next live replica.
Offset(p, s) ==
  LET n == Len(Shards[s].replicas)
      pick(o) == Shards[s].replicas[((position[p][s] + o) % n) + 1]
  IN CHOOSE o \in 0..(n - 1) : /\ pick(o) \in Live(p, Shards[s])
                               /\ \A q \in 0..(o - 1) : pick(q) \notin Live(p, Shards[s])
Picked(p, s) ==
  LET n == Len(Shards[s].replicas) IN (position[p][s] + Offset(p, s)) % n

\* _read_alias: the databases a read of shard s may go to.
ReadAliases(p, s) ==
  LET shard == Shards[s] IN
  CASE shard.replicas = <<>> -> {shard.primary}
    [] shard.replicas # <<>> /\ Live(p, shard) = {} ->
         {IF config.fallback THEN shard.primary ELSE NoDatabase}
    [] OTHER ->
         CASE config.selection = "random" -> Live(p, shard)
           [] config.selection = "first_available" -> {FirstOf(Live(p, shard), shard.replicas)}
           [] config.selection = "round_robin" -> {shard.replicas[Picked(p, s) + 1]}

TurnsRound(p, s) ==
  /\ Live(p, Shards[s]) # {}
  /\ config.selection = "round_robin"

\* _shard_for speaks only of a query that carries the key; the target of a scope
\* comes first, and no opinion of any router means the default database.
\* db_for_write: the primary of the target, or of the shard in a master-only
\* scope; otherwise the primary or the replica promoted in its place.
RouteWrite(p, k, keyed) ==
  IF Targeted(p) THEN Shards[Scope(p).shard].primary
  ELSE IF ~keyed THEN DefaultDatabase
  ELSE IF ShardOf(k) = NoDatabase THEN NoDatabase
  ELSE IF Scope(p).master THEN Shards[ShardOf(k)].primary
  ELSE WriteAlias(p, Shards[ShardOf(k)])

\* Mutant: a master-only scope routes writes alone.
RouteReadAnywhere(p, k, keyed) ==
  IF Targeted(p) THEN IF Scope(p).replica THEN ReadAliases(p, Scope(p).shard)
                      ELSE {Shards[Scope(p).shard].primary}
  ELSE IF ~keyed THEN {DefaultDatabase}
  ELSE IF ShardOf(k) = NoDatabase THEN {NoDatabase} ELSE ReadAliases(p, ShardOf(k))

\* db_for_read
RouteRead(p, k, keyed) ==
  IF Targeted(p) THEN IF Scope(p).replica THEN ReadAliases(p, Scope(p).shard)
                      ELSE {Shards[Scope(p).shard].primary}
  ELSE IF ~keyed THEN {DefaultDatabase}
  ELSE IF ShardOf(k) = NoDatabase THEN {NoDatabase}
  ELSE IF Scope(p).master THEN {Shards[ShardOf(k)].primary}
  ELSE ReadAliases(p, ShardOf(k))

UsesReplicas(p) == IF Targeted(p) THEN Scope(p).replica ELSE ~Scope(p).master

\* A target routes what carries the key and what does not alike.
Way(p, keyed) == keyed \/ Targeted(p)

Noted(scope, way, k) == [scope EXCEPT !.own[way][k] = writes + 1]

\* save() of an instance carries the key; create(), and update() of the rows of a
\* query, do not.
Save(p, k, keyed) ==
  /\ writes < MaxWrites
  /\ LET d == RouteWrite(p, k, keyed)
         free == keyed /\ ~Targeted(p) /\ ShardOf(k) # NoDatabase /\ ~Scope(p).master
     IN /\ Probed(p, IF free THEN WriteProbes(p, Shards[ShardOf(k)]) ELSE {})
        /\ IF d # NoDatabase /\ up[d]
           THEN /\ store' = [store EXCEPT ![d][k] = writes + 1]
                /\ scopes' = IF scopes[p] = <<>> THEN scopes
                             ELSE [scopes EXCEPT ![p][Len(scopes[p])] = Noted(@, Way(p, keyed), k)]
                /\ writes' = writes + 1
           ELSE UNCHANGED <<store, scopes, writes>>   \* the query raises
  /\ Forgets(p)
  /\ UNCHANGED <<config, up, position, shardFaults>>

\* refresh_from_db() carries the key; objects.get(id=...) does not.
GetRow(p, k, keyed) ==
  \E d \in RouteRead(p, k, keyed) :
    LET s == IF Targeted(p) THEN Scope(p).shard ELSE IF keyed THEN ShardOf(k) ELSE NoDatabase
        balanced == UsesReplicas(p) /\ s # NoDatabase /\ Shards[s].replicas # <<>>
    IN /\ Probed(p, IF balanced THEN Range(Shards[s].replicas) ELSE {})
       /\ position' = IF balanced /\ TurnsRound(p, s)
                      THEN [position EXCEPT ![p][s] = (Picked(p, s) + 1) % Len(Shards[s].replicas)]
                      ELSE position
       /\ readBack' = IF d # NoDatabase /\ up[d]
                    THEN [process |-> p, key |-> k, keyed |-> keyed, version |-> store[d][k]]
                    ELSE NothingRead
       /\ UNCHANGED <<config, up, store, scopes, writes, shardFaults>>

ShardNext ==
  \/ \E p \in Processes, k \in ShardKeys, keyed \in BOOLEAN : Save(p, k, keyed) \/ GetRow(p, k, keyed)
  \/ \E p \in Processes : MasterOnly(p) \/ Exit(p)
  \/ \E p \in Processes, s \in DOMAIN Shards, replica \in BOOLEAN : Target(p, s, replica)
  \/ \E p \in Processes, d \in Hosts : ExpireProbe(p, d)
  \/ \E d \in AllHosts : Fail(d) \/ Return(d)
  \/ \E s \in DOMAIN Shards, d \in Hosts, k \in ShardKeys : Replicate(s, d, k)

ShardSpec == ShardInit /\ [][ShardNext]_shardVars

--------------------------------------------------------------------------------
(* Properties.                                                              *)

\* The types of the variables.
ShardTypeOK ==
  /\ config \in Configs
  /\ up \in [AllHosts -> BOOLEAN]
  /\ store \in [AllHosts -> [ShardKeys -> 0..MaxWrites]]
  /\ \A p \in Processes : Len(scopes[p]) <= MaxDepth
  /\ readBack.version \in 0..MaxWrites

ReadIn(p) == readBack.process = p /\ scopes[p] # <<>>

\* In a scope pinned to a primary (snap_master_only, or snap_target without
\* replica) a read finds at least what was written in that scope the same way,
\* with the key or without, and under a target either way: however late
\* replication is, whichever databases fail and return, whatever stale probes
\* say, and whatever scopes were opened and left inside it.
ScopeReadsOwn ==
  \A p \in Processes : ReadIn(p) /\ ~UsesReplicas(p)
    => readBack.version >= Scope(p).own[Way(p, readBack.keyed)][readBack.key]

\* What decorators.py says of snap_master_only, that objects.get(id=...) sees the
\* scope's own just-written data: a row saved by its instance is on its shard, and
\* the query looks for it in the default database.
MasterReadsOwn ==
  \A p \in Processes : ReadIn(p) /\ Scope(p).master /\ ~readBack.keyed
    => readBack.version >= Scope(p).own[TRUE][readBack.key]
================================================================================
