--------------------------- MODULE ShardedLookup ----------------------------
(***************************************************************************)
(* Lookups of a server whose data is sharded                               *)
(* (components/internal_server), the replicas they are sent to             *)
(* (components/sharding/shard_manager.cc) and the thread that keeps the    *)
(* list of replicas up to date (cluster_mappings_manager.cc).              *)
(*                                                                         *)
(* An instance is known by its address.  A request that was sent may fail  *)
(* at any time; encryption, gRPC and the cloud's instance API are external.*)
(* A string is a sequence of units.                                        *)
(***************************************************************************)
EXTENDS Integers, Sequences, FiniteSets, SequencesExt

CONSTANTS NumShards,   \* num_shards
          CurrentShard,\* current_shard_num of the server modelled
          Keys,
          ShardOf,     \* the sharding function
          Stored,      \* the keys that have a value, in the cache of their shard
          Instances,   \* addresses of the instances the cloud knows
          GroupOf,     \* shard number in the name of an instance's group
          MaxChanges   \* bound: how often an instance enters or leaves service, or
                       \* the server crashes

Shards == 0 .. NumShards - 1

ShardedAssumption ==
    /\ NumShards \in Nat /\ NumShards > 1 /\ CurrentShard \in Shards
    /\ ShardOf \in [Keys -> Shards] /\ Stored \subseteq Keys
    /\ GroupOf \in [Instances -> Nat] /\ MaxChanges \in Nat

VARIABLES in_service,  \* instances in service
          changes,
          cluster_mappings, remote_lookup_clients,   \* ShardManager
          manager,     \* the thread: pc, what the cloud answered, stop
          lookup       \* the lookup in progress

env == <<in_service, changes>>
shard_manager == <<cluster_mappings, remote_lookup_clients>>
vars == <<in_service, changes, cluster_mappings, remote_lookup_clients, manager, lookup>>

NoMappings == [s \in Shards |-> {}]
NewManager == [pc |-> "groups", created |-> FALSE, stop |-> FALSE,
               found |-> {}, mappings |-> NoMappings]
Idle == [pc |-> "idle", kind |-> "values", keys |-> {}, shard |-> 0,
         request |-> <<>>, response |-> <<>>]

Init ==
    /\ in_service \in SUBSET Instances
    /\ changes = 0
    /\ cluster_mappings = NoMappings
    /\ remote_lookup_clients = {}
    /\ manager = NewManager
    /\ lookup = Idle

-----------------------------------------------------------------------------
(* ClusterMappingsManager *)

\* Instances enter and leave service.
ServiceChange(i) ==
    /\ changes < MaxChanges
    /\ changes' = changes + 1
    /\ in_service' = IF i \in in_service THEN in_service \ {i} ELSE in_service \cup {i}
    /\ UNCHANGED <<shard_manager, manager, lookup>>

\* GetClusterMappings, first call: the instances of the groups, of which only
\* those in service count.
DescribeGroups ==
    /\ manager.pc = "groups"
    /\ manager' = [manager EXCEPT !.pc = "describe", !.found = in_service]
    /\ UNCHANGED <<env, shard_manager, lookup>>

\* Mutant: shards are counted from 1.
MappingsFromOne(ips) == [s \in Shards |-> {i \in ips : GroupOf[i] = s + 1}]

\* Addresses by shard; groups of other shards are skipped.
GroupInstancesToClusterMappings(ips) == [s \in Shards |-> {i \in ips : GroupOf[i] = s}]

\* Second call: the addresses of the instances found.  One that has meanwhile
\* been terminated has none.
DescribeInstances ==
    /\ manager.pc = "describe"
    /\ \E gone \in SUBSET (manager.found \ in_service) :
          manager' = [manager EXCEPT
                        !.pc = IF manager.created THEN "insert" ELSE "create", !.found = {},
                        !.mappings = GroupInstancesToClusterMappings(manager.found \ gone)]
    /\ UNCHANGED <<env, shard_manager, lookup>>

\* Mutant: clients of replicas that are no longer listed are removed.
OnlyListedClients(mappings) == UNION {mappings[s] : s \in Shards}

ClientsFor(mappings) == remote_lookup_clients \cup UNION {mappings[s] : s \in Shards}

InsertBatch(mappings) ==
    /\ cluster_mappings' = mappings
    /\ remote_lookup_clients' = ClientsFor(mappings)

\* Mutant: mappings are not validated.
AnyMapping(mappings) == TRUE

ValidateMapping(mappings) == \A s \in Shards : mappings[s] # {}

\* ShardManager::Create, called by the server with new mappings until it
\* succeeds.  Then the thread is started.
Create ==
    /\ manager.pc = "create"
    /\ IF ValidateMapping(manager.mappings)
       THEN /\ InsertBatch(manager.mappings)
            /\ manager' = [manager EXCEPT !.pc = "loop", !.created = TRUE,
                                               !.mappings = NoMappings]
       ELSE /\ manager' = [manager EXCEPT !.pc = "groups"]
            /\ UNCHANGED shard_manager
    /\ UNCHANGED <<env, lookup>>

\* Mutant: nobody sets should_stop_.
IgnoresStop == FALSE

ShouldStop == manager.stop

\* Watch: the loop condition, the sleep (cut short by Stop), the update.
CheckStop ==
    /\ manager.pc = "loop"
    /\ manager' = [manager EXCEPT !.pc = IF ShouldStop THEN "stopped" ELSE "sleep"]
    /\ UNCHANGED <<env, shard_manager, lookup>>

SleepEnds ==
    /\ manager.pc = "sleep"
    /\ manager' = [manager EXCEPT !.pc = "groups"]
    /\ UNCHANGED <<env, shard_manager, lookup>>

Insert ==
    /\ manager.pc = "insert"
    /\ InsertBatch(manager.mappings)
    /\ manager' = [manager EXCEPT !.pc = "loop", !.mappings = NoMappings]
    /\ UNCHANGED <<env, lookup>>

Stop ==
    /\ manager.created /\ ~manager.stop
    /\ manager' = [manager EXCEPT !.stop = TRUE]
    /\ UNCHANGED <<env, shard_manager, lookup>>

Watch == DescribeGroups \/ DescribeInstances \/ Create \/ CheckStop \/ SleepEnds \/ Insert

-----------------------------------------------------------------------------
(* The requests *)

Serialize(keys, sets) == SetToSeq(keys) \o (IF sets THEN <<"lookup_sets">> ELSE <<>>)

\* string_padder.cc: the length, the string, the padding.
Pad(string, padding) == <<Len(string)>> \o string \o [i \in 1 .. padding |-> "0"]
Unpad(padded) == SubSeq(padded, 2, 1 + padded[1])

BucketKeys(keys) == [s \in Shards |-> {k \in keys : ShardOf[k] = s}]

\* Mutant: requests are padded to the length of the first one.
PadToFirst(strings, s) ==
    IF Len(strings[0]) > Len(strings[s]) THEN Len(strings[0]) - Len(strings[s]) ELSE 0

ComputePadding(strings, s) ==
    LET longest == CHOOSE n \in {Len(strings[t]) : t \in Shards} :
                      \A t \in Shards : Len(strings[t]) <= n
    IN longest - Len(strings[s])

\* ShardKeys: what is sent to each shard.
ShardKeys(keys, sets) ==
    LET strings == [s \in Shards |-> Serialize(BucketKeys(keys)[s], sets)]
    IN [s \in Shards |-> Pad(strings[s], ComputePadding(strings, s))]

\* LocalLookup on the server of a shard: its cache has the keys of its shard.
LocalLookup(keys, shard) ==
    [k \in keys |-> IF k \in Stored /\ ShardOf[k] = shard THEN "value" ELSE "not_found"]

\* LookupServiceImpl::SecureLookup: unpad, parse, look up.  Without keys the
\* response stays empty.
SecureLookup(padded, shard) ==
    LET units == Unpad(padded)
    IN LocalLookup({k \in Keys : \E i \in DOMAIN units : units[i] = k}, shard)

-----------------------------------------------------------------------------
(* ShardedLookup *)

Sets(kind) == kind \in {"sets", "query"}

\* GetKeyValues, GetKeyValueSet and RunQuery.  The first two return at once
\* when there are no keys, the last one when the query is empty or malformed.
Begin(kind, keys) ==
    /\ manager.created /\ lookup.pc = "idle"
    /\ lookup' = IF keys = {} /\ kind # "query"
                 THEN [Idle EXCEPT !.pc = "ok", !.kind = kind]
                 ELSE [Idle EXCEPT !.pc = "futures", !.kind = kind, !.keys = keys]
    /\ UNCHANGED <<env, shard_manager, manager>>

MalformedQuery ==
    /\ manager.created /\ lookup.pc = "idle"
    /\ lookup' = [Idle EXCEPT !.pc = "error", !.kind = "query"]
    /\ UNCHANGED <<env, shard_manager, manager>>

EmptyQuery ==
    /\ manager.created /\ lookup.pc = "idle"
    /\ lookup' = [Idle EXCEPT !.pc = "ok", !.kind = "query"]
    /\ UNCHANGED <<env, shard_manager, manager>>

\* A query of blanks only is parsed, and has no root whose keys could be asked for:
\* the server crashes, and a new one takes its place.
BlankQuery ==
    /\ manager.created /\ lookup.pc = "idle"
    /\ changes < MaxChanges /\ changes' = changes + 1
    /\ cluster_mappings' = NoMappings /\ remote_lookup_clients' = {}
    /\ manager' = NewManager
    /\ UNCHANGED <<in_service, lookup>>

\* GetLookupFutures, one round of its loop: the current shard is looked up in
\* a task of this process, for another one ShardManager::Get picks a replica.
\* Without a replica the lookup fails; the tasks already begun are joined.
GetLookupFuture ==
    /\ lookup.pc = "futures"
    /\ LET s == lookup.shard
           sent(to) == lookup' =
               [lookup EXCEPT !.request = Append(@, [to |-> to, state |-> "sent", answer |-> <<>>,
                                  padded |-> ShardKeys(lookup.keys, Sets(lookup.kind))[s]]),
                              !.shard = s + 1,
                              !.pc = IF s + 1 = NumShards THEN "collect" ELSE "futures"]
       IN IF s = CurrentShard THEN sent("local")
          ELSE IF cluster_mappings[s] = {} THEN lookup' = [lookup EXCEPT !.pc = "no_client"]
          ELSE \E i \in cluster_mappings[s] : sent(i)
    /\ UNCHANGED <<env, shard_manager, manager>>

\* The shard a request's server belongs to.
ServerShard(r) == IF lookup.request[r].to = "local" THEN CurrentShard
                  ELSE GroupOf[lookup.request[r].to]

\* The server answers, and the client gets the answer.
Answered(r) ==
    /\ lookup.request[r].state = "sent"
    /\ lookup' = [lookup EXCEPT !.request[r].state = "ok",
                                !.request[r].answer =
                                   SecureLookup(lookup.request[r].padded, ServerShard(r))]
    /\ UNCHANGED <<env, shard_manager, manager>>

\* GetValues fails: encryption, the call, a cancelled context, the response.
RequestFails(r) ==
    /\ lookup.request[r].state = "sent" /\ lookup.request[r].to # "local"
    /\ lookup' = [lookup EXCEPT !.request[r].state = "failed"]
    /\ UNCHANGED <<env, shard_manager, manager>>

AllDone == \A r \in DOMAIN lookup.request : lookup.request[r].state # "sent"
Failed(s) == lookup.request[s + 1].state = "failed"
Found(k) == LET answer == lookup.request[ShardOf[k] + 1].answer
            IN IF k \in DOMAIN answer THEN answer[k] ELSE "not_found"

\* Mutant: the keys of a failed request are reported as not found.
MissingWhenFailed(k) == IF Failed(ShardOf[k]) THEN "not_found" ELSE Found(k)

\* SetRequestFailed and UpdateResponse.
KeyResult(k) == IF Failed(ShardOf[k]) THEN "internal" ELSE Found(k)

\* ProcessShardedKeys, the second loop.
CollectValues ==
    /\ lookup.pc = "collect" /\ ~Sets(lookup.kind) /\ AllDone
    /\ lookup' = [lookup EXCEPT !.pc = "ok",
                                !.response = [k \in lookup.keys |-> KeyResult(k)]]
    /\ UNCHANGED <<env, shard_manager, manager>>

\* Mutant: only a failure of the first request fails the lookup.
FirstFailed == Failed(0)

SomeFailed == \E s \in Shards : Failed(s)

\* GetShardedKeyValueSet and CollectKeySets: one failed request fails it all.
CollectSets ==
    /\ lookup.pc = "collect" /\ Sets(lookup.kind) /\ AllDone
    /\ lookup' = IF SomeFailed THEN [lookup EXCEPT !.pc = "error"]
                 ELSE [lookup EXCEPT !.pc = "ok",
                                     !.response = [k \in lookup.keys |-> Found(k)]]
    /\ UNCHANGED <<env, shard_manager, manager>>

NoClient ==
    /\ lookup.pc = "no_client" /\ AllDone
    /\ lookup' = [lookup EXCEPT !.pc = "error"]
    /\ UNCHANGED <<env, shard_manager, manager>>

Return ==
    /\ lookup.pc \in {"ok", "error"}
    /\ lookup' = Idle
    /\ UNCHANGED <<env, shard_manager, manager>>

Next ==
    \/ \E i \in Instances : ServiceChange(i)
    \/ Watch \/ Stop
    \/ \E kind \in {"values", "sets", "query"}, keys \in SUBSET Keys : Begin(kind, keys)
    \/ MalformedQuery \/ EmptyQuery \/ BlankQuery
    \/ GetLookupFuture
    \/ \E r \in DOMAIN lookup.request : Answered(r) \/ RequestFails(r)
    \/ CollectValues \/ CollectSets \/ NoClient \/ Return

Spec == Init /\ [][Next]_vars

-----------------------------------------------------------------------------
\* Every shard has a place in the mappings and none beyond NumShards, and a
\* lookup never asks more shards than there are.
TypeOK ==
    /\ in_service \subseteq Instances /\ changes \in 0 .. MaxChanges
    /\ cluster_mappings \in [Shards -> SUBSET Instances]
    /\ remote_lookup_clients \subseteq Instances
    /\ manager \in [pc : {"groups", "describe", "create", "insert", "loop", "sleep", "stopped"},
                    created : BOOLEAN, stop : BOOLEAN, found : SUBSET Instances,
                    mappings : [Shards -> SUBSET Instances]]
    /\ lookup.keys \subseteq Keys /\ lookup.shard \in 0 .. NumShards
    /\ Len(lookup.request) <= NumShards

\* A key that is stored is never reported as not found, whatever replicas come
\* and go and whichever requests fail: its value is returned, or an error for
\* the lookup, or an error for the key, which is so only when the request to
\* its own shard failed.  Keys of the other shards are still answered.
StoredKeysAreNotMissing ==
    lookup.pc = "ok" =>
        /\ DOMAIN lookup.response = lookup.keys
        /\ \A k \in lookup.keys :
              /\ lookup.response[k] = "not_found" => k \notin Stored
              /\ lookup.response[k] = "internal" => Failed(ShardOf[k])

\* A set lookup or query succeeds only with the answers of all shards
\* (docs/sharding.md, "if one of the downstream requests fails, then the whole
\* query is failed").
SetsAllOrNothing ==
    (lookup.pc = "ok" /\ Sets(lookup.kind)) =>
        \A r \in DOMAIN lookup.request : lookup.request[r].state = "ok"

\* All requests of a lookup have the same length, so that their sizes do not
\* tell how the keys are spread over the shards.
SameLength ==
    \A r, q \in DOMAIN lookup.request :
        Len(lookup.request[r].padded) = Len(lookup.request[q].padded)

\* A request in flight uses a client that still exists: ShardManager::Get hands
\* out a pointer that is used without the lock while InsertBatch may run.
ClientsOutliveRequests ==
    \A r \in DOMAIN lookup.request :
        lookup.request[r].state = "sent" =>
            lookup.request[r].to \in remote_lookup_clients \cup {"local"}

\* The server does not serve before it has found a replica of every shard.
ReplicaOfEveryShardFirst ==
    ~manager.created /\ manager'.created => \A s \in Shards : cluster_mappings'[s] # {}

\* The instances in service of a shard
Replicas(s) == {i \in in_service : GroupOf[i] = s}

\* The server has the replicas of every shard, unless the thread is stopped, or
\* still waits for a shard that has none.
MappingsAreCurrent ==
    \/ manager.stop
    \/ ~manager.created /\ \E s \in Shards : Replicas(s) = {}
    \/ manager.created /\ \A s \in Shards : cluster_mappings[s] = Replicas(s)

StopAsked == manager.stop
WatchEnded == manager.pc = "stopped"

-----------------------------------------------------------------------------
(* What documentation or comments say.  The code does otherwise, see       *)
(* README.md; these are no properties of the model.                        *)

\* The comment of ShardedLookup::GetKeyValues: "If any underlying request fails
\* -- we return an empty response and `Internal` error as the status".
FailedRequestFailsLookup ==
    lookup.pc = "ok" => \A r \in DOMAIN lookup.request : lookup.request[r].state # "failed"
=============================================================================
