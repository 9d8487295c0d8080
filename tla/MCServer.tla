------------------------------ MODULE MCServer ------------------------------
(***************************************************************************)
(* The parts of the server, each on a small instance.  They do not share   *)
(* variables, so that one part is active in a behaviour.                   *)
(***************************************************************************)
EXTENDS Integers, Sequences, FiniteSets, SequencesExt

CONSTANT NoCode   \* Roma has no code object for a version

\* Three configs after the default one, for two workers that load them together, or
\* two for one worker beside a request; two have the same version
CodeConfig(t, v, h) == [time |-> t, version |-> v, handler |-> h]
UdfShare == [w1 |-> <<CodeConfig(1, 2, "f"), CodeConfig(3, 3, "g")>>,
             w2 |-> <<CodeConfig(2, 2, "g")>>]
UdfShareOfOne == [w1 |-> UdfShare["w1"]]
UdfDefault == CodeConfig(0, 1, "handleRequest")

\* The server of shard 0, with two shards, two replicas of shard 1 and an
\* instance of a group beyond the number of shards
LookupKeys == {"k0", "k1"}
LookupShardOf == [k \in LookupKeys |-> IF k = "k0" THEN 0 ELSE 1]
LookupInstances == {"ip0", "ip1a", "ip1b", "ip2"}
LookupGroupOf == [i \in LookupInstances |-> CASE i = "ip0" -> 0 [] i = "ip2" -> 2 [] OTHER -> 1]

\* Every kind of call, for no key or two, beside a secure lookup of one; the ids of
\* the two key pairs (1 and 257) have the same last byte
ServiceRequests ==
    [c1 |-> [kind : {"values", "sets", "query", "hook", "plain"}, keys : {{}, LookupKeys}],
     c2 |-> {[kind |-> "sets", keys |-> {"k1"}]}]

\* Three sets such that the three operators differ on every two of them
QueryData == [a |-> {1, 2, 3}, b |-> {3, 4, 1}, c |-> {2, 3, 5}]

\* Requests for two keys in up to three namespaces, alone and in a list, and
\* one for the internal namespace
NoKeys == [n \in {"keys", "renderUrls", "adComponentRenderUrls", "kvInternal"} |-> <<>>]
V1Requests ==
    {[NoKeys EXCEPT !.keys = a, !.renderUrls = b, !.adComponentRenderUrls = b] :
        a \in {<<>>, <<<<"k1">>, <<"k2">>>>, <<<<"k1", "k2">>>>}, b \in {<<>>, <<<<"k2">>>>}}
    \cup {[NoKeys EXCEPT !.kvInternal = <<<<"k1", "k2">>, <<"k1">>>>]}

\* Up to three partitions, with two compression groups, without keys or without
\* a usable group
V2Partitions == SeqOf([group : {"g1", "g2", "missing", "text"}, keyGroups : BOOLEAN], 3)

\* Up to three groups, among them one whose size does not fit when it is
\* compressed
CompressionGroups == SeqOf({<<>>, <<1>>, <<1, 2>>, <<2, 2, 1>>, <<1, 2, 1, 2, 1, 2, 1>>}, 3)

\* A parameter of each kind that is missing, empty, false or garbled, early and
\* late in start-up, and a missing tag
Builds == {[platform |-> p, instance |-> p] : p \in {"aws", "gcp", "local"}}
SomethingBad ==
    {[name |-> "none", text |-> ""]}
    \cup [name : {"launch-hook", "udf-num-workers", "use-real-coordinators",
                  "realtime-updater-num-threads"},
          text : {"", "EMPTY_STRING", "false", "junk"}]
    \cup [name : {"environment tag", "shard-num", "project-id"}, text : {""}]

-----------------------------------------------------------------------------
\* The part that runs, and its variables in the order of its module.
VARIABLES active, v1, v2, v3, v4, v5, v6, v7, v8, v9, v10, v11, v12

vars == <<active, v1, v2, v3, v4, v5, v6, v7, v8, v9, v10, v11, v12>>

Udf == INSTANCE UdfClient
    WITH Workers <- {"w1"}, Share <- UdfShareOfOne, Default <- UdfDefault, Calls <- {"c1"},
         NoCode <- NoCode, handler_name <- v1, logical_commit_time <- v2, version <- v3,
         running <- v4, loaded <- v5, loads <- v6, note <- v7, setter <- v8, mixed <- v9,
         call <- v10

Loaders == INSTANCE UdfClient
    WITH Workers <- {"w1", "w2"}, Share <- UdfShare, Default <- UdfDefault, Calls <- {},
         NoCode <- NoCode, handler_name <- v1, logical_commit_time <- v2, version <- v3,
         running <- v4, loaded <- v5, loads <- v6, note <- v7, setter <- v8, mixed <- v9,
         call <- v10

Lookup == INSTANCE ShardedLookup
    WITH NumShards <- 2, CurrentShard <- 0, Keys <- LookupKeys,
         ShardOf <- LookupShardOf, Stored <- {"k1"}, Instances <- LookupInstances,
         GroupOf <- LookupGroupOf, MaxChanges <- 2, in_service <- v1, changes <- v2,
         cluster_mappings <- v3, remote_lookup_clients <- v4, manager <- v5,
         lookup <- v6

Service == INSTANCE LookupService
    WITH Calls <- {"c1", "c2"}, Keys <- LookupKeys, Requests <- ServiceRequests,
         Stored <- {"k1"}, KeyIds <- {1, 257}, NoKey <- 0, MaxUpdates <- 1,
         MaxRotations <- 1, data <- v1, updates <- v2, public <- v3, private <- v4,
         rotations <- v5, lookup <- v6, rpc <- v7

Query == INSTANCE Query
    WITH Keys <- {"a", "b", "c"}, Data <- QueryData, MaxTokens <- 6, tokens <- v1,
         symbols <- v2, nodes <- v3, ast <- v4, status <- v5, todo <- v6, order <- v7,
         sets <- v8, phase <- v9

V1 == INSTANCE GetValuesV1
    WITH Keys <- {"k1", "k2"}, Values <- {"json", "text"}, JsonValues <- {"json"},
         Requests <- V1Requests, Routes <- {"v1", "v2"}, None <- "none",
         MaxUpdates <- 1, route <- v1, request <- v2, cache <- v3, updates <- v4,
         seen <- v5, lookup <- v6, pc <- v7, left <- v8, outputs <- v9, regular <- v10,
         response <- v11, status <- v12

V2 == INSTANCE GetValuesV2
    WITH Partitions <- V2Partitions, Retained <- 1, MaxKeys <- 2, rpc <- v1, body <- v2,
         partitions <- v3, brotli <- v4, key <- v5, keys <- v6, pc <- v7, next <- v8,
         groups <- v9, tried <- v10, http <- v11, answer <- v12

Compression == INSTANCE Compression
    WITH Groups <- CompressionGroups, Types <- {"brotli", "uncompressed"}, SizeBytes <- 2,
         Base <- 3, Begin <- 8, End <- 9, type <- v1, groups <- v2, built <- v3, blob <- v4,
         arrived <- v5, phase <- v6, extracted <- v7, status <- v8, decoder <- v9

Aws == INSTANCE RealtimeAws
    WITH NumThreads <- 2, Messages <- {"m1"}, Unparsable <- {}, MaxQueues <- 2,
         MaxDeletions <- 2, MaxGivenUp <- 1, MaxUndeleted <- 1, svc <- v1,
         created <- v2, existing <- v3, subscribed <- v4, inbox <- v5, published <- v6,
         delivered <- v7, undeleted <- v8, thread <- v9, main <- v10

Cleanup == INSTANCE SqsCleanup
    WITH Servers <- {"s1", "s2"}, Timeout <- 5, TagEvery <- 2, PollEvery <- 1,
         MaxTagFailures <- 1, server <- v1, queue <- v2, subs <- v3, age <- v4,
         job <- v5, unseen <- v6

Gcp == INSTANCE RealtimeGcp
    WITH Messages <- {"m1", "m2", "m3"}, Undecodable <- {"m3"}, NumThreads <- 2,
         main <- v1, watcher <- v2, session <- v3, woken <- v4, handler <- v5,
         applied <- v6, acked <- v7

Lifecycle == INSTANCE ServerLifecycle
    WITH Servers <- {"s1"}, HookTimeout <- 4, Interval <- 1, MaxLostBeats <- 1,
         MaxFailures <- 1, pc <- v1, asg <- v2, age <- v3, beat <- v4, running <- v5,
         hooks <- v6, map <- v7, up <- v8, failures <- v9

Config == INSTANCE CloudConfig
    WITH Builds <- Builds, Bad <- SomethingBad, MaxFailures <- 1, build <- v1,
         bad <- v2, fixed <- v3, step <- v4, pc <- v5, answer <- v6, got <- v7,
         cache <- v8, heart <- v9, failures <- v10

ASSUME PartsAssumption ==
    /\ Udf!UdfAssumption /\ Loaders!UdfAssumption
    /\ Lookup!ShardedAssumption
    /\ Service!ServiceAssumption
    /\ Query!QueryAssumption
    /\ V1!V1Assumption
    /\ V2!V2Assumption
    /\ Compression!CompressionAssumption
    /\ Aws!RealtimeAwsAssumption
    /\ Cleanup!CleanupAssumption
    /\ Lifecycle!LifecycleAssumption
    /\ Config!ConfigAssumption

Init ==
    \/ active = "udf" /\ Udf!Init /\ v11 = 0 /\ v12 = 0
    \/ active = "loaders" /\ Loaders!Init /\ v11 = 0 /\ v12 = 0
    \/ active = "lookup" /\ Lookup!Init /\ v7 = 0 /\ v8 = 0 /\ v9 = 0 /\ v10 = 0 /\ v11 = 0
       /\ v12 = 0
    \/ active = "service" /\ Service!Init /\ v8 = 0 /\ v9 = 0 /\ v10 = 0 /\ v11 = 0
       /\ v12 = 0
    \/ active = "query" /\ Query!Init /\ v10 = 0 /\ v11 = 0 /\ v12 = 0
    \/ active = "v1" /\ V1!Init
    \/ active = "v2" /\ V2!Init
    \/ active = "compression" /\ Compression!Init /\ v10 = 0 /\ v11 = 0 /\ v12 = 0
    \/ active = "aws" /\ Aws!Init /\ v11 = 0 /\ v12 = 0
    \/ active = "cleanup" /\ Cleanup!Init /\ v7 = 0 /\ v8 = 0 /\ v9 = 0 /\ v10 = 0
       /\ v11 = 0 /\ v12 = 0
    \/ active = "gcp" /\ Gcp!Init /\ v8 = 0 /\ v9 = 0 /\ v10 = 0 /\ v11 = 0 /\ v12 = 0
    \/ active = "lifecycle" /\ Lifecycle!Init /\ v10 = 0 /\ v11 = 0 /\ v12 = 0
    \/ active = "config" /\ Config!Init /\ v11 = 0 /\ v12 = 0

Next ==
    \/ active = "udf" /\ Udf!Next /\ UNCHANGED <<active, v11, v12>>
    \/ active = "loaders" /\ Loaders!Next /\ UNCHANGED <<active, v11, v12>>
    \/ active = "lookup" /\ Lookup!Next /\ UNCHANGED <<active, v7, v8, v9, v10, v11, v12>>
    \/ active = "service" /\ Service!Next /\ UNCHANGED <<active, v8, v9, v10, v11, v12>>
    \/ active = "query" /\ Query!Next /\ UNCHANGED <<active, v10, v11, v12>>
    \/ active = "v1" /\ V1!Next /\ UNCHANGED active
    \/ active = "v2" /\ V2!Next /\ UNCHANGED active
    \/ active = "compression" /\ Compression!Next /\ UNCHANGED <<active, v10, v11, v12>>
    \/ active = "aws" /\ Aws!Next /\ UNCHANGED <<active, v11, v12>>
    \/ active = "cleanup" /\ Cleanup!Next
       /\ UNCHANGED <<active, v7, v8, v9, v10, v11, v12>>
    \/ active = "gcp" /\ Gcp!Next /\ UNCHANGED <<active, v8, v9, v10, v11, v12>>
    \/ active = "lifecycle" /\ Lifecycle!Next /\ UNCHANGED <<active, v10, v11, v12>>
    \/ active = "config" /\ Config!Next /\ UNCHANGED <<active, v11, v12>>

Spec == Init /\ [][Next]_vars

-----------------------------------------------------------------------------
(* Properties *)

\* ExecuteCode answers with what its own invocation returned, also when answers of
\* earlier invocations come after their timeout.  Whatever workers call SetCodeObject
\* together, Roma has the version in use; and between calls, handler name, commit
\* time and version belong to one config unless calls that stored overlapped.
UdfIsConsistent ==
    /\ active = "udf" => Udf!TypeOK /\ Udf!AnswerIsOwn /\ Udf!CodeIsThere /\ Udf!FieldsAgree
    /\ active = "loaders" => Loaders!TypeOK /\ Loaders!CodeIsThere /\ Loaders!FieldsAgree

\* A sharded lookup answers every key and never reports a stored one as not found,
\* whatever replicas come and go and whichever requests fail; a key gets an error only
\* if the request to its own shard failed.  A set lookup succeeds only with the answers
\* of all shards.  All requests have the same length, and each uses a client that the
\* shard manager still has.  A secure call fails only for want of a key, a connection
\* or a server, whatever keys change and whatever calls run beside it; lookups and
\* queries return what was stored during the call.
LookupsAreTrue ==
    /\ active = "lookup" =>
           /\ Lookup!TypeOK
           /\ Lookup!StoredKeysAreNotMissing
           /\ Lookup!SetsAllOrNothing
           /\ Lookup!SameLength
           /\ Lookup!ClientsOutliveRequests
    /\ active = "service" =>
           /\ Service!TypeOK
           /\ Service!ExchangesMatch
           /\ Service!AnswersWereStored
           /\ Service!QueriesSeeSets

\* A query that is parsed evaluates to the set it means, from sets that were all
\* looked up before, and one is rejected only for a token that is misplaced.  Only a
\* query without tokens crashes the server.
QueriesAreRight ==
    active = "query" =>
        /\ Query!TypeOK
        /\ Query!ResultIsMeant
        /\ Query!RejectedForAToken
        /\ Query!CrashesWithoutTokens
        /\ Query!KeysCoverEvaluation

\* A V1 response has values that were stored during the request, one for each key
\* that had one all the time.  A V2 response has the output of every partition that
\* has one, once and in order; no partition that fails keeps the UDF from another.
RequestsAreAnswered ==
    /\ active = "v1" => V1!TypeOK /\ V1!ValuesWereStored /\ V1!StoredKeysFound
    /\ active = "v2" => V2!TypeOK /\ V2!OutputsComplete /\ V2!EveryPartitionTried

\* The reader extracts the first of the compression groups that were added, and all
\* of them from a whole blob; a group that was cut is an error.
GroupsAreExtracted ==
    active = "compression" =>
        /\ Compression!TypeOK
        /\ Compression!ExtractedAreGroups
        /\ Compression!CutGroupIsError

\* The SQS service never mixes two queues and is set up only when its queue is
\* subscribed; a message reaches the callback again only for another queue or a
\* deletion that failed.  A Pub/Sub message is acknowledged only after the callback
\* had it.
RealtimeUpdatesAreKept ==
    /\ active = "aws" =>
           /\ Aws!TypeOK
           /\ Aws!SetUpQueueIsSubscribed
           /\ Aws!NoNeedlessRedelivery
    /\ active = "gcp" => Gcp!TypeOK /\ Gcp!AckedWereApplied

\* The clean-up job never takes the queue of a server that sets it up or polls it in
\* time, and its subscription only after a look-up of its queue failed.
UsedQueueIsKept ==
    active = "cleanup" => Cleanup!TypeOK /\ Cleanup!UsedQueueIsKept

\* The group never gets a reason to give up a server that is starting; a server is in
\* service only with its data, its threads and all hooks, or, when its Init has failed,
\* just before it aborts; none of its threads is left after shutdown.  A parameter that
\* start-up goes on with was in the store and could be parsed, and the main and the
\* heartbeat thread never race for the cached id of the AWS instance.
StartUpIsSafe ==
    /\ active = "lifecycle" =>
           /\ Lifecycle!TypeOK
           /\ Lifecycle!StartingServerIsKept
           /\ Lifecycle!InServiceIsReady
           /\ Lifecycle!ShutdownStopsAll
    /\ active = "config" =>
           /\ Config!TypeOK
           /\ Config!NoRaceOnInstanceId
           /\ Config!ValuesWereStored

\* No call of SetCodeObject that runs alone stores a config that is not newer than the
\* one in use.  No step creates the shard manager without a replica of every shard, or
\* makes the failure of a part of an encrypted V2 request the failure of the call.
NoForbiddenStep ==
    [][/\ active = "loaders" => Loaders!SoleUpdateIsForward
       /\ active = "lookup" => Lookup!ReplicaOfEveryShardFirst
       /\ active = "v2" => V2!ErrorsAreInside]_vars
=============================================================================
