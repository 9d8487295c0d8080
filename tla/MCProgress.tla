----------------------------- MODULE MCProgress -----------------------------
(***************************************************************************)
(* What parts of the server must get done, each on a small instance.       *)
(* They do not share variables, so that one part is active in a behaviour. *)
(* "From some time on" stands for services that recover: calls that fail   *)
(* are repeated without limit.                                             *)
(***************************************************************************)
EXTENDS Integers, Sequences, FiniteSets, SequencesExt

CONSTANT NoCode   \* Roma has no code object for a version

\* A config and its successor, and one that is too old
CodeConfig(t, h) == [time |-> t, version |-> t + 1, handler |-> h]
UdfShare == [w \in {"w1"} |-> <<CodeConfig(2, "f"), CodeConfig(1, "g")>>]
UdfDefault == CodeConfig(0, "handleRequest")

\* Two shards; two replicas of the other shard
LookupShardOf == [k \in {"k1"} |-> 1]
LookupInstances == {"ip0", "ip1a", "ip1b"}
LookupGroupOf == [i \in LookupInstances |-> IF i = "ip0" THEN 0 ELSE 1]

-----------------------------------------------------------------------------
\* The part that runs, and its variables in the order of its module.
VARIABLES active, v1, v2, v3, v4, v5, v6, v7, v8, v9, v10, v11, v12

vars == <<active, v1, v2, v3, v4, v5, v6, v7, v8, v9, v10, v11, v12>>

Udf == INSTANCE UdfClient
    WITH Workers <- {"w1"}, Share <- UdfShare, Default <- UdfDefault, Calls <- {"c1"},
         NoCode <- NoCode, handler_name <- v1, logical_commit_time <- v2, version <- v3,
         running <- v4, loaded <- v5, loads <- v6, note <- v7, setter <- v8, mixed <- v9,
         call <- v10

Lookup == INSTANCE ShardedLookup
    WITH NumShards <- 2, CurrentShard <- 0, Keys <- {"k1"}, ShardOf <- LookupShardOf,
         Stored <- {"k1"}, Instances <- LookupInstances, GroupOf <- LookupGroupOf,
         MaxChanges <- 1, in_service <- v1, changes <- v2, cluster_mappings <- v3,
         remote_lookup_clients <- v4, manager <- v5, lookup <- v6

Aws == INSTANCE RealtimeAws
    WITH NumThreads <- 1, Messages <- {"m1", "m2"}, Unparsable <- {"m2"},
         MaxQueues <- 2, MaxDeletions <- 1, MaxGivenUp <- 1, MaxUndeleted <- 0,
         svc <- v1, created <- v2, existing <- v3, subscribed <- v4, inbox <- v5,
         published <- v6, delivered <- v7, undeleted <- v8, thread <- v9, main <- v10

Pair == INSTANCE RealtimeAws
    WITH NumThreads <- 2, Messages <- {}, Unparsable <- {}, MaxQueues <- 3,
         MaxDeletions <- 1, MaxGivenUp <- 0, MaxUndeleted <- 0, svc <- v1,
         created <- v2, existing <- v3, subscribed <- v4, inbox <- v5, published <- v6,
         delivered <- v7, undeleted <- v8, thread <- v9, main <- v10

Cleanup == INSTANCE SqsCleanup
    WITH Servers <- {"s1"}, Timeout <- 5, TagEvery <- 2, PollEvery <- 1,
         MaxTagFailures <- 1, server <- v1, queue <- v2, subs <- v3, age <- v4,
         job <- v5, unseen <- v6

Gcp == INSTANCE RealtimeGcp
    WITH Messages <- {"m1", "m2"}, Undecodable <- {"m2"}, NumThreads <- 1, main <- v1,
         watcher <- v2, session <- v3, woken <- v4, handler <- v5, applied <- v6,
         acked <- v7

Notifiers == INSTANCE ChangeNotifiers
    WITH Files <- {"f1", "f2"}, Malformed <- {"f2"},
         Platforms <- {"local", "s3", "gcp"}, MaxWait <- 3, Poll <- 2, MaxPuts <- 2,
         platform <- v1, dir <- v2, messages <- v3, known <- v4, initial <- v5,
         found <- v6, pc <- v7, left <- v8, result <- v9, stopped <- v10,
         late <- v11, puts <- v12

ASSUME PartsAssumption ==
    /\ Udf!UdfAssumption
    /\ Lookup!ShardedAssumption
    /\ Aws!RealtimeAwsAssumption /\ Pair!RealtimeAwsAssumption
    /\ Cleanup!CleanupAssumption
    /\ Notifiers!NotifierAssumption

Init ==
    \/ active = "udf" /\ Udf!Init /\ v11 = 0 /\ v12 = 0
    \/ active = "lookup" /\ Lookup!Init /\ v7 = 0 /\ v8 = 0 /\ v9 = 0 /\ v10 = 0 /\ v11 = 0
       /\ v12 = 0
    \/ active = "aws" /\ Aws!Init /\ v11 = 0 /\ v12 = 0
    \/ active = "pair" /\ Pair!Init /\ v11 = 0 /\ v12 = 0
    \/ active = "cleanup" /\ Cleanup!Init /\ v7 = 0 /\ v8 = 0 /\ v9 = 0 /\ v10 = 0
       /\ v11 = 0 /\ v12 = 0
    \/ active = "gcp" /\ Gcp!Init /\ v8 = 0 /\ v9 = 0 /\ v10 = 0 /\ v11 = 0 /\ v12 = 0
    \/ active = "notifiers" /\ Notifiers!Init

Next ==
    \/ active = "udf" /\ Udf!Next /\ UNCHANGED <<active, v11, v12>>
    \/ active = "lookup" /\ Lookup!Next /\ UNCHANGED <<active, v7, v8, v9, v10, v11, v12>>
    \/ active = "aws" /\ Aws!Next /\ UNCHANGED <<active, v11, v12>>
    \/ active = "pair" /\ Pair!Next /\ UNCHANGED <<active, v11, v12>>
    \/ active = "cleanup" /\ Cleanup!Next
       /\ UNCHANGED <<active, v7, v8, v9, v10, v11, v12>>
    \/ active = "gcp" /\ Gcp!Next /\ UNCHANGED <<active, v8, v9, v10, v11, v12>>
    \/ active = "notifiers" /\ Notifiers!Next /\ UNCHANGED active

Fairness ==
    \* Threads that can run do, and both waits end by their timeouts; Roma need not
    \* answer.
    /\ WF_(Udf!vars)(active = "udf" /\ Udf!SetCodeObject("w1"))
    /\ WF_(Udf!vars)(active = "udf" /\ Udf!ExecuteCode("c1"))
    /\ WF_(Udf!vars)(active = "udf" /\ Udf!ExecuteTimesOut("c1"))
    \* The thread runs, and the cloud answers at some time (TraceRetryUntilOk).
    /\ WF_(Lookup!vars)(active = "lookup" /\ Lookup!Watch)
    \* The threads run, remote calls end, and from some time on those that can
    \* succeed do.  Nobody has to publish, to delete or to stop.
    /\ WF_(Aws!vars)(active = "aws" /\ Aws!Pool)
    /\ WF_(Aws!vars)(active = "aws" /\ (Aws!SetupStep(1) \/ Aws!SetupFails(1)))
    /\ WF_(Aws!vars)(active = "aws" /\ (Aws!PollStep(1) \/ Aws!ReceiveFails(1)))
    /\ <>[][active = "aws" => ~Aws!TransientFailure]_vars
    /\ WF_(Pair!vars)(active = "pair" /\ Pair!Pool)
    /\ \A t \in 1 .. 2 :
          /\ WF_(Pair!vars)(active = "pair" /\ (Pair!SetupStep(t) \/ Pair!SetupFails(t)))
          /\ WF_(Pair!vars)(active = "pair" /\ (Pair!PollStep(t) \/ Pair!ReceiveFails(t)))
          /\ SF_(Pair!vars)(active = "pair" /\ Pair!QueueIsMissing(t))
    /\ <>[][active = "pair" => ~Pair!TransientFailure]_vars
    \* Time goes on, servers poll, the job is scheduled again and again and from some
    \* time on is not cut off.
    /\ WF_(Cleanup!vars)(active = "cleanup" /\ Cleanup!Tick)
    /\ WF_(Cleanup!vars)(active = "cleanup" /\ (Cleanup!Job \/ Cleanup!Interrupted))
    /\ WF_(Cleanup!vars)(active = "cleanup" /\ Cleanup!Subscribe("s1"))
    /\ WF_(Cleanup!vars)(active = "cleanup" /\ (\E ok \in BOOLEAN : Cleanup!Poll("s1", ok)))
    /\ <>[][active = "cleanup" => ~Cleanup!CutOff]_vars
    \* The threads run, and Pub/Sub sends what is not acknowledged.
    /\ WF_(Gcp!vars)(active = "gcp" /\ Gcp!MainStep)
    /\ WF_(Gcp!vars)(active = "gcp" /\ Gcp!WatcherStep)
    /\ WF_(Gcp!vars)(active = "gcp" /\ Gcp!SessionEnds)
    /\ WF_(Gcp!vars)(active = "gcp" /\ Gcp!Receive("m1"))
    /\ WF_(Gcp!vars)(active = "gcp" /\ Gcp!Handle("m1"))
    /\ WF_(Gcp!vars)(active = "gcp" /\ Gcp!Receive("m2"))
    /\ WF_(Gcp!vars)(active = "gcp" /\ Gcp!Handle("m2"))
    \* The caller calls again until the stop, and from some time on the directory can
    \* be read and the queue received from.
    /\ WF_(Notifiers!vars)(active = "notifiers" /\ Notifiers!Call)
    /\ WF_(Notifiers!vars)(active = "notifiers" /\ (Notifiers!LocalRound \/ Notifiers!LocalError))
    /\ WF_(Notifiers!vars)(active = "notifiers" /\ (Notifiers!S3Messages \/ Notifiers!S3Round
                                                       \/ Notifiers!S3Error))
    /\ WF_(Notifiers!vars)(active = "notifiers" /\ Notifiers!GcpRound)
    /\ <>[][active = "notifiers" => ~Notifiers!LocalError /\ ~Notifiers!S3Error]_vars

Spec == Init /\ [][Next]_vars /\ Fairness

-----------------------------------------------------------------------------
(* Properties *)

\* Every call of ExecuteCode returns, also when Roma never answers, and every call
\* of GetNotifications within max_wait.  Stopping ends the watch of the mappings,
\* the pool of SQS pollers whatever they wait for, and the Pub/Sub notifier whether
\* it comes before or after the subscription; no session outlives its notifier.
WaitsEnd ==
    /\ []<>(active = "udf" => ~Udf!Executing("c1"))
    /\ []<>(active = "notifiers" => ~Notifiers!InCall)
    /\ []<>(active = "lookup" => ~Lookup!StopAsked \/ Lookup!WatchEnded)
    /\ []<>(active = "aws" => ~Aws!Stopping)
    /\ []<>(active = "gcp" => ~Gcp!Stopping)
    /\ []<>(active = "gcp" => ~Gcp!NotifierDestroyed \/ Gcp!SessionEnded)

\* Once instances stop coming and going, the mappings of the shard manager become
\* the instances in service of each shard, and the server gets to have mappings
\* unless a shard has none.
MappingsConverge == <>[](active = "lookup" => Lookup!MappingsAreCurrent)

\* A message in the SQS queue reaches the callback, even if others of its batch do
\* not parse, unless the queue is given up or the pool stopped.  While a Pub/Sub
\* session lasts every message is acknowledged: one that does not decode does not
\* come for ever.  A local file that stays is found at start-up or by a
\* notification; a message of S3 is found though others cannot be parsed.
UpdatesArrive ==
    /\ (active = "aws" /\ Aws!InQueue("m1")) ~> (active = "aws" /\ Aws!Reached("m1"))
    /\ \A m \in {"m1", "m2"} : []<>(active = "gcp" => Gcp!AckedOrOver(m))
    /\ []<>(active = "notifiers" => ~Notifiers!IsThere("f1") \/ Notifiers!FileFound("f1"))
    /\ (active = "notifiers" /\ Notifiers!HasMessage("f1"))
        ~> (active = "notifiers" /\ Notifiers!MessageFound("f1"))

\* When its queue is deleted under a running pool, the service sets up a new one,
\* unless that is deleted, too, before its set-up is complete.  Queue and
\* subscription of a server that is gone are removed, wherever the server ended and
\* wherever earlier runs of the clean-up job were cut off.
QueuesAreReplaced ==
    /\ []<>(active = "pair" => Pair!QueueUsable)
    /\ []<>(active = "cleanup" => ~Cleanup!Gone("s1") \/ Cleanup!Removed("s1"))
=============================================================================
