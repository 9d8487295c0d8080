---------------------------- MODULE CloudConfig ----------------------------
(***************************************************************************)
(* What a starting server asks of its cloud: tags and identity from the    *)
(* instance client, parameters from the parameter client, in the order of  *)
(* server.cc and with the parameters that the build's platform fetches.    *)
(* Clients of AWS are synchronous; those of GCP wait for a callback of a   *)
(* library (external), which may also refuse a call; as in the mocks of    *)
(* the tests it then calls back before the call returns.  A build is a     *)
(* platform and an instance; an instance "local" has flags for parameters. *)
(***************************************************************************)
EXTENDS Integers, Sequences, FiniteSets

CONSTANTS Builds,      \* records of a platform and an instance
          Bad,         \* parameters that are not as they should be, with their text
          MaxFailures

ConfigAssumption ==
    /\ MaxFailures \in Nat
    /\ \A b \in Builds : b.platform \in {"aws", "gcp", "local"} /\ b.instance \in {b.platform, "local"}

VARIABLES build, bad, fixed,
          step,      \* position in Fetches
          pc,        \* where the main thread is in the fetch
          answer,    \* what the call in progress has: result and value
          got,       \* values of the fetches so far
          cache,     \* identity and labels known to the instance client
          heart,     \* the heartbeat thread in GetInstanceId
          failures

vars == <<build, bad, fixed, step, pc, answer, got, cache, heart, failures>>

-----------------------------------------------------------------------------
(* What is fetched.  A fetch with a flag is left out unless the flag is true. *)

Fetch(kind, name) == [kind |-> kind, name |-> name, flag |-> ""]
When(flag, name) == [kind |-> "string", name |-> name, flag |-> flag]

DefaultInstances == <<Fetch("tag", "environment tag"), Fetch("int32", "udf-num-workers")>>

MetricsOptions == <<Fetch("int32", "metrics-export-interval-millis"),
                    Fetch("int32", "metrics-export-timeout-millis")>>

MetricsCollectorEndPoint ==
    <<Fetch("bool", "use-external-metrics-collector-endpoint"),
      When("use-external-metrics-collector-endpoint", "metrics-collector-endpoint")>>

Telemetry == <<Fetch("id", "instance id")>> \o MetricsOptions \o MetricsCollectorEndPoint

Heartbeat == <<Fetch("string", "launch-hook")>>

ShardNum == <<Fetch("tag", "shard-num"), Fetch("int32", "num-shards")>>

AwsBlobStorageClientOptions == <<Fetch("int32", "s3client-max-connections"),
                                 Fetch("int32", "s3client-max-range-bytes")>>

StreamRecordReaderFactory == <<Fetch("int32", "data-loading-num-threads")>>

DeltaFileNotifier == <<Fetch("int32", "backup-poll-frequency-secs")>>

KeyFetchingEndpoint(coordinator) ==
    <<When("use-real-coordinators", coordinator \o "-coordinator-account-identity")>>

GcpKeyFetchingEndpoint(coordinator) ==
    KeyFetchingEndpoint(coordinator)
    \o <<When("use-real-coordinators", coordinator \o "-key-service-cloud-function-url"),
         When("use-real-coordinators", coordinator \o "-workload-identity-pool-provider")>>

KeyFetcherManager(primary, secondary) ==
    <<Fetch("bool", "use-real-coordinators")>> \o primary \o secondary

GrpcServices == <<Fetch("bool", "route-v1-to-v2")>>

AwsBlobStorageNotifierMetadata == <<Fetch("string", "data-loading-file-channel-bucket-sns-arn")>>
AwsRealtimeNotifierMetadata == <<Fetch("string", "data-loading-realtime-channel-sns-arn")>>

GcpRealtimeNotifierMetadata ==
    <<Fetch("string", "environment"), Fetch("int32", "realtime-updater-num-threads"),
      Fetch("string", "project-id")>>

LocalBlobStorageNotifierMetadata == <<Fetch("string", "directory")>>
LocalRealtimeNotifierMetadata == <<Fetch("string", "realtime-directory")>>

\* What the platform's ParameterFetcher and KeyFetcherFactory ask for
ClientOptions(p) == IF p = "aws" THEN AwsBlobStorageClientOptions ELSE <<>>

Keys(p) ==
    CASE p = "aws" -> KeyFetcherManager(KeyFetchingEndpoint("primary"), KeyFetchingEndpoint("secondary"))
      [] p = "gcp" -> KeyFetcherManager(GcpKeyFetchingEndpoint("primary"),
                                        GcpKeyFetchingEndpoint("secondary"))
      [] p = "local" -> <<>>

Notifiers(p) ==
    CASE p = "aws" -> AwsBlobStorageNotifierMetadata \o AwsRealtimeNotifierMetadata
      [] p = "gcp" -> GcpRealtimeNotifierMetadata
      [] p = "local" -> LocalBlobStorageNotifierMetadata \o LocalRealtimeNotifierMetadata

Orchestrator == <<Fetch("int32", "realtime-updater-num-threads"), Fetch("string", "data-bucket-id")>>

Clients(p) == ClientOptions(p) \o StreamRecordReaderFactory \o DeltaFileNotifier
              \o Keys(p) \o GrpcServices \o Notifiers(p) \o Orchestrator

\* Mutant: the heartbeat starts before anything else is asked for.
HeartbeatFirst(p) == Heartbeat \o DefaultInstances \o Telemetry \o ShardNum \o Clients(p)

Fetches(p) == DefaultInstances \o Telemetry \o Heartbeat \o ShardNum \o Clients(p)

\* The flags of LocalParameterClient
LocalNames ==
    {"directory", "data-bucket-id", "launch-hook", "realtime-directory",
     "metrics-export-interval-millis", "metrics-export-timeout-millis",
     "backup-poll-frequency-secs", "realtime-updater-num-threads",
     "data-loading-num-threads", "s3client-max-connections", "s3client-max-range-bytes",
     "num-shards", "udf-num-workers", "route-v1-to-v2", "use-real-coordinators",
     "use-external-metrics-collector-endpoint"}

-----------------------------------------------------------------------------

Now == Fetches(build.platform)[step]
None == [result |-> "none", text |-> ""]
Parameter == Now.kind \in {"string", "int32", "bool"}

\* The parameter client is that of AWS for the AWS platform, whatever the instance.
ParameterClient == IF build.platform = "aws" THEN "aws" ELSE build.instance

\* The text of a parameter, "" for one that is missing
Text(name, kind) ==
    IF name = bad.name /\ ~fixed THEN bad.text
    ELSE CASE kind = "int32" -> "7" [] kind = "bool" -> "true" [] OTHER -> "text"

Init ==
    /\ build \in Builds /\ bad \in Bad /\ fixed = FALSE
    /\ step = 1 /\ pc = "call" /\ answer = None /\ got = <<>>
    /\ cache = [id |-> "", tag |-> ""] /\ heart = "idle" /\ failures = 0

\* Somebody gives the parameter or the tag its proper value.
Correct ==
    /\ ~fixed /\ fixed' = TRUE
    /\ UNCHANGED <<build, bad, step, pc, answer, got, cache, heart, failures>>

Main == UNCHANGED <<build, bad, fixed, heart>>
Go(at, a) == pc' = at /\ answer' = a /\ UNCHANGED <<step, got>>
Ok(t) == [result |-> "ok", text |-> t]
Error == [result |-> "error", text |-> ""]
Fails == failures < MaxFailures /\ failures' = failures + 1

\* A fetch left out gives nothing.
Finish(t) ==
    /\ got' = Append(got, t) /\ answer' = None
    /\ step' = IF step = Len(Fetches(build.platform)) THEN step ELSE step + 1
    /\ pc' = IF step = Len(Fetches(build.platform)) THEN "done" ELSE "call"

FlagIsOff ==
    LET fetches == Fetches(build.platform) IN
    \E i \in DOMAIN got : fetches[i].name = fetches[step].flag /\ got[i] = "false"

Skip ==
    /\ pc = "call" /\ FlagIsOff
    /\ Finish("") /\ Main /\ UNCHANGED <<cache, failures>>

Asking == pc = "call" /\ ~FlagIsOff

-----------------------------------------------------------------------------
(* Parameters *)

\* AWS: one synchronous call; SSM (external) may fail, and does for a missing name.
AwsGetParameter ==
    /\ Asking /\ Parameter /\ ParameterClient = "aws"
    /\ \/ LET t == Text(Now.name, Now.kind) IN
          Go("return", IF t = "" THEN Error ELSE Ok(t)) /\ UNCHANGED failures
       \/ Go("return", Error) /\ Fails
    /\ Main /\ UNCHANGED cache

LocalText == CASE Now.kind = "int32" -> "7"
               [] Now.kind = "string" -> "text"
               [] OTHER -> IF Now.name = "route-v1-to-v2" THEN "true" ELSE "false"

LocalGetParameter ==
    /\ Asking /\ Parameter /\ ParameterClient = "local"
    /\ Go("return", IF Now.name \in LocalNames THEN Ok(LocalText) ELSE Error)
    /\ Main /\ UNCHANGED <<cache, failures>>

\* GCP: the call is accepted or refused; its callback comes later.
GcpGetParameter ==
    /\ Asking /\ Parameter /\ ParameterClient = "gcp"
    /\ \/ Go("wait", Ok("")) /\ UNCHANGED failures
       \/ Go("return", Error) /\ Fails
    /\ Main /\ UNCHANGED cache

GcpParameterCallback ==
    /\ pc = "wait" /\ Parameter
    /\ \/ LET t == Text(Now.name, Now.kind) IN
          /\ UNCHANGED failures
          /\ Go("return", Ok(IF t = "EMPTY_STRING" THEN "" ELSE t))
       \/ Go("return", answer) /\ Fails
    /\ Main /\ UNCHANGED cache

\* Mutant: a number that cannot be parsed is taken as it is.
OnlyBools(kind, t) == kind = "bool" => t \in {"true", "false"}

\* SimpleAtoi and SimpleAtob
Parses(kind, t) ==
    CASE kind = "int32" -> t = "7"
      [] kind = "bool" -> t \in {"true", "false"}
      [] OTHER -> TRUE

\* GetInt32Parameter and GetBoolParameter of AWS convert alike.
AwsParses(kind, t) == Parses(kind, t)

Converts(kind, t) == IF ParameterClient = "aws" THEN AwsParses(kind, t) ELSE Parses(kind, t)

\* RetryUntilOk around the client's call and its conversion
ParameterReturns ==
    /\ pc = "return" /\ Parameter
    /\ IF answer.result = "ok" /\ Converts(Now.kind, answer.text) THEN Finish(answer.text)
       ELSE Go("call", None)
    /\ Main /\ UNCHANGED <<cache, failures>>

-----------------------------------------------------------------------------
(* Identity and tags *)

LocalInstance ==
    /\ Asking /\ ~Parameter /\ build.instance = "local"
    /\ Finish("text")
    /\ Main /\ UNCHANGED <<cache, failures>>

\* GetInstanceId of AWS, by which GetTag begins: a known id is copied, an
\* unknown one is asked for and stored.
AwsGetInstanceId ==
    /\ Asking /\ ~Parameter /\ build.instance = "aws"
    /\ Go(IF cache.id = "" THEN "writes" ELSE "reads", None)
    /\ Main /\ UNCHANGED <<cache, failures>>

HaveId == IF Now.kind = "id" THEN Go("return", Ok("text")) ELSE Go("tags", None)

AwsInstanceIdKnown ==
    /\ pc = "reads" /\ HaveId
    /\ Main /\ UNCHANGED <<cache, failures>>

WithId == [cache EXCEPT !.id = "text"]

\* GetImdsToken and the id itself, either of which may fail
GetInstanceIdInternal ==
    /\ pc = "writes"
    /\ \/ HaveId /\ cache' = WithId /\ UNCHANGED failures
       \/ Go("return", Error) /\ Fails /\ UNCHANGED cache
    /\ Main

AwsGetTag ==
    /\ pc = "tags"
    /\ \/ LET t == Text(Now.name, "tag") IN
          Go("return", IF t = "" THEN Error ELSE Ok(t)) /\ UNCHANGED failures
       \/ Go("return", Error) /\ Fails
    /\ Main /\ UNCHANGED cache

\* GCP: details are asked for unless they are known; first the resource name.
DetailsKnown == cache.id # ""

GetResourceName ==
    /\ Asking /\ ~Parameter /\ build.instance = "gcp"
    /\ IF DetailsKnown THEN Go("return", Ok("")) /\ UNCHANGED failures
       ELSE \/ Go("name", None) /\ UNCHANGED failures
            \/ Go("return", Error) /\ Fails
    /\ Main /\ UNCHANGED cache

ResourceNameCallback ==
    /\ pc = "name"
    /\ \/ Go("details", None) /\ UNCHANGED failures
       \/ Go("return", Error) /\ Fails
    /\ Main /\ UNCHANGED cache

GetInstanceDetails ==
    /\ pc = "details"
    /\ \/ Go("wait", Ok("")) /\ UNCHANGED failures
       \/ Go("return", Error) /\ Fails
    /\ Main /\ UNCHANGED cache

HasLabels == \A n \in {"environment tag", "shard-num"} : Text(n, "tag") # ""

\* The labels are read with at(), which ends the process when there is none.
InstanceDetailsCallback ==
    /\ pc = "wait" /\ ~Parameter
    /\ \/ /\ HasLabels /\ Go("return", answer)
          /\ cache' = [id |-> "text", tag |-> "text"] /\ UNCHANGED failures
       \/ ~HasLabels /\ Go("crashed", None) /\ UNCHANGED <<cache, failures>>
       \/ Go("return", answer) /\ Fails /\ UNCHANGED cache
    /\ Main

\* What an instance call gives its caller
Value == IF build.instance = "gcp" THEN cache.tag ELSE answer.text

\* Only the shard number is asked for once: without it Init fails.
InstanceReturns ==
    /\ pc = "return" /\ ~Parameter
    /\ \/ answer.result = "ok" /\ Value # "" /\ Finish(Value)
       \/ /\ answer.result = "error" \/ Value = ""
          /\ Go(IF Now.name = "shard-num" THEN "failed" ELSE "call", None)
    /\ Main /\ UNCHANGED <<cache, failures>>

-----------------------------------------------------------------------------
(* The heartbeat thread calls GetInstanceId; on AWS it uses the cached id. *)

Beating ==
    LET fetches == Fetches(build.platform) IN
    \E i \in DOMAIN got : fetches[i].name = "launch-hook"

HeartbeatGetsId ==
    /\ Beating /\ heart = "idle" /\ build.instance = "aws"
    /\ heart' = IF cache.id = "" THEN "writes" ELSE "reads"
    /\ UNCHANGED <<build, bad, fixed, step, pc, answer, got, cache, failures>>

HeartbeatHasId ==
    /\ heart # "idle" /\ heart' = "idle"
    /\ cache' = IF heart = "writes" THEN WithId ELSE cache
    /\ UNCHANGED <<build, bad, fixed, step, pc, answer, got, failures>>

-----------------------------------------------------------------------------

Start == \/ Skip \/ AwsGetParameter \/ LocalGetParameter \/ GcpGetParameter
         \/ GcpParameterCallback \/ ParameterReturns \/ LocalInstance
         \/ AwsGetInstanceId \/ AwsInstanceIdKnown \/ GetInstanceIdInternal \/ AwsGetTag
         \/ GetResourceName \/ ResourceNameCallback \/ GetInstanceDetails
         \/ InstanceDetailsCallback \/ InstanceReturns

Next == Correct \/ Start \/ HeartbeatGetsId \/ HeartbeatHasId

Spec == Init /\ [][Next]_vars

-----------------------------------------------------------------------------

\* A fetch gives one value and moves on to the next; what each client leaves in
\* its fields and in the call in progress is text.
TypeOK ==
    /\ build \in Builds /\ bad \in Bad /\ fixed \in BOOLEAN
    /\ step \in 1..Len(Fetches(build.platform))
    /\ pc \in {"call", "wait", "return", "reads", "writes", "tags", "name", "details",
               "crashed", "failed", "done"}
    /\ answer.result \in {"none", "ok", "error"} /\ answer.text \in STRING
    /\ Len(got) = IF pc = "done" THEN step ELSE step - 1
    /\ cache \in [id : {"", "text"}, tag : {"", "text"}]
    /\ heart \in {"idle", "reads", "writes"} /\ failures \in 0..MaxFailures

\* machine_id_ of the AWS instance client has no lock: the heartbeat thread and
\* the main thread never use it while the other assigns it.
NoRaceOnInstanceId ==
    /\ pc = "writes" => heart = "idle"
    /\ heart = "writes" => pc \notin {"reads", "writes"}

\* The values that the parameter may have had when it was asked for
Had(f) == {CASE f.kind = "int32" -> "7" [] f.kind = "bool" -> "true" [] OTHER -> "text"}
          \cup IF f.name = bad.name THEN {bad.text} ELSE {}

\* A number or a truth value that start-up goes on with was in the store, could
\* be parsed, and stands at the right place, whatever calls failed on the way;
\* so does a string, except that of a failed call to GCP.
ValuesWereStored ==
    LET fetches == Fetches(build.platform) IN
    ParameterClient # "local" => \A i \in DOMAIN got :
        LET f == fetches[i] IN
        /\ f.kind \in {"int32", "bool"} =>
              got[i] \in Had(f) /\ got[i] \in {"7", "true", "false"}
        /\ f.kind = "string" => got[i] \in Had(f) \cup {""}

-----------------------------------------------------------------------------
(* What documentation or comments say.  The code does otherwise, see       *)
(* README.md; these are no properties of the model.                        *)

\* A parameter that is missing or cannot be fetched is an error to the caller of
\* GetParameter, so start-up never goes on with an empty text for it.
MissingParameterIsError ==
    \A i \in DOMAIN got :
        LET f == Fetches(build.platform)[i] IN
        f.kind = "string" /\ f.flag = "" /\ got[i] = ""
            => f.name = bad.name /\ bad.text = "EMPTY_STRING"

\* A label that the instance lacks is an Unavailable error ("Environment label
\* not found."), which the caller retries or reports.
MissingLabelIsError == pc # "crashed"
=============================================================================
