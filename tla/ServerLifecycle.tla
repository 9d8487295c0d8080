--------------------------- MODULE ServerLifecycle ---------------------------
(***************************************************************************)
(* The life of the servers of a group: Init of server.cc with the          *)
(* initializers of server_initializer.cc, the lifecycle heartbeat          *)
(* (lifecycle_heartbeat.cc on periodic_closure.cc) and the instance client *)
(* of AWS, by which a server says that it is still starting or ready, the  *)
(* hooks that UDFs call, and the shutdown.  There is one server per shard. *)
(*                                                                         *)
(* The auto scaling group is external: it keeps an instance out of service *)
(* until its lifecycle action completes, gives it up when no heartbeat     *)
(* comes for HookTimeout, and replaces instances that are gone.  Time is   *)
(* kept as ages, as in SqsCleanup.                                         *)
(***************************************************************************)
EXTENDS Integers, Sequences, FiniteSets

CONSTANTS Servers,      \* one per shard
          HookTimeout,  \* heartbeat timeout of the lifecycle hook
          Interval,     \* kLifecycleHeartbeatFrequency
          MaxLostBeats, \* bound on the heartbeats in a row that fail
          MaxFailures   \* bound on the starts of a server that fail

LifecycleAssumption ==
    /\ {HookTimeout, Interval, MaxLostBeats, MaxFailures} \subseteq Nat
    /\ Interval > 0 /\ HookTimeout > (MaxLostBeats + 2) * Interval

ASSUME LifecycleAssumption

Sharded == Cardinality(Servers) > 1

VARIABLES pc,       \* per server: the step of Init, of the shutdown, or the end
          asg,      \* per server: state of its instance in the group
          age,      \* per server: time since its launch or last heartbeat
          beat,     \* per server: heartbeat thread: runs, age of its wait, failures
          running,  \* per server: is_running_ of the heartbeat
          hooks,    \* per server: hooks that have their lookup
          map,      \* per server: shards its shard manager knows a replica of
          up,       \* per server: components with threads that have been started
          failures  \* per server: starts that failed

vars == <<pc, asg, age, beat, running, hooks, map, up, failures>>

-----------------------------------------------------------------------------
(* The steps of Init in order.  "retry" steps repeat a failed call without *)
(* limit (RetryUntilOk, as all parameter fetches do), "fail" steps return  *)
(* the error from Init, "log" steps go on.                                 *)

Retry(name) == [name |-> name, error |-> "retry"]
Fail(name) == [name |-> name, error |-> "fail"]
Log(name) == [name |-> name, error |-> "log"]

\* CreateDefaultInstancesIfNecessaryAndGetEnvironment
CreateDefaultInstances == <<Retry("environment"), Retry("udf workers"), Fail("udf client")>>

\* InitOnceInstancesAreCreated, up to the services
InitClients == <<Retry("telemetry"), Retry("start heartbeat"), Log("default udf"),
                 Fail("shard num"), Retry("num shards"), Retry("blob client"),
                 Fail("blob queue")>>

InitServices == <<Log("grpc"), Log("remote lookup"), Fail("change notifier"),
                  Fail("realtime queue"), Fail("realtime pool"),
                  Retry("load"), Retry("start orchestrator")>>

\* InitializeUdfHooks
InitHooks == <<Retry("shard manager"), Log("watch mappings"),
               Log("getValues"), Log("getValuesBinary"), Log("runQuery")>>

\* Mutant: a server is reported ready when nothing is missing any more.
FinishLast == InitHooks \o <<Log("finish"), Retry("complete")>>

\* The lifecycle is completed before the shard map is asked for.
Finishing == <<Log("finish"), Retry("complete")>> \o InitHooks

\* The heartbeat object is destroyed on every way out of the function.
Destructor == <<Log("finish at end"), Retry("complete at end"), Log("stop heartbeat")>>

Steps == CreateDefaultInstances \o InitClients \o InitServices \o Finishing \o Destructor

\* GracefulShutdown, ForceShutdown: what each stops, in this order.
Shutdown == <<"remote lookup", "grpc", "udf client", "mappings", "notifier", "realtime",
              "remote lookup", "grpc", "notifier", "realtime", "udf client", "mappings">>

InInit(s) == pc[s].phase \in {"init", "failing"}
Alive(s) == pc[s].phase \in {"init", "failing", "serving", "shutdown"}

Advance(s) ==
    pc' = [pc EXCEPT ![s] = IF @.step < Len(Steps) THEN [@ EXCEPT !.step = @ + 1]
                            ELSE [phase |-> "serving", step |-> 0]]

NewInstance == [phase |-> "init", step |-> 1]
NoBeat == [on |-> FALSE, wait |-> 0, lost |-> 0]

Init ==
    /\ pc = [s \in Servers |-> NewInstance]
    /\ asg = [s \in Servers |-> "pending"]
    /\ age = [s \in Servers |-> 0]
    /\ beat = [s \in Servers |-> NoBeat]
    /\ running = [s \in Servers |-> FALSE]
    /\ hooks = [s \in Servers |-> {}]
    /\ map = [s \in Servers |-> {}]
    /\ up = [s \in Servers |-> {}]
    /\ failures = [s \in Servers |-> 0]

-----------------------------------------------------------------------------
(* Steps with an effect of their own.  In a failed start the destructor of *)
(* the heartbeat takes the same steps; the process ends after it.          *)

\* The name of the step a server is at, whichever way it goes.
Doing(s, name) == InInit(s) /\ Steps[pc[s].step].name = name

AfterStep(s) ==
    IF pc[s].phase = "failing" /\ pc[s].step = Len(Steps)
    THEN pc' = [pc EXCEPT ![s] = [phase |-> "dead", step |-> 0]]
    ELSE IF pc[s].phase = "failing" THEN pc' = [pc EXCEPT ![s].step = @ + 1]
    ELSE Advance(s)

\* Mutant: nobody starts the heartbeat.
NoHeartbeat == NoBeat

FirstBeat == [on |-> TRUE, wait |-> 0, lost |-> 0]

StartHeartbeat(s) ==
    /\ Doing(s, "start heartbeat")
    /\ beat' = [beat EXCEPT ![s] = FirstBeat]
    /\ running' = [running EXCEPT ![s] = TRUE]
    /\ AfterStep(s)
    /\ UNCHANGED <<asg, age, hooks, map, up, failures>>

\* Mutant: the lifecycle is completed before the hooks without shards, too.
Always == TRUE

FinishesBeforeHooks == Sharded

\* Finish: only once, in a server of several shards before the hooks, else in
\* the destructor.  It leaves the heartbeat thread running.
Finish(s) ==
    /\ Doing(s, "finish") \/ Doing(s, "finish at end")
    /\ IF running[s] /\ (Doing(s, "finish") => FinishesBeforeHooks)
       THEN running' = [running EXCEPT ![s] = FALSE] /\ AfterStep(s)
       ELSE pc' = [pc EXCEPT ![s].step = @ + 2] /\ UNCHANGED running
    /\ UNCHANGED <<asg, age, beat, hooks, map, up, failures>>

\* CompleteLifecycle with CONTINUE; repeated until it succeeds.
CompleteLifecycle(s) ==
    /\ Doing(s, "complete") \/ Doing(s, "complete at end")
    /\ asg' = [asg EXCEPT ![s] = "in service"]
    /\ AfterStep(s)
    /\ UNCHANGED <<age, beat, running, hooks, map, up, failures>>

\* The destructor of the periodic closure notifies and joins its thread.
StopHeartbeat(s) ==
    /\ Doing(s, "stop heartbeat")
    /\ beat' = [beat EXCEPT ![s] = NoBeat]
    /\ AfterStep(s)
    /\ UNCHANGED <<asg, age, running, hooks, map, up, failures>>

InService == {s \in Servers : asg[s] = "in service"}

\* CreateShardManager asks for the instances in service until every shard has one.
CreateShardManager(s) ==
    /\ Doing(s, "shard manager")
    /\ Sharded => InService = Servers
    /\ map' = [map EXCEPT ![s] = IF Sharded THEN InService ELSE {}]
    /\ AfterStep(s)
    /\ UNCHANGED <<asg, age, beat, running, hooks, up, failures>>

\* FinishInit of one hook.
FinishInit(s, hook) ==
    /\ Doing(s, hook)
    /\ hooks' = [hooks EXCEPT ![s] = @ \cup {hook}]
    /\ AfterStep(s)
    /\ UNCHANGED <<asg, age, beat, running, map, up, failures>>

\* Components with threads of their own.
StartedBy(name) ==
    CASE name \in {"grpc", "udf client"} -> {name}
      [] name = "remote lookup" -> IF Sharded THEN {name} ELSE {}
      [] name = "start orchestrator" -> {"notifier", "realtime"}
      [] name = "watch mappings" -> IF Sharded THEN {"mappings"} ELSE {}
      [] OTHER -> {}

Special == {"start heartbeat", "finish", "complete", "finish at end", "complete at end",
            "stop heartbeat", "shard manager", "getValues", "getValuesBinary", "runQuery"}

\* Every other step.
OtherStep(s) ==
    /\ InInit(s) /\ Steps[pc[s].step].name \notin Special
    /\ up' = [up EXCEPT ![s] = @ \cup StartedBy(Steps[pc[s].step].name)]
    /\ AfterStep(s)
    /\ UNCHANGED <<asg, age, beat, running, hooks, map, failures>>

\* Init returns an error: the heartbeat is destroyed if there is one, then the
\* process aborts.
StepFails(s) ==
    /\ pc[s].phase = "init" /\ Steps[pc[s].step].error = "fail"
    /\ failures[s] < MaxFailures
    /\ failures' = [failures EXCEPT ![s] = @ + 1]
    /\ pc' = [pc EXCEPT ![s] =
                IF beat[s].on THEN [phase |-> "failing", step |-> Len(Steps) - 2]
                ELSE [phase |-> "dead", step |-> 0]]
    /\ UNCHANGED <<asg, age, beat, running, hooks, map, up>>

\* The thread of PeriodicClosure: waits for the interval, then records a heartbeat.
\* The call is a read of machine_id_, which was set by "environment".
Beat(s, ok) ==
    /\ beat[s].on /\ beat[s].wait = Interval
    /\ IF ok THEN /\ beat' = [beat EXCEPT ![s] = FirstBeat]
                  /\ age' = [age EXCEPT ![s] = 0]
       ELSE /\ beat[s].lost < MaxLostBeats
            /\ beat' = [beat EXCEPT ![s] = [on |-> TRUE, wait |-> 0, lost |-> @.lost + 1]]
            /\ UNCHANGED age
    /\ UNCHANGED <<pc, asg, running, hooks, map, up, failures>>

-----------------------------------------------------------------------------
(* Shutdown: Wait of main.cc returns, then both shutdowns. *)

BeginShutdown(s) ==
    /\ pc[s].phase = "serving"
    /\ pc' = [pc EXCEPT ![s] = [phase |-> "shutdown", step |-> 1]]
    /\ UNCHANGED <<asg, age, beat, running, hooks, map, up, failures>>

\* Mutant: the realtime threads are left running.
WithoutRealtime(s, c) == up[s] \ ({c} \ {"realtime"})

\* MaybeShutdownNotifiers and the others: what does not run is skipped.
Stopped(s, c) == up[s] \ {c}

StopComponent(s) ==
    /\ pc[s].phase = "shutdown" /\ pc[s].step <= Len(Shutdown)
    /\ up' = [up EXCEPT ![s] = Stopped(s, Shutdown[pc[s].step])]
    /\ pc' = [pc EXCEPT ![s] = IF @.step = Len(Shutdown) THEN [phase |-> "exited", step |-> 0]
                               ELSE [@ EXCEPT !.step = @ + 1]]
    /\ UNCHANGED <<asg, age, beat, running, hooks, map, failures>>

-----------------------------------------------------------------------------
(* The group *)

\* The heartbeat is started, or just about to be.
Early(s) == pc[s].step <= Len(CreateDefaultInstances) + 2

\* A heartbeat is not late by itself, and the steps of Init before the first
\* wait are short.
Tick ==
    /\ \A s \in Servers : asg[s] = "pending" /\ Alive(s) =>
          IF beat[s].on THEN beat[s].wait < Interval
          ELSE Early(s) => age[s] < Interval
    /\ age' = [s \in Servers |-> IF asg[s] = "pending" /\ Alive(s) /\ age[s] <= HookTimeout
                                 THEN age[s] + 1 ELSE age[s]]
    /\ beat' = [s \in Servers |-> IF beat[s].on /\ beat[s].wait < Interval
                                  THEN [beat[s] EXCEPT !.wait = @ + 1] ELSE beat[s]]
    /\ UNCHANGED <<pc, asg, running, hooks, map, up, failures>>

\* A new instance takes the place of one that is gone.
Replace(s) ==
    /\ pc[s].phase = "dead"
    /\ pc' = [pc EXCEPT ![s] = NewInstance]
    /\ asg' = [asg EXCEPT ![s] = "pending"]
    /\ age' = [age EXCEPT ![s] = 0]
    /\ beat' = [beat EXCEPT ![s] = NoBeat]
    /\ running' = [running EXCEPT ![s] = FALSE]
    /\ hooks' = [hooks EXCEPT ![s] = {}]
    /\ map' = [map EXCEPT ![s] = {}]
    /\ up' = [up EXCEPT ![s] = {}]
    /\ UNCHANGED failures

InitStep(s) ==
    \/ StartHeartbeat(s) \/ Finish(s) \/ CompleteLifecycle(s)
    \/ StopHeartbeat(s) \/ CreateShardManager(s) \/ OtherStep(s)
    \/ \E hook \in {"getValues", "getValuesBinary", "runQuery"} : FinishInit(s, hook)

Next ==
    \/ \E s \in Servers :
         \/ InitStep(s) \/ StepFails(s) \/ \E ok \in BOOLEAN : Beat(s, ok)
         \/ BeginShutdown(s) \/ StopComponent(s) \/ Replace(s)
    \/ Tick

Spec == Init /\ [][Next]_vars

\* Servers run, calls that are repeated succeed at some time, instances that
\* are gone are replaced.  Nobody has to shut down.
FairSpec ==
    /\ Spec
    /\ \A s \in Servers : /\ SF_vars(InitStep(s)) /\ WF_vars(StopComponent(s))
                          /\ WF_vars(Replace(s)) /\ WF_vars(\E ok \in BOOLEAN : Beat(s, ok))

-----------------------------------------------------------------------------
(* Properties *)

\* A server is at a step of its start-up, and its group, heartbeat, hooks and
\* parts are in states that go with one.
TypeOK ==
    /\ pc \in [Servers -> [phase : {"init", "failing", "serving", "shutdown", "exited", "dead"},
                           step : 0 .. Len(Steps)]]
    /\ asg \in [Servers -> {"pending", "in service"}]
    /\ age \in [Servers -> 0 .. HookTimeout + 1]
    /\ beat \in [Servers -> [on : BOOLEAN, wait : 0 .. Interval, lost : 0 .. MaxLostBeats]]
    /\ running \in [Servers -> BOOLEAN]
    /\ hooks \in [Servers -> SUBSET {"getValues", "getValuesBinary", "runQuery"}]
    /\ map \in [Servers -> SUBSET Servers]
    /\ up \in [Servers -> SUBSET {"grpc", "remote lookup", "udf client", "mappings",
                                  "notifier", "realtime"}]
    /\ failures \in [Servers -> 0 .. MaxFailures]

\* The group never gets a reason to give up a server that is starting, however
\* long loading takes and though single heartbeats are lost.
StartingServerIsKept ==
    \A s \in Servers : asg[s] = "pending" /\ Alive(s) => age[s] <= HookTimeout

\* A server is put into service only after its data has been loaded and its
\* threads started and, without shards, with all hooks.  The exception is one whose
\* Init has failed: the destructor of its heartbeat reports it ready, and the
\* process aborts next (lifecycle_heartbeat.cc, main.cc).
InServiceIsReady ==
    \A s \in Servers : asg[s] = "in service" =>
        /\ pc[s].phase \in {"init", "serving"} =>
              /\ {"grpc", "notifier", "realtime"} \subseteq up[s]
              /\ ~Sharded => hooks[s] = {"getValues", "getValuesBinary", "runQuery"}
        /\ pc[s].phase = "failing" => pc[s].step = Len(Steps)

\* When the process has shut down none of its threads is left.
ShutdownStopsAll ==
    \A s \in Servers : pc[s].phase = "exited" => up[s] = {} /\ ~beat[s].on

\* Every server gets to serve, though each needs all the others to be in
\* service for its shard map: they do not wait for each other for ever.
ServersGetReady == \A s \in Servers : (pc[s].phase = "init") ~> (pc[s].phase = "serving")

-----------------------------------------------------------------------------
(* What documentation or comments say.  The code does otherwise, see       *)
(* README.md; these are no properties of the model.                        *)

\* "Mark this instance as healthy" comes when "the initialization is over"
\* (server.cc): a server in service has been initialized, also if Init fails.
InServiceAfterInitialization ==
    \A s \in Servers : asg[s] = "in service" /\ Alive(s) => "notifier" \in up[s]

\* "A machine isn't ready to serve traffic until it has discovered at least
\* one active replica for each shard cluster" (docs/sharding.md).
InServiceHasShardMap ==
    \A s \in Servers : asg[s] = "in service" /\ Alive(s) => map[s] = Servers
=============================================================================
