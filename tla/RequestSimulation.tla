-------------------------- MODULE RequestSimulation --------------------------
(***************************************************************************)
(* The load generator (tools/request_simulation): two generators put       *)
(* requests into a bounded queue, one from the keys of delta files and one *)
(* made up; workers take requests from the queue and send them; a thread   *)
(* reports counters.  RequestSimulationSystem starts and stops the         *)
(* threads.  Whether the rate limiter grants a permit is left open here    *)
(* (module RateLimiter).                                                   *)
(***************************************************************************)
EXTENDS Integers, Sequences, FiniteSets, SequencesExt

CONSTANTS Workers,     \* names of client workers
          Files,       \* Files[f]: kinds of the records of file f; the empty
                       \* sequence stands for a name that is no delta file's
          FillRates,   \* values of synthetic_requests_fill_qps
          Capacity,    \* message_queue_max_capacity
          MaxBatches,  \* bound: batches of made-up requests
          MaxFailures  \* bound: failed attempts to read a file

SimulationAssumption ==
    /\ FillRates \subseteq Nat /\ Capacity \in Nat /\ MaxBatches \in Nat
    /\ MaxFailures \in Nat
    /\ IsFiniteSet(Workers)

VARIABLES system,      \* InitAndStart and Stop: step and thread it is at, and the
                       \* value of synthetic_requests_fill_qps_
          life,        \* life[t]: the thread of t's thread manager
          notified,    \* files the delta notifier has named
          unprocessed, \* unprocessed_basenames_, front first
          loader,      \* the thread of DeltaBasedRequestGenerator
          failures,    \* failed attempts so far
          made,        \* records <<f, i>> that were turned into requests
          synthetic,   \* the thread of SyntheticRequestGenerator
          batches,     \* batches it has made
          queue,       \* queue_ of MessageQueue
          worker,      \* worker[w]: where SendRequests is
          orphans,     \* workers with a call that SendMessage gave up
          cnt,         \* counters of MetricsCollector for the interval
          total,       \* increments of each counter since the beginning
          reporter,    \* the thread of MetricsCollector
          published,   \* sums of the values it has published
          crashed      \* undefined behaviour has ended the process

system_vars == <<system, life>>
delta_vars == <<notified, unprocessed, loader, failures, made>>
synthetic_vars == <<synthetic, batches>>
call_vars == <<worker, orphans>>
report_vars == <<reporter, published>>
vars == <<system_vars, delta_vars, synthetic_vars, queue, call_vars, cnt, total,
          report_vars, crashed>>

Counters == <<"sent", "ok", "error">>

(* Start and Stop go through the threads in these orders.                  *)
StartOrder ==
    <<"notifier", "loader">> \o (IF system.fill > 0 THEN <<"synthetic">> ELSE <<>>)
    \o SetToSeq(Workers) \o <<"metrics">>

(* Mutant: the workers are left out.                                       *)
StopGenerators == <<"notifier", "loader", "synthetic", "metrics">>

StopOrder == <<"notifier", "loader", "synthetic", "metrics">> \o SetToSeq(Workers)

Threads == ToSet(StopOrder) \union Workers

Init ==
    /\ \E fill \in FillRates : system = [pc |-> "new", i |-> 1, fill |-> fill]
    /\ life = [t \in Threads |-> "none"]
    /\ notified = 0
    /\ unprocessed = <<>>
    /\ loader = [pc |-> "top"]
    /\ failures = 0
    /\ made = {}
    /\ synthetic = "top"
    /\ batches = 0
    /\ queue = <<>>
    /\ worker = [w \in Workers |-> "top"]
    /\ orphans = {}
    /\ cnt = [c \in ToSet(Counters) |-> 0]
    /\ total = [c \in ToSet(Counters) |-> 0]
    /\ reporter = [pc |-> "top", seen |-> <<>>]
    /\ published = [c \in ToSet(Counters) |-> 0]
    /\ crashed = FALSE

-----------------------------------------------------------------------------
(* RequestSimulationSystem and TheadManager.                               *)

At(pc) == [system EXCEPT !.pc = pc, !.i = 1]

After(order) ==
    IF system.i < Len(order) THEN [system EXCEPT !.i = @ + 1]
    ELSE At(IF system.pc = "starting" THEN "running" ELSE "stopped")

(* Init creates all parts, and no thread yet.  It fails when there is no   *)
(* server address, worker, message service or change notifier; main then   *)
(* ends the process.                                                       *)
Initialize ==
    /\ system.pc = "new"
    /\ system' \in {At("starting"), At("fatal")}
    /\ UNCHANGED <<life, delta_vars, synthetic_vars, queue, call_vars, cnt, total,
                   report_vars, crashed>>

StartThread ==
    /\ ~crashed
    /\ system.pc = "starting"
    /\ life' = [life EXCEPT ![StartOrder[system.i]] = "running"]
    /\ system' = After(StartOrder)
    /\ UNCHANGED <<delta_vars, synthetic_vars, queue, call_vars, cnt, total,
                   report_vars, crashed>>

BeginStop ==
    /\ ~crashed
    /\ system.pc = "running"
    /\ system' = At("stopping")
    /\ UNCHANGED <<life, delta_vars, synthetic_vars, queue, call_vars, cnt, total,
                   report_vars, crashed>>

(* should_stop_ of a thread is set while its Stop waits for it; stop_ of   *)
(* the generator is set first and stays.                                   *)
ShouldStop(t) == system.pc = "stopping" /\ StopOrder[system.i] = t
GeneratorStopped == system.pc \in {"stopping", "stopped", "failed"}

(* A thread that was never started: the delta notifier is asked first      *)
(* whether it runs, the other Stop calls fail and end the whole Stop.      *)
StopThread ==
    LET t == StopOrder[system.i]
    IN /\ ~crashed
       /\ system.pc = "stopping"
       /\ \/ /\ life[t] = "returned"
             /\ life' = [life EXCEPT ![t] = "none"]
             /\ system' = After(StopOrder)
          \/ /\ life[t] = "none"
             /\ UNCHANGED life
             /\ system' = IF t = "notifier" THEN After(StopOrder)
                          ELSE At("failed")
       /\ UNCHANGED <<delta_vars, synthetic_vars, queue, call_vars, cnt, total,
                      report_vars, crashed>>

Runs(t) == ~crashed /\ life[t] = "running"
Return(t) == life' = [life EXCEPT ![t] = "returned"]

-----------------------------------------------------------------------------

(* MessageQueue::Push: what does not fit is dropped.                       *)
Push(messages) ==
    LET room == Capacity - Len(queue)
    IN queue \o SubSeq(messages, 1, IF Len(messages) < room THEN Len(messages) ELSE room)

(* DeltaFileNotifier (module DataOrchestrator) calls                       *)
(* EnqueueNewFilesToProcess for one file after the other.                  *)
NotifierStep ==
    /\ Runs("notifier")
    /\ \/ /\ ShouldStop("notifier")
          /\ Return("notifier")
          /\ UNCHANGED <<notified, unprocessed>>
       \/ /\ notified < Len(Files)
          /\ notified' = notified + 1
          /\ unprocessed' = <<notified + 1>> \o unprocessed
          /\ UNCHANGED life
    /\ UNCHANGED <<system, loader, failures, made, synthetic_vars, queue, call_vars,
                   cnt, total, report_vars, crashed>>

HasNewEventToProcess == unprocessed # <<>> \/ GeneratorStopped

(* The head of the loop of ProcessNewFiles.                                *)
TakeFile ==
    /\ Runs("loader") /\ loader.pc = "top"
    /\ HasNewEventToProcess
    /\ IF GeneratorStopped \/ ShouldStop("loader")
       THEN Return("loader") /\ UNCHANGED <<unprocessed, loader>>
       ELSE LET f == Last(unprocessed)
            IN /\ unprocessed' = Front(unprocessed)
               /\ loader' = IF Files[f] = <<>> THEN loader
                            ELSE [pc |-> "reading", file |-> f, left |-> DOMAIN Files[f]]
               /\ UNCHANGED life
    /\ UNCHANGED <<system, notified, failures, made, synthetic_vars, queue, call_vars,
                   cnt, total, report_vars, crashed>>

(* Several threads read a file, so its records come in any order.          *)
ReadString(i) ==
    /\ Runs("loader") /\ loader.pc = "reading"
    /\ i \in loader.left
    /\ Files[loader.file][i] = "string"
    /\ queue' = Push(<<"delta">>)
    /\ made' = made \union {<<loader.file, i>>}
    /\ loader' = [loader EXCEPT !.left = @ \ {i}]
    /\ UNCHANGED <<system_vars, notified, unprocessed, failures, synthetic_vars,
                   call_vars, cnt, total, report_vars, crashed>>

(* Any other record runs off the end of a lambda that returns a status:    *)
(* undefined.  The process ends, or some status is made up, which the      *)
(* reader at most logs.                                                    *)
ReadOther(i) ==
    /\ Runs("loader") /\ loader.pc = "reading"
    /\ i \in loader.left
    /\ Files[loader.file][i] # "string"
    /\ crashed' \in BOOLEAN
    /\ loader' = [loader EXCEPT !.left = @ \ {i}]
    /\ UNCHANGED <<system_vars, notified, unprocessed, failures, made, synthetic_vars,
                   queue, call_vars, cnt, total, report_vars>>

(* RetryUntilOk reads the whole file again.                                *)
Again == [loader EXCEPT !.left = DOMAIN Files[loader.file]]

EndOfFile ==
    /\ Runs("loader") /\ loader.pc = "reading"
    /\ \/ /\ loader.left = {}
          /\ loader' = [pc |-> "top"]
          /\ UNCHANGED failures
       \/ /\ failures < MaxFailures
          /\ failures' = failures + 1
          /\ loader' = Again
    /\ UNCHANGED <<system_vars, notified, unprocessed, made, synthetic_vars, queue,
                   call_vars, cnt, total, report_vars, crashed>>

-----------------------------------------------------------------------------
(* SyntheticRequestGenerator::GenerateRequests: a batch for half a second, *)
(* if the permits for it are there, and half a second of sleep.            *)
Generate ==
    /\ Runs("synthetic") /\ synthetic = "top"
    /\ IF ShouldStop("synthetic")
       THEN Return("synthetic") /\ UNCHANGED <<synthetic, batches, queue>>
       ELSE /\ synthetic' = "sleeping"
            /\ UNCHANGED life
            /\ \/ UNCHANGED <<batches, queue>>
               \/ /\ batches < MaxBatches
                  /\ batches' = batches + 1
                  /\ queue' = Push([i \in 1..(system.fill \div 2) |-> "synthetic"])
    /\ UNCHANGED <<system, delta_vars, call_vars, cnt, total, report_vars, crashed>>

GeneratorWakes ==
    /\ Runs("synthetic") /\ synthetic = "sleeping"
    /\ synthetic' = "top"
    /\ UNCHANGED <<system_vars, delta_vars, batches, queue, call_vars, cnt, total,
                   report_vars, crashed>>

-----------------------------------------------------------------------------
(* ClientWorker::SendRequests.  A permit that is not granted leads back to *)
(* the top and changes nothing.                                            *)

Count(c) == /\ cnt' = [cnt EXCEPT ![c] = @ + 1]
            /\ total' = [total EXCEPT ![c] = @ + 1]

WorkerTop(w) ==
    /\ Runs(w) /\ worker[w] = "top"
    /\ IF ShouldStop(w) THEN Return(w) /\ UNCHANGED worker
       ELSE worker' = [worker EXCEPT ![w] = "permitted"] /\ UNCHANGED life
    /\ UNCHANGED <<system, delta_vars, synthetic_vars, queue, orphans, cnt, total,
                   report_vars, crashed>>

(* The permit is used up also when there is nothing to send.               *)
Pop(w) ==
    /\ Runs(w) /\ worker[w] = "permitted"
    /\ \/ /\ queue = <<>>
          /\ worker' = [worker EXCEPT ![w] = "top"]
          /\ UNCHANGED <<queue, cnt, total>>
       \/ /\ queue # <<>>
          /\ queue' = Tail(queue)
          /\ worker' = [worker EXCEPT ![w] = "sending"]
          /\ Count("sent")
    /\ UNCHANGED <<system_vars, delta_vars, synthetic_vars, orphans, report_vars, crashed>>

(* GrpcClient::SendMessage returns the status of the call, or gives up     *)
(* waiting; the call itself has no deadline and is not cancelled, and the  *)
(* context and the messages it uses are released.                          *)
SendMessage(w) ==
    /\ Runs(w) /\ worker[w] = "sending"
    /\ worker' = [worker EXCEPT ![w] = "top"]
    /\ \/ Count("ok") /\ UNCHANGED orphans
       \/ Count("error") /\ UNCHANGED orphans
       \/ Count("error") /\ orphans' = orphans \union {w}
    /\ UNCHANGED <<system_vars, delta_vars, synthetic_vars, queue, report_vars, crashed>>

LateAnswer(w) ==
    /\ w \in orphans
    /\ orphans' = orphans \ {w}
    /\ UNCHANGED <<system_vars, delta_vars, synthetic_vars, queue, worker, cnt, total,
                   report_vars, crashed>>

-----------------------------------------------------------------------------
(* MetricsCollector::PublishMetrics: a sleep, one load per counter, then   *)
(* ResetRequestsPerInterval with one store per counter.                    *)

(* The counter of requests sent is never read.                             *)
ReadFor(c) == IF c = "sent" THEN "ok" ELSE c

ReporterTop ==
    /\ Runs("metrics") /\ reporter.pc = "top"
    /\ IF ShouldStop("metrics") THEN Return("metrics") /\ UNCHANGED reporter
       ELSE /\ reporter' = [pc |-> "load", seen |-> <<>>]
            /\ UNCHANGED life
    /\ UNCHANGED <<system, delta_vars, synthetic_vars, queue, call_vars, cnt, total,
                   published, crashed>>

Load ==
    LET seen == Append(reporter.seen, cnt[ReadFor(Counters[Len(reporter.seen) + 1])])
    IN /\ Runs("metrics") /\ reporter.pc = "load"
       /\ IF Len(seen) < 3
          THEN reporter' = [reporter EXCEPT !.seen = seen] /\ UNCHANGED published
          ELSE /\ reporter' = [pc |-> "reset", seen |-> <<>>]
               /\ published' = [c \in DOMAIN cnt |->
                                   published[c] + seen[CHOOSE i \in 1..3 : Counters[i] = c]]
       /\ UNCHANGED <<system_vars, delta_vars, synthetic_vars, queue, call_vars, cnt,
                      total, crashed>>

(* Mutant: only the counter of requests sent is cleared.                   *)
ClearedSent(c) == IF c = "sent" THEN 0 ELSE cnt[c]

Cleared(c) == 0

Reset ==
    LET c == Counters[Len(reporter.seen) + 1]
    IN /\ Runs("metrics") /\ reporter.pc = "reset"
       /\ cnt' = [cnt EXCEPT ![c] = Cleared(c)]
       /\ reporter' = IF Len(reporter.seen) < 2
                      THEN [reporter EXCEPT !.seen = Append(@, 0)]
                      ELSE [pc |-> "top", seen |-> <<>>]
       /\ UNCHANGED <<system_vars, delta_vars, synthetic_vars, queue, call_vars, total,
                      published, crashed>>

-----------------------------------------------------------------------------
LoaderStep == TakeFile \/ EndOfFile \/ \E f \in DOMAIN Files :
                  \E i \in DOMAIN Files[f] : ReadString(i) \/ ReadOther(i)
SyntheticStep == Generate \/ GeneratorWakes
WorkerStep(w) == WorkerTop(w) \/ Pop(w) \/ SendMessage(w)
ReporterStep == ReporterTop \/ Load \/ Reset

Next ==
    \/ Initialize \/ StartThread \/ BeginStop \/ StopThread
    \/ NotifierStep \/ LoaderStep \/ SyntheticStep \/ ReporterStep
    \/ \E w \in Workers : WorkerStep(w) \/ LateAnswer(w)

Spec == Init /\ [][Next]_vars

-----------------------------------------------------------------------------
(* Types; the queue keeps within its capacity.                             *)
TypeOK ==
    /\ system.pc \in {"new", "fatal", "starting", "running", "stopping", "stopped",
                     "failed"}
    /\ \A t \in Threads : life[t] \in {"none", "running", "returned"}
    /\ notified \in 0..Len(Files)
    /\ ToSet(unprocessed) \subseteq 1..notified
    /\ Len(queue) <= Capacity
    /\ orphans \subseteq Workers
    /\ \A c \in ToSet(Counters) : cnt[c] \in 0..total[c]
    /\ crashed \in BOOLEAN

(* The reports never add up to more responses than there were, although    *)
(* workers count while the reporter reads and clears the counters.         *)
NotOverReported == \A c \in {"ok", "error"} : published[c] <= total[c]

(* When Stop has returned without an error, none of the threads runs.  It  *)
(* returns an error only where Start left out the synthetic generator, for *)
(* a rate of 0: then the generators have stopped, and the client workers   *)
(* and the metrics collector run on.                                       *)
StopStopsAll ==
    /\ system.pc = "stopped" => \A t \in Threads : life[t] = "none"
    /\ system.pc = "failed" =>
           /\ system.fill = 0
           /\ \A t \in {"notifier", "loader", "synthetic"} : life[t] = "none"

-----------------------------------------------------------------------------
(* What documentation or comments say.  The code does otherwise, see       *)
(* README.md; these are no properties of the model.                        *)

(* metrics_collector.cc logs the first value as "Number of requests sent". *)
(* It is the value of the counter of requests sent.                        *)
SentIsReported ==
    [][reporter.pc = "load" /\ Len(reporter.seen) = 0 /\ reporter'.seen # <<>>
        => reporter'.seen[1] = cnt["sent"]]_vars

(* grpc_client.h: the timeout defines "a period of time that a unary call  *)
(* passes the deadline": a call is over when SendMessage has returned.     *)
CallsEndWithSend == orphans = {}

(* request_simulation_system.h: "Once the system successfully starts, the  *)
(* system will continuously generates requests", whatever records the      *)
(* delta files have.                                                       *)
KeepsRunning == ~crashed
=============================================================================
