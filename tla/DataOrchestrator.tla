-------------------------- MODULE DataOrchestrator --------------------------
(***************************************************************************)
(* The life of the data loading pipeline, and the threads it runs:         *)
(*   - the server's main thread: TryCreate (retried until it succeeds),    *)
(*     Start, and at shutdown the notifiers' Stop and the destructors      *)
(*     (components/data_server/server/server.cc, and                       *)
(*     components/data_server/data_loading/data_orchestrator.cc);          *)
(*   - the delta file notifier, which waits for change notifications with  *)
(*     a periodic poll as backup, lists the bucket, and queues new names   *)
(*     (components/data/blob_storage/delta_file_notifier.cc);              *)
(*   - the data loader thread, which takes the queue file by file.         *)
(* What loading a file does to the cache is the subject of FileLoading.    *)
(***************************************************************************)
EXTENDS Integers, Sequences, FiniteSets, FiniteSetsExt

CONSTANTS NumNames,   \* the names a file of the bucket can have, in order
          Malformed,  \* names with the delta prefix that are no delta names
          Corrupt,    \* files that cannot be loaded, however often it is tried
          Snapshots   \* the possible listings of snapshot files at start-up

Names == 1 .. NumNames
None == 0             \* the empty file name, below all others

\* What LoadSnapshotFiles looks at in a snapshot file.
Snapshot == [well_formed : BOOLEAN, own_shard : BOOLEAN,
             ending_delta_file : Names \cup {None}]

ASSUME OrchestratorAssumption ==
    /\ NumNames \in Nat
    /\ Malformed \subseteq Names /\ Corrupt \subseteq Names
    /\ Snapshots \subseteq Seq(Snapshot)

VARIABLES
    bucket,        \* delta file names in the bucket
    snapshots,     \* snapshot files in the bucket, a sequence in name order
    inbox,         \* change notifications not yet received
    main,          \* where the main thread is
    init_todo,     \* Init: listed files still to load
    last_basename, \* Init: last file seen; then last_basename_of_init_
    watch,         \* the notifier thread: pc, last_key, listed names
    polled,        \* expiring_flag: the last successful listing is recent
    should_stop,   \* the notifier's ThreadManager wants the thread to stop
    queue,         \* unprocessed_basenames_, next name to load first
    loader,        \* the data loader thread: pc and file
    stop,          \* stop_
    udf_client,    \* the server's udf_client_: running, stopped, destroyed
    loaded,        \* names loaded so far
    log            \* names loaded by the data loader thread, in order

envVars == <<bucket, snapshots, inbox>>
initVars == <<init_todo, last_basename>>
loaderVars == <<queue, loader, stop, loaded, log>>
vars == <<bucket, snapshots, inbox, main, init_todo, last_basename, watch,
          polled, should_stop, queue, loader, stop, udf_client, loaded, log>>

\* Mutant: every name with the delta prefix is taken for a delta file.
HasDeltaPrefix(f) == f \in Names

IsDeltaFilename(f) == f \in Names \ Malformed

ListBlobs(start_after) == {f \in bucket : f > start_after}

Init ==
    /\ bucket \in SUBSET Names
    /\ snapshots \in Snapshots
    /\ inbox = {}
    /\ main = "creating"
    /\ init_todo = {}
    /\ last_basename = None
    /\ watch = [pc |-> "off", last_key |-> None, listed |-> {}]
    /\ polled = FALSE
    /\ should_stop = FALSE
    /\ queue = <<>>
    /\ loader = [pc |-> "off", file |-> None]
    /\ stop = FALSE
    /\ udf_client = "running"
    /\ loaded = {}
    /\ log = <<>>

-----------------------------------------------------------------------------
\* The environment.

\* "More recent delta files are lexicographically greater than older delta
\* files" (docs/loading_data.md).  The notification can be lost.
Upload(f) ==
    /\ \A g \in bucket : g < f
    /\ bucket' = bucket \cup {f}
    /\ inbox' \in {inbox, inbox \cup {f}}
    /\ UNCHANGED <<snapshots, main, initVars, watch, polled, should_stop,
                   loaderVars, udf_client>>

\* The notification queue is recreated after an error that is not retryable.
LoseNotifications ==
    /\ inbox # {}
    /\ inbox' = {}
    /\ UNCHANGED <<bucket, snapshots, main, initVars, watch, polled,
                   should_stop, loaderVars, udf_client>>

\* The poll interval of the notifier runs out.
FlagExpires ==
    /\ polled
    /\ polled' = FALSE
    /\ UNCHANGED <<envVars, main, initVars, watch, should_stop, loaderVars,
                   udf_client>>

-----------------------------------------------------------------------------
\* TryCreate, called by the main thread until it succeeds.

\* The newest snapshot that is well formed and of this shard is loaded.
UsableSnapshots == {i \in DOMAIN snapshots : snapshots[i].well_formed
                                             /\ snapshots[i].own_shard}

LoadSnapshotFiles ==
    IF UsableSnapshots = {} THEN None
    ELSE snapshots[Max(UsableSnapshots)].ending_delta_file

ListForInit ==
    /\ main = "creating"
    /\ main' = "loading"
    /\ last_basename' = LoadSnapshotFiles
    /\ init_todo' = ListBlobs(LoadSnapshotFiles)
    /\ UNCHANGED <<envVars, watch, polled, should_stop, loaderVars, udf_client>>

\* One name of the listing, in order.
InitLoads(f) ==
    /\ main = "loading" /\ init_todo # {} /\ f = Min(init_todo)
    /\ init_todo' = init_todo \ {f}
    /\ \/ /\ ~IsDeltaFilename(f)
          /\ UNCHANGED <<last_basename, loaded>>
       \/ /\ IsDeltaFilename(f) /\ f \notin Corrupt
          /\ last_basename' = f
          /\ loaded' = loaded \cup {f}
    /\ UNCHANGED <<envVars, main, watch, polled, should_stop, queue, loader,
                   stop, log, udf_client>>

\* A file cannot be loaded: Init fails, and TryCreate is called again.
InitFails ==
    /\ main = "loading" /\ init_todo # {}
    /\ IsDeltaFilename(Min(init_todo))
    /\ main' = "creating"
    /\ init_todo' = {}
    /\ last_basename' = None
    /\ UNCHANGED <<envVars, watch, polled, should_stop, loaderVars, udf_client>>

\* DataOrchestratorImpl::Start, when Init has been through its listing.
Start ==
    /\ main = "loading" /\ init_todo = {}
    /\ main' = "serving"
    /\ watch' = [watch EXCEPT !.pc = "head", !.last_key = last_basename]
    /\ loader' = [loader EXCEPT !.pc = "waiting"]
    /\ UNCHANGED <<envVars, initVars, polled, should_stop, queue, stop, loaded,
                   log, udf_client>>

-----------------------------------------------------------------------------
\* The delta file notifier: Watch, once for each step another thread can see.

WatchStops ==
    /\ watch.pc = "head" /\ should_stop
    /\ watch' = [watch EXCEPT !.pc = "off"]
    /\ UNCHANGED <<envVars, main, initVars, polled, should_stop, loaderVars,
                   udf_client>>

BackupPoll ==
    /\ watch.pc = "head" /\ ~should_stop /\ ~polled
    /\ watch' = [watch EXCEPT !.pc = "listing"]
    /\ UNCHANGED <<envVars, main, initVars, polled, should_stop, loaderVars,
                   udf_client>>

WaitForNotification ==
    /\ watch.pc = "head" /\ ~should_stop /\ polled
    /\ watch' = [watch EXCEPT !.pc = "waiting"]
    /\ UNCHANGED <<envVars, main, initVars, polled, should_stop, loaderVars,
                   udf_client>>

MaxDelta(S) == LET deltas == {f \in S : IsDeltaFilename(f)}
               IN IF deltas = {} THEN None ELSE Max(deltas)

\* Some notifications are received, and gone whatever becomes of them.
Notified ==
    /\ watch.pc = "waiting"
    /\ \E S \in (SUBSET inbox) \ {{}} :
       /\ inbox' = inbox \ S
       /\ watch' = [watch EXCEPT !.pc =
                       IF MaxDelta(S) >= watch.last_key /\ MaxDelta(S) # None
                       THEN "listing" ELSE "head"]
    /\ UNCHANGED <<bucket, snapshots, main, initVars, polled, should_stop,
                   loaderVars, udf_client>>

\* Mutant: the wait for a notification has no deadline.
NoDeadline == should_stop

\* The wait ends when the flag expires, or when the thread has to stop.
WaitIsOver == ~polled \/ should_stop

DeadlineExceeded ==
    /\ watch.pc = "waiting" /\ WaitIsOver
    /\ watch' = [watch EXCEPT !.pc = "listing"]
    /\ UNCHANGED <<envVars, main, initVars, polled, should_stop, loaderVars,
                   udf_client>>

\* An error while waiting or listing: nothing is listed; the loop goes on.
WatchFails ==
    /\ watch.pc \in {"waiting", "listing"}
    /\ watch' = [watch EXCEPT !.pc = "head"]
    /\ UNCHANGED <<envVars, main, initVars, polled, should_stop, loaderVars,
                   udf_client>>

ListNewBlobs ==
    /\ watch.pc = "listing"
    /\ polled' = TRUE
    /\ watch' = [watch EXCEPT !.pc = "callbacks",
                              !.listed = ListBlobs(watch.last_key)]
    /\ UNCHANGED <<envVars, main, initVars, should_stop, loaderVars, udf_client>>

\* Mutant: the newest name is queued before the ones already there.
EnqueueAtTheBack(f) == <<f>> \o queue

EnqueueNewFilesToProcess(f) == Append(queue, f)

Callback ==
    /\ watch.pc = "callbacks" /\ watch.listed # {}
    /\ LET f == Min(watch.listed) IN
       \/ /\ IsDeltaFilename(f)
          /\ queue' = EnqueueNewFilesToProcess(f)
          /\ watch' = [watch EXCEPT !.last_key = f, !.listed = @ \ {f}]
       \/ /\ ~IsDeltaFilename(f)
          /\ watch' = [watch EXCEPT !.listed = @ \ {f}]
          /\ UNCHANGED queue
    /\ UNCHANGED <<envVars, main, initVars, polled, should_stop, loader, stop,
                   loaded, log, udf_client>>

CallbacksDone ==
    /\ watch.pc = "callbacks" /\ watch.listed = {}
    /\ watch' = [watch EXCEPT !.pc = "head"]
    /\ UNCHANGED <<envVars, main, initVars, polled, should_stop, loaderVars,
                   udf_client>>

-----------------------------------------------------------------------------
\* The data loader thread: ProcessNewFiles.

\* Mutant: the thread waits for files only.
HasNewFile == queue # <<>>

HasNewEventToProcess == queue # <<>> \/ stop

TakeFile ==
    /\ loader.pc = "waiting" /\ HasNewEventToProcess
    /\ \/ /\ stop
          /\ loader' = [loader EXCEPT !.pc = "stopped"]
          /\ UNCHANGED queue
       \/ /\ ~stop
          /\ queue' = Tail(queue)
          /\ loader' = IF IsDeltaFilename(Head(queue))
                       THEN [pc |-> "loading", file |-> Head(queue)] ELSE loader
    /\ UNCHANGED <<envVars, main, initVars, watch, polled, should_stop, stop,
                   loaded, log, udf_client>>

LoadSucceeds ==
    /\ loader.pc = "loading" /\ loader.file \notin Corrupt
    /\ loaded' = loaded \cup {loader.file}
    /\ log' = Append(log, loader.file)
    /\ loader' = [pc |-> "waiting", file |-> None]
    /\ UNCHANGED <<envVars, main, initVars, watch, polled, should_stop, queue,
                   stop, udf_client>>

\* Mutant: a file that fails to load is given up.
GiveUp == [pc |-> "waiting", file |-> None]

\* RetryUntilOk: the same file is tried again after a sleep.
AfterFailure == [loader EXCEPT !.pc = "backoff"]

LoadFails ==
    /\ loader.pc = "loading"
    /\ loader' = AfterFailure
    /\ UNCHANGED <<envVars, main, initVars, watch, polled, should_stop, queue,
                   stop, loaded, log, udf_client>>

Retry ==
    /\ loader.pc = "backoff"
    /\ loader' = [loader EXCEPT !.pc = "loading"]
    /\ UNCHANGED <<envVars, main, initVars, watch, polled, should_stop, queue,
                   stop, loaded, log, udf_client>>

-----------------------------------------------------------------------------
\* Shutdown, by the main thread.

\* GracefulShutdown: the UDF client is stopped, then the notifier.
StopUdfClient ==
    /\ main = "serving"
    /\ main' = "shutting_down"
    /\ udf_client' = "stopped"
    /\ UNCHANGED <<envVars, initVars, watch, polled, should_stop, loaderVars>>

StopNotifier ==
    /\ main = "shutting_down"
    /\ main' = "joining_notifier"
    /\ should_stop' = TRUE
    /\ UNCHANGED <<envVars, initVars, watch, polled, loaderVars, udf_client>>

NotifierStopped ==
    /\ main = "joining_notifier" /\ watch.pc = "off"
    /\ main' = "shut_down"
    /\ should_stop' = FALSE
    /\ UNCHANGED <<envVars, initVars, watch, polled, loaderVars, udf_client>>

\* ~Server, with or without a shutdown before it, destroys its members in the
\* reverse order of their declaration: udf_client_ comes before
\* data_orchestrator_.
DestroyUdfClient ==
    /\ main \in {"serving", "shut_down"}
    /\ main' = "destroying"
    /\ udf_client' = "destroyed"
    /\ UNCHANGED <<envVars, initVars, watch, polled, should_stop, loaderVars>>

\* ~DataOrchestratorImpl.
SignalLoader ==
    /\ main = "destroying"
    /\ stop' = TRUE
    /\ should_stop' = (watch.pc # "off")
    /\ main' = "joining_both"
    /\ UNCHANGED <<envVars, initVars, watch, polled, queue, loader, loaded, log,
                   udf_client>>

NotifierJoined ==
    /\ main = "joining_both" /\ watch.pc = "off"
    /\ main' = "joining_loader"
    /\ should_stop' = FALSE
    /\ UNCHANGED <<envVars, initVars, watch, polled, loaderVars, udf_client>>

LoaderJoined ==
    /\ main = "joining_loader" /\ loader.pc = "stopped"
    /\ main' = "destroyed"
    /\ UNCHANGED <<envVars, initVars, watch, polled, should_stop, loaderVars,
                   udf_client>>

-----------------------------------------------------------------------------
Environment == (\E f \in Names : Upload(f)) \/ LoseNotifications \/ FlagExpires

Startup == ListForInit \/ (\E f \in Names : InitLoads(f)) \/ InitFails \/ Start

\* The steps of the notifier that no error and no remote call takes part in.
WatchRuns == WatchStops \/ BackupPoll \/ WaitForNotification \/ Notified
             \/ DeadlineExceeded \/ Callback \/ CallbacksDone

Watch == WatchRuns \/ WatchFails \/ ListNewBlobs

ProcessNewFiles == TakeFile \/ LoadSucceeds \/ LoadFails \/ Retry

\* What the main thread does once it has begun to shut down.
ShutdownRuns == StopNotifier \/ NotifierStopped \/ SignalLoader
                \/ NotifierJoined \/ LoaderJoined

Shutdown == StopUdfClient \/ DestroyUdfClient \/ ShutdownRuns

Next == Environment \/ Startup \/ Watch \/ ProcessNewFiles \/ Shutdown

\* Threads are scheduled, the clock advances, and an attempt to load a file
\* ends; what is tried again and again (a listing, a load of a good file)
\* succeeds in the end.  Neither uploads, nor errors while waiting for
\* notifications, nor the shutdown have to happen.
Fairness ==
    /\ WF_vars(FlagExpires)
    /\ WF_vars(Startup)
    /\ \A f \in Names : SF_vars(InitLoads(f))
    /\ WF_vars(WatchRuns) /\ SF_vars(ListNewBlobs)
    /\ WF_vars(ProcessNewFiles) /\ SF_vars(LoadSucceeds)
    /\ WF_vars(ShutdownRuns \/ (main = "shut_down" /\ DestroyUdfClient))

Spec == Init /\ [][Next]_vars /\ Fairness

-----------------------------------------------------------------------------
Covered == LoadSnapshotFiles

Queued == Range(queue)

Started == main \notin {"creating", "loading"}

\* The variables have their types; only names of delta files reach the queue
\* and the cache (IsDeltaFilename in Init, Watch and ProcessNewFiles).
TypeOK ==
    /\ bucket \subseteq Names /\ inbox \subseteq bucket
    /\ snapshots \in Snapshots
    /\ main \in {"creating", "loading", "serving", "shutting_down",
                 "joining_notifier", "shut_down", "destroying", "joining_both",
                 "joining_loader", "destroyed"}
    /\ init_todo \subseteq bucket
    /\ last_basename \in Names \cup {None}
    /\ watch.pc \in {"off", "head", "waiting", "listing", "callbacks"}
    /\ watch.last_key \in Names \cup {None} /\ watch.listed \subseteq bucket
    /\ polled \in BOOLEAN /\ should_stop \in BOOLEAN /\ stop \in BOOLEAN
    /\ loader.pc \in {"off", "waiting", "loading", "backoff", "stopped"}
    /\ loader.file \in (Names \ Malformed) \cup {None}
    /\ queue \in Seq(Names \ Malformed)
    /\ udf_client \in {"running", "stopped", "destroyed"}
    /\ loaded \subseteq Names \ Malformed

\* "The cache is up to date until this file" (DataOrchestratorImpl), and stays
\* so for the notifier's last_key: a delta file up to it that the snapshot does
\* not cover is loaded, being loaded, or queued, whatever notification was
\* lost, listing failed, load was retried or file arrived during Init.
NoFileLost ==
    Started => \A f \in bucket \ Malformed :
        Covered < f /\ f <= watch.last_key
            => f \in loaded \cup Queued \cup {loader.file}

\* "Calls `callback` on every Delta file found, in ascending order of the file
\* name" (delta_file_notifier.h): the loader thread loads files in the order
\* of their names, none twice and none that Init had loaded, and what is
\* queued comes after what has been loaded.
LoadedInOrder ==
    LET all == log \o (IF loader.file = None THEN <<>> ELSE <<loader.file>>)
               \o queue
    IN /\ \A i, j \in DOMAIN all : i < j => all[i] < all[j]
       /\ all # <<>> => last_basename < Head(all)

\* Every loadable delta file that appears in the bucket and that the snapshot
\* does not cover gets loaded, even if its notification never comes, unless
\* the server goes down first.
EveryFileLoaded ==
    \A f \in Names \ (Malformed \cup Corrupt) :
        (f \in bucket /\ Covered < f)
            ~> (f \in loaded \/ (Started /\ main # "serving"))

\* Once the server is being shut down or destroyed, both threads are joined
\* and the destructor of the orchestrator returns.
ShutdownCompletes ==
    (Started /\ main # "serving") ~> (main = "destroyed")

\* "The following fields must outlive DataOrchestrator" (server.h): what a
\* load in progress uses, the UDF client included, has not been destroyed.
UdfClientOutlivesLoader ==
    loader.pc = "loading" => udf_client # "destroyed"
=============================================================================
