----------------------- MODULE DataOrchestratorProofs -----------------------
(***************************************************************************)
(* Proofs about DataOrchestrator, for every bucket, every listing of       *)
(* snapshots and every set of malformed and corrupt files.                 *)
(*                                                                         *)
(* NoFileLost and LoadedInOrder are not inductive: what a listing leaves   *)
(* to be gone through (Ahead), where Init ended, and that the last key is  *)
(* a file of the bucket or the snapshot's, so that no later upload can     *)
(* sort before it, have to be carried along.                               *)
(***************************************************************************)
EXTENDS DataOrchestrator, SequenceTheorems, WellFoundedInduction, TLAPS

\* The order of names, as a relation.
LessThan == {p \in Nat \X Nat : p[1] < p[2]}

\* A set of names has a least element.
LEMMA LeastName ==
    ASSUME NEW S \in SUBSET Nat, S # {}
    PROVE  Min(S) \in S /\ \A x \in S : Min(S) <= x
  <1>1. PICK x \in S : \A y \in S : ~ (<<y, x>> \in LessThan)
    <2>1. IsWellFoundedOn(LessThan, Nat)
      BY NatLessThanWellFounded DEF OpToRel, LessThan
    <2>2. QED
      BY <2>1, WFMin
  <1>2. ASSUME NEW y \in S
        PROVE  x <= y
    <2>1. x \in Nat /\ y \in Nat
      OBVIOUS
    <2>2. y < x => <<y, x>> \in LessThan
      BY <2>1 DEF LessThan
    <2>3. QED
      BY <1>1, <2>1, <2>2
  <1>3. \E z \in S : \A y \in S : z <= y
    BY <1>2
  <1>4. QED
    BY ZenonT(30), <1>3 DEF Min

\* A bounded set of numbers has a greatest element.
LEMMA GreatestName ==
    ASSUME NEW n \in Nat, NEW S \in SUBSET (0 .. n), S # {}
    PROVE  Max(S) \in S /\ \A x \in S : x <= Max(S)
  <1> DEFINE T == {n - x : x \in S}
  <1>1. T \in SUBSET Nat /\ T # {}
    <2>1. \A x \in S : x \in 0 .. n /\ n - x \in Nat
      OBVIOUS
    <2>2. QED
      BY <2>1
  <1>2. Min(T) \in T /\ \A y \in T : Min(T) <= y
    BY ZenonT(30), <1>1, LeastName
  <1>3. PICK x \in S : Min(T) = n - x
    BY <1>2
  <1>4. \A y \in S : y <= x
    BY <1>2, <1>3
  <1>5. \E z \in S : \A y \in S : z >= y
    BY <1>4
  <1>6. QED
    BY ZenonT(30), <1>5 DEF Max

-----------------------------------------------------------------------------
\* The names of delta files.
DeltaNames == Names \ Malformed

\* What the notifier and the loader thread remember.
WatchRecord == [pc : {"off", "head", "waiting", "listing", "callbacks"},
                last_key : Names \cup {None}, listed : SUBSET Names]
LoaderRecord == [pc : {"off", "waiting", "loading", "backoff", "stopped"},
                 file : DeltaNames \cup {None}]

\* The variables that hold records, in full.
Shape ==
    /\ TypeOK
    /\ watch \in WatchRecord
    /\ loader \in LoaderRecord
    /\ log \in Seq(DeltaNames)

\* Until Start, neither thread runs and nothing is in the pipeline; after it,
\* Init has nothing left to load.
ThreadsInv ==
    /\ ~Started => /\ watch.pc = "off" /\ watch.last_key = None /\ watch.listed = {}
                   /\ loader.pc = "off" /\ queue = <<>> /\ log = <<>>
    /\ main # "loading" => init_todo = {}
    /\ loader.file # None <=> loader.pc \in {"loading", "backoff"}

\* A listing in progress, todo, of the files after last: it is ahead of last,
\* and holds every delta file between last and its newest.
Ahead(last, todo) ==
    /\ \A h \in todo : last < h
    /\ \A g \in bucket \ Malformed : \A h \in todo : last < g /\ g < h => g \in todo

\* How far Init got: everything up to last_basename is in the cache.
InitInv ==
    main # "creating" =>
        /\ Covered <= last_basename /\ last_basename \in bucket \cup {Covered}
        /\ Ahead(last_basename, init_todo)
        /\ \A f \in bucket \ Malformed :
              Covered < f /\ f <= last_basename => f \in loaded

\* How far the notifier got.
WatchInv ==
    Started =>
        /\ last_basename <= watch.last_key
        /\ watch.last_key \in bucket \cup {Covered}
        /\ Ahead(watch.last_key, watch.listed)

\* The names that passed the notifier, in the order of the pipeline: loaded by
\* the loader thread, being loaded, queued.
Pipeline == log \o (IF loader.file = None THEN <<>> ELSE <<loader.file>>) \o queue

\* They ascend, from after the last file of Init to the notifier's last key.
PipelineInv ==
    /\ \A i, j \in DOMAIN Pipeline : i < j => Pipeline[i] < Pipeline[j]
    /\ \A i \in DOMAIN Pipeline :
          last_basename < Pipeline[i] /\ Pipeline[i] <= watch.last_key

IInv == Shape /\ ThreadsInv /\ InitInv /\ WatchInv /\ PipelineInv /\ NoFileLost

-----------------------------------------------------------------------------
\* The file a snapshot covers is a name, or none.
LEMMA CoveredType == Shape => Covered \in Names \cup {None}
  <1> SUFFICES ASSUME Shape, UsableSnapshots # {}
               PROVE  snapshots[Max(UsableSnapshots)].ending_delta_file \in Names \cup {None}
    BY DEF Covered, LoadSnapshotFiles
  <1>1. snapshots \in Seq(Snapshot)
    BY OrchestratorAssumption DEF Shape, TypeOK
  <1>2. Len(snapshots) \in Nat /\ DOMAIN snapshots = 1 .. Len(snapshots)
    BY <1>1
  <1>3. UsableSnapshots \in SUBSET (0 .. Len(snapshots))
    BY <1>2 DEF UsableSnapshots
  <1>4. Max(UsableSnapshots) \in UsableSnapshots
    BY <1>2, <1>3, GreatestName
  <1>5. Max(UsableSnapshots) \in DOMAIN snapshots
    BY <1>4 DEF UsableSnapshots
  <1>6. snapshots[Max(UsableSnapshots)] \in Snapshot
    BY <1>1, <1>2, <1>5
  <1>7. QED
    BY <1>6 DEF Snapshot

\* Names are positive numbers.
LEMMA NamesAreNat == Names \subseteq Nat /\ None \in Nat /\ \A f \in Names : None < f
  BY OrchestratorAssumption DEF Names, None

\* What a snapshot covers changes with the snapshots only.
LEMMA CoveredStays ==
    ASSUME UNCHANGED snapshots
    PROVE  Covered' = Covered
  BY DEF Covered, LoadSnapshotFiles, UsableSnapshots

\* A step of the two threads keeps the types when it gives the variables that
\* they write their types.
LEMMA ShapeKept ==
    ASSUME Shape, polled' \in BOOLEAN,
           watch' \in WatchRecord, watch'.listed \subseteq bucket,
           loader' \in LoaderRecord, queue' \in Seq(DeltaNames),
           log' \in Seq(DeltaNames), loaded' \subseteq DeltaNames,
           UNCHANGED <<bucket, snapshots, inbox, main, init_todo, last_basename>>,
           UNCHANGED <<should_stop, stop, udf_client>>
    PROVE  Shape'
  <1>1. TypeOK'
    <2>1. /\ watch'.pc \in {"off", "head", "waiting", "listing", "callbacks"}
          /\ watch'.last_key \in Names \cup {None}
      BY DEF WatchRecord
    <2>2. /\ loader'.pc \in {"off", "waiting", "loading", "backoff", "stopped"}
          /\ loader'.file \in (Names \ Malformed) \cup {None}
      BY DEF LoaderRecord, DeltaNames
    <2>3. /\ queue' \in Seq(Names \ Malformed) /\ loaded' \subseteq Names \ Malformed
      BY DEF DeltaNames
    <2>4. TypeOK
      BY DEF Shape
    <2>5. QED
      BY <2>1, <2>2, <2>3, <2>4 DEF TypeOK
  <1>2. QED
    BY <1>1 DEF Shape

\* Before Start there is nothing in the pipeline.
LEMMA EmptyPipeline ==
    ASSUME ThreadsInv, ~Started, UNCHANGED <<queue, log>>, loader'.file = loader.file
    PROVE  Pipeline' = <<>>
  <1>1. queue' = <<>> /\ log' = <<>> /\ loader'.file = None
    BY DEF ThreadsInv
  <1>2. QED
    BY <1>1 DEF Pipeline

\* The invariant depends on these variables only.
LEMMA Frame ==
    ASSUME IInv, Shape', ThreadsInv',
           UNCHANGED <<bucket, snapshots, init_todo, last_basename, queue, loaded, log>>,
           watch'.last_key = watch.last_key, watch'.listed = watch.listed,
           loader'.file = loader.file,
           Started' <=> Started, main' = "creating" <=> main = "creating"
    PROVE  IInv'
  <1>1. Covered' = Covered
    BY CoveredStays
  <1>2. InitInv'
    BY <1>1 DEF IInv, InitInv, Ahead
  <1>3. WatchInv'
    BY <1>1 DEF IInv, WatchInv, Ahead
  <1>4. Pipeline' = Pipeline
    BY DEF Pipeline
  <1>5. PipelineInv'
    BY <1>4 DEF IInv, PipelineInv
  <1>6. NoFileLost'
    BY <1>1 DEF IInv, NoFileLost, Queued
  <1>7. QED
    BY <1>2, <1>3, <1>5, <1>6 DEF IInv

\* The server starts with an empty pipeline.
LEMMA InitIInv == Init => IInv
  <1> SUFFICES ASSUME Init
               PROVE  IInv
    OBVIOUS
  <1>1. Shape
    <2>1. queue \in Seq(Names \ Malformed) /\ log \in Seq(DeltaNames)
      BY DEF Init
    <2>2. /\ watch \in WatchRecord
          /\ watch.pc = "off" /\ watch.last_key = None /\ watch.listed = {}
      BY DEF Init, WatchRecord
    <2>3. /\ loader \in LoaderRecord
          /\ loader.pc = "off" /\ loader.file = None
      BY DEF Init, LoaderRecord
    <2>4. TypeOK
      BY <2>1, <2>2, <2>3 DEF Init, TypeOK
    <2>5. QED
      BY <2>1, <2>2, <2>3, <2>4 DEF Shape
  <1>2. ThreadsInv /\ InitInv /\ WatchInv /\ NoFileLost
    BY DEF Init, ThreadsInv, InitInv, WatchInv, NoFileLost, Started
  <1>3. Pipeline = <<>>
    BY DEF Init, Pipeline
  <1>4. PipelineInv
    BY <1>3 DEF PipelineInv
  <1>5. QED
    BY <1>1, <1>2, <1>4 DEF IInv

\* A new file sorts after everything Init and the notifier have been through.
LEMMA UploadIInv ==
    ASSUME IInv, NEW f \in Names, Upload(f)
    PROVE  IInv'
  <1>1. Shape'
    BY DEF Upload, initVars, loaderVars, IInv, Shape, TypeOK
  <1>2. /\ \A g \in bucket : g < f
        /\ bucket' = bucket \cup {f}
        /\ UNCHANGED <<snapshots, main, init_todo, last_basename, watch, queue, loader,
                       loaded, log>>
    BY DEF Upload, initVars, loaderVars
  <1>3. Covered' = Covered /\ Covered \in Nat
    BY <1>2, CoveredStays, CoveredType, NamesAreNat DEF IInv
  <1>4. ThreadsInv'
    BY <1>2 DEF IInv, ThreadsInv, Started
  <1>5. /\ bucket \subseteq Names /\ init_todo \subseteq bucket /\ watch.listed \subseteq bucket
        /\ f \in Nat /\ bucket \subseteq Nat
        /\ last_basename \in Nat /\ watch.last_key \in Nat
    BY NamesAreNat DEF IInv, Shape, TypeOK
  <1>6. \A last, todo : todo \subseteq bucket /\ Ahead(last, todo) => Ahead(last, todo)'
    BY <1>2, <1>5 DEF Ahead
  <1>7. InitInv'
    BY <1>2, <1>3, <1>5, <1>6 DEF IInv, InitInv, Ahead
  <1>8. WatchInv'
    BY <1>2, <1>3, <1>5, <1>6 DEF IInv, WatchInv, Started, Ahead
  <1>9. PipelineInv'
    BY ZenonT(30), <1>2 DEF IInv, PipelineInv, Pipeline
  <1>10. NoFileLost'
    BY <1>2, <1>3, <1>5 DEF IInv, NoFileLost, WatchInv, Started, Queued
  <1>11. QED
    BY <1>1, <1>4, <1>7, <1>8, <1>9, <1>10 DEF IInv

\* Steps that move only a program counter, a notification or a flag.
LEMMA QuietIInv ==
    ASSUME IInv, \/ LoseNotifications \/ FlagExpires \/ WatchStops \/ BackupPoll
                 \/ WaitForNotification \/ Notified \/ DeadlineExceeded \/ WatchFails
                 \/ CallbacksDone \/ LoadFails \/ Retry
                 \/ StopUdfClient \/ StopNotifier \/ NotifierStopped \/ DestroyUdfClient
                 \/ SignalLoader \/ NotifierJoined \/ LoaderJoined
    PROVE  IInv'
  <1>1. Shape /\ ThreadsInv
    BY DEF IInv
  <1>2. CASE LoseNotifications \/ FlagExpires
    <2>1. /\ inbox' \subseteq inbox /\ polled' \in BOOLEAN
          /\ UNCHANGED <<bucket, snapshots, main, init_todo, last_basename, watch,
                         should_stop, queue, loader, stop, loaded, log, udf_client>>
      BY ZenonT(30), <1>1, <1>2
         DEF LoseNotifications, FlagExpires, envVars, initVars, loaderVars, Shape, TypeOK
    <2>2. Shape'
      BY <1>1, <2>1 DEF Shape, TypeOK
    <2>3. ThreadsInv'
      BY <1>1, <2>1 DEF ThreadsInv, Started
    <2>4. QED
      BY <2>1, <2>2, <2>3, Frame DEF Started
  <1>3. CASE \/ WatchStops \/ BackupPoll \/ WaitForNotification \/ Notified
             \/ DeadlineExceeded \/ WatchFails \/ CallbacksDone
    <2>1. /\ watch.pc # "off"
          /\ \E pc \in {"off", "head", "waiting", "listing", "callbacks"} :
                watch' = [watch EXCEPT !.pc = pc]
          /\ inbox' \subseteq inbox
          /\ UNCHANGED <<bucket, snapshots, main, init_todo, last_basename, polled,
                         should_stop, queue, loader, stop, loaded, log, udf_client>>
      BY <1>1, <1>3 DEF WatchStops, BackupPoll, WaitForNotification, Notified,
            DeadlineExceeded, WatchFails, CallbacksDone, envVars, initVars, loaderVars
    <2>2. watch'.last_key = watch.last_key /\ watch'.listed = watch.listed
      BY <1>1, <2>1 DEF Shape
    <2>3. Shape'
      <3>1. watch' \in WatchRecord
        BY <1>1, <2>1 DEF Shape, WatchRecord
      <3>2. watch'.pc \in {"off", "head", "waiting", "listing", "callbacks"}
        BY <3>1 DEF WatchRecord
      <3>3. TypeOK'
        BY <1>1, <2>1, <2>2, <3>2 DEF Shape, TypeOK
      <3>4. QED
        BY <1>1, <2>1, <3>1, <3>3 DEF Shape
    <2>4. ThreadsInv'
      BY <1>1, <2>1, <2>2 DEF ThreadsInv, Started
    <2>5. QED
      BY <2>1, <2>2, <2>3, <2>4, Frame DEF Started
  <1>4. CASE LoadFails \/ Retry
    <2>1. /\ loader.pc \in {"loading", "backoff"}
          /\ \E pc \in {"loading", "backoff"} : loader' = [loader EXCEPT !.pc = pc]
          /\ UNCHANGED <<bucket, snapshots, inbox, main, init_todo, last_basename, watch,
                         polled, should_stop, queue, stop, loaded, log, udf_client>>
      BY <1>4 DEF LoadFails, Retry, AfterFailure, envVars, initVars
    <2>2. loader'.file = loader.file
      BY <1>1, <2>1 DEF Shape
    <2>3. Shape' /\ loader'.pc \in {"loading", "backoff"}
      <3>1. loader' \in LoaderRecord /\ loader'.pc \in {"loading", "backoff"}
        BY <1>1, <2>1 DEF Shape, LoaderRecord
      <3>2. /\ watch \in WatchRecord /\ watch.listed \subseteq bucket
            /\ polled \in BOOLEAN /\ queue \in Seq(DeltaNames)
            /\ log \in Seq(DeltaNames) /\ loaded \subseteq DeltaNames
        BY <1>1 DEF Shape, TypeOK, DeltaNames
      <3>3. QED
        BY <1>1, <2>1, <3>1, <3>2, ShapeKept
    <2>4. ThreadsInv'
      BY <1>1, <2>1, <2>2, <2>3 DEF ThreadsInv, Started
    <2>5. QED
      BY <2>1, <2>2, <2>3, <2>4, Frame DEF Started
  <1>5. CASE \/ StopUdfClient \/ StopNotifier \/ NotifierStopped \/ DestroyUdfClient
             \/ SignalLoader \/ NotifierJoined \/ LoaderJoined
    <2>1. /\ Started /\ Started' /\ main # "creating" /\ main' # "creating"
          /\ main' \in {"shutting_down", "joining_notifier", "shut_down", "destroying",
                        "joining_both", "joining_loader", "destroyed"}
          /\ should_stop' \in BOOLEAN /\ stop' \in BOOLEAN
          /\ udf_client' \in {"running", "stopped", "destroyed"}
          /\ UNCHANGED <<bucket, snapshots, inbox, init_todo, last_basename, watch,
                         polled, queue, loader, loaded, log>>
      BY ZenonT(30), <1>1, <1>5
         DEF StopUdfClient, StopNotifier, NotifierStopped, DestroyUdfClient, SignalLoader,
             NotifierJoined, LoaderJoined, envVars, initVars, loaderVars, Started, Shape,
             TypeOK
    <2>2. Shape'
      BY <1>1, <2>1 DEF Shape, TypeOK
    <2>3. ThreadsInv'
      BY <1>1, <2>1 DEF ThreadsInv, Started
    <2>4. QED
      BY <2>1, <2>2, <2>3, Frame
  <1>6. QED
    BY <1>2, <1>3, <1>4, <1>5

\* Init starts over from what the snapshot covers.
LEMMA ListForInitIInv ==
    ASSUME IInv, ListForInit
    PROVE  IInv'
  <1>1. /\ main = "creating" /\ main' = "loading"
        /\ last_basename' = Covered
        /\ init_todo' = {f \in bucket : f > Covered}
        /\ UNCHANGED <<bucket, snapshots, inbox, watch, polled, should_stop, queue, loader,
                       stop, loaded, log, udf_client>>
    BY SMTT(30) DEF ListForInit, Covered, ListBlobs, envVars, loaderVars
  <1>2. Covered' = Covered /\ Covered \in Names \cup {None} /\ Covered \in Nat
    BY <1>1, CoveredStays, CoveredType, NamesAreNat DEF IInv
  <1>3. ~Started /\ ~Started'
    BY <1>1 DEF Started
  <1>4. bucket \subseteq Nat
    BY NamesAreNat DEF IInv, Shape, TypeOK
  <1>5. Shape'
    BY <1>1, <1>2 DEF IInv, Shape, TypeOK
  <1>6. ThreadsInv' /\ WatchInv' /\ NoFileLost'
    BY <1>1, <1>3 DEF IInv, ThreadsInv, WatchInv, NoFileLost
  <1>7. InitInv'
    BY <1>1, <1>2, <1>4 DEF InitInv, Ahead
  <1>8. Pipeline' = <<>>
    BY <1>1, <1>3, EmptyPipeline DEF IInv
  <1>9. PipelineInv'
    BY <1>8 DEF PipelineInv
  <1>10. QED
    BY <1>5, <1>6, <1>7, <1>9 DEF IInv

\* Init takes the oldest file of its listing.
LEMMA InitLoadsIInv ==
    ASSUME IInv, NEW f \in Names, InitLoads(f)
    PROVE  IInv'
  <1>1. /\ main = "loading" /\ init_todo # {} /\ f = Min(init_todo)
        /\ init_todo' = init_todo \ {f}
        /\ UNCHANGED <<bucket, snapshots, inbox, main, watch, polled, should_stop, queue,
                       loader, stop, log, udf_client>>
    BY DEF InitLoads, envVars
  <1>2. Covered' = Covered /\ Covered \in Nat
    BY <1>1, CoveredStays, CoveredType, NamesAreNat DEF IInv
  <1>3. ~Started /\ ~Started'
    BY <1>1 DEF Started
  <1>4. bucket \subseteq Nat /\ init_todo \subseteq bucket /\ last_basename \in Nat
    BY NamesAreNat DEF IInv, Shape, TypeOK
  <1>5. f \in init_todo /\ \A h \in init_todo : f <= h
    BY <1>1, <1>4, LeastName
  <1>6. \/ f \in Malformed /\ UNCHANGED <<last_basename, loaded>>
        \/ f \notin Malformed /\ last_basename' = f /\ loaded' = loaded \cup {f}
    BY DEF InitLoads, IsDeltaFilename
  <1>7. Shape'
    BY <1>1, <1>6 DEF IInv, Shape, TypeOK
  <1>8. ThreadsInv' /\ WatchInv' /\ NoFileLost'
    BY <1>1, <1>3 DEF IInv, ThreadsInv, WatchInv, NoFileLost
  <1>9. InitInv'
    <2>1. /\ Covered <= last_basename /\ Ahead(last_basename, init_todo)
          /\ last_basename \in bucket \cup {Covered}
          /\ \A g \in bucket \ Malformed :
                Covered < g /\ g <= last_basename => g \in loaded
      BY <1>1 DEF IInv, InitInv
    <2>2. CASE f \in Malformed /\ UNCHANGED <<last_basename, loaded>>
      <3>1. Ahead(last_basename, init_todo)'
        BY <1>1, <2>1, <2>2 DEF Ahead
      <3>2. QED
        BY <1>1, <1>2, <2>1, <2>2, <3>1 DEF InitInv
    <2>3. CASE f \notin Malformed /\ last_basename' = f /\ loaded' = loaded \cup {f}
      <3>1. last_basename < f
        BY <1>5, <2>1 DEF Ahead
      <3>2. \A h \in init_todo' : f < h
        BY <1>1, <1>4, <1>5
      <3>3. \A g \in bucket \ Malformed : \A h \in init_todo' :
               f < g /\ g < h => g \in init_todo'
        BY <1>1, <1>4, <1>5, <2>1, <3>1 DEF Ahead
      <3>4. Ahead(last_basename, init_todo)'
        BY <1>1, <2>3, <3>2, <3>3 DEF Ahead
      <3>5. \A g \in bucket \ Malformed : Covered < g /\ g <= f => g \in loaded'
        BY <1>4, <1>5, <2>1, <2>3 DEF Ahead
      <3>6. QED
        BY <1>1, <1>2, <1>4, <1>5, <2>1, <2>3, <3>1, <3>4, <3>5 DEF InitInv
    <2>4. QED
      BY <1>6, <2>2, <2>3
  <1>10. Pipeline' = <<>>
    BY <1>1, <1>3, EmptyPipeline DEF IInv
  <1>11. PipelineInv'
    BY <1>10 DEF PipelineInv
  <1>12. QED
    BY <1>7, <1>8, <1>9, <1>11 DEF IInv

\* A failed Init leaves nothing but what it has put into the cache.
LEMMA InitFailsIInv ==
    ASSUME IInv, InitFails
    PROVE  IInv'
  <1>1. /\ main = "loading" /\ main' = "creating"
        /\ init_todo' = {} /\ last_basename' = None
        /\ UNCHANGED <<bucket, snapshots, inbox, watch, polled, should_stop, queue,
                       loader, stop, loaded, log, udf_client>>
    BY DEF InitFails, envVars, loaderVars
  <1>2. ~Started /\ ~Started'
    BY <1>1 DEF Started
  <1>3. Shape'
    BY <1>1 DEF IInv, Shape, TypeOK
  <1>4. ThreadsInv' /\ WatchInv' /\ NoFileLost' /\ InitInv'
    BY <1>1, <1>2 DEF IInv, ThreadsInv, WatchInv, NoFileLost, InitInv
  <1>5. Pipeline' = <<>>
    BY <1>1, <1>2, EmptyPipeline DEF IInv
  <1>6. PipelineInv'
    BY <1>5 DEF PipelineInv
  <1>7. QED
    BY <1>3, <1>4, <1>6 DEF IInv

\* The notifier takes over where Init ended.
LEMMA StartIInv ==
    ASSUME IInv, Start
    PROVE  IInv'
  <1>1. /\ main = "loading" /\ init_todo = {} /\ main' = "serving"
        /\ watch' = [watch EXCEPT !.pc = "head", !.last_key = last_basename]
        /\ loader' = [loader EXCEPT !.pc = "waiting"]
        /\ UNCHANGED <<bucket, snapshots, inbox, init_todo, last_basename, polled,
                       should_stop, queue, stop, loaded, log, udf_client>>
    BY DEF Start, envVars, initVars
  <1>2. ~Started /\ Started'
    BY <1>1 DEF Started
  <1>3. Covered' = Covered /\ last_basename \in Nat
    BY <1>1, CoveredStays, NamesAreNat DEF IInv, Shape, TypeOK
  <1>4. Shape'
    <2>1. Shape /\ TypeOK /\ last_basename \in Names \cup {None}
      BY DEF IInv, Shape, TypeOK
    <2>2. /\ watch' \in WatchRecord /\ watch'.pc = "head"
          /\ watch'.last_key = last_basename /\ watch'.listed = watch.listed
      BY <1>1, <2>1 DEF Shape, WatchRecord
    <2>3. loader' \in LoaderRecord /\ loader'.pc = "waiting" /\ loader'.file = loader.file
      BY <1>1, <2>1 DEF Shape, LoaderRecord
    <2>4. TypeOK'
      BY <1>1, <2>1, <2>2, <2>3 DEF TypeOK
    <2>5. QED
      BY <1>1, <2>1, <2>2, <2>3, <2>4 DEF Shape
  <1>5. /\ watch'.last_key = last_basename /\ watch'.listed = {}
        /\ loader'.pc = "waiting" /\ loader'.file = None
    BY <1>1, <1>2 DEF IInv, Shape, ThreadsInv
  <1>6. ThreadsInv'
    BY <1>1, <1>2, <1>5 DEF IInv, ThreadsInv
  <1>7. InitInv'
    BY <1>1, <1>3 DEF IInv, InitInv, Ahead
  <1>8. WatchInv'
    BY <1>1, <1>3, <1>5 DEF IInv, InitInv, WatchInv, Ahead
  <1>9. Pipeline' = <<>>
    <2>1. loader'.file = loader.file
      BY <1>2, <1>5 DEF IInv, ThreadsInv
    <2>2. QED
      BY <1>1, <1>2, <2>1, EmptyPipeline DEF IInv
  <1>10. PipelineInv'
    BY <1>9 DEF PipelineInv
  <1>11. NoFileLost'
    BY <1>1, <1>3, <1>5 DEF IInv, InitInv, NoFileLost
  <1>12. QED
    BY <1>4, <1>6, <1>7, <1>8, <1>10, <1>11 DEF IInv

-----------------------------------------------------------------------------
\* What Head, Tail and Append do to a sequence and to its elements.
LEMMA FirstAndRest ==
    ASSUME NEW S, NEW s \in Seq(S), s # <<>>
    PROVE  /\ Head(s) \in S /\ Tail(s) \in Seq(S)
           /\ s = <<Head(s)>> \o Tail(s)
           /\ Range(s) = {Head(s)} \cup Range(Tail(s))
  <1>1. /\ Head(s) \in S /\ Tail(s) \in Seq(S) /\ Len(s) \in Nat /\ Len(s) > 0
        /\ Len(Tail(s)) = Len(s) - 1
        /\ \A i \in 1 .. Len(s) - 1 : Tail(s)[i] = s[i + 1]
        /\ Head(s) = s[1]
        /\ DOMAIN s = 1 .. Len(s) /\ DOMAIN Tail(s) = 1 .. Len(s) - 1
    OBVIOUS
  <1>2. s = <<Head(s)>> \o Tail(s)
    <2>1. <<Head(s)>> \in Seq(S)
      BY <1>1
    <2>2. /\ <<Head(s)>> \o Tail(s) \in Seq(S)
          /\ Len(<<Head(s)>> \o Tail(s)) = Len(s)
          /\ \A i \in 1 .. Len(s) : (<<Head(s)>> \o Tail(s))[i] = s[i]
      BY <1>1, <2>1
    <2>3. QED
      BY <2>2, SeqEqual
  <1>3. ASSUME NEW x \in Range(s)
        PROVE  x \in {Head(s)} \cup Range(Tail(s))
    <2>1. PICK i \in 1 .. Len(s) : x = s[i]
      BY <1>1, <1>3 DEF Range
    <2>2. CASE i = 1
      BY <1>1, <2>1, <2>2
    <2>3. CASE i # 1
      <3>1. i - 1 \in 1 .. Len(s) - 1 /\ Tail(s)[i - 1] = x
        BY <1>1, <2>1, <2>3
      <3>2. QED
        BY <1>1, <3>1 DEF Range
    <2>4. QED
      BY <2>2, <2>3
  <1>4. ASSUME NEW x \in {Head(s)} \cup Range(Tail(s))
        PROVE  x \in Range(s)
    <2>1. CASE x = Head(s)
      BY <1>1, <2>1 DEF Range
    <2>2. CASE x \in Range(Tail(s))
      <3>1. PICK i \in 1 .. Len(s) - 1 : x = Tail(s)[i]
        BY <1>1, <2>2 DEF Range
      <3>2. i + 1 \in 1 .. Len(s) /\ x = s[i + 1]
        BY <1>1, <3>1
      <3>3. QED
        BY <1>1, <3>2 DEF Range
    <2>3. QED
      BY <1>4, <2>1, <2>2
  <1>5. QED
    BY <1>1, <1>2, <1>3, <1>4

\* Appending adds one element.
LEMMA AppendedSet ==
    ASSUME NEW S, NEW s \in Seq(S), NEW e \in S
    PROVE  Range(Append(s, e)) = Range(s) \cup {e}
  <1>1. /\ Len(s) \in Nat /\ DOMAIN s = 1 .. Len(s)
        /\ DOMAIN Append(s, e) = 1 .. Len(s) + 1
        /\ \A i \in 1 .. Len(s) : Append(s, e)[i] = s[i]
        /\ Append(s, e)[Len(s) + 1] = e
    OBVIOUS
  <1>2. \A x \in Range(Append(s, e)) : x \in Range(s) \cup {e}
    BY <1>1 DEF Range
  <1>3. \A x \in Range(s) : x \in Range(Append(s, e))
    BY <1>1 DEF Range
  <1>4. e \in Range(Append(s, e))
    BY <1>1 DEF Range
  <1>5. QED
    BY <1>2, <1>3, <1>4

\* An element added at the end of the second part is added at the end of the whole.
LEMMA ConcatAppend ==
    ASSUME NEW S, NEW s \in Seq(S), NEW t \in Seq(S), NEW e \in S
    PROVE  s \o Append(t, e) = Append(s \o t, e)
  <1>1. <<e>> \in Seq(S) /\ s \o t \in Seq(S)
    BY ConcatProperties
  <1>2. s \o (t \o <<e>>) = (s \o t) \o <<e>>
    BY <1>1, ConcatAssociative
  <1>3. Append(t, e) = t \o <<e>>
    BY AppendIsConcat
  <1>4. Append(s \o t, e) = (s \o t) \o <<e>>
    BY <1>1, AppendIsConcat
  <1>5. QED
    BY <1>2, <1>3, <1>4

\* A new listing holds every file after the last key.
LEMMA ListNewBlobsIInv ==
    ASSUME IInv, ListNewBlobs
    PROVE  IInv'
  <1>1. /\ watch.pc = "listing" /\ polled' = TRUE
        /\ watch' = [watch EXCEPT !.pc = "callbacks", !.listed = ListBlobs(watch.last_key)]
        /\ UNCHANGED <<bucket, snapshots, inbox, main, init_todo, last_basename,
                       should_stop, queue, loader, stop, loaded, log, udf_client>>
    BY DEF ListNewBlobs, envVars, initVars, loaderVars
  <1>2. /\ watch'.pc = "callbacks" /\ watch'.last_key = watch.last_key
        /\ watch'.listed = {f \in bucket : f > watch.last_key}
    BY <1>1 DEF IInv, Shape, ListBlobs
  <1>3. Started /\ Started'
    BY <1>1 DEF IInv, ThreadsInv, Started
  <1>4. Covered' = Covered /\ watch.last_key \in Nat /\ bucket \subseteq Nat
    BY <1>1, CoveredStays, NamesAreNat DEF IInv, Shape, TypeOK
  <1>5. Shape'
    <2>1. ListBlobs(watch.last_key) \subseteq bucket /\ bucket \subseteq Names
      BY DEF ListBlobs, IInv, Shape, TypeOK
    <2>2. watch' \in WatchRecord
      BY <1>1, <2>1 DEF IInv, Shape, WatchRecord
    <2>3. /\ Shape /\ loader \in LoaderRecord /\ queue \in Seq(DeltaNames)
          /\ log \in Seq(DeltaNames) /\ loaded \subseteq DeltaNames
      BY DEF IInv, Shape, TypeOK, DeltaNames
    <2>4. QED
      BY <1>1, <1>2, <2>2, <2>3, ShapeKept
  <1>6. ThreadsInv' /\ InitInv'
    BY <1>1, <1>3, <1>4 DEF IInv, ThreadsInv, InitInv, Ahead
  <1>7. WatchInv'
    BY <1>1, <1>2, <1>3, <1>4 DEF IInv, WatchInv, Ahead
  <1>8. PipelineInv'
    BY <1>1, <1>2 DEF IInv, PipelineInv, Pipeline
  <1>9. NoFileLost'
    BY <1>1, <1>2, <1>3, <1>4 DEF IInv, NoFileLost, Queued
  <1>10. QED
    BY <1>5, <1>6, <1>7, <1>8, <1>9 DEF IInv

\* The oldest file of the listing goes to the end of the pipeline, after
\* everything in it, or is passed over because it is no delta file.
LEMMA CallbackIInv ==
    ASSUME IInv, Callback
    PROVE  IInv'
  <1> DEFINE f == Min(watch.listed)
  <1>1. /\ watch.pc = "callbacks" /\ watch.listed # {}
        /\ UNCHANGED <<bucket, snapshots, inbox, main, init_todo, last_basename, polled,
                       should_stop, loader, stop, loaded, log, udf_client>>
    BY DEF Callback, envVars, initVars
  <1>2. Started /\ Started'
    BY <1>1 DEF IInv, ThreadsInv, Started
  <1>3. /\ watch.listed \subseteq bucket /\ bucket \subseteq Names /\ bucket \subseteq Nat
        /\ watch.last_key \in Nat /\ last_basename \in Nat
    BY ZenonT(30), NamesAreNat DEF IInv, Shape, TypeOK
  <1>4. f \in watch.listed /\ f \in bucket /\ f \in Nat /\ \A h \in watch.listed : f <= h
    BY ZenonT(30), <1>1, <1>3, LeastName
  <1> HIDE DEF f
  <1>5. Covered' = Covered
    BY <1>1, CoveredStays
  <1>6. /\ last_basename <= watch.last_key
        /\ watch.last_key \in bucket \cup {Covered}
        /\ Ahead(watch.last_key, watch.listed)
    BY <1>2 DEF IInv, WatchInv
  <1>7. watch.last_key < f
    BY <1>4, <1>6 DEF Ahead
  <1>8. InitInv'
    BY <1>1, <1>5 DEF IInv, InitInv, Ahead
  <1>9. /\ queue \in Seq(DeltaNames) /\ log \in Seq(DeltaNames)
        /\ loader.file \in DeltaNames \cup {None}
        /\ \A g \in DeltaNames : g \in Nat /\ g # None
        /\ Shape /\ loader \in LoaderRecord /\ loaded \subseteq DeltaNames
        /\ polled \in BOOLEAN
    BY NamesAreNat DEF IInv, Shape, TypeOK, DeltaNames
  <1>10. CASE f \notin Malformed
    <2>1. /\ queue' = Append(queue, f)
          /\ watch' = [watch EXCEPT !.last_key = f, !.listed = @ \ {f}]
      BY <1>3, <1>4, <1>10 DEF Callback, f, IsDeltaFilename, EnqueueNewFilesToProcess
    <2>2. /\ watch'.pc = "callbacks" /\ watch'.last_key = f
          /\ watch'.listed = watch.listed \ {f}
      BY <1>1, <2>1 DEF IInv, Shape
    <2>3. f \in DeltaNames
      BY <1>3, <1>4, <1>10 DEF DeltaNames
    <2>4. queue' \in Seq(DeltaNames)
      BY <1>9, <2>1, <2>3, AppendProperties
    <2>5. Shape'
      <3>1. watch' \in WatchRecord
        BY <1>3, <1>4, <2>1 DEF IInv, Shape, WatchRecord
      <3>2. watch'.listed \subseteq bucket
        BY <1>3, <2>2
      <3>3. QED
        BY <1>1, <1>9, <2>4, <3>1, <3>2, ShapeKept
    <2>6. ThreadsInv'
      BY <1>1, <1>2 DEF IInv, ThreadsInv
    <2>7. WatchInv'
      <3>1. ASSUME NEW h \in watch'.listed
            PROVE  f < h
        <4>1. h \in watch.listed /\ h # f /\ h \in Nat
          BY ZenonT(30), <1>3, <2>2
        <4>2. QED
          BY <1>4, <4>1
      <3>2. \A g \in bucket \ Malformed : \A h \in watch'.listed :
               f < g /\ g < h => g \in watch'.listed
        BY <1>3, <1>4, <1>6, <1>7, <2>2 DEF Ahead
      <3>3. Ahead(watch.last_key, watch.listed)'
        BY <1>1, <2>2, <3>1, <3>2 DEF Ahead
      <3>4. last_basename' <= watch'.last_key /\ watch'.last_key \in bucket'
        <4>1. watch'.last_key = f /\ last_basename' = last_basename /\ bucket' = bucket
          BY <1>1, <2>2
        <4>2. last_basename <= f
          BY <1>3, <1>4, <1>6, <1>7
        <4>3. QED
          BY <1>4, <4>1, <4>2
      <3>5. QED
        BY <3>3, <3>4 DEF WatchInv
    <2>8. Pipeline' = Append(Pipeline, f) /\ Pipeline \in Seq(DeltaNames)
      <3> DEFINE busy == IF loader.file = None THEN <<>> ELSE <<loader.file>>
      <3>1. busy \in Seq(DeltaNames)
        <4>1. CASE loader.file = None
          BY <4>1
        <4>2. CASE loader.file # None
          BY <1>9, <4>2
        <4>3. QED
          BY <4>1, <4>2
      <3> HIDE DEF busy
      <3> DEFINE taken == log \o busy
      <3>2. taken \in Seq(DeltaNames)
        BY <1>9, <3>1, ConcatProperties
      <3>3. Pipeline = taken \o queue /\ Pipeline' = taken \o queue'
        BY <1>1 DEF Pipeline, busy
      <3> HIDE DEF taken
      <3>4. queue \in Seq(DeltaNames)
        BY <1>9
      <3>5. taken \o Append(queue, f) = Append(taken \o queue, f)
        BY SMTT(30), <2>3, <3>2, <3>4, ConcatAppend
      <3>6. taken \o queue \in Seq(DeltaNames)
        BY <3>2, <3>4, ConcatProperties
      <3>7. QED
        BY <2>1, <3>3, <3>5, <3>6
    <2>9. PipelineInv'
      <3> DEFINE p == Pipeline
      <3>1. /\ Len(p) \in Nat /\ DOMAIN p = 1 .. Len(p)
            /\ DOMAIN Pipeline' = 1 .. Len(p) + 1
            /\ \A i \in 1 .. Len(p) : Pipeline'[i] = p[i] /\ p[i] \in Nat
            /\ Pipeline'[Len(p) + 1] = f
        BY <1>9, <2>3, <2>8
      <3>2. \A i \in 1 .. Len(p) : last_basename < p[i] /\ p[i] <= watch.last_key
        BY <3>1 DEF IInv, PipelineInv
      <3>3. \A i, j \in 1 .. Len(p) : i < j => p[i] < p[j]
        BY <3>1 DEF IInv, PipelineInv
      <3> HIDE DEF p
      <3>4. \A i \in 1 .. Len(p) + 1 : last_basename < Pipeline'[i] /\ Pipeline'[i] <= f
        <4>1. last_basename \in Nat /\ watch.last_key \in Nat /\ f \in Nat /\ last_basename < f
          BY <1>3, <1>4, <1>6, <1>7
        <4>2. \A i \in 1 .. Len(p) : last_basename < Pipeline'[i] /\ Pipeline'[i] <= f
          BY <1>7, <3>1, <3>2, <4>1
        <4>3. QED
          BY <3>1, <4>1, <4>2
      <3>5. \A i, j \in 1 .. Len(p) + 1 : i < j => Pipeline'[i] < Pipeline'[j]
        <4> SUFFICES ASSUME NEW i \in 1 .. Len(p) + 1, NEW j \in 1 .. Len(p) + 1, i < j
                     PROVE  Pipeline'[i] < Pipeline'[j]
          OBVIOUS
        <4>1. i \in 1 .. Len(p)
          BY <3>1
        <4>2. CASE j = Len(p) + 1
          BY <1>3, <1>4, <1>7, <3>1, <3>2, <4>1, <4>2
        <4>3. CASE j \in 1 .. Len(p)
          BY <3>1, <3>3, <4>1, <4>3
        <4>4. QED
          BY <3>1, <4>2, <4>3
      <3>6. QED
        BY <1>1, <2>2, <3>1, <3>4, <3>5 DEF PipelineInv
    <2>10. NoFileLost'
      <3>1. Queued' = Queued \cup {f}
        BY <1>9, <2>1, <2>3, AppendedSet DEF Queued
      <3>2. \A g \in bucket \ Malformed : g <= f => g <= watch.last_key \/ g = f
        BY <1>3, <1>4, <1>6 DEF Ahead
      <3>3. QED
        BY <1>1, <1>2, <1>5, <2>2, <3>1, <3>2 DEF IInv, NoFileLost
    <2>11. QED
      BY <1>8, <2>5, <2>6, <2>7, <2>9, <2>10 DEF IInv
  <1>11. CASE f \in Malformed
    <2>1. UNCHANGED queue /\ watch' = [watch EXCEPT !.listed = @ \ {f}]
      BY <1>3, <1>4, <1>11 DEF Callback, f, IsDeltaFilename
    <2>2. /\ watch'.pc = "callbacks" /\ watch'.last_key = watch.last_key
          /\ watch'.listed = watch.listed \ {f}
      BY <1>1, <2>1 DEF IInv, Shape
    <2>3. Shape'
      <3>1. watch' \in WatchRecord
        BY <2>1 DEF IInv, Shape, WatchRecord
      <3>2. watch'.listed \subseteq bucket
        BY <1>3, <2>2
      <3>3. QED
        BY <1>1, <1>9, <2>1, <3>1, <3>2, ShapeKept
    <2>4. ThreadsInv'
      BY <1>1, <1>2 DEF IInv, ThreadsInv
    <2>5. WatchInv'
      BY <1>1, <1>5, <1>6, <1>11, <2>2 DEF WatchInv, Ahead
    <2>6. PipelineInv'
      BY <1>1, <2>1, <2>2 DEF IInv, PipelineInv, Pipeline
    <2>7. NoFileLost'
      BY <1>1, <1>2, <1>5, <2>1, <2>2 DEF IInv, NoFileLost, Queued
    <2>8. QED
      BY <1>8, <2>3, <2>4, <2>5, <2>6, <2>7 DEF IInv
  <1>12. QED
    BY <1>10, <1>11

\* A file moves from the queue to the loader thread, and stays in its place in
\* the pipeline.
LEMMA TakeFileIInv ==
    ASSUME IInv, TakeFile
    PROVE  IInv'
  <1>1. /\ loader.pc = "waiting"
        /\ UNCHANGED <<bucket, snapshots, inbox, main, init_todo, last_basename, watch,
                       polled, should_stop, stop, loaded, log, udf_client>>
    BY DEF TakeFile, envVars, initVars
  <1>2. loader.file = None /\ Started /\ Started'
    BY <1>1 DEF IInv, ThreadsInv, Started
  <1>3. Shape /\ ThreadsInv /\ stop \in BOOLEAN
    BY DEF IInv, Shape, TypeOK
  <1>4. CASE stop
    <2>1. UNCHANGED queue /\ loader' = [loader EXCEPT !.pc = "stopped"]
      BY <1>4 DEF TakeFile
    <2>2. loader'.pc = "stopped" /\ loader'.file = loader.file
      BY <1>3, <2>1 DEF Shape
    <2>3. Shape'
      <3>1. loader' \in LoaderRecord
        BY <1>3, <2>1 DEF Shape, LoaderRecord
      <3>2. /\ watch \in WatchRecord /\ watch.listed \subseteq bucket
            /\ polled \in BOOLEAN /\ queue \in Seq(DeltaNames)
            /\ log \in Seq(DeltaNames) /\ loaded \subseteq DeltaNames
        BY <1>3 DEF Shape, TypeOK, DeltaNames
      <3>3. QED
        BY <1>1, <1>3, <2>1, <3>1, <3>2, ShapeKept
    <2>4. ThreadsInv'
      BY <1>1, <1>2, <1>3, <2>2 DEF ThreadsInv
    <2>5. QED
      BY <1>1, <1>2, <2>1, <2>2, <2>3, <2>4, Frame
  <1>5. CASE ~stop
    <2>1. queue \in Seq(DeltaNames) /\ queue # <<>> /\ log \in Seq(DeltaNames)
      BY <1>3, <1>5 DEF TakeFile, HasNewEventToProcess, Shape, TypeOK, DeltaNames
    <2>2. /\ Head(queue) \in DeltaNames /\ Tail(queue) \in Seq(DeltaNames)
          /\ queue = <<Head(queue)>> \o Tail(queue)
          /\ Range(queue) = {Head(queue)} \cup Range(Tail(queue))
      BY <2>1, FirstAndRest
    <2>3. /\ queue' = Tail(queue)
          /\ loader' = [pc |-> "loading", file |-> Head(queue)]
      BY <1>5, <2>2 DEF TakeFile, IsDeltaFilename, DeltaNames
    <2>4. /\ loader'.pc = "loading" /\ loader'.file = Head(queue)
          /\ loader'.file \in DeltaNames /\ loader'.file # None
      BY <2>2, <2>3, NamesAreNat DEF DeltaNames
    <2>5. Shape'
      <3>1. loader' \in LoaderRecord
        BY <2>2, <2>3 DEF LoaderRecord
      <3>2. /\ watch \in WatchRecord /\ watch.listed \subseteq bucket
            /\ polled \in BOOLEAN /\ loaded \subseteq DeltaNames
        BY <1>3 DEF Shape, TypeOK, DeltaNames
      <3>3. QED
        BY <1>1, <1>3, <2>1, <2>2, <2>3, <3>1, <3>2, ShapeKept
    <2>6. ThreadsInv'
      BY <1>1, <1>2, <1>3, <2>4 DEF ThreadsInv
    <2>7. Covered' = Covered
      BY <1>1, CoveredStays
    <2>8. InitInv' /\ WatchInv'
      BY <1>1, <1>2, <2>7 DEF IInv, InitInv, WatchInv, Ahead
    <2>9. Pipeline' = Pipeline
      <3>1. Pipeline = (log \o <<>>) \o queue
        BY <1>2 DEF Pipeline
      <3>2. Pipeline' = (log \o <<Head(queue)>>) \o Tail(queue)
        BY ZenonT(30), <1>1, <2>3, <2>4 DEF Pipeline
      <3>3. <<Head(queue)>> \in Seq(DeltaNames)
        BY <2>2
      <3>4. (log \o <<Head(queue)>>) \o Tail(queue) = log \o (<<Head(queue)>> \o Tail(queue))
        <4>1. /\ Tail(queue) \in Seq(DeltaNames) /\ log \in Seq(DeltaNames)
              /\ <<Head(queue)>> \in Seq(DeltaNames)
          BY <2>1, <2>2, <3>3
        <4>2. QED
          BY SMTT(30), <4>1, ConcatAssociative
      <3>5. log \o <<>> = log
        BY <2>1, ConcatEmptySeq
      <3>6. QED
        BY <2>2, <3>1, <3>2, <3>4, <3>5
    <2>10. PipelineInv'
      BY <1>1, <2>9 DEF IInv, PipelineInv
    <2>11. NoFileLost'
      <3>1. Queued = {loader'.file} \cup Queued'
        BY <2>2, <2>3, <2>4 DEF Queued
      <3>2. \A f \in bucket : f # loader.file
        BY <1>2, <1>3, NamesAreNat DEF Shape, TypeOK
      <3>3. QED
        BY <1>1, <1>2, <2>7, <3>1, <3>2 DEF IInv, NoFileLost
    <2>12. QED
      BY <2>5, <2>6, <2>8, <2>10, <2>11 DEF IInv
  <1>6. QED
    BY <1>4, <1>5

\* A file that is loaded moves from the loader thread to the log.
LEMMA LoadSucceedsIInv ==
    ASSUME IInv, LoadSucceeds
    PROVE  IInv'
  <1>1. /\ loader.pc = "loading"
        /\ loaded' = loaded \cup {loader.file}
        /\ log' = Append(log, loader.file)
        /\ loader' = [pc |-> "waiting", file |-> None]
        /\ UNCHANGED <<bucket, snapshots, inbox, main, init_todo, last_basename, watch,
                       polled, should_stop, queue, stop, udf_client>>
    BY DEF LoadSucceeds, envVars, initVars
  <1>2. loader'.pc = "waiting" /\ loader'.file = None
    BY <1>1
  <1>3. Shape /\ ThreadsInv /\ loader.file # None /\ Started /\ Started'
    BY <1>1 DEF IInv, ThreadsInv, Started
  <1>4. /\ loader.file \in DeltaNames /\ log \in Seq(DeltaNames) /\ queue \in Seq(DeltaNames)
    BY <1>3 DEF Shape, TypeOK, DeltaNames
  <1>5. log' \in Seq(DeltaNames) /\ log' = log \o <<loader.file>>
    <2>1. log' \in Seq(DeltaNames)
      BY Zenon, <1>1, <1>4, AppendProperties
    <2>2. log' = log \o <<loader.file>>
      BY Zenon, <1>1, <1>4, AppendIsConcat
    <2>3. QED
      BY <2>1, <2>2
  <1>6. Shape'
    <2>1. loader' \in LoaderRecord
      BY <1>1 DEF LoaderRecord
    <2>2. /\ watch \in WatchRecord /\ watch.listed \subseteq bucket
          /\ polled \in BOOLEAN /\ loaded \subseteq DeltaNames
      BY <1>3 DEF Shape, TypeOK, DeltaNames
    <2>3. loaded' \subseteq DeltaNames
      BY <1>1, <1>4, <2>2
    <2>4. QED
      BY <1>1, <1>3, <1>4, <1>5, <2>1, <2>2, <2>3, ShapeKept
  <1>7. ThreadsInv'
    BY ZenonT(30), <1>1, <1>2, <1>3 DEF ThreadsInv
  <1>8. Covered' = Covered
    BY <1>1, CoveredStays
  <1>9. InitInv' /\ WatchInv'
    BY <1>1, <1>3, <1>8 DEF IInv, InitInv, WatchInv, Ahead
  <1>10. Pipeline' = Pipeline
    <2>1. Pipeline = (log \o <<loader.file>>) \o queue
      BY <1>3 DEF Pipeline
    <2>2. Pipeline' = (log' \o <<>>) \o queue
      BY <1>1, <1>2 DEF Pipeline
    <2>3. log' \o <<>> = log'
      BY <1>5, ConcatEmptySeq
    <2>4. QED
      BY <1>5, <2>1, <2>2, <2>3
  <1>11. PipelineInv'
    BY <1>1, <1>10 DEF IInv, PipelineInv
  <1>12. NoFileLost'
    BY <1>1, <1>3, <1>8 DEF IInv, NoFileLost, Queued
  <1>13. QED
    BY <1>6, <1>7, <1>9, <1>11, <1>12 DEF IInv

-----------------------------------------------------------------------------
\* Every step of the main thread, the notifier, the loader thread and the
\* environment keeps the invariant.
LEMMA NextIInv == IInv /\ [Next]_vars => IInv'
  <1> SUFFICES ASSUME IInv, [Next]_vars
               PROVE  IInv'
    OBVIOUS
  <1>1. CASE UNCHANGED vars
    <2>1. Shape'
      BY <1>1 DEF vars, IInv, Shape, TypeOK
    <2>2. ThreadsInv' /\ (Started' <=> Started)
      <3>1. ThreadsInv /\ UNCHANGED <<main, init_todo, watch, loader, queue, log>>
        BY <1>1 DEF vars, IInv
      <3>2. QED
        BY <3>1 DEF ThreadsInv, Started
    <2>3. QED
      BY <1>1, <2>1, <2>2, Frame DEF vars
  <1>2. CASE Environment
    BY <1>2, UploadIInv, QuietIInv DEF Environment
  <1>3. CASE Startup
    BY <1>3, ListForInitIInv, InitLoadsIInv, InitFailsIInv, StartIInv DEF Startup
  <1>4. CASE Watch
    BY <1>4, QuietIInv, ListNewBlobsIInv, CallbackIInv DEF Watch, WatchRuns
  <1>5. CASE ProcessNewFiles
    BY <1>5, QuietIInv, TakeFileIInv, LoadSucceedsIInv DEF ProcessNewFiles
  <1>6. CASE Shutdown
    BY <1>6, QuietIInv DEF Shutdown, ShutdownRuns
  <1>7. QED
    BY <1>1, <1>2, <1>3, <1>4, <1>5, <1>6 DEF Next

\* The inductive invariant holds, whatever the bucket, the snapshots, the
\* corrupt and the malformed files.
THEOREM OrchestratorInvariant == Spec => []IInv
  BY InitIInv, NextIInv, PTL DEF Spec

\* Only delta file names reach the queue, the loader thread and the cache.
THEOREM OrchestratorTypeCorrect == Spec => []TypeOK
  <1>1. IInv => TypeOK
    BY DEF IInv, Shape
  <1>2. QED
    BY <1>1, OrchestratorInvariant, PTL

\* No delta file up to the notifier's last key is lost between Init, the
\* listings, the queue and the loader thread.
THEOREM NoFileIsLost == Spec => []NoFileLost
  <1>1. IInv => NoFileLost
    BY DEF IInv
  <1>2. QED
    BY <1>1, OrchestratorInvariant, PTL

\* The loader thread loads files in the order of their names, none twice and
\* none that Init had loaded (DataOrchestratorImpl::ProcessNewFiles).
THEOREM FilesLoadInOrder == Spec => []LoadedInOrder
  <1>1. IInv => LoadedInOrder
    <2> SUFFICES ASSUME IInv
                 PROVE  LoadedInOrder
      OBVIOUS
    <2>1. Pipeline \in Seq(DeltaNames)
      <3> DEFINE busy == IF loader.file = None THEN <<>> ELSE <<loader.file>>
      <3>1. /\ queue \in Seq(DeltaNames) /\ log \in Seq(DeltaNames)
            /\ loader.file \in DeltaNames \cup {None}
        BY DEF IInv, Shape, TypeOK, DeltaNames
      <3>2. busy \in Seq(DeltaNames)
        <4>1. CASE loader.file = None
          BY <4>1
        <4>2. CASE loader.file # None
          BY <3>1, <4>2
        <4>3. QED
          BY <4>1, <4>2
      <3>3. Pipeline = (log \o busy) \o queue
        BY DEF Pipeline
      <3> HIDE DEF busy
      <3>4. QED
        BY <3>1, <3>2, <3>3, ConcatProperties
    <2>2. Pipeline # <<>> => 1 \in DOMAIN Pipeline /\ Head(Pipeline) = Pipeline[1]
      BY <2>1
    <2>3. /\ \A i, j \in DOMAIN Pipeline : i < j => Pipeline[i] < Pipeline[j]
          /\ Pipeline # <<>> => last_basename < Head(Pipeline)
      BY <2>2 DEF IInv, PipelineInv
    <2>4. QED
      BY <2>3 DEF LoadedInOrder, Pipeline
  <1>2. QED
    BY <1>1, OrchestratorInvariant, PTL
=============================================================================
