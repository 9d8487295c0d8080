------------------------------- MODULE MCData -------------------------------
(***************************************************************************)
(* The parts around the data files (readers, storage clients, notifiers)   *)
(* and the tools, each on a small instance.  They do not share variables,  *)
(* so that one part is active in a behaviour.                              *)
(***************************************************************************)
EXTENDS Integers, Sequences, FiniteSets, SequencesExt

CONSTANTS junk,   \* text that cannot be parsed, bytes that are no part of a blob
          Eof

\* Records of commit time t for delta files.  The value id tells a string from the
\* others.  m has the least hash, and x and y have the same.
Rec(key, kind, t, val) == [key |-> key, kind |-> kind, time |-> t, val |-> val]
StringsAt(t, id) == {Rec("k", kind, t, {id}) : kind \in {"put", "del"}}
SetsAt(t) == {Rec("s", "add", t, {"a", "b"}), Rec("s", "add", t, {"a"}), Rec("s", "rem", t, {"a"})}
X(t, id) == Rec("x", "put", t, {id})
Config(t, id) == Rec("", "udf", t, {id})

\* Three delta files for a snapshot, the first one with two records, in any order of time
\* or at the same time: records of one key, of one set, of all keys, and odd ones.  The
\* record of the second file may be as old as those of the first.
FilesOf(q, r, u) == {<<<<x, y>>, <<z>>, <<Rec("k", "put", 4, {"v"})>>>> : x \in q, y \in r, z \in u}
SnapshotContents ==
    UNION {FilesOf(StringsAt(1, "q") \cup StringsAt(2, "q"), StringsAt(1, "r") \cup StringsAt(2, "r"),
                 StringsAt(3, "u") \cup {Rec("k", "put", 2, {"u"}), X(3, "u")}),
           FilesOf(SetsAt(1) \cup SetsAt(2), SetsAt(1) \cup SetsAt(2),
                 {Rec("s", "add", 3, {"a", "b"}), Rec("s", "rem", 3, {"a"})}),
           FilesOf({Rec("k", "put", 1, {"q"}), X(1, "q"), Rec("s", "add", 1, {"a"})},
                 {Rec("k", "del", 2, {"r"}), X(2, "r"), Rec("s", "add", 2, {"b"})},
                 {X(3, "u"), Rec("s", "rem", 3, {"a"})}),
           FilesOf({Rec("m", "put", 1, {"q"}), Rec("y", "put", 1, {"q"}), Rec("", "bad", 1, {"q"}),
                  Config(1, "q"), Config(2, "q")}, {X(1, "r"), Config(1, "r"), X(2, "r")},
                 {X(3, "u"), Config(3, "u")})}
SnapshotHash ==
    [h \in {"k", "m", "s", "x", "y"} |-> CASE h = "k" -> 5 [] h = "m" -> 0 [] h = "s" -> 2
                                           [] OTHER -> 1]

\* CSV and delta files of up to two rows or records of each kind
Strings == SeqOf({"a", "|", "0"}, 2)
Numbers == {-2, 1, 2, 5, junk}
KvRows ==
    [key : {<<"a">>, <<"0">>}, value : Strings, value_type : {"string", "string_set"},
     time : {1}, mutation : {"update"}]
    \cup [key : {<<"a">>}, value : {<<"a">>}, value_type : {"string", junk},
          time : {1, junk}, mutation : {"delete", junk}]
UdfRows ==
    [code : Strings, time : {1, junk}, version : {1, junk}, language : {"javascript", junk}]
MapRows == [logical : Numbers, physical : Numbers]
Kv(value) == [kind |-> "kv", key |-> <<"a">>, time |-> 1, mutation |-> "update", value |-> value]
KvRecords ==
    {Kv([t |-> "string", v |-> s]) : s \in {<<>>, <<"a", "|">>}}
    \cup {Kv([t |-> "set", v |-> s]) : s \in {<<>>, <<<<"|">>>>, <<<<>>>>, <<<<"a">>, <<>>>>,
                                             <<<<"a", "0">>, <<"a">>>>}}
UdfRecords == [kind : {"udf"}, code : {<<>>, <<"a">>}, time : {1}, version : {1, 2}]
MapRecords == [kind : {"map"}, logical : {0, 1}, physical : {-2, 1}]
BadRecords == {Kv([t |-> "none"]), [kind |-> "junk"]}
FormatInputs ==
    [csv |-> [kv |-> SeqOf(KvRows, 2), udf |-> SeqOf(UdfRows, 2), map |-> SeqOf(MapRows, 2)],
     delta |-> [kind \in {"kv", "udf", "map"} |->
                   SeqOf(KvRecords \cup UdfRecords \cup MapRecords \cup BadRecords, 2)]]

\* A file with a key and a record of another kind, and a name that is no delta
\* file's
SimulationFiles == << <<>>, <<"string", "set">> >>

\* Five names and three URLs, of which "e" and "w" have a comma, one shared by two
\* groups, one without a value and one empty.  Both pieces of "e" have values, and
\* one is a name by itself.
Audiences ==
    {{}, {[name |-> "a", ads |-> {"u", "v"}]},
     {[name |-> "a", ads |-> {"u", "v"}], [name |-> "b", ads |-> {"v", "w"}],
      [name |-> "c", ads |-> {}], [name |-> "d", ads |-> {}], [name |-> "e", ads |-> {}]}}
AuctionStored ==
    [k \in {"a", "b", "c", "d", "e", "f", "u", "v", "w", "x"} |->
        CASE k = "c" -> "none" [] k \in {"d", "x"} -> "empty" [] OTHER -> "value"]
AuctionPieces ==
    [k \in DOMAIN AuctionStored |->
        CASE k = "e" -> {"a", "f"} [] k = "w" -> {"f", "x"} [] OTHER -> {k}]
AuctionDirs == [keys |-> "buyer", renderUrls |-> "seller"]

-----------------------------------------------------------------------------
\* The part that runs, and its variables in the order of its module.
VARIABLES active, v1, v2, v3, v4, v5, v6, v7, v8, v9, v10, v11, v12, v13, v14, v15, v16,
          v17

vars == <<active, v1, v2, v3, v4, v5, v6, v7, v8, v9, v10, v11, v12, v13, v14, v15, v16,
          v17>>

Reader == INSTANCE ConcurrentReader
    WITH MaxSize <- 6, MaxThreads <- 4, MaxMinShardSize <- 3, size <- v1,
         num_worker_threads <- v2, min_shard_size_bytes <- v3, records <- v4,
         shards <- v5, task <- v6, read <- v7, status <- v8

Stream == INSTANCE SeekingStream
    WITH BlobSizes <- {0, 1, 5}, BufferSizes <- {0, 1, 3}, Eof <- Eof, Junk <- junk,
         blob <- v1, buffer <- v2, area <- v3, cursor <- v4, limit <- v5, cached <- v6,
         fill <- v7, op <- v8, out <- v9, bad <- v10, end <- v11, state <- v12

Storage == INSTANCE BlobStorage
    WITH NumNames <- 4, Others <- {2}, PageSize <- 2, MaxPuts <- 1, platform <- v1,
         bucket <- v2, writer <- v3, puts <- v4, list <- v5, stayed <- v6, seen <- v7

Notifiers == INSTANCE ChangeNotifiers
    WITH Files <- {"f1", "f2", "f3"}, Malformed <- {"f3"},
         Platforms <- {"local", "s3", "gcp"}, MaxWait <- 3, Poll <- 2, MaxPuts <- 3,
         platform <- v1, dir <- v2, messages <- v3, known <- v4, initial <- v5,
         found <- v6, pc <- v7, left <- v8, result <- v9, stopped <- v10,
         late <- v11, puts <- v12

Commands == INSTANCE BlobCommands
    WITH Names <- {"a", "b"}, Pieces <- 2, MaxCommands <- 1, store <- v1, pc <- v2,
         args <- v3, asked <- v4, silent <- v5, from <- v6, to <- v7, buffer <- v8,
         rest <- v9, output <- v10, broken <- v11, exit <- v12, before <- v13,
         commands <- v14

Snapshot == INSTANCE Snapshot
    WITH Contents <- SnapshotContents, Hash <- SnapshotHash, MinKey <- 0,
         BatchSize <- 2, MaxCommands <- 2, files <- v1, cmd <- v2,
         db <- v3, udf <- v4, out <- v5, snapshot <- v6, commands <- v7

Formats == INSTANCE DataFormats
    WITH Inputs <- FormatInputs, Formats <- {"csv", "delta"}, Width <- 2, Junk <- junk,
         type <- v1, format <- v2, source <- v3, input <- v4, pos <- v5, out <- v6,
         status <- v7, broken <- v8, file <- v9, close <- v10, stage <- v11

Limiter == INSTANCE RateLimiter
    WITH Threads <- {"t1", "t2"}, Amounts <- {1, 2}, Initial <- 1, Rates <- {2, 3},
         Second <- 4, Timeout <- 4, Oversleep <- 2, MaxTime <- 9, now <- v1,
         permits <- v2, rate <- v3, last <- v4, th <- v5, granted <- v6, earned <- v7

Simulation == INSTANCE RequestSimulation
    WITH Workers <- {"w1", "w2"}, Files <- SimulationFiles, FillRates <- {0, 2}, Capacity <- 1,
         MaxBatches <- 1, MaxFailures <- 0, system <- v1, life <- v2, notified <- v3,
         unprocessed <- v4, loader <- v5, failures <- v6, made <- v7, synthetic <- v8,
         batches <- v9, queue <- v10, worker <- v11, orphans <- v12, cnt <- v13,
         total <- v14, reporter <- v15, published <- v16, crashed <- v17

Auction == INSTANCE AuctionData
    WITH Audiences <- Audiences, Stored <- AuctionStored, Pieces <- AuctionPieces,
         KeysPerBatch <- 2, Threads <- 2, Dir <- AuctionDirs, audience <- v1,
         nameOk <- v2, decodes <- v13, side <- v3, pc <- v4, batches <- v5,
         transfer <- v6, processed <- v7, parsing <- v8, output <- v9, written <- v10,
         files <- v11, trouble <- v12

Publisher == INSTANCE RealtimePublisher
    WITH Entries <- <<"a", "b", "c">>, Publishers <- {"p1", "p2"}, Rate <- 2,
         Second <- 1, StartBy <- 1, MaxTime <- 4, now <- v1, queue <- v2, pc <- v3,
         message <- v4, index <- v5, batch_end <- v6, sent <- v7, failed <- v8,
         run <- v9

ASSUME PartsAssumption ==
    /\ Reader!ReaderAssumption
    /\ Stream!StreamAssumption
    /\ Storage!StorageAssumption
    /\ Notifiers!NotifierAssumption
    /\ Commands!CommandsAssumption
    /\ Snapshot!SnapshotAssumption
    /\ Formats!FormatsAssumption
    /\ Limiter!LimiterAssumption
    /\ Simulation!SimulationAssumption
    /\ Auction!AuctionAssumption
    /\ Publisher!PublisherAssumption

Init ==
    \/ active = "reader" /\ Reader!Init /\ v9 = 0 /\ v10 = 0 /\ v11 = 0 /\ v12 = 0
       /\ v13 = 0 /\ v14 = 0 /\ v15 = 0 /\ v16 = 0 /\ v17 = 0
    \/ active = "stream" /\ Stream!Init /\ v13 = 0 /\ v14 = 0
       /\ v15 = 0 /\ v16 = 0 /\ v17 = 0
    \/ active = "storage" /\ Storage!Init /\ v8 = 0 /\ v9 = 0 /\ v10 = 0 /\ v11 = 0 /\ v12 = 0
       /\ v13 = 0 /\ v14 = 0 /\ v15 = 0 /\ v16 = 0 /\ v17 = 0
    \/ active = "notifiers" /\ Notifiers!Init /\ v13 = 0 /\ v14 = 0 /\ v15 = 0 /\ v16 = 0
       /\ v17 = 0
    \/ active = "commands" /\ Commands!Init /\ v15 = 0 /\ v16 = 0 /\ v17 = 0
    \/ active = "snapshot" /\ Snapshot!Init /\ v8 = 0 /\ v9 = 0 /\ v10 = 0 /\ v11 = 0
       /\ v12 = 0 /\ v13 = 0 /\ v14 = 0 /\ v15 = 0 /\ v16 = 0 /\ v17 = 0
    \/ active = "formats" /\ Formats!Init /\ v12 = 0 /\ v13 = 0
       /\ v14 = 0 /\ v15 = 0 /\ v16 = 0 /\ v17 = 0
    \/ active = "limiter" /\ Limiter!Init /\ v8 = 0 /\ v9 = 0 /\ v10 = 0 /\ v11 = 0
       /\ v12 = 0 /\ v13 = 0 /\ v14 = 0 /\ v15 = 0 /\ v16 = 0 /\ v17 = 0
    \/ active = "simulation" /\ Simulation!Init
    \/ active = "auction" /\ Auction!Init /\ v14 = 0 /\ v15 = 0 /\ v16 = 0
       /\ v17 = 0
    \/ active = "publisher" /\ Publisher!Init /\ v10 = 0 /\ v11 = 0 /\ v12 = 0 /\ v13 = 0
       /\ v14 = 0 /\ v15 = 0 /\ v16 = 0 /\ v17 = 0

Next ==
    \/ active = "reader" /\ Reader!Next
       /\ UNCHANGED <<active, v9, v10, v11, v12, v13, v14, v15, v16, v17>>
    \/ active = "stream" /\ Stream!Next
       /\ UNCHANGED <<active, v13, v14, v15, v16, v17>>
    \/ active = "storage" /\ Storage!Next
       /\ UNCHANGED <<active, v8, v9, v10, v11, v12, v13, v14, v15, v16, v17>>
    \/ active = "notifiers" /\ Notifiers!Next
       /\ UNCHANGED <<active, v13, v14, v15, v16, v17>>
    \/ active = "commands" /\ Commands!Next /\ UNCHANGED <<active, v15, v16, v17>>
    \/ active = "snapshot" /\ Snapshot!Next
       /\ UNCHANGED <<active, v8, v9, v10, v11, v12, v13, v14, v15, v16, v17>>
    \/ active = "formats" /\ Formats!Next
       /\ UNCHANGED <<active, v12, v13, v14, v15, v16, v17>>
    \/ active = "limiter" /\ Limiter!Next
       /\ UNCHANGED <<active, v8, v9, v10, v11, v12, v13, v14, v15, v16, v17>>
    \/ active = "simulation" /\ Simulation!Next /\ UNCHANGED active
    \/ active = "auction" /\ Auction!Next /\ UNCHANGED <<active, v14, v15, v16, v17>>
    \/ active = "publisher" /\ Publisher!Next
       /\ UNCHANGED <<active, v10, v11, v12, v13, v14, v15, v16, v17>>

Spec == Init /\ [][Next]_vars

-----------------------------------------------------------------------------
(* Properties *)

\* No record of a file is read by two tasks, and every record was read if
\* ReadStreamRecords returns OK; the ranges of the tasks leave no gap, and there are
\* no more tasks than worker threads.
RecordsAreReadOnce ==
    active = "reader" =>
        /\ Reader!TypeOK
        /\ Reader!ReadExactlyOnce
        /\ Reader!NothingSkipped
        /\ Reader!WithinThreadLimit

\* Reads and seeks over the buffered stream are those of a plain stream over the
\* blob (BlobStream).
StreamIsPlain ==
    /\ active = "stream" => Stream!PlainInit
    /\ [][active = "stream" => Stream!PlainStep]_vars

\* A listing that returns has, in order and once, every blob that was there all the
\* time (on GCS, when its reader failed on the way, only those up to the last one read),
\* and only blobs that were there at some time.  The blob commands remove and copy exactly
\* what they say they did.  The buffer of a stream stays within its size.
StorageIsExact ==
    /\ active = "storage" =>
           /\ Storage!TypeOK
           /\ Storage!ListingComplete
           /\ Storage!ListingExact
    /\ active = "commands" =>
           /\ Commands!TypeOK
           /\ Commands!RemovedAreGone
           /\ Commands!CopyIsExact
    /\ active = "stream" => Stream!TypeOK /\ Stream!BufferBounded

\* A local file is notified once, and not when it was there at first; once it is to
\* stop, the loop over a directory or a queue sleeps or polls at most once more.
FilesAreNotifiedOnce ==
    active = "notifiers" =>
        /\ Notifiers!TypeOK
        /\ Notifiers!LocalFilesNotifiedOnce
        /\ Notifiers!StopEndsSleeping

\* A server that loads a snapshot and the files after it serves for every regular key
\* (see Snapshot: no set values are deleted, times differ, sets and files are in order)
\* what a server that loads the files alone does, unless the snapshot went astray, and the
\* snapshot has at most one update for a key and one configuration.
SnapshotStandsForFiles ==
    active = "snapshot" =>
        /\ Snapshot!TypeOK
        /\ Snapshot!SnapshotStandsForFiles
        /\ Snapshot!SnapshotIsCompact

\* CSV rows without null characters and large shard numbers are the same when they were
\* converted to a delta file and back, and so are the valid records of the chosen type
\* that CSV can represent.  A command that reads CSV and succeeds has written every row,
\* unless Close fails, and a bad row does not keep the rows after it from the output.
ConversionIsExact ==
    active = "formats" =>
        /\ Formats!TypeOK
        /\ Formats!RowsSurvive
        /\ Formats!OkMeansComplete
        /\ Formats!GoodRowsWritten
        /\ Formats!RecordsSurvive

\* The load tool hands out no more permits than the rate allows for the time that
\* has passed, and none after the time-out of a caller; its reports never add up to
\* more responses than there were, and no thread runs once Stop has returned without an
\* error, which it does unless the synthetic generator was left out.
LoadTestIsTrue ==
    /\ active = "limiter" =>
           /\ Limiter!TypeOK
           /\ Limiter!RateIsKept
           /\ Limiter!GrantedInTime
    /\ active = "simulation" =>
           /\ Simulation!TypeOK
           /\ Simulation!NotOverReported
           /\ Simulation!StopStopsAll

\* When nothing went wrong on a side, the auction data generator's file has a record
\* for every key with a value, however keys were cut into batches, where a name with
\* a comma counts as its pieces; a bad answer costs the values of its own batch only,
\* a failed transfer those of its side.  The realtime publisher returns after all its
\* threads, having sent every file, no faster on average than its rate.
PublishedDataAreComplete ==
    /\ active = "auction" =>
           /\ Auction!TypeOK
           /\ Auction!FilesComplete
           /\ Auction!FailedBatchAlone
    /\ active = "publisher" =>
           /\ Publisher!TypeOK
           /\ Publisher!ReturnsAfterAll
           /\ Publisher!RateOnAverage
=============================================================================
