----------------------------- MODULE FileLoading -----------------------------
(***************************************************************************)
(* How the records of data files and realtime messages reach the cache:    *)
(* LoadCacheWithDataFromFile and LoadCacheWithHighPriorityUpdates of       *)
(* components/data_server/data_loading/data_orchestrator.cc, over the      *)
(* ConcurrentStreamRecordReader of                                         *)
(* public/data_loading/readers/riegeli_stream_io.h.                        *)
(*                                                                         *)
(* Files 1 .. NumFiles stand in the order of their names; the first        *)
(* InitFiles are loaded by DataOrchestrator::TryCreate, the others by the  *)
(* data loader thread.  Several threads read a file, each its own byte     *)
(* range, and all of them call the same callback, which updates            *)
(* max_timestamp without a lock.  The cache is that of KeyValueCache.      *)
(***************************************************************************)
EXTENDS KeyValueCache, FiniteSets, FiniteSetsExt

CONSTANTS NumFiles, InitFiles,
          Workers,      \* the threads of one ConcurrentStreamRecordReader
          OwnKeys,      \* the keys whose shard is this server's
          UNSUPPORTED,  \* a value or mutation type the server does not know
          FileContents, \* the possible contents of the files
          MaxFailures   \* bound: failed attempts to read a file

Files == 1 .. NumFiles

\* value NULL: a Delete mutation.
Record == [key : Keys, value : Values \cup {NULL, UNSUPPORTED}, time : Times]

Contents == [Files -> [records : SUBSET Record, own_shard : BOOLEAN]]

ASSUME LoadingAssumption ==
    /\ NumFiles \in Nat /\ InitFiles \in 0 .. NumFiles /\ MaxFailures \in Nat
    /\ OwnKeys \subseteq Keys
    /\ UNSUPPORTED \notin Values \cup {NULL}
    /\ FileContents \subseteq Contents

VARIABLES contents,       \* what the bucket holds, member of FileContents
          current,        \* the file to load next
          reading,        \* the workers are running
          todo,           \* records of the file not yet taken by a worker
          worker,         \* per worker, what it is about to do to max_timestamp
          max_timestamp,
          failed,         \* some shard of this attempt could not be read
          failures,       \* attempts that failed so far
          completed       \* history: files that were read to their end

loadVars == <<contents, current, reading, todo, worker, max_timestamp, failed,
              failures, completed>>

\* A worker between records, or part way through
\* max_timestamp = std::max(max_timestamp, time).
Between == [pc |-> "between", time |-> 0, seen |-> 0]

LoadInit ==
    /\ Init
    /\ contents \in FileContents
    /\ current = 1
    /\ reading = FALSE
    /\ todo = {}
    /\ worker = [w \in Workers |-> Between]
    /\ max_timestamp = 0
    /\ failed = FALSE
    /\ failures = 0
    /\ completed = {}

-----------------------------------------------------------------------------
\* Mutant: records of other shards are not filtered out.
ProcessesEveryRecord(r) == TRUE

ShouldProcessRecord(r) == r.key \in OwnKeys

\* ApplyKeyValueMutationToCache: the call into the cache.
ApplyMutation(r) ==
    IF r.value = NULL THEN DeleteKey(r.key, r.time)
                      ELSE UpdateKeyValue(r.key, r.value, r.time)

\* A failing callback is logged and the record forgotten, like a record of
\* another shard.
Ignored(r) == ~ShouldProcessRecord(r) \/ r.value = UNSUPPORTED

\* LoadCacheWithDataFromFile up to the start of the workers.  A file whose
\* metadata names another shard is passed over.  Failing to read the metadata
\* changes nothing and is retried, so it is no step.
StartFile ==
    /\ ~reading /\ current \in Files
    /\ IF contents[current].own_shard
       THEN /\ reading' = TRUE
            /\ todo' = contents[current].records
            /\ max_timestamp' = 0
            /\ UNCHANGED current
       ELSE /\ current' = current + 1
            /\ UNCHANGED <<reading, todo, max_timestamp>>
    /\ UNCHANGED <<vars, contents, worker, failed, failures, completed>>

\* ReadShardRecords: a worker takes its next record and calls the callback.
ProcessRecord(w) ==
    /\ reading /\ worker[w].pc = "between"
    /\ \E r \in todo :
          /\ todo' = todo \ {r}
          /\ IF Ignored(r)
             THEN UNCHANGED <<vars, worker>>
             ELSE /\ ApplyMutation(r)
                  /\ worker' = [worker EXCEPT ![w].pc = "applied", ![w].time = r.time]
    /\ UNCHANGED <<contents, current, reading, max_timestamp, failed, failures,
                   completed>>

ReadMaxTimestamp(w) ==
    /\ worker[w].pc = "applied"
    /\ worker' = [worker EXCEPT ![w].pc = "compared", ![w].seen = max_timestamp]
    /\ UNCHANGED <<vars, contents, current, reading, todo, max_timestamp, failed,
                   failures, completed>>

WriteMaxTimestamp(w) ==
    /\ worker[w].pc = "compared"
    /\ max_timestamp' = Max({worker[w].seen, worker[w].time})
    /\ worker' = [worker EXCEPT ![w] = Between]
    /\ UNCHANGED <<vars, contents, current, reading, todo, failed, failures,
                   completed>>

\* A shard's stream fails: the rest of that shard, any of the records left,
\* is not read in this attempt.
StreamFails ==
    /\ reading /\ ~failed /\ failures < MaxFailures
    /\ \E rest \in SUBSET todo : todo' = rest
    /\ failed' = TRUE
    /\ UNCHANGED <<vars, contents, current, reading, worker, max_timestamp,
                   failures, completed>>

\* Mutant: the clean-up runs although part of the file was not read.
CleansUp == TRUE

\* Only a file that was read to its end is followed by a clean-up.
ReadCompletely == ~failed

\* All workers have been joined.  Success: clean up and go on to the next
\* file.  Failure: the data loader thread retries the file; before that
\* thread exists, TryCreate is called again and begins with the first file.
FinishFile ==
    /\ reading /\ todo = {} /\ \A w \in Workers : worker[w] = Between
    /\ reading' = FALSE
    /\ failed' = FALSE
    /\ IF ReadCompletely THEN CleanUpKeyValueMap(max_timestamp)
                         ELSE UNCHANGED vars
    /\ IF failed
       THEN /\ failures' = failures + 1
            /\ current' = IF current <= InitFiles THEN 1 ELSE current
            /\ UNCHANGED completed
       ELSE /\ current' = current + 1
            /\ completed' = completed \cup {current}
            /\ UNCHANGED failures
    /\ UNCHANGED <<contents, todo, worker, max_timestamp>>

\* LoadCacheWithHighPriorityUpdates, once Start has run.  "The records you
\* modify through the realtime update channel should still be added to the
\* standard data loading path" (docs/loading_data.md): r is in some file.
RealtimeUpdate(r) ==
    /\ current > InitFiles
    /\ ~Ignored(r)
    /\ ApplyMutation(r)
    /\ UNCHANGED loadVars

LoadNext ==
    \/ StartFile
    \/ \E w \in Workers : \/ ProcessRecord(w)
                          \/ ReadMaxTimestamp(w)
                          \/ WriteMaxTimestamp(w)
    \/ StreamFails
    \/ FinishFile
    \/ \E f \in Files : \E r \in contents[f].records :
          contents[f].own_shard /\ RealtimeUpdate(r)

LoadSpec == LoadInit /\ [][LoadNext]_<<vars, loadVars>>

-----------------------------------------------------------------------------
\* The mutations this server has to reflect once every file is loaded: those
\* of its keys, of a kind it knows, in files that are not another shard's.
\* Stated without the operators the actions use.
OwedIn(c, f) == {r \in c[f].records : /\ c[f].own_shard
                                      /\ r.key \in OwnKeys
                                      /\ r.value # UNSUPPORTED}

Owed(f) == OwedIn(contents, f)

\* How a careful producer writes files: commit times are positive and, among
\* the records this server has to reflect, those of a file are newer than
\* those of the files before it.
CarefulProducer ==
    \A c \in FileContents, f, g \in Files :
        \A r \in OwedIn(c, f), s \in OwedIn(c, g) :
            0 < r.time /\ (f < g => r.time < s.time)

Relevant(k) == {r \in UNION {Owed(f) : f \in Files} : r.key = k}

Newest(S) == {r \in S : \A other \in S : other.time <= r.time}

AllLoaded == current > NumFiles

\* Every variable has its type.
LoadTypeOK ==
    /\ TypeOK
    /\ contents \in Contents
    /\ current \in 1 .. NumFiles + 1
    /\ reading \in BOOLEAN
    /\ todo \subseteq Record
    /\ worker \in [Workers -> [pc : {"between", "applied", "compared"},
                               time : Int, seen : Int]]
    /\ max_timestamp \in Int
    /\ failed \in BOOLEAN
    /\ failures \in 0 .. MaxFailures
    /\ completed \subseteq Files

\* Once all files are loaded a lookup gives each key the value of its newest
\* mutation in any of them, and keys of other shards give nothing, whatever
\* the interleaving of workers, the failed attempts, the reloads of TryCreate
\* and the realtime messages that came before, between or after the files.
Converges ==
    AllLoaded =>
        \A k \in Keys :
            IF Relevant(k) = {} THEN Lookup(k) = NULL
            ELSE \E r \in Newest(Relevant(k)) : Lookup(k) = r.value

\* The clean-up never runs ahead of the data: the cutoff is at most the newest
\* time of the files that were read to their end, so a mutation that is newer
\* than those files is never dropped, however the unlocked updates of
\* max_timestamp interleave and wherever an attempt fails.
CutoffWithinLoadedFiles ==
    cutoff > 0 =>
        \E f \in completed : \E r \in Owed(f) : cutoff <= r.time
=============================================================================
