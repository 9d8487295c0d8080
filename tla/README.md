# TLA+ models of the Key/Value server

This directory holds TLA+ specifications of the server, its data pipeline and
its tools, the TLC configurations that check them on small instances, and TLAPS
proofs about the caches, the loading of files, the orchestrator, the UDF client,
the internal lookup service and realtime updates.

## The system and its parts

The server answers lookups from an in-memory cache. Data reaches the cache in
two ways. *Files*: delta and snapshot files are uploaded to a bucket; at
start-up the newest snapshot and the delta files after it are loaded, later a
notifier thread finds new delta files and a loader thread loads them, each file
being read by several workers. *Realtime updates*: messages with the same kind
of records are applied by threads of their own. Every mutation carries a
logical commit time. Deletions leave tombstones, so that an older update that
arrives later is ignored, and after each file the tombstones up to its newest
commit time are reclaimed and that time becomes a cutoff below which every
mutation is ignored. Lookups run user-defined functions (UDFs), which read the
cache of this server or, when data is sharded, of others.

| Part | Source (under `src/`) | Module |
| --- | --- | --- |
| What the cache promises | `components/data_server/cache/cache.h` | `LastWriterWins` |
| Key/value map | `components/data_server/cache/key_value_cache.*` | `KeyValueCache`, proofs in `FileLoadingProofs` |
| Key/value-set map | same | `KeyValueSetCache`, `KeyValueSetCacheProofs`, `KeyValueSetCleanUpProofs`, `KeyValueSetRefinement` |
| Loading of records | `components/data_server/data_loading/data_orchestrator.cc` | `FileLoading`, `FileLoadingProofs` |
| Concurrent record reader | `public/data_loading/readers/riegeli_stream_io.h` | `ConcurrentReader` |
| Orchestrator, delta file notifier, loader thread | `data_orchestrator.cc`, `components/data/blob_storage/delta_file_notifier.cc`, `components/data_server/server/server.*` | `DataOrchestrator`, `DataOrchestratorProofs` |
| Blob streams | `components/data/blob_storage/seeking_input_streambuf.*` | `SeekingStream`, `BlobStream` |
| Blob storage clients, their notifiers | `components/data/blob_storage`, `components/data/common` | `BlobStorage`, `ChangeNotifiers` |
| Realtime updates, message queues | `components/data/realtime`, `components/data/common` | `RealtimeAws`, `RealtimeGcp`, `RealtimeProofs` |
| Clean-up job for queues | `components/aws` | `SqsCleanup`, `RealtimeProofs` |
| UDF client | `components/udf/udf_client.cc` | `UdfClient`, `UdfClientProofs` |
| Sharded lookup, shard manager, cluster mappings | `components/internal_server`, `components/sharding` | `ShardedLookup` |
| Internal lookup service, OHTTP encryptors, runQuery hook | `components/internal_server`, `components/data_server/request_handler/ohttp_*`, `components/udf/hooks` | `LookupService`, `LookupServiceProofs` |
| Query language | `components/query` | `Query` |
| Request handlers, compression | `components/data_server/request_handler` | `GetValuesV1`, `GetValuesV2`, `Compression` |
| Start-up, heartbeat, UDF hooks, shutdown | `components/data_server/server`, `components/util/periodic_closure.cc` | `ServerLifecycle` |
| Parameters and instance data | `components/cloud_config`, `components/data_server/server/parameter_fetcher*` | `CloudConfig` |
| Snapshots, record formats | `public/data_loading`, `tools/data_cli` | `Snapshot`, `DataFormats` |
| Blob utility, realtime publisher | `components/tools` | `BlobCommands`, `RealtimePublisher` |
| Load tool | `tools/request_simulation` | `RequestSimulation`, `RateLimiter` |
| Auction data generator | `tools/bidding_auction_data_generator` | `AuctionData` |

`PROJECT.json` lists all parts with their status, the source lines behind each
definition, and the hazards (what could go wrong and is hard to test) with the
properties that cover them.

## Modules

Each module begins with a comment that says what it models, what in it is
external, and how data are abstracted. Names follow the code: a variable is a
field or the place where a thread is, an action is a function or the part of it
between two points where another thread can interfere.

### The cache and the loading of files

**LastWriterWins** is the abstract store. Per item it keeps what a reader gets
and a horizon, the commit time at or below which mutations are ignored. A
mutation or a clean-up of the cache is one step.

**KeyValueCache** models `UpdateKeyValue`, `DeleteKey` and
`CleanUpKeyValueMap`. Each holds `mutex_` throughout, so each is one action.
`deleted_nodes_` is a multimap; `find` may return any entry with the given
time, which the model leaves open.

**KeyValueSetCache** models `UpdateKeyValueSet`, `DeleteValuesInSet`,
`GetKeyValueSet`, the life of its result, and `CleanUpKeyValueSetMap`, each cut
at the lock operations that can block. The clean-up's key lock is a temporary
in the code, acquired and released in one statement; the model does the same,
and the erasures follow without it. `absl::Mutex` is external: a waiting writer
eventually keeps new readers out.

**FileLoading** extends KeyValueCache with the way records reach it: workers
that take records of a file in any order, the unsynchronised
`max_timestamp = std::max(...)` as a separate read and write, streams that
fail part way, the clean-up after a complete file, the restart of `TryCreate`
from the first file, and realtime messages at any time after start-up.

**ConcurrentReader** models `ReadStreamRecords`: `BuildShards` on every size,
thread count and minimum shard size within bounds, the tasks record by record,
and the way results are collected.

**DataOrchestrator** models the threads around the loading of whole files: the
main thread (`TryCreate` with retries, `Start`, shutdown, destructors), the
notifier (`Watch`: notifications, backup poll, listing, callbacks) and the
loader thread. A file name is a number; order of names is order of numbers.
Notifications can be lost, listings and loads can fail and are tried again.

### Below it: storage and notifications

**SeekingStream** models the stream buffer over remote reads, whose chunks may be
short, empty or of unknown size. Byte p of a blob is known as p, so that a wrong
byte shows. It is compared with **BlobStream**, a plain stream. **BlobStorage** models listing, put and delete of the three
platforms while others put and delete blobs. **ChangeNotifiers** models
`GetNotifications` of the three platforms. **RealtimeAws** models the pool of
pollers and the message service they share, with a queue that can be deleted
under them; **RealtimeGcp** the subscription and its threads; **SqsCleanup** the
scheduled job against servers that tag their queues, with time kept as ages and
with look-ups of queues that fail.

### Requests

**UdfClient** has file workers that replace the code object, also two at once,
and requests that run it, without a lock, and an engine that answers late. **ShardedLookup** has
lookups that send padded requests to replicas, the shard manager, and the
thread that follows instances that come and go. **LookupService** is one such
request in detail, from the encryptor of the client to the data of the other
server and back, while keys and data change, with the unencrypted calls of the
service and the runQuery hook. **Query** has the tokens, a
shift/reduce parser, the tree and its evaluation. **GetValuesV1** and
**GetValuesV2** are the two protocols, V1 also when it is routed through V2.
**Compression** has both kinds of groups, sizes of several bytes and blobs that
are cut short. A query without tokens crashes the server in each of the three
modules that have queries.

### Start-up

**ServerLifecycle** is `Init` of a server, or of one server for each shard, as
a list of steps, each of which fails, is retried or is only logged on failure,
with the heartbeat and the auto scaling group around it. **CloudConfig** is what
a starting server fetches, in order, with calls that fail and parameters that
are missing or garbled.

### Tools

**Snapshot** and **DataFormats** are the commands of `data_cli`,
**BlobCommands** those of the blob utility, **RealtimePublisher** and
**AuctionData** publish and make data, **RequestSimulation** and **RateLimiter**
are the load tool.

Definitions whose comment begins with "Mutant:" are wrong variants of the
definition after them. They are used by nothing; substituting one must make a
property fail, which shows that the property depends on that code
(`PROJECT.json`, `mutants`).

## Runs

Three runs, `MCServer`, `MCData` and `MCProgress`, hold many parts. Those parts
do not share variables, so a behaviour has one active part, named by `active`;
the variables `v1`, `v2`, ... stand for the variables of that part in the order
of its module. A property of such a run is a conjunction over parts: the type
invariant of each part and the properties its module defines and explains.
There is a mutant for every property that a conjunction takes from a module.

| Run | Shows | Bounds |
| --- | --- | --- |
| `key_value_cache` | tombstones are indexed, the clean-up is complete, the map refines LastWriterWins | 2 keys (two keys can share a commit time), times 0..4 |
| `set_cache` | no data race on a key's values, pointers into the map stay valid, deleted values get indexed, the set map refines LastWriterWins, every call returns | 2 mutators, 1 clean-up (only the loader thread cleans up), 1 lookup, 2 keys, 1 value, times 1..2 |
| `file_loading` | after all files a lookup gives the newest mutation of each key; the cutoff never runs ahead of what was read | 3 files (2 at start-up), 2 workers, 3 times, 1 failed attempt; every record of a file is newer than those of the files before it |
| `orchestrator` | no file lost, loading once and in order, every file loaded, shutdown ends | 3 names, one malformed; with and without snapshots |
| `server_parts` | what requests, realtime updates and start-up may never do | see below |
| `data_parts` | the same for files, storage and the tools | see below |
| `progress` | calls and stops return, mappings converge, updates arrive, queues are replaced and removed | smaller instances of seven parts |
| `server_group` | servers of two shards, which need each other for their mappings, all get to serve | 2 servers, one failure of each |

Bounds of `server_parts` and `data_parts`, chosen so that the case behind each
property happens:

- UDF: one worker with two configs beside a call that times out; two workers that
  load three configs together, of which two share a version number.
- Sharded lookup: two shards, two replicas of the remote one and an instance of
  a group that does not exist, two changes of the instances or crashes.
- Lookup service: two calls side by side, one of any kind and one encrypted, two
  key pairs of which one has an id above a byte, one change of the keys and one of
  the data.
- Queries of no to six tokens over sets on which all operators differ.
- V1: two keys, alone and in lists, one update during the request. V2: up to
  three partitions with two compression groups. Compression: up to three groups
  of which one is too large for its size field once compressed; sizes take two
  bytes, and the blob is cut anywhere, also between these two.
- SQS: two threads, two queues, both deleted, a receive that fails for good on a
  queue that is there. Clean-up: two servers, one failed tag, any look-ups fail. Pub/Sub: three messages of which one does not decode.
- Start-up: one server without shards, a lost heartbeat, one failure. Parameters:
  three platforms, one bad parameter or tag of every kind, one failed call.
- Reader: streams up to 6 bytes, 4 threads, minimum shard size up to 3, every
  set of record positions. Streams: blobs of 0, 1 and 5 bytes with buffers
  smaller and larger than the rest of the blob, chunks of every length from -1 on.
- Storage: pages of two of four names. Notifiers: three files, one malformed, a
  wait of one and a half polls. Blob commands: one command, contents of two
  pieces.
- Snapshots: three files, two commands, so that one snapshot is the base of
  another; records of one key in any order of time or at the same time, set
  values that are deleted, two keys with one hash and one with the least.
  Formats: up to two rows or records of every kind, bad ones included, converted
  and, if all goes well, converted back; the output fails at any point.
- Load tool: two threads at a limiter whose rate changes; two workers, a queue
  of one, with and without a fill rate. Auction data: three batches, a name and a
  URL with a comma. Publisher: three files, two threads.

Four runs are expected to fail. They state what the documentation or a comment
says and show where the code differs:

- `file_loading_any_times`: `docs/loading_data.md:42-44` says commit times have
  no relation to file names. The clean-up after a file makes the cache ignore
  all mutations at or below the newest time of that file, also those of later
  files, even for keys never seen before. Another sentence of the same document
  (line 248) does ask for higher commit times.
- `reader_every_size`: each record "is guaranteed to be read exactly once"
  (`riegeli_stream_io.h:131-132`). When the size of a stream is a multiple of
  the shard size plus one, `BuildShards` returns an error every time, and the
  file is never loaded.
- `orchestrator_corrupt_file`: a file with read errors is to be skipped "after
  a few retries" (`docs/error_handling.md:77-78`), or put back at the end of
  the queue (`data_orchestrator.cc:330-331`). The code retries the same file
  without limit, and later files wait.
- `orchestrator_destruction`: fields the orchestrator refers to "must outlive
  DataOrchestrator" (`server.h:128`). `udf_client_` is declared after
  `data_orchestrator_`, so it is destroyed first, while the loader thread can
  still be loading a file. A file with a UDF record then calls into it.

Deadlock is not checked where the system may stop: all files loaded, a request
answered, a tool or a thread at its end.

### Other differences between text and code

Modelling met more of them. The modules translate the code, so the behaviour is
in the models; the sentence is a definition at the end of its module, under
"What documentation or comments say", and no run checks it.

- `UdfClient!UpdatesOnlyForward`: two file workers can pass the check of the
  commit time together and the older config store last (`udf_client.cc:139`;
  `docs/generating_udf_files.md:15-16`). Their assignments can also mix, so that
  handler name, commit time and version are of two configs, until a later call
  that runs alone. `FieldsAgree` and `SoleUpdateIsForward` state what is left.
- `SqsCleanup!UsedQueueIsKept`: `_does_queue_exist` catches every exception, so a
  queue whose look-up fails for another reason counts as missing and its
  subscription is deleted, though a server uses it
  (`sqs_cleanup_manager.py:157-160`). That server polls a queue that gets no
  message any more. The property has this one exception.
- `ShardedLookup!FailedRequestFailsLookup`: keys of a shard that failed get an
  error each and the lookup is OK (`sharded_lookup.cc:323`, comment at 116-118).
- `LookupService`: `InternalLookup` looks up values also for a request with
  `lookup_sets` (`lookup_server_impl.cc:88`; `lookup.proto`: "True means value
  sets are looked up.").
- `RealtimeAws`: a queue that is deleted before its set-up is complete is never
  given up, so set-up fails for ever (`msg_svc_aws.cc:85`; `msg_svc.h:53`). A
  thread whose receive failed for good resets the service also when another
  thread has set up a new queue meanwhile, which is then dropped with its
  messages (`change_notifier_aws.cc:179`).
- `ServerLifecycle!InServiceAfterInitialization`: the heartbeat's destructor
  completes the launch hook also when `Init` failed (`lifecycle_heartbeat.cc:41`;
  `server.cc:335-338`), so that an instance is in service whose process is about
  to abort; `InServiceIsReady` has this exception. `InServiceHasShardMap`: a server is in service before it
  knows any replica (`server.cc:339`; `docs/sharding.md:146-147`).
- `SeekingStream!BytesAreOfTheBlob`: after a short chunk the next one overwrites
  the beginning of the buffer (`seeking_input_streambuf.cc:134`), and a GCS chunk
  of unknown size never gets there (`blob_storage_client_gcp.cc:76-81`). Positions
  stay right; `PlainStep` has these exceptions. Chunks that are empty each time
  keep the loop going for ever.
- `BlobStorage!ListsEveryObject`: on GCP a listing that broke returns OK
  (`blob_storage_client_gcp.cc:160`; `blob_storage_client.h:77`);
  `ListingComplete` says what it still has.
- `ChangeNotifiers!StopIsNoticed`: on GCP the sleep does not look at
  `should_stop_callback` (`blob_storage_change_notifier_gcp.cc:37`).
- `Snapshot!OnlyNewerReplaces`: a record of equal time replaces
  (`record_aggregator.cc:58`). `EveryRecordIsRead`: the least record key is left
  out (line 143). Deletions of set values are united like additions (line 271).
  The UDF configuration and the name to list from are views of freed strings
  (`snapshot_stream_writer.h:224`, `generate_snapshot_command.cc:239`). The model
  has all of this; `SnapshotStandsForFiles` says for which keys a snapshot serves
  the same as the files all the same (`Regular`).
- `DataFormats!OkMeansAllRead`: a read is OK though records were dropped
  (`riegeli_stream_io.h:94`; `delta_record_reader.h:40-41`). A command whose
  output cannot be closed reports success (`format_data_command.cc:161`).
- `GetValuesV2!GroupsApart`: all partitions fall into one compression group
  (`get_values_v2_handler.cc:165`). `EncodedAsLabelled`: the response says
  `br` and is not compressed (line 281).
- `GetValuesV1!ListsAreSplit`: the adapter does not split lists of keys
  (`get_values_adapter.cc:43`; `public/constants.h:54-55`). `JsonIsParsed`: a
  parsed JSON value is overwritten by its string (line 94).
- `RateLimiter!RefilledAtRate`: fractions of a permit are forgotten
  (`rate_limiter.cc:45`).
- `RequestSimulation`: `SentIsReported` (`metrics_collector.cc:90` reports OK
  responses as sent requests), `CallsEndWithSend` (`grpc_client.h:144`: a call
  goes on after `SendMessage` gave up), `KeepsRunning`
  (`delta_based_request_generator.cc:124`: no return value for other records).
  With a fill rate of 0, `Stop` returns early and leaves the client workers and
  the metrics collector running (`request_simulation_system.cc:241` and 268);
  `StopStopsAll` says so.
- `CloudConfig!MissingParameterIsError`: on GCP a failed fetch is an empty string
  (`parameter_client_gcp.cc:72`; its test `GetParametersNotFound`).
  `MissingLabelIsError`: a missing label ends the process
  (`instance_client_gcp.cc:155`). A GCP build on a local instance asks for
  parameters that the local client does not have and retries for ever
  (`parameter_fetcher_gcp.cc:41`).
- `AuctionData!AbortMeansStop`: "Abort!" is only logged
  (`bidding_auction_data_cli.cc:73`). A name with a comma is not encoded and so
  asked for in pieces, whose values get into the file instead (line 111);
  `FilesComplete` says which values a file has.
- `RealtimePublisher!RateEverySecond`: after a slow publication the next batches
  are not paused (`realtime_updates_publisher.cc:91`).
- `BlobCommands!CopyReportsSuccess`, `CatPrintsBlobs`: a copy that broke, and an
  empty blob that stops all further output, are successes
  (`blob_storage_commands.cc:149` and 70).

## Fairness

- KeyValueSetCache (`FairSpec`): strong fairness per thread for the steps of a
  call in progress. A lock that is released again and again is not withheld
  from one waiter for ever, and results are destroyed when their request ends.
  Calls need not begin.
- DataOrchestrator: weak fairness for threads, for the clock and for the end of
  an attempt to load a file; strong fairness for a listing and for loading a
  file that can be loaded, because both are retried without limit. Uploads,
  lost notifications, errors of the notifier and the beginning of a shutdown
  are never required.
- ServerLifecycle (`FairSpec`): the same for the steps of `Init`.
- `MCProgress`: weak fairness for threads, timeouts and the clock, and the
  assumption that a service that fails recovers (from some time on a call that
  can succeed does, the clean-up job is not cut off, the directory can be read
  and the queue received from). Strong fairness for one error: a thread that
  polls a queue that is gone, though it may get retryable errors or be held up by
  another thread, is told so at some time. Roma need not answer; nobody has to
  publish, to delete or to stop.

## Proofs

Eight modules hold proofs. Each theorem is about every value of the constants:
any keys, values, integer commit times, threads, files, calls, servers and
messages, not the few of a run. The inductive invariants were checked with TLC
on the instances of the runs as well.

| Module | Theorems |
| --- | --- |
| `FileLoadingProofs` | key/value map: `TypeCorrect`, `TombstonesStayIndexed`, `CleanUpIsComplete`, `Refinement`; loading: `LoadTypeCorrect`, `CutoffIsWithinLoadedFiles`, `ViewInvariance`, `LoadingConverges` |
| `KeyValueSetCacheProofs` | `LocksAreHeld`, `SetTypeCorrect`, `ValuesNeverRace` |
| `KeyValueSetCleanUpProofs` | `SetCacheInvariant`, `PointersAreValid`, `TombstonesAreIndexed` |
| `KeyValueSetRefinement` | `SetRefinement` |
| `DataOrchestratorProofs` | `OrchestratorInvariant`, `OrchestratorTypeCorrect`, `NoFileIsLost`, `FilesLoadInOrder` |
| `UdfClientProofs` | `AnswersAreOwn`, `FieldsBelongTogether`, `CodeMovesForward` |
| `LookupServiceProofs` | `LookupsSeeTheStore` |
| `RealtimeProofs` | `UsedQueuesAreKept`, `AcknowledgedWereApplied` |

**Key/value map.** The invariants of the run `key_value_cache`. `IInv` is their
conjunction. `NothingBelowCutoff` is not inductive alone: a clean-up finds
tombstones only through the index, so it needs `TombstonesIndexed`, and both
need the types. `Refinement`: an accepted mutation is `Mutate` on one key, an
ignored one a stuttering step, a clean-up `Advance`. The assumption
(`CacheAssumption`) is that the null value is no string and that commit times
are integers. They may be zero or negative; such mutations are ignored because
the cutoff starts at 0.

**Loading.** `CutoffWithinLoadedFiles` needs a bound on `max_timestamp` that
survives the race of the workers: neither it nor what a worker has read and is
about to write is beyond the newest record of the file (`TimestampInv`).
`Converges` speaks of the end only. It follows from `ViewInv`, which speaks of
every moment: what a lookup shows is the newest mutation up to the horizon of
its key, and the horizon is past every record read. These last two need
`CarefulProducer`: commit times are positive and every record of a file is newer
than those of the files before it. Without it the property is false, which is
what the run `file_loading_any_times` shows. TLC evaluates, in both runs of
`MCFileLoading`, that the condition holds of exactly the contents that the
passing run calls ordered (`OrderedIsCareful`).

**Key/value-set map.** `LocksInv` says which lock is held at which point of a
call. It is inductive and gives types and the absence of races. That pointers
stay valid is inductive on top of it. That deleted values are indexed also needs
`CleanUpInv`, what a clean-up has done so far: only then do the index entries
it forgets at its end lead nowhere. In `SetRefinement` the step of the abstract
store is the one that gets the key lock, or the map lock for a clean-up; all
other steps stutter, because nobody comes between. The assumption is that commit
times are integers and that the value for "nobody" is neither a thread nor a
key.

**Orchestrator.** `NoFileLost` and `LoadedInOrder` need three more facts: how
far `Init` got (`InitInv`), how far the notifier got and that a listing in
progress has no gaps (`WatchInv`), and that what was loaded, is being loaded and
is queued forms one ascending sequence (`PipelineInv`). A corrupt file, failed
listings and loads, lost notifications and a shutdown at any moment are
included. The assumptions are only about types of the constants.

**UDF client.** All three theorems hold for any number of loading threads and any
configs, versions shared by several included. `UdfAssumption` only gives types
and says that every config is newer than the default one. What two overlapping
calls of `SetCodeObject` can spoil is not assumed away but part of the statement:
`setter[w].alone` says that no other call was past its check during this one, and
`mixed` that the call which stored last was not alone. `FieldsInv` says of a call
that is alone how far its three assignments are and that the commit time it
checked against is still the one in use, and of every call that Roma has the
version it is about to store; a version once loaded stays loaded, whatever loads
come late.

**Internal lookup.** `TypeOK`, `ExchangesMatch`, `AnswersWereStored` and
`QueriesSeeSets` speak of calls that have ended. `ServiceInv` says what the two
sides hold at each step before: the key pair a request names is the one it was
encrypted with, a response carries the context of its own call, and what a call
may still answer is among what its keys have had since it began. A query of
blanks only, which crashes the server, may come at any moment: the calls at that
server fail, the others are as before.

**Realtime updates.** `UsedQueuesAreKept` needs a bound on the age of a tag at
each point of a server's life (`AgeFits`), and that what the job has put on its
lists, which may be stale when it deletes, belongs to servers that never come
back (`OnlyGone`) or, among the dangling subscriptions, to a queue whose look-up
failed; of these only the queue is kept. It assumes `CleanupAssumption`: the job's timeout leaves time
for one period between tags, the failed attempts to tag and a poll, and a server
polls at least as often as it tags. The last condition came out of the proof;
without it a tag ages by a whole poll period where the timeout only allows for
the shorter tag period. `AcknowledgedWereApplied` carries along what a handler
that is about to acknowledge has done, and counts the running handlers, for
which the messages must be finitely many.

### Only model-checked

- Liveness (`CallsReturn`, `EveryFileLoaded`, `ShutdownCompletes`,
  `ServersGetReady` and the run `progress`): the prover does not handle fairness.
- What parsers, readers, formatters and folds compute (`Query`, `Compression`,
  `DataFormats`, `Snapshot`, `ConcurrentReader`, the streams): this needs
  induction over sequences, which the provers cannot instantiate, and some of it
  is written with recursive operators, which they do not accept.
- The safety of `RealtimeAws`, `ShardedLookup`, the request handlers, start-up,
  storage and the tools: nothing in principle prevents a proof; there is none
  yet.

## Limits of the models

- Commit times are unbounded integers; the code only compares them.
- FileLoading treats string values only. Set values have the same
  last-writer-wins contract, shown in KeyValueSetCache. A torn or stale read of
  `max_timestamp` beyond a lost update is not modelled.
- DataOrchestrator assumes that uploaded names increase, as
  `docs/loading_data.md` asks; a name below the notifier's `last_key` is not
  looked for.
- ShardedLookup: an address is not reused by another shard while an old mapping
  names it; remote calls have no deadline, as in the code, and end; which
  replica is chosen is left open, also because the random generator is shared
  without a lock.
- LookupService: cryptography needs the right key pair and context and otherwise
  fails; a request that arrives can be unpadded and parsed. A query is the union
  of sets, or empty or malformed, which are errors of the local lookup, or blank.
- RealtimeAws: the part of `progress` with two threads has no messages. A message
  that was deleted and not yet applied is lost in a crash, which the docs accept.
- RealtimeGcp does not model that the callback is captured by reference.
- Snapshot: freed memory still holds its text or is garbled as a whole.
- RequestSimulation: the run has no failing reads of delta files.
- GetValuesV2: every partition has an id. CloudConfig: a call that the library
  refuses is called back before it returns. AuctionData: output directories
  differ. RealtimePublisher: creating the publisher service does not fail.
- Of the tools and of start-up, only the safety is in a run; that streams, tools
  and the fetching of parameters come to an end is not.

## Not modelled

Key fetchers and telemetry configure libraries and keep no state. Analyzers,
benchmarks and toys print what other parts do. The bytes of flatbuffers, protos
and Riegeli files, cryptography, gRPC, the cloud services and the UDF engine are
external: modelled by what the code relies on. `ShardedRecordBuffer` is not used
by any program of the repository. The regular expressions of file names and of
the scanner are sets of well-formed names and tokens. The UDF hooks are modelled
by when they get their lookup and by what they answer, not by the JSON and the
bytes they return.
