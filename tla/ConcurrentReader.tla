-------------------------- MODULE ConcurrentReader --------------------------
(***************************************************************************)
(* ConcurrentStreamRecordReader::ReadStreamRecords of                      *)
(* public/data_loading/readers/riegeli_stream_io.h: the stream is cut into *)
(* byte ranges ("shards") and each one is read by a task of its own.       *)
(*                                                                         *)
(* A Riegeli record has a numeric position below the size of the stream,   *)
(* no two records the same one.  Records are known by their positions.     *)
(***************************************************************************)
EXTENDS Integers, Sequences, FiniteSets, FiniteSetsExt

CONSTANTS MaxSize,        \* bound: size of the stream in bytes
          MaxThreads,     \* bound: num_worker_threads
          MaxMinShardSize \* bound: min_shard_size_bytes

ReaderAssumption ==
    /\ MaxSize \in Nat /\ MaxThreads \in Nat \ {0} /\ MaxMinShardSize \in Nat \ {0}

VARIABLES size, num_worker_threads, min_shard_size_bytes,
          records,   \* positions of the records
          shards,    \* the ranges, in order
          task,      \* per shard: pc, first_record_pos, next_record_pos
          read,      \* how often each record was given to the callback
          status     \* of ReadStreamRecords

inputs == <<size, num_worker_threads, min_shard_size_bytes, records>>
vars == <<size, num_worker_threads, min_shard_size_bytes, records, shards, task,
          read, status>>

Init ==
    /\ size \in 0 .. MaxSize
    /\ num_worker_threads \in 1 .. MaxThreads
    /\ min_shard_size_bytes \in 1 .. MaxMinShardSize
    /\ records \in SUBSET (0 .. size - 1)
    /\ shards = <<>>
    /\ task = <<>>
    /\ read = [r \in records |-> 0]
    /\ status = "called"

-----------------------------------------------------------------------------
\* Mutant: the number of threads does not count.
SmallestShardSize == Min({size, min_shard_size_bytes})

ShardSize ==
    LET even == (size + num_worker_threads - 1) \div num_worker_threads
    IN Min({size, Max({even, min_shard_size_bytes})})

\* Mutant: a shard starts where the one before it ends.
NextStartAtEnd(end_pos) == IF end_pos = size THEN size + 1 ELSE end_pos

NextStart(end_pos) == end_pos + 1

\* The loop of BuildShards from shard_start_pos on.
ShardsFrom ==
    LET from[start \in 0 .. MaxSize + 1] ==
            IF start >= size THEN <<>>
            ELSE LET end == Min({start + ShardSize, size})
                 IN <<[start_pos |-> start, end_pos |-> end]>>
                    \o from[NextStart(end)]
    IN from[0]

BuildShards ==
    /\ status = "called"
    /\ LET built == ShardsFrom
           ok == built # <<>> /\ built[Len(built)].end_pos = size
       IN /\ status' = IF ok THEN "reading" ELSE "no_shards"
          /\ shards' = IF ok THEN built ELSE <<>>
          /\ task' = [i \in DOMAIN shards' |->
                        [pc |-> "start", first |-> 0, next |-> 0]]
    /\ UNCHANGED <<inputs, read>>

\* RecordStreamSize: the stream cannot be sought.
NoStreamSize ==
    /\ status = "called"
    /\ status' = "stream_error"
    /\ UNCHANGED <<inputs, shards, task, read>>

\* RecordReader: the first record at or after a position, or the end.
RecordAt(pos) == LET rest == {r \in records : r >= pos}
                 IN IF rest = {} THEN size ELSE Min(rest)

\* Mutant: the record at the end of the range is left to the next shard.
BeforeEnd(i) == task[i].next < shards[i].end_pos

WithinShard(i) == task[i].next <= shards[i].end_pos

Seek(i) ==
    /\ status = "reading" /\ task[i].pc = "start"
    /\ LET first == RecordAt(shards[i].start_pos)
       IN task' = [task EXCEPT ![i] = [pc |-> "read", first |-> first, next |-> first]]
    /\ UNCHANGED <<inputs, shards, read, status>>

ReadRecord(i) ==
    /\ status = "reading" /\ task[i].pc = "read"
    /\ WithinShard(i) /\ task[i].next \in records
    /\ read' = [read EXCEPT ![task[i].next] = @ + 1]
    /\ task' = [task EXCEPT ![i].next = RecordAt(@ + 1)]
    /\ UNCHANGED <<inputs, shards, status>>

ShardDone(i) ==
    /\ status = "reading" /\ task[i].pc = "read"
    /\ ~(WithinShard(i) /\ task[i].next \in records)
    /\ task' = [task EXCEPT ![i].pc = "done"]
    /\ UNCHANGED <<inputs, shards, read, status>>

\* Seeking or reading fails; the other tasks go on.
ShardFails(i) ==
    /\ status = "reading" /\ task[i].pc \in {"start", "read"}
    /\ task' = [task EXCEPT ![i].pc = "failed"]
    /\ UNCHANGED <<inputs, shards, read, status>>

\* The results of two neighbours show a gap between them.
Skipped(i) == i > 1 /\ task[i-1].next < task[i].first

\* ReadStreamRecords returns once all tasks have ended, the futures left over
\* after an early return being joined by their destructors, with the first
\* error in the order of the shards.
Return ==
    /\ status = "reading"
    /\ \A i \in DOMAIN task : task[i].pc \in {"done", "failed"}
    /\ LET bad == {i \in DOMAIN task : task[i].pc = "failed" \/ Skipped(i)}
       IN status' = IF bad = {} THEN "ok"
                    ELSE IF task[Min(bad)].pc = "failed" THEN "stream_error"
                    ELSE "skipped"
    /\ UNCHANGED <<inputs, shards, task, read>>

Next ==
    \/ BuildShards \/ NoStreamSize \/ Return
    \/ \E i \in DOMAIN task : Seek(i) \/ ReadRecord(i) \/ ShardDone(i) \/ ShardFails(i)

Spec == Init /\ [][Next]_vars

-----------------------------------------------------------------------------
\* The variables have their types; positions stay within the stream.
TypeOK ==
    /\ records \subseteq 0 .. size - 1
    /\ \A i \in DOMAIN shards : 0 <= shards[i].start_pos
                                /\ shards[i].start_pos <= shards[i].end_pos
                                /\ shards[i].end_pos <= size
    /\ DOMAIN task = DOMAIN shards
    /\ \A i \in DOMAIN task : {task[i].first, task[i].next} \subseteq 0 .. size
    /\ DOMAIN read = records
    /\ status \in {"called", "reading", "no_shards", "stream_error", "skipped", "ok"}

\* "Each record in the underlying data stream is guaranteed to be read exactly
\* once": no record is read by two tasks, even when some shard fails, and if
\* ReadStreamRecords returns OK every record was read.
ReadExactlyOnce ==
    \A r \in records : read[r] <= 1 /\ (status = "ok" => read[r] = 1)

\* The ranges leave no gap: "Skipped some records" is never returned.
NothingSkipped == status # "skipped"

\* The number of tasks never exceeds num_worker_threads.
WithinThreadLimit == Len(shards) <= num_worker_threads

\* "Each record in the underlying data stream is guaranteed to be read exactly
\* once", as long as the stream can be sought and read: a stream that holds
\* records can be cut into shards, whatever its size.
EveryStreamReadable == records # {} => status # "no_shards"
=============================================================================
