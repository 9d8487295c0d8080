---------------------------- MODULE MCFileLoading ----------------------------
(***************************************************************************)
(* Instances of FileLoading: three files of at most two records, the      *)
(* first two loaded by TryCreate.                                          *)
(***************************************************************************)
EXTENDS FileLoading

CONSTANTS k1, k2, other, v1

MCTimes == 1 .. 3

AtMost(n, S) == {R \in SUBSET S : Cardinality(R) <= n}

MyRecords(times) == [key : {k1, k2}, value : {v1, NULL}, time : times]

\* A key is mutated at most once per time.
OncePerTime(R) ==
    \A r, s \in R : r.key = s.key /\ r.time = s.time => r = s

FilesWith(n, R, shards) ==
    [records : {S \in AtMost(n, R) : OncePerTime(S)}, own_shard : shards]

\* The files a careful producer writes: every record of a file is newer than
\* every record of the files before it.  The third file may belong to another
\* shard, or hold what this server ignores: a key of another shard, a record
\* of an unknown type.
OrderedContents ==
    LET ignored == {[key |-> other, value |-> v1, time |-> 3],
                    [key |-> k1, value |-> UNSUPPORTED, time |-> 3]}
        filesSplitAt(b, c) ==
            {<<x, y, z>> : x \in FilesWith(1, MyRecords(1 .. b), {TRUE}),
                           y \in FilesWith(2, MyRecords(b + 1 .. c), {TRUE}),
                           z \in FilesWith(2, MyRecords(c + 1 .. 3) \cup ignored,
                                           BOOLEAN)}
    IN  UNION {filesSplitAt(b, c) : b \in 0 .. 1, c \in 1 .. 2}

\* Two files of one record each, without regard to their times.
AnyContents ==
    [Files -> [records : {{r} : r \in MyRecords(MCTimes)}, own_shard : {TRUE}]]

\* Of the two, the first is what a careful producer writes, so that the
\* theorem on convergence applies to it, and the second is not.
ASSUME OrderedIsCareful ==
    CarefulProducer <=> FileContents = OrderedContents
=============================================================================
