------------------------------ MODULE Snapshot ------------------------------
(***************************************************************************)
(* generate_snapshot: the delta files from a starting file, or after the   *)
(* last one of a base snapshot, are merged by a RecordAggregator (a table  *)
(* keyed by the hash of the record's key) and written as a snapshot, which *)
(* a server loads in place of those files.  A command can fail at every    *)
(* step, and a snapshot can be the base of the next one.                   *)
(*                                                                         *)
(* A record is [key, kind, time, val]: "put" and "del" of a string, "add"  *)
(* and "rem" of a set of values, "udf", or "bad", one that is not valid.   *)
(***************************************************************************)
EXTENDS Integers, Sequences, FiniteSets, SequencesExt, Functions

CONSTANTS Contents,     \* possible contents of the delta files
          Hash,         \* absl::HashOf for every key, an int64
          MinKey,       \* the least int64
          BatchSize,    \* kRecordsQueryBatchSize
          MaxCommands   \* bound on the commands

Keys == DOMAIN Hash

SnapshotAssumption ==
    /\ \A k \in Keys : Hash[k] \in Int /\ Hash[k] >= MinKey
    /\ BatchSize \in Nat \ {0} /\ MaxCommands \in Nat

VARIABLES files,      \* contents of the delta files
          cmd,        \* the command: where it is, its parameters and file names
          db, udf,    \* the RecordAggregator's table, udf_config_
          out,        \* records in the temporary snapshot
          snapshot,   \* snapshot in the bucket
          commands    \* commands so far

vars == <<files, cmd, db, udf, out, snapshot, commands>>

Deltas == DOMAIN files
None == [key |-> "", kind |-> "none", time |-> 0, val |-> {}]
NoSnapshot == [records |-> <<>>, from |-> 0, end |-> 0, upto |-> 0, astray |-> FALSE]
Idle == [pc |-> "idle", start |-> 0, end |-> 0, after |-> 0, todo |-> <<>>, last |-> MinKey]
NoRows == [h \in {} |-> None]

Init ==
    /\ files \in Contents
    /\ cmd = Idle /\ db = NoRows /\ udf = None /\ out = <<>>
    /\ snapshot = NoSnapshot /\ commands = 0

-----------------------------------------------------------------------------
(* RecordAggregator and SnapshotStreamWriter *)

RecordKey(r) == Hash[r.key]

MergeSetValueIfRecordExists(rows, r) ==
    LET h == RecordKey(r)
    IN IF h \in DOMAIN rows /\ rows[h].kind \in {"add", "rem"} THEN r.val \cup rows[h].val ELSE r.val

\* Mutant: the record inserted last wins.
Always(old, r) == TRUE

\* The condition of ON CONFLICT.
Replaces(old, r) == old.time <= r.time

InsertOrUpdate(rows, r) ==
    LET h == RecordKey(r)
        new == IF r.kind \in {"add", "rem"}
               THEN [r EXCEPT !.val = MergeSetValueIfRecordExists(rows, r)] ELSE r
    IN IF h \in DOMAIN rows /\ ~Replaces(rows[h], new) THEN rows
       ELSE [g \in DOMAIN rows \cup {h} |-> IF g = h THEN new ELSE rows[g]]

\* ValidateData: readers log such records and go on.
Valid(records) == SelectSeq(records, LAMBDA r : r.kind # "bad")
Mutations(records) == SelectSeq(Valid(records), LAMBDA r : r.kind # "udf")
Configs(records) == SelectSeq(Valid(records), LAMBDA r : r.kind = "udf")

NewerConfig(old, r) == IF old = None \/ old.time < r.time THEN r ELSE old

\* WriteRecordStream with the records read of a stream, all unless it breaks.
WriteRecordStream(records) ==
    /\ db' = FoldLeft(InsertOrUpdate, db, Mutations(records))
    /\ udf' = FoldLeft(NewerConfig, udf, Configs(records))

\* The command and its writer are destroyed, the temporary files removed.
End(pc) == cmd' = [Idle EXCEPT !.pc = pc] /\ db' = NoRows /\ udf' = None /\ out' = <<>>

-----------------------------------------------------------------------------
(* GenerateSnapshotCommand *)

Running == cmd.pc \notin {"idle", "failed"}

\* ValidateRequiredParams and the beginning of Execute, with a new writer.  A
\* start of 0 stands for the snapshot in the bucket.
Begin(start, end) ==
    /\ ~Running /\ commands < MaxCommands
    /\ start = 0 => snapshot # NoSnapshot
    /\ commands' = commands + 1
    /\ cmd' = [Idle EXCEPT !.pc = IF start = 0 THEN "base" ELSE "list",
                           !.start = start, !.end = end, !.after = start]
    /\ UNCHANGED <<files, db, udf, out, snapshot>>

\* WriteBaseSnapshotData.  Execute keeps a view of the name returned, whose string is
\* gone when the view is used: the memory may hold the name still, or anything.
WriteBase ==
    /\ cmd.pc = "base"
    /\ WriteRecordStream(snapshot.records)
    /\ \E name \in 0 .. Len(files) + 1 :
          cmd' = [cmd EXCEPT !.pc = "list", !.after = name]
    /\ UNCHANGED <<files, out, snapshot, commands>>

\* ListBlobs starts after the name; a starting delta file is put in front.
DeltaFiles(after) ==
    LET listed == [i \in 1 .. Len(files) - after |-> after + i]
    IN IF cmd.start > 0 THEN <<cmd.start>> \o listed ELSE listed

List ==
    /\ cmd.pc = "list"
    /\ cmd' = [cmd EXCEPT !.pc = "merge",
                          !.todo = IF cmd.after > Len(files) THEN <<>> ELSE DeltaFiles(cmd.after)]
    /\ UNCHANGED <<files, db, udf, out, snapshot, commands>>

PastEnd(f) == cmd.end < f

\* WriteDeltaFilesToSnapshot, file by file.
MergeFile ==
    /\ cmd.pc = "merge"
    /\ IF cmd.todo = <<>> \/ PastEnd(Head(cmd.todo))
       THEN cmd' = [cmd EXCEPT !.pc = "finalize", !.todo = <<>>] /\ UNCHANGED <<db, udf>>
       ELSE WriteRecordStream(files[Head(cmd.todo)]) /\ cmd' = [cmd EXCEPT !.todo = Tail(@)]
    /\ UNCHANGED <<files, out, snapshot, commands>>

\* Mutant: a batch begins with the last record of the one before it.
FromLast(last) == {h \in DOMAIN db : h >= last}

RowsAfter(last) == {h \in DOMAIN db : h > last}

LastBatch(n) == n < BatchSize

\* Finalize: ReadRecords reads the table batch by batch; deletions are dropped.
FinalizeBatch ==
    /\ cmd.pc = "finalize"
    /\ LET rows == SetToSortSeq(RowsAfter(cmd.last), LAMBDA a, b : a < b)
           n == IF Len(rows) < BatchSize THEN Len(rows) ELSE BatchSize
           batch == [i \in 1 .. n |-> db[rows[i]]]
       IN /\ out' = out \o SelectSeq(batch, LAMBDA r : r.kind \notin {"del", "rem"})
          /\ cmd' = [cmd EXCEPT !.last = IF n = 0 THEN @ ELSE rows[n],
                                !.pc = IF LastBatch(n) THEN "udf" ELSE @]
    /\ UNCHANGED <<files, db, udf, snapshot, commands>>

\* What the memory of a string that is gone holds, when it was used again.
Garbled == {}

\* The end of Finalize: the configuration's strings are views of a stream that is gone.
FinalizeConfig ==
    /\ cmd.pc = "udf"
    /\ cmd' = [cmd EXCEPT !.pc = "put"]
    /\ out' \in IF udf = None THEN {out}
                ELSE {Append(out, [udf EXCEPT !.val = v]) : v \in {udf.val, Garbled}}
    /\ UNCHANGED <<files, db, udf, snapshot, commands>>

\* PutBlob of the temporary file.  A base may reach beyond the ending file, and so does a
\* snapshot that is made from it.  A snapshot is astray when the files of it, or of its
\* base, were not listed from where their base ended.
PutSnapshot ==
    /\ cmd.pc = "put"
    /\ snapshot' = [records |-> out, end |-> cmd.end,
                    from |-> IF cmd.start = 0 THEN snapshot.from ELSE cmd.start,
                    upto |-> IF cmd.start = 0 /\ snapshot.upto > cmd.end THEN snapshot.upto
                             ELSE cmd.end,
                    astray |-> cmd.start = 0 /\ (snapshot.astray \/ cmd.after # snapshot.end)]
    /\ End("idle")
    /\ UNCHANGED <<files, commands>>

\* A request to the storage, the database or a stream fails.
CommandFails ==
    /\ Running /\ End("failed")
    /\ UNCHANGED <<files, snapshot, commands>>

Next ==
    \/ \E end \in Deltas : \E start \in 0 .. end : Begin(start, end)
    \/ WriteBase \/ List \/ MergeFile \/ FinalizeBatch \/ FinalizeConfig \/ PutSnapshot
    \/ CommandFails

Spec == Init /\ [][Next]_vars

-----------------------------------------------------------------------------
(* What a server has after it has loaded files, as KeyValueCache says *)

\* What a mutation is about: a key, or a value in the set of a key.
Items(r) == IF r.kind \in {"put", "del"} THEN {<<r.key, "">>} ELSE {<<r.key, v>> : v \in r.val}

ValueOf(r, i) == CASE r.kind = "put" -> r.val [] r.kind = "add" -> {i[2]} [] OTHER -> {}

Apply(state, r) ==
    LET taken == {i \in Items(r) : /\ r.time > state.cutoff
                                   /\ i \in DOMAIN state.map => r.time > state.map[i].time}
    IN [state EXCEPT !.map = [i \in DOMAIN @ \cup taken |->
                                 IF i \in taken THEN [time |-> r.time, val |-> ValueOf(r, i)] ELSE @[i]]]

LoadFile(state, records) ==
    LET loaded == FoldLeft(Apply, state, Mutations(records))
        newest == FoldLeft(LAMBDA t, r : IF r.time > t THEN r.time ELSE t, state.cutoff, Mutations(records))
        config == FoldLeft(LAMBDA c, r : IF r.time > c.time THEN r ELSE c, state.udf, Configs(records))
    IN [loaded EXCEPT !.cutoff = newest, !.udf = config]

Loaded(sources) == FoldLeft(LoadFile, [map |-> NoRows, cutoff |-> 0, udf |-> None], sources)

\* The values of a key, or the members of its set.
Served(state, k) ==
    {<<i, state.map[i].val>> : i \in {j \in DOMAIN state.map : j[1] = k /\ state.map[j].val # {}}}

-----------------------------------------------------------------------------
(* Properties *)

Records == [key : Keys \cup {""}, kind : {"none", "put", "del", "add", "rem", "udf", "bad"},
            time : Nat, val : SUBSET STRING]

\* The command merges each file at most once, and the snapshot holds at most one
\* record per key besides the UDF.
TypeOK ==
    /\ cmd.pc \in {"idle", "failed", "base", "list", "merge", "finalize", "udf", "put"}
    /\ cmd.start \in 0 .. Len(files) /\ cmd.end \in 0 .. Len(files) /\ cmd.after \in 0 .. Len(files) + 1
    /\ cmd.todo \in Seq(1 .. Len(files)) /\ cmd.last >= MinKey
    /\ IsInjective(cmd.todo)
    /\ \A h \in DOMAIN db : h \in Range(Hash) /\ db[h] \in Records
    /\ udf \in Records /\ out \in Seq(Records) /\ Len(out) <= Cardinality(Keys) + 1
    /\ snapshot.records \in Seq(Records) /\ snapshot.end \in 0 .. Len(files)

RecordsOf(k) ==
    SelectSeq(FlattenSeq([f \in Deltas |-> Mutations(files[f])]), LAMBDA r : r.key = k)

\* No other key has the hash, and it is not the one that ReadRecords begins after.
OwnRow(k) == Hash[k] # MinKey /\ \A j \in Keys \ {k} : Hash[j] # Hash[k]

\* The records of the key are newer than everything in earlier files, so that no server
\* has closed its cache to them.
InTurn(k) ==
    \A f \in Deltas : \A g \in 1 .. f - 1 :
        \A r \in ToSet(Mutations(files[f])), s \in ToSet(Mutations(files[g])) :
            r.key = k => s.time < r.time

\* Strings of a key have different times, in any order; sets grow, in order of time.
Ordered(k) ==
    LET rs == RecordsOf(k)
    IN \/ \A i, j \in DOMAIN rs :
             rs[i].kind \in {"put", "del"} /\ (i # j => rs[i].time # rs[j].time)
       \/ \A i, j \in DOMAIN rs : rs[i].kind = "add" /\ (i < j => rs[i].time <= rs[j].time)

Regular(k) == OwnRow(k) /\ InTurn(k) /\ Ordered(k)

\* Between commands, a server that loads a snapshot of everything from the first file on,
\* and then file after file, serves for every regular key what a server without the
\* snapshot does, also beside keys that are not regular, and has a configuration of the
\* same time, whose text is the same unless its memory was reused.  A key is not regular when values of its set
\* are deleted (RecordAggregator unites them with the additions), when two of its records
\* have one time (the aggregator keeps the last, the cache the first), when set updates
\* or files are out of order, or when it has no row of its own.  Nothing is said of a
\* snapshot that went astray, because the name to list from was a view of a freed string.
SnapshotStandsForFiles ==
    ~Running /\ snapshot.from = 1 /\ ~snapshot.astray =>
        \A n \in snapshot.upto .. Len(files) :
            LET with == Loaded(<<snapshot.records>> \o SubSeq(files, snapshot.end + 1, n))
                without == Loaded(SubSeq(files, 1, n))
            IN /\ \A k \in Keys : Regular(k) => Served(with, k) = Served(without, k)
               /\ with.udf.time = without.udf.time
               /\ with.udf.val \in {without.udf.val, Garbled}

\* A snapshot consists of updates, at most one for a key and one configuration.
SnapshotIsCompact ==
    /\ \A i \in DOMAIN snapshot.records : snapshot.records[i].kind \in {"put", "add", "udf"}
    /\ \A i, j \in DOMAIN snapshot.records :
          i # j => snapshot.records[i].key # snapshot.records[j].key

-----------------------------------------------------------------------------
(* What documentation or comments say.  The code does otherwise, see       *)
(* README.md; these are no properties of the model.                        *)

\* A record replaces another one only if it is newer, "having a larger
\* `logical_commit_time`" (record_aggregator.h).
OnlyNewerReplaces ==
    [][\A h \in DOMAIN db : h \in DOMAIN db' /\ db'[h] # db[h] => db'[h].time > db[h].time]_vars

\* The callback of ReadRecords is "called exactly once for each record"
\* (record_aggregator.h).
EveryRecordIsRead ==
    cmd.pc = "put" => \A h \in DOMAIN db : db[h].kind \in {"put", "add"} => db[h] \in ToSet(out)
=============================================================================
