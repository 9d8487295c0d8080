---------------------------- MODULE DataFormats ----------------------------
(***************************************************************************)
(* format_data: records are read from CSV rows or from a delta file,       *)
(* converted one by one and written in the other format.  A second command *)
(* converts the result back.  Strings are sequences of characters, of      *)
(* which "|" separates the values of a set and "0" is the null character,  *)
(* at which the serialized strings end.  Quoting in CSV is riegeli's.      *)
(***************************************************************************)
EXTENDS Integers, Sequences, SequencesExt

CONSTANTS Inputs,   \* contents of the first file, for every kind of record
          Formats,  \* formats of the first file
          Width,    \* bits of an int32
          Junk      \* a field that is not understood

FormatsAssumption == Width \in Nat \ {0} /\ Formats \subseteq {"csv", "delta"}

Kinds == {"kv", "udf", "map"}

VARIABLES type,    \* record_type
          format,  \* format of the input
          source,  \* what the first command has read
          input, pos,
          out,     \* what the writer has accepted
          status, broken,
          file,    \* what is in the output once it is closed
          close,   \* the result of closing it
          stage

vars == <<type, format, source, input, pos, out, status, broken, file, close, stage>>
output == <<file, close, stage>>

Init ==
    /\ type \in Kinds /\ format \in Formats
    /\ source \in Inputs[format][type] /\ input = source
    /\ pos = 1 /\ out = <<>> /\ status = "ok" /\ broken = FALSE
    /\ file = <<>> /\ close = "none" /\ stage = 1

Error == [error |-> TRUE]
IsError(r) == "error" \in DOMAIN r

-----------------------------------------------------------------------------
(* Strings and numbers *)

Separator == "|"

\* absl::StrSplit
StrSplit(s) ==
    FoldLeft(LAMBDA parts, c : IF c = Separator THEN Append(parts, <<>>)
                               ELSE [parts EXCEPT ![Len(parts)] = Append(@, c)], <<<<>>>>, s)

\* Mutant: a separator follows every value.
JoinAll(parts) == FoldLeft(LAMBDA s, p : s \o p \o <<Separator>>, <<>>, parts)

\* absl::StrJoin
StrJoin(parts) ==
    IF parts = <<>> THEN <<>>
    ELSE FoldLeft(LAMBDA s, p : s \o <<Separator>> \o p, Head(parts), Tail(parts))

\* A string_view that is passed on by its data() only.
CString(s) ==
    IF "0" \in ToSet(s) THEN SubSeq(s, 1, SelectInSeq(s, LAMBDA c : c = "0") - 1) ELSE s

\* Mutant: the number loses its sign.
Unsigned(n) == n % 2 ^ Width

\* An int64 assigned to an int32.
Narrow(n) == ((n + 2 ^ (Width - 1)) % 2 ^ Width) - 2 ^ (Width - 1)

-----------------------------------------------------------------------------
(* CSV *)

\* MakeDeltaFileRecordStruct
GetRecordValue(row) ==
    CASE row.value_type = "string" -> [t |-> "string", v |-> row.value]
      [] row.value_type = "string_set" -> [t |-> "set", v |-> StrSplit(row.value)]
      [] OTHER -> Error

FromCsv(row) ==
    CASE type = "kv" ->
            IF IsError(GetRecordValue(row)) \/ Junk \in {row.time, row.mutation} THEN Error
            ELSE [kind |-> "kv", key |-> row.key, time |-> row.time, mutation |-> row.mutation,
                  value |-> GetRecordValue(row)]
      [] type = "udf" ->
            IF Junk \in {row.time, row.version, row.language} THEN Error
            ELSE [kind |-> "udf", code |-> row.code, time |-> row.time, version |-> row.version]
      [] OTHER ->
            IF Junk \in {row.logical, row.physical} THEN Error
            ELSE [kind |-> "map", logical |-> Narrow(row.logical), physical |-> Narrow(row.physical)]

\* MakeCsvRecord
ToCsv(r) ==
    IF r.kind # type THEN Error
    ELSE CASE r.kind = "kv" ->
                 [key |-> r.key, time |-> r.time, mutation |-> r.mutation,
                  value |-> IF r.value.t = "set" THEN StrJoin(r.value.v) ELSE r.value.v,
                  value_type |-> IF r.value.t = "set" THEN "string_set" ELSE "string"]
           [] r.kind = "udf" ->
                 [code |-> r.code, time |-> r.time, version |-> r.version, language |-> "javascript"]
           [] OTHER -> [logical |-> r.logical, physical |-> r.physical]

-----------------------------------------------------------------------------
(* Flatbuffers *)

\* BuildValueUnion, the values of a set have their lengths.
ValueUnion(value) == IF value.t = "string" THEN [value EXCEPT !.v = CString(@)] ELSE value

\* ToFlatBufferBuilder
ToBytes(r) ==
    CASE r.kind = "kv" -> [r EXCEPT !.key = CString(@), !.value = ValueUnion(@)]
      [] r.kind = "udf" -> [r EXCEPT !.code = CString(@)]
      [] OTHER -> r

\* DeserializeDataRecord: bytes that are no record, or a value that is not set, are errors.
FromBytes(b) ==
    IF b.kind = "junk" \/ (b.kind = "kv" /\ b.value.t = "none") THEN Error ELSE b

-----------------------------------------------------------------------------
(* FormatDataCommand *)

Read(x) == IF format = "csv" THEN FromCsv(x) ELSE FromBytes(x)
Write(r) == IF format = "csv" THEN ToBytes(r) ELSE ToCsv(r)

Reading == pos <= Len(input)

\* Mutant: a record that cannot be converted ends the reading.
StopAtError(bad) == IF bad THEN Len(input) + 1 ELSE pos + 1

AfterRecord(bad) == pos + 1

\* Mutant: only the status of the stream counts.
StreamOnly(bad) == status

\* CSV: errors of rows and of the callback are errors of the command.  Delta files:
\* ReadStreamRecords logs them.
StatusAfter(bad) == IF bad /\ format = "csv" THEN "error" ELSE status

ReadRecord ==
    /\ Reading
    /\ LET r == Read(input[pos])
           w == IF IsError(r) THEN Error ELSE Write(r)
           bad == IsError(w) \/ broken
       IN /\ out' = IF bad THEN out ELSE Append(out, w)
          /\ status' = StatusAfter(bad)
          /\ pos' = AfterRecord(bad)
    /\ UNCHANGED <<type, format, source, input, broken, output>>

\* The output cannot be written any more.
WriterBreaks ==
    /\ Reading /\ ~broken /\ broken' = TRUE
    /\ UNCHANGED <<type, format, source, input, pos, out, status, output>>

\* The input breaks off here.
ReaderBreaks ==
    /\ Reading
    /\ input' = SubSeq(input, 1, pos - 1) /\ status' = "error"
    /\ UNCHANGED <<type, format, source, pos, out, broken, output>>

\* The end of Execute.  The writer buffers what it accepts; when it is broken, or breaks
\* now, only the first part is in the output.  Execute does not look at the result.
Close ==
    /\ ~Reading /\ close = "none"
    /\ \/ ~broken /\ close' = "ok" /\ file' = out
       \/ close' = "failed" /\ \E n \in 0 .. Len(out) : file' = SubSeq(out, 1, n)
    /\ UNCHANGED <<type, format, source, input, pos, out, status, broken, stage>>

\* A second command converts the result of a first one that went well.
ConvertBack ==
    /\ stage = 1 /\ close = "ok" /\ status = "ok" /\ stage' = 2
    /\ format' = IF format = "csv" THEN "delta" ELSE "csv"
    /\ input' = file /\ pos' = 1 /\ out' = <<>> /\ file' = <<>> /\ close' = "none"
    /\ UNCHANGED <<type, source, status, broken>>

Next == ReadRecord \/ WriterBreaks \/ ReaderBreaks \/ Close \/ ConvertBack

Spec == Init /\ [][Next]_vars

-----------------------------------------------------------------------------
(* Properties *)

\* Conversion writes at most one row per record read, all of the chosen kind.
TypeOK ==
    /\ type \in Kinds /\ format \in {"csv", "delta"} /\ stage \in 1 .. 2
    /\ pos \in 1 .. Len(input) + 1 /\ Len(out) < pos
    /\ status \in {"ok", "error"} /\ broken \in BOOLEAN
    /\ close \in {"none", "ok", "failed"} /\ IsPrefix(file, out)
    /\ \A i \in DOMAIN out : "kind" \in DOMAIN out[i] => out[i].kind = type

\* The second command went well, too.
Back == stage = 2 /\ close = "ok" /\ status = "ok"

\* Rows that consist of strings without null characters and of numbers in range.
Clean(row) ==
    CASE type = "kv" -> "0" \notin ToSet(row.key) \cup ToSet(row.value)
      [] type = "udf" -> "0" \notin ToSet(row.code)
      [] OTHER -> Narrow(row.logical) = row.logical /\ Narrow(row.physical) = row.physical

\* CSV rows converted to a delta file and back are the same, also sets with empty values,
\* when they have no null character (ToFlatBufferBuilder ends strings there) and no shard
\* number beyond an int32 (it is narrowed).
RowsSurvive ==
    Back /\ format = "delta" /\ (\A i \in DOMAIN source : Clean(source[i])) => file = source

\* A command that reads CSV and succeeds has written every row, unless Close fails, whose
\* result Execute does not look at; the writer has accepted every row even then.
OkMeansComplete ==
    format = "csv" /\ close # "none" /\ status = "ok" =>
        Len(out) = Len(input) /\ (close = "ok" => Len(file) = Len(input))

\* A bad row does not keep the rows after it from the output, when that is not broken.
GoodRowsWritten ==
    format = "csv" /\ close = "ok" =>
        Len(file) = Len(SelectSeq(input, LAMBDA row : ~IsError(FromCsv(row))))

\* CSV has no form for an empty set or for a value of a set with the separator in it.
Representable(r) ==
    r.kind = "kv" /\ r.value.t = "set" =>
        r.value.v # <<>> /\ \A i \in DOMAIN r.value.v : Separator \notin ToSet(r.value.v[i])

\* The records of a delta file that are valid and of the type of the command, and that
\* CSV can represent, are the same after a conversion to CSV and back.  The others are
\* dropped, and the command succeeds without them.
RecordsSurvive ==
    Back /\ format = "csv" /\ (\A i \in DOMAIN source : Representable(source[i])) =>
        file = SelectSeq(source, LAMBDA r : ~IsError(FromBytes(r)) /\ r.kind = type)

-----------------------------------------------------------------------------
(* What documentation or comments say.  The code does otherwise, see       *)
(* README.md; these are no properties of the model.                        *)

\* A status that is not OK means "Failed to read all records"
\* (delta_record_reader.h:41); an OK one, that all were read and written.
OkMeansAllRead == close # "none" /\ status = "ok" => Len(file) = Len(input)
=============================================================================
