---------------------------- MODULE AuctionData ----------------------------
(***************************************************************************)
(* The tool that asks a buyer's and a seller's key/value server for the    *)
(* values of the names and render URLs in an audience file and writes a    *)
(* delta file for each.  Keys go out in batches, one transfer per batch,   *)
(* all in progress at once; answers are parsed by groups of threads that   *)
(* fill one output map each.  libcurl, the servers and JSON are external.  *)
(***************************************************************************)
EXTENDS Naturals, Sequences, FiniteSets, SequencesExt, FiniteSetsExt

CONSTANTS Audiences,      \* contents of the audience file: sets of groups (a name, ads)
          Stored,         \* values in the servers: "value", "empty" or "none" per key
          Pieces,         \* what is between the commas of a key: the key alone if none
          KeysPerBatch, Threads,
          Dir             \* output directory for each side

Sides == <<"keys", "renderUrls">>

AuctionAssumption ==
    KeysPerBatch \in Nat \ {0} /\ Threads \in Nat \ {0} /\ DOMAIN Dir = {"keys", "renderUrls"}

VARIABLES audience, nameOk, decodes,
          side, pc,
          batches, transfer,    \* batches of keys; how far the transfer of each is
          processed, parsing,   \* responses parsed; those being parsed by a thread
          output,               \* a set of keys, those of the map, per batch
          written,              \* maps written
          files,                \* keys of the records in the file of each directory
          trouble               \* sides of which an error was logged, with its kind

vars == <<audience, nameOk, decodes, side, pc, batches, transfer, processed, parsing, output,
          written, files, trouble>>

given == <<audience, nameOk, decodes>>

Now == Sides[side]

\* ParseAudienceData: a name or a URL that occurs twice is asked for once.
ParseAudienceData(namespace) ==
    IF namespace = "keys" THEN {g.name : g \in audience} ELSE UNION {g.ads : g \in audience}

-----------------------------------------------------------------------------

Init ==
    /\ audience \in Audiences /\ nameOk \in BOOLEAN /\ decodes \in BOOLEAN
    /\ side = 1 /\ pc = "start"
    /\ batches = <<>> /\ transfer = <<>> /\ output = <<>>
    /\ processed = 0 /\ parsing = {} /\ written = 0
    /\ files = [d \in {Dir[s] : s \in DOMAIN Dir} |-> <<>>]
    /\ trouble = {}

\* A file that cannot be read or parsed ends the tool; a bad name for the output
\* does not, although it is logged as a reason to abort.
ReadCustomAudienceData ==
    /\ pc = "start" /\ pc' \in {"batch", "failed"}
    /\ UNCHANGED <<given, side, batches, transfer, processed, parsing, output,
                   written, files, trouble>>

\* Mutant: what is left over after the full batches is forgotten.
FullBatches(order) ==
    [b \in 1..(Len(order) \div KeysPerBatch) |->
        {order[i] : i \in ((b - 1) * KeysPerBatch + 1)..(b * KeysPerBatch)}]

\* A batch is closed when the next key finds it full, the last one at the end.
GetBatchedUrls(order) ==
    LET count == (Len(order) + KeysPerBatch - 1) \div KeysPerBatch IN
    [b \in 1..count |->
        {order[i] : i \in ((b - 1) * KeysPerBatch + 1)..Min({b * KeysPerBatch, Len(order)})}]

\* The keys of a hash set come in any order.
StartBatches ==
    /\ pc = "batch"
    /\ \E order \in SetToSeqs(ParseAudienceData(Now)) :
          LET b == GetBatchedUrls(order) IN
          /\ batches' = b
          /\ transfer' = [i \in DOMAIN b |-> "running"]
          /\ output' = [i \in DOMAIN b |-> {}]
    /\ processed' = 0 /\ parsing' = {} /\ written' = 0 /\ pc' = "fetch"
    /\ UNCHANGED <<given, side, files, trouble>>

-----------------------------------------------------------------------------
(* FetchUrls *)

\* An answer is any body, also that of an HTTP error, which is no JSON.
TransferDone(i) ==
    /\ pc = "fetch" /\ transfer[i] = "running"
    /\ \E body \in {"json", "other"} : transfer' = [transfer EXCEPT ![i] = body]
    /\ UNCHANGED <<given, side, pc, batches, processed, parsing, output,
                   written, files, trouble>>

NextSide == /\ side' = IF side = Len(Sides) THEN side ELSE side + 1
            /\ pc' = IF side = Len(Sides) THEN "done" ELSE "batch"

\* One transfer that fails or times out fails all; the next side is tried.
TransferFails(i) ==
    /\ pc = "fetch" /\ transfer[i] = "running"
    /\ trouble' = trouble \cup {<<Now, "transfer">>} /\ NextSide
    /\ UNCHANGED <<given, batches, transfer, processed, parsing, output,
                   written, files>>

FetchUrlsReturns ==
    /\ pc = "fetch" /\ \A i \in DOMAIN transfer : transfer[i] # "running"
    /\ pc' = "parse"
    /\ UNCHANGED <<given, side, batches, transfer, processed, parsing, output,
                   written, files, trouble>>

-----------------------------------------------------------------------------
(* RetrieveValues *)

TasksInParallel == Min({Threads, Len(transfer) - processed})

StartThreads ==
    /\ pc = "parse" /\ processed < Len(transfer)
    /\ pc' = "join" /\ parsing' = (processed + 1)..(processed + TasksInParallel)
    /\ UNCHANGED <<given, side, batches, transfer, processed, output,
                   written, files, trouble>>

NeedEncode(namespace) == namespace = "renderUrls"

\* The server takes a comma for the end of a key, also one that was encoded when
\* it comes to it decoded (decodes), as through the proxy in front of ours.
PiecesAsked(namespace, keys) ==
    IF NeedEncode(namespace) /\ ~decodes THEN keys ELSE UNION {Pieces[k] : k \in keys}

Asked(i) == PiecesAsked(Now, batches[i])

IsEmptyValue(k) == Stored[k] = "empty"

\* The extractors leave out empty values; keys without a value are not answered.
DataExtractor(i) == {k \in Asked(i) : Stored[k] # "none" /\ ~IsEmptyValue(k)}

\* Mutant: one response that is no JSON spoils the maps of the others.
SpoilsAll(i) == IF transfer[i] = "json"
                THEN [output EXCEPT ![i] = @ \cup DataExtractor(i)]
                ELSE [m \in DOMAIN output |-> {}]

\* A response that cannot be parsed leaves its map empty.
Parsed(i) == IF transfer[i] = "json"
             THEN [output EXCEPT ![i] = @ \cup DataExtractor(i)]
             ELSE output

ThreadParses(i) ==
    /\ pc = "join" /\ i \in parsing
    /\ output' = Parsed(i) /\ parsing' = parsing \ {i}
    /\ trouble' = IF transfer[i] = "json" THEN trouble ELSE trouble \cup {<<Now, "json">>}
    /\ UNCHANGED <<given, side, pc, batches, transfer, processed, written, files>>

AfterJoin == processed + TasksInParallel

JoinThreads ==
    /\ pc = "join" /\ parsing = {}
    /\ processed' = AfterJoin /\ pc' = "parse"
    /\ UNCHANGED <<given, side, batches, transfer, parsing, output,
                   written, files, trouble>>

-----------------------------------------------------------------------------
(* The delta file *)

\* The file is created anew; when that fails the next side is tried.
OpenDeltaFile ==
    /\ pc = "parse" /\ processed >= Len(transfer) /\ nameOk
    /\ \/ pc' = "write" /\ files' = [files EXCEPT ![Dir[Now]] = <<>>]
          /\ UNCHANGED <<side, trouble>>
       \/ trouble' = trouble \cup {<<Now, "open">>} /\ NextSide /\ UNCHANGED files
    /\ UNCHANGED <<given, batches, transfer, processed, parsing, output, written>>

\* Without a name the tool crashes when it needs it.
NameIsMissing ==
    /\ pc = "parse" /\ processed >= Len(transfer) /\ ~nameOk /\ pc' = "crashed"
    /\ UNCHANGED <<given, side, batches, transfer, processed, parsing, output,
                   written, files, trouble>>

\* One map after the other; a failure is logged and the next map tried, with a
\* writer that can write no more.
WriteMap ==
    /\ pc = "write" /\ written < Len(output)
    /\ \E part \in SUBSET output[written + 1] :
          /\ <<Now, "write">> \in trouble => part = {}
          /\ files' = [files EXCEPT ![Dir[Now]] = @ \o SetToSeq(part)]
          /\ trouble' = IF part = output[written + 1] THEN trouble
                        ELSE trouble \cup {<<Now, "write">>}
    /\ written' = written + 1
    /\ UNCHANGED <<given, side, pc, batches, transfer, processed, parsing, output>>

DoneWriting ==
    /\ pc = "write" /\ written >= Len(output) /\ NextSide
    /\ UNCHANGED <<given, batches, transfer, processed, parsing, output,
                   written, files, trouble>>

-----------------------------------------------------------------------------

Step == \/ ReadCustomAudienceData \/ StartBatches \/ FetchUrlsReturns
        \/ StartThreads \/ JoinThreads \/ OpenDeltaFile \/ NameIsMissing \/ WriteMap \/ DoneWriting
        \/ \E i \in DOMAIN transfer :
              TransferDone(i) \/ TransferFails(i) \/ ThreadParses(i)

Next == Step

Spec == Init /\ [][Next]_vars

-----------------------------------------------------------------------------

\* Every batch has its transfer and its map, no batch is larger than asked for,
\* and no more threads than allowed parse at the same time.
TypeOK ==
    /\ side \in 1..2
    /\ pc \in {"start", "batch", "fetch", "parse", "join", "write", "done", "failed", "crashed"}
    /\ \A i \in DOMAIN batches : Cardinality(batches[i]) \in 1..KeysPerBatch
    /\ DOMAIN transfer = DOMAIN batches /\ DOMAIN output = DOMAIN batches
    /\ Cardinality(parsing) <= Threads /\ processed \in 0..Len(batches)
    /\ written \in 0..Len(batches)

IsOver(s) == pc = "done" \/ (s = "keys" /\ side = 2)
Trouble(s) == {t \in trouble : t[1] = s}
Records(s) == files[Dir[s]]

\* When nothing went wrong on a side, its delta file has a record for every key
\* with a value, and for no other, however keys were cut into batches and answers
\* shared among threads (GetBatchedUrls, RetrieveValues, Write).  A name with a
\* comma, which goes out as it is, counts as its pieces, and so does a URL with
\* one for a server that decodes first; without these there is one record a key.
FilesComplete ==
    \A s \in {"keys", "renderUrls"} : IsOver(s) /\ Trouble(s) = {} =>
        LET wanted == ParseAudienceData(s)
            asked  == PiecesAsked(s, wanted)
        IN  /\ ToSet(Records(s)) = {k \in asked : Stored[k] = "value"}
            /\ asked = wanted => Len(Records(s)) = Cardinality(ToSet(Records(s)))

\* An answer that is no JSON costs the values of its own batch only.  A transfer
\* that fails costs those of all batches of its side, whose file is left as it
\* was (FetchUrls, RetrieveValues).
FailedBatchAlone ==
    /\ pc = "write" /\ written = Len(output) /\ Trouble(Now) \subseteq {<<Now, "json">>} =>
          \A i \in DOMAIN batches : transfer[i] = "json" =>
              {k \in Asked(i) : Stored[k] = "value"} \subseteq ToSet(Records(Now))
    /\ \A s \in {"keys", "renderUrls"} : <<s, "transfer">> \in trouble => Records(s) = <<>>

-----------------------------------------------------------------------------
(* What documentation or comments say.  The code does otherwise, see       *)
(* README.md; these are no properties of the model.                        *)

\* "Abort! Unable to generate valid delta file name": nothing is fetched then.
AbortMeansStop == ~nameOk => pc \notin {"fetch", "parse", "join", "write"}
=============================================================================
