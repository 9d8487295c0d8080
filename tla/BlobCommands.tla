---------------------------- MODULE BlobCommands ----------------------------
(***************************************************************************)
(* blob_storage_util: ls, rm, cat and cp over a bucket and a directory.    *)
(* Contents are copied piece by piece from a stream that may break, which  *)
(* ends it early, to a place that may fail.  S3 (external) stores a blob   *)
(* whole or not at all.  A name stands for a blob or for a local file; "-" *)
(* is standard input or output.                                            *)
(***************************************************************************)
EXTENDS Naturals, Sequences, SequencesExt, FiniteSets

CONSTANTS Names, Pieces,    \* pieces of a source that is complete
          MaxCommands

CommandsAssumption == Pieces \in Nat \ {0} /\ MaxCommands \in Nat

Absent == << <<"absent", 0>> >>
Places == {"cloud", "local"}
\* Where cp reads and writes: a place and a name
Ends == (Places \X Names) \cup {<<"-", "-">>}

Input == [i \in 1..Pieces |-> <<"input", i>>]

VARIABLES
    store,      \* contents of blobs and files
    pc, args,   \* the command in progress; names left for rm and cat
    asked,      \* all names it was given
    silent,     \* std::cout has failed and prints nothing more
    from, to,
    buffer,     \* what was read so far
    rest,       \* what the stream still holds
    output,     \* what is on standard output
    broken,     \* the stream ended early or the output failed
    exit,
    before,     \* the store when the command began
    commands

vars == <<store, pc, args, asked, silent, from, to, buffer, rest, output, broken, exit, before, commands>>

Contents(n) == [i \in 1..Pieces |-> <<n, i>>]

NoCopy == UNCHANGED <<from, to, buffer, rest>>

\* An earlier command may have left the contents in part.
Init ==
    /\ \E c \in [Places \X Names -> {"absent", "empty", "part", "whole"}] :
          store = [x \in Places \X Names |-> CASE c[x] = "absent" -> Absent
                                               [] c[x] = "empty" -> <<>>
                                               [] c[x] = "part" -> Front(Contents(x[2]))
                                               [] c[x] = "whole" -> Contents(x[2])]
    /\ pc = "idle" /\ args = <<>> /\ asked = <<>> /\ silent = FALSE /\ from = <<"-", "-">> /\ to = <<"-", "-">>
    /\ buffer = <<>> /\ rest = <<>> /\ output = <<>> /\ broken = FALSE
    /\ exit = "none" /\ before = store /\ commands = 0

\* main: the next command; cout is in order again
Begin == /\ pc = "idle" /\ commands < MaxCommands /\ commands' = commands + 1
         /\ before' = store /\ silent' = FALSE

Exit(e) == pc' = "idle" /\ exit' = e

-----------------------------------------------------------------------------
(* ls, rm, cat *)

ListObjects ==
    /\ Begin /\ broken' = FALSE
    /\ \/ /\ output' = SetToSeq({n \in Names : store[<<"cloud", n>>] # Absent})
          /\ exit' = "ls ok"
       \/ output' = <<>> /\ exit' = "ls failed"
    /\ UNCHANGED <<store, pc, args, asked>> /\ NoCopy

RemoveOrCat ==
    /\ Begin /\ pc' \in {"rm", "cat"}
    /\ output' = <<>> /\ broken' = FALSE /\ exit' = "none"
    /\ \E s \in SetToAllKPermutations(Names) : s # <<>> /\ args' = s /\ asked' = s
    /\ UNCHANGED store /\ NoCopy

\* Mutant: a key that cannot be deleted is passed over.
PassesOver(ok) == IF Len(args) = 1 THEN Exit("rm ok") /\ args' = <<>>
                  ELSE args' = Tail(args) /\ UNCHANGED <<pc, exit>>

\* The first key that cannot be deleted ends the command.
AfterDelete(ok) ==
    IF ok /\ Len(args) > 1 THEN args' = Tail(args) /\ UNCHANGED <<pc, exit>>
    ELSE Exit(IF ok THEN "rm ok" ELSE "rm failed") /\ args' = <<>>

DeleteObjects ==
    /\ pc = "rm"
    /\ \E ok \in BOOLEAN :
          /\ store' = IF ok THEN [store EXCEPT ![<<"cloud", Head(args)>>] = Absent] ELSE store
          /\ AfterDelete(ok)
    /\ UNCHANGED <<asked, silent, output, broken, before, commands>> /\ NoCopy

\* What can be read of a blob: all of it, or a part when the stream breaks
Readable(c) == IF c = Absent THEN {<<>>} ELSE {SubSeq(c, 1, i) : i \in 0..Len(c)}

\* A blob that is missing, empty or unreadable makes std::cout fail: what
\* follows is not printed, and nothing is said of it.
CatObjects ==
    /\ pc = "cat"
    /\ LET c == store[<<"cloud", Head(args)>>] IN
          \E r \in Readable(c) :
              /\ output' = IF silent THEN output ELSE output \o r
              /\ silent' = (silent \/ r = <<>>)
              /\ broken' = (broken \/ r # c)
    /\ IF Len(args) > 1 THEN args' = Tail(args) /\ UNCHANGED <<pc, exit>>
       ELSE Exit("cat ok") /\ args' = <<>>
    /\ UNCHANGED <<store, asked, before, commands>> /\ NoCopy

-----------------------------------------------------------------------------
(* cp *)

Source(f) == IF f[1] = "-" THEN Input ELSE store[f]

\* GetSourceStream: a local file must open; a blob that is missing reads as empty.
CopyBegins ==
    /\ \E f, t \in Ends :
          /\ f[1] = "local" => store[f] # Absent
          /\ from' = f /\ to' = t
          /\ rest' = IF Source(f) = Absent THEN <<>> ELSE Source(f)
          /\ broken' = (Source(f) = Absent)
    /\ Begin /\ pc' = "open" /\ output' = <<>> /\ exit' = "none" /\ buffer' = <<>>
    /\ UNCHANGED <<store, args, asked>>

SourceMissing ==
    /\ \E f \in Ends : f[1] = "local" /\ store[f] = Absent /\ from' = f
    /\ Begin /\ Exit("cp failed") /\ output' = <<>> /\ broken' = FALSE
    /\ UNCHANGED <<store, args, asked, to, buffer, rest>>

\* std::ofstream empties the file that it opens.
Opened == <<>>

\* A local destination is emptied when it is opened, and with it a source that
\* is the same file.
OpenDestination ==
    /\ pc = "open"
    /\ \/ /\ to[1] = "local" /\ pc' = "copy" /\ store' = [store EXCEPT ![to] = Opened]
          /\ rest' = IF from = to THEN <<>> ELSE rest
          /\ UNCHANGED exit
       \/ to[1] = "local" /\ Exit("cp failed") /\ UNCHANGED <<store, rest>>
       \/ to[1] # "local" /\ pc' = "copy" /\ UNCHANGED <<store, rest, exit>>
    /\ UNCHANGED <<args, asked, silent, from, to, buffer, output, broken, before, commands>>

\* The piece goes to the file or to standard output, or is kept for the upload.
CopyPiece ==
    /\ pc = "copy" /\ rest # <<>>
    /\ rest' = Tail(rest) /\ buffer' = Append(buffer, Head(rest))
    /\ store' = IF to[1] = "local" THEN [store EXCEPT ![to] = Append(@, Head(rest))] ELSE store
    /\ output' = IF to[1] = "-" THEN Append(output, Head(rest)) ELSE output
    /\ UNCHANGED <<pc, args, asked, silent, from, to, broken, exit, before, commands>>

\* The source breaks, or the file system is full: the copying ends.
CopyBreaks ==
    /\ pc = "copy" /\ rest # <<>> /\ rest' = <<>> /\ broken' = TRUE
    /\ UNCHANGED <<store, pc, args, asked, silent, from, to, buffer, output, exit, before, commands>>

\* Mutant: what an upload that failed had stored stays.
StoredAnyway(ok) == [store EXCEPT ![to] = buffer]

PutBlob(ok) == IF ok THEN [store EXCEPT ![to] = buffer] ELSE store

CopyEnds ==
    /\ pc = "copy" /\ rest = <<>>
    /\ \/ to[1] # "cloud" /\ Exit("cp ok") /\ UNCHANGED store
       \/ /\ to[1] = "cloud"
          /\ \E ok \in BOOLEAN : /\ store' = PutBlob(ok)
                                 /\ Exit(IF ok THEN "cp ok" ELSE "cp failed")
    /\ UNCHANGED <<args, asked, silent, from, to, buffer, rest, output, broken, before, commands>>

Next == \/ ListObjects \/ RemoveOrCat \/ DeleteObjects \/ CatObjects
        \/ CopyBegins \/ SourceMissing \/ OpenDestination \/ CopyPiece \/ CopyBreaks \/ CopyEnds

Spec == Init /\ [][Next]_vars

-----------------------------------------------------------------------------

Written == IF to[1] = "-" THEN output ELSE store[to]
Wanted == IF from[1] = "-" THEN Input ELSE before[from]
Touched == {x \in Places \X Names : store[x] # before[x]}

\* A blob or file is absent or holds a run of pieces that starts with a first
\* one, and a copy in progress holds what it has read.
TypeOK ==
    /\ \A x \in Places \X Names : store[x] # Absent =>
          Len(store[x]) <= Pieces /\ \A i \in 1..Len(store[x]) : store[x][i][2] = i
    /\ Len(buffer) + Len(rest) <= Pieces
    /\ commands \in 0..MaxCommands

\* rm removes blobs it was asked to remove and nothing else, and reports success
\* only when all of them are gone.
RemovedAreGone ==
    exit \in {"rm ok", "rm failed"} =>
        /\ \A x \in Touched : x[1] = "cloud" /\ x[2] \in ToSet(asked) /\ store[x] = Absent
        /\ exit = "rm ok" => \A n \in ToSet(asked) : store[<<"cloud", n>>] = Absent

\* cp changes its destination only, and when it fails not even that, if that is
\* a blob; when nothing broke on the way the destination is what the source was,
\* unless both are the same file.
CopyIsExact ==
    /\ exit \in {"cp ok", "cp failed"} => Touched \subseteq {to}
    /\ exit = "cp failed" => Touched = {}
    /\ exit = "cp ok" /\ ~broken /\ (from # to \/ to[1] # "local") => Written = Wanted

-----------------------------------------------------------------------------
(* What documentation or comments say.  The code does otherwise, see       *)
(* README.md; these are no properties of the model.                        *)

\* CopyFromReaderToStdoutOrFileDestination "Returns success": true means that
\* the data of the reader were copied.
CopyReportsSuccess == exit = "cp ok" /\ to[1] # "cloud" => Written = Wanted

\* CatObjects: "Print the contents of blobs to stdout; returns success".  When
\* every blob is there and is read to its end, success means all are printed.
CatPrintsBlobs ==
    exit = "cat ok" /\ ~broken =>
        output = FlattenSeq([i \in DOMAIN asked |-> before[<<"cloud", asked[i]>>]])
=============================================================================
