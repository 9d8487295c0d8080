---------------------------- MODULE Compression ----------------------------
(***************************************************************************)
(* Compression groups are concatenated, each after its size, as they are   *)
(* or compressed, and are extracted again by the reader of the blob, which *)
(* may have been cut short.  A byte is a number, a size takes several, the *)
(* high one first.  The Brotli library is external: a stream is what was   *)
(* compressed between Begin and End, and the decoder takes some of its     *)
(* input, keeps the output until it is taken, and is finished at End.      *)
(***************************************************************************)
EXTENDS Integers, Sequences, SequencesExt

CONSTANTS Groups,       \* lists of groups to send
          Types,        \* CompressionType
          SizeBytes,    \* bytes of a size
          Base,         \* values of such a byte
          Begin, End    \* marks of a Brotli stream

CompressionAssumption == SizeBytes \in Nat /\ Base \in Nat \ {0} /\ Begin \in Nat /\ End \in Nat

NoDecoder == [data |-> <<>>, at |-> 0, out |-> <<>>, outputs |-> <<>>, finished |-> FALSE]

VARIABLES type, groups, built, blob,
          arrived,  \* bytes of the blob that arrived
          phase, extracted, status, decoder

vars == <<type, groups, built, blob, arrived, phase, extracted, status, decoder>>

Init ==
    /\ type \in Types /\ groups \in Groups
    /\ built = 0 /\ blob = <<>> /\ arrived = 0 /\ phase = "build"
    /\ extracted = <<>> /\ status = "ok" /\ decoder = NoDecoder

Compress(text) == <<Begin>> \o text \o <<End>>

\* Mutant: the size of the text before it is compressed.
TextSize(text, data) == Len(text)

Size(text, data) == Len(data)

\* WriteUInt32 and ReadUInt32
UInt(n) == [i \in 1 .. SizeBytes |-> (n \div Base ^ (SizeBytes - i)) % Base]
ReadUInt(bytes) == FoldLeft(LAMBDA n, byte : n * Base + byte, 0, SubSeq(bytes, 1, SizeBytes))

\* WriteUInt32 and WriteStringPiece, or CompressOnePartition
WithSize(text) ==
    LET data == IF type = "brotli" THEN Compress(text) ELSE text
    IN UInt(Size(text, data)) \o data

\* One round of Build
BuildGroup ==
    /\ phase = "build" /\ built < Len(groups)
    /\ built' = built + 1
    /\ blob' = blob \o WithSize(groups[built'])
    /\ UNCHANGED <<type, groups, arrived, phase, extracted, status, decoder>>

\* "Brotli failed to compress"
CompressFails ==
    /\ phase = "build" /\ built < Len(groups) /\ type = "brotli"
    /\ phase' = "done" /\ status' = "error"
    /\ UNCHANGED <<type, groups, arrived, built, blob, extracted, decoder>>

\* The blob is sent, and arrives whole or cut.
Send ==
    /\ phase = "build" /\ built = Len(groups)
    /\ \E n \in 0 .. Len(blob) : blob' = SubSeq(blob, 1, n) /\ arrived' = n
    /\ phase' = "read"
    /\ UNCHANGED <<type, groups, built, extracted, status, decoder>>

Fail == phase' = "done" /\ status' = "error" /\ decoder' = NoDecoder
        /\ UNCHANGED <<type, groups, arrived, built, blob, extracted>>

GroupEnd == SizeBytes + ReadUInt(blob)

\* The blob ends neither within a size nor within the data of that size.
LongEnough == Len(blob) >= SizeBytes /\ Len(blob) >= GroupEnd

\* ExtractOneCompressionGroup up to the data
ExtractOne ==
    /\ phase = "read" /\ blob # <<>> /\ LongEnough
    /\ LET data == SubSeq(blob, SizeBytes + 1, GroupEnd)
       IN IF type = "brotli"
          THEN phase' = "decode" /\ decoder' = [NoDecoder EXCEPT !.data = data] /\ UNCHANGED extracted
          ELSE extracted' = Append(extracted, data) /\ UNCHANGED <<phase, decoder>>
    /\ blob' = SubSeq(blob, GroupEnd + 1, Len(blob))
    /\ UNCHANGED <<type, groups, arrived, built, status>>

\* Mutant: what is left of a group is dropped.
DropsTheRest ==
    /\ phase = "read" /\ blob # <<>> /\ ~LongEnough /\ phase' = "done"
    /\ UNCHANGED <<type, groups, arrived, built, blob, extracted, status, decoder>>

ExtractFails == phase = "read" /\ blob # <<>> /\ ~LongEnough /\ Fail

IsDoneReading ==
    /\ phase = "read" /\ blob = <<>> /\ phase' = "done"
    /\ UNCHANGED <<type, groups, arrived, built, blob, extracted, status, decoder>>

-----------------------------------------------------------------------------
(* BrotliDecoder::Decode, one round of its loop each *)

InputLeft == decoder.at < Len(decoder.data)

TakeOutput ==
    /\ phase = "decode" /\ decoder.out # <<>>
    /\ decoder' = [decoder EXCEPT !.outputs = @ \o decoder.out, !.out = <<>>]
    /\ UNCHANGED <<type, groups, arrived, built, blob, phase, extracted, status>>

Finished ==
    /\ phase = "decode" /\ decoder.out = <<>> /\ decoder.finished
    /\ IF InputLeft THEN Fail
       ELSE /\ extracted' = Append(extracted, decoder.outputs)
            /\ phase' = "read" /\ decoder' = NoDecoder
            /\ UNCHANGED <<type, groups, arrived, built, blob, status>>

OutOfInput == ~InputLeft

Truncated ==
    phase = "decode" /\ decoder.out = <<>> /\ ~decoder.finished /\ OutOfInput /\ Fail

\* BrotliDecoderDecompressStream takes n bytes; less than all there are only when
\* there is output to be taken, or at the end.
Decompress ==
    /\ phase = "decode" /\ decoder.out = <<>> /\ ~decoder.finished /\ InputLeft
    /\ \E n \in 1 .. Len(decoder.data) - decoder.at :
          LET taken == SubSeq(decoder.data, decoder.at + 1, decoder.at + n)
              text == SelectSeq(taken, LAMBDA x : x \notin {Begin, End})
              marks == decoder.at > 0 \/ Head(taken) = Begin
              ended == \E i \in DOMAIN taken : taken[i] = End
          IN /\ ended => Last(taken) = End
             /\ \/ ended \/ text # <<>> \/ n = Len(decoder.data) - decoder.at
             /\ IF ~marks THEN Fail
                ELSE /\ decoder' = [decoder EXCEPT !.at = @ + n, !.out = text, !.finished = ended]
                     /\ UNCHANGED <<type, groups, arrived, built, blob, phase, extracted, status>>

Next ==
    \/ BuildGroup \/ CompressFails \/ Send
    \/ ExtractOne \/ ExtractFails \/ IsDoneReading
    \/ TakeOutput \/ Finished \/ Truncated \/ Decompress

Spec == Init /\ [][Next]_vars

-----------------------------------------------------------------------------
(* Properties *)

\* No more groups are extracted than were added, and the position of a reader or
\* decoder stays within its data.
TypeOK ==
    /\ type \in {"brotli", "uncompressed"} /\ groups \in Groups
    /\ built \in 0 .. Len(groups) /\ phase \in {"build", "read", "decode", "done"}
    /\ status \in {"ok", "error"} /\ Len(extracted) <= Len(groups)
    /\ decoder.at \in 0 .. Len(decoder.data) /\ decoder.finished \in BOOLEAN

\* Sizes that can be written in the place there is for them.
Fits == \A i \in DOMAIN groups : Len(WithSize(groups[i])) - SizeBytes < Base ^ SizeBytes

\* The bytes of a list of groups
Bytes(list) == Len(FlattenSeq([i \in DOMAIN list |-> WithSize(list[i])]))

\* What the reader extracts are the first of the groups, unchanged and in their order,
\* wherever the blob was cut, and all of them if it was not.
ExtractedAreGroups ==
    Fits =>
        /\ IsPrefix(extracted, groups)
        /\ phase = "done" /\ built = Len(groups) /\ arrived = Bytes(groups) => extracted = groups

\* If a group was cut there is an error: no byte is left over.  Groups that are missing
\* as a whole are not noticed, the blob does not tell how many there are.
CutGroupIsError ==
    Fits /\ phase = "done" /\ status = "ok" =>
        arrived = Bytes(extracted)

=============================================================================
