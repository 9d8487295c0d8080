---------------------------- MODULE SeekingStream ----------------------------
(***************************************************************************)
(* SeekingInputStreambuf: a stream buffer over a blob that is read in      *)
(* chunks from remote storage, with the two operations that S3 and GCS     *)
(* implement (SizeImpl, ReadChunk).  The istream on top reads and seeks;   *)
(* the error callback sets its badbit, after which it does neither.        *)
(*                                                                         *)
(* Byte p of the blob is known as p, so that a wrong byte shows.  `area`   *)
(* is buffer_; setg makes its first `end` bytes the get area.              *)
(***************************************************************************)
EXTENDS Integers, Sequences

CONSTANTS BlobSizes,    \* sizes of the blob
          BufferSizes,  \* values of options_.buffer_size
          Eof, Junk     \* not bytes

StreamAssumption == BlobSizes \subseteq Nat /\ BufferSizes \subseteq Int

VARIABLES blob,    \* size of the blob
          buffer,  \* size of the buffer
          area,    \* buffer_
          end,     \* egptr - eback
          cursor,  \* gptr - eback
          limit,   \* src_limit_position_
          cached,  \* src_cached_size_
          fill,    \* underflow in progress: bytes to read, bytes read
          state,   \* what has become of the bytes in the buffer
          op,      \* the last operation: a read, or a seek with its arguments
          out,     \* what the last read returned
          bad      \* badbit of the stream

vars == <<blob, buffer, area, end, cursor, limit, cached, fill, state, op, out, bad>>

options == <<blob, buffer>>

NoFill == [on |-> FALSE, want |-> 0, read |-> 0]

\* The buffer is "sound" while one chunk fills it.  It is "torn" when a chunk was written
\* over another, or was not written at all, and "lost" when an underflow resized it and
\* then ended without setg.
States == {"sound", "torn", "lost"}

Init ==
    /\ blob \in BlobSizes /\ buffer \in BufferSizes
    /\ area = <<>> /\ end = 0 /\ cursor = 0 /\ limit = 0 /\ cached = -1
    /\ fill = NoFill /\ state = "sound" /\ op = <<0, "read">> /\ out = Eof /\ bad = FALSE

Smaller(a, b) == IF a < b THEN a ELSE b
Larger(a, b) == IF a > b THEN a ELSE b

BufferAvailableChars == end - cursor
BufferStartPosition == limit - end
BufferCursorPosition == limit - BufferAvailableChars

\* Size: asked for once.
SizeIs(ok) ==
    /\ ok \/ cached < 0
    /\ cached' = IF cached < 0 /\ ok THEN blob ELSE cached

\* The stream calls on its buffer only in this state.
Ready == ~bad /\ ~fill.on

-----------------------------------------------------------------------------
(* Seeking *)

\* Mutant: the current position is the one the storage is read from.
FromLimit(off, dir) ==
    CASE dir = "beg" -> off
      [] dir = "cur" -> limit + off
      [] dir = "end" -> cached' + off

Target(off, dir) ==
    CASE dir = "beg" -> off
      [] dir = "cur" -> BufferCursorPosition + off
      [] dir = "end" -> cached' + off

WrongSign(off, dir) == (dir = "beg" /\ off < 0) \/ (dir = "end" /\ off > 0)

Rounded(p) == Smaller(cached', Larger(0, p))

InBuffer(p) == p >= BufferStartPosition /\ p < limit

\* The part of seekoff that moves.
MoveTo(p) ==
    IF InBuffer(p)
    THEN /\ cursor' = p - BufferStartPosition /\ end' = Len(area)
         /\ UNCHANGED <<area, limit, state>>
    ELSE area' = <<>> /\ end' = 0 /\ cursor' = 0 /\ limit' = p /\ state' = "sound"

\* seekoff; seekpos is seekoff from the beginning.
Seekoff(off, dir, ok) ==
    /\ Ready /\ SizeIs(ok)
    /\ IF ok /\ ~WrongSign(off, dir)
       THEN MoveTo(Rounded(Target(off, dir)))
       ELSE UNCHANGED <<area, end, cursor, limit, state>>
    /\ bad' = ~ok
    /\ op' = IF ok THEN <<off, dir>> ELSE op
    /\ UNCHANGED <<options, fill, out>>

-----------------------------------------------------------------------------
(* Reading *)

\* sbumpc of the standard library: a byte of the get area.
Bump ==
    /\ Ready /\ BufferAvailableChars > 0
    /\ op' = <<0, "read">> /\ out' = area[cursor + 1] /\ cursor' = cursor + 1
    /\ UNCHANGED <<options, area, end, limit, cached, fill, state, bad>>

\* Mutant: the size of the buffer is not looked at.
WholeRest == Larger(cached' - limit, 1)

BytesToRead == Larger(Smaller(cached' - limit, buffer), 1)

\* underflow up to its loop.  buffer_ is resized; what is in it then is of no account.
Underflow(ok) ==
    /\ Ready /\ BufferAvailableChars <= 0 /\ SizeIs(ok)
    /\ \/ ~ok /\ bad' = TRUE /\ UNCHANGED <<area, state, op, out, fill>>
       \/ /\ ok /\ limit >= cached' /\ op' = <<0, "read">> /\ out' = Eof
          /\ UNCHANGED <<area, state, bad, fill>>
       \/ /\ ok /\ limit < cached' /\ area' = [i \in 1 .. BytesToRead |-> Junk]
          /\ fill' = [on |-> TRUE, want |-> BytesToRead, read |-> 0]
          /\ state' = "sound" /\ UNCHANGED <<op, out, bad>>
    /\ UNCHANGED <<options, end, cursor, limit>>

\* The range is inclusive at both ends: offset .. offset + length - 1.
GetRange(length) == length

\* What ReadChunk may return for a chunk of this size: all of it, less, nothing, or -1
\* when the size of what came cannot be told.
BytesRead(chunk) == -1 .. GetRange(chunk)

\* ReadChunk is given the start of buffer_ each time.  GCS does not always say how many
\* bytes come; they are then taken from the stream to count them, and none is left for
\* the buffer.
Written(n, sized) ==
    [i \in DOMAIN area |-> IF sized /\ i <= n /\ limit + i <= blob THEN limit + i - 1 ELSE area[i]]

\* setg, and the first byte.
Install(bytes) ==
    /\ area' = bytes /\ end' = Len(bytes) /\ cursor' = 1
    /\ op' = <<0, "read">> /\ out' = bytes[1] /\ fill' = NoFill

\* One round of the loop of underflow.
ReadChunk(n, sized) ==
    /\ fill.on /\ n >= 0 /\ n \in BytesRead(fill.want - fill.read)
    /\ limit' = limit + n
    /\ IF fill.read + n >= fill.want THEN Install(Written(n, sized))
       ELSE /\ area' = Written(n, sized) /\ fill' = [fill EXCEPT !.read = @ + n]
            /\ UNCHANGED <<end, cursor, op, out>>
    /\ state' = IF n > 0 /\ (fill.read > 0 \/ ~sized) THEN "torn" ELSE state
    /\ UNCHANGED <<options, cached, bad>>

\* Mutant: the buffer keeps the size it was given.
Unshrunk == area

Shrunk == SubSeq(area, 1, fill.read)

\* The loop is left early; without a byte the read ends as at the end of the blob.
ReadChunkEndsLoop ==
    /\ fill.on /\ -1 \in BytesRead(fill.want - fill.read)
    /\ IF fill.read > 0 THEN Install(Shrunk) /\ UNCHANGED state
       ELSE /\ op' = <<0, "read">> /\ out' = Eof /\ fill' = NoFill /\ state' = "lost"
            /\ UNCHANGED <<area, end, cursor>>
    /\ UNCHANGED <<options, limit, cached, bad>>

\* ReadChunk fails: the callback breaks the stream.
ReadChunkFails ==
    /\ fill.on
    /\ bad' = TRUE /\ fill' = NoFill
    /\ UNCHANGED <<options, area, end, cursor, limit, cached, state, op, out>>

Next ==
    \/ \E off \in -blob - 1 .. blob + 1, dir \in {"beg", "cur", "end"}, ok \in BOOLEAN :
          Seekoff(off, dir, ok)
    \/ Bump
    \/ \E ok \in BOOLEAN : Underflow(ok)
    \/ \E n \in 0 .. blob, sized \in BOOLEAN : ReadChunk(n, sized)
    \/ ReadChunkEndsLoop \/ ReadChunkFails

Spec == Init /\ [][Next]_vars

-----------------------------------------------------------------------------
(* Properties *)

\* The get area ends within the blob, and the cursor of a stream in use within the get
\* area unless that is lost; the cached size is unknown or the size of the blob.
TypeOK ==
    /\ area \in Seq(0 .. blob - 1 \cup {Junk})
    /\ state \in States /\ end \in Nat /\ cursor \in Nat
    /\ Ready /\ state # "lost" => cursor <= end
    /\ limit \in 0 .. blob
    /\ cached \in {-1, blob}
    /\ out \in 0 .. blob - 1 \cup {Eof, Junk}
    /\ bad \in BOOLEAN

\* The buffer stays within its size (or one byte, when buffering is off).
BufferBounded == Len(area) <= Larger(buffer, 1)

\* The plain stream stands where the next byte of the buffered one comes from.
Plain == INSTANCE BlobStream
    WITH size <- blob, pos <- IF fill.on THEN limit - fill.read ELSE BufferCursorPosition

\* Reads and seeks over the buffered stream are those of a plain stream over the blob,
\* whatever the order of seeks within and outside the buffer and however short its
\* chunks are, with two exceptions.  When underflow's loop takes more than one chunk, or
\* one whose size GCS does not say, the positions are right but the bytes need not be.
\* When underflow ends without a byte because a chunk had a negative length, nothing is
\* said until the buffer is next filled or left.
PlainInit == Plain!Init
PlainStep ==
    \/ Plain!Next \/ UNCHANGED Plain!vars
    \/ state' = "torn" /\ Plain!Take(out')
    \/ state = "lost" \/ state' = "lost"

-----------------------------------------------------------------------------
(* What documentation or comments say.  The code does otherwise, see       *)
(* README.md; these are no properties of the model.                        *)

\* ReadChunk returns "the actual number of bytes read" (seeking_input_streambuf.h),
\* which may be fewer than asked for: what is read is still the blob.
BytesAreOfTheBlob ==
    ~fill.on => \A i \in DOMAIN area : area[i] = BufferStartPosition + i - 1
=============================================================================
