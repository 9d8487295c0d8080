----------------------------- MODULE BlobStorage -----------------------------
(***************************************************************************)
(* The blob storage clients of S3, GCS and a local directory: PutBlob,     *)
(* DeleteBlob and ListBlobs, the latter page by page or entry by entry     *)
(* while others put and delete blobs.  Names are numbers in their order.   *)
(* A blob that is being written exists at once in a directory, but only    *)
(* when it is complete in the cloud.                                       *)
(***************************************************************************)
EXTENDS Integers, Sequences, FiniteSets, FiniteSetsExt, SequencesExt

CONSTANTS NumNames,   \* names of blobs
          Others,     \* names without the prefix of ListOptions
          PageSize,   \* names in a page of a listing
          MaxPuts     \* bound on the blobs put

StorageAssumption ==
    /\ {NumNames, PageSize, MaxPuts} \subseteq Nat /\ PageSize > 0
    /\ Others \subseteq 1 .. NumNames

Names == 1 .. NumNames
Matching(start) == {n \in Names \ Others : n > start}   \* prefix and start_after

VARIABLES platform,
          bucket,   \* names of the blobs there are
          writer,   \* PutBlob in progress: the name and how it is going
          puts,     \* blobs put so far
          list,     \* ListBlobs in progress, or its result
          stayed,   \* blobs there from the beginning of the listing on
          seen      \* blobs there at some time during the listing

vars == <<platform, bucket, writer, puts, list, stayed, seen>>
blobs == <<platform, bucket, writer, puts>>

NoWriter == [name |-> 0, result |-> "none"]
NoList == [pc |-> "idle", start |-> 0, token |-> 0, keys |-> <<>>, lost |-> FALSE]

Init ==
    /\ platform \in {"s3", "gcp", "local"}
    /\ bucket \in SUBSET Names
    /\ writer = NoWriter /\ puts = 0
    /\ list = NoList /\ stayed = {} /\ seen = {}

Listing == list.pc = "more"

-----------------------------------------------------------------------------
(* PutBlob and DeleteBlob *)

\* A file exists, empty, when it has been opened.
AppearsWhenOpened == platform = "local"

Appears(n) == bucket' = bucket \cup {n} /\ seen' = IF Listing THEN seen \cup {n} ELSE seen

BeginPut(n) ==
    /\ writer.result # "writing" /\ puts < MaxPuts
    /\ puts' = puts + 1
    /\ writer' = [name |-> n, result |-> "writing"]
    /\ IF AppearsWhenOpened THEN Appears(n) ELSE UNCHANGED <<bucket, seen>>
    /\ UNCHANGED <<platform, list, stayed>>

\* The upload completes, or the stream is written and closed.
FinishPut ==
    /\ writer.result = "writing"
    /\ writer' = [writer EXCEPT !.result = "ok"]
    /\ Appears(writer.name)
    /\ UNCHANGED <<platform, puts, list, stayed>>

\* The upload fails, the file cannot be opened or written.  What has been
\* written to a file stays.
PutFails ==
    /\ writer.result = "writing"
    /\ writer' = [writer EXCEPT !.result = "error"]
    /\ UNCHANGED <<platform, bucket, puts, list, stayed, seen>>

DeleteBlob(n) ==
    /\ n \in bucket
    /\ bucket' = bucket \ {n} /\ stayed' = stayed \ {n}
    /\ UNCHANGED <<platform, writer, puts, list, seen>>

-----------------------------------------------------------------------------
(* ListBlobs *)

BeginList(start) ==
    /\ ~Listing
    /\ list' = [NoList EXCEPT !.pc = "more", !.start = start, !.token = start]
    /\ stayed' = bucket \cap Matching(start) /\ seen' = bucket
    /\ UNCHANGED blobs

\* The names of a page, the first ones after the token.
Page == LET rest == SetToSortSeq(bucket \cap Matching(list.token), LAMBDA a, b : a < b)
        IN SubSeq(rest, 1, Min({PageSize, Len(rest)}))

\* Mutant: the pages after the first one are not asked for.
OnePage == FALSE

IsTruncated == Len(Page) = PageSize

S3Page ==
    /\ Listing /\ platform = "s3"
    /\ list' = [list EXCEPT !.keys = @ \o Page,
                            !.token = IF Page = <<>> THEN @ ELSE Last(Page),
                            !.pc = IF IsTruncated THEN "more" ELSE "ok"]
    /\ UNCHANGED <<blobs, stayed, seen>>

\* Mutant: the name to start after is not excluded.
WithStart(start) == {n \in Names \ Others : n >= start}

\* GCS lists from start_after on, inclusive; the client skips that name.
WithoutStart(start) == Matching(start)

\* The reader of GCS gives object after object; the token is the last one read.
GcpObject ==
    /\ Listing /\ platform = "gcp"
    /\ LET rest == {n \in bucket \ Others : n > list.token \/ n = list.start}
           next == Min((rest \cap WithoutStart(list.start)) \ ToSet(list.keys))
       IN IF rest \cap WithoutStart(list.start) \subseteq ToSet(list.keys)
          THEN list' = [list EXCEPT !.pc = "ok"]
          ELSE list' = [list EXCEPT !.keys = Append(@, next), !.token = next]
    /\ UNCHANGED <<blobs, stayed, seen>>

\* An error of the reader is logged, and the listing ends as if it were complete.
GcpObjectFails ==
    /\ Listing /\ platform = "gcp"
    /\ list' = [list EXCEPT !.pc = "ok", !.lost = TRUE]
    /\ UNCHANGED <<blobs, stayed, seen>>

Sorted(keys) == SortSeq(keys, LAMBDA a, b : a < b)

\* The entries of a directory come in any order.
DirectoryEntry(n) ==
    /\ Listing /\ platform = "local"
    /\ n \in bucket \ ToSet(list.keys) /\ n \in Matching(list.start)
    /\ list' = [list EXCEPT !.keys = Append(@, n)]
    /\ UNCHANGED <<blobs, stayed, seen>>

DirectoryEnd ==
    /\ Listing /\ platform = "local" /\ stayed \subseteq ToSet(list.keys)
    /\ list' = [list EXCEPT !.pc = "ok", !.keys = Sorted(@)]
    /\ UNCHANGED <<blobs, stayed, seen>>

ListFails ==
    /\ Listing /\ platform # "gcp"
    /\ list' = [NoList EXCEPT !.pc = "error"]
    /\ UNCHANGED <<blobs, stayed, seen>>

Next ==
    \/ \E n \in Names : BeginPut(n) \/ DeleteBlob(n) \/ DirectoryEntry(n)
    \/ FinishPut \/ PutFails
    \/ \E start \in 0 .. NumNames : BeginList(start)
    \/ S3Page \/ GcpObject \/ GcpObjectFails \/ DirectoryEnd \/ ListFails

Spec == Init /\ [][Next]_vars

-----------------------------------------------------------------------------
(* Properties *)

\* A listing collects names of the bucket and stands at one of them, and only a listing
\* of GCS loses names.
TypeOK ==
    /\ platform \in {"s3", "gcp", "local"}
    /\ bucket \subseteq Names
    /\ writer \in [name : 0 .. NumNames, result : {"none", "writing", "ok", "error"}]
    /\ puts \in 0 .. MaxPuts
    /\ list \in [pc : {"idle", "more", "ok", "error"}, start : 0 .. NumNames,
                 token : 0 .. NumNames, keys : Seq(Names), lost : BOOLEAN]
    /\ list.lost => platform = "gcp"
    /\ stayed \subseteq Names /\ seen \subseteq Names

\* A listing that returns has every blob that was there all the time, though others come
\* and go between its pages.  The exception is a listing of GCS whose reader fails on the
\* way: ListBlobs logs the error and returns as if it were complete.  It then has every
\* such blob up to the last one read and may lack any after it.
ListingComplete ==
    list.pc = "ok" =>
        \A n \in stayed : n \in ToSet(list.keys) \/ (list.lost /\ n > list.token)

\* The names are in order, without duplicates, from after start_after and with
\* the prefix, and each was in the bucket during the listing.
ListingExact ==
    list.pc = "ok" => /\ \A i, j \in DOMAIN list.keys : i < j => list.keys[i] < list.keys[j]
                      /\ ToSet(list.keys) \subseteq seen \cap Matching(list.start)

-----------------------------------------------------------------------------
(* What documentation or comments say.  The code does otherwise, see       *)
(* README.md; these are no properties of the model.                        *)

\* ListBlobs gives "every object in the provided `bucket`" (blob_storage_client.h),
\* or fails.
ListsEveryObject == list.pc = "ok" => stayed \subseteq ToSet(list.keys)
=============================================================================
