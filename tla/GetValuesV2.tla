---------------------------- MODULE GetValuesV2 ----------------------------
(***************************************************************************)
(* The GetValuesV2Handler: a request arrives as JSON (Http), in a binary   *)
(* HTTP message (Bhttp), encrypted around one (Ohttp), or as a proto       *)
(* (Proto).  The UDF is called for one partition after the other; outputs  *)
(* are collected in compression groups and go back the way the request     *)
(* came.  Keys are fetched in the background and old ones are dropped.     *)
(***************************************************************************)
EXTENDS Integers, Sequences, SequencesExt, FiniteSets

CONSTANTS Partitions,  \* lists of partitions of a request
          Retained,    \* private keys the key fetcher keeps
          MaxKeys

V2Assumption == Retained \in Nat \ {0} /\ MaxKeys \in Nat \ {0}

Rpcs == {"Http", "Bhttp", "Ohttp", "Proto"}
Bodies == {"garbled", "text", "no partitions", "no context", "fine"}

NoAnswer == [code |-> "none"]

VARIABLES rpc, body, partitions, brotli,
          key,        \* the key the request is encrypted with
          keys,       \* the number of the newest key
          pc, next,
          groups,     \* compression_group_map: a list of outputs for each group
          tried,      \* for each partition so far whether its output was made
          http,       \* BinaryHttpResponse
          answer      \* what the client gets

request == <<rpc, body, partitions, brotli, key>>
vars == <<request, keys, pc, next, groups, tried, http, answer>>

Init ==
    /\ rpc \in Rpcs /\ body \in Bodies /\ partitions \in Partitions
    /\ body # "fine" => Len(partitions) <= 1
    /\ brotli \in BOOLEAN /\ (brotli => rpc \in {"Bhttp", "Ohttp"})
    /\ key = 1 /\ keys = 1
    /\ pc = (CASE rpc = "Ohttp" -> "decrypt" [] rpc = "Bhttp" -> "deserialize"
               [] rpc = "Http" -> "parse" [] OTHER -> "proto")
    /\ next = 1 /\ groups = <<>> /\ tried = <<>> /\ http = NoAnswer /\ answer = NoAnswer

\* The key fetcher (external) gets a new key.
KeysRefreshed ==
    /\ keys < MaxKeys /\ pc # "done" /\ keys' = keys + 1
    /\ UNCHANGED <<request, pc, next, groups, tried, http, answer>>

PrivateKeys == {k \in 1 .. keys : k > keys - Retained}

Reply(a) ==
    answer' = a /\ pc' = "done" /\ UNCHANGED <<request, keys, next, groups, tried, http>>

Continue(at) == pc' = at /\ UNCHANGED <<request, keys, next, groups, tried, answer>>

Internal == [code |-> "INTERNAL"]

-----------------------------------------------------------------------------

\* OhttpServerEncryptor::DecryptRequest
DecryptRequest ==
    /\ pc = "decrypt"
    /\ IF body = "garbled" \/ key \notin PrivateKeys THEN Reply(Internal)
       ELSE Continue("deserialize") /\ UNCHANGED http

\* Mutant: the error of a binary HTTP request becomes that of the call.
FailsTheCall == Reply(Internal)

\* BuildSuccessfulGetValuesBhttpResponse or GetValuesJsonResponse returns an error.
Fails ==
    IF rpc = "Http" THEN Reply(Internal)
    ELSE Continue("serialize") /\ http' = [code |-> 500]

Deserialize ==
    /\ pc = "deserialize"
    /\ IF body = "garbled" THEN Fails ELSE Continue("parse") /\ UNCHANGED http

\* Parse, and the members of the request
Parse ==
    /\ pc = "parse"
    /\ IF body # "fine" THEN Fails ELSE Continue("partitions") /\ UNCHANGED http

\* The local variable compression_group keeps the value 0.
CompressionGroup(p) == 0

\* Mutant: a later output replaces the ones before it.
Replaced(group, i) == <<i>>

Added(group, i) == Append(group, i)

Ungrouped(p) == p.group = "missing" \/ p.group = "text"

\* ProcessPartition succeeds; the UDF's answer has the right version and an array.
PartitionSucceeds ==
    /\ pc = "partitions" /\ next <= Len(partitions)
    /\ ~Ungrouped(partitions[next]) /\ partitions[next].keyGroups
    /\ LET g == CompressionGroup(partitions[next])
       IN groups' = [h \in DOMAIN groups \cup {g} |->
                        IF h # g THEN groups[h]
                        ELSE Added(IF h \in DOMAIN groups THEN groups[h] ELSE <<>>, next)]
    /\ tried' = Append(tried, TRUE) /\ next' = next + 1
    /\ UNCHANGED <<request, keys, pc, http, answer>>

\* Mutant: the remaining partitions are not processed.
SkipsRest == next' = Len(partitions) + 1

NextPartition == next' = next + 1

\* ProcessPartition fails: no keyGroups, an error of the UDF, or an answer that is not
\* understood.
PartitionFails ==
    /\ pc = "partitions" /\ next <= Len(partitions) /\ ~Ungrouped(partitions[next])
    /\ tried' = Append(tried, FALSE) /\ NextPartition
    /\ UNCHANGED <<request, keys, pc, groups, http, answer>>

NoCompressionGroup ==
    pc = "partitions" /\ next <= Len(partitions) /\ Ungrouped(partitions[next]) /\ Fails

\* The groups in the order of the hash map; for Bhttp they are concatenated without
\* compression, whatever encoding was accepted.
Respond ==
    /\ pc = "partitions" /\ next > Len(partitions)
    /\ \E list \in SetToSeqs({groups[g] : g \in DOMAIN groups}) :
          IF rpc = "Http" THEN Reply([code |-> "OK", groups |-> list])
          ELSE /\ http' = [code |-> 200, groups |-> list, encoding |-> "none",
                           label |-> IF brotli THEN "br" ELSE "none"]
               /\ Continue("serialize")

Serialize ==
    /\ pc = "serialize"
    /\ IF rpc = "Bhttp" THEN Reply([code |-> "OK", http |-> http])
       ELSE Continue("encrypt") /\ UNCHANGED http

SerializeFails == pc = "serialize" /\ http.code = 200 /\ Reply(Internal)

\* OhttpServerEncryptor::EncryptResponse, in the context of the request
EncryptResponse == pc = "encrypt" /\ Reply([code |-> "OK", http |-> http, key |-> key])

EncryptResponseFails == pc = "encrypt" /\ Reply(Internal)

\* GetValues: one partition, whose status is in the response
GetValues ==
    /\ pc = "proto"
    /\ IF Len(partitions) # 1 THEN Reply([code |-> "UNIMPLEMENTED"])
       ELSE \E ok \in BOOLEAN : Reply([code |-> "OK", partition |-> [id |-> 1, ok |-> ok]])

Next ==
    \/ KeysRefreshed \/ DecryptRequest \/ Deserialize \/ Parse
    \/ PartitionSucceeds \/ PartitionFails \/ NoCompressionGroup \/ Respond
    \/ Serialize \/ SerializeFails \/ EncryptResponse \/ EncryptResponseFails \/ GetValues

Spec == Init /\ [][Next]_vars

-----------------------------------------------------------------------------
(* Properties *)

HasGroups == answer.code = "OK" /\ ("groups" \in DOMAIN answer
                \/ ("http" \in DOMAIN answer /\ answer.http.code = 200))
Groups == IF "groups" \in DOMAIN answer THEN answer.groups ELSE answer.http.groups

\* A partition is tried once and in turn, and the request is done exactly when it
\* has been answered.
TypeOK ==
    /\ rpc \in Rpcs /\ body \in Bodies /\ brotli \in BOOLEAN
    /\ keys \in 1 .. MaxKeys /\ key \in 1 .. MaxKeys
    /\ pc \in {"decrypt", "deserialize", "parse", "partitions", "serialize", "encrypt", "proto", "done"}
    /\ next \in 1 .. Len(partitions) + 1 /\ Len(tried) < next
    /\ pc = "done" <=> answer # NoAnswer

\* A successful answer has the output of every partition that has one, once and in the
\* order of the request.
OutputsComplete ==
    HasGroups =>
        FlattenSeq(Groups) = SetToSortSeq({i \in DOMAIN tried : tried[i]}, LAMBDA a, b : a < b)

\* A partition that fails does not keep the UDF from the others.
EveryPartitionTried == HasGroups => Len(tried) = Len(partitions)

\* "Returns error only if the response cannot be serialized into Binary HTTP response.
\* For all other failures, the error status will be inside": no failure of the request
\* or of a partition ends the call.  Only a response that cannot be serialized does and,
\* around the Binary HTTP message, a request that cannot be decrypted or a response that
\* cannot be encrypted.
ErrorsAreInside ==
    rpc \in {"Bhttp", "Ohttp"} /\ pc' = "done" /\ answer'.code # "OK"
        => pc = "serialize" \/ (rpc = "Ohttp" /\ pc \in {"decrypt", "encrypt"})

-----------------------------------------------------------------------------
(* What documentation or comments say.  The code does otherwise, see       *)
(* README.md; these are no properties of the model.                        *)

\* "Returns a list of JSON objects each representing a compression group":
\* partitions of different compression groups are in different ones.
GroupsApart ==
    HasGroups =>
        \A g \in ToSet(Groups) : \A i, j \in ToSet(g) : partitions[i].group = partitions[j].group

\* The content is encoded as the header says ("we support Accept-Encoding: br").
EncodedAsLabelled == HasGroups /\ "http" \in DOMAIN answer => answer.http.encoding = answer.http.label
=============================================================================
