--------------------------- MODULE LookupService ----------------------------
(***************************************************************************)
(* How a lookup reaches the data of one server: the remote lookup client,  *)
(* which encrypts its request with a public key (OHTTP), the internal      *)
(* lookup service of another server, which decrypts it with the private    *)
(* key of the same id, looks up and answers, and the runQuery hook, with   *)
(* which a UDF queries the server it runs on.  Data and keys change        *)
(* meanwhile.                                                              *)
(*                                                                         *)
(* A key pair is known by its id, of which a request carries one byte.     *)
(* What is stored is a version, 0 for nothing.  Encryption is external: it *)
(* needs the right key and the context of the request.  Padding is in      *)
(* ShardedLookup, the language of queries in Query: here a query is the    *)
(* union of the sets of its keys; one without keys is empty, malformed, or *)
(* of blanks only.                                                         *)
(***************************************************************************)
EXTENDS Integers, FiniteSets

CONSTANTS Calls, Keys,
          Requests,     \* what each call may ask for: kind and keys
          Stored,       \* keys that have a value and a set at first
          KeyIds,       \* ids of key pairs
          NoKey,        \* there is no public key
          MaxUpdates,   \* bound: mutations of the data
          MaxRotations  \* bound: changes of the keys the two sides have

\* The ids a request can name: the server may have other keys, and never looks for them.
Bytes == KeyIds \cap 0 .. 255

Maps == {"value", "set"}
Secure == {"values", "sets"}
Queries == {"query", "hook"}
Kinds == Secure \cup Queries \cup {"plain"}
AllRequests == [kind : Kinds, keys : SUBSET Keys]

ServiceAssumption ==
    /\ Requests \in [Calls -> SUBSET AllRequests]
    /\ KeyIds \subseteq Nat /\ NoKey \notin KeyIds
    /\ MaxUpdates \in Nat /\ MaxRotations \in Nat

VARIABLES data,      \* versions of the value and of the set of each key
          updates,
          public,    \* the public key the client's key fetcher hands out
          private,   \* ids of the private keys the server has
          rotations,
          lookup,    \* the hook has got its lookup
          rpc        \* the calls

store == <<data, updates>>
keyring == <<public, private, rotations>>
vars == <<data, updates, public, private, rotations, lookup, rpc>>

Idle == [pc |-> "idle", kind |-> "plain", keys |-> {}, wire |-> <<>>, gateway |-> FALSE,
         seen |-> <<>>, response |-> <<>>, error |-> "none"]

Init ==
    /\ data = [m \in Maps |-> [k \in Keys |-> IF k \in Stored THEN 1 ELSE 0]] /\ updates = 0
    /\ public \in KeyIds \cup {NoKey} /\ private \in SUBSET Bytes /\ rotations = 0
    /\ lookup = FALSE
    /\ rpc = [c \in Calls |-> Idle]

Active(c) == rpc[c].pc \notin {"idle", "ok", "failed"}

\* A mutation of the cache; what a call in progress could have seen
Mutate ==
    /\ updates < MaxUpdates /\ updates' = updates + 1
    /\ \E m \in Maps, k \in Keys, v \in {0, updates + 2} :
          /\ data' = [data EXCEPT ![m][k] = v]
          /\ rpc' = [c \in Calls |-> IF Active(c) THEN [rpc[c] EXCEPT !.seen[m][k] = @ \cup {v}]
                                     ELSE rpc[c]]
    /\ UNCHANGED <<keyring, lookup>>

\* The key fetchers of the two sides refresh what they have, each in its own time.
FetchPublicKey ==
    /\ rotations < MaxRotations /\ rotations' = rotations + 1
    /\ \E id \in (KeyIds \cup {NoKey}) \ {public} : public' = id
    /\ UNCHANGED <<store, private, lookup, rpc>>

FetchPrivateKeys ==
    /\ rotations < MaxRotations /\ rotations' = rotations + 1
    /\ \E ids \in (SUBSET Bytes) \ {private} : private' = ids
    /\ UNCHANGED <<store, public, lookup, rpc>>

\* RunQueryHook::FinishInit
FinishInit ==
    /\ ~lookup /\ lookup' = TRUE
    /\ UNCHANGED <<store, keyring, rpc>>

Call(c, record) == rpc' = [rpc EXCEPT ![c] = record]
Quietly == UNCHANGED <<store, keyring, lookup>>
Failed(r, why) == [r EXCEPT !.pc = "failed", !.error = why, !.wire = <<>>, !.gateway = FALSE]
Fail(c, why) == Call(c, Failed(rpc[c], why))
Succeed(c, response) == Call(c, [rpc[c] EXCEPT !.pc = "ok", !.response = response, !.wire = <<>>,
                                           !.gateway = FALSE])

Begin(c, kind, keys) ==
    /\ rpc[c].pc = "idle"
    /\ Call(c, [Idle EXCEPT !.pc = "begun", !.kind = kind, !.keys = keys,
                            !.seen = [m \in Maps |-> [k \in Keys |-> {data[m][k]}]]])
    /\ Quietly

-----------------------------------------------------------------------------
(* LocalLookup *)

Looked(map, keys) == [k \in keys |-> data[map][k]]

\* ProcessKeys and ProcessKeysetKeys, which leave the response empty without keys
ProcessKeys(keys) == Looked("value", keys)

\* Mutant: values for sets.
KeysetFromValues(keys) == ProcessKeys(keys)

ProcessKeysetKeys(keys) == Looked("set", keys)

\* Mutant: a query is answered from the values.
ElementsOfValues(keys) == {data["value"][k] : k \in keys} \ {0}

\* ProcessQuery: the elements of the sets of the keys that have one
ProcessQuery(keys) == {data["set"][k] : k \in keys} \ {0}

-----------------------------------------------------------------------------
(* RemoteLookupClient, OhttpClientEncryptor *)

\* Mutant: the id is cut to a byte.
CutToByte(id) == {id % 256}

\* The id as a byte, if it is one
StringToUint8(id) == {id} \cap 0 .. 255

\* EncryptRequest, with an encryptor of the call's own, which keeps the context.
EncryptRequest(c) ==
    /\ rpc[c].pc = "begun" /\ rpc[c].kind \in Secure
    /\ IF public = NoKey THEN Fail(c, "no public key")
       ELSE IF StringToUint8(public) = {} THEN Fail(c, "key id")
       ELSE \E byte \in StringToUint8(public) :
               Call(c, [rpc[c] EXCEPT !.pc = "sent",
                           !.wire = [id |-> byte, pair |-> public, context |-> c]])
    /\ Quietly

\* The connection fails, the server finds the call cancelled, or the library that
\* encrypts fails.
CallFails(c) ==
    /\ \/ rpc[c].pc \in {"sent", "decrypted", "answered"}
       \/ rpc[c].pc = "begun" /\ rpc[c].kind \in {"plain", "query"}
    /\ Fail(c, "unavailable")
    /\ Quietly

\* Mutant: one encryptor for all calls of a client.
SharedContext(c) == IF \E d \in Calls \ {c} : rpc[d].pc = "sent"
                    THEN CHOOSE d \in Calls \ {c} : rpc[d].pc = "sent" ELSE c

\* http_request_context_ of the encryptor of the call
RequestContext(c) == c

\* DecryptResponse and the rest of GetValues.  A response that is empty is not encrypted.
DecryptResponse(c) ==
    /\ rpc[c].pc = "answered"
    /\ IF rpc[c].wire = <<>> THEN Succeed(c, <<>>)
       ELSE IF rpc[c].wire.context # RequestContext(c) THEN Fail(c, "context")
       ELSE Succeed(c, rpc[c].wire.payload)
    /\ Quietly

-----------------------------------------------------------------------------
(* LookupServiceImpl, OhttpServerEncryptor *)

\* DecryptRequest: the private key of the id the request names, which must be
\* the one of the pair it was encrypted with.
DecryptRequest(c) ==
    /\ rpc[c].pc = "sent"
    /\ IF rpc[c].wire.id \notin private THEN Fail(c, "no private key")
       ELSE IF rpc[c].wire.id # rpc[c].wire.pair THEN Fail(c, "wrong key")
       ELSE Call(c, [rpc[c] EXCEPT !.pc = "decrypted", !.gateway = TRUE])
    /\ Quietly

\* Mutant: the private key is fetched again for the response.
HasKeyStill(c) == rpc[c].wire.id \in private

\* ohttp_gateway_ and decrypted_request_ were set by DecryptRequest.
HasGateway(c) == rpc[c].gateway

\* GetPayload
Payload(c) == IF rpc[c].kind = "sets" THEN ProcessKeysetKeys(rpc[c].keys) ELSE ProcessKeys(rpc[c].keys)

\* The rest of SecureLookup: GetPayload and, unless it is empty, EncryptResponse.
SecureLookup(c) ==
    /\ rpc[c].pc = "decrypted"
    /\ IF Payload(c) = <<>> THEN Call(c, [rpc[c] EXCEPT !.pc = "answered", !.wire = <<>>])
       ELSE IF ~HasGateway(c) THEN Fail(c, "no gateway")
       ELSE Call(c, [rpc[c] EXCEPT !.pc = "answered",
                        !.wire = [context |-> rpc[c].wire.context, payload |-> Payload(c)]])
    /\ Quietly

\* InternalLookup: values, whatever lookup_sets of the request is
InternalLookup(c) ==
    /\ rpc[c].pc = "begun" /\ rpc[c].kind = "plain"
    /\ Succeed(c, ProcessKeys(rpc[c].keys))
    /\ Quietly

InternalRunQuery(c) ==
    /\ rpc[c].pc = "begun" /\ rpc[c].kind = "query"
    /\ IF rpc[c].keys = {} THEN Fail(c, "query")
       ELSE Succeed(c, [elements |-> ProcessQuery(rpc[c].keys)])
    /\ Quietly

\* What ends with the server's process
AtServer(d) == rpc[d].pc = "decrypted" \/ (rpc[d].pc = "begun" /\ rpc[d].kind = "hook")

\* ProcessQuery of a query of blanks only asks a root that is not there for its keys:
\* the server crashes, and a new one takes its place.
BlankQuery(c) ==
    /\ rpc[c].pc = "begun" /\ rpc[c].keys = {}
    /\ rpc[c].kind = "query" \/ (rpc[c].kind = "hook" /\ lookup)
    /\ rpc' = [d \in Calls |-> IF d = c \/ AtServer(d) THEN Failed(rpc[d], "unavailable")
                               ELSE rpc[d]]
    /\ lookup' = FALSE
    /\ UNCHANGED <<store, keyring>>

-----------------------------------------------------------------------------
(* RunQueryHook *)

\* Mutant: a hook that has no lookup answers like an empty query.
EmptyAnswer(c) == Succeed(c, [elements |-> {}])

\* The output is a status instead of elements.
NotInitialized(c) == Fail(c, "not initialized")

\* The call of a UDF; a query that fails is answered with no elements.
RunQuery(c) ==
    /\ rpc[c].pc = "begun" /\ rpc[c].kind = "hook"
    /\ IF ~lookup THEN NotInitialized(c)
       ELSE \/ Fail(c, "not a string")
            \/ Succeed(c, [elements |-> {}]) /\ rpc[c].keys = {}
            \/ Succeed(c, [elements |-> ProcessQuery(rpc[c].keys)]) /\ rpc[c].keys # {}
    /\ Quietly

Next ==
    \/ Mutate \/ FetchPublicKey \/ FetchPrivateKeys \/ FinishInit
    \/ \E c \in Calls :
          \/ \E r \in Requests[c] : Begin(c, r.kind, r.keys)
          \/ EncryptRequest(c) \/ CallFails(c) \/ DecryptRequest(c) \/ SecureLookup(c)
          \/ DecryptResponse(c) \/ InternalLookup(c) \/ InternalRunQuery(c) \/ BlankQuery(c)
          \/ RunQuery(c)

Spec == Init /\ [][Next]_vars

-----------------------------------------------------------------------------
\* Every call is in a step of its kind, and the sides have keys of known ids.
TypeOK ==
    /\ updates \in 0 .. MaxUpdates /\ rotations \in 0 .. MaxRotations
    /\ data \in [Maps -> [Keys -> 0 .. MaxUpdates + 1]]
    /\ public \in KeyIds \cup {NoKey} /\ private \subseteq Bytes /\ lookup \in BOOLEAN
    /\ \A c \in Calls :
          /\ rpc[c].pc \in {"idle", "begun", "sent", "decrypted", "answered", "ok", "failed"}
          /\ rpc[c].kind \in Kinds /\ rpc[c].keys \subseteq Keys
          /\ rpc[c].pc \in {"sent", "decrypted", "answered"} => rpc[c].kind \in Secure

\* Whatever keys are replaced on either side during a call, and whatever calls run
\* beside it, the sides never use keys of two pairs or the context of another
\* call, and a request that was decrypted can be answered: a secure call fails only
\* for want of a usable key on one side, or of a connection or a server.
ExchangesMatch ==
    \A c \in Calls :
        rpc[c].pc = "failed" /\ rpc[c].kind \in Secure =>
            rpc[c].error \in {"no public key", "key id", "no private key", "unavailable"}

\* A lookup that succeeds has an entry for each of its keys and no other, with what
\* the key had in the map asked for at some time during the call.
AnswersWereStored ==
    \A c \in Calls :
        rpc[c].pc = "ok" /\ rpc[c].kind \notin Queries =>
            /\ DOMAIN rpc[c].response = rpc[c].keys
            /\ \A k \in rpc[c].keys :
                  rpc[c].response[k] \in rpc[c].seen[IF rpc[c].kind = "sets" THEN "set" ELSE "value"][k]

\* A query that succeeds returns elements that were in the sets of its keys during
\* the call, and all that were there throughout.
QueriesSeeSets ==
    \A c \in Calls :
        rpc[c].pc = "ok" /\ rpc[c].kind \in Queries =>
            LET seen(k) == rpc[c].seen["set"][k]
                throughout == {k \in rpc[c].keys : Cardinality(seen(k)) = 1}
            IN /\ rpc[c].response.elements \subseteq (UNION {seen(k) : k \in rpc[c].keys}) \ {0}
               /\ (UNION {seen(k) : k \in throughout}) \ {0} \subseteq rpc[c].response.elements
=============================================================================
