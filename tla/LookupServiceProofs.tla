------------------------- MODULE LookupServiceProofs -------------------------
(***************************************************************************)
(* Proofs, for any calls, keys and key pairs and whatever is stored, that  *)
(* the two sides of a secure lookup match and that lookups and queries     *)
(* return what was stored during the call.                                 *)
(*                                                                         *)
(* The properties speak of calls that have ended.  Exchange says what the  *)
(* two sides hold in every step before: a request names the key pair it    *)
(* was encrypted with, a decrypted one has its gateway, a response has the *)
(* context of its call and was in the store.  Sees ties what a call has    *)
(* seen to the data.                                                       *)
(***************************************************************************)
EXTENDS LookupService, FiniteSetTheorems, TLAPS

RpcFields == {"pc", "kind", "keys", "wire", "gateway", "seen", "response", "error"}
RpcPcs == {"idle", "begun", "sent", "decrypted", "answered", "ok", "failed"}
SeenType == [Maps -> [Keys -> SUBSET (0 .. MaxUpdates + 1)]]

\* A call is in a step of its kind.
RpcShape(r) ==
    /\ DOMAIN r = RpcFields
    /\ r.pc \in RpcPcs /\ r.kind \in Kinds /\ r.keys \subseteq Keys
    /\ r.pc \in {"sent", "decrypted", "answered"} => r.kind \in Secure

\* A call in progress has noted what each key has had since it began.
Sees(r, d) ==
    /\ r.pc # "idle" => r.seen \in SeenType
    /\ r.pc \notin {"idle", "ok", "failed"} =>
          \A m \in Maps, k \in Keys : d[m][k] \in r.seen[m][k]

\* An answer with what the keys of the call had during the call.
FromStore(r, answer) ==
    /\ DOMAIN answer = r.keys
    /\ \A k \in r.keys : answer[k] \in r.seen[IF r.kind = "sets" THEN "set" ELSE "value"][k]

\* The elements of a query, likewise.
FromSets(r, elements) ==
    /\ elements \subseteq (UNION {r.seen["set"][k] : k \in r.keys}) \ {0}
    /\ \A k \in r.keys :
          Cardinality(r.seen["set"][k]) = 1 => r.seen["set"][k] \ {0} \subseteq elements

\* What the two sides hold in each step of a call.
Exchange(c, r) ==
    /\ r.pc = "sent" => r.wire.id = r.wire.pair /\ r.wire.context = c
    /\ r.pc = "decrypted" => r.gateway = TRUE /\ r.wire.context = c
    /\ r.pc = "answered" => IF r.wire = <<>> THEN r.keys = {}
                            ELSE r.wire.context = c /\ FromStore(r, r.wire.payload)
    /\ r.pc = "failed" /\ r.kind \in Secure =>
          r.error \in {"no public key", "key id", "no private key", "unavailable"}
    /\ r.pc = "ok" => IF r.kind \in Queries THEN FromSets(r, r.response.elements)
                      ELSE FromStore(r, r.response)

RpcInv(c, r, d) == RpcShape(r) /\ Sees(r, d) /\ Exchange(c, r)

ServiceInv ==
    /\ updates \in 0 .. MaxUpdates /\ rotations \in 0 .. MaxRotations
    /\ data \in [Maps -> [Keys -> 0 .. MaxUpdates + 1]]
    /\ public \in KeyIds \cup {NoKey} /\ private \subseteq Bytes
    /\ lookup \in BOOLEAN
    /\ rpc = [c \in Calls |-> rpc[c]]
    /\ \A c \in Calls : RpcInv(c, rpc[c], data)


\* The records Succeed and the steps of a call write.
Succeeded(r, answer) == [r EXCEPT !.pc = "ok", !.response = answer, !.wire = <<>>,
                                  !.gateway = FALSE]
Wired(r, pc, wire) == [r EXCEPT !.pc = pc, !.wire = wire]

\* What they hold.
LEMMA FailedFields ==
    ASSUME NEW r, DOMAIN r = RpcFields, NEW why
    PROVE  LET f == Failed(r, why)
           IN /\ DOMAIN f = RpcFields /\ f.pc = "failed" /\ f.error = why
              /\ f.kind = r.kind /\ f.keys = r.keys /\ f.seen = r.seen
  BY DEF RpcFields, Failed

\* Likewise of a call that succeeds ...
LEMMA SucceededFields ==
    ASSUME NEW r, DOMAIN r = RpcFields, NEW answer
    PROVE  LET f == Succeeded(r, answer)
           IN /\ DOMAIN f = RpcFields /\ f.pc = "ok" /\ f.response = answer
              /\ f.kind = r.kind /\ f.keys = r.keys /\ f.seen = r.seen
  BY DEF RpcFields, Succeeded

\* ... and of one whose message is on its way.
LEMMA WiredFields ==
    ASSUME NEW r, DOMAIN r = RpcFields, NEW pc, NEW wire
    PROVE  LET f == Wired(r, pc, wire)
           IN /\ DOMAIN f = RpcFields /\ f.pc = pc /\ f.wire = wire
              /\ f.kind = r.kind /\ f.keys = r.keys /\ f.seen = r.seen
  BY DEF RpcFields, Wired

\* A call that begins.
LEMMA BeganFields ==
    ASSUME NEW kind, NEW keys, NEW seen
    PROVE  LET f == [Idle EXCEPT !.pc = "begun", !.kind = kind, !.keys = keys,
                                              !.seen = seen]
           IN /\ DOMAIN f = RpcFields /\ f.pc = "begun" /\ f.kind = kind /\ f.keys = keys
              /\ f.seen = seen
  BY DEF Idle, RpcFields

\* A call during which a key changes has seen its new version too.
LEMMA MutatedFields ==
    ASSUME NEW r, DOMAIN r = RpcFields, r.seen \in SeenType,
           NEW m \in Maps, NEW k \in Keys, NEW v \in 0 .. MaxUpdates + 1
    PROVE  LET f == [r EXCEPT !.seen[m][k] = @ \cup {v}]
           IN /\ DOMAIN f = RpcFields /\ f.pc = r.pc /\ f.kind = r.kind /\ f.keys = r.keys
              /\ f.wire = r.wire /\ f.gateway = r.gateway /\ f.response = r.response
              /\ f.error = r.error /\ f.seen \in SeenType /\ v \in f.seen[m][k]
              /\ \A n \in Maps, l \in Keys : r.seen[n][l] \subseteq f.seen[n][l]
  <1> DEFINE s == [r.seen EXCEPT ![m][k] = @ \cup {v}]
             f == [r EXCEPT !.seen = s]
  <1>1. /\ s \in SeenType /\ v \in s[m][k]
        /\ \A n \in Maps, l \in Keys : r.seen[n][l] \subseteq s[n][l]
    BY DEF SeenType
  <1>2. [r EXCEPT !.seen[m][k] = @ \cup {v}] = f
    OBVIOUS
  <1> HIDE DEF s
  <1>3. /\ DOMAIN f = RpcFields /\ f.pc = r.pc /\ f.kind = r.kind /\ f.keys = r.keys
        /\ f.wire = r.wire /\ f.gateway = r.gateway /\ f.response = r.response
        /\ f.error = r.error /\ f.seen = s
    BY DEF RpcFields
  <1> HIDE DEF f
  <1> QED
    BY <1>1, <1>2, <1>3

\* What LocalLookup reads is what a call in progress has seen.
LEMMA LookedWasSeen ==
    ASSUME ServiceAssumption, ServiceInv, NEW c \in Calls,
           rpc[c].pc \in {"begun", "decrypted"}
    PROVE  /\ rpc[c].kind # "sets" => FromStore(rpc[c], ProcessKeys(rpc[c].keys))
           /\ rpc[c].kind = "sets" => FromStore(rpc[c], ProcessKeysetKeys(rpc[c].keys))
           /\ FromSets(rpc[c], ProcessQuery(rpc[c].keys))
           /\ rpc[c].keys = {} => FromSets(rpc[c], {})
  <1> DEFINE r == rpc[c]
  <1>1. /\ r.keys \subseteq Keys /\ r.seen \in SeenType
        /\ \A m \in Maps, k \in Keys : data[m][k] \in r.seen[m][k]
    BY DEF ServiceInv, RpcInv, RpcShape, Sees
  <1> HIDE DEF r
  <1>2. ASSUME NEW m \in Maps
        PROVE  /\ DOMAIN Looked(m, r.keys) = r.keys
               /\ \A k \in r.keys : Looked(m, r.keys)[k] \in r.seen[m][k]
    BY <1>1 DEF Looked
  <1>3. r.kind # "sets" => FromStore(r, ProcessKeys(r.keys))
    BY <1>2 DEF FromStore, ProcessKeys, Maps
  <1>4. r.kind = "sets" => FromStore(r, ProcessKeysetKeys(r.keys))
    BY <1>2 DEF FromStore, ProcessKeysetKeys, Maps
  <1>5. ASSUME NEW k \in r.keys, Cardinality(r.seen["set"][k]) = 1
        PROVE  r.seen["set"][k] = {data["set"][k]}
    <2>1. data["set"][k] \in r.seen["set"][k] /\ r.seen["set"][k] \subseteq 0 .. MaxUpdates + 1
      BY <1>1 DEF Maps, SeenType
    <2>2. IsFiniteSet(0 .. MaxUpdates + 1)
      BY FS_Interval DEF ServiceAssumption
    <2> HIDE DEF r
    <2>3. IsFiniteSet(r.seen["set"][k])
      BY ZenonT(30), <2>1, <2>2, FS_Subset
    <2>4. PICK x : r.seen["set"][k] = {x}
      BY <1>5, <2>3, FS_Singleton
    <2> QED
      BY <2>1, <2>4
  <1>6. FromSets(r, ProcessQuery(r.keys))
    <2>1. ProcessQuery(r.keys) = {data["set"][k] : k \in r.keys} \ {0}
      BY DEF ProcessQuery
    <2>2. \A k \in r.keys : data["set"][k] \in r.seen["set"][k]
      BY <1>1 DEF Maps
    <2>3. {data["set"][k] : k \in r.keys} \ {0}
             \subseteq (UNION {r.seen["set"][k] : k \in r.keys}) \ {0}
      <3> SUFFICES ASSUME NEW e \in {data["set"][k] : k \in r.keys} \ {0}
                   PROVE  e \in (UNION {r.seen["set"][k] : k \in r.keys}) \ {0}
        OBVIOUS
      <3>1. PICK k \in r.keys : e = data["set"][k]
        OBVIOUS
      <3>2. r.seen["set"][k] \in {r.seen["set"][j] : j \in r.keys} /\ e \in r.seen["set"][k]
        BY <2>2, <3>1
      <3>3. e \in UNION {r.seen["set"][j] : j \in r.keys}
        BY <3>2
      <3> QED
        BY <3>3
    <2>4. \A k \in r.keys : Cardinality(r.seen["set"][k]) = 1 =>
             r.seen["set"][k] \ {0} \subseteq {data["set"][j] : j \in r.keys} \ {0}
      BY <1>5
    <2> QED
      BY <2>1, <2>3, <2>4 DEF FromSets
  <1>7. r.keys = {} => FromSets(r, {})
    BY DEF FromSets
  <1> QED
    BY <1>3, <1>4, <1>6, <1>7 DEF r

\* One call changes.
Becomes(c, r) ==
    /\ rpc' = [rpc EXCEPT ![c] = r] /\ RpcInv(c, r, data)
    /\ UNCHANGED <<data, updates, public, private, rotations, lookup>>

\* The others are not touched by it.
LEMMA BecomesInv ==
    ASSUME ServiceInv, NEW c \in Calls, NEW r, Becomes(c, r)
    PROVE  ServiceInv'
  <1>1. UNCHANGED <<data, updates, public, private, rotations, lookup>>
        /\ rpc' = [rpc EXCEPT ![c] = r] /\ RpcInv(c, r, data)
    BY DEF Becomes
  <1>2. rpc = [d \in Calls |-> rpc[d]] /\ \A d \in Calls : RpcInv(d, rpc[d], data)
    BY DEF ServiceInv
  <1>3. rpc' = [d \in Calls |-> rpc'[d]] /\ rpc'[c] = r
        /\ \A d \in Calls \ {c} : rpc'[d] = rpc[d]
    BY <1>1, <1>2
  <1>4. \A d \in Calls : RpcInv(d, rpc'[d], data)
    BY <1>1, <1>2, <1>3
  <1>5. lookup' \in BOOLEAN
    BY <1>1 DEF ServiceInv
  <1> QED
    BY <1>1, <1>3, <1>4, <1>5 DEF ServiceInv

\* A secure call fails for one of four reasons.
LEMMA FailedInv ==
    ASSUME ServiceInv, NEW c \in Calls, rpc[c].pc # "idle", NEW why,
           rpc[c].kind \in Secure =>
              why \in {"no public key", "key id", "no private key", "unavailable"}
    PROVE  RpcInv(c, Failed(rpc[c], why), data)
  <1> DEFINE new == Failed(rpc[c], why)
  <1>1. RpcShape(rpc[c]) /\ rpc[c].seen \in SeenType
    BY DEF ServiceInv, RpcInv, Sees
  <1>2. /\ DOMAIN new = RpcFields /\ new.pc = "failed" /\ new.error = why
        /\ new.kind = rpc[c].kind /\ new.keys = rpc[c].keys /\ new.seen = rpc[c].seen
    BY <1>1, FailedFields DEF RpcShape
  <1> HIDE DEF new
  <1>3. RpcShape(new) /\ Sees(new, data)
    BY <1>1, <1>2 DEF RpcShape, Sees, RpcPcs
  <1>4. Exchange(c, new)
    BY <1>2 DEF Exchange
  <1> QED
    BY <1>3, <1>4 DEF RpcInv, new

\* A call succeeds with what its keys had.
LEMMA SucceededInv ==
    ASSUME ServiceInv, NEW c \in Calls, rpc[c].pc # "idle", NEW answer,
           IF rpc[c].kind \in Queries THEN FromSets(rpc[c], answer.elements)
                                      ELSE FromStore(rpc[c], answer)
    PROVE  RpcInv(c, Succeeded(rpc[c], answer), data)
  <1> DEFINE new == Succeeded(rpc[c], answer)
  <1>1. RpcShape(rpc[c]) /\ rpc[c].seen \in SeenType
    BY DEF ServiceInv, RpcInv, Sees
  <1>2. /\ DOMAIN new = RpcFields /\ new.pc = "ok" /\ new.response = answer
        /\ new.kind = rpc[c].kind /\ new.keys = rpc[c].keys /\ new.seen = rpc[c].seen
    BY <1>1, SucceededFields DEF RpcShape
  <1> HIDE DEF new
  <1>3. RpcShape(new) /\ Sees(new, data)
    BY <1>1, <1>2 DEF RpcShape, Sees, RpcPcs
  <1>4. Exchange(c, new)
    BY <1>2 DEF Exchange, FromSets, FromStore
  <1> QED
    BY <1>3, <1>4 DEF RpcInv, new

\* A call begins with what the keys have at that moment as seen.
LEMMA BeginInv ==
    ASSUME ServiceAssumption, ServiceInv, NEW c \in Calls,
           \E r \in Requests[c] : Begin(c, r.kind, r.keys)
    PROVE  \E r : Becomes(c, r)
  <1>1. PICK q \in Requests[c] : Begin(c, q.kind, q.keys)
    OBVIOUS
  <1>2. q.kind \in Kinds /\ q.keys \subseteq Keys
    BY DEF ServiceAssumption, AllRequests
  <1> DEFINE seen == [m \in Maps |-> [k \in Keys |-> {data[m][k]}]]
             new == [Idle EXCEPT !.pc = "begun", !.kind = q.kind, !.keys = q.keys,
                                         !.seen = seen]
  <1>3. seen \in SeenType /\ \A m \in Maps, k \in Keys : data[m][k] \in seen[m][k]
    BY DEF ServiceInv, SeenType
  <1>4. /\ rpc' = [rpc EXCEPT ![c] = new]
        /\ UNCHANGED <<data, updates, public, private, rotations, lookup>>
    BY <1>1 DEF Begin, Call, Quietly, store, keyring,
                Maps
  <1> HIDE DEF seen
  <1>5. /\ DOMAIN new = RpcFields /\ new.pc = "begun" /\ new.kind = q.kind
        /\ new.keys = q.keys /\ new.seen = seen
    BY BeganFields
  <1> HIDE DEF new
  <1>6. RpcInv(c, new, data)
    BY <1>2, <1>3, <1>5 DEF RpcInv, RpcShape, RpcPcs, Sees, Exchange
  <1> QED
    BY ZenonT(30), <1>4, <1>6 DEF Becomes

\* The byte on the wire is the id of the pair the request is encrypted with.
LEMMA EncryptRequestInv ==
    ASSUME ServiceAssumption, ServiceInv, NEW c \in Calls, EncryptRequest(c)
    PROVE  \E r : Becomes(c, r)
  <1>1. /\ rpc[c].pc = "begun" /\ rpc[c].kind \in Secure /\ RpcInv(c, rpc[c], data)
        /\ UNCHANGED <<data, updates, public, private, rotations, lookup>>
    BY ZenonT(30) DEF EncryptRequest, Secure, ServiceInv, Quietly, store,
           keyring
  <1>2. CASE \E why \in {"no public key", "key id"} : Fail(c, why)
    <2>1. PICK why \in {"no public key", "key id"} : Fail(c, why)
      BY <1>2
    <2>2. RpcInv(c, Failed(rpc[c], why), data)
      BY <1>1, FailedInv
    <2> QED
      BY <1>1, <2>1, <2>2 DEF Becomes, Fail, Call, Failed
  <1>3. CASE \E byte \in StringToUint8(public) :
               Call(c, [rpc[c] EXCEPT !.pc = "sent",
                                   !.wire = [id |-> byte, pair |-> public, context |-> c]])
    <2>1. PICK byte \in StringToUint8(public) :
               Call(c, [rpc[c] EXCEPT !.pc = "sent",
                                   !.wire = [id |-> byte, pair |-> public, context |-> c]])
      BY ZenonT(30), <1>3
    <2> DEFINE wire == [id |-> byte, pair |-> public, context |-> c]
               new == Wired(rpc[c], "sent", wire)
    <2>2. wire.id = wire.pair /\ wire.context = c
      BY DEF StringToUint8
    <2>3. rpc' = [rpc EXCEPT ![c] = new]
      BY <2>1 DEF Call, Wired
    <2> HIDE DEF wire
    <2>4. /\ DOMAIN new = RpcFields /\ new.pc = "sent" /\ new.wire = wire
          /\ new.kind = rpc[c].kind /\ new.keys = rpc[c].keys /\ new.seen = rpc[c].seen
      BY <1>1, WiredFields DEF RpcInv, RpcShape
    <2> HIDE DEF new
    <2>5. RpcInv(c, new, data)
      BY <1>1, <2>2, <2>4 DEF RpcInv, RpcShape, RpcPcs, Sees, Exchange
    <2> QED
      BY <1>1, <2>3, <2>5 DEF Becomes
  <1> QED
    BY ZenonT(30), <1>2, <1>3 DEF EncryptRequest

\* The connection fails.
LEMMA CallFailsInv ==
    ASSUME ServiceInv, NEW c \in Calls, CallFails(c)
    PROVE  \E r : Becomes(c, r)
  <1>1. /\ rpc[c].pc # "idle" /\ rpc' = [rpc EXCEPT ![c] = Failed(rpc[c], "unavailable")]
        /\ UNCHANGED <<data, updates, public, private, rotations, lookup>>
    BY DEF CallFails, Fail, Call, Failed,
           Quietly, store, keyring
  <1>2. RpcInv(c, Failed(rpc[c], "unavailable"), data)
    BY <1>1, FailedInv
  <1> QED
    BY ZenonT(30), <1>1, <1>2 DEF Becomes

\* A private key of the id is the private key of the pair.
LEMMA DecryptRequestInv ==
    ASSUME ServiceInv, NEW c \in Calls, DecryptRequest(c)
    PROVE  \E r : Becomes(c, r)
  <1>1. /\ rpc[c].pc = "sent" /\ RpcInv(c, rpc[c], data)
        /\ UNCHANGED <<data, updates, public, private, rotations, lookup>>
    BY DEF DecryptRequest, ServiceInv, Quietly, store, keyring
  <1>2. rpc[c].wire.id = rpc[c].wire.pair /\ rpc[c].wire.context = c
    BY <1>1 DEF RpcInv, Exchange
  <1>3. CASE Fail(c, "no private key")
    <2>1. RpcInv(c, Failed(rpc[c], "no private key"), data)
      BY <1>1, FailedInv
    <2> QED
      BY ZenonT(30), <1>1, <1>3, <2>1 DEF Becomes, Fail, Call, Failed
  <1>4. CASE Call(c, [rpc[c] EXCEPT !.pc = "decrypted", !.gateway = TRUE])
    <2> DEFINE new == [rpc[c] EXCEPT !.pc = "decrypted", !.gateway = TRUE]
    <2>1. /\ DOMAIN new = RpcFields /\ new.pc = "decrypted" /\ new.gateway = TRUE
          /\ new.wire = rpc[c].wire
          /\ new.kind = rpc[c].kind /\ new.keys = rpc[c].keys /\ new.seen = rpc[c].seen
      BY <1>1 DEF RpcInv, RpcShape, RpcFields
    <2>2. rpc' = [rpc EXCEPT ![c] = new]
      BY <1>4 DEF Call
    <2> HIDE DEF new
    <2>3. RpcInv(c, new, data)
      BY <1>1, <1>2, <2>1 DEF RpcInv, RpcShape, RpcPcs, Sees, Exchange
    <2> QED
      BY ZenonT(30), <1>1, <2>2, <2>3 DEF Becomes
  <1> QED
    BY <1>2, <1>3, <1>4 DEF DecryptRequest

\* The answer is encrypted for the context of the request, or empty for no key.
LEMMA SecureLookupInv ==
    ASSUME ServiceAssumption, ServiceInv, NEW c \in Calls, SecureLookup(c)
    PROVE  \E r : Becomes(c, r)
  <1>1. /\ rpc[c].pc = "decrypted" /\ RpcInv(c, rpc[c], data)
        /\ UNCHANGED <<data, updates, public, private, rotations, lookup>>
    BY DEF SecureLookup, ServiceInv, Quietly, store, keyring
  <1>2. rpc[c].gateway = TRUE /\ rpc[c].wire.context = c
    BY <1>1 DEF RpcInv, Exchange
  <1> DEFINE payload == Payload(c)
  <1>3. FromStore(rpc[c], payload)
    BY <1>1, LookedWasSeen DEF Payload
  <1> HIDE DEF payload
  <1>4. CASE payload = <<>>
             /\ Call(c, [rpc[c] EXCEPT !.pc = "answered", !.wire = <<>>])
    <2> DEFINE new == Wired(rpc[c], "answered", <<>>)
    <2>1. rpc[c].keys = {}
      BY <1>3, <1>4 DEF FromStore
    <2>2. /\ DOMAIN new = RpcFields /\ new.pc = "answered" /\ new.wire = <<>>
          /\ new.kind = rpc[c].kind /\ new.keys = rpc[c].keys /\ new.seen = rpc[c].seen
      BY <1>1, WiredFields DEF RpcInv, RpcShape
    <2>3. rpc' = [rpc EXCEPT ![c] = new]
      BY <1>4 DEF Call, Wired
    <2> HIDE DEF new
    <2>4. RpcInv(c, new, data)
      BY <1>1, <2>1, <2>2 DEF RpcInv, RpcShape, RpcPcs, Sees, Exchange
    <2> QED
      BY ZenonT(30), <1>1, <2>3, <2>4 DEF Becomes
  <1>5. CASE Call(c, [rpc[c] EXCEPT !.pc = "answered",
                !.wire = [context |-> rpc[c].wire.context, payload |-> payload]])
    <2> DEFINE wire == [context |-> rpc[c].wire.context, payload |-> payload]
               new == Wired(rpc[c], "answered", wire)
    <2>1. wire # <<>> /\ wire.context = c /\ wire.payload = payload
      BY <1>2
    <2>2. rpc' = [rpc EXCEPT ![c] = new]
      BY <1>5 DEF Call, Wired
    <2> HIDE DEF wire
    <2>3. /\ DOMAIN new = RpcFields /\ new.pc = "answered" /\ new.wire = wire
          /\ new.kind = rpc[c].kind /\ new.keys = rpc[c].keys /\ new.seen = rpc[c].seen
      BY <1>1, WiredFields DEF RpcInv, RpcShape
    <2> HIDE DEF new
    <2>4. FromStore(new, new.wire.payload)
      BY <1>3, <2>1, <2>3 DEF FromStore
    <2>5. RpcInv(c, new, data)
      BY <1>1, <2>1, <2>3, <2>4 DEF RpcInv, RpcShape, RpcPcs, Sees, Exchange
    <2> QED
      BY ZenonT(30), <1>1, <2>2, <2>5 DEF Becomes
  <1> QED
    BY <1>2, <1>4, <1>5 DEF SecureLookup, HasGateway, payload

\* The client has the context of the response.
LEMMA DecryptResponseInv ==
    ASSUME ServiceInv, NEW c \in Calls, DecryptResponse(c)
    PROVE  \E r : Becomes(c, r)
  <1>1. /\ rpc[c].pc = "answered" /\ RpcInv(c, rpc[c], data)
        /\ UNCHANGED <<data, updates, public, private, rotations, lookup>>
    BY DEF DecryptResponse, ServiceInv, Quietly, store, keyring
  <1>2. /\ rpc[c].kind \notin Queries
        /\ IF rpc[c].wire = <<>> THEN rpc[c].keys = {}
           ELSE rpc[c].wire.context = c /\ FromStore(rpc[c], rpc[c].wire.payload)
    BY <1>1 DEF RpcInv, RpcShape, Exchange, Secure, Queries
  <1>3. PICK answer : Succeed(c, answer) /\ FromStore(rpc[c], answer)
    <2>1. rpc[c].keys = {} => FromStore(rpc[c], <<>>)
      BY DEF FromStore
    <2> QED
      BY <1>2, <2>1 DEF DecryptResponse, RequestContext
  <1>4. RpcInv(c, Succeeded(rpc[c], answer), data)
    BY <1>1, <1>2, <1>3, SucceededInv
  <1> QED
    BY <1>1, <1>3, <1>4 DEF Becomes, Succeed, Call, Succeeded

\* The lookups without encryption, and the hook.
LEMMA LocalLookupInv ==
    ASSUME ServiceAssumption, ServiceInv, NEW c \in Calls,
           \/ InternalLookup(c) \/ InternalRunQuery(c) \/ RunQuery(c)
    PROVE  \E r : Becomes(c, r)
  <1>1. /\ rpc[c].pc = "begun" /\ rpc[c].kind \in Queries \cup {"plain"}
        /\ UNCHANGED <<data, updates, public, private, rotations, lookup>>
    BY DEF InternalLookup, InternalRunQuery, RunQuery, Queries,
           Quietly, store, keyring
  <1>2. CASE \E why : Fail(c, why)
    <2>1. PICK why : Fail(c, why)
      BY <1>2
    <2>2. RpcInv(c, Failed(rpc[c], why), data)
      BY <1>1, FailedInv DEF Secure, Queries
    <2> QED
      BY ZenonT(30), <1>1, <2>1, <2>2 DEF Becomes, Fail, Call, Failed
  <1>3. CASE \E answer :
               /\ Succeed(c, answer)
               /\ IF rpc[c].kind \in Queries THEN FromSets(rpc[c], answer.elements)
                                             ELSE FromStore(rpc[c], answer)
    <2>1. PICK answer :
               /\ Succeed(c, answer)
               /\ IF rpc[c].kind \in Queries THEN FromSets(rpc[c], answer.elements)
                                             ELSE FromStore(rpc[c], answer)
      BY <1>3
    <2>2. RpcInv(c, Succeeded(rpc[c], answer), data)
      BY <1>1, <2>1, SucceededInv
    <2> QED
      BY ZenonT(30), <1>1, <2>1, <2>2 DEF Becomes, Succeed, Call, Succeeded
  <1>4. /\ rpc[c].kind # "sets" => FromStore(rpc[c], ProcessKeys(rpc[c].keys))
        /\ FromSets(rpc[c], [elements |-> ProcessQuery(rpc[c].keys)].elements)
        /\ rpc[c].keys = {} => FromSets(rpc[c], [elements |-> {}].elements)
    BY <1>1, LookedWasSeen
  <1>5. CASE InternalLookup(c)
    BY <1>3, <1>4, <1>5 DEF InternalLookup, Queries
  <1>6. CASE InternalRunQuery(c)
    BY <1>2, <1>3, <1>4, <1>6 DEF InternalRunQuery, Queries
  <1>7. CASE RunQuery(c)
    BY ZenonT(30), <1>2, <1>3, <1>4, <1>7 DEF RunQuery, NotInitialized, Queries
  <1> QED
    BY <1>5, <1>6, <1>7

\* A mutation adds to what the calls in progress have seen, and to nothing else.
LEMMA MutateInv ==
    ASSUME ServiceAssumption, ServiceInv, Mutate
    PROVE  ServiceInv'
  <1>1. PICK m \in Maps, k \in Keys, v \in {0, updates + 2} :
          /\ data' = [data EXCEPT ![m][k] = v]
          /\ rpc' = [c \in Calls |-> IF Active(c)
                                     THEN [rpc[c] EXCEPT !.seen[m][k] = @ \cup {v}]
                                     ELSE rpc[c]]
    BY ZenonT(30) DEF Mutate, Maps
  <1>2. /\ updates < MaxUpdates /\ updates' = updates + 1
        /\ UNCHANGED <<public, private, rotations, lookup>>
    BY DEF Mutate, keyring
  <1>3. /\ MaxUpdates \in Nat /\ updates \in 0 .. MaxUpdates
        /\ data \in [Maps -> [Keys -> 0 .. MaxUpdates + 1]]
    BY DEF ServiceAssumption, ServiceInv
  <1>4. v \in 0 .. MaxUpdates + 1 /\ updates' \in 0 .. MaxUpdates
    BY <1>2, <1>3
  <1>5. /\ data' \in [Maps -> [Keys -> 0 .. MaxUpdates + 1]] /\ data'[m][k] = v
        /\ \A n \in Maps, l \in Keys : <<n, l>> # <<m, k>> => data'[n][l] = data[n][l]
    BY <1>1, <1>3, <1>4
  <1>6. ASSUME NEW c \in Calls PROVE RpcInv(c, rpc'[c], data')
    <2> DEFINE old == rpc[c]
               new == [old EXCEPT !.seen[m][k] = @ \cup {v}]
    <2>1. RpcInv(c, old, data)
      BY DEF ServiceInv
    <2>2. CASE ~Active(c)
      <3>1. rpc'[c] = old /\ old.pc \in {"idle", "ok", "failed"}
        BY <1>1, <2>2 DEF Active
      <3> HIDE DEF old
      <3> QED
        BY <2>1, <3>1 DEF RpcInv, Sees
    <2>3. CASE Active(c)
      <3>1. rpc'[c] = new /\ old.pc \notin {"idle", "ok", "failed"}
        BY <1>1, <2>3 DEF Active
      <3>2. RpcShape(old) /\ old.seen \in SeenType /\ Exchange(c, old)
            /\ \A n \in Maps, l \in Keys : data[n][l] \in old.seen[n][l]
        BY <2>1, <3>1 DEF RpcInv, Sees
      <3> HIDE DEF old
      <3>3. /\ DOMAIN new = RpcFields /\ new.pc = old.pc /\ new.kind = old.kind
            /\ new.keys = old.keys /\ new.wire = old.wire /\ new.gateway = old.gateway
            /\ new.seen \in SeenType /\ v \in new.seen[m][k]
            /\ \A n \in Maps, l \in Keys : old.seen[n][l] \subseteq new.seen[n][l]
        BY <1>4, <3>2, MutatedFields DEF RpcShape
      <3> HIDE DEF new
      <3>4. RpcShape(new)
        BY <3>2, <3>3 DEF RpcShape
      <3>5. Sees(new, data')
        BY <1>5, <3>2, <3>3 DEF Sees
      <3>6. \A answer : FromStore(old, answer) => FromStore(new, answer)
        BY <3>2, <3>3 DEF FromStore, RpcShape, Maps
      <3>7. Exchange(c, new)
        BY ZenonT(30), <3>1, <3>2, <3>3, <3>6 DEF Exchange
      <3> QED
        BY <3>1, <3>4, <3>5, <3>7 DEF RpcInv
    <2> QED
      BY <2>2, <2>3
  <1>7. rpc' = [c \in Calls |-> rpc'[c]]
    BY <1>1
  <1>8. lookup' \in BOOLEAN
    BY <1>2 DEF ServiceInv
  <1> QED
    BY <1>2, <1>4, <1>5, <1>6, <1>7, <1>8 DEF ServiceInv

\* A crash of the server ends the calls it has, as a lost connection does.
LEMMA BlankQueryInv ==
    ASSUME ServiceAssumption, ServiceInv, NEW c \in Calls, BlankQuery(c)
    PROVE  ServiceInv'
  <1>1. /\ rpc' = [d \in Calls |-> IF d = c \/ AtServer(d) THEN Failed(rpc[d], "unavailable")
                                  ELSE rpc[d]]
        /\ UNCHANGED <<data, updates, public, private, rotations>>
    BY DEF BlankQuery, store, keyring
  <1>2. lookup' \in BOOLEAN
    BY DEF BlankQuery
  <1>3. ASSUME NEW d \in Calls PROVE RpcInv(d, rpc'[d], data)
    <2>1. CASE d = c \/ AtServer(d)
      <3>1. rpc[d].pc # "idle"
        BY <2>1 DEF AtServer, BlankQuery
      <3>2. RpcInv(d, Failed(rpc[d], "unavailable"), data)
        BY <3>1, FailedInv
      <3> QED
        BY <1>1, <2>1, <3>2
    <2>2. CASE ~(d = c \/ AtServer(d))
      BY <1>1, <2>2 DEF ServiceInv
    <2> QED
      BY <2>1, <2>2
  <1>4. rpc' = [d \in Calls |-> rpc'[d]]
    BY <1>1
  <1> QED
    BY <1>1, <1>2, <1>3, <1>4 DEF ServiceInv

\* The key fetchers and FinishInit leave the calls alone.
LEMMA FetchInv ==
    ASSUME ServiceAssumption, ServiceInv,
           \/ FetchPublicKey \/ FetchPrivateKeys \/ FinishInit
    PROVE  ServiceInv'
  <1>1. UNCHANGED <<data, updates, rpc>>
    BY DEF FetchPublicKey, FetchPrivateKeys, FinishInit, store
  <1>2. /\ public' \in KeyIds \cup {NoKey} /\ private' \subseteq Bytes
        /\ rotations' \in 0 .. MaxRotations
    BY DEF FetchPublicKey, FetchPrivateKeys, FinishInit,
           keyring, ServiceAssumption, ServiceInv
  <1>3. lookup' \in BOOLEAN
    BY ZenonT(30) DEF FetchPublicKey, FetchPrivateKeys, FinishInit, ServiceInv
  <1> QED
    BY <1>1, <1>2, <1>3 DEF ServiceInv

\* No call has begun at first.
LEMMA ServiceInvInit == ServiceAssumption /\ Init => ServiceInv
  <1> SUFFICES ASSUME ServiceAssumption, Init PROVE ServiceInv
    OBVIOUS
  <1>1. /\ updates \in 0 .. MaxUpdates /\ rotations \in 0 .. MaxRotations
        /\ public \in KeyIds \cup {NoKey} /\ private \subseteq Bytes
    BY DEF ServiceAssumption, Init
  <1>2. data \in [Maps -> [Keys -> 0 .. MaxUpdates + 1]]
    BY DEF ServiceAssumption, Init, Maps
  <1>3. lookup \in BOOLEAN
    BY ZenonT(30) DEF Init
  <1>4. ASSUME NEW c \in Calls PROVE RpcInv(c, Idle, data)
    BY DEF RpcInv, RpcShape, Sees, Exchange, Idle, RpcFields, RpcPcs, Kinds
  <1>5. rpc = [c \in Calls |-> Idle]
    BY DEF Init
  <1> QED
    BY <1>1, <1>2, <1>3, <1>4, <1>5 DEF ServiceInv

\* No step of a call, of the data or of the keys breaks the invariant.
LEMMA ServiceInvNext ==
    ASSUME ServiceAssumption, ServiceInv, [Next]_(vars)
    PROVE  ServiceInv'
  <1>1. ASSUME NEW c \in Calls,
               \/ \E r \in Requests[c] : Begin(c, r.kind, r.keys)
               \/ EncryptRequest(c) \/ CallFails(c)
               \/ DecryptRequest(c) \/ SecureLookup(c)
               \/ DecryptResponse(c) \/ InternalLookup(c)
               \/ InternalRunQuery(c) \/ RunQuery(c)
        PROVE  ServiceInv'
    <2>1. PICK r : Becomes(c, r)
      BY <1>1, BeginInv, EncryptRequestInv, CallFailsInv, DecryptRequestInv, SecureLookupInv,
         DecryptResponseInv, LocalLookupInv
    <2> QED
      BY SMTT(30), <2>1, BecomesInv
  <1>2. CASE UNCHANGED vars
    <2>1. lookup' \in BOOLEAN
      BY <1>2 DEF vars, ServiceInv
    <2> QED
      BY <1>2, <2>1 DEF vars, ServiceInv
  <1>3. ASSUME NEW c \in Calls, BlankQuery(c) PROVE ServiceInv'
    BY <1>3, BlankQueryInv
  <1> QED
    BY <1>1, <1>2, <1>3, MutateInv, FetchInv DEF Next

\* Whatever calls run at once, and however the data, the public key and the
\* private keys change while they do, the two sides of a secure lookup never
\* use two key pairs or another call's context, and a lookup or a query that
\* succeeds returns what its keys had during the call.
THEOREM LookupsSeeTheStore ==
    ASSUME ServiceAssumption
    PROVE  Spec => [](/\ TypeOK /\ ExchangesMatch
                      /\ AnswersWereStored /\ QueriesSeeSets)
  <1>1. ServiceInv => TypeOK
    <2>1. SUFFICES ASSUME ServiceInv PROVE TypeOK
      OBVIOUS
    <2>2. lookup \in BOOLEAN
      BY <2>1 DEF ServiceInv
    <2> QED
      BY <2>1, <2>2 DEF ServiceInv, RpcInv, RpcShape, RpcPcs, TypeOK, Maps,
                        Secure
  <1>2. ServiceInv => ExchangesMatch /\ AnswersWereStored
    BY ZenonT(30) DEF ServiceInv, RpcInv, Exchange, FromStore, Secure, Queries,
           ExchangesMatch, AnswersWereStored
  <1>3. ServiceInv => QueriesSeeSets
    <2> SUFFICES ASSUME ServiceInv, NEW c \in Calls, rpc[c].pc = "ok",
                        rpc[c].kind \in Queries
                 PROVE  /\ rpc[c].response.elements \subseteq
                            (UNION {rpc[c].seen["set"][k] : k \in rpc[c].keys}) \ {0}
                        /\ (UNION {rpc[c].seen["set"][k] :
                                     k \in {j \in rpc[c].keys :
                                              Cardinality(rpc[c].seen["set"][j]) = 1}})
                              \ {0} \subseteq rpc[c].response.elements
      BY DEF QueriesSeeSets
    <2>1. FromSets(rpc[c], rpc[c].response.elements)
      BY ZenonT(30) DEF ServiceInv, RpcInv, Exchange, Queries
    <2>2. ASSUME NEW e \in (UNION {rpc[c].seen["set"][k] :
                                     k \in {j \in rpc[c].keys :
                                              Cardinality(rpc[c].seen["set"][j]) = 1}})
                           \ {0}
          PROVE  e \in rpc[c].response.elements
      <3>1. PICK k \in rpc[c].keys : /\ Cardinality(rpc[c].seen["set"][k]) = 1
                                    /\ e \in rpc[c].seen["set"][k] \ {0}
        BY <2>2
      <3>2. Cardinality(rpc[c].seen["set"][k]) = 1
        BY <3>1
      <3> QED
        BY <2>1, <3>1, <3>2 DEF FromSets
    <2> QED
      BY <2>1, <2>2 DEF FromSets
  <1>4. Init => ServiceInv
    BY ServiceInvInit
  <1>5. ServiceInv /\ [Next]_(vars) => ServiceInv'
    BY ServiceInvNext
  <1> QED
    BY <1>1, <1>2, <1>3, <1>4, <1>5, PTL DEF Spec
=============================================================================
