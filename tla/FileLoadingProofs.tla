-------------------------- MODULE FileLoadingProofs --------------------------
(***************************************************************************)
(* Proofs, for every set of keys, values and commit times, of the          *)
(* invariants of KeyValueCache and of its refinement of LastWriterWins;    *)
(* for any number of files and workers and any contents, of the invariants *)
(* of FileLoading, which loads files into that cache; and, for the files   *)
(* of a careful producer, of the convergence of the cache.                 *)
(*                                                                         *)
(* NothingBelowCutoff is not inductive alone: that a clean-up leaves no    *)
(* tombstone at or below the cutoff rests on every tombstone being found   *)
(* through deleted_nodes, which is TombstonesIndexed.  Their conjunction   *)
(* with the types is inductive.                                            *)
(*                                                                         *)
(* Converges speaks of the end of loading only.  The invariant it follows  *)
(* from speaks of every moment: what a lookup of k shows is the newest of  *)
(* the mutations of k that are not after its horizon, the commit time up   *)
(* to which the cache ignores mutations of k (ShowsNewest), and the        *)
(* horizon is past every record that has been read (ReadIsHeard).  An      *)
(* accepted mutation keeps the first because it moves the horizon of its   *)
(* key exactly to itself; a clean-up keeps it because between the horizon  *)
(* and max_timestamp there is no record that has not been read: that is    *)
(* where the order of the files is needed.  What bounds max_timestamp,     *)
(* which the workers update without a lock, is TimestampInv.               *)
(***************************************************************************)
EXTENDS FileLoading, TLAPS

-----------------------------------------------------------------------------
(* KeyValueCache *)

IInv == TypeOK /\ TombstonesIndexed /\ NothingBelowCutoff

-----------------------------------------------------------------------------
\* The map after insert_or_assign: its domain, the new entry, the others.
LEMMA InsertOrAssignEffect ==
    ASSUME NEW k, NEW v, NEW t, InsertOrAssign(k, v, t)
    PROVE  /\ DOMAIN map' = DOMAIN map \cup {k}
           /\ map'[k] = [value |-> v, last |-> t]
           /\ \A x \in DOMAIN map : x # k => map'[x] = map[x]
  BY DEF InsertOrAssign

\* What the search in deleted_nodes_ can do to the index: erase nothing, or
\* exactly the entry of k.
LEMMA EraseFoundNodeEffect ==
    ASSUME TypeOK, NEW k \in Keys, NEW t \in Int, EraseFoundNode(k, t)
    PROVE  deleted_nodes' = deleted_nodes \/ deleted_nodes' = deleted_nodes \ {<<t, k>>}
  <1>1. CASE \E node \in deleted_nodes : node[1] = t
    <2>1. PICK node \in deleted_nodes :
             /\ node[1] = t
             /\ deleted_nodes' = IF node[2] = k THEN deleted_nodes \ {node}
                                                ELSE deleted_nodes
      BY <1>1 DEF EraseFoundNode
    <2>2. node = <<node[1], node[2]>>
      BY DEF TypeOK
    <2>3. QED
      BY <2>1, <2>2
  <1>2. CASE ~ \E node \in deleted_nodes : node[1] = t
    BY <1>2 DEF EraseFoundNode
  <1>3. QED
    BY <1>1, <1>2

-----------------------------------------------------------------------------
\* The initial cache, empty with cutoff 0, satisfies the invariant.
LEMMA InitIInv == Init => IInv
  BY DEF Init, InitialCutoff, IInv, TypeOK, TombstonesIndexed, NothingBelowCutoff, IsTombstone

\* An accepted UpdateKeyValue preserves the invariant: the only index entry it
\* can lose is that of the tombstone it overwrites.
LEMMA UpdateIInv ==
    ASSUME IInv, NEW k \in Keys, NEW v \in Values, NEW t \in Times,
           UpdateKeyValue(k, v, t)
    PROVE  IInv'
  <1>1. CASE UNCHANGED vars
    BY <1>1 DEF vars, IInv, TypeOK, TombstonesIndexed, NothingBelowCutoff,
                IsTombstone
  <1>2. CASE ~Superseded(k, t) /\ ~UNCHANGED vars
    <2>1. /\ InsertOrAssign(k, v, t)
          /\ cutoff' = cutoff
          /\ IF IsTombstone(k) THEN EraseFoundNode(k, map[k].last)
                               ELSE UNCHANGED deleted_nodes
      BY <1>2 DEF UpdateKeyValue
    <2>2. /\ DOMAIN map' = DOMAIN map \cup {k}
          /\ map'[k] = [value |-> v, last |-> t]
          /\ \A x \in DOMAIN map : x # k => map'[x] = map[x]
      BY ZenonT(30), <2>1, InsertOrAssignEffect
    <2>3. /\ deleted_nodes' \subseteq deleted_nodes
          /\ \A node \in deleted_nodes : node[2] # k => node \in deleted_nodes'
      <3>1. CASE IsTombstone(k)
        <4>1. map[k].last \in Int
          BY <3>1 DEF IInv, TypeOK, Entry, IsTombstone
        <4>2. \/ deleted_nodes' = deleted_nodes
              \/ deleted_nodes' = deleted_nodes \ {<<map[k].last, k>>}
          BY <2>1, <3>1, <4>1, EraseFoundNodeEffect DEF IInv
        <4>3. QED
          BY <4>2
      <3>2. CASE ~IsTombstone(k)
        BY <2>1, <3>2
      <3>3. QED
        BY <3>1, <3>2
    <2>4. t \in Int /\ v # NULL
      BY CacheAssumption
    <2>5. TypeOK'
      <3>1. map'[k] \in Entry
        BY <2>2, <2>4 DEF Entry
      <3>2. QED
        BY <2>1, <2>2, <2>3, <3>1 DEF IInv, TypeOK
    <2>6. \A x \in Keys : IsTombstone(x)' => x # k /\ IsTombstone(x) /\ map'[x] = map[x]
      BY <2>2, <2>4 DEF IsTombstone
    <2>7. TombstonesIndexed'
      BY <2>3, <2>6 DEF IInv, TombstonesIndexed
    <2>8. NothingBelowCutoff'
      BY <2>1, <2>3, <2>6 DEF IInv, NothingBelowCutoff
    <2>9. QED
      BY <2>5, <2>7, <2>8 DEF IInv
  <1>3. QED
    BY <1>1, <1>2 DEF UpdateKeyValue

\* An accepted DeleteKey preserves the invariant: it indexes the tombstone it
\* creates, above the cutoff.
LEMMA DeleteIInv ==
    ASSUME IInv, NEW k \in Keys, NEW t \in Times, DeleteKey(k, t)
    PROVE  IInv'
  <1>1. CASE UNCHANGED vars
    BY <1>1 DEF vars, IInv, TypeOK, TombstonesIndexed, NothingBelowCutoff,
                IsTombstone
  <1>2. CASE ~Superseded(k, t) /\ ~UNCHANGED vars
    <2>1. /\ InsertOrAssign(k, NULL, t)
          /\ deleted_nodes' = deleted_nodes \cup {<<t, k>>}
          /\ cutoff' = cutoff
      BY <1>2 DEF DeleteKey
    <2>2. /\ DOMAIN map' = DOMAIN map \cup {k}
          /\ map'[k] = [value |-> NULL, last |-> t]
          /\ \A x \in DOMAIN map : x # k => map'[x] = map[x]
      BY <2>1, InsertOrAssignEffect
    <2>3. t \in Int /\ cutoff \in Int /\ t > cutoff
      BY <1>2, CacheAssumption DEF IInv, TypeOK, Superseded
    <2>4. TypeOK'
      <3>1. map'[k] \in Entry
        BY <2>2, <2>3 DEF Entry
      <3>2. QED
        BY <2>1, <2>2, <2>3, <3>1 DEF IInv, TypeOK
    <2>5. \A x \in Keys : x # k /\ IsTombstone(x)' => IsTombstone(x) /\ map'[x] = map[x]
      BY <2>2 DEF IsTombstone
    <2>6. TombstonesIndexed'
      BY <2>1, <2>2, <2>5 DEF IInv, TombstonesIndexed
    <2>7. NothingBelowCutoff'
      BY <2>1, <2>2, <2>3, <2>5 DEF IInv, NothingBelowCutoff
    <2>8. QED
      BY <2>4, <2>6, <2>7 DEF IInv
  <1>3. QED
    BY <1>1, <1>2 DEF DeleteKey

\* CleanUpKeyValueMap preserves the invariant: a tombstone it leaves is newer
\* than its argument, because the index would have led to it otherwise.
LEMMA CleanUpIInv ==
    ASSUME IInv, NEW t \in Int, CleanUpKeyValueMap(t)
    PROVE  IInv'
  <1>1. /\ DOMAIN map' = DOMAIN map \ Reclaimed(t)
        /\ \A k \in DOMAIN map' : map'[k] = map[k]
        /\ deleted_nodes' = {node \in deleted_nodes : node[1] > t}
        /\ cutoff' = IF cutoff < t THEN t ELSE cutoff
    BY DEF CleanUpKeyValueMap
  <1>2. cutoff \in Int
    BY DEF IInv, TypeOK
  <1>3. TypeOK'
    BY <1>1, <1>2 DEF IInv, TypeOK
  <1>4. ASSUME NEW k \in Keys, IsTombstone(k)'
        PROVE  /\ IsTombstone(k)
               /\ map'[k] = map[k]
               /\ map[k].last \in Int
               /\ <<map[k].last, k>> \in deleted_nodes
               /\ map[k].last > t
    <2>1. IsTombstone(k) /\ map'[k] = map[k] /\ k \notin Reclaimed(t)
      BY <1>1, <1>4 DEF IsTombstone
    <2>2. map[k].last \in Int
      BY <2>1 DEF IInv, TypeOK, Entry, IsTombstone
    <2>3. <<map[k].last, k>> \in deleted_nodes
      BY <2>1 DEF IInv, TombstonesIndexed
    <2>4. ~(map[k].last <= t)
      BY <2>1, <2>3 DEF Reclaimed, IsTombstone
    <2>5. QED
      BY <1>2, <2>1, <2>2, <2>3, <2>4
  <1>5. TombstonesIndexed'
    BY ZenonT(30), <1>1, <1>4 DEF TombstonesIndexed
  <1>6. NothingBelowCutoff'
    BY <1>1, <1>2, <1>4 DEF IInv, NothingBelowCutoff
  <1>7. QED
    BY <1>3, <1>5, <1>6 DEF IInv

\* The whole invariant is preserved by every step.
LEMMA NextIInv == IInv /\ [Next]_vars => IInv'
  <1> SUFFICES ASSUME IInv, [Next]_vars PROVE IInv'
    OBVIOUS
  <1>1. CASE UNCHANGED vars
    BY <1>1 DEF vars, IInv, TypeOK, TombstonesIndexed, NothingBelowCutoff,
                IsTombstone
  <1>2. CASE Next
    BY <1>2, UpdateIInv, DeleteIInv, CleanUpIInv, CacheAssumption DEF Next
  <1>3. QED
    BY <1>1, <1>2

\* The cache always satisfies its inductive invariant.
THEOREM Invariance == Spec => []IInv
  BY InitIInv, NextIInv, PTL DEF Spec

\* Type correctness of map_, deleted_nodes_ and the cutoff.
THEOREM TypeCorrect == Spec => []TypeOK
  <1>1. IInv => TypeOK
    BY DEF IInv
  <1>2. QED
    BY <1>1, Invariance, PTL

\* Every tombstone stays reachable from deleted_nodes_ for the clean-up.
THEOREM TombstonesStayIndexed == Spec => []TombstonesIndexed
  <1>1. IInv => TombstonesIndexed
    BY DEF IInv
  <1>2. QED
    BY <1>1, Invariance, PTL

\* A clean-up reclaims every tombstone and index entry up to its time.
THEOREM CleanUpIsComplete == Spec => []NothingBelowCutoff
  <1>1. IInv => NothingBelowCutoff
    BY DEF IInv
  <1>2. QED
    BY <1>1, Invariance, PTL

-----------------------------------------------------------------------------
\* Changing one key's entry changes only that key's view and horizon.
LEMMA MutationView ==
    ASSUME IInv, NEW k \in Keys, NEW v, NEW t \in Times,
           ~Superseded(k, t), InsertOrAssign(k, v, t), cutoff' = cutoff
    PROVE  /\ Horizon(k) \in Int /\ t \in Int /\ Horizon(k) < t
           /\ \A x \in Keys : /\ Lookup(x)' = IF x = k THEN v ELSE Lookup(x)
                              /\ Horizon(x)' = IF x = k THEN t ELSE Horizon(x)
  <1>1. /\ DOMAIN map' = DOMAIN map \cup {k}
        /\ map'[k] = [value |-> v, last |-> t]
        /\ \A x \in DOMAIN map : x # k => map'[x] = map[x]
    BY InsertOrAssignEffect
  <1>2. t \in Int /\ cutoff \in Int /\ t > cutoff
    BY CacheAssumption DEF IInv, TypeOK, Superseded
  <1>3. k \in DOMAIN map => map[k].last \in Int /\ t > map[k].last
    BY <1>2 DEF IInv, TypeOK, Entry, Superseded
  <1>4. Horizon(k) \in Int /\ Horizon(k) < t
    BY <1>2, <1>3 DEF Horizon
  <1>5. ASSUME NEW x \in Keys
        PROVE  /\ Lookup(x)' = IF x = k THEN v ELSE Lookup(x)
               /\ Horizon(x)' = IF x = k THEN t ELSE Horizon(x)
    BY <1>1, <1>2 DEF Lookup, Horizon
  <1>6. QED
    BY <1>2, <1>4, <1>5

\* An accepted mutation is a step of the last-writer-wins store.
LEMMA AcceptedMutation ==
    ASSUME IInv, NEW k \in Keys, NEW v \in Values \cup {NULL}, NEW t \in Times,
           ~Superseded(k, t), InsertOrAssign(k, v, t), cutoff' = cutoff
    PROVE  Lww!Mutate({k}, v, t)
  <1>1. /\ Horizon(k) < t
        /\ \A x \in Keys : /\ Lookup(x)' = IF x = k THEN v ELSE Lookup(x)
                           /\ Horizon(x)' = IF x = k THEN t ELSE Horizon(x)
    BY MutationView
  <1>2. [x \in Keys |-> Lookup(x)]' =
          [x \in Keys |-> IF x \in {k} /\ [y \in Keys |-> Horizon(y)][x] < t
                          THEN v ELSE [y \in Keys |-> Lookup(y)][x]]
    BY <1>1
  <1>3. [x \in Keys |-> Horizon(x)]' =
          [x \in Keys |-> IF x \in {k} /\ [y \in Keys |-> Horizon(y)][x] < t
                          THEN t ELSE [y \in Keys |-> Horizon(y)][x]]
    BY <1>1
  <1>4. QED
    BY <1>2, <1>3 DEF Lww!Mutate

\* A clean-up hides nothing a reader could see, and closes each key up to t.
LEMMA CleanUpView ==
    ASSUME IInv, NEW t \in Int, CleanUpKeyValueMap(t), NEW x \in Keys
    PROVE  /\ Lookup(x)' = Lookup(x)
           /\ Horizon(x)' = IF Horizon(x) < t THEN t ELSE Horizon(x)
  <1>1. /\ DOMAIN map' = DOMAIN map \ Reclaimed(t)
        /\ \A k \in DOMAIN map' : map'[k] = map[k]
        /\ cutoff' = IF cutoff < t THEN t ELSE cutoff
    BY DEF CleanUpKeyValueMap
  <1>2. cutoff \in Int
    BY DEF IInv, TypeOK
  <1>3. CASE x \in Reclaimed(t)
    <2>1. x \in DOMAIN map /\ map[x].value = NULL /\ map[x].last <= t
      BY <1>3 DEF Reclaimed, IsTombstone
    <2>2. map[x].last \in Int
      BY <2>1 DEF IInv, TypeOK, Entry
    <2>3. QED
      BY <1>1, <1>2, <1>3, <2>1, <2>2 DEF Lookup, Horizon
  <1>4. CASE x \in DOMAIN map \ Reclaimed(t)
    <2>1. map[x].last \in Int
      BY <1>4 DEF IInv, TypeOK, Entry
    <2>2. QED
      BY <1>1, <1>2, <1>4, <2>1 DEF Lookup, Horizon
  <1>5. CASE x \notin DOMAIN map
    BY <1>1, <1>2, <1>5 DEF Lookup, Horizon
  <1>6. QED
    BY <1>3, <1>4, <1>5

\* A clean-up is a step of the last-writer-wins store.
LEMMA CleanUpAdvances ==
    ASSUME IInv, NEW t \in Times, CleanUpKeyValueMap(t)
    PROVE  Lww!Advance(t)
  <1>1. \A x \in Keys : /\ Lookup(x)' = Lookup(x)
                        /\ Horizon(x)' = IF Horizon(x) < t THEN t ELSE Horizon(x)
    BY CleanUpView, CacheAssumption
  <1>2. [x \in Keys |-> Lookup(x)]' = [x \in Keys |-> Lookup(x)]
    BY <1>1
  <1>3. [x \in Keys |-> Horizon(x)]' =
          [x \in Keys |-> IF [y \in Keys |-> Horizon(y)][x] < t
                          THEN t ELSE [y \in Keys |-> Horizon(y)][x]]
    BY <1>1
  <1>4. QED
    BY <1>2, <1>3 DEF Lww!Advance

\* KeyValueCache implements LastWriterWins: late, duplicated and reordered
\* mutations, and clean-ups at any moment, never show a superseded value.
THEOREM Refinement == Spec => RefinesLastWriterWins
  <1>1. Init => Lww!LwwInit
    BY DEF Init, InitialCutoff, Lww!LwwInit, Lookup, Horizon
  <1>2. IInv /\ [Next]_vars => [Lww!LwwNext]_Lww!lwwVars
    <2> SUFFICES ASSUME IInv, [Next]_vars PROVE [Lww!LwwNext]_Lww!lwwVars
      OBVIOUS
    <2>1. CASE UNCHANGED vars
      BY <2>1 DEF vars, Lww!lwwVars, Lookup, Horizon
    <2>2. ASSUME NEW k \in Keys, NEW v \in Values, NEW t \in Times,
                 UpdateKeyValue(k, v, t)
          PROVE  [Lww!LwwNext]_Lww!lwwVars
      <3>1. CASE ~UNCHANGED vars
        <4>1. ~Superseded(k, t) /\ InsertOrAssign(k, v, t) /\ cutoff' = cutoff
          BY <2>2, <3>1 DEF UpdateKeyValue
        <4>2. Lww!Mutate({k}, v, t)
          BY <4>1, AcceptedMutation
        <4>3. QED
          BY <4>2 DEF Lww!LwwNext
      <3>2. QED
        BY <2>1, <3>1
    <2>3. ASSUME NEW k \in Keys, NEW t \in Times, DeleteKey(k, t)
          PROVE  [Lww!LwwNext]_Lww!lwwVars
      <3>1. CASE ~UNCHANGED vars
        <4>1. ~Superseded(k, t) /\ InsertOrAssign(k, NULL, t) /\ cutoff' = cutoff
          BY <2>3, <3>1 DEF DeleteKey
        <4>2. Lww!Mutate({k}, NULL, t)
          BY <4>1, AcceptedMutation
        <4>3. QED
          BY <4>2 DEF Lww!LwwNext
      <3>2. QED
        BY <2>1, <3>1
    <2>4. ASSUME NEW t \in Times, CleanUpKeyValueMap(t)
          PROVE  [Lww!LwwNext]_Lww!lwwVars
      BY <2>4, CleanUpAdvances DEF Lww!LwwNext
    <2>5. QED
      BY <2>1, <2>2, <2>3, <2>4 DEF Next
  <1>3. QED
    BY <1>1, <1>2, Invariance, PTL DEF Spec, RefinesLastWriterWins, Lww!LwwSpec

-----------------------------------------------------------------------------
(* FileLoading *)

WorkersInv ==
    /\ contents \in FileContents
    /\ ~reading => \A w \in Workers : worker[w] = Between
    /\ reading => /\ current \in Files
                  /\ contents[current].own_shard
                  /\ todo \subseteq contents[current].records
    /\ failed => failures < MaxFailures

\* The time t is not beyond the newest of the records.
Within(records, t) == t > 0 => \E r \in records : t <= r.time

\* No worker, and no interleaving of them, brings max_timestamp beyond the
\* newest record of the file being read.
TimestampInv ==
    reading => /\ Within(Owed(current), max_timestamp)
               /\ \A w \in Workers : /\ Within(Owed(current), worker[w].time)
                                     /\ Within(Owed(current), worker[w].seen)

LoadInv == IInv /\ LoadTypeOK /\ WorkersInv /\ TimestampInv /\ CutoffWithinLoadedFiles

\* The mutations of k the cache has left behind it.
Passed(k) == {r \in Relevant(k) : r.time <= Horizon(k)}

\* A lookup shows the newest mutation of the key up to the key's horizon.
ShowsNewest(k) ==
    IF Passed(k) = {} THEN Lookup(k) = NULL
    ELSE \E r \in Newest(Passed(k)) : Lookup(k) = r.value

Heard(r) == r.time <= Horizon(r.key)

\* Every record that has been read, in an attempt that did not fail or in one
\* that ended well, is at or below the horizon of its key.
ReadIsHeard ==
    /\ \A f \in Files : f < current \/ f \in completed => \A r \in Owed(f) : Heard(r)
    /\ reading /\ ~failed => \A r \in Owed(current) \ todo : Heard(r)

ViewInv == (\A k \in Keys : ShowsNewest(k)) /\ ReadIsHeard
-----------------------------------------------------------------------------
\* A record this server does not ignore, in a file that is not another
\* shard's, is one it owes, and its value is one the cache knows.
LEMMA NotIgnored ==
    ASSUME LoadTypeOK, NEW f \in Files, contents[f].own_shard,
           NEW r \in contents[f].records, ~Ignored(r)
    PROVE  /\ r \in Owed(f) /\ r \in Record
           /\ r.value \in Values \cup {NULL}
  <1>1. contents[f].records \subseteq Record
    BY DEF LoadTypeOK, Contents
  <1>2. QED
    BY <1>1 DEF Ignored, ShouldProcessRecord, Owed, OwedIn, Record

\* Owed records are mutations of known keys at known times.
LEMMA OwedAreRecords ==
    ASSUME LoadTypeOK, NEW f \in Files, NEW r \in Owed(f)
    PROVE  r.key \in Keys /\ r.time \in Times /\ r.time \in Int
  <1>1. contents[f].records \subseteq Record
    BY DEF LoadTypeOK, Contents
  <1>2. QED
    BY ZenonT(30), <1>1, CacheAssumption DEF Owed, OwedIn, Record

\* The horizon of a key is a number.
LEMMA HorizonIsInt == ASSUME TypeOK, NEW k PROVE Horizon(k) \in Int
  BY DEF TypeOK, Entry, Horizon

\* What ApplyKeyValueMutationToCache does: nothing when the horizon of the key
\* is already at the mutation, else it shows the mutation and moves the
\* horizon of that key, and of no other, to it.
LEMMA ApplyView ==
    ASSUME IInv, NEW r \in Record, r.value \in Values \cup {NULL}, ApplyMutation(r)
    PROVE  /\ IInv'
           /\ cutoff' = cutoff
           /\ \/ r.time <= Horizon(r.key) /\ UNCHANGED vars
              \/ /\ Horizon(r.key) < r.time
                 /\ \A x \in Keys :
                       /\ Lookup(x)' = IF x = r.key THEN r.value ELSE Lookup(x)
                       /\ Horizon(x)' = IF x = r.key THEN r.time ELSE Horizon(x)
  <1>1. r.key \in Keys /\ r.time \in Times /\ r.time \in Int /\ cutoff \in Int
    BY CacheAssumption DEF Record, IInv, TypeOK
  <1>2. IInv'
    BY <1>1, UpdateIInv, DeleteIInv DEF ApplyMutation
  <1>3. CASE Superseded(r.key, r.time)
    <2>1. UNCHANGED vars
      BY <1>3 DEF ApplyMutation, UpdateKeyValue, DeleteKey
    <2>2. r.key \in DOMAIN map => map[r.key].last \in Int
      BY DEF IInv, TypeOK, Entry
    <2>3. r.time <= Horizon(r.key)
      BY <1>1, <1>3, <2>2 DEF Superseded, Horizon
    <2>4. QED
      BY <1>2, <2>1, <2>3 DEF vars
  <1>4. CASE ~Superseded(r.key, r.time)
    <2>1. InsertOrAssign(r.key, r.value, r.time) /\ cutoff' = cutoff
      BY <1>4 DEF ApplyMutation, UpdateKeyValue, DeleteKey
    <2>2. QED
      BY <1>1, <1>2, <1>4, <2>1, MutationView
  <1>5. QED
    BY <1>3, <1>4

-----------------------------------------------------------------------------
\* Before the first file the invariant holds.
LEMMA InitLoadInv == LoadInit => LoadInv
  <1> SUFFICES ASSUME LoadInit PROVE LoadInv
    OBVIOUS
  <1>1. IInv /\ cutoff = 0
    BY InitIInv DEF LoadInit, Init, InitialCutoff
  <1>2. LoadTypeOK
    <2>1. Between \in [pc : {"between", "applied", "compared"}, time : Int, seen : Int]
      BY DEF Between
    <2>2. contents \in Contents /\ current \in 1 .. NumFiles + 1
      BY LoadingAssumption DEF LoadInit
    <2>3. failures \in 0 .. MaxFailures
      BY LoadingAssumption DEF LoadInit
    <2>4. worker \in [Workers -> [pc : {"between", "applied", "compared"},
                                  time : Int, seen : Int]]
      BY <2>1 DEF LoadInit
    <2>5. TypeOK
      BY <1>1 DEF IInv
    <2>6. reading \in BOOLEAN /\ failed \in BOOLEAN
      BY DEF LoadInit
    <2>7. todo \subseteq Record /\ max_timestamp \in Int /\ completed \subseteq Files
      BY DEF LoadInit
    <2>8. QED
      BY <2>2, <2>3, <2>4, <2>5, <2>6, <2>7 DEF LoadTypeOK
  <1>3. WorkersInv /\ TimestampInv /\ CutoffWithinLoadedFiles
    BY <1>1 DEF LoadInit, WorkersInv, TimestampInv, CutoffWithinLoadedFiles, Between
  <1>4. QED
    BY <1>1, <1>2, <1>3 DEF LoadInv

\* The cutoff and the files it depends on are not touched.
LEMMA CutoffKept ==
    ASSUME CutoffWithinLoadedFiles, cutoff' = cutoff,
           UNCHANGED <<contents, completed>>
    PROVE  CutoffWithinLoadedFiles'
  BY DEF CutoffWithinLoadedFiles, Owed, OwedIn

\* The cache is not touched.
LEMMA CacheKept ==
    ASSUME IInv, UNCHANGED vars
    PROVE  IInv' /\ cutoff' = cutoff
  BY DEF vars, IInv, TypeOK, TombstonesIndexed, NothingBelowCutoff, IsTombstone

\* StartFile opens the next file with no timestamp seen, or passes it over.
LEMMA StartFileInv == ASSUME LoadInv, StartFile PROVE LoadInv'
  <1>1. IInv' /\ cutoff' = cutoff /\ UNCHANGED <<contents, worker, failed, failures, completed>>
    BY CacheKept DEF LoadInv, StartFile
  <1>2. \A w \in Workers : worker[w] = Between
    BY DEF LoadInv, WorkersInv, StartFile
  <1>3. CASE contents[current].own_shard
    <2>1. /\ current \in Files /\ reading' = TRUE /\ current' = current
          /\ todo' = contents[current].records /\ max_timestamp' = 0
      BY <1>3 DEF StartFile
    <2>2. contents[current].records \subseteq Record
      BY <2>1 DEF LoadInv, LoadTypeOK, Contents
    <2>3. LoadTypeOK'
      BY <1>1, <2>1, <2>2 DEF LoadInv, LoadTypeOK, IInv
    <2>4. WorkersInv'
      BY <1>1, <1>3, <2>1 DEF LoadInv, WorkersInv
    <2>5. TimestampInv'
      BY <1>1, <1>2, <2>1 DEF TimestampInv, Within, Between
    <2>6. QED
      BY <1>1, <2>3, <2>4, <2>5, CutoffKept DEF LoadInv
  <1>4. CASE ~contents[current].own_shard
    <2>1. /\ current \in Files /\ ~reading /\ current' = current + 1
          /\ UNCHANGED <<reading, todo, max_timestamp>>
      BY <1>4 DEF StartFile
    <2>2. current' \in 1 .. NumFiles + 1
      BY <2>1, LoadingAssumption DEF Files
    <2>3. LoadTypeOK'
      BY <1>1, <2>1, <2>2 DEF LoadInv, LoadTypeOK, IInv
    <2>4. WorkersInv' /\ TimestampInv'
      BY <1>1, <2>1 DEF LoadInv, WorkersInv, TimestampInv
    <2>5. QED
      BY <1>1, <2>3, <2>4, CutoffKept DEF LoadInv
  <1>5. QED
    BY <1>3, <1>4

\* ProcessRecord hands a worker the time of a record of the file.
LEMMA ProcessRecordInv ==
    ASSUME LoadInv, NEW w \in Workers, ProcessRecord(w)
    PROVE  LoadInv'
  <1>1. PICK r \in todo :
           /\ todo' = todo \ {r}
           /\ IF Ignored(r)
              THEN UNCHANGED <<vars, worker>>
              ELSE /\ ApplyMutation(r)
                   /\ worker' = [worker EXCEPT ![w].pc = "applied", ![w].time = r.time]
    BY DEF ProcessRecord
  <1>2. /\ reading /\ current \in Files /\ contents[current].own_shard
        /\ r \in contents[current].records
        /\ UNCHANGED <<contents, current, reading, max_timestamp, failed, failures,
                       completed>>
    BY DEF ProcessRecord, LoadInv, WorkersInv
  <1>3. /\ IInv' /\ cutoff' = cutoff
        /\ \/ worker' = worker
           \/ /\ worker' = [worker EXCEPT ![w].pc = "applied", ![w].time = r.time]
              /\ r \in Owed(current) /\ r.time \in Int
    <2>1. CASE Ignored(r)
      BY <1>1, <2>1, CacheKept DEF LoadInv
    <2>2. CASE ~Ignored(r)
      <3>1. r \in Owed(current) /\ r \in Record /\ r.value \in Values \cup {NULL}
        BY <1>2, <2>2, NotIgnored DEF LoadInv
      <3>2. r.time \in Int
        BY <1>2, <3>1, OwedAreRecords DEF LoadInv
      <3>3. IInv' /\ cutoff' = cutoff
        BY <1>1, <2>2, <3>1, ApplyView DEF LoadInv
      <3>4. QED
        BY <1>1, <2>2, <3>1, <3>2, <3>3
    <2>3. QED
      BY <2>1, <2>2
  <1>4. worker' \in [Workers -> [pc : {"between", "applied", "compared"},
                                 time : Int, seen : Int]]
    BY <1>3 DEF LoadInv, LoadTypeOK
  <1>5. LoadTypeOK'
    BY <1>1, <1>2, <1>3, <1>4 DEF LoadInv, LoadTypeOK, IInv
  <1>6. WorkersInv'
    BY <1>1, <1>2 DEF LoadInv, WorkersInv
  <1>7. TimestampInv'
    <2>1. Owed(current)' = Owed(current)
      BY <1>2 DEF Owed, OwedIn
    <2>2. ASSUME NEW x \in Workers
          PROVE  /\ Within(Owed(current), worker'[x].time)
                 /\ Within(Owed(current), worker'[x].seen)
      <3>1. Within(Owed(current), worker[x].time) /\ Within(Owed(current), worker[x].seen)
        BY <1>2 DEF LoadInv, TimestampInv
      <3>2. worker'[x] # worker[x]
               => /\ worker'[x].time = r.time /\ worker'[x].seen = worker[x].seen
                  /\ r \in Owed(current) /\ r.time \in Int
        BY <1>3 DEF LoadInv, LoadTypeOK
      <3>3. r \in Owed(current) /\ r.time \in Int => Within(Owed(current), r.time)
        BY DEF Within
      <3>4. QED
        BY <3>1, <3>2, <3>3
    <2>3. QED
      BY <1>2, <2>1, <2>2 DEF LoadInv, TimestampInv
  <1>8. QED
    BY <1>2, <1>3, <1>5, <1>6, <1>7, CutoffKept DEF LoadInv

\* The larger of two times.
LEMMA MaxOfTwo ==
    ASSUME NEW a \in Int, NEW b \in Int
    PROVE  Max({a, b}) = IF a >= b THEN a ELSE b
  <1>1. \E x \in {a, b} : \A y \in {a, b} : x >= y
    OBVIOUS
  <1>2. /\ Max({a, b}) \in {a, b}
        /\ \A y \in {a, b} : Max({a, b}) >= y
    BY <1>1 DEF Max
  <1>3. QED
    BY <1>2

\* Reading max_timestamp gives a worker a time within the file, and writing
\* back the larger of two such times leaves one, whatever other workers wrote
\* in between.
LEMMA MaxTimestampInv ==
    ASSUME LoadInv, NEW w \in Workers, ReadMaxTimestamp(w) \/ WriteMaxTimestamp(w)
    PROVE  LoadInv'
  <1>1. /\ worker[w].pc # "between"
        /\ UNCHANGED <<contents, current, reading, todo, failed, failures, completed>>
    BY DEF ReadMaxTimestamp, WriteMaxTimestamp
  <1>2. IInv' /\ cutoff' = cutoff
    BY CacheKept DEF LoadInv, ReadMaxTimestamp, WriteMaxTimestamp
  <1>3. reading
    BY <1>1 DEF LoadInv, WorkersInv, Between
  <1>4. /\ max_timestamp \in Int
        /\ worker \in [Workers -> [pc : {"between", "applied", "compared"},
                                   time : Int, seen : Int]]
    BY DEF LoadInv, LoadTypeOK
  <1>5. /\ Within(Owed(current), max_timestamp) /\ Within(Owed(current), 0)
        /\ \A x \in Workers : /\ Within(Owed(current), worker[x].time)
                              /\ Within(Owed(current), worker[x].seen)
    BY <1>3 DEF LoadInv, TimestampInv, Within
  <1>6. Owed(current)' = Owed(current)
    BY <1>1 DEF Owed, OwedIn
  <1>7. /\ max_timestamp' \in Int
        /\ worker' \in [Workers -> [pc : {"between", "applied", "compared"},
                                    time : Int, seen : Int]]
        /\ Within(Owed(current), max_timestamp')
        /\ \A x \in Workers : /\ Within(Owed(current), worker'[x].time)
                              /\ Within(Owed(current), worker'[x].seen)
    <2>1. CASE ReadMaxTimestamp(w)
      <3>1. /\ worker' = [worker EXCEPT ![w].pc = "compared", ![w].seen = max_timestamp]
            /\ max_timestamp' = max_timestamp
        BY <2>1 DEF ReadMaxTimestamp
      <3>2. \A x \in Workers :
               \/ worker'[x] = worker[x]
               \/ worker'[x].time = worker[x].time /\ worker'[x].seen = max_timestamp
        BY <1>4, <3>1
      <3>3. worker' \in [Workers -> [pc : {"between", "applied", "compared"},
                                     time : Int, seen : Int]]
        BY ZenonT(30), <1>4, <3>1
      <3>4. QED
        BY <1>4, <1>5, <3>1, <3>2, <3>3
    <2>2. CASE WriteMaxTimestamp(w)
      <3>1. /\ worker' = [worker EXCEPT ![w] = Between]
            /\ max_timestamp' = Max({worker[w].seen, worker[w].time})
        BY <2>2 DEF WriteMaxTimestamp
      <3>2. worker[w].seen \in Int /\ worker[w].time \in Int
        BY <1>4
      <3>3. max_timestamp' \in {worker[w].seen, worker[w].time}
        BY <3>1, <3>2, MaxOfTwo
      <3>4. Between \in [pc : {"between", "applied", "compared"}, time : Int, seen : Int]
            /\ Between.time = 0 /\ Between.seen = 0
        BY DEF Between
      <3>5. \A x \in Workers : worker'[x] = worker[x] \/ worker'[x] = Between
        BY <1>4, <3>1
      <3>6. worker' \in [Workers -> [pc : {"between", "applied", "compared"},
                                     time : Int, seen : Int]]
        BY <1>4, <3>1, <3>4
      <3>7. QED
        BY <1>5, <3>2, <3>3, <3>4, <3>5, <3>6
    <2>3. QED
      BY <2>1, <2>2
  <1>8. LoadTypeOK'
    BY <1>1, <1>2, <1>7 DEF LoadInv, LoadTypeOK, IInv
  <1>9. WorkersInv'
    BY <1>1, <1>3 DEF LoadInv, WorkersInv
  <1>10. TimestampInv'
    BY <1>6, <1>7 DEF TimestampInv
  <1>11. QED
    BY <1>1, <1>2, <1>8, <1>9, <1>10, CutoffKept DEF LoadInv

\* A failing stream leaves part of the file unread and counts as a failure.
LEMMA StreamFailsInv == ASSUME LoadInv, StreamFails PROVE LoadInv'
  <1>1. /\ reading /\ failures < MaxFailures /\ todo' \subseteq todo /\ failed' = TRUE
        /\ UNCHANGED <<vars, contents, current, reading, worker, max_timestamp,
                       failures, completed>>
    BY DEF StreamFails
  <1>2. IInv' /\ cutoff' = cutoff
    BY <1>1, CacheKept DEF LoadInv
  <1>3. failed' \in BOOLEAN
    BY <1>1
  <1>4. LoadTypeOK'
    BY <1>1, <1>2, <1>3 DEF LoadInv, LoadTypeOK, IInv
  <1>5. WorkersInv'
    BY <1>1 DEF LoadInv, WorkersInv
  <1>6. TimestampInv'
    BY <1>1 DEF LoadInv, TimestampInv, Owed, OwedIn
  <1>7. QED
    BY <1>1, <1>2, <1>4, <1>5, <1>6, CutoffKept DEF LoadInv

\* The end of a file: after a file that was read to its end the cutoff moves
\* to max_timestamp, a time within that file, which is now completed.
LEMMA FinishFileInv == ASSUME LoadInv, FinishFile PROVE LoadInv'
  <1>1. /\ reading /\ current \in Files /\ max_timestamp \in Int
        /\ Within(Owed(current), max_timestamp)
    BY DEF FinishFile, LoadInv, WorkersInv, TimestampInv, LoadTypeOK
  <1>2. /\ reading' = FALSE /\ failed' = FALSE
        /\ \A w \in Workers : worker[w] = Between
        /\ UNCHANGED <<contents, todo, worker, max_timestamp>>
    BY DEF FinishFile
  <1>3. current \in Nat /\ current <= NumFiles /\ NumFiles \in Nat
    BY <1>1, LoadingAssumption DEF Files
  <1>4. reading' \in BOOLEAN /\ failed' \in BOOLEAN
    BY ZenonT(30), <1>2
  <1>5. TimestampInv'
    BY <1>2 DEF TimestampInv
  <1>6. CASE failed
    <2>1. /\ UNCHANGED vars /\ failures' = failures + 1 /\ completed' = completed
          /\ current' \in {1, current}
      BY <1>6 DEF FinishFile, ReadCompletely
    <2>2. IInv' /\ cutoff' = cutoff
      BY <2>1, CacheKept DEF LoadInv
    <2>3. current' \in 1 .. NumFiles + 1 /\ failures' \in 0 .. MaxFailures
      BY <1>3, <1>6, <2>1, LoadingAssumption DEF LoadInv, LoadTypeOK, WorkersInv
    <2>4. LoadTypeOK'
      BY <1>2, <1>4, <2>1, <2>2, <2>3 DEF LoadInv, LoadTypeOK, IInv
    <2>5. WorkersInv'
      BY <1>2 DEF LoadInv, WorkersInv
    <2>6. QED
      BY <1>2, <1>5, <2>1, <2>2, <2>4, <2>5, CutoffKept DEF LoadInv
  <1>7. CASE ~failed
    <2>1. /\ CleanUpKeyValueMap(max_timestamp) /\ current' = current + 1
          /\ completed' = completed \cup {current} /\ failures' = failures
      BY <1>7 DEF FinishFile, ReadCompletely
    <2>2. IInv'
      BY <1>1, <2>1, CleanUpIInv DEF LoadInv
    <2>3. current' \in 1 .. NumFiles + 1
      BY <1>3, <2>1
    <2>4. LoadTypeOK'
      BY <1>1, <1>2, <1>4, <2>1, <2>2, <2>3 DEF LoadInv, LoadTypeOK, IInv
    <2>5. WorkersInv'
      BY <1>2 DEF LoadInv, WorkersInv
    <2>6. CutoffWithinLoadedFiles'
      <3>1. \A f \in completed' : Owed(f)' = Owed(f)
        BY <1>2 DEF Owed, OwedIn
      <3>2. cutoff' = cutoff \/ cutoff' = max_timestamp
        BY <2>1 DEF CleanUpKeyValueMap
      <3>3. CASE cutoff' = cutoff
        BY <2>1, <3>1, <3>3 DEF LoadInv, CutoffWithinLoadedFiles
      <3>4. CASE cutoff' = max_timestamp
        BY <1>1, <2>1, <3>1, <3>4 DEF Within, CutoffWithinLoadedFiles
      <3>5. QED
        BY <3>2, <3>3, <3>4
    <2>7. QED
      BY <1>5, <2>2, <2>4, <2>5, <2>6 DEF LoadInv
  <1>8. QED
    BY <1>6, <1>7

\* What concerns the loader alone holds on while the loader does nothing.
LEMMA LoaderKept ==
    ASSUME LoadInv, UNCHANGED loadVars, IInv'
    PROVE  LoadTypeOK' /\ WorkersInv' /\ TimestampInv'
  <1>1. LoadTypeOK'
    BY DEF LoadInv, LoadTypeOK, loadVars, IInv
  <1>2. WorkersInv'
    <2>1. WorkersInv
      BY DEF LoadInv
    <2>2. /\ UNCHANGED <<contents, current, reading, todo>>
          /\ UNCHANGED <<worker, failed, failures>>
      BY DEF loadVars
    <2>3. QED
      BY <2>1, <2>2 DEF WorkersInv
  <1>3. TimestampInv'
    BY DEF LoadInv, TimestampInv, loadVars, Owed, OwedIn
  <1> QED
    BY <1>1, <1>2, <1>3

\* A realtime message changes the cache only, and not the cutoff.
LEMMA RealtimeInv ==
    ASSUME LoadInv, NEW f \in Files, NEW r \in contents[f].records,
           contents[f].own_shard, RealtimeUpdate(r)
    PROVE  LoadInv'
  <1>1. ~Ignored(r) /\ ApplyMutation(r) /\ UNCHANGED loadVars
    BY DEF RealtimeUpdate
  <1>2. r \in Record /\ r.value \in Values \cup {NULL}
    BY <1>1, NotIgnored DEF LoadInv
  <1>3. IInv' /\ cutoff' = cutoff
    <2>1. IInv
      BY DEF LoadInv
    <2>2. QED
      BY <1>1, <1>2, <2>1, ApplyView
  <1>4. LoadTypeOK' /\ WorkersInv' /\ TimestampInv'
    BY <1>1, <1>3, LoaderKept
  <1>5. QED
    BY <1>1, <1>3, <1>4, CutoffKept DEF LoadInv, loadVars

\* Every step of loading preserves the invariant.
LEMMA NextLoadInv == LoadInv /\ [LoadNext]_<<vars, loadVars>> => LoadInv'
  <1> SUFFICES ASSUME LoadInv, [LoadNext]_<<vars, loadVars>> PROVE LoadInv'
    OBVIOUS
  <1>1. CASE UNCHANGED <<vars, loadVars>>
    <2>1. IInv' /\ cutoff' = cutoff
      BY <1>1, CacheKept DEF LoadInv
    <2>2. LoadTypeOK' /\ WorkersInv' /\ TimestampInv'
      BY <1>1, <2>1, LoaderKept
    <2>3. QED
      BY <1>1, <2>1, <2>2, CutoffKept DEF LoadInv, loadVars
  <1>2. CASE LoadNext
    BY <1>2, StartFileInv, ProcessRecordInv, MaxTimestampInv, StreamFailsInv,
       FinishFileInv, RealtimeInv DEF LoadNext
  <1>3. QED
    BY <1>1, <1>2

\* Loading always satisfies its inductive invariant.
THEOREM LoadInvariance == LoadSpec => []LoadInv
  BY InitLoadInv, NextLoadInv, PTL DEF LoadSpec

\* Type correctness of the loader, its workers and the cache under them.
THEOREM LoadTypeCorrect == LoadSpec => []LoadTypeOK
  <1>1. LoadInv => LoadTypeOK
    BY DEF LoadInv
  <1>2. QED
    BY <1>1, LoadInvariance, PTL

\* The clean-up never runs ahead of the files that were read to their end, for
\* any number of workers that race on max_timestamp and any failed attempts.
THEOREM CutoffIsWithinLoadedFiles == LoadSpec => []CutoffWithinLoadedFiles
  <1>1. LoadInv => CutoffWithinLoadedFiles
    BY DEF LoadInv
  <1>2. QED
    BY <1>1, LoadInvariance, PTL

-----------------------------------------------------------------------------
\* The mutations owed to a key: their key, and that their times are numbers.
LEMMA RelevantAreOwed ==
    ASSUME LoadTypeOK, NEW k
    PROVE  /\ \A r \in Relevant(k) : r.key = k /\ r.time \in Int
           /\ \A f \in Files : \A r \in Owed(f) : r.key = k => r \in Relevant(k)
           /\ \A r \in Relevant(k) : \E f \in Files : r \in Owed(f)
  BY OwedAreRecords DEF Relevant

\* Where neither the horizon nor what is shown changes, nothing does.
LEMMA ViewKept ==
    ASSUME LoadTypeOK, UNCHANGED contents, NEW k, ShowsNewest(k),
           Lookup(k)' = Lookup(k), Horizon(k)' = Horizon(k)
    PROVE  ShowsNewest(k)'
  <1>1. Relevant(k)' = Relevant(k)
    BY DEF Relevant, Owed, OwedIn
  <1>2. Passed(k)' = Passed(k)
    BY <1>1 DEF Passed
  <1>3. QED
    BY <1>2 DEF ShowsNewest, Newest

\* A horizon never moves back.
Forward == \A k \in Keys : Horizon(k) <= Horizon(k)'

\* What was heard of stays heard of.
LEMMA HeardKept ==
    ASSUME LoadTypeOK, IInv, IInv', Forward, UNCHANGED contents,
           NEW f \in Files, NEW r \in Owed(f), Heard(r)
    PROVE  Heard(r)'
  <1>1. r.key \in Keys /\ r.time \in Int
    BY OwedAreRecords
  <1>2. Horizon(r.key) \in Int /\ Horizon(r.key)' \in Int
    BY DEF IInv, TypeOK, Entry, Horizon
  <1>3. QED
    BY <1>1, <1>2 DEF Heard, Forward

\* A mutation the cache is given is heard of, shows if it is the newest, and
\* leaves every other key as it was.
LEMMA MutationShows ==
    ASSUME LoadInv, \A k \in Keys : ShowsNewest(k), UNCHANGED contents,
           NEW f \in Files, NEW r \in Owed(f), ApplyMutation(r)
    PROVE  (\A k \in Keys : ShowsNewest(k)') /\ Forward /\ Heard(r)'
  <1>1. /\ r \in Record /\ r.value \in Values \cup {NULL}
        /\ r.key \in Keys /\ r.time \in Int
    <2>1. contents[f].records \subseteq Record
      BY DEF LoadInv, LoadTypeOK, Contents
    <2>2. QED
      BY <2>1, OwedAreRecords DEF Owed, OwedIn, Record, LoadInv
  <1>2. \A k : Horizon(k) \in Int
    BY HorizonIsInt DEF LoadInv, LoadTypeOK
  <1>3. /\ IInv'
        /\ \/ r.time <= Horizon(r.key) /\ UNCHANGED vars
           \/ /\ Horizon(r.key) < r.time
              /\ \A x \in Keys :
                    /\ Lookup(x)' = IF x = r.key THEN r.value ELSE Lookup(x)
                    /\ Horizon(x)' = IF x = r.key THEN r.time ELSE Horizon(x)
    BY <1>1, ApplyView DEF LoadInv
  <1>4. CASE UNCHANGED vars /\ r.time <= Horizon(r.key)
    <2>1. \A k : Lookup(k)' = Lookup(k) /\ Horizon(k)' = Horizon(k)
      BY <1>4 DEF vars, Lookup, Horizon
    <2>2. \A k \in Keys : ShowsNewest(k)'
      BY <2>1, ViewKept DEF LoadInv
    <2>3. QED
      BY <1>1, <1>2, <1>4, <2>1, <2>2 DEF Forward, Heard
  <1>5. CASE /\ Horizon(r.key) < r.time
             /\ \A x \in Keys :
                   /\ Lookup(x)' = IF x = r.key THEN r.value ELSE Lookup(x)
                   /\ Horizon(x)' = IF x = r.key THEN r.time ELSE Horizon(x)
    <2>1. Lookup(r.key)' = r.value /\ Horizon(r.key)' = r.time
      BY <1>1, <1>5
    <2>2. ShowsNewest(r.key)'
      <3>1. Relevant(r.key)' = Relevant(r.key)
        BY DEF Relevant, Owed, OwedIn
      <3>2. r \in Relevant(r.key) /\ \A s \in Relevant(r.key) : s.time \in Int
        <4>1. LoadTypeOK
          BY DEF LoadInv
        <4>2. QED
          BY <4>1, RelevantAreOwed
      <3>3. Passed(r.key)' = {s \in Relevant(r.key) : s.time <= r.time}
        BY <2>1, <3>1 DEF Passed
      <3>4. r \in Newest({s \in Relevant(r.key) : s.time <= r.time})
        BY <1>1, <3>2 DEF Newest
      <3>5. r \in Newest(Passed(r.key))'
        BY <3>3, <3>4 DEF Newest
      <3>6. Passed(r.key)' # {}
        BY <3>5 DEF Newest
      <3>7. QED
        BY <2>1, <3>5, <3>6 DEF ShowsNewest
    <2>3. ASSUME NEW k \in Keys, k # r.key PROVE ShowsNewest(k)'
      BY <1>5, <2>3, ViewKept DEF LoadInv
    <2>4. Forward
      BY <1>1, <1>2, <1>5 DEF Forward
    <2>5. Heard(r)'
      BY <1>1, <2>1 DEF Heard
    <2>6. QED
      BY <2>2, <2>3, <2>4, <2>5
  <1>6. QED
    BY <1>3, <1>4, <1>5

\* An empty cache shows what it has heard of: nothing.
LEMMA InitViewInv ==
    ASSUME CarefulProducer, LoadInit
    PROVE  ViewInv
  <1>1. LoadTypeOK
    BY InitLoadInv DEF LoadInv
  <1>2. contents \in FileContents /\ \A k : Lookup(k) = NULL /\ Horizon(k) = 0
    BY DEF LoadInit, Init, InitialCutoff, Lookup, Horizon
  <1>3. ASSUME NEW k \in Keys PROVE ShowsNewest(k)
    <2>1. \A f \in Files : \A r \in Owed(f) : 0 < r.time /\ r.time \in Int
      BY <1>1, <1>2, OwedAreRecords DEF CarefulProducer, Owed
    <2>2. Passed(k) = {}
      BY <1>1, <1>2, <2>1, RelevantAreOwed DEF Passed
    <2>3. QED
      BY <1>2, <2>2 DEF ShowsNewest
  <1>4. ReadIsHeard
    BY DEF LoadInit, ReadIsHeard, Files
  <1>5. QED
    BY <1>3, <1>4 DEF ViewInv

\* A step that leaves the cache alone leaves what it shows.
LEMMA SameCacheSameView ==
    ASSUME LoadInv, ViewInv, UNCHANGED <<vars, contents>>
    PROVE  (\A k \in Keys : ShowsNewest(k)') /\ Forward
  <1>1. \A k : Lookup(k)' = Lookup(k) /\ Horizon(k)' = Horizon(k)
    BY DEF vars, Lookup, Horizon
  <1>2. \A k \in Keys : ShowsNewest(k)'
    BY <1>1, ViewKept DEF LoadInv, ViewInv
  <1>3. \A k : Horizon(k) \in Int
    BY HorizonIsInt DEF LoadInv, LoadTypeOK
  <1>4. QED
    BY <1>1, <1>2, <1>3 DEF Forward

\* When a file has been read to its end, every record up to max_timestamp has
\* been heard of: it is in this file or in one before it, because the files
\* after it are newer than all of this one.
LEMMA NothingBetween ==
    ASSUME CarefulProducer, LoadInv, ViewInv, reading, ~failed, todo = {},
           NEW k \in Keys, NEW r \in Relevant(k), r.time <= max_timestamp
    PROVE  r.time <= Horizon(k)
  <1>1. PICK f \in Files : r \in Owed(f)
    BY RelevantAreOwed DEF LoadInv
  <1>2. r.key = k /\ r.time \in Int
    BY RelevantAreOwed DEF LoadInv
  <1>3. /\ current \in Files /\ contents \in FileContents /\ max_timestamp \in Int
        /\ Within(Owed(current), max_timestamp)
    BY DEF LoadInv, WorkersInv, TimestampInv, LoadTypeOK
  <1>4. f \in Int /\ current \in Int
    BY <1>3, LoadingAssumption DEF Files
  <1>5. 0 < r.time
    BY <1>1, <1>3 DEF CarefulProducer, Owed
  <1>6. PICK s \in Owed(current) : max_timestamp <= s.time
    BY <1>2, <1>3, <1>5 DEF Within
  <1>7. s.time \in Int
    BY <1>3, OwedAreRecords DEF LoadInv
  <1>8. ~(current < f)
    <2>1. current < f => s.time < r.time
      BY <1>1, <1>3 DEF CarefulProducer, Owed
    <2>2. QED
      BY <1>2, <1>3, <1>6, <1>7, <2>1
  <1>9. CASE f < current
    BY <1>1, <1>2, <1>9 DEF ViewInv, ReadIsHeard, Heard
  <1>10. CASE f = current
    BY <1>1, <1>2, <1>10 DEF ViewInv, ReadIsHeard, Heard
  <1>11. QED
    BY <1>4, <1>8, <1>9, <1>10

\* The clean-up at the end of a file changes no lookup, and moves no horizon
\* past a record that has not been heard of.
LEMMA CleanUpShows ==
    ASSUME CarefulProducer, LoadInv, ViewInv, reading, ~failed, todo = {},
           CleanUpKeyValueMap(max_timestamp), UNCHANGED contents
    PROVE  (\A k \in Keys : ShowsNewest(k)') /\ Forward
  <1>1. max_timestamp \in Int /\ \A k : Horizon(k) \in Int
    BY HorizonIsInt DEF LoadInv, LoadTypeOK
  <1>2. \A k \in Keys :
           /\ Lookup(k)' = Lookup(k)
           /\ Horizon(k)' = IF Horizon(k) < max_timestamp THEN max_timestamp ELSE Horizon(k)
    BY <1>1, CleanUpView DEF LoadInv
  <1>3. ASSUME NEW k \in Keys PROVE ShowsNewest(k)'
    <2>1. Relevant(k)' = Relevant(k) /\ \A r \in Relevant(k) : r.time \in Int
      <3>1. Relevant(k)' = Relevant(k)
        BY DEF Relevant, Owed, OwedIn
      <3>2. \A r \in Relevant(k) : r.time \in Int
        BY RelevantAreOwed DEF LoadInv
      <3>3. QED
        BY <3>1, <3>2
    <2>2. \A r \in Relevant(k) : r.time <= Horizon(k)' <=> r.time <= Horizon(k)
      BY <1>1, <1>2, <2>1, NothingBetween
    <2>3. Passed(k)' = Passed(k)
      BY <2>1, <2>2 DEF Passed
    <2>4. QED
      <3>1. ShowsNewest(k) /\ Lookup(k)' = Lookup(k)
        BY <1>2 DEF ViewInv
      <3>2. QED
        BY <2>3, <3>1 DEF ShowsNewest, Newest
  <1>4. Forward
    BY <1>1, <1>2 DEF Forward
  <1>5. QED
    BY <1>3, <1>4

\* ReadIsHeard of the next state, from the records that were heard of now and
\* those this step adds.
LEMMA HeardNext ==
    ASSUME LoadInv, IInv', Forward, UNCHANGED contents,
           \A f \in Files : f < current' \/ f \in completed'
              => \A r \in Owed(f) : Heard(r) \/ Heard(r)',
           reading' /\ ~failed' => /\ current' \in Files
                                   /\ \A r \in Owed(current') \ todo' : Heard(r) \/ Heard(r)'
    PROVE  ReadIsHeard'
  <1>1. \A f \in Files : \A r \in Owed(f) : Heard(r) => Heard(r)'
    BY HeardKept DEF LoadInv
  <1>2. \A f : Owed(f)' = Owed(f)
    BY DEF Owed, OwedIn
  <1>3. Owed(current)' = Owed(current')
    BY DEF Owed, OwedIn
  <1>4. ASSUME NEW f \in Files, f < current' \/ f \in completed'
        PROVE  \A r \in Owed(f)' : Heard(r)'
    BY <1>1, <1>2, <1>4
  <1>5. ASSUME reading', ~failed' PROVE \A r \in Owed(current)' \ todo' : Heard(r)'
    BY <1>1, <1>3, <1>5
  <1>6. QED
    BY <1>4, <1>5 DEF ReadIsHeard

\* StartFile passes over a file that owes nothing, or opens one with all of
\* its records still to be read.
LEMMA StartFileView ==
    ASSUME LoadInv, LoadInv', ViewInv, StartFile
    PROVE  ViewInv'
  <1>1. /\ current \in Files /\ ~reading
        /\ UNCHANGED <<vars, contents, completed, failed>>
    BY DEF StartFile
  <1>2. (\A k \in Keys : ShowsNewest(k)') /\ Forward
    BY <1>1, SameCacheSameView
  <1>3. /\ \A f \in Files : f < current' \/ f \in completed'
              => \A r \in Owed(f) : Heard(r)
        /\ reading' => current' \in Files /\ Owed(current') \subseteq todo'
    <2>1. CASE contents[current].own_shard
      <3>1. reading' /\ current' = current /\ todo' = contents[current].records
        BY <2>1 DEF StartFile
      <3>2. QED
        BY <1>1, <3>1 DEF ViewInv, ReadIsHeard, Owed, OwedIn
    <2>2. CASE ~contents[current].own_shard
      <3>1. current' = current + 1 /\ reading' = reading
        BY <2>2 DEF StartFile
      <3>2. Owed(current) = {}
        BY <2>2 DEF Owed, OwedIn
      <3>3. current \in Int /\ \A f \in Files : f \in Int
        BY <1>1, LoadingAssumption DEF Files
      <3>4. \A f \in Files : f < current' => f < current \/ f = current
        BY <3>1, <3>3
      <3>5. QED
        BY <1>1, <3>1, <3>2, <3>4 DEF ViewInv, ReadIsHeard
    <2>3. QED
      BY <2>1, <2>2
  <1>4. ReadIsHeard'
    BY <1>1, <1>2, <1>3, HeardNext DEF LoadInv
  <1>5. QED
    BY <1>2, <1>4 DEF ViewInv

\* ProcessRecord: the record it takes is heard of, or owed to no key.
LEMMA ProcessRecordView ==
    ASSUME LoadInv, LoadInv', ViewInv, NEW w \in Workers, ProcessRecord(w)
    PROVE  ViewInv'
  <1>1. PICK r \in todo :
           /\ todo' = todo \ {r}
           /\ IF Ignored(r) THEN UNCHANGED vars ELSE ApplyMutation(r)
    BY DEF ProcessRecord
  <1>2. /\ current \in Files /\ contents[current].own_shard
        /\ r \in contents[current].records
        /\ UNCHANGED <<contents, current, reading, failed, completed>>
    BY DEF ProcessRecord, LoadInv, WorkersInv
  <1>3. /\ (\A k \in Keys : ShowsNewest(k)') /\ Forward
        /\ r \in Owed(current) => Heard(r)'
    <2>1. CASE Ignored(r)
      <3>1. r \notin Owed(current)
        BY Zenon, <2>1 DEF Ignored, ShouldProcessRecord, Owed, OwedIn
      <3>2. QED
        BY <1>1, <1>2, <2>1, <3>1, SameCacheSameView
    <2>2. CASE ~Ignored(r)
      <3>1. r \in Owed(current)
        BY <1>2, <2>2, NotIgnored DEF LoadInv
      <3>2. QED
        BY <1>1, <1>2, <2>2, <3>1, MutationShows DEF ViewInv
    <2>3. QED
      BY Zenon, <2>1, <2>2
  <1>4. \A f \in Files : f < current' \/ f \in completed' => \A s \in Owed(f) : Heard(s)
    BY <1>2 DEF ViewInv, ReadIsHeard
  <1>5. reading' /\ ~failed' => \A s \in Owed(current') \ todo' : Heard(s) \/ Heard(s)'
    <2>1. reading /\ ~failed => \A s \in Owed(current) \ todo : Heard(s)
      BY Zenon DEF ViewInv, ReadIsHeard
    <2>2. todo' = todo \ {r}
      BY Zenon, <1>1
    <2>3. QED
      BY <1>2, <1>3, <2>1, <2>2
  <1>6. ReadIsHeard'
    BY <1>2, <1>3, <1>4, <1>5, HeardNext DEF LoadInv
  <1>7. QED
    BY <1>3, <1>6 DEF ViewInv

\* The unlocked updates of max_timestamp and a failing stream do not touch the
\* cache; what a failed attempt leaves unread is not claimed to be heard of.
LEMMA QuietStepView ==
    ASSUME LoadInv, LoadInv', ViewInv,
           \/ \E w \in Workers : ReadMaxTimestamp(w) \/ WriteMaxTimestamp(w)
           \/ StreamFails
           \/ UNCHANGED <<vars, loadVars>>
    PROVE  ViewInv'
  <1>1. /\ UNCHANGED <<vars, contents, current, reading, completed>>
        /\ failed' \/ (todo' = todo /\ failed' = failed)
    BY ZenonT(30) DEF ReadMaxTimestamp, WriteMaxTimestamp, StreamFails, loadVars
  <1>2. (\A k \in Keys : ShowsNewest(k)') /\ Forward
    BY <1>1, SameCacheSameView
  <1>3. reading => current \in Files
    BY DEF LoadInv, WorkersInv
  <1>4. ReadIsHeard'
    <2>1. ReadIsHeard
      BY DEF ViewInv
    <2>2. /\ \A f \in Files : f < current' \/ f \in completed'
                => \A r \in Owed(f) : Heard(r)
          /\ reading' /\ ~failed' => /\ current' \in Files
                                     /\ \A r \in Owed(current') \ todo' : Heard(r)
      BY <1>1, <1>3, <2>1 DEF ReadIsHeard
    <2>3. IInv'
      BY DEF LoadInv
    <2>4. QED
      BY Zenon, <1>1, <1>2, <2>2, <2>3, HeardNext
  <1>5. QED
    BY <1>2, <1>4 DEF ViewInv

\* The end of a file that was read to its end: all it owes has been heard of,
\* and stays so when the clean-up moves the cutoff.  After a failed attempt
\* loading goes back, at most to the first file.
LEMMA FinishFileView ==
    ASSUME CarefulProducer, LoadInv, LoadInv', ViewInv, FinishFile
    PROVE  ViewInv'
  <1>1. /\ reading /\ todo = {} /\ ~reading' /\ UNCHANGED contents
        /\ current \in Files
    BY DEF FinishFile, LoadInv, WorkersInv
  <1>2. current \in Int /\ current >= 1 /\ \A f \in Files : f \in Int /\ f >= 1
    BY <1>1, LoadingAssumption DEF Files
  <1>3. CASE failed
    <2>1. UNCHANGED <<vars, completed>> /\ current' \in {1, current}
      BY <1>3 DEF FinishFile, ReadCompletely
    <2>2. (\A k \in Keys : ShowsNewest(k)') /\ Forward
      BY <1>1, <2>1, SameCacheSameView
    <2>3. \A f \in Files : f < current' => f < current
      BY <1>2, <2>1
    <2>4. ReadIsHeard'
      <3>1. ReadIsHeard
        BY DEF ViewInv
      <3>2. \A f \in Files : f < current' \/ f \in completed'
               => \A r \in Owed(f) : Heard(r)
        BY <2>1, <2>3, <3>1 DEF ReadIsHeard
      <3>3. IInv'
        BY DEF LoadInv
      <3>4. QED
        BY Zenon, <1>1, <2>2, <3>2, <3>3, HeardNext
    <2>5. QED
      BY <2>2, <2>4 DEF ViewInv
  <1>4. CASE ~failed
    <2>1. /\ CleanUpKeyValueMap(max_timestamp) /\ current' = current + 1
          /\ completed' = completed \cup {current}
      BY <1>4 DEF FinishFile, ReadCompletely
    <2>2. (\A k \in Keys : ShowsNewest(k)') /\ Forward
      BY <1>1, <1>4, <2>1, CleanUpShows
    <2>3. \A r \in Owed(current) : Heard(r)
      BY <1>1, <1>4 DEF ViewInv, ReadIsHeard
    <2>4. \A f \in Files : f < current' \/ f \in completed'
             => f < current \/ f \in completed \/ f = current
      BY <1>2, <2>1
    <2>5. \A f \in Files : f < current' \/ f \in completed' => \A r \in Owed(f) : Heard(r)
      BY <2>3, <2>4 DEF ViewInv, ReadIsHeard
    <2>6. ReadIsHeard'
      BY <1>1, <2>2, <2>5, HeardNext DEF LoadInv
    <2>7. QED
      BY <2>2, <2>6 DEF ViewInv
  <1>5. QED
    BY Zenon, <1>3, <1>4

\* A realtime message is a mutation some file owes.
LEMMA RealtimeView ==
    ASSUME LoadInv, LoadInv', ViewInv, NEW f \in Files,
           NEW r \in contents[f].records, contents[f].own_shard, RealtimeUpdate(r)
    PROVE  ViewInv'
  <1>1. ApplyMutation(r) /\ ~Ignored(r)
        /\ UNCHANGED <<contents, current, reading, todo, failed, completed>>
    BY Zenon DEF RealtimeUpdate, loadVars
  <1>2. r \in Owed(f)
    BY Zenon, <1>1, NotIgnored DEF LoadInv
  <1>3. (\A k \in Keys : ShowsNewest(k)') /\ Forward
    BY <1>1, <1>2, MutationShows DEF ViewInv
  <1>4. reading => current \in Files
    BY Zenon DEF LoadInv, WorkersInv
  <1>5. ReadIsHeard'
    <2>1. ReadIsHeard
      BY DEF ViewInv
    <2>2. /\ \A g \in Files : g < current' \/ g \in completed'
                => \A s \in Owed(g) : Heard(s)
          /\ reading' /\ ~failed' => /\ current' \in Files
                                     /\ \A s \in Owed(current') \ todo' : Heard(s)
      BY <1>1, <1>4, <2>1 DEF ReadIsHeard
    <2>3. IInv'
      BY DEF LoadInv
    <2>4. QED
      BY Zenon, <1>1, <1>3, <2>2, <2>3, HeardNext
  <1>6. QED
    BY <1>3, <1>5 DEF ViewInv

\* At every moment a lookup shows the newest mutation up to the key's horizon,
\* and the horizon is past everything that has been read, if the producer
\* orders the files by commit time.
THEOREM ViewInvariance ==
    ASSUME CarefulProducer
    PROVE  LoadSpec => []ViewInv
  <1>1. LoadInit => ViewInv
    BY InitViewInv
  <1>2. LoadInv /\ LoadInv' /\ ViewInv /\ [LoadNext]_<<vars, loadVars>> => ViewInv'
    <2> SUFFICES ASSUME LoadInv, LoadInv', ViewInv, [LoadNext]_<<vars, loadVars>>
                 PROVE  ViewInv'
      OBVIOUS
    <2>1. CASE UNCHANGED <<vars, loadVars>>
      BY <2>1, QuietStepView
    <2>2. CASE LoadNext
      BY ZenonT(30), <2>2, StartFileView, ProcessRecordView, QuietStepView, FinishFileView,
         RealtimeView DEF LoadNext
    <2>3. QED
      BY <2>1, <2>2
  <1>3. QED
    BY <1>1, <1>2, LoadInvariance, PTL DEF LoadSpec

\* Once every file is loaded each key shows its newest mutation, for any number
\* of files, workers, failed attempts and realtime messages, if the producer
\* orders the files by commit time.
THEOREM LoadingConverges ==
    ASSUME CarefulProducer
    PROVE  LoadSpec => []Converges
  <1>1. LoadInv /\ ViewInv => Converges
    <2> SUFFICES ASSUME LoadInv, ViewInv, AllLoaded, NEW k \in Keys
                 PROVE  IF Relevant(k) = {} THEN Lookup(k) = NULL
                        ELSE \E r \in Newest(Relevant(k)) : Lookup(k) = r.value
      BY DEF Converges
    <2>1. \A f \in Files : f < current
      BY LoadingAssumption DEF AllLoaded, Files, LoadInv, LoadTypeOK
    <2>2. \A r \in Relevant(k) : r.time <= Horizon(k)
      BY <2>1, RelevantAreOwed DEF ViewInv, ReadIsHeard, Heard, LoadInv
    <2>3. Passed(k) = Relevant(k)
      BY <2>2 DEF Passed
    <2>4. QED
      BY <2>3 DEF ViewInv, ShowsNewest
  <1>2. QED
    BY <1>1, ViewInvariance, LoadInvariance, PTL
=============================================================================
