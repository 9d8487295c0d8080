---------------------------- MODULE KeyValueCache ----------------------------
(***************************************************************************)
(* The key/value half of KeyValueCache                                     *)
(* (components/data_server/cache/key_value_cache.{h,cc}): map_,            *)
(* deleted_nodes_ and max_cleanup_logical_commit_time_, all guarded by     *)
(* mutex_.  Every method takes mutex_ for its whole body, so each is one   *)
(* action; the callers (the threads that read a data file, the realtime    *)
(* threads, the clean-up at the end of a file) interleave freely.          *)
(***************************************************************************)
EXTENDS Integers

CONSTANTS Keys,    \* the keys of map_
          Values,  \* the strings a key can be updated to
          NULL,    \* nullptr, the value of a tombstone
          Times    \* the logical commit times callers pass (int64_t)

ASSUME CacheAssumption ==
    /\ NULL \notin Values
    /\ Times \subseteq Int

VARIABLES map,            \* map_: key -> [value, last_logical_commit_time]
          deleted_nodes,  \* deleted_nodes_: the (commit time, key) pairs
          cutoff          \* max_cleanup_logical_commit_time_

vars == <<map, deleted_nodes, cutoff>>

Entry == [value : Values \cup {NULL}, last : Int]

IsTombstone(k) == k \in DOMAIN map /\ map[k].value = NULL

InsertOrAssign(k, v, t) ==
    map' = [x \in DOMAIN map \cup {k} |->
               IF x = k THEN [value |-> v, last |-> t] ELSE map[x]]

\* Mutant: the check against the cutoff is forgotten.
SupersededWithoutCutoff(k, t) ==
    k \in DOMAIN map /\ map[k].last >= t

\* The early returns of both mutations: at or below the cutoff, or the key
\* already holds a mutation that is at least as recent.
Superseded(k, t) ==
    \/ t <= cutoff
    \/ k \in DOMAIN map /\ map[k].last >= t

\* Mutant: max_cleanup_logical_commit_time_ has no initializer.
UninitializedCutoff == NULL

InitialCutoff == 0

Init ==
    /\ map = [k \in {} |-> [value |-> NULL, last |-> 0]]
    /\ deleted_nodes = {}
    /\ cutoff = InitialCutoff

-----------------------------------------------------------------------------
\* Mutant: the entry found is erased whichever key it belongs to.
EraseNodeOfAnyKey(k, t) ==
    IF \E node \in deleted_nodes : node[1] = t
    THEN \E node \in deleted_nodes :
            /\ node[1] = t
            /\ deleted_nodes' = deleted_nodes \ {node}
    ELSE UNCHANGED deleted_nodes

\* deleted_nodes_.find(t) yields some one entry with that commit time; it is
\* erased only when it belongs to k, so an entry of k hidden behind another
\* key's stays in the index although k is no longer a tombstone.
EraseFoundNode(k, t) ==
    IF \E node \in deleted_nodes : node[1] = t
    THEN \E node \in deleted_nodes :
            /\ node[1] = t
            /\ deleted_nodes' = IF node[2] = k THEN deleted_nodes \ {node}
                                               ELSE deleted_nodes
    ELSE UNCHANGED deleted_nodes

UpdateKeyValue(k, v, t) ==
    \/ /\ Superseded(k, t)
       /\ UNCHANGED vars
    \/ /\ ~Superseded(k, t)
       /\ IF IsTombstone(k) THEN EraseFoundNode(k, map[k].last)
                            ELSE UNCHANGED deleted_nodes
       /\ InsertOrAssign(k, v, t)
       /\ UNCHANGED cutoff

\* A missing key is recorded as a tombstone too, so that an older update that
\* arrives later is ignored.
DeleteKey(k, t) ==
    \/ /\ Superseded(k, t)
       /\ UNCHANGED vars
    \/ /\ ~Superseded(k, t)
       /\ InsertOrAssign(k, NULL, t)
       /\ deleted_nodes' = deleted_nodes \cup {<<t, k>>}
       /\ UNCHANGED cutoff

\* The keys whose tombstone a clean-up at t erases from map_.
Reclaimed(t) ==
    {k \in DOMAIN map :
        /\ \E node \in deleted_nodes : node[1] <= t /\ node[2] = k
        /\ IsTombstone(k)
        /\ map[k].last <= t}

\* Mutant: the clean-up does not remember how far it went.
CleanUpWithoutCutoff(t) ==
    /\ map' = [k \in DOMAIN map \ Reclaimed(t) |-> map[k]]
    /\ deleted_nodes' = {node \in deleted_nodes : node[1] > t}
    /\ UNCHANGED cutoff

CleanUpKeyValueMap(t) ==
    /\ map' = [k \in DOMAIN map \ Reclaimed(t) |-> map[k]]
    /\ deleted_nodes' = {node \in deleted_nodes : node[1] > t}
    /\ cutoff' = IF cutoff < t THEN t ELSE cutoff

Next ==
    \/ \E k \in Keys, v \in Values, t \in Times : UpdateKeyValue(k, v, t)
    \/ \E k \in Keys, t \in Times : DeleteKey(k, t)
    \/ \E t \in Times : CleanUpKeyValueMap(t)

Spec == Init /\ [][Next]_vars

-----------------------------------------------------------------------------
\* GetKeyValuePairs for one key: absent keys and tombstones are left out.
Lookup(k) == IF k \in DOMAIN map THEN map[k].value ELSE NULL

\* The commit time at or below which a mutation of k is ignored.
Horizon(k) == IF k \in DOMAIN map /\ map[k].last > cutoff
              THEN map[k].last ELSE cutoff

Lww == INSTANCE LastWriterWins
       WITH Items <- Keys, Contents <- Values,
            visible <- [k \in Keys |-> Lookup(k)],
            horizon <- [k \in Keys |-> Horizon(k)]

-----------------------------------------------------------------------------
\* Every variable has the shape the C++ declarations give it.
TypeOK ==
    /\ DOMAIN map \subseteq Keys
    /\ \A k \in DOMAIN map : map[k] \in Entry
    /\ deleted_nodes \subseteq Int \X Keys
    /\ cutoff \in Int

\* Every tombstone of map_ is indexed in deleted_nodes_ under its own commit
\* time ("should always have this", key_value_cache.cc:119), so a clean-up
\* can find it, although UpdateKeyValue erases whichever entry find returned.
TombstonesIndexed ==
    \A k \in Keys : IsTombstone(k) => <<map[k].last, k>> \in deleted_nodes

\* After RemoveDeletedKeys(T) no tombstone and no index entry at or below T
\* is left or can come back: deleted keys do not accumulate in memory.
NothingBelowCutoff ==
    /\ \A k \in Keys : IsTombstone(k) => map[k].last > cutoff
    /\ \A node \in deleted_nodes : node[1] > cutoff

\* The cache implements the last-writer-wins store: reclaiming a tombstone
\* never lets an older update become visible, stale entries of the index
\* never remove a live key, and no reader sees a superseded mutation.
RefinesLastWriterWins == Lww!LwwSpec
=============================================================================
