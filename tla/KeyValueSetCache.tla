-------------------------- MODULE KeyValueSetCache --------------------------
(***************************************************************************)
(* The key/value-set half of KeyValueCache                                 *)
(* (components/data_server/cache/key_value_cache.{h,cc}) with its two      *)
(* levels of locks: set_map_mutex_ over the whole map, and one mutex per   *)
(* key over that key's values.  A mutation decides under the map lock,     *)
(* trades it for the key lock and changes the values under the key lock    *)
(* alone; a deletion then comes back for the map lock to index what it     *)
(* deleted; a lookup keeps its key locks until its result is destroyed; a  *)
(* clean-up keeps the map lock and only touches each key lock.             *)
(*                                                                         *)
(* A step of the model runs from one lock operation that may block to the  *)
(* next.                                                                   *)
(***************************************************************************)
EXTENDS Integers

CONSTANTS Keys, Values, Times,
          Mutators,   \* threads that call UpdateKeyValueSet, DeleteValuesInSet
          Cleaners,   \* threads that call RemoveDeletedKeys
          Readers,    \* threads that call GetKeyValueSet
          NONE        \* no thread, no key

Threads == Mutators \cup Cleaners \cup Readers

ASSUME SetCacheAssumption ==
    /\ Times \subseteq Int
    /\ NONE \notin Threads
    /\ NONE \notin Keys

VARIABLES
    set_map,            \* key_to_value_set_map_: key -> value -> SetValueMeta
    deleted_set_nodes,  \* deleted_set_nodes_: (commit time, key, value)
    cutoff,             \* max_cleanup_logical_commit_time_for_set_cache_
    map_lock,           \* set_map_mutex_
    key_lock,           \* the mutex stored with each key
    call,               \* per thread, the call in progress
    result              \* per thread, data_map_ of the GetKeyValueSetResult

shared == <<set_map, deleted_set_nodes, cutoff>>
vars == <<set_map, deleted_set_nodes, cutoff, map_lock, key_lock, call, result>>

Lock == [writer : Threads \cup {NONE}, readers : SUBSET Threads]
Unlocked == [writer |-> NONE, readers |-> {}]
LockedBy(th) == [writer |-> th, readers |-> {}]

Meta == [last : Int, is_deleted : BOOLEAN]

\* key: the key being worked on; todo: the keys a lookup or a clean-up has
\* still to visit after it.
Call == [pc : {"idle", "lock_key", "apply", "index", "index_waiting",
               "read", "holding", "visit", "erase"},
         deleting : BOOLEAN, key : Keys \cup {NONE}, values : SUBSET Values,
         time : Int, todo : SUBSET Keys]

\* A lookup or a clean-up that works on key k.
At(pc, k, t, todo) == [pc |-> pc, deleting |-> FALSE, key |-> k, values |-> {},
                       time |-> t, todo |-> todo]

Idle == At("idle", NONE, 0, {})

NoResult == [k \in {} |-> {}]

Return(th) == call' = [call EXCEPT ![th] = Idle]

\* Mutant: the cutoff has no initializer.
UninitializedCutoff == NONE

InitialCutoff == 0

Init ==
    /\ set_map = [k \in {} |-> [v \in {} |-> [last |-> 0, is_deleted |-> FALSE]]]
    /\ deleted_set_nodes = {}
    /\ cutoff = InitialCutoff
    /\ map_lock = Unlocked
    /\ key_lock = [k \in Keys |-> Unlocked]
    /\ call = [th \in Threads |-> Idle]
    /\ result = [th \in Threads |-> NoResult]

-----------------------------------------------------------------------------
\* UpdateKeyValueSet and DeleteValuesInSet.

\* operator[] on a missing value creates the default SetValueMeta.
MetaOf(k, v) == IF v \in DOMAIN set_map[k] THEN set_map[k][v]
                ELSE [last |-> 0, is_deleted |-> FALSE]

\* The values of S that a mutation of k at t changes.
Newer(k, S, t) == {v \in S : MetaOf(k, v).last < t}

Mutated(k, S, t, deleting) ==
    [v \in DOMAIN set_map[k] \cup S |->
        IF v \in Newer(k, S, t) THEN [last |-> t, is_deleted |-> deleting]
                                ELSE MetaOf(k, v)]

Nodes(k, S, t) == {<<t, k, v>> : v \in S}

\* Mutant: the scope of the map lock ends before the key lock is taken.
DropMapLock(th) == UNCHANGED map_lock

HoldMapLock(th) == map_lock' = LockedBy(th)

\* The part under set_map_mutex_: ignore the call, insert a new key, or go
\* for the key's lock while still holding the map's.
BeginMutation(th, deleting, k, S, t) ==
    /\ call[th].pc = "idle"
    /\ map_lock = Unlocked
    /\ \/ /\ t <= cutoff \/ S = {}
          /\ UNCHANGED vars
       \/ /\ t > cutoff /\ S # {} /\ k \notin DOMAIN set_map
          /\ set_map' = [x \in DOMAIN set_map \cup {k} |->
                            IF x = k
                            THEN [v \in S |-> [last |-> t, is_deleted |-> deleting]]
                            ELSE set_map[x]]
          /\ deleted_set_nodes' = IF deleting
                                  THEN deleted_set_nodes \cup Nodes(k, S, t)
                                  ELSE deleted_set_nodes
          /\ UNCHANGED <<cutoff, map_lock, key_lock, call, result>>
       \/ /\ t > cutoff /\ S # {} /\ k \in DOMAIN set_map
          /\ HoldMapLock(th)
          /\ call' = [call EXCEPT ![th] =
                         [pc |-> "lock_key", deleting |-> deleting, key |-> k,
                          values |-> S, time |-> t, todo |-> {}]]
          /\ UNCHANGED <<shared, key_lock, result>>

UpdateKeyValueSet(th, k, S, t) == BeginMutation(th, FALSE, k, S, t)
DeleteValuesInSet(th, k, S, t) == BeginMutation(th, TRUE, k, S, t)

\* The key lock is acquired, and the map lock released at the end of its scope.
LockKey(th) ==
    LET k == call[th].key IN
    /\ call[th].pc = "lock_key"
    /\ key_lock[k] = Unlocked
    /\ key_lock' = [key_lock EXCEPT ![k] = LockedBy(th)]
    /\ map_lock' = Unlocked
    /\ call' = [call EXCEPT ![th].pc = "apply"]
    /\ UNCHANGED <<shared, result>>

\* Mutant: a deletion does not come back to index what it deleted.
NeverIndexes(th) == FALSE

\* values_to_delete is not empty.
HasToIndex(th) ==
    /\ call[th].deleting
    /\ Newer(call[th].key, call[th].values, call[th].time) # {}

\* Mutant: a deletion keeps its key lock while it goes for the map lock.
KeepKeyLockToIndex(th) ==
    key_lock' = IF HasToIndex(th) THEN key_lock
                ELSE [key_lock EXCEPT ![call[th].key] = Unlocked]

ReleaseKeyLock(th) == key_lock' = [key_lock EXCEPT ![call[th].key] = Unlocked]

\* The loop over the values; then the key lock is released, and a deletion
\* that changed something goes on to index it.
ApplyToValues(th) ==
    LET c == call[th] IN
    /\ c.pc = "apply"
    /\ set_map' = [set_map EXCEPT ![c.key] =
                      Mutated(c.key, c.values, c.time, c.deleting)]
    /\ ReleaseKeyLock(th)
    /\ IF HasToIndex(th)
       THEN call' = [call EXCEPT ![th].pc = "index",
                                 ![th].values = Newer(c.key, @, c.time)]
       ELSE Return(th)
    /\ UNCHANGED <<deleted_set_nodes, cutoff, map_lock, result>>

\* absl::Mutex: a waiting writer in time keeps new readers out.
WaitForMapLock(th) ==
    /\ call[th].pc = "index"
    /\ map_lock # Unlocked
    /\ call' = [call EXCEPT ![th].pc = "index_waiting"]
    /\ UNCHANGED <<shared, map_lock, key_lock, result>>

IndexDeletedValues(th) ==
    LET c == call[th] IN
    /\ c.pc \in {"index", "index_waiting"}
    /\ map_lock = Unlocked
    /\ deleted_set_nodes' = deleted_set_nodes \cup Nodes(c.key, c.values, c.time)
    /\ Return(th)
    /\ UNCHANGED <<set_map, cutoff, map_lock, key_lock, result>>

-----------------------------------------------------------------------------
\* GetKeyValueSet, and the life of the result it returns.

LiveValues(k) == {v \in DOMAIN set_map[k] : ~set_map[k][v].is_deleted}

\* The iteration order of a hash set: any key of todo may come next.
GetKeyValueSet(th, first, rest) ==
    /\ call[th].pc = "idle"
    /\ map_lock.writer = NONE
    /\ \A other \in Threads : call[other].pc # "index_waiting"
    /\ map_lock' = [map_lock EXCEPT !.readers = @ \cup {th}]
    /\ call' = [call EXCEPT ![th] = At("read", first, 0, rest \ {first})]
    /\ UNCHANGED <<shared, key_lock, result>>

\* Takes the key's read lock and copies the views of its live values; after
\* the last key the map lock is released and the result returned.
ReadKey(th) ==
    LET k == call[th].key IN
    /\ call[th].pc = "read"
    /\ IF k \in DOMAIN set_map
       THEN /\ key_lock[k].writer = NONE
            /\ key_lock' = [key_lock EXCEPT ![k].readers = @ \cup {th}]
            /\ result' = [result EXCEPT ![th] =
                             [x \in DOMAIN @ \cup {k} |->
                                 IF x = k THEN LiveValues(k) ELSE @[x]]]
       ELSE UNCHANGED <<key_lock, result>>
    /\ IF call[th].todo = {}
       THEN /\ call' = [call EXCEPT ![th] = At("holding", NONE, 0, {})]
            /\ map_lock' = [map_lock EXCEPT !.readers = @ \ {th}]
       ELSE /\ \E next \in call[th].todo :
                  call' = [call EXCEPT ![th].key = next, ![th].todo = @ \ {next}]
            /\ UNCHANGED map_lock
    /\ UNCHANGED shared

\* ~GetKeyValueSetResultImpl: read_locks_ is destroyed with the views.
DestroyResult(th) ==
    /\ call[th].pc = "holding"
    /\ key_lock' = [k \in Keys |->
                       [key_lock[k] EXCEPT !.readers = @ \ {th}]]
    /\ result' = [result EXCEPT ![th] = NoResult]
    /\ Return(th)
    /\ UNCHANGED <<shared, map_lock>>

-----------------------------------------------------------------------------
\* CleanUpKeyValueSetMap.  The code visits (commit time, key) pairs in order
\* of time; what it erases of a key does not depend on that order, and no
\* lock changes hands between two visits of a key, so a key is visited once.

IndexedKeys(t) == {node[2] : node \in {n \in deleted_set_nodes : n[1] <= t}}

\* The next key to visit, or the end of the loop: forget the nodes, raise the
\* cutoff, release the map lock.
VisitNext(th, t, todo) ==
    IF todo # {}
    THEN /\ \E next \in todo :
               call' = [call EXCEPT ![th] = At("visit", next, t, todo \ {next})]
         /\ map_lock' = LockedBy(th)
         /\ UNCHANGED <<deleted_set_nodes, cutoff>>
    ELSE /\ deleted_set_nodes' = {node \in deleted_set_nodes : node[1] > t}
         /\ cutoff' = IF cutoff < t THEN t ELSE cutoff
         /\ map_lock' = Unlocked
         /\ Return(th)

CleanUpKeyValueSetMap(th, t) ==
    /\ call[th].pc = "idle"
    /\ map_lock = Unlocked
    /\ VisitNext(th, t, IndexedKeys(t))
    /\ UNCHANGED <<set_map, key_lock, result>>

\* Mutant: the clean-up does not wait for the holders of the key lock.
KeyLockNotTaken(k) == TRUE

\* absl::MutexLock(&mutex) is a temporary: the key lock is acquired and
\* released at once, and the erasures that follow run without it.
KeyLockTouched(k) == key_lock[k] = Unlocked

VisitKey(th) ==
    LET c == call[th] IN
    /\ c.pc = "visit"
    /\ IF c.key \in DOMAIN set_map
       THEN /\ KeyLockTouched(c.key)
            /\ call' = [call EXCEPT ![th].pc = "erase"]
            /\ UNCHANGED <<deleted_set_nodes, cutoff, map_lock>>
       ELSE VisitNext(th, c.time, c.todo)
    /\ UNCHANGED <<set_map, key_lock, result>>

\* Mutant: a value is erased for a stale node although it was deleted again
\* after t.
ReclaimedByStaleNode(k, t) ==
    {v \in DOMAIN set_map[k] :
        /\ \E node \in deleted_set_nodes :
              node[1] <= t /\ node[2] = k /\ node[3] = v
        /\ set_map[k][v].is_deleted}

Reclaimed(k, t) ==
    {v \in DOMAIN set_map[k] :
        /\ \E node \in deleted_set_nodes :
              node[1] <= t /\ node[2] = k /\ node[3] = v
        /\ set_map[k][v].is_deleted
        /\ set_map[k][v].last <= t}

EraseValues(th) ==
    LET c == call[th]
        left == DOMAIN set_map[c.key] \ Reclaimed(c.key, c.time)
    IN  /\ c.pc = "erase"
        /\ set_map' = IF left = {}
                      THEN [k \in DOMAIN set_map \ {c.key} |-> set_map[k]]
                      ELSE [set_map EXCEPT ![c.key] = [v \in left |-> @[v]]]
        /\ VisitNext(th, c.time, c.todo)
        /\ UNCHANGED <<key_lock, result>>

-----------------------------------------------------------------------------
Mutate(th) ==
    \/ \E k \in Keys, S \in SUBSET Values, t \in Times :
          UpdateKeyValueSet(th, k, S, t) \/ DeleteValuesInSet(th, k, S, t)
    \/ LockKey(th)
    \/ ApplyToValues(th)
    \/ WaitForMapLock(th)
    \/ IndexDeletedValues(th)

Read(th) ==
    \/ \E rest \in SUBSET Keys : \E first \in rest : GetKeyValueSet(th, first, rest)
    \/ ReadKey(th)
    \/ DestroyResult(th)

CleanUp(th) ==
    \/ \E t \in Times : CleanUpKeyValueSetMap(th, t)
    \/ VisitKey(th)
    \/ EraseValues(th)

Next ==
    \/ \E th \in Mutators : Mutate(th)
    \/ \E th \in Readers : Read(th)
    \/ \E th \in Cleaners : CleanUp(th)

Spec == Init /\ [][Next]_vars

\* A call that was begun goes on: its thread is scheduled, a lock that is
\* released again and again is not withheld from one waiter for ever, and a
\* result is destroyed at the end of the request that asked for it.
CallProgress(th) ==
    \/ LockKey(th) \/ ApplyToValues(th)
    \/ WaitForMapLock(th) \/ IndexDeletedValues(th)
    \/ ReadKey(th) \/ DestroyResult(th)
    \/ VisitKey(th) \/ EraseValues(th)

FairSpec == Spec /\ \A th \in Threads : SF_vars(CallProgress(th))

-----------------------------------------------------------------------------
\* The refinement mapping.  A mutation counts from the moment it gets its key
\* lock: no reader can look at the key before the loop has run.  A clean-up
\* counts from the moment it has the map lock: no mutation can be admitted
\* before it has raised the cutoff.
SettledValues(k) ==
    IF k \notin DOMAIN set_map THEN [v \in {} |-> [last |-> 0, is_deleted |-> FALSE]]
    ELSE IF key_lock[k].writer = NONE THEN set_map[k]
    ELSE LET c == call[key_lock[k].writer]
         IN  Mutated(k, c.values, c.time, c.deleting)

SettledCutoff ==
    LET th == map_lock.writer IN
    IF /\ th # NONE /\ call[th].pc \in {"visit", "erase"}
       /\ call[th].time > cutoff
    THEN call[th].time ELSE cutoff

Visible(k, v) == /\ v \in DOMAIN SettledValues(k)
                 /\ ~SettledValues(k)[v].is_deleted

Horizon(k, v) ==
    IF v \in DOMAIN SettledValues(k) /\ SettledValues(k)[v].last > SettledCutoff
    THEN SettledValues(k)[v].last ELSE SettledCutoff

Lww == INSTANCE LastWriterWins
       WITH Items <- Keys \X Values, Contents <- {TRUE}, NULL <- FALSE,
            visible <- [i \in Keys \X Values |-> Visible(i[1], i[2])],
            horizon <- [i \in Keys \X Values |-> Horizon(i[1], i[2])]

-----------------------------------------------------------------------------
\* Every variable has the shape the C++ declarations give it.
TypeOK ==
    /\ DOMAIN set_map \subseteq Keys
    /\ \A k \in DOMAIN set_map :
          /\ DOMAIN set_map[k] \subseteq Values
          /\ \A v \in DOMAIN set_map[k] : set_map[k][v] \in Meta
    /\ deleted_set_nodes \subseteq Int \X Keys \X Values
    /\ cutoff \in Int
    /\ map_lock \in Lock
    /\ key_lock \in [Keys -> Lock]
    /\ call \in [Threads -> Call]
    /\ DOMAIN result = Threads
    /\ \A th \in Threads :
          /\ DOMAIN result[th] \subseteq Keys
          /\ \A k \in DOMAIN result[th] : result[th][k] \subseteq Values

Writes(th, k) == call[th].pc \in {"apply", "erase"} /\ call[th].key = k

\* While a thread changes the values of a key, under the key lock or in a
\* clean-up that has already let the key lock go, no other thread changes
\* them or holds views of them.
NoRaceOnValues ==
    \A k \in Keys : \A th, other \in Threads :
        Writes(th, k) /\ other # th =>
            ~Writes(other, k) /\ k \notin DOMAIN result[other]

\* existing_value_set and the mutexes of read_locks_ point into an entry of
\* the map: a clean-up never erases the key of a mutation that is past its
\* map lock, and the views of an undestroyed result are the key's values.
PointersStayValid ==
    \A th \in Threads :
        /\ call[th].pc \in {"lock_key", "apply", "erase"} =>
              call[th].key \in DOMAIN set_map
        /\ \A k \in DOMAIN result[th] :
              k \in DOMAIN set_map /\ result[th][k] = LiveValues(k)

\* Every deleted value is in deleted_set_nodes_ under its commit time, or the
\* thread that deleted it is about to put it there: a clean-up that runs in
\* the gap of DeleteValuesInSet does not lose the tombstone for ever.
DeletedValuesIndexed ==
    \A k \in DOMAIN set_map : \A v \in DOMAIN set_map[k] :
        set_map[k][v].is_deleted =>
            \/ <<set_map[k][v].last, k, v>> \in deleted_set_nodes
            \/ \E th \in Mutators :
                  /\ call[th].pc \in {"index", "index_waiting"}
                  /\ call[th].key = k /\ v \in call[th].values
                  /\ call[th].time = set_map[k][v].last

\* For every (key, value) pair the set map is a last-writer-wins store, and a
\* mutation or a clean-up is atomic to the readers, although neither holds
\* one lock throughout.
SetRefinesLastWriterWins == Lww!LwwSpec

\* Every call that got its first lock returns: no cycle of threads waits for
\* each other's map and key locks (key_value_cache.cc:269).  A thread is idle
\* again and again if and only if each call that it begins returns.
CallsReturn ==
    \A th \in Threads : []<>(call[th].pc = "idle")
=============================================================================
