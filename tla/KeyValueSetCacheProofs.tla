----------------------- MODULE KeyValueSetCacheProofs -----------------------
(***************************************************************************)
(* Proofs about KeyValueSetCache, for every set of keys, values, commit    *)
(* times and threads: who holds which lock at which point of a call.       *)
(*                                                                         *)
(* LocksInv is inductive by itself and gives the type invariant and the    *)
(* absence of races.  The other proofs stand on it: what a clean-up may    *)
(* erase and forget is in KeyValueSetCleanUpProofs, the refinement of      *)
(* LastWriterWins in KeyValueSetRefinement.                                *)
(*                                                                         *)
(* Each action with several outcomes has an operator XStep that states its *)
(* effect variable by variable, and a lemma that the action has it.        *)
(***************************************************************************)
EXTENDS KeyValueSetCache, TLAPS

\* The map lock is held by exactly the calls that are between taking and
\* releasing it, and by readers or one writer.
MapLockInv ==
    /\ \A th \in Threads :
          /\ map_lock.writer = th <=> call[th].pc \in {"lock_key", "visit", "erase"}
          /\ th \in map_lock.readers <=> call[th].pc = "read"
    /\ map_lock.writer # NONE => map_lock.readers = {}

\* A key lock is held by the mutation that applies to the key, or by the
\* results that hold views of its values.
KeyLockInv ==
    \A k \in Keys :
        /\ \A th \in Threads :
              /\ key_lock[k].writer = th <=> call[th].pc = "apply" /\ call[th].key = k
              /\ th \in key_lock[k].readers <=> k \in DOMAIN result[th]
        /\ key_lock[k].writer # NONE => key_lock[k].readers = {}

\* What a call relies on between its steps: its key, the cutoff it was
\* admitted under, and that a key that was touched is not locked again.
CallInv ==
    /\ cutoff >= 0
    /\ \A th \in Threads :
          /\ call[th].pc \notin {"idle", "holding"} => call[th].key \in Keys
          /\ call[th].pc \notin {"read", "holding"} => DOMAIN result[th] = {}
          /\ call[th].pc = "lock_key" =>
                call[th].time \in Times /\ call[th].time > cutoff
          /\ call[th].pc = "erase" => /\ key_lock[call[th].key].writer = NONE
                                      /\ key_lock[call[th].key].readers = {}
          /\ call[th].pc \in {"lock_key", "apply", "erase"} =>
                call[th].key \in DOMAIN set_map

LocksInv == TypeOK /\ MapLockInv /\ KeyLockInv /\ CallInv

-----------------------------------------------------------------------------
\* The calls of lookups and clean-ups have their type.
LEMMA AtType ==
    ASSUME NEW k \in Keys \cup {NONE}, NEW t \in Int, NEW S \in SUBSET Keys,
           NEW pc \in {"idle", "read", "holding", "visit"}
    PROVE  At(pc, k, t, S) \in Call
  BY DEF At, Call

\* The constant locks and the idle call have their types.
LEMMA ConstantTypes ==
    /\ Unlocked \in Lock
    /\ \A th \in Threads : LockedBy(th) \in Lock
    /\ Idle \in Call
  BY AtType DEF Unlocked, LockedBy, Lock, Idle

\* No call is under way at first.
LEMMA InitLocks == Init => LocksInv
  BY SetCacheAssumption DEF Init, LocksInv, TypeOK, MapLockInv, KeyLockInv, CallInv,
     InitialCutoff, Lock, Unlocked, Call, Idle, At, NoResult, Threads

\* A mutation inserts a key that was not there, under the map lock.
InsertStep(deleting, k, S, t) ==
    /\ map_lock = Unlocked /\ t > cutoff /\ k \notin DOMAIN set_map
    /\ set_map' = [x \in DOMAIN set_map \cup {k} |->
                      IF x = k
                      THEN [v \in S |-> [last |-> t, is_deleted |-> deleting]]
                      ELSE set_map[x]]
    /\ deleted_set_nodes' = IF deleting
                            THEN deleted_set_nodes \cup Nodes(k, S, t)
                            ELSE deleted_set_nodes
    /\ UNCHANGED <<cutoff, map_lock, key_lock, call, result>>

\* A mutation of a key that is there keeps the map lock and goes for the key's.
AwaitKeyStep(th, deleting, k, S, t) ==
    /\ map_lock = Unlocked /\ call[th].pc = "idle"
    /\ t > cutoff /\ k \in DOMAIN set_map
    /\ HoldMapLock(th)
    /\ call' = [call EXCEPT ![th] =
                   [pc |-> "lock_key", deleting |-> deleting, key |-> k,
                    values |-> S, time |-> t, todo |-> {}]]
    /\ UNCHANGED <<set_map, deleted_set_nodes, cutoff>>
    /\ UNCHANGED <<key_lock, result>>

\* BeginMutation does one of these, or nothing.
LEMMA BeginEffect ==
    ASSUME NEW th, NEW deleting, NEW k, NEW S, NEW t, BeginMutation(th, deleting, k, S, t)
    PROVE  \/ UNCHANGED vars
           \/ InsertStep(deleting, k, S, t)
           \/ AwaitKeyStep(th, deleting, k, S, t)
  BY Zenon DEF BeginMutation, InsertStep, AwaitKeyStep, shared

\* The part of a mutation under the map lock keeps locks and calls in step.
LEMMA BeginLocks ==
    ASSUME LocksInv, NEW th \in Mutators, NEW deleting \in BOOLEAN, NEW k \in Keys,
           NEW S \in SUBSET Values, NEW t \in Times, BeginMutation(th, deleting, k, S, t)
    PROVE  LocksInv'
  <1>1. t \in Int /\ cutoff \in Int /\ th \in Threads /\ NONE \notin Threads
    BY SetCacheAssumption DEF Threads, LocksInv, TypeOK
  <1>2. CASE UNCHANGED vars
    <2>1. TypeOK'
      BY <1>2 DEF vars, LocksInv, TypeOK
    <2>2. MapLockInv' /\ KeyLockInv'
      BY <1>2 DEF vars, LocksInv, MapLockInv, KeyLockInv
    <2>3. CallInv'
      BY <1>2 DEF vars, LocksInv, CallInv
    <2>4. QED
      BY <2>1, <2>2, <2>3 DEF LocksInv
  <1>3. CASE InsertStep(deleting, k, S, t)
    <2>1. TypeOK'
      BY <1>1, <1>3 DEF InsertStep, LocksInv, TypeOK, Meta, Nodes
    <2>2. MapLockInv' /\ KeyLockInv'
      BY <1>3 DEF InsertStep, LocksInv, MapLockInv, KeyLockInv
    <2>3. CallInv'
      BY <1>3 DEF InsertStep, LocksInv, CallInv
    <2>4. QED
      BY <2>1, <2>2, <2>3 DEF LocksInv
  <1>4. CASE AwaitKeyStep(th, deleting, k, S, t)
    <2>1. /\ map_lock = Unlocked /\ call[th].pc = "idle"
          /\ map_lock' = LockedBy(th) /\ k \in DOMAIN set_map
          /\ call' = [call EXCEPT ![th] =
                         [pc |-> "lock_key", deleting |-> deleting, key |-> k,
                          values |-> S, time |-> t, todo |-> {}]]
          /\ UNCHANGED <<set_map, deleted_set_nodes, cutoff, key_lock, result>>
      BY <1>4 DEF AwaitKeyStep, HoldMapLock
    <2>2. /\ call' \in [Threads -> Call]
          /\ call'[th].pc = "lock_key" /\ call'[th].key = k /\ call'[th].time = t
          /\ \A x \in Threads : x # th => call'[x] = call[x]
      BY <1>1, <2>1 DEF LocksInv, TypeOK, Call
    <2>3. TypeOK'
      BY <1>1, <2>1, <2>2, ConstantTypes DEF LocksInv, TypeOK
    <2>4. MapLockInv'
      BY <1>1, <2>1, <2>2 DEF LocksInv, MapLockInv, LockedBy, Unlocked
    <2>5. KeyLockInv'
      BY <1>1, <2>1, <2>2 DEF LocksInv, KeyLockInv
    <2>6. CallInv'
      BY <1>1, <1>4, <2>1, <2>2 DEF AwaitKeyStep, LocksInv, CallInv
    <2>7. QED
      BY <2>3, <2>4, <2>5, <2>6 DEF LocksInv
  <1>5. QED
    BY <1>2, <1>3, <1>4, BeginEffect

\* So does trading the map lock for the key lock.
LEMMA LockKeyLocks ==
    ASSUME LocksInv, NEW th \in Mutators, LockKey(th)
    PROVE  LocksInv'
  <1>1. th \in Threads /\ NONE \notin Threads
    BY SetCacheAssumption DEF Threads
  <1>2. /\ call[th].pc = "lock_key" /\ call[th].key \in Keys
        /\ key_lock[call[th].key] = Unlocked
        /\ key_lock' = [key_lock EXCEPT ![call[th].key] = LockedBy(th)]
        /\ map_lock' = Unlocked /\ map_lock.writer = th
        /\ call' = [call EXCEPT ![th].pc = "apply"]
        /\ UNCHANGED <<shared, result>>
    BY <1>1 DEF LockKey, LocksInv, CallInv, MapLockInv
  <1>3. TypeOK'
    <2>1. key_lock' \in [Keys -> Lock] /\ map_lock' \in Lock
      BY <1>1, <1>2, ConstantTypes DEF LocksInv, TypeOK
    <2>2. call' \in [Threads -> Call]
      BY SMTT(30), <1>1, <1>2 DEF LocksInv, TypeOK, Call
    <2>3. QED
      BY <1>2, <2>1, <2>2 DEF LocksInv, TypeOK, shared
  <1>4. MapLockInv'
    BY <1>1, <1>2 DEF LocksInv, TypeOK, MapLockInv, Unlocked
  <1>5. KeyLockInv'
    BY <1>1, <1>2 DEF LocksInv, TypeOK, KeyLockInv, LockedBy, Unlocked
  <1>6. CallInv'
    BY <1>1, <1>2 DEF LocksInv, TypeOK, MapLockInv, CallInv, shared
  <1>7. QED
    BY <1>3, <1>4, <1>5, <1>6 DEF LocksInv

\* What the loop over the values of one key does.
ApplyStep(th) ==
    LET c == call[th] IN
    /\ c.pc = "apply" /\ c.key \in Keys /\ c.key \in DOMAIN set_map
    /\ c.values \in SUBSET Values /\ c.time \in Int /\ c.deleting \in BOOLEAN
    /\ set_map' = [set_map EXCEPT ![c.key] =
                      Mutated(c.key, c.values, c.time, c.deleting)]
    /\ key_lock[c.key].writer = th /\ key_lock[c.key].readers = {}
    /\ key_lock' = [key_lock EXCEPT ![c.key] = Unlocked]
    /\ call' \in [Threads -> Call]
    /\ \A x \in Threads : x # th => call'[x] = call[x]
    /\ \/ /\ HasToIndex(th)
          /\ call'[th].pc = "index"
          /\ call'[th].key = c.key /\ call'[th].time = c.time
          /\ call'[th].values = Newer(c.key, c.values, c.time)
       \/ ~HasToIndex(th) /\ call'[th].pc = "idle"
    /\ UNCHANGED <<deleted_set_nodes, cutoff, map_lock, result>>

\* ApplyToValues does just that.
LEMMA ApplyEffect ==
    ASSUME LocksInv, NEW th \in Mutators, ApplyToValues(th)
    PROVE  ApplyStep(th)
  <1> DEFINE c == call[th]
  <1>1. th \in Threads /\ NONE \notin Threads
    BY SetCacheAssumption DEF Threads
  <1>2. /\ c.pc = "apply" /\ c.key \in Keys /\ c.key \in DOMAIN set_map /\ c \in Call
        /\ set_map' = [set_map EXCEPT ![c.key] =
                          Mutated(c.key, c.values, c.time, c.deleting)]
        /\ key_lock[c.key].writer = th /\ key_lock[c.key].readers = {}
        /\ key_lock' = [key_lock EXCEPT ![c.key] = Unlocked]
        /\ UNCHANGED <<deleted_set_nodes, cutoff, map_lock, result>>
    BY <1>1 DEF ApplyToValues, ReleaseKeyLock, LocksInv, CallInv, KeyLockInv, TypeOK
  <1>3. c.values \in SUBSET Values /\ c.time \in Int /\ c.deleting \in BOOLEAN
    BY <1>2 DEF Call
  <1>4. CASE HasToIndex(th)
    <2>1. call' = [call EXCEPT ![th].pc = "index",
                               ![th].values = Newer(c.key, @, c.time)]
      BY <1>4 DEF ApplyToValues
    <2>2. Newer(c.key, c.values, c.time) \subseteq Values
      BY <1>3 DEF Newer
    <2>3. /\ call' \in [Threads -> Call]
          /\ \A x \in Threads : x # th => call'[x] = call[x]
          /\ call'[th].pc = "index"
          /\ call'[th].key = c.key /\ call'[th].time = c.time
          /\ call'[th].values = Newer(c.key, c.values, c.time)
      BY ZenonT(30), <1>1, <1>2, <2>1, <2>2 DEF LocksInv, TypeOK, Call
    <2>4. QED
      BY <1>2, <1>3, <1>4, <2>3 DEF ApplyStep
  <1>5. CASE ~HasToIndex(th)
    <2>1. call' = [call EXCEPT ![th] = Idle]
      BY <1>5 DEF ApplyToValues, Return
    <2>2. /\ call' \in [Threads -> Call]
          /\ \A x \in Threads : x # th => call'[x] = call[x]
          /\ call'[th].pc = "idle"
      BY <1>1, <2>1, ConstantTypes DEF Idle, At, LocksInv, TypeOK
    <2>3. QED
      BY <1>2, <1>3, <1>5, <2>2 DEF ApplyStep
  <1>6. QED
    BY <1>4, <1>5

\* The loop over the values and the release of the key lock keep the invariant.
LEMMA ApplyLocks ==
    ASSUME LocksInv, NEW th \in Mutators, ApplyToValues(th)
    PROVE  LocksInv'
  <1> DEFINE c == call[th]
  <1>1. th \in Threads /\ NONE \notin Threads /\ ApplyStep(th)
    BY SetCacheAssumption, ApplyEffect DEF Threads
  <1>2. TypeOK'
    <2>1. \A v \in DOMAIN set_map[c.key] \cup c.values : MetaOf(c.key, v) \in Meta
      BY <1>1 DEF ApplyStep, LocksInv, TypeOK, Meta, MetaOf
    <2>2. /\ DOMAIN set_map'[c.key] \subseteq Values
          /\ \A v \in DOMAIN set_map'[c.key] : set_map'[c.key][v] \in Meta
      BY <1>1, <2>1 DEF ApplyStep, Mutated, LocksInv, TypeOK, Meta
    <2>3. /\ DOMAIN set_map' \subseteq Keys
          /\ \A k \in DOMAIN set_map' :
                /\ DOMAIN set_map'[k] \subseteq Values
                /\ \A v \in DOMAIN set_map'[k] : set_map'[k][v] \in Meta
      <3>1. /\ DOMAIN set_map' = DOMAIN set_map
            /\ \A k \in DOMAIN set_map : k # c.key => set_map'[k] = set_map[k]
        BY <1>1 DEF ApplyStep
      <3>2. /\ DOMAIN set_map \subseteq Keys
            /\ \A k \in DOMAIN set_map :
                  /\ DOMAIN set_map[k] \subseteq Values
                  /\ \A v \in DOMAIN set_map[k] : set_map[k][v] \in Meta
        BY Zenon DEF LocksInv, TypeOK
      <3>3. QED
        BY <2>2, <3>1, <3>2
    <2>4. key_lock' \in [Keys -> Lock]
      BY <1>1, ConstantTypes DEF ApplyStep, LocksInv, TypeOK
    <2>5. QED
      BY <1>1, <2>3, <2>4 DEF ApplyStep, LocksInv, TypeOK
  <1>3. MapLockInv'
    <2>1. /\ \A x \in Threads : x # th => call'[x] = call[x]
          /\ c.pc = "apply" /\ call'[th].pc \in {"idle", "index"} /\ UNCHANGED map_lock
      BY <1>1 DEF ApplyStep
    <2>2. MapLockInv
      BY DEF LocksInv
    <2>3. QED
      BY <1>1, <2>1, <2>2 DEF MapLockInv
  <1>4. KeyLockInv'
    <2>1. /\ \A x \in Threads : x # th => call'[x] = call[x]
          /\ c.pc = "apply" /\ c.key \in Keys
          /\ call'[th].pc # "apply" /\ UNCHANGED result
      BY <1>1 DEF ApplyStep
    <2>2. /\ key_lock'[c.key] = Unlocked
          /\ key_lock[c.key].writer = th /\ key_lock[c.key].readers = {}
          /\ \A k \in Keys : k # c.key => key_lock'[k] = key_lock[k]
      BY <1>1 DEF ApplyStep, LocksInv, TypeOK
    <2>3. KeyLockInv
      BY DEF LocksInv
    <2>4. QED
      BY <1>1, <2>1, <2>2, <2>3 DEF KeyLockInv, Unlocked
  <1>5. CallInv'
    <2>1. /\ \A x \in Threads : x # th => call'[x] = call[x]
          /\ c.pc = "apply" /\ c.key \in Keys
          /\ \/ call'[th].pc = "idle"
             \/ call'[th].pc = "index" /\ call'[th].key = c.key
          /\ UNCHANGED <<cutoff, result>>
      BY <1>1 DEF ApplyStep
    <2>2. DOMAIN set_map' = DOMAIN set_map
      BY <1>1 DEF ApplyStep
    <2>3. \A k \in Keys : key_lock'[k] = key_lock[k] \/ key_lock'[k] = Unlocked
      BY <1>1 DEF ApplyStep, LocksInv, TypeOK
    <2>4. CallInv
      BY DEF LocksInv
    <2>5. \A k \in Keys : key_lock[k].writer = NONE /\ key_lock[k].readers = {} =>
             key_lock'[k].writer = NONE /\ key_lock'[k].readers = {}
      BY <2>3 DEF Unlocked
    <2>6. QED
      BY <2>1, <2>2, <2>4, <2>5 DEF CallInv
  <1>6. QED
    BY <1>2, <1>3, <1>4, <1>5 DEF LocksInv

\* A deletion that has to wait for the map lock keeps it.
LEMMA WaitLocks ==
    ASSUME LocksInv, NEW th \in Mutators, WaitForMapLock(th)
    PROVE  LocksInv'
  <1>1. th \in Threads
    BY DEF Threads
  <1>2. /\ call[th].pc = "index"
        /\ call' = [call EXCEPT ![th].pc = "index_waiting"]
        /\ UNCHANGED <<set_map, deleted_set_nodes, cutoff, map_lock, key_lock, result>>
    BY DEF WaitForMapLock, shared
  <1>3. TypeOK'
    BY <1>1, <1>2 DEF LocksInv, TypeOK, Call
  <1>4. MapLockInv' /\ KeyLockInv'
    BY <1>1, <1>2 DEF LocksInv, TypeOK, MapLockInv, KeyLockInv
  <1>5. CallInv'
    BY <1>1, <1>2 DEF LocksInv, TypeOK, CallInv
  <1>6. QED
    BY <1>3, <1>4, <1>5 DEF LocksInv

\* Indexing the deleted values keeps it.
LEMMA IndexLocks ==
    ASSUME LocksInv, NEW th \in Mutators, IndexDeletedValues(th)
    PROVE  LocksInv'
  <1>1. th \in Threads
    BY DEF Threads
  <1>2. /\ call[th].pc \in {"index", "index_waiting"}
        /\ deleted_set_nodes' = deleted_set_nodes
              \cup Nodes(call[th].key, call[th].values, call[th].time)
        /\ call' = [call EXCEPT ![th] = Idle]
        /\ UNCHANGED <<set_map, cutoff, map_lock, key_lock, result>>
    BY DEF IndexDeletedValues, Return
  <1>3. TypeOK'
    <2>1. call[th].key \in Keys /\ call[th] \in Call
      BY <1>1, <1>2 DEF LocksInv, CallInv, TypeOK
    <2>2. Nodes(call[th].key, call[th].values, call[th].time) \subseteq Int \X Keys \X Values
      BY <2>1 DEF Nodes, Call
    <2>3. QED
      BY <1>1, <1>2, <2>2 DEF LocksInv, TypeOK, Call, Idle, At
  <1>4. /\ call'[th].pc = "idle"
        /\ \A x \in Threads : x # th => call'[x] = call[x]
    BY <1>1, <1>2 DEF LocksInv, TypeOK, Idle, At
  <1>5. MapLockInv'
    BY <1>1, <1>2, <1>4 DEF LocksInv, MapLockInv
  <1>6. KeyLockInv'
    BY <1>1, <1>2, <1>4 DEF LocksInv, KeyLockInv
  <1>7. CallInv'
    BY <1>1, <1>2, <1>4 DEF LocksInv, CallInv
  <1>8. QED
    BY <1>3, <1>5, <1>6, <1>7 DEF LocksInv

\* A lookup that gets the map's read lock keeps it.
LEMMA GetLocks ==
    ASSUME LocksInv, NEW th \in Readers, NEW rest \in SUBSET Keys, NEW first \in rest,
           GetKeyValueSet(th, first, rest)
    PROVE  LocksInv'
  <1>1. th \in Threads /\ NONE \notin Threads
    BY SetCacheAssumption DEF Threads
  <1>2. /\ call[th].pc = "idle" /\ map_lock.writer = NONE
        /\ map_lock' = [map_lock EXCEPT !.readers = @ \cup {th}]
        /\ call' = [call EXCEPT ![th] = At("read", first, 0, rest \ {first})]
        /\ UNCHANGED <<set_map, deleted_set_nodes, cutoff, key_lock, result>>
    BY DEF GetKeyValueSet, shared
  <1>3. /\ call'[th].pc = "read" /\ call'[th].key = first
        /\ call' \in [Threads -> Call]
        /\ \A x \in Threads : x # th => call'[x] = call[x]
    <2>1. At("read", first, 0, rest \ {first}) \in Call
      BY AtType
    <2>2. QED
      BY <1>1, <1>2, <2>1 DEF LocksInv, TypeOK, At
  <1>4. TypeOK'
    BY <1>1, <1>2, <1>3 DEF LocksInv, TypeOK, Lock
  <1>5. MapLockInv'
    BY <1>1, <1>2, <1>3 DEF LocksInv, TypeOK, MapLockInv, Lock
  <1>6. KeyLockInv'
    BY <1>1, <1>2, <1>3 DEF LocksInv, TypeOK, KeyLockInv
  <1>7. CallInv'
    BY <1>1, <1>2, <1>3 DEF LocksInv, TypeOK, CallInv
  <1>8. QED
    BY <1>4, <1>5, <1>6, <1>7 DEF LocksInv

\* A reader's step on one key, as the locks and the result see it.
ReadStep(th) ==
    LET k == call[th].key IN
    /\ call[th].pc = "read" /\ k \in Keys
    /\ call' \in [Threads -> Call]
    /\ \A x \in Threads : x # th => call'[x] = call[x] /\ result'[x] = result[x]
    /\ \/ /\ call'[th].pc = "holding"
          /\ map_lock' = [map_lock EXCEPT !.readers = @ \ {th}]
       \/ /\ call'[th].pc = "read" /\ call'[th].key \in Keys
          /\ map_lock' = map_lock
    /\ DOMAIN result' = Threads
    /\ \/ k \notin DOMAIN set_map /\ UNCHANGED <<key_lock, result>>
       \/ /\ k \in DOMAIN set_map /\ key_lock[k].writer = NONE
          /\ key_lock' = [key_lock EXCEPT ![k].readers = @ \cup {th}]
          /\ DOMAIN result'[th] = DOMAIN result[th] \cup {k}
          /\ result'[th][k] = LiveValues(k)
          /\ \A x \in DOMAIN result[th] : x # k => result'[th][x] = result[th][x]
    /\ UNCHANGED <<set_map, deleted_set_nodes, cutoff>>

\* ReadKey does just that.
LEMMA ReadKeyEffect ==
    ASSUME LocksInv, NEW th \in Readers, ReadKey(th)
    PROVE  ReadStep(th)
  <1>1. th \in Threads
    BY DEF Threads
  <1>2. call[th].pc = "read" /\ call[th].key \in Keys /\ call[th] \in Call
    BY <1>1 DEF ReadKey, LocksInv, TypeOK, CallInv
  <1>3. /\ call' \in [Threads -> Call]
        /\ \A x \in Threads : x # th => call'[x] = call[x]
        /\ \/ /\ call'[th].pc = "holding"
              /\ map_lock' = [map_lock EXCEPT !.readers = @ \ {th}]
           \/ /\ call'[th].pc = "read" /\ call'[th].key \in Keys
              /\ map_lock' = map_lock
    <2>1. CASE call[th].todo = {}
      <3>1. /\ call' = [call EXCEPT ![th] = At("holding", NONE, 0, {})]
            /\ map_lock' = [map_lock EXCEPT !.readers = @ \ {th}]
        BY <2>1 DEF ReadKey
      <3>2. At("holding", NONE, 0, {}) \in Call
        BY AtType
      <3>3. QED
        BY <1>1, <3>1, <3>2 DEF LocksInv, TypeOK, At
    <2>2. CASE call[th].todo # {}
      <3>1. PICK next \in call[th].todo :
               call' = [call EXCEPT ![th].key = next, ![th].todo = @ \ {next}]
        BY <2>2 DEF ReadKey
      <3>2. map_lock' = map_lock /\ next \in Keys
        BY <1>2, <2>2, <3>1 DEF ReadKey, Call
      <3>3. QED
        BY <1>1, <1>2, <3>1, <3>2 DEF LocksInv, TypeOK, Call
    <2>3. QED
      BY <2>1, <2>2
  <1>4. CASE call[th].key \in DOMAIN set_map
    <2>1. /\ key_lock[call[th].key].writer = NONE
          /\ key_lock' = [key_lock EXCEPT ![call[th].key].readers = @ \cup {th}]
          /\ result' = [result EXCEPT ![th] =
                           [x \in DOMAIN @ \cup {call[th].key} |->
                               IF x = call[th].key THEN LiveValues(call[th].key) ELSE @[x]]]
          /\ UNCHANGED <<set_map, deleted_set_nodes, cutoff>>
      BY <1>4 DEF ReadKey, shared
    <2>2. /\ DOMAIN result' = Threads
          /\ \A x \in Threads : x # th => result'[x] = result[x]
          /\ DOMAIN result'[th] = DOMAIN result[th] \cup {call[th].key}
          /\ result'[th][call[th].key] = LiveValues(call[th].key)
          /\ \A x \in DOMAIN result[th] :
                x # call[th].key => result'[th][x] = result[th][x]
      BY <1>1, <2>1 DEF LocksInv, TypeOK
    <2>3. QED
      BY <1>1, <1>2, <1>3, <1>4, <2>1, <2>2 DEF ReadStep
  <1>5. CASE call[th].key \notin DOMAIN set_map
    <2>1. UNCHANGED <<key_lock, result, set_map, deleted_set_nodes, cutoff>>
      BY <1>5 DEF ReadKey, shared
    <2>2. DOMAIN result' = Threads
      BY <2>1 DEF LocksInv, TypeOK
    <2>3. QED
      BY <1>1, <1>2, <1>3, <1>5, <2>1, <2>2 DEF ReadStep
  <1>6. QED
    BY <1>4, <1>5

\* Reading a key, with or without releasing the map lock, keeps the invariant.
LEMMA ReadLocks ==
    ASSUME LocksInv, NEW th \in Readers, ReadKey(th)
    PROVE  LocksInv'
  <1>1. th \in Threads /\ NONE \notin Threads /\ ReadStep(th)
    BY SetCacheAssumption, ReadKeyEffect DEF Threads
  <1>2. TypeOK'
    <2>1. key_lock' \in [Keys -> Lock] /\ map_lock' \in Lock
      BY <1>1 DEF ReadStep, LocksInv, TypeOK, Lock
    <2>2. \A x \in Threads : /\ DOMAIN result'[x] \subseteq Keys
                             /\ \A k \in DOMAIN result'[x] : result'[x][k] \subseteq Values
      BY <1>1 DEF ReadStep, LocksInv, TypeOK, LiveValues
    <2>3. QED
      BY <1>1, <2>1, <2>2 DEF ReadStep, LocksInv, TypeOK
  <1>3. MapLockInv'
    BY <1>1 DEF ReadStep, LocksInv, TypeOK, MapLockInv, Lock
  <1>4. KeyLockInv'
    <2>a. /\ \A x \in Threads : x # th => call'[x] = call[x] /\ result'[x] = result[x]
          /\ call[th].pc # "apply" /\ call'[th].pc # "apply"
      BY <1>1 DEF ReadStep
    <2>b. KeyLockInv
      BY DEF LocksInv
    <2>1. CASE UNCHANGED <<key_lock, result>>
      BY <1>1, <2>a, <2>b, <2>1 DEF KeyLockInv
    <2>2. CASE ~UNCHANGED <<key_lock, result>>
      <3> DEFINE k == call[th].key
      <3>1. /\ key_lock[k].writer = NONE /\ k \in Keys
            /\ key_lock' = [key_lock EXCEPT ![k].readers = @ \cup {th}]
            /\ DOMAIN result'[th] = DOMAIN result[th] \cup {k}
        BY <2>2, <1>1 DEF ReadStep
      <3>2. /\ key_lock'[k].writer = NONE
            /\ key_lock'[k].readers = key_lock[k].readers \cup {th}
            /\ \A x \in Keys : x # k => key_lock'[x] = key_lock[x]
        BY <3>1 DEF LocksInv, TypeOK, Lock
      <3> QED
        BY <1>1, <2>a, <2>b, <3>1, <3>2 DEF KeyLockInv
    <2>3. QED
      BY <2>1, <2>2
  <1>5. CallInv'
    <2>1. /\ \A x \in Threads : x # th => call'[x] = call[x] /\ result'[x] = result[x]
          /\ call[th].pc = "read"
          /\ call'[th].pc = "holding" \/ (call'[th].pc = "read" /\ call'[th].key \in Keys)
          /\ UNCHANGED <<set_map, cutoff>>
      BY <1>1 DEF ReadStep
    <2>2. \A x \in Threads : call[x].pc # "erase"
      <3>1. MapLockInv
        BY DEF LocksInv
      <3>2. QED
        BY <1>1, <2>1, <3>1 DEF MapLockInv
    <2>3. CallInv
      BY DEF LocksInv
    <2>4. QED
      BY <2>1, <2>2, <2>3 DEF CallInv
  <1>6. QED
    BY <1>2, <1>3, <1>4, <1>5 DEF LocksInv

\* Destroying a result releases the read locks of exactly that result.
LEMMA DestroyLocks ==
    ASSUME LocksInv, NEW th \in Readers, DestroyResult(th)
    PROVE  LocksInv'
  <1>1. th \in Threads /\ NONE \notin Threads
    BY SetCacheAssumption DEF Threads
  <1>2. /\ call[th].pc = "holding"
        /\ key_lock' = [k \in Keys |-> [key_lock[k] EXCEPT !.readers = @ \ {th}]]
        /\ result' = [result EXCEPT ![th] = NoResult]
        /\ call' = [call EXCEPT ![th] = Idle]
        /\ UNCHANGED <<set_map, deleted_set_nodes, cutoff, map_lock>>
    BY DEF DestroyResult, Return, shared
  <1>3. /\ call'[th].pc = "idle" /\ call' \in [Threads -> Call]
        /\ \A x \in Threads : x # th => call'[x] = call[x] /\ result'[x] = result[x]
        /\ DOMAIN result'[th] = {} /\ DOMAIN result' = Threads
    BY <1>1, <1>2, ConstantTypes DEF LocksInv, TypeOK, Idle, At, NoResult
  <1>4. \A k \in Keys : /\ key_lock'[k] \in Lock
                        /\ key_lock'[k].writer = key_lock[k].writer
                        /\ key_lock'[k].readers = key_lock[k].readers \ {th}
    BY <1>1, <1>2 DEF LocksInv, TypeOK, Lock
  <1>5. TypeOK'
    BY <1>1, <1>2, <1>3, <1>4 DEF LocksInv, TypeOK
  <1>6. MapLockInv'
    BY <1>1, <1>2, <1>3 DEF LocksInv, TypeOK, MapLockInv
  <1>7. KeyLockInv'
    <2> SUFFICES ASSUME NEW k \in Keys, NEW x \in Threads
                 PROVE  /\ key_lock'[k].writer = x <=> call'[x].pc = "apply" /\ call'[x].key = k
                        /\ x \in key_lock'[k].readers <=> k \in DOMAIN result'[x]
                        /\ key_lock'[k].writer # NONE => key_lock'[k].readers = {}
      BY <1>4 DEF KeyLockInv, LocksInv
    <2>1. CASE x = th
      BY <1>2, <1>3, <1>4, <2>1 DEF LocksInv, KeyLockInv
    <2>2. CASE x # th
      BY <1>3, <1>4, <2>2 DEF LocksInv, KeyLockInv
    <2>3. QED
      BY <2>1, <2>2
  <1>8. CallInv'
    <2>1. \A x \in Threads : x # th /\ call[x].pc = "erase" =>
             /\ key_lock'[call[x].key].writer = NONE
             /\ key_lock'[call[x].key].readers = {}
      BY <1>4 DEF LocksInv, CallInv
    <2>2. UNCHANGED <<set_map, cutoff>>
      BY <1>2
    <2>3. QED
      BY <1>1, <1>3, <2>1, <2>2 DEF LocksInv, CallInv
  <1>9. QED
    BY <1>5, <1>6, <1>7, <1>8 DEF LocksInv

\* How a clean-up goes on: to the next key, or to its end.
VisitStep(th, t, todo) ==
    /\ call' \in [Threads -> Call]
    /\ \A x \in Threads : x # th => call'[x] = call[x]
    /\ \/ /\ todo # {}
          /\ call'[th].pc = "visit" /\ call'[th].time = t
          /\ call'[th].key \in todo /\ call'[th].todo = todo \ {call'[th].key}
          /\ map_lock' = LockedBy(th)
          /\ UNCHANGED <<deleted_set_nodes, cutoff>>
       \/ /\ todo = {}
          /\ call'[th].pc = "idle" /\ call'[th].key = NONE
          /\ map_lock' = Unlocked
          /\ deleted_set_nodes' = {node \in deleted_set_nodes : node[1] > t}
          /\ cutoff' = IF cutoff < t THEN t ELSE cutoff

\* VisitNext does just that.
LEMMA VisitNextEffect ==
    ASSUME LocksInv, NEW th \in Threads, NEW t \in Int, NEW todo \in SUBSET Keys,
           VisitNext(th, t, todo)
    PROVE  VisitStep(th, t, todo)
  <1>1. CASE todo # {}
    <2>1. PICK next \in todo :
             call' = [call EXCEPT ![th] = At("visit", next, t, todo \ {next})]
      BY <1>1 DEF VisitNext
    <2>2. map_lock' = LockedBy(th) /\ UNCHANGED <<deleted_set_nodes, cutoff>>
      BY <1>1 DEF VisitNext
    <2>3. At("visit", next, t, todo \ {next}) \in Call
      BY AtType
    <2>4. QED
      BY <1>1, <2>1, <2>2, <2>3 DEF VisitStep, LocksInv, TypeOK, At
  <1>2. CASE todo = {}
    <2>1. /\ call' = [call EXCEPT ![th] = Idle]
          /\ map_lock' = Unlocked
          /\ deleted_set_nodes' = {node \in deleted_set_nodes : node[1] > t}
          /\ cutoff' = IF cutoff < t THEN t ELSE cutoff
      BY <1>2 DEF VisitNext, Return
    <2>2. QED
      BY <1>2, <2>1, ConstantTypes DEF VisitStep, LocksInv, TypeOK, Idle, At
  <1>3. QED
    BY <1>1, <1>2

\* Going on keeps the invariant when th is the only call at the map lock and
\* what it did to the map leaves the keys of mutations in place.
LEMMA VisitStepLocks ==
    ASSUME LocksInv, NEW th \in Threads, NEW t \in Int, NEW todo \in SUBSET Keys,
           VisitStep(th, t, todo), UNCHANGED <<key_lock, result>>,
           call[th].pc \in {"idle", "visit", "erase"},
           \A x \in Threads : x # th =>
               /\ call[x].pc \notin {"lock_key", "visit", "erase", "read"}
               /\ call[x].pc = "apply" => call[x].key \in DOMAIN set_map',
           DOMAIN set_map' \subseteq Keys,
           \A k \in DOMAIN set_map' :
               /\ DOMAIN set_map'[k] \subseteq Values
               /\ \A v \in DOMAIN set_map'[k] : set_map'[k][v] \in Meta
    PROVE  LocksInv'
  <1>1. NONE \notin Threads
    BY SetCacheAssumption
  <1>2. cutoff' \in Int /\ cutoff' >= 0
    BY DEF VisitStep, LocksInv, TypeOK, CallInv
  <1>3. TypeOK'
    <2>1. map_lock' \in Lock
      BY ConstantTypes DEF VisitStep
    <2>2. deleted_set_nodes' \subseteq Int \X Keys \X Values
      BY DEF VisitStep, LocksInv, TypeOK
    <2>3. QED
      BY <1>2, <2>1, <2>2 DEF VisitStep, LocksInv, TypeOK
  <1>4. MapLockInv'
    BY <1>1 DEF VisitStep, MapLockInv, LockedBy, Unlocked
  <1>5. KeyLockInv'
    <2>1. /\ \A x \in Threads : x # th => call'[x] = call[x]
          /\ call'[th].pc # "apply"
      BY DEF VisitStep
    <2>2. KeyLockInv
      BY DEF LocksInv
    <2>3. QED
      BY <2>1, <2>2 DEF KeyLockInv
  <1>6. CallInv'
    <2>1. /\ \A x \in Threads : x # th => call'[x] = call[x]
          /\ \/ call'[th].pc = "visit" /\ call'[th].key \in Keys
             \/ call'[th].pc = "idle"
      BY DEF VisitStep
    <2>2. CallInv
      BY DEF LocksInv
    <2>3. QED
      BY <1>2, <2>1, <2>2 DEF CallInv
  <1>7. QED
    BY <1>3, <1>4, <1>5, <1>6 DEF LocksInv

\* The start of a clean-up keeps the invariant.
LEMMA CleanUpLocks ==
    ASSUME LocksInv, NEW th \in Cleaners, NEW t \in Times, CleanUpKeyValueSetMap(th, t)
    PROVE  LocksInv'
  <1>1. th \in Threads /\ t \in Int /\ IndexedKeys(t) \in SUBSET Keys
    BY SetCacheAssumption DEF Threads, IndexedKeys, LocksInv, TypeOK
  <1>2. /\ call[th].pc = "idle" /\ map_lock = Unlocked
        /\ VisitStep(th, t, IndexedKeys(t))
        /\ UNCHANGED <<set_map, key_lock, result>>
    BY <1>1, VisitNextEffect DEF CleanUpKeyValueSetMap
  <1>3. \A x \in Threads :
           /\ call[x].pc \notin {"lock_key", "visit", "erase", "read"}
           /\ call[x].pc = "apply" => call[x].key \in DOMAIN set_map'
    BY <1>2, SetCacheAssumption DEF LocksInv, MapLockInv, CallInv, Unlocked
  <1>4. QED
    BY <1>1, <1>2, <1>3, VisitStepLocks DEF LocksInv, TypeOK

\* Only the clean-up that holds the map lock is at the map lock.
LEMMA AloneAtMapLock ==
    ASSUME LocksInv, NEW th \in Threads, call[th].pc \in {"lock_key", "visit", "erase"},
           NEW x \in Threads, x # th
    PROVE  call[x].pc \notin {"lock_key", "visit", "erase", "read"}
  BY SetCacheAssumption DEF LocksInv, MapLockInv

\* Touching the key lock of the visited key keeps it.
LEMMA VisitLocks ==
    ASSUME LocksInv, NEW th \in Cleaners, VisitKey(th)
    PROVE  LocksInv'
  <1> DEFINE c == call[th]
  <1>1. /\ th \in Threads /\ NONE \notin Threads
        /\ c.pc = "visit" /\ c \in Call /\ c.key \in Keys
        /\ UNCHANGED <<set_map, key_lock, result>>
    BY SetCacheAssumption DEF Threads, VisitKey, LocksInv, TypeOK, CallInv
  <1>2. \A x \in Threads : x # th => call[x].pc \notin {"lock_key", "visit", "erase", "read"}
    BY <1>1, AloneAtMapLock
  <1>3. CASE c.key \in DOMAIN set_map
    <2>1. /\ key_lock[c.key] = Unlocked
          /\ call' = [call EXCEPT ![th].pc = "erase"]
          /\ UNCHANGED <<deleted_set_nodes, cutoff, map_lock>>
      BY <1>3 DEF VisitKey, KeyLockTouched
    <2>2. TypeOK'
      BY <1>1, <2>1 DEF LocksInv, TypeOK, Call
    <2>3. MapLockInv'
      BY <1>1, <2>1 DEF LocksInv, TypeOK, MapLockInv
    <2>4. KeyLockInv'
      BY <1>1, <2>1 DEF LocksInv, TypeOK, KeyLockInv
    <2>5. CallInv'
      BY <1>1, <1>3, <2>1 DEF LocksInv, TypeOK, CallInv, Unlocked
    <2>6. QED
      BY <2>2, <2>3, <2>4, <2>5 DEF LocksInv
  <1>4. CASE c.key \notin DOMAIN set_map
    <2>1. c.time \in Int /\ c.todo \in SUBSET Keys
      BY <1>1 DEF Call
    <2>2. VisitStep(th, c.time, c.todo)
      BY <1>1, <1>4, <2>1, VisitNextEffect DEF VisitKey
    <2>3. \A x \in Threads : x # th =>
             /\ call[x].pc \notin {"lock_key", "visit", "erase", "read"}
             /\ call[x].pc = "apply" => call[x].key \in DOMAIN set_map'
      BY <1>1, <1>2 DEF LocksInv, CallInv
    <2>4. /\ DOMAIN set_map' \subseteq Keys
          /\ \A k \in DOMAIN set_map' :
                /\ DOMAIN set_map'[k] \subseteq Values
                /\ \A v \in DOMAIN set_map'[k] : set_map'[k][v] \in Meta
      BY <1>1 DEF LocksInv, TypeOK
    <2>5. QED
      BY <1>1, <2>1, <2>2, <2>3, <2>4, VisitStepLocks
  <1>5. QED
    BY <1>3, <1>4

\* What the erasures leave of the map: the key visited loses its reclaimed
\* values, or goes when it has no others.
EraseStep(th) ==
    LET c == call[th]
        left == DOMAIN set_map[c.key] \ Reclaimed(c.key, c.time)
    IN  /\ c.pc = "erase" /\ c.key \in Keys /\ c.key \in DOMAIN set_map
        /\ c.time \in Int /\ c.todo \in SUBSET Keys
        /\ DOMAIN set_map' = IF left = {} THEN DOMAIN set_map \ {c.key}
                                          ELSE DOMAIN set_map
        /\ left # {} => /\ DOMAIN set_map'[c.key] = left
                        /\ \A v \in left : set_map'[c.key][v] = set_map[c.key][v]
        /\ \A k \in DOMAIN set_map : k # c.key => set_map'[k] = set_map[k]
        /\ VisitStep(th, c.time, c.todo)
        /\ UNCHANGED <<key_lock, result>>

\* EraseValues does just that.
LEMMA EraseEffect ==
    ASSUME LocksInv, NEW th \in Cleaners, EraseValues(th)
    PROVE  EraseStep(th)
  <1> DEFINE c == call[th]
             left == DOMAIN set_map[c.key] \ Reclaimed(c.key, c.time)
  <1>1. th \in Threads /\ c.pc = "erase"
    BY DEF Threads, EraseValues
  <1>2. c \in Call /\ c.key \in Keys /\ c.key \in DOMAIN set_map
    BY <1>1 DEF LocksInv, TypeOK, CallInv
  <1>3. c.time \in Int /\ c.todo \in SUBSET Keys
    BY <1>2 DEF Call
  <1>4. VisitStep(th, c.time, c.todo) /\ UNCHANGED <<key_lock, result>>
    BY <1>1, <1>3, VisitNextEffect DEF EraseValues
  <1>5. set_map' = IF left = {} THEN [k \in DOMAIN set_map \ {c.key} |-> set_map[k]]
                   ELSE [set_map EXCEPT ![c.key] = [v \in left |-> @[v]]]
    BY DEF EraseValues
  <1>6. /\ DOMAIN set_map' = IF left = {} THEN DOMAIN set_map \ {c.key} ELSE DOMAIN set_map
        /\ left # {} => /\ DOMAIN set_map'[c.key] = left
                        /\ \A v \in left : set_map'[c.key][v] = set_map[c.key][v]
        /\ \A k \in DOMAIN set_map : k # c.key => set_map'[k] = set_map[k]
    <2> HIDE DEF left, c
    <2>1. QED
      BY <1>2, <1>5
  <1>7. QED
    BY <1>1, <1>2, <1>3, <1>4, <1>6 DEF EraseStep

\* What is left of the key visited.
LEMMA ErasedKey ==
    ASSUME NEW th, EraseStep(th), NEW k \in Keys, k = call[th].key,
           NEW left, left = DOMAIN set_map[k] \ Reclaimed(k, call[th].time)
    PROVE  /\ left = {} => k \notin DOMAIN set_map'
           /\ left # {} => /\ k \in DOMAIN set_map' /\ DOMAIN set_map'[k] = left
                           /\ \A v \in left : set_map'[k][v] = set_map[k][v]
  BY DEF EraseStep

\* Every entry that is left was there, and the key visited has none left that
\* was to be reclaimed.
LEMMA ErasedEntry ==
    ASSUME NEW th, EraseStep(th), NEW k \in DOMAIN set_map', NEW v \in DOMAIN set_map'[k]
    PROVE  /\ k \in DOMAIN set_map /\ v \in DOMAIN set_map[k]
           /\ set_map'[k][v] = set_map[k][v]
           /\ k = call[th].key => v \notin Reclaimed(k, call[th].time)
  BY DEF EraseStep

\* Erasing values without the key lock keeps it: the key was touched under the
\* map lock, and nothing has got past the map lock since.
LEMMA EraseLocks ==
    ASSUME LocksInv, NEW th \in Cleaners, EraseValues(th)
    PROVE  LocksInv'
  <1> DEFINE c == call[th]
  <1>1. th \in Threads /\ EraseStep(th)
    BY EraseEffect DEF Threads
  <1>2. /\ c.pc = "erase" /\ c.time \in Int /\ c.todo \in SUBSET Keys /\ c.key \in Keys
        /\ VisitStep(th, c.time, c.todo) /\ UNCHANGED <<key_lock, result>>
    BY <1>1 DEF EraseStep
  <1>3. \A x \in Threads : x # th => call[x].pc \notin {"lock_key", "visit", "erase", "read"}
    BY <1>1, <1>2, AloneAtMapLock
  <1>4. \A x \in Threads : call[x].pc = "apply" => call[x].key \in DOMAIN set_map'
    <2>1. key_lock[c.key].writer = NONE
      BY <1>1, <1>2 DEF LocksInv, CallInv
    <2>2. \A x \in Threads : call[x].pc = "apply" =>
             call[x].key # c.key /\ call[x].key \in DOMAIN set_map
      <3>1. KeyLockInv /\ CallInv /\ NONE \notin Threads
        BY SetCacheAssumption DEF LocksInv
      <3>2. \A x \in Threads : call[x].pc = "apply" => call[x].key \in Keys \cap DOMAIN set_map
        BY <3>1 DEF CallInv
      <3>3. \A x \in Threads : call[x].pc = "apply" => call[x].key # c.key
        BY <1>2, <2>1, <3>1 DEF KeyLockInv
      <3>4. QED
        BY <3>2, <3>3
    <2>3. QED
      BY <1>1, <2>2 DEF EraseStep
  <1>5. /\ DOMAIN set_map' \subseteq Keys
        /\ \A k \in DOMAIN set_map' :
              /\ DOMAIN set_map'[k] \subseteq Values
              /\ \A v \in DOMAIN set_map'[k] : set_map'[k][v] \in Meta
    BY <1>1 DEF EraseStep, LocksInv, TypeOK
  <1>6. QED
    BY <1>1, <1>2, <1>3, <1>4, <1>5, VisitStepLocks

\* The locks invariant is preserved by every step.
LEMMA NextLocks == LocksInv /\ [Next]_vars => LocksInv'
  <1> SUFFICES ASSUME LocksInv, [Next]_vars PROVE LocksInv'
    OBVIOUS
  <1>1. CASE UNCHANGED vars
    <2>1. TypeOK'
      BY <1>1 DEF vars, LocksInv, TypeOK
    <2>2. MapLockInv' /\ KeyLockInv'
      BY <1>1 DEF vars, LocksInv, MapLockInv, KeyLockInv
    <2>3. CallInv'
      <3>1. CallInv /\ UNCHANGED <<set_map, cutoff, key_lock, call, result>>
        BY <1>1 DEF vars, LocksInv
      <3>2. QED
        BY <3>1 DEF CallInv
    <2>4. QED
      BY <2>1, <2>2, <2>3 DEF LocksInv
  <1>2. ASSUME NEW th \in Mutators, Mutate(th)
        PROVE  LocksInv'
    BY ZenonT(30), <1>2, BeginLocks, LockKeyLocks, ApplyLocks, WaitLocks, IndexLocks
       DEF Mutate, UpdateKeyValueSet, DeleteValuesInSet
  <1>3. ASSUME NEW th \in Readers, Read(th)
        PROVE  LocksInv'
    BY <1>3, GetLocks, ReadLocks, DestroyLocks DEF Read
  <1>4. ASSUME NEW th \in Cleaners, CleanUp(th)
        PROVE  LocksInv'
    BY <1>4, CleanUpLocks, VisitLocks, EraseLocks DEF CleanUp
  <1>5. QED
    BY <1>1, <1>2, <1>3, <1>4 DEF Next

\* The locks are held by exactly the calls the code means to hold them.
THEOREM LocksAreHeld == Spec => []LocksInv
  BY InitLocks, NextLocks, PTL DEF Spec

\* Type correctness of the set map, its index, its locks and the calls.
THEOREM SetTypeCorrect == Spec => []TypeOK
  <1>1. LocksInv => TypeOK
    BY DEF LocksInv
  <1>2. QED
    BY <1>1, LocksAreHeld, PTL

\* While a mutation or a clean-up changes the values of a key no other thread
\* changes them or holds views of them, although the clean-up has let the key
\* lock go before it erases.
THEOREM ValuesNeverRace == Spec => []NoRaceOnValues
  <1>1. LocksInv => NoRaceOnValues
    <2> SUFFICES ASSUME LocksInv, NEW k \in Keys, NEW th \in Threads, NEW other \in Threads,
                        Writes(th, k), other # th
                 PROVE  ~Writes(other, k) /\ k \notin DOMAIN result[other]
      BY DEF NoRaceOnValues
    <2>1. MapLockInv /\ KeyLockInv /\ CallInv /\ NONE \notin Threads
      BY SetCacheAssumption DEF LocksInv
    <2>2. CASE call[th].pc = "apply"
      <3>1. key_lock[k].writer = th /\ key_lock[k].readers = {}
        BY <2>1, <2>2 DEF Writes, KeyLockInv
      <3>2. k \notin DOMAIN result[other] /\ ~(call[other].pc = "apply" /\ call[other].key = k)
        BY <2>1, <3>1 DEF KeyLockInv
      <3>3. ~(call[other].pc = "erase" /\ call[other].key = k)
        BY <2>1, <3>1 DEF CallInv
      <3>4. QED
        BY <3>2, <3>3 DEF Writes
    <2>3. CASE call[th].pc = "erase"
      <3>1. key_lock[k].writer = NONE /\ key_lock[k].readers = {}
        BY <2>1, <2>3 DEF Writes, CallInv
      <3>2. k \notin DOMAIN result[other] /\ ~(call[other].pc = "apply" /\ call[other].key = k)
        BY <2>1, <3>1 DEF KeyLockInv
      <3>3. call[other].pc # "erase"
        BY <2>1, <2>3 DEF MapLockInv
      <3>4. QED
        BY <3>2, <3>3 DEF Writes
    <2>4. QED
      BY <2>2, <2>3 DEF Writes
  <1>2. QED
    BY <1>1, LocksAreHeld, PTL
=============================================================================
