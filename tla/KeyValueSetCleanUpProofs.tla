---------------------- MODULE KeyValueSetCleanUpProofs ----------------------
(***************************************************************************)
(* Proofs about KeyValueSetCache, on top of who holds which lock           *)
(* (KeyValueSetCacheProofs): that a clean-up erases nothing a call still   *)
(* points to, and forgets no index entry that is still needed.             *)
(*                                                                         *)
(* PointersStayValid is inductive on top of LocksInv.                      *)
(* DeletedValuesIndexed needs CleanUpInv, what a clean-up has done so far: *)
(* only then can the index entries it forgets at its end be shown to lead  *)
(* nowhere.                                                                *)
(***************************************************************************)
EXTENDS KeyValueSetCacheProofs

\* A clean-up is done with the value v of key k: no mutation of the key is
\* under way, and v is not deleted or was deleted after t.
DoneWith(k, v, t) ==
    /\ key_lock[k].writer = NONE
    /\ k \in DOMAIN set_map /\ v \in DOMAIN set_map[k] =>
          ~(set_map[k][v].is_deleted /\ set_map[k][v].last <= t)

\* A clean-up in progress is done with every value that an index entry up to
\* its time leads to, or has still to visit the key.
CleanUpInv ==
    \A th \in Threads : call[th].pc \in {"visit", "erase"} =>
        \A node \in deleted_set_nodes : node[1] <= call[th].time =>
            \/ node[2] \in {call[th].key} \cup call[th].todo
            \/ DoneWith(node[2], node[3], call[th].time)

IInv == LocksInv /\ PointersStayValid /\ DeletedValuesIndexed /\ CleanUpInv

-----------------------------------------------------------------------------
\* Views stay true when neither the results nor the live values of the keys
\* they show change.
LEMMA PointersPreserved ==
    ASSUME LocksInv', PointersStayValid, UNCHANGED result,
           \A th \in Threads : \A k \in DOMAIN result[th] :
               k \in DOMAIN set_map => k \in DOMAIN set_map' /\ set_map'[k] = set_map[k]
    PROVE  PointersStayValid'
  <1>1. \A th \in Threads : \A k \in DOMAIN result[th] :
           k \in DOMAIN set_map' /\ set_map'[k] = set_map[k] /\ result[th][k] = LiveValues(k)
    BY DEF PointersStayValid
  <1>2. \A th \in Threads : \A k \in DOMAIN result'[th] :
           k \in DOMAIN set_map' /\ result'[th][k] = LiveValues(k)'
    BY <1>1 DEF LiveValues
  <1>3. QED
    BY <1>2 DEF PointersStayValid, LocksInv, CallInv

\* Every step keeps the key of a mutation and the views of a result valid.
LEMMA NextPointers ==
    LocksInv /\ LocksInv' /\ PointersStayValid /\ [Next]_vars => PointersStayValid'
  <1> SUFFICES ASSUME LocksInv, LocksInv', PointersStayValid, [Next]_vars
               PROVE  PointersStayValid'
    OBVIOUS
  <1>1. CASE UNCHANGED <<set_map, result>>
    BY <1>1, PointersPreserved
  <1>2. ASSUME NEW th \in Mutators, NEW deleting \in BOOLEAN, NEW k \in Keys,
               NEW S \in SUBSET Values, NEW t \in Times, BeginMutation(th, deleting, k, S, t)
        PROVE  PointersStayValid'
    <2>1. UNCHANGED result /\ \A x \in DOMAIN set_map :
             x \in DOMAIN set_map' /\ set_map'[x] = set_map[x]
      BY <1>2, BeginEffect DEF InsertStep, AwaitKeyStep, vars
    <2>2. QED
      BY <2>1, PointersPreserved
  <1>3. ASSUME NEW th \in Mutators, ApplyToValues(th)
        PROVE  PointersStayValid'
    <2> DEFINE key == call[th].key
    <2>1. /\ UNCHANGED result
          /\ \A x \in DOMAIN set_map : x # key =>
                x \in DOMAIN set_map' /\ set_map'[x] = set_map[x]
      BY <1>3 DEF ApplyToValues
    <2>2. th \in Threads /\ key \in Keys /\ key_lock[key].writer = th /\ th # NONE
      BY <1>3, SetCacheAssumption DEF Threads, ApplyToValues, LocksInv, CallInv, KeyLockInv
    <2>3. \A x \in Threads : key \notin DOMAIN result[x]
      BY <2>2 DEF LocksInv, KeyLockInv
    <2>4. QED
      BY <2>1, <2>3, PointersPreserved
  <1>4. ASSUME NEW th \in Readers, ReadKey(th)
        PROVE  PointersStayValid'
    <2>1. th \in Threads /\ ReadStep(th)
      BY <1>4, ReadKeyEffect DEF Threads
    <2>2. \A x \in Keys : LiveValues(x)' = LiveValues(x)
      BY <2>1 DEF ReadStep, LiveValues
    <2>3. \A x \in Threads : \A k \in DOMAIN result'[x] :
             k \in DOMAIN set_map' /\ result'[x][k] = LiveValues(k)'
      <3> SUFFICES ASSUME NEW x \in Threads, NEW k \in DOMAIN result'[x]
                   PROVE  k \in DOMAIN set_map' /\ result'[x][k] = LiveValues(k)'
        OBVIOUS
      <3>1. k \in Keys
        BY DEF LocksInv, TypeOK
      <3>2. CASE k \in DOMAIN result[x] /\ result'[x][k] = result[x][k]
        BY <2>1, <2>2, <3>1, <3>2 DEF ReadStep, PointersStayValid
      <3>3. CASE x = th /\ k = call[th].key /\ k \in DOMAIN set_map
                 /\ result'[x][k] = LiveValues(k)
        BY <2>1, <2>2, <3>1, <3>3 DEF ReadStep
      <3>4. QED
        BY <2>1, <3>2, <3>3 DEF ReadStep
    <2>4. QED
      BY <2>3 DEF PointersStayValid, LocksInv, CallInv
  <1>5. ASSUME NEW th \in Readers, DestroyResult(th)
        PROVE  PointersStayValid'
    <2>1. /\ th \in Threads /\ UNCHANGED set_map
          /\ result' = [result EXCEPT ![th] = NoResult]
      BY <1>5 DEF Threads, DestroyResult, shared
    <2>2. \A x \in Threads : \A k \in DOMAIN result'[x] :
             k \in DOMAIN result[x] /\ result'[x][k] = result[x][k]
      BY <2>1 DEF NoResult, LocksInv, TypeOK
    <2>3. \A k \in Keys : LiveValues(k)' = LiveValues(k)
      BY <2>1 DEF LiveValues
    <2>4. \A x \in Threads : \A k \in DOMAIN result'[x] :
             k \in DOMAIN set_map' /\ result'[x][k] = LiveValues(k)'
      BY <2>1, <2>2, <2>3 DEF PointersStayValid, LocksInv, TypeOK
    <2>5. QED
      BY <2>4 DEF PointersStayValid, LocksInv, CallInv
  <1>6. ASSUME NEW th \in Cleaners, EraseValues(th)
        PROVE  PointersStayValid'
    <2> DEFINE key == call[th].key
    <2>1. th \in Threads /\ EraseStep(th)
      BY <1>6, EraseEffect DEF Threads
    <2>2. key \in Keys /\ \A x \in Threads : key \notin DOMAIN result[x]
      BY <2>1 DEF EraseStep, LocksInv, CallInv, KeyLockInv
    <2>3. UNCHANGED result /\ \A k \in DOMAIN set_map : k # key =>
             k \in DOMAIN set_map' /\ set_map'[k] = set_map[k]
      BY <2>1 DEF EraseStep
    <2>4. QED
      BY <2>2, <2>3, PointersPreserved
  <1>7. QED
    BY ZenonT(30), <1>1, <1>2, <1>3, <1>4, <1>5, <1>6
       DEF Next, Mutate, Read, CleanUp, UpdateKeyValueSet, DeleteValuesInSet, vars, shared,
           LockKey, WaitForMapLock, IndexDeletedValues, GetKeyValueSet,
           CleanUpKeyValueSetMap, VisitKey

-----------------------------------------------------------------------------
\* A step that ends with no clean-up in progress keeps CleanUpInv.
LEMMA NoCleanUp ==
    ASSUME \A x \in Threads : call'[x].pc \notin {"visit", "erase"}
    PROVE  CleanUpInv'
  BY DEF CleanUpInv

\* So does one that leaves index and clean-ups alone and touches no value a
\* clean-up is done with.
LEMMA CleanUpPreserved ==
    ASSUME LocksInv, CleanUpInv, UNCHANGED deleted_set_nodes,
           \A x \in Threads : call'[x].pc \in {"visit", "erase"} =>
               /\ call[x].pc \in {"visit", "erase"}
               /\ call'[x].key = call[x].key /\ call'[x].time = call[x].time
               /\ call'[x].todo = call[x].todo,
           \A k \in Keys : \A v, t : DoneWith(k, v, t) => DoneWith(k, v, t)'
    PROVE  CleanUpInv'
  <1> SUFFICES ASSUME NEW x \in Threads, call'[x].pc \in {"visit", "erase"},
                      NEW node \in deleted_set_nodes', node[1] <= call'[x].time
               PROVE  \/ node[2] \in {call'[x].key} \cup call'[x].todo
                      \/ DoneWith(node[2], node[3], call[x].time)'
    BY DEF CleanUpInv
  <1>1. \/ node[2] \in {call[x].key} \cup call[x].todo
        \/ DoneWith(node[2], node[3], call[x].time)
    BY DEF CleanUpInv
  <1>2. call'[x].time = call[x].time
    OBVIOUS
  <1>3. DoneWith(node[2], node[3], call[x].time) =>
           DoneWith(node[2], node[3], call[x].time)'
    <2>1. node[2] \in Keys
      BY DEF LocksInv, TypeOK
    <2>2. QED
      BY <1>2, <2>1 DEF DoneWith
  <1>4. QED
    BY <1>1, <1>3

\* Erasing the values of the key visited leaves none of them to be done with.
LEMMA EraseCleanUp ==
    ASSUME LocksInv, CleanUpInv, NEW th \in Cleaners, EraseValues(th)
    PROVE  CleanUpInv'
  <1> DEFINE c == call[th]
  <1>1. th \in Threads /\ EraseStep(th)
    BY EraseEffect DEF Threads
  <1>2. /\ c.pc = "erase" /\ c.time \in Int /\ c.key \in Keys
        /\ VisitStep(th, c.time, c.todo) /\ UNCHANGED <<key_lock, result>>
    BY Zenon, <1>1 DEF EraseStep
  <1>3. \A x \in Threads : x # th => call'[x].pc \notin {"visit", "erase"}
    BY <1>1, <1>2, AloneAtMapLock DEF VisitStep
  <1>4. CASE c.todo = {}
    BY <1>2, <1>3, <1>4, NoCleanUp DEF VisitStep
  <1>5. CASE c.todo # {}
    <2>1. /\ call'[th].time = c.time /\ deleted_set_nodes' = deleted_set_nodes
          /\ c.todo = {call'[th].key} \cup call'[th].todo
      BY <1>2, <1>5 DEF VisitStep
    <2>2. ASSUME NEW node \in deleted_set_nodes, node[1] <= c.time, node[2] \notin c.todo
          PROVE  DoneWith(node[2], node[3], c.time)'
      <3>1. key_lock'[node[2]].writer = NONE
        <4>1. CASE node[2] = c.key
          BY <1>1, <1>2, <4>1 DEF LocksInv, CallInv
        <4>2. CASE node[2] # c.key
          BY <1>1, <1>2, <2>2, <4>2 DEF CleanUpInv, DoneWith
        <4>3. QED
          BY <4>1, <4>2
      <3>2. ASSUME node[2] \in DOMAIN set_map', node[3] \in DOMAIN set_map'[node[2]]
            PROVE  ~(/\ set_map'[node[2]][node[3]].is_deleted
                     /\ set_map'[node[2]][node[3]].last <= c.time)
        <4>1. /\ node[2] \in DOMAIN set_map /\ node[3] \in DOMAIN set_map[node[2]]
              /\ set_map'[node[2]][node[3]] = set_map[node[2]][node[3]]
              /\ node[2] = c.key => node[3] \notin Reclaimed(c.key, c.time)
          BY <1>1, <3>2, ErasedEntry
        <4>2. CASE node[2] = c.key
          BY <2>2, <4>1, <4>2 DEF Reclaimed
        <4>3. CASE node[2] # c.key
          BY <1>1, <1>2, <2>2, <4>1, <4>3 DEF CleanUpInv, DoneWith
        <4>4. QED
          BY <4>2, <4>3
      <3>3. c.time' = c.time
        BY <2>1
      <3>4. QED
        BY <3>1, <3>2, <3>3 DEF DoneWith
    <2>3. QED
      BY <1>3, <2>1, <2>2 DEF CleanUpInv, DoneWith
  <1>6. QED
    BY <1>4, <1>5

\* Every step keeps what a clean-up has already done: no mutation is admitted
\* while it holds the map lock, and none was left in the keys it is done with.
LEMMA NextCleanUp ==
    LocksInv /\ LocksInv' /\ CleanUpInv /\ [Next]_vars => CleanUpInv'
  <1> SUFFICES ASSUME LocksInv, LocksInv', CleanUpInv, [Next]_vars
               PROVE  CleanUpInv'
    OBVIOUS
  <1>1. NONE \notin Threads
    BY SetCacheAssumption
  <1>2. ASSUME map_lock.writer = NONE, NEW th \in Threads,
               call'[th].pc \notin {"visit", "erase"},
               \A x \in Threads : x # th => call'[x] = call[x]
        PROVE  CleanUpInv'
    <2>1. \A x \in Threads : call[x].pc \notin {"visit", "erase"}
      BY <1>1, <1>2 DEF LocksInv, MapLockInv
    <2>2. QED
      BY <1>2, <2>1, NoCleanUp
  <1>3. CASE UNCHANGED vars
    BY <1>3 DEF vars, CleanUpInv, DoneWith
  <1>4. ASSUME NEW th \in Mutators, NEW deleting \in BOOLEAN, NEW k \in Keys,
               NEW S \in SUBSET Values, NEW t \in Times, BeginMutation(th, deleting, k, S, t)
        PROVE  CleanUpInv'
    <2>1. th \in Threads /\ map_lock.writer = NONE /\ call[th].pc = "idle"
      BY <1>4 DEF Threads, BeginMutation, Unlocked
    <2>2. /\ call'[th].pc \in {"idle", "lock_key"}
          /\ \A x \in Threads : x # th => call'[x] = call[x]
      BY <1>4, <2>1 DEF BeginMutation, vars, LocksInv, TypeOK
    <2>3. QED
      BY <1>2, <2>1, <2>2
  <1>5. ASSUME NEW th \in Mutators, LockKey(th)
        PROVE  CleanUpInv'
    <2>1. /\ th \in Threads /\ call[th].pc = "lock_key" /\ call'[th].pc = "apply"
          /\ \A x \in Threads : x # th => call'[x] = call[x]
      BY <1>5 DEF Threads, LockKey, LocksInv, TypeOK
    <2>2. \A x \in Threads : x # th => call[x].pc \notin {"visit", "erase"}
      BY <2>1, AloneAtMapLock
    <2>3. QED
      BY <2>1, <2>2, NoCleanUp
  <1>6. ASSUME NEW th \in Mutators, ApplyToValues(th)
        PROVE  CleanUpInv'
    <2>1. th \in Threads /\ ApplyStep(th)
      BY <1>6, ApplyEffect DEF Threads
    <2>2. ASSUME NEW k \in Keys, NEW v, NEW t, DoneWith(k, v, t)
          PROVE  DoneWith(k, v, t)'
      <3>1. k # call[th].key
        BY <1>1, <2>1, <2>2 DEF ApplyStep, DoneWith
      <3>2. key_lock'[k] = key_lock[k] /\ (k \in DOMAIN set_map => set_map'[k] = set_map[k])
        BY <2>1, <3>1 DEF ApplyStep, LocksInv, TypeOK
      <3>3. DOMAIN set_map' = DOMAIN set_map
        BY <2>1 DEF ApplyStep
      <3>4. QED
        BY <2>2, <3>2, <3>3 DEF DoneWith
    <2>3. QED
      BY <2>1, <2>2, CleanUpPreserved DEF ApplyStep
  <1>7. ASSUME NEW th \in Mutators, WaitForMapLock(th)
        PROVE  CleanUpInv'
    <2>1. /\ th \in Threads /\ call'[th].pc = "index_waiting"
          /\ \A x \in Threads : x # th => call'[x] = call[x]
          /\ UNCHANGED <<set_map, deleted_set_nodes, key_lock>>
      BY <1>7 DEF Threads, WaitForMapLock, shared, LocksInv, TypeOK
    <2>2. QED
      BY <2>1, CleanUpPreserved DEF DoneWith
  <1>8. ASSUME NEW th \in Mutators, IndexDeletedValues(th)
        PROVE  CleanUpInv'
    <2>1. /\ th \in Threads /\ map_lock.writer = NONE /\ call'[th].pc = "idle"
          /\ \A x \in Threads : x # th => call'[x] = call[x]
      BY <1>8 DEF Threads, IndexDeletedValues, Unlocked, Return, Idle, At, LocksInv, TypeOK
    <2>2. QED
      BY <1>2, <2>1
  <1>9. ASSUME NEW th \in Readers, NEW rest \in SUBSET Keys, NEW first \in rest,
               GetKeyValueSet(th, first, rest)
        PROVE  CleanUpInv'
    <2>1. /\ th \in Threads /\ map_lock.writer = NONE /\ call'[th].pc = "read"
          /\ \A x \in Threads : x # th => call'[x] = call[x]
      BY <1>9 DEF Threads, GetKeyValueSet, At, LocksInv, TypeOK
    <2>2. QED
      BY <1>2, <2>1
  <1>10. ASSUME NEW th \in Readers, ReadKey(th)
         PROVE  CleanUpInv'
    <2>1. th \in Threads /\ ReadStep(th)
      BY <1>10, ReadKeyEffect DEF Threads
    <2>2. map_lock.writer = NONE
      BY <2>1 DEF ReadStep, LocksInv, MapLockInv
    <2>3. QED
      BY <1>2, <2>1, <2>2 DEF ReadStep
  <1>11. ASSUME NEW th \in Readers, DestroyResult(th)
         PROVE  CleanUpInv'
    <2>1. /\ th \in Threads /\ call'[th].pc = "idle"
          /\ \A x \in Threads : x # th => call'[x] = call[x]
          /\ UNCHANGED <<set_map, deleted_set_nodes>>
          /\ key_lock' = [k \in Keys |-> [key_lock[k] EXCEPT !.readers = @ \ {th}]]
      BY <1>11 DEF Threads, DestroyResult, shared, Return, Idle, At, LocksInv, TypeOK
    <2>2. ASSUME NEW k \in Keys, NEW v, NEW t, DoneWith(k, v, t)
          PROVE  DoneWith(k, v, t)'
      BY <2>1, <2>2 DEF DoneWith, LocksInv, TypeOK, Lock
    <2>3. QED
      BY <2>1, <2>2, CleanUpPreserved
  <1>12. ASSUME NEW th \in Cleaners, NEW t \in Times, CleanUpKeyValueSetMap(th, t)
         PROVE  CleanUpInv'
    <2>1. th \in Threads /\ t \in Int /\ IndexedKeys(t) \in SUBSET Keys
      BY SetCacheAssumption DEF Threads, IndexedKeys, LocksInv, TypeOK
    <2>2. map_lock.writer = NONE /\ VisitStep(th, t, IndexedKeys(t))
      BY <1>12, <2>1, VisitNextEffect DEF CleanUpKeyValueSetMap, Unlocked
    <2>3. \A x \in Threads : x # th => call'[x].pc \notin {"visit", "erase"}
      BY <1>1, <2>2 DEF VisitStep, LocksInv, MapLockInv
    <2>4. CASE IndexedKeys(t) = {}
      BY <1>2, <2>1, <2>2, <2>4 DEF VisitStep
    <2>5. CASE IndexedKeys(t) # {}
      <3>1. /\ call'[th].time = t /\ deleted_set_nodes' = deleted_set_nodes
            /\ IndexedKeys(t) = {call'[th].key} \cup call'[th].todo
        BY <2>2, <2>5 DEF VisitStep
      <3>2. \A node \in deleted_set_nodes : node[1] <= t => node[2] \in IndexedKeys(t)
        BY DEF IndexedKeys
      <3>3. QED
        BY <2>3, <3>1, <3>2 DEF CleanUpInv
    <2>6. QED
      BY <2>4, <2>5
  <1>13. ASSUME NEW th \in Cleaners, VisitKey(th)
         PROVE  CleanUpInv'
    <2> DEFINE c == call[th]
    <2>1. /\ th \in Threads /\ c.pc = "visit" /\ c \in Call /\ c.key \in Keys
          /\ c.time \in Int /\ c.todo \in SUBSET Keys
          /\ UNCHANGED <<set_map, key_lock>>
      BY <1>13 DEF Threads, VisitKey, LocksInv, TypeOK, CallInv, Call
    <2>2. CASE c.key \in DOMAIN set_map
      <3>1. /\ call' = [call EXCEPT ![th].pc = "erase"]
            /\ UNCHANGED deleted_set_nodes
        BY <1>13, <2>2 DEF VisitKey
      <3>2. QED
        BY <2>1, <3>1, CleanUpPreserved DEF DoneWith, LocksInv, TypeOK
    <2>3. CASE c.key \notin DOMAIN set_map
      <3>1. VisitStep(th, c.time, c.todo)
        BY <1>13, <2>1, <2>3, VisitNextEffect DEF VisitKey
      <3>2. \A x \in Threads : x # th => call'[x].pc \notin {"visit", "erase"}
        BY <2>1, <3>1, AloneAtMapLock DEF VisitStep
      <3>3. key_lock[c.key].writer = NONE
        <4>1. key_lock[c.key].writer \in Threads \cup {NONE}
          BY <2>1 DEF LocksInv, TypeOK, Lock
        <4>2. \A x \in Threads : call[x].pc = "apply" => call[x].key \in DOMAIN set_map
          <5>1. CallInv
            BY DEF LocksInv
          <5>2. QED
            BY <5>1 DEF CallInv
        <4>3. key_lock[c.key].writer \notin Threads
          <5>1. KeyLockInv
            BY DEF LocksInv
          <5>2. QED
            BY <2>1, <2>3, <4>2, <5>1 DEF KeyLockInv
        <4>4. QED
          BY <4>1, <4>3
      <3>4. CASE c.todo = {}
        BY <3>1, <3>2, <3>4, NoCleanUp DEF VisitStep
      <3>5. CASE c.todo # {}
        <4>1. /\ call'[th].time = c.time /\ deleted_set_nodes' = deleted_set_nodes
              /\ c.todo = {call'[th].key} \cup call'[th].todo
          BY <3>1, <3>5 DEF VisitStep
        <4>2. \A node \in deleted_set_nodes : node[1] <= c.time =>
                 node[2] \in c.todo \/ DoneWith(node[2], node[3], c.time)'
          <5>1. \A node \in deleted_set_nodes : node[1] <= c.time =>
                   node[2] \in {c.key} \cup c.todo \/ DoneWith(node[2], node[3], c.time)
            BY Zenon, <2>1 DEF CleanUpInv
          <5>2. \A v : DoneWith(c.key, v, c.time)
            BY <2>1, <2>3, <3>3 DEF DoneWith
          <5>3. \A k, v, t : DoneWith(k, v, t)' <=> DoneWith(k, v, t)
            BY <2>1 DEF DoneWith
          <5>4. QED
            BY <4>1, <5>1, <5>2, <5>3
        <4>3. QED
          BY <3>2, <4>1, <4>2 DEF CleanUpInv, DoneWith
      <3>6. QED
        BY <3>4, <3>5
    <2>4. QED
      BY <2>2, <2>3
  <1>15. QED
    BY ZenonT(30), <1>3, <1>4, <1>5, <1>6, <1>7, <1>8, <1>9, <1>10, <1>11, <1>12, <1>13,
       EraseCleanUp DEF Next, Mutate, Read, CleanUp, UpdateKeyValueSet, DeleteValuesInSet

-----------------------------------------------------------------------------
\* The deletion of v at t is in the index, or on its way there.
Pending(c, k, v, t) ==
    /\ c.pc \in {"index", "index_waiting"}
    /\ c.key = k /\ v \in c.values /\ c.time = t

Accounted(nodes, calls, k, v, t) ==
    <<t, k, v>> \in nodes \/ \E th \in Mutators : Pending(calls[th], k, v, t)

\* DeletedValuesIndexed, in those words.
LEMMA IndexedMeans ==
    DeletedValuesIndexed <=>
        \A k \in DOMAIN set_map : \A v \in DOMAIN set_map[k] :
            set_map[k][v].is_deleted =>
                Accounted(deleted_set_nodes, call, k, v, set_map[k][v].last)
  BY DEF DeletedValuesIndexed, Accounted, Pending

\* A step keeps the invariant if what it leaves of the old values stays
\* accounted for, and what it changes is not deleted or is accounted for.
LEMMA IndexedPreserved ==
    ASSUME DeletedValuesIndexed,
           \A k \in DOMAIN set_map' : \A v \in DOMAIN set_map'[k] :
               set_map'[k][v].is_deleted =>
                   \/ Accounted(deleted_set_nodes', call', k, v, set_map'[k][v].last)
                   \/ /\ k \in DOMAIN set_map /\ v \in DOMAIN set_map[k]
                      /\ set_map'[k][v] = set_map[k][v]
                      /\ Accounted(deleted_set_nodes, call, k, v, set_map[k][v].last) =>
                            Accounted(deleted_set_nodes', call', k, v, set_map[k][v].last)
    PROVE  DeletedValuesIndexed'
  <1> SUFFICES ASSUME NEW k \in DOMAIN set_map', NEW v \in DOMAIN set_map'[k],
                      set_map'[k][v].is_deleted
               PROVE  Accounted(deleted_set_nodes', call', k, v, set_map'[k][v].last)
    BY DEF DeletedValuesIndexed, Accounted, Pending
  <1>1. CASE Accounted(deleted_set_nodes', call', k, v, set_map'[k][v].last)
    BY <1>1 DEF Accounted, Pending
  <1>2. CASE /\ k \in DOMAIN set_map /\ v \in DOMAIN set_map[k]
             /\ set_map'[k][v] = set_map[k][v]
             /\ Accounted(deleted_set_nodes, call, k, v, set_map[k][v].last) =>
                   Accounted(deleted_set_nodes', call', k, v, set_map[k][v].last)
    <2>1. Accounted(deleted_set_nodes, call, k, v, set_map[k][v].last)
      BY <1>2, IndexedMeans
    <2>2. QED
      BY <1>2, <2>1 DEF Accounted, Pending
  <1>3. QED
    BY <1>1, <1>2

\* The index only grows and no other thread's deletion is forgotten.
LEMMA AccountedPreserved ==
    ASSUME deleted_set_nodes \subseteq deleted_set_nodes',
           NEW th \in Threads,
           \A x \in Threads : x # th => call'[x] = call[x],
           call[th].pc \notin {"index", "index_waiting"},
           NEW k, NEW v, NEW t, Accounted(deleted_set_nodes, call, k, v, t)
    PROVE  Accounted(deleted_set_nodes', call', k, v, t)
  BY DEF Accounted, Pending, Threads

\* The end of a clean-up takes nothing out of the index that leads to a value
\* that is still deleted as of that time.
LEMMA EndOfCleanUp ==
    ASSUME LocksInv, NEW th \in Threads, NEW t \in Int, NEW todo \in SUBSET Keys,
           VisitStep(th, t, todo), call[th].pc \notin {"index", "index_waiting"},
           NEW k, NEW v, NEW last \in Int,
           todo = {} /\ <<last, k, v>> \in deleted_set_nodes => last > t,
           Accounted(deleted_set_nodes, call, k, v, last)
    PROVE  Accounted(deleted_set_nodes', call', k, v, last)
  <1>1. CASE <<last, k, v>> \in deleted_set_nodes
    <2>1. <<last, k, v>> \in deleted_set_nodes'
      BY <1>1 DEF VisitStep
    <2>2. QED
      BY <2>1 DEF Accounted
  <1>2. CASE \E x \in Mutators : Pending(call[x], k, v, last)
    BY <1>2 DEF VisitStep, Accounted, Pending, Threads
  <1>3. QED
    BY <1>1, <1>2 DEF Accounted

\* The loop over the values sends every value it deletes to be indexed.
LEMMA ApplyIndexed ==
    ASSUME LocksInv, DeletedValuesIndexed, NEW th \in Mutators, ApplyToValues(th)
    PROVE  DeletedValuesIndexed'
  <1> DEFINE c == call[th]
  <1>1. th \in Threads /\ ApplyStep(th)
    BY ApplyEffect DEF Threads
  <1>2. \A k, v, t : Accounted(deleted_set_nodes, call, k, v, t) =>
                       Accounted(deleted_set_nodes', call', k, v, t)
    <2>1. /\ deleted_set_nodes' = deleted_set_nodes /\ c.pc = "apply"
          /\ \A x \in Threads : x # th => call'[x] = call[x]
      BY <1>1 DEF ApplyStep
    <2>2. QED
      BY <1>1, <2>1, AccountedPreserved
  <1>3. /\ c.key \in DOMAIN set_map /\ DOMAIN set_map' = DOMAIN set_map
        /\ set_map'[c.key] = Mutated(c.key, c.values, c.time, c.deleting)
        /\ \A k \in DOMAIN set_map : k # c.key => set_map'[k] = set_map[k]
    BY <1>1 DEF ApplyStep
  <1>4. HasToIndex(th) => /\ call'[th].pc = "index"
                          /\ call'[th].key = c.key /\ call'[th].time = c.time
                          /\ call'[th].values = Newer(c.key, c.values, c.time)
    BY Zenon, <1>1 DEF ApplyStep
  <1> HIDE DEF c
  <1>5. ASSUME NEW v \in DOMAIN set_map'[c.key], set_map'[c.key][v].is_deleted
        PROVE  \/ Accounted(deleted_set_nodes', call', c.key, v, set_map'[c.key][v].last)
               \/ v \in DOMAIN set_map[c.key] /\ set_map'[c.key][v] = set_map[c.key][v]
    <2>1. CASE v \in Newer(c.key, c.values, c.time)
      <3>1. set_map'[c.key][v].last = c.time /\ c.deleting
        BY <1>3, <1>5, <2>1 DEF Mutated
      <3>2. HasToIndex(th)
        BY <2>1, <3>1 DEF HasToIndex, c
      <3>3. Pending(call'[th], c.key, v, c.time)
        BY <1>4, <2>1, <3>2 DEF Pending
      <3>4. QED
        BY <3>1, <3>3 DEF Accounted, Pending
    <2>2. CASE v \notin Newer(c.key, c.values, c.time)
      <3>1. set_map'[c.key][v] = MetaOf(c.key, v)
        BY <1>3, <2>2 DEF Mutated
      <3>2. QED
        BY <1>5, <3>1 DEF MetaOf
    <2>3. QED
      BY <2>1, <2>2
  <1>6. ASSUME NEW k \in DOMAIN set_map', NEW v \in DOMAIN set_map'[k],
               set_map'[k][v].is_deleted
        PROVE  \/ Accounted(deleted_set_nodes', call', k, v, set_map'[k][v].last)
               \/ /\ k \in DOMAIN set_map /\ v \in DOMAIN set_map[k]
                  /\ set_map'[k][v] = set_map[k][v]
                  /\ Accounted(deleted_set_nodes, call, k, v, set_map[k][v].last) =>
                        Accounted(deleted_set_nodes', call', k, v, set_map[k][v].last)
    <2>1. CASE k = c.key
      BY <1>2, <1>3, <1>5, <1>6, <2>1
    <2>2. CASE k # c.key
      BY <1>2, <1>3, <2>2
    <2>3. QED
      BY <2>1, <2>2
  <1>7. QED
    BY <1>6, IndexedPreserved

\* Erasing values, and forgetting the index at the end, loses no tombstone.
LEMMA EraseIndexed ==
    ASSUME LocksInv, CleanUpInv, DeletedValuesIndexed, NEW th \in Cleaners, EraseValues(th)
    PROVE  DeletedValuesIndexed'
  <1> DEFINE c == call[th]
  <1>1. th \in Threads /\ EraseStep(th)
    BY EraseEffect DEF Threads
  <1>2. /\ c.pc = "erase" /\ c.time \in Int /\ c.todo \in SUBSET Keys
        /\ VisitStep(th, c.time, c.todo)
    BY Zenon, <1>1 DEF EraseStep
  <1>3. ASSUME NEW k \in DOMAIN set_map', NEW v \in DOMAIN set_map'[k],
               set_map'[k][v].is_deleted
        PROVE  /\ k \in DOMAIN set_map /\ v \in DOMAIN set_map[k]
               /\ set_map'[k][v] = set_map[k][v]
               /\ Accounted(deleted_set_nodes, call, k, v, set_map[k][v].last) =>
                     Accounted(deleted_set_nodes', call', k, v, set_map[k][v].last)
    <2>1. /\ k \in DOMAIN set_map /\ v \in DOMAIN set_map[k]
          /\ set_map'[k][v] = set_map[k][v]
          /\ k = c.key => v \notin Reclaimed(c.key, c.time)
      BY <1>1, <1>3, ErasedEntry
    <2> DEFINE last == set_map[k][v].last
    <2>2. last \in Int
      BY <2>1 DEF LocksInv, TypeOK, Meta
    <2>3. ASSUME c.todo = {}, <<last, k, v>> \in deleted_set_nodes
          PROVE  last > c.time
      <3>1. <<last, k, v>>[1] = last /\ <<last, k, v>>[2] = k /\ <<last, k, v>>[3] = v
        OBVIOUS
      <3>2. CASE k = c.key
        <4>1. v \in DOMAIN set_map[c.key] /\ set_map[c.key][v].is_deleted
          BY <1>3, <2>1, <3>2
        <4>2. ~(set_map[c.key][v].last <= c.time)
          BY <2>1, <2>3, <3>1, <3>2, <4>1 DEF Reclaimed
        <4>3. QED
          BY <1>2, <2>2, <3>2, <4>2
      <3>3. CASE k # c.key
        <4>1. last <= c.time => DoneWith(k, v, c.time)
          BY <1>1, <1>2, <2>3, <3>1, <3>3 DEF CleanUpInv
        <4>2. ~(last <= c.time)
          BY <1>3, <2>1, <4>1 DEF DoneWith
        <4>3. QED
          BY <1>2, <2>2, <4>2
      <3>4. QED
        BY <3>2, <3>3
    <2>4. Accounted(deleted_set_nodes, call, k, v, last) =>
             Accounted(deleted_set_nodes', call', k, v, last)
      <3> HIDE DEF last
      <3>1. QED
        BY <1>1, <1>2, <2>2, <2>3, EndOfCleanUp
    <2>5. QED
      BY <2>1, <2>4
  <1>4. QED
    BY <1>3, IndexedPreserved

\* Every step keeps track of the deleted values: in particular the removal of
\* index entries at the end of a clean-up, which rests on CleanUpInv.
LEMMA NextIndexed ==
    LocksInv /\ CleanUpInv /\ DeletedValuesIndexed /\ [Next]_vars =>
        DeletedValuesIndexed'
  <1> SUFFICES ASSUME LocksInv, CleanUpInv, DeletedValuesIndexed, [Next]_vars
               PROVE  DeletedValuesIndexed'
    OBVIOUS
  <1>1. ASSUME NEW th \in Threads, UNCHANGED <<set_map, deleted_set_nodes>>,
               \A x \in Threads : x # th => call'[x] = call[x],
               call[th].pc \notin {"index", "index_waiting"}
        PROVE  DeletedValuesIndexed'
    BY <1>1, IndexedPreserved, AccountedPreserved
  <1>2. CASE UNCHANGED vars
    BY <1>2 DEF vars, DeletedValuesIndexed
  <1>3. ASSUME NEW th \in Mutators, NEW deleting \in BOOLEAN, NEW k \in Keys,
               NEW S \in SUBSET Values, NEW t \in Times, BeginMutation(th, deleting, k, S, t)
        PROVE  DeletedValuesIndexed'
    <2>1. /\ th \in Threads /\ call[th].pc = "idle"
          /\ \A x \in Threads : x # th => call'[x] = call[x]
      BY <1>3 DEF Threads, BeginMutation, vars, LocksInv, TypeOK
    <2>2. CASE UNCHANGED <<set_map, deleted_set_nodes>>
      BY <1>1, <2>1, <2>2
    <2>3. CASE /\ k \notin DOMAIN set_map
               /\ set_map' = [x \in DOMAIN set_map \cup {k} |->
                                IF x = k
                                THEN [v \in S |-> [last |-> t, is_deleted |-> deleting]]
                                ELSE set_map[x]]
               /\ deleted_set_nodes' = IF deleting
                                       THEN deleted_set_nodes \cup Nodes(k, S, t)
                                       ELSE deleted_set_nodes
      <3>1. deleted_set_nodes \subseteq deleted_set_nodes'
        BY <2>3
      <3>2. ASSUME NEW x \in DOMAIN set_map', NEW v \in DOMAIN set_map'[x],
                   set_map'[x][v].is_deleted, x = k
            PROVE  Accounted(deleted_set_nodes', call', x, v, set_map'[x][v].last)
        <4>1. v \in S /\ deleting /\ set_map'[x][v].last = t
          BY <2>3, <3>2
        <4>2. <<t, x, v>> \in deleted_set_nodes'
          BY <2>3, <3>2, <4>1 DEF Nodes
        <4>3. QED
          BY <4>1, <4>2 DEF Accounted
      <3>3. ASSUME NEW x \in DOMAIN set_map', NEW v \in DOMAIN set_map'[x], x # k
            PROVE  /\ x \in DOMAIN set_map /\ v \in DOMAIN set_map[x]
                   /\ set_map'[x][v] = set_map[x][v]
                   /\ Accounted(deleted_set_nodes, call, x, v, set_map[x][v].last) =>
                         Accounted(deleted_set_nodes', call', x, v, set_map[x][v].last)
        <4>1. x \in DOMAIN set_map /\ set_map'[x] = set_map[x]
          BY <2>3, <3>3
        <4>2. QED
          BY <2>1, <3>1, <3>3, <4>1, AccountedPreserved
      <3>4. QED
        BY <3>2, <3>3, IndexedPreserved
    <2>4. QED
      BY <1>3, <2>2, <2>3 DEF BeginMutation, vars, shared
  <1>4. ASSUME NEW th \in Mutators, LockKey(th)
        PROVE  DeletedValuesIndexed'
    BY <1>1, <1>4 DEF LockKey, shared, Threads, LocksInv, TypeOK
  <1>6. ASSUME NEW th \in Mutators, WaitForMapLock(th)
        PROVE  DeletedValuesIndexed'
    <2>1. /\ th \in Threads /\ call' = [call EXCEPT ![th].pc = "index_waiting"]
          /\ UNCHANGED <<set_map, deleted_set_nodes>>
      BY <1>6 DEF WaitForMapLock, shared, Threads
    <2>2. \A k, v, t : \A x \in Mutators : Pending(call[x], k, v, t) => Pending(call'[x], k, v, t)
      BY <2>1 DEF Pending, LocksInv, TypeOK, Threads
    <2>3. \A k, v, t : Accounted(deleted_set_nodes, call, k, v, t) =>
                         Accounted(deleted_set_nodes', call', k, v, t)
      BY <2>1, <2>2 DEF Accounted
    <2>4. QED
      BY ZenonT(30), <2>1, <2>3, IndexedPreserved
  <1>7. ASSUME NEW th \in Mutators, IndexDeletedValues(th)
        PROVE  DeletedValuesIndexed'
    <2> DEFINE c == call[th]
    <2>1. /\ th \in Threads /\ UNCHANGED set_map
          /\ deleted_set_nodes' = deleted_set_nodes \cup Nodes(c.key, c.values, c.time)
          /\ \A x \in Threads : x # th => call'[x] = call[x]
      BY <1>7 DEF IndexDeletedValues, Return, Threads, LocksInv, TypeOK
    <2>2. \A k, v, t : Pending(call[th], k, v, t) => <<t, k, v>> \in deleted_set_nodes'
      BY <2>1 DEF Pending, Nodes
    <2>3. \A k, v, t : Accounted(deleted_set_nodes, call, k, v, t) =>
                         Accounted(deleted_set_nodes', call', k, v, t)
      BY <2>1, <2>2 DEF Accounted, Pending, Threads
    <2>4. QED
      BY <2>1, <2>3, IndexedPreserved
  <1>8. ASSUME NEW th \in Readers, NEW rest \in SUBSET Keys, NEW first \in rest,
               GetKeyValueSet(th, first, rest)
        PROVE  DeletedValuesIndexed'
    BY <1>1, <1>8 DEF GetKeyValueSet, shared, Threads, LocksInv, TypeOK
  <1>9. ASSUME NEW th \in Readers, ReadKey(th)
        PROVE  DeletedValuesIndexed'
    <2>1. th \in Threads /\ ReadStep(th)
      BY <1>9, ReadKeyEffect DEF Threads
    <2>2. QED
      BY <1>1, <2>1 DEF ReadStep
  <1>10. ASSUME NEW th \in Readers, DestroyResult(th)
         PROVE  DeletedValuesIndexed'
    BY <1>1, <1>10 DEF DestroyResult, shared, Return, Threads, LocksInv, TypeOK
  <1>11. ASSUME NEW th \in Cleaners, NEW t \in Times, CleanUpKeyValueSetMap(th, t)
         PROVE  DeletedValuesIndexed'
    <2>1. th \in Threads /\ t \in Int /\ IndexedKeys(t) \in SUBSET Keys
      BY SetCacheAssumption DEF Threads, IndexedKeys, LocksInv, TypeOK
    <2>2. /\ call[th].pc = "idle" /\ VisitStep(th, t, IndexedKeys(t))
          /\ UNCHANGED set_map
      BY <1>11, <2>1, VisitNextEffect DEF CleanUpKeyValueSetMap
    <2>3. UNCHANGED deleted_set_nodes
      <3>1. CASE IndexedKeys(t) = {}
        <4>1. ASSUME NEW node \in deleted_set_nodes
              PROVE  node[1] > t
          <5>1. node[1] \in Int
            BY DEF LocksInv, TypeOK
          <5>2. ~(node[1] <= t)
            BY <3>1 DEF IndexedKeys
          <5>3. QED
            BY <2>1, <5>1, <5>2
        <4>2. deleted_set_nodes' = {node \in deleted_set_nodes : node[1] > t}
          BY <2>2, <3>1 DEF VisitStep
        <4>3. QED
          BY <4>1, <4>2
      <3>2. QED
        BY <2>2, <3>1 DEF VisitStep
    <2>4. QED
      BY <1>1, <2>1, <2>2, <2>3 DEF VisitStep
  <1>12. ASSUME NEW th \in Cleaners, VisitKey(th)
         PROVE  DeletedValuesIndexed'
    <2> DEFINE c == call[th]
    <2>1. /\ th \in Threads /\ c.pc = "visit" /\ c \in Call
          /\ c.time \in Int /\ c.todo \in SUBSET Keys
          /\ UNCHANGED set_map
      BY <1>12 DEF Threads, VisitKey, LocksInv, TypeOK, Call
    <2>2. CASE c.key \in DOMAIN set_map
      <3>1. /\ call' = [call EXCEPT ![th].pc = "erase"]
            /\ UNCHANGED deleted_set_nodes
        BY <1>12, <2>2 DEF VisitKey
      <3>2. QED
        BY <1>1, <2>1, <3>1 DEF LocksInv, TypeOK
    <2>3. CASE c.key \notin DOMAIN set_map
      <3>1. VisitStep(th, c.time, c.todo)
        BY <1>12, <2>1, <2>3, VisitNextEffect DEF VisitKey
      <3>2. ASSUME NEW k \in DOMAIN set_map, NEW v \in DOMAIN set_map[k],
                   set_map[k][v].is_deleted,
                   Accounted(deleted_set_nodes, call, k, v, set_map[k][v].last)
            PROVE  Accounted(deleted_set_nodes', call', k, v, set_map[k][v].last)
        <4> DEFINE last == set_map[k][v].last
        <4>1. last \in Int
          BY DEF LocksInv, TypeOK, Meta
        <4>2. ASSUME c.todo = {}, <<last, k, v>> \in deleted_set_nodes
              PROVE  last > c.time
          <5>1. <<last, k, v>>[1] = last /\ <<last, k, v>>[2] = k /\ <<last, k, v>>[3] = v
            OBVIOUS
          <5>2. last <= c.time => DoneWith(k, v, c.time)
            BY <2>1, <2>3, <4>2, <5>1 DEF CleanUpInv
          <5>3. QED
            BY <2>1, <3>2, <4>1, <5>2 DEF DoneWith
        <4>3. Accounted(deleted_set_nodes', call', k, v, last)
          <5> HIDE DEF last
          <5>1. Accounted(deleted_set_nodes, call, k, v, last)
            BY <3>2 DEF last
          <5>2. /\ th \in Threads /\ c.time \in Int /\ c.todo \in SUBSET Keys
                /\ c.pc \notin {"index", "index_waiting"}
            BY <2>1
          <5>3. c.todo = {} /\ <<last, k, v>> \in deleted_set_nodes => last > c.time
            BY <4>2 DEF last
          <5>4. last \in Int
            BY <4>1 DEF last
          <5>5. QED
            BY <3>1, <5>1, <5>2, <5>3, <5>4, EndOfCleanUp
        <4>4. QED
          BY <2>1, <4>3
      <3>3. QED
        BY <2>1, <3>2, IndexedPreserved
    <2>4. QED
      BY <2>2, <2>3
  <1>14. QED
    BY ZenonT(30), <1>2, <1>3, <1>4, ApplyIndexed, <1>6, <1>7, <1>8, <1>9, <1>10, <1>11,
       <1>12, EraseIndexed DEF Next, Mutate, Read, CleanUp, UpdateKeyValueSet, DeleteValuesInSet

-----------------------------------------------------------------------------
\* The conjunction is inductive.
LEMMA NextIInv == IInv /\ [Next]_vars => IInv'
  BY NextLocks, NextPointers, NextCleanUp, NextIndexed DEF IInv

\* It holds at first.
LEMMA InitIInv == Init => IInv
  <1> SUFFICES ASSUME Init
               PROVE  IInv
    OBVIOUS
  <1>1. LocksInv
    BY InitLocks
  <1>2. PointersStayValid /\ DeletedValuesIndexed /\ CleanUpInv
    BY DEF Init, PointersStayValid, DeletedValuesIndexed, CleanUpInv, NoResult, Idle, At
  <1>3. QED
    BY <1>1, <1>2 DEF IInv

\* The whole inductive invariant holds, for every number of threads, keys and
\* values.
THEOREM SetCacheInvariant == Spec => []IInv
  BY InitIInv, NextIInv, PTL DEF Spec

\* A mutation's pointer to its key's values (existing_value_set,
\* key_value_cache.cc) and the views of an undestroyed GetKeyValueSetResult
\* stay valid, whatever clean-ups run meanwhile.
THEOREM PointersAreValid == Spec => []PointersStayValid
  <1>1. IInv => PointersStayValid
    BY DEF IInv
  <1>2. QED
    BY <1>1, SetCacheInvariant, PTL

\* No tombstone is lost in the gap DeleteValuesInSet leaves between the key
\* lock and the map lock, nor to a clean-up that forgets index entries.
THEOREM TombstonesAreIndexed == Spec => []DeletedValuesIndexed
  <1>1. IInv => DeletedValuesIndexed
    BY DEF IInv
  <1>2. QED
    BY <1>1, SetCacheInvariant, PTL
=============================================================================
