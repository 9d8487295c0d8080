------------------------ MODULE KeyValueSetRefinement ------------------------
(***************************************************************************)
(* KeyValueSetCache implements LastWriterWins, for every set of keys,      *)
(* values, commit times and threads.                                       *)
(*                                                                         *)
(* The mapping shows a mutation from the moment it gets its key lock and a *)
(* clean-up from the moment it has the map lock, so those two steps are    *)
(* the steps of the store, and the loops that follow stutter: that nobody  *)
(* comes between is LocksInv (KeyValueSetCacheProofs).                     *)
(***************************************************************************)
EXTENDS KeyValueSetCacheProofs

-----------------------------------------------------------------------------
\* The refinement.  A step after which every pair has the visibility and the
\* horizon it had is a stutter of the store.
LEMMA PairsStutter ==
    ASSUME \A k \in Keys, v \in Values :
               Visible(k, v)' = Visible(k, v) /\ Horizon(k, v)' = Horizon(k, v)
    PROVE  UNCHANGED Lww!lwwVars
  <1>1. [i \in Keys \X Values |-> Visible(i[1], i[2])]' =
           [i \in Keys \X Values |-> Visible(i[1], i[2])]
    OBVIOUS
  <1>2. [i \in Keys \X Values |-> Horizon(i[1], i[2])]' =
           [i \in Keys \X Values |-> Horizon(i[1], i[2])]
    OBVIOUS
  <1>3. QED
    BY <1>1, <1>2 DEF Lww!lwwVars

\* So is one that changes neither the settled values nor the settled cutoff.
LEMMA SettledStutters ==
    ASSUME \A k \in Keys : SettledValues(k)' = SettledValues(k),
           SettledCutoff' = SettledCutoff
    PROVE  UNCHANGED Lww!lwwVars
  BY PairsStutter DEF Visible, Horizon

\* The rule of the store for the values S of key k.
StoreRule(k, S, t, content) ==
    \A v \in Values :
        /\ Visible(k, v)' = IF v \in S /\ Horizon(k, v) < t
                            THEN content ELSE Visible(k, v)
        /\ Horizon(k, v)' = IF v \in S /\ Horizon(k, v) < t
                            THEN t ELSE Horizon(k, v)

\* A step that changes the values S of k by the rule of the store, and leaves
\* the other keys and the cutoff alone, is a mutation of the store.
LEMMA SettledMutates ==
    ASSUME NEW k \in Keys, NEW S \in SUBSET Values, NEW t \in Times,
           NEW content \in BOOLEAN, StoreRule(k, S, t, content),
           \A x \in Keys : x # k => SettledValues(x)' = SettledValues(x),
           SettledCutoff' = SettledCutoff
    PROVE  Lww!LwwNext
  <1> DEFINE Pairs == {k} \X S
  <1>1. \A x \in Keys, v \in Values : x # k =>
           Visible(x, v)' = Visible(x, v) /\ Horizon(x, v)' = Horizon(x, v)
    BY DEF Visible, Horizon
  <1>2. ASSUME NEW i \in Keys \X Values
        PROVE  /\ Visible(i[1], i[2])' =
                     IF i \in Pairs /\ Horizon(i[1], i[2]) < t
                     THEN content ELSE Visible(i[1], i[2])
               /\ Horizon(i[1], i[2])' =
                     IF i \in Pairs /\ Horizon(i[1], i[2]) < t
                     THEN t ELSE Horizon(i[1], i[2])
    <2>1. i[1] \in Keys /\ i[2] \in Values /\ (i \in Pairs <=> i[1] = k /\ i[2] \in S)
      OBVIOUS
    <2>2. CASE i[1] = k
      BY <2>1, <2>2 DEF StoreRule
    <2>3. CASE i[1] # k
      BY <1>1, <2>1, <2>3
    <2>4. QED
      BY <2>2, <2>3
  <1>3. Lww!Mutate(Pairs, content, t)
    BY <1>2 DEF Lww!Mutate
  <1>4. Pairs \in SUBSET (Keys \X Values) /\ content \in {TRUE} \cup {FALSE}
    OBVIOUS
  <1>5. QED
    BY <1>3, <1>4 DEF Lww!LwwNext

\* The entries of a key have a time.
LEMMA EntryTimes ==
    ASSUME LocksInv, NEW k \in DOMAIN set_map, NEW v
    PROVE  MetaOf(k, v).last \in Int
  <1>1. v \in DOMAIN set_map[k] => set_map[k][v] \in Meta
    BY DEF LocksInv, TypeOK
  <1>2. QED
    BY <1>1 DEF MetaOf, Meta

\* A mutation leaves the values it does not name alone.
LEMMA OthersStay ==
    ASSUME NEW k, NEW S, NEW t, NEW deleting, NEW v, v \notin S
    PROVE  /\ v \in DOMAIN Mutated(k, S, t, deleting) <=> v \in DOMAIN set_map[k]
           /\ v \in DOMAIN set_map[k] => Mutated(k, S, t, deleting)[v] = set_map[k][v]
  BY DEF Mutated, Newer, MetaOf

\* A key's settled values depend on the map, and on the mutation that has the
\* key lock.
LEMMA ValuesStaySettled ==
    ASSUME LocksInv, NEW th \in Threads, call[th].pc # "apply",
           \A x \in Threads : x # th => call'[x] = call[x],
           NEW k \in Keys, key_lock'[k].writer = key_lock[k].writer,
           k \in DOMAIN set_map' <=> k \in DOMAIN set_map,
           k \in DOMAIN set_map => set_map'[k] = set_map[k]
    PROVE  SettledValues(k)' = SettledValues(k)
  <1>1. key_lock[k].writer \in Threads \cup {NONE}
    BY DEF LocksInv, TypeOK, Lock
  <1>2. key_lock[k].writer \in Threads => call'[key_lock[k].writer] = call[key_lock[k].writer]
    BY DEF LocksInv, KeyLockInv
  <1>3. k \in DOMAIN set_map =>
           \A S, t, deleting : Mutated(k, S, t, deleting)' = Mutated(k, S, t, deleting)
    BY DEF Mutated, Newer, MetaOf
  <1>4. QED
    BY <1>1, <1>2, <1>3 DEF SettledValues

\* The settled cutoff depends on the cutoff, and on the clean-up that has the
\* map lock.
LEMMA CutoffStaysSettled ==
    ASSUME LocksInv, LocksInv', UNCHANGED cutoff, NEW th \in Threads,
           call[th].pc \notin {"visit", "erase"}, call'[th].pc \notin {"visit", "erase"},
           \A x \in Threads : x # th => call'[x] = call[x]
    PROVE  SettledCutoff' = SettledCutoff
  <1>1. /\ map_lock.writer \in Threads \cup {NONE} /\ map_lock'.writer \in Threads \cup {NONE}
        /\ NONE \notin Threads
    BY SetCacheAssumption DEF LocksInv, TypeOK, Lock
  <1>2. ASSUME NEW x \in Threads, call[x].pc \in {"visit", "erase"}
        PROVE  map_lock.writer = x /\ map_lock'.writer = x /\ call'[x] = call[x]
    BY <1>2 DEF LocksInv, MapLockInv
  <1>3. ASSUME NEW x \in Threads, call'[x].pc \in {"visit", "erase"}
        PROVE  map_lock.writer = x /\ map_lock'.writer = x /\ call'[x] = call[x]
    BY <1>3 DEF LocksInv, MapLockInv
  <1>4. CASE \E x \in Threads : call[x].pc \in {"visit", "erase"}
    BY <1>1, <1>2, <1>4 DEF SettledCutoff
  <1>5. CASE ~\E x \in Threads : call[x].pc \in {"visit", "erase"}
    <2>1. SettledCutoff = cutoff
      BY <1>1, <1>5 DEF SettledCutoff
    <2>2. SettledCutoff' = cutoff'
      BY <1>1, <1>3, <1>5 DEF SettledCutoff
    <2>3. QED
      BY <2>1, <2>2
  <1>6. QED
    BY <1>4, <1>5

\* Inserting a key mutates the store at once.
LEMMA InsertRefines ==
    ASSUME LocksInv, LocksInv', NEW th \in Mutators, NEW deleting \in BOOLEAN, NEW k \in Keys,
           NEW S \in SUBSET Values, NEW t \in Times, t > cutoff, k \notin DOMAIN set_map,
           map_lock = Unlocked,
           set_map' = [x \in DOMAIN set_map \cup {k} |->
                          IF x = k THEN [v \in S |-> [last |-> t, is_deleted |-> deleting]]
                          ELSE set_map[x]],
           UNCHANGED <<cutoff, map_lock, key_lock, call>>
    PROVE  Lww!LwwNext
  <1>1. t \in Int /\ cutoff \in Int /\ NONE \notin Threads /\ th \in Threads
    BY SetCacheAssumption DEF LocksInv, TypeOK, Threads
  <1>2. SettledCutoff = cutoff /\ SettledCutoff' = cutoff
    BY DEF SettledCutoff, Unlocked
  <1>3. key_lock[k].writer = NONE
    <2>1. key_lock[k].writer \in Threads \cup {NONE}
      BY DEF LocksInv, TypeOK, Lock
    <2>2. key_lock[k].writer \notin Threads
      BY DEF LocksInv, KeyLockInv, CallInv
    <2>3. QED
      BY <2>1, <2>2
  <1>4. /\ SettledValues(k) = [v \in {} |-> [last |-> 0, is_deleted |-> FALSE]]
        /\ SettledValues(k)' = [v \in S |-> [last |-> t, is_deleted |-> deleting]]
    BY <1>3 DEF SettledValues
  <1>5. ASSUME NEW v \in Values
        PROVE  /\ Visible(k, v) = FALSE /\ Horizon(k, v) = cutoff
               /\ v \in S => /\ Horizon(k, v)' = t
                             /\ deleting = TRUE => Visible(k, v)' = FALSE
                             /\ deleting = FALSE => Visible(k, v)' = TRUE
               /\ v \notin S => Horizon(k, v)' = cutoff /\ Visible(k, v)' = FALSE
    <2>1. v \notin DOMAIN SettledValues(k)
      BY <1>4
    <2>2. Visible(k, v) = FALSE /\ Horizon(k, v) = cutoff
      BY <1>2, <2>1 DEF Visible, Horizon
    <2>3. v \in S => /\ v \in DOMAIN SettledValues(k)'
                     /\ SettledValues(k)'[v].last = t
                     /\ SettledValues(k)'[v].is_deleted = deleting
      BY <1>4
    <2>4. v \in S => Horizon(k, v)' = t
      BY <1>1, <1>2, <2>3 DEF Horizon
    <2>5. v \notin S => v \notin DOMAIN SettledValues(k)'
      BY <1>4
    <2>6. v \notin S => Horizon(k, v)' = cutoff /\ Visible(k, v)' = FALSE
      BY <1>2, <2>5 DEF Visible, Horizon
    <2>7. QED
      BY <2>2, <2>3, <2>4, <2>6 DEF Visible
  <1>6. \A x \in Keys : x # k => SettledValues(x)' = SettledValues(x)
    <2> SUFFICES ASSUME NEW x \in Keys, x # k
                 PROVE  SettledValues(x)' = SettledValues(x)
      OBVIOUS
    <2>1. x \in DOMAIN set_map =>
             \A U, u, d : Mutated(x, U, u, d)' = Mutated(x, U, u, d)
      BY DEF Mutated, Newer, MetaOf
    <2>2. QED
      BY <2>1 DEF SettledValues
  <1>7. CASE deleting = TRUE
    <2>1. StoreRule(k, S, t, FALSE)
      BY ZenonT(30), <1>1, <1>5, <1>7 DEF StoreRule
    <2>2. QED
      BY ZenonT(30), <1>2, <1>6, <2>1, SettledMutates
  <1>8. CASE deleting = FALSE
    <2>1. StoreRule(k, S, t, TRUE)
      BY ZenonT(30), <1>1, <1>5, <1>8 DEF StoreRule
    <2>2. QED
      BY ZenonT(30), <1>2, <1>6, <2>1, SettledMutates
  <1>9. QED
    BY <1>7, <1>8

\* Getting the key lock is what makes the mutation of a present key count.
LEMMA LockKeyRefines ==
    ASSUME LocksInv, LocksInv', NEW th \in Mutators, LockKey(th)
    PROVE  Lww!LwwNext
  <1>0. /\ th \in Threads /\ call[th].pc = "lock_key" /\ call[th] \in Call
        /\ call[th].key \in Keys /\ call[th].time \in Times
        /\ call[th].values \in SUBSET Values /\ call[th].deleting \in BOOLEAN
    BY DEF LockKey, Threads, LocksInv, TypeOK, CallInv, Call
  <1> PICK k \in Keys, S \in SUBSET Values, t \in Times, deleting \in BOOLEAN :
           /\ call[th].key = k /\ call[th].values = S /\ call[th].time = t
           /\ call[th].deleting = deleting
    BY <1>0
  <1>1. /\ th \in Threads /\ NONE \notin Threads
        /\ k \in DOMAIN set_map /\ t \in Int
        /\ cutoff \in Int /\ t > cutoff /\ cutoff >= 0
    BY <1>0, SetCacheAssumption DEF LocksInv, TypeOK, CallInv
  <1>2. /\ key_lock[k] = Unlocked
        /\ key_lock' = [key_lock EXCEPT ![k] = LockedBy(th)]
        /\ map_lock' = Unlocked
        /\ call' = [call EXCEPT ![th].pc = "apply"]
        /\ UNCHANGED <<set_map, cutoff>>
    BY DEF LockKey, shared
  <1>3. SettledCutoff = cutoff /\ SettledCutoff' = cutoff
    <2>1. map_lock.writer = th
      BY <1>0 DEF LocksInv, MapLockInv
    <2>2. QED
      BY <1>0, <1>2, <2>1 DEF SettledCutoff, Unlocked
  <1>4. /\ SettledValues(k) = set_map[k]
        /\ SettledValues(k)' = Mutated(k, S, t, deleting)
    <2>1. key_lock[k].writer = NONE /\ key_lock'[k].writer = th
      BY <1>1, <1>2 DEF Unlocked, LockedBy, LocksInv, TypeOK
    <2>2. /\ call'[th].values = S /\ call'[th].time = t /\ call'[th].deleting = deleting
      BY <1>0, <1>2 DEF LocksInv, TypeOK, Call
    <2>3. \A x, U, u, d : Mutated(x, U, u, d)' = Mutated(x, U, u, d)
      BY <1>2 DEF Mutated, Newer, MetaOf
    <2>4. QED
      BY <1>1, <1>2, <2>1, <2>2, <2>3 DEF SettledValues
  <1>5. \A x \in Keys : x # k => SettledValues(x)' = SettledValues(x)
    <2> SUFFICES ASSUME NEW x \in Keys, x # k
                 PROVE  SettledValues(x)' = SettledValues(x)
      OBVIOUS
    <2>1. key_lock'[x].writer = key_lock[x].writer /\ \A y \in Threads : y # th => call'[y] = call[y]
      BY <1>1, <1>2 DEF LocksInv, TypeOK
    <2>2. QED
      BY <1>0, <1>2, <2>1, ValuesStaySettled
  <1>6. ASSUME NEW v \in Values
        PROVE  /\ v \in S /\ Horizon(k, v) < t =>
                     /\ Horizon(k, v)' = t
                     /\ deleting = TRUE => Visible(k, v)' = FALSE
                     /\ deleting = FALSE => Visible(k, v)' = TRUE
               /\ ~(v \in S /\ Horizon(k, v) < t) =>
                     Horizon(k, v)' = Horizon(k, v) /\ Visible(k, v)' = Visible(k, v)
    <2>1. MetaOf(k, v).last \in Int
      BY <1>1, EntryTimes
    <2>2. v \in S => (Horizon(k, v) < t <=> v \in Newer(k, S, t))
      <3>1. v \in S => (v \in Newer(k, S, t) <=> MetaOf(k, v).last < t)
        BY DEF Newer
      <3>2. MetaOf(k, v).last < t <=> Horizon(k, v) < t
        BY <1>1, <1>3, <1>4, <2>1 DEF Horizon, MetaOf
      <3>3. QED
        BY <3>1, <3>2
    <2>3. CASE v \in S /\ v \in Newer(k, S, t)
      <3>1. /\ v \in DOMAIN SettledValues(k)'
            /\ SettledValues(k)'[v].last = t
            /\ SettledValues(k)'[v].is_deleted = deleting
        <4>1. /\ v \in DOMAIN Mutated(k, S, t, deleting)
              /\ Mutated(k, S, t, deleting)[v] = [last |-> t, is_deleted |-> deleting]
          BY <2>3 DEF Mutated
        <4>2. QED
          BY <1>4, <4>1
      <3>2. Horizon(k, v)' = t
        BY <1>1, <1>3, <3>1 DEF Horizon
      <3>3. QED
        BY <2>2, <2>3, <3>1, <3>2 DEF Visible
    <2>4. CASE v \in S /\ v \notin Newer(k, S, t)
      <3>1. v \in DOMAIN set_map[k] /\ MetaOf(k, v) = set_map[k][v]
        BY <1>1, <2>1, <2>4 DEF MetaOf, Newer
      <3>2. v \in DOMAIN SettledValues(k)' /\ SettledValues(k)'[v] = set_map[k][v]
        BY <1>4, <2>4, <3>1 DEF Mutated
      <3>3. Visible(k, v)' = Visible(k, v) /\ Horizon(k, v)' = Horizon(k, v)
        BY <1>3, <1>4, <3>1, <3>2 DEF Visible, Horizon
      <3>4. QED
        BY <2>2, <2>4, <3>3
    <2>5. CASE v \notin S
      <3>1. /\ v \in DOMAIN SettledValues(k)' <=> v \in DOMAIN SettledValues(k)
            /\ v \in DOMAIN SettledValues(k) => SettledValues(k)'[v] = SettledValues(k)[v]
        BY <1>4, <2>5, OthersStay
      <3>2. Visible(k, v)' = Visible(k, v) /\ Horizon(k, v)' = Horizon(k, v)
        BY <1>3, <3>1 DEF Visible, Horizon
      <3>3. QED
        BY <2>5, <3>2
    <2>6. QED
      BY <2>3, <2>4, <2>5
  <1>7. CASE deleting = TRUE
    <2>1. StoreRule(k, S, t, FALSE)
      BY ZenonT(30), <1>6, <1>7 DEF StoreRule
    <2>2. QED
      BY ZenonT(30), <1>3, <1>5, <2>1, SettledMutates
  <1>8. CASE deleting = FALSE
    <2>1. StoreRule(k, S, t, TRUE)
      BY ZenonT(30), <1>6, <1>8 DEF StoreRule
    <2>2. QED
      BY ZenonT(30), <1>3, <1>5, <2>1, SettledMutates
  <1>9. QED
    BY ZenonT(30), <1>7, <1>8

\* The steps of a thread that is not cleaning up, nor in the loop over the
\* values, are stutters when they leave map and cutoff alone.
LEMMA QuietStepStutters ==
    ASSUME LocksInv, LocksInv', NEW th \in Threads, UNCHANGED <<set_map, cutoff>>,
           call[th].pc \notin {"apply", "visit", "erase"},
           call'[th].pc \notin {"visit", "erase"},
           \A x \in Threads : x # th => call'[x] = call[x],
           \A k \in Keys : key_lock'[k].writer = key_lock[k].writer
    PROVE  UNCHANGED Lww!lwwVars
  <1>1. \A k \in Keys : SettledValues(k)' = SettledValues(k)
    BY ValuesStaySettled
  <1>2. SettledCutoff' = SettledCutoff
    BY CutoffStaysSettled
  <1>3. QED
    BY <1>1, <1>2, SettledStutters

\* The loop over the values writes what was settled when the lock was taken.
LEMMA ApplyStutters ==
    ASSUME LocksInv, LocksInv', NEW th \in Mutators, ApplyToValues(th)
    PROVE  UNCHANGED Lww!lwwVars
  <1>1. th \in Threads /\ ApplyStep(th) /\ NONE \notin Threads
    BY ApplyEffect, SetCacheAssumption DEF Threads
  <1>2. SettledCutoff' = SettledCutoff
    BY <1>1, CutoffStaysSettled DEF ApplyStep
  <1>3. ASSUME NEW k \in Keys, k = call[th].key
        PROVE  SettledValues(k)' = SettledValues(k)
    <2>0. DOMAIN key_lock = Keys
      BY DEF LocksInv, TypeOK
    <2>1. /\ k \in DOMAIN set_map' /\ key_lock'[k] = Unlocked
          /\ set_map'[k] = Mutated(k, call[th].values, call[th].time, call[th].deleting)
      BY <1>1, <1>3, <2>0 DEF ApplyStep
    <2>2. k \in DOMAIN set_map /\ key_lock[k].writer = th
      BY <1>1, <1>3 DEF ApplyStep
    <2>3. SettledValues(k) = Mutated(k, call[th].values, call[th].time, call[th].deleting)
      BY <1>1, <2>2 DEF SettledValues
    <2>4. SettledValues(k)' = set_map'[k]
      BY <2>1 DEF SettledValues, Unlocked
    <2>5. QED
      BY <2>1, <2>3, <2>4
  <1>4. ASSUME NEW k \in Keys, k # call[th].key
        PROVE  SettledValues(k)' = SettledValues(k)
    <2>1. /\ key_lock'[k] = key_lock[k] /\ DOMAIN set_map' = DOMAIN set_map
          /\ k \in DOMAIN set_map => set_map'[k] = set_map[k]
      <3>1. DOMAIN key_lock = Keys
        BY DEF LocksInv, TypeOK
      <3>2. QED
        BY <1>1, <1>4, <3>1 DEF ApplyStep
    <2>2. key_lock[k].writer \in Threads \cup {NONE} /\ key_lock[k].writer # th
      <3>1. key_lock[k].writer \in Threads \cup {NONE}
        BY DEF LocksInv, TypeOK, Lock
      <3>2. key_lock[k].writer # th
        BY <1>1, <1>4 DEF LocksInv, KeyLockInv
      <3>3. QED
        BY <3>1, <3>2
    <2>3. key_lock[k].writer \in Threads =>
             call'[key_lock[k].writer] = call[key_lock[k].writer]
      BY <1>1, <2>2 DEF ApplyStep
    <2>4. k \in DOMAIN set_map =>
             \A U, u, d : Mutated(k, U, u, d)' = Mutated(k, U, u, d)
      BY <2>1 DEF Mutated, Newer, MetaOf
    <2>5. QED
      BY <2>1, <2>2, <2>3, <2>4 DEF SettledValues
  <1>5. QED
    BY <1>2, <1>3, <1>4, SettledStutters

\* While a clean-up at t goes on, and when it ends, the settled cutoff is the
\* one it will leave.
LEMMA CleanUpCutoff ==
    ASSUME LocksInv, NEW th \in Threads, NEW t \in Int, NEW todo \in SUBSET Keys,
           VisitStep(th, t, todo)
    PROVE  SettledCutoff' = IF cutoff < t THEN t ELSE cutoff
  <1>1. NONE \notin Threads /\ cutoff \in Int
    BY SetCacheAssumption DEF LocksInv, TypeOK
  <1>2. CASE todo = {}
    BY <1>1, <1>2 DEF VisitStep, SettledCutoff, Unlocked
  <1>3. CASE todo # {}
    <2>1. /\ map_lock'.writer = th /\ call'[th].pc = "visit" /\ call'[th].time = t
          /\ cutoff' = cutoff
      BY <1>3 DEF VisitStep, LockedBy
    <2>2. QED
      BY <1>1, <2>1 DEF SettledCutoff
  <1>4. QED
    BY <1>2, <1>3

\* A clean-up in progress at call[th].time has settled the cutoff.
LEMMA CleaningCutoff ==
    ASSUME LocksInv, NEW th \in Threads, call[th].pc \in {"visit", "erase"}
    PROVE  /\ call[th].time \in Int /\ cutoff \in Int
           /\ SettledCutoff = IF cutoff < call[th].time THEN call[th].time ELSE cutoff
  <1>1. map_lock.writer = th /\ th # NONE
    BY SetCacheAssumption DEF LocksInv, MapLockInv
  <1>2. call[th].time \in Int /\ cutoff \in Int
    BY DEF LocksInv, TypeOK, Call
  <1>3. QED
    BY <1>1, <1>2 DEF SettledCutoff

\* Getting the map lock is what makes a clean-up count.
LEMMA CleanUpRefines ==
    ASSUME LocksInv, NEW th \in Cleaners, NEW t \in Times, CleanUpKeyValueSetMap(th, t)
    PROVE  Lww!LwwNext
  <1>1. th \in Threads /\ t \in Int /\ cutoff \in Int /\ IndexedKeys(t) \in SUBSET Keys
    BY SetCacheAssumption DEF Threads, IndexedKeys, LocksInv, TypeOK
  <1>2. /\ call[th].pc = "idle" /\ map_lock = Unlocked
        /\ VisitStep(th, t, IndexedKeys(t))
        /\ UNCHANGED <<set_map, key_lock>>
    BY <1>1, VisitNextEffect DEF CleanUpKeyValueSetMap
  <1>3. SettledCutoff = cutoff /\ SettledCutoff' = IF cutoff < t THEN t ELSE cutoff
    BY <1>1, <1>2, CleanUpCutoff DEF SettledCutoff, Unlocked
  <1>4. \A k \in Keys : SettledValues(k)' = SettledValues(k)
    BY <1>1, <1>2, ValuesStaySettled DEF VisitStep
  <1>5. ASSUME NEW k \in Keys, NEW v \in Values
        PROVE  /\ Visible(k, v)' = Visible(k, v)
               /\ Horizon(k, v)' = IF Horizon(k, v) < t THEN t ELSE Horizon(k, v)
    <2>1. Visible(k, v)' = Visible(k, v)
      BY <1>4 DEF Visible
    <2>2. v \in DOMAIN SettledValues(k) => SettledValues(k)[v].last \in Int
      <3>1. \A x \in DOMAIN set_map : \A w : MetaOf(x, w).last \in Int
        BY EntryTimes
      <3>2. CASE k \in DOMAIN set_map /\ key_lock[k].writer # NONE
        <4>1. key_lock[k].writer \in Threads
          BY <3>2 DEF LocksInv, TypeOK, Lock
        <4>2. call[key_lock[k].writer].time \in Int
          BY <4>1 DEF LocksInv, TypeOK, Call
        <4>3. QED
          BY <3>1, <3>2, <4>2 DEF SettledValues, Mutated
      <3>3. CASE ~(k \in DOMAIN set_map /\ key_lock[k].writer # NONE)
        BY <3>3 DEF SettledValues, LocksInv, TypeOK, Meta
      <3>4. QED
        BY <3>2, <3>3
    <2>3. QED
      BY <1>1, <1>3, <1>4, <2>1, <2>2 DEF Horizon
  <1>6. [i \in Keys \X Values |-> Visible(i[1], i[2])]' =
           [i \in Keys \X Values |-> Visible(i[1], i[2])]
    BY <1>5
  <1>7. [i \in Keys \X Values |-> Horizon(i[1], i[2])]' =
           [i \in Keys \X Values |->
               IF [j \in Keys \X Values |-> Horizon(j[1], j[2])][i] < t
               THEN t ELSE [j \in Keys \X Values |-> Horizon(j[1], j[2])][i]]
    BY <1>5
  <1>8. QED
    BY <1>6, <1>7 DEF Lww!LwwNext, Lww!Advance

\* Visiting a key changes nothing a reader sees.
LEMMA VisitStutters ==
    ASSUME LocksInv, LocksInv', NEW th \in Cleaners, VisitKey(th)
    PROVE  UNCHANGED Lww!lwwVars
  <1> DEFINE c == call[th]
  <1>1. /\ th \in Threads /\ c.pc = "visit" /\ c \in Call
        /\ c.time \in Int /\ c.todo \in SUBSET Keys
        /\ UNCHANGED <<set_map, key_lock>>
    BY DEF Threads, VisitKey, LocksInv, TypeOK, Call
  <1>2. SettledCutoff = IF cutoff < c.time THEN c.time ELSE cutoff
    BY <1>1, CleaningCutoff
  <1>3. CASE c.key \in DOMAIN set_map
    <2>1. /\ call' = [call EXCEPT ![th].pc = "erase"]
          /\ UNCHANGED cutoff
      BY <1>3 DEF VisitKey
    <2>2. /\ call'[th].pc = "erase" /\ call'[th].time = c.time
          /\ \A x \in Threads : x # th => call'[x] = call[x]
      BY <1>1, <2>1 DEF LocksInv, TypeOK, Call
    <2>3. map_lock'.writer = th /\ th # NONE /\ cutoff \in Int
      BY <1>1, <2>2, SetCacheAssumption DEF LocksInv, MapLockInv, TypeOK
    <2>4. SettledCutoff' = SettledCutoff
      BY <1>1, <1>2, <2>1, <2>2, <2>3 DEF SettledCutoff
    <2>5. \A k \in Keys : SettledValues(k)' = SettledValues(k)
      BY <1>1, <2>2, ValuesStaySettled
    <2>6. QED
      BY <2>4, <2>5, SettledStutters
  <1>4. CASE c.key \notin DOMAIN set_map
    <2>1. VisitStep(th, c.time, c.todo)
      BY <1>1, <1>4, VisitNextEffect DEF VisitKey
    <2>2. SettledCutoff' = SettledCutoff
      BY <1>1, <1>2, <2>1, CleanUpCutoff
    <2>3. \A k \in Keys : SettledValues(k)' = SettledValues(k)
      BY <1>1, <2>1, ValuesStaySettled DEF VisitStep
    <2>4. QED
      BY <2>2, <2>3, SettledStutters
  <1>5. QED
    BY <1>3, <1>4

\* Nor does erasing values: they were deleted, at or below the settled cutoff.
LEMMA EraseStutters ==
    ASSUME LocksInv, NEW th \in Cleaners, EraseValues(th)
    PROVE  UNCHANGED Lww!lwwVars
  <1> DEFINE c == call[th]
  <1>1. th \in Threads /\ EraseStep(th) /\ VisitStep(th, c.time, c.todo)
    BY EraseEffect DEF Threads, EraseStep
  <1>2. /\ c.pc = "erase" /\ c.time \in Int /\ c.todo \in SUBSET Keys
        /\ c.key \in Keys /\ c.key \in DOMAIN set_map
        /\ UNCHANGED <<key_lock, result>>
    BY Zenon, <1>1 DEF EraseStep
  <1>3. /\ cutoff \in Int
        /\ SettledCutoff = IF cutoff < c.time THEN c.time ELSE cutoff
    BY <1>1, <1>2, CleaningCutoff
  <1>4. SettledCutoff' = SettledCutoff
    BY <1>1, <1>2, <1>3, CleanUpCutoff
  <1>5. ASSUME NEW k \in Keys, NEW v \in Values, k # c.key
        PROVE  Visible(k, v)' = Visible(k, v) /\ Horizon(k, v)' = Horizon(k, v)
    <2>1. SettledValues(k)' = SettledValues(k)
      BY ZenonT(30), <1>1, <1>2, <1>5, ValuesStaySettled DEF EraseStep, VisitStep
    <2>2. QED
      BY <1>4, <2>1 DEF Visible, Horizon
  <1>6. ASSUME NEW k \in Keys, NEW v \in Values, k = c.key
        PROVE  Visible(k, v)' = Visible(k, v) /\ Horizon(k, v)' = Horizon(k, v)
    <2> DEFINE left == DOMAIN set_map[k] \ Reclaimed(k, c.time)
    <2>0. /\ left = {} => k \notin DOMAIN set_map'
          /\ left # {} => /\ k \in DOMAIN set_map' /\ DOMAIN set_map'[k] = left
                          /\ \A x \in left : set_map'[k][x] = set_map[k][x]
      BY Zenon, <1>1, <1>6, ErasedKey
    <2>1. key_lock[k].writer = NONE /\ key_lock'[k].writer = NONE /\ k \in DOMAIN set_map
      BY <1>1, <1>2, <1>6 DEF LocksInv, CallInv
    <2>2. SettledValues(k) = set_map[k]
      BY <2>1 DEF SettledValues
    <2>3. /\ v \in DOMAIN SettledValues(k)' <=>
                v \in DOMAIN set_map[k] /\ v \notin Reclaimed(k, c.time)
          /\ v \in DOMAIN SettledValues(k)' => SettledValues(k)'[v] = set_map[k][v]
      <3>1. CASE left = {}
        <4>1. DOMAIN SettledValues(k)' = {}
          BY <2>0, <3>1 DEF SettledValues
        <4>2. QED
          BY <3>1, <4>1
      <3>2. CASE left # {}
        <4>1. SettledValues(k)' = set_map'[k]
          BY <2>0, <2>1, <3>2 DEF SettledValues
        <4>2. QED
          BY <2>0, <3>2, <4>1
      <3>3. QED
        BY Zenon, <3>1, <3>2
    <2>4. CASE v \in DOMAIN set_map[k] /\ v \in Reclaimed(k, c.time)
      <3>1. /\ set_map[k][v].is_deleted /\ set_map[k][v].last <= c.time
            /\ set_map[k][v].last \in Int
        BY <2>1, <2>4 DEF Reclaimed, LocksInv, TypeOK, Meta
      <3>2. ~(set_map[k][v].last > SettledCutoff)
        BY <1>2, <1>3, <3>1
      <3>3. QED
        BY <1>4, <2>2, <2>3, <2>4, <3>1, <3>2 DEF Visible, Horizon
    <2>5. CASE ~(v \in DOMAIN set_map[k] /\ v \in Reclaimed(k, c.time))
      BY <1>4, <2>2, <2>3, <2>5 DEF Visible, Horizon
    <2>6. QED
      BY <2>4, <2>5
  <1>7. QED
    BY Zenon, <1>5, <1>6, PairsStutter

\* KeyValueSetCache implements LastWriterWins for (key, value) pairs: mutations
\* and clean-ups that let go of locks half-way are atomic to the readers, and
\* no interleaving of theirs shows a superseded value.
THEOREM SetRefinement == Spec => SetRefinesLastWriterWins
  <1>1. Init => Lww!LwwInit
    <2> SUFFICES ASSUME Init
                 PROVE  Lww!LwwInit
      OBVIOUS
    <2>1. SettledCutoff = 0
      BY DEF Init, SettledCutoff, Unlocked, InitialCutoff
    <2>2. \A k \in Keys : DOMAIN SettledValues(k) = {}
      BY DEF Init, SettledValues
    <2>3. \A k \in Keys, v \in Values : Visible(k, v) = FALSE /\ Horizon(k, v) = 0
      BY <2>1, <2>2 DEF Visible, Horizon
    <2>4. QED
      BY ZenonT(30), <2>3 DEF Lww!LwwInit
  <1>2. LocksInv /\ LocksInv' /\ [Next]_vars => [Lww!LwwNext]_Lww!lwwVars
    <2> SUFFICES ASSUME LocksInv, LocksInv', [Next]_vars
                 PROVE  Lww!LwwNext \/ UNCHANGED Lww!lwwVars
      OBVIOUS
    <2>1. CASE UNCHANGED vars
      <3>1. \A k \in Keys : SettledValues(k)' = SettledValues(k)
        <4>1. UNCHANGED <<set_map, key_lock, call>>
          BY <2>1 DEF vars
        <4>2. QED
          BY <4>1 DEF SettledValues, Mutated, Newer, MetaOf
      <3>2. SettledCutoff' = SettledCutoff
        BY <2>1 DEF vars, SettledCutoff
      <3>3. QED
        BY <3>1, <3>2, SettledStutters
    <2>2. ASSUME NEW th \in Mutators, NEW deleting \in BOOLEAN, NEW k \in Keys,
                 NEW S \in SUBSET Values, NEW t \in Times,
                 BeginMutation(th, deleting, k, S, t)
          PROVE  Lww!LwwNext \/ UNCHANGED Lww!lwwVars
      <3>1. CASE InsertStep(deleting, k, S, t)
        <4>1. /\ t > cutoff /\ k \notin DOMAIN set_map /\ map_lock = Unlocked
              /\ set_map' = [x \in DOMAIN set_map \cup {k} |->
                               IF x = k
                               THEN [v \in S |-> [last |-> t, is_deleted |-> deleting]]
                               ELSE set_map[x]]
              /\ UNCHANGED <<cutoff, map_lock, key_lock, call>>
          BY <3>1 DEF InsertStep
        <4>2. QED
          BY ZenonT(30), <4>1, InsertRefines
      <3>2. CASE AwaitKeyStep(th, deleting, k, S, t)
        <4>1. /\ th \in Threads /\ call[th].pc = "idle"
              /\ call' = [call EXCEPT ![th] =
                             [pc |-> "lock_key", deleting |-> deleting, key |-> k,
                              values |-> S, time |-> t, todo |-> {}]]
              /\ UNCHANGED <<set_map, cutoff, key_lock>>
          BY <3>2 DEF AwaitKeyStep, Threads
        <4>2. call'[th].pc = "lock_key" /\ \A x \in Threads : x # th => call'[x] = call[x]
          BY <4>1 DEF LocksInv, TypeOK
        <4>3. QED
          BY <4>1, <4>2, QuietStepStutters
      <3>3. QED
        BY Zenon, <2>1, <2>2, <3>1, <3>2, BeginEffect
    <2>3. ASSUME NEW th \in Mutators, WaitForMapLock(th)
          PROVE  UNCHANGED Lww!lwwVars
      <3>1. /\ th \in Threads /\ call[th].pc = "index" /\ call'[th].pc = "index_waiting"
            /\ \A x \in Threads : x # th => call'[x] = call[x]
            /\ UNCHANGED <<set_map, cutoff, key_lock>>
        BY <2>3 DEF WaitForMapLock, shared, Threads, LocksInv, TypeOK
      <3>2. QED
        BY <3>1, QuietStepStutters
    <2>4. ASSUME NEW th \in Mutators, IndexDeletedValues(th)
          PROVE  UNCHANGED Lww!lwwVars
      <3>1. /\ th \in Threads /\ call[th].pc \in {"index", "index_waiting"}
            /\ call'[th].pc = "idle"
            /\ \A x \in Threads : x # th => call'[x] = call[x]
            /\ UNCHANGED <<set_map, cutoff, key_lock>>
        BY <2>4 DEF IndexDeletedValues, Return, Idle, At, Threads, LocksInv, TypeOK
      <3>2. QED
        BY <3>1, QuietStepStutters
    <2>5. ASSUME NEW th \in Readers, NEW rest \in SUBSET Keys, NEW first \in rest,
                 GetKeyValueSet(th, first, rest)
          PROVE  UNCHANGED Lww!lwwVars
      <3>1. /\ th \in Threads /\ call[th].pc = "idle" /\ call'[th].pc = "read"
            /\ \A x \in Threads : x # th => call'[x] = call[x]
            /\ UNCHANGED <<set_map, cutoff, key_lock>>
        BY <2>5 DEF GetKeyValueSet, At, shared, Threads, LocksInv, TypeOK
      <3>2. QED
        BY <3>1, QuietStepStutters
    <2>6. ASSUME NEW th \in Readers, ReadKey(th)
          PROVE  UNCHANGED Lww!lwwVars
      <3>1. th \in Threads /\ ReadStep(th)
        BY <2>6, ReadKeyEffect DEF Threads
      <3>2. \A k \in Keys : key_lock'[k].writer = key_lock[k].writer
        BY <3>1 DEF ReadStep, LocksInv, TypeOK, Lock
      <3>3. QED
        BY <3>1, <3>2, QuietStepStutters DEF ReadStep
    <2>7. ASSUME NEW th \in Readers, DestroyResult(th)
          PROVE  UNCHANGED Lww!lwwVars
      <3>1. /\ th \in Threads /\ call[th].pc = "holding" /\ call'[th].pc = "idle"
            /\ \A x \in Threads : x # th => call'[x] = call[x]
            /\ UNCHANGED <<set_map, cutoff>>
            /\ key_lock' = [k \in Keys |-> [key_lock[k] EXCEPT !.readers = @ \ {th}]]
        BY <2>7 DEF DestroyResult, Return, Idle, At, shared, Threads, LocksInv, TypeOK
      <3>2. \A k \in Keys : key_lock'[k].writer = key_lock[k].writer
        BY <3>1 DEF LocksInv, TypeOK, Lock
      <3>3. QED
        BY ZenonT(30), <3>1, <3>2, QuietStepStutters
    <2>8. QED
      BY ZenonT(30), <2>1, <2>2, <2>3, <2>4, <2>5, <2>6, <2>7,
         LockKeyRefines, ApplyStutters, CleanUpRefines, VisitStutters, EraseStutters
         DEF Next, Mutate, Read, CleanUp, UpdateKeyValueSet, DeleteValuesInSet
  <1>3. QED
    BY <1>1, <1>2, LocksAreHeld, PTL DEF Spec, SetRefinesLastWriterWins, Lww!LwwSpec
=============================================================================
