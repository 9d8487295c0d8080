--------------------------- MODULE UdfClientProofs ---------------------------
(***************************************************************************)
(* Proofs, for any configs, calls and numbers of threads, that ExecuteCode *)
(* answers with its own result, that the version in use is one Roma has,   *)
(* and what a call of SetCodeObject that no other overlaps guarantees: the *)
(* fields belong together after it, and the commit time it stores is       *)
(* higher than the one it finds.                                           *)
(*                                                                         *)
(* FieldsAgree speaks of the moments between calls of SetCodeObject.       *)
(* SoleInv says how far the three assignments of a call that runs alone    *)
(* are, and that its config is newer than the commit time in use.  It is   *)
(* inductive because two calls past the check make each other not alone    *)
(* (AloneInv); what such calls store is left open, but then mixed is set.  *)
(***************************************************************************)
EXTENDS UdfClient, SequenceTheorems, TLAPS

SetterPcs == {"check", "load", "waiting", "handler", "time", "version"}
Setter == [pc : SetterPcs, record : Nat, alone : BOOLEAN]
Notes == {"none", "ok", "error"}
Load == [worker : Workers, record : Nat]

\* TypeOK by groups of variables, those of the workers in full.
FieldsShape ==
    handler_name \in Handlers /\ version \in Versions /\ logical_commit_time \in Int

LoadedShape == loaded \in [Versions -> Configs \cup {NoCode}]

LoadsShape ==
    /\ loads \in Seq(Load)
    /\ \A i \in DOMAIN loads : loads[i].record \in DOMAIN Share[loads[i].worker]

SetterShape ==
    /\ setter \in [Workers -> Setter]
    /\ \A w \in Workers : setter[w].record \in 1 .. Len(Share[w]) + 1

NoteShape ==
    /\ note = [w \in Workers |-> note[w]]
    /\ \A w \in Workers : note[w] \in [DOMAIN Share[w] -> Notes]

UdfShape ==
    /\ FieldsShape /\ running \in BOOLEAN /\ mixed \in BOOLEAN /\ LoadedShape /\ LoadsShape
    /\ SetterShape /\ NoteShape /\ call \in [Calls -> Call]

\* The callback of an invocation stores the response before it notifies.
ResponseFirst(r) ==
    /\ r.cb \in {"written", "notified"} => r.result \in {"own", "failed"}
    /\ r.pc = "ok" => r.cb = "notified" /\ r.result = "own"

CallInv == \A c \in Calls : ResponseFirst(call[c])

AnswerInv == UdfShape /\ CallInv

\* Roma has code for a version once its callback said so.
LoadedInv ==
    \A w \in Workers : \A i \in DOMAIN Share[w] :
        note[w][i] = "ok" => loaded[Share[w][i].version] # NoCode

\* A call past the check has a record and, from its first assignment on, its code.
StoresLoaded(w) ==
    /\ setter[w].pc # "check" => HasRecord(w)
    /\ setter[w].pc \in {"handler", "time", "version"} => loaded[Config(w).version] # NoCode

\* Two calls past the check are not alone.
AloneInv ==
    \A w, u \in Workers :
        w # u /\ setter[w].pc # "check" /\ setter[u].pc # "check" => ~setter[w].alone

\* How far the assignments of a call that runs alone are.
SoleInv(w) ==
    setter[w].alone =>
        /\ setter[w].pc \in {"load", "waiting", "handler", "time"} =>
              logical_commit_time < Config(w).time
        /\ setter[w].pc \in {"time", "version"} => handler_name = Config(w).handler
        /\ setter[w].pc = "version" => logical_commit_time = Config(w).time

\* The three fields belong to one config.
Agree ==
    \E c \in Configs :
        handler_name = c.handler /\ logical_commit_time = c.time /\ version = c.version

FieldsInv ==
    /\ AnswerInv /\ LoadedInv /\ AloneInv
    /\ loaded[version] # NoCode
    /\ \A w \in Workers : StoresLoaded(w) /\ SoleInv(w)
    /\ mixed \/ Agree \/ \E w \in Workers : setter[w].pc \in {"time", "version"}

\* The shape is a strengthening of the type invariant.
LEMMA ShapeIsTyped == UdfShape => TypeOK
  <1> SUFFICES ASSUME UdfShape PROVE TypeOK
    OBVIOUS
  <1>1. ASSUME NEW i \in DOMAIN loads PROVE loads[i].worker \in Workers
    <2>1. loads[i] \in Load
      BY <1>1 DEF UdfShape, LoadsShape
    <2> QED
      BY <2>1 DEF Load
  <1>2. running \in BOOLEAN /\ mixed \in BOOLEAN /\ call \in [Calls -> Call]
    BY DEF UdfShape
  <1>3. \A w \in Workers : setter[w].alone \in BOOLEAN
    BY DEF UdfShape, SetterShape, Setter
  <1> QED
    BY <1>1, <1>2, <1>3
       DEF UdfShape, FieldsShape, LoadedShape, SetterShape, NoteShape, Notes, TypeOK

\* The records of a worker are configs.
LEMMA SharesAreConfigs ==
    ASSUME UdfAssumption, NEW w \in Workers
    PROVE  /\ Len(Share[w]) \in Nat /\ DOMAIN Share[w] = 1 .. Len(Share[w])
           /\ \A i \in DOMAIN Share[w] :
                 /\ Share[w][i] \in Configs /\ Share[w][i].version \in Versions
                 /\ Share[w][i].handler \in Handlers /\ Share[w][i].time \in Int
  <1>1. Share[w] \in Seq(Configs)
    BY DEF UdfAssumption
  <1>2. Len(Share[w]) \in Nat /\ DOMAIN Share[w] = 1 .. Len(Share[w])
    BY <1>1
  <1>3. \A i \in DOMAIN Share[w] : Share[w][i] \in Configs
    BY <1>1
  <1>4. \A c \in Configs : c.version \in Versions /\ c.handler \in Handlers /\ c.time \in Int
    BY DEF UdfAssumption, Versions, Handlers
  <1> QED
    BY <1>2, <1>3, <1>4

\* So is the one a worker stands at.
LEMMA ConfigIsConfig ==
    ASSUME UdfAssumption, SetterShape, NEW w \in Workers, HasRecord(w)
    PROVE  /\ setter[w].record \in DOMAIN Share[w] /\ Config(w) = Share[w][setter[w].record]
           /\ Config(w) \in Configs /\ Config(w).version \in Versions
           /\ Config(w).handler \in Handlers /\ Config(w).time \in Int
  <1>1. setter[w].record \in DOMAIN Share[w]
    BY SharesAreConfigs DEF SetterShape, HasRecord
  <1> QED
    BY <1>1, SharesAreConfigs DEF Config

\* What a step of the worker w does to the record of another one, u.
Bystander(u) ==
    /\ setter'[u].pc = setter[u].pc /\ setter'[u].record = setter[u].record
    /\ setter'[u].alone => setter[u].alone

\* The ways in which a worker goes on.
LEMMA GotoMoves ==
    ASSUME UdfAssumption, SetterShape, NEW w \in Workers, NEW pc \in SetterPcs, Goto(w, pc)
    PROVE  /\ SetterShape' /\ setter'[w].pc = pc /\ setter'[w].record = setter[w].record
           /\ setter'[w].alone = setter[w].alone
           /\ \A u \in Workers \ {w} : setter'[u] = setter[u]
  <1> DEFINE next == [setter[w] EXCEPT !.pc = pc]
  <1>1. setter \in [Workers -> Setter] /\ setter[w] \in Setter
    BY DEF SetterShape
  <1>2. setter' = [setter EXCEPT ![w] = next]
    BY DEF Goto
  <1>3. /\ next \in Setter /\ next.pc = pc /\ next.record = setter[w].record
        /\ next.alone = setter[w].alone
    BY <1>1 DEF Setter
  <1> HIDE DEF next
  <1>4. /\ setter' \in [Workers -> Setter] /\ setter'[w] = next
        /\ \A u \in Workers \ {w} : setter'[u] = setter[u]
    BY <1>1, <1>2, <1>3
  <1>5. \A u \in Workers : setter'[u].record \in 1 .. Len(Share[u]) + 1
    BY <1>3, <1>4 DEF SetterShape
  <1> QED
    BY <1>3, <1>4, <1>5 DEF SetterShape

LEMMA NextRecordMoves ==
    ASSUME UdfAssumption, SetterShape, NEW w \in Workers, HasRecord(w), NextRecord(w)
    PROVE  /\ SetterShape' /\ setter'[w].pc = "check"
           /\ \A u \in Workers \ {w} : setter'[u] = setter[u]
  <1> DEFINE next == [pc |-> "check", record |-> setter[w].record + 1, alone |-> TRUE]
  <1>1. Len(Share[w]) \in Nat /\ setter[w].record <= Len(Share[w])
    BY SharesAreConfigs DEF HasRecord
  <1>2. setter' = [setter EXCEPT ![w] = next] /\ setter \in [Workers -> Setter]
    BY DEF NextRecord, SetterShape
  <1>3. next \in Setter /\ next.record \in 1 .. Len(Share[w]) + 1 /\ next.pc = "check"
    BY <1>1 DEF SetterShape, Setter, SetterPcs
  <1> HIDE DEF next
  <1>4. /\ setter' \in [Workers -> Setter] /\ setter'[w] = next
        /\ \A u \in Workers \ {w} : setter'[u] = setter[u]
    BY <1>2, <1>3
  <1>5. \A u \in Workers : setter'[u].record \in 1 .. Len(Share[u]) + 1
    BY <1>3, <1>4 DEF SetterShape
  <1> QED
    BY <1>3, <1>4, <1>5 DEF SetterShape

LEMMA StartLoadMoves ==
    ASSUME UdfAssumption, SetterShape, NEW w \in Workers, StartLoad(w)
    PROVE  /\ SetterShape' /\ setter'[w].pc = "load" /\ setter'[w].record = setter[w].record
           /\ setter'[w].alone => Others(w) = {}
           /\ \A u \in Workers \ {w} : Bystander(u)
           /\ \A u \in Others(w) : ~setter'[u].alone
  <1> DEFINE mine == [setter[w] EXCEPT !.pc = "load", !.alone = Others(w) = {}]
             Theirs(u) == [setter[u] EXCEPT !.alone = FALSE]
  <1>1. \A u \in Workers : setter[u] \in Setter
    BY DEF SetterShape
  <1>2. setter' = [u \in Workers |-> IF u = w THEN mine
                                     ELSE IF u \in Others(w) THEN Theirs(u) ELSE setter[u]]
    BY ZenonT(30) DEF StartLoad
  <1>3. /\ mine \in Setter /\ mine.pc = "load" /\ mine.record = setter[w].record
        /\ mine.alone => Others(w) = {}
    <2> DEFINE none == Others(w) = {}
               half == [setter[w] EXCEPT !.pc = "load"]
    <2>1. none \in BOOLEAN
      OBVIOUS
    <2>2. half \in Setter /\ half.pc = "load" /\ half.record = setter[w].record
      BY <1>1 DEF Setter, SetterPcs
    <2>3. mine = [half EXCEPT !.alone = none]
      BY ZenonT(30)
    <2> HIDE DEF half
    <2>4. /\ [half EXCEPT !.alone = none] \in Setter
          /\ [half EXCEPT !.alone = none].pc = half.pc
          /\ [half EXCEPT !.alone = none].record = half.record
          /\ [half EXCEPT !.alone = none].alone = none
      <3> HIDE DEF none
      <3> QED
        BY ZenonT(30), <2>1, <2>2 DEF Setter
    <2> QED
      BY ZenonT(30), <2>2, <2>3, <2>4
  <1>4. ASSUME NEW u \in Workers
        PROVE  /\ Theirs(u) \in Setter /\ Theirs(u).pc = setter[u].pc
               /\ Theirs(u).record = setter[u].record /\ ~Theirs(u).alone
    BY <1>1 DEF Setter
  <1> HIDE DEF mine, Theirs
  <1>5. /\ setter' \in [Workers -> Setter] /\ setter'[w] = mine
        /\ \A u \in Workers \ {w} : setter'[u] = IF u \in Others(w) THEN Theirs(u) ELSE setter[u]
    BY <1>1, <1>2, <1>3, <1>4
  <1>6. \A u \in Workers \ {w} : Bystander(u) /\ (u \in Others(w) => ~setter'[u].alone)
    BY ZenonT(30), <1>4, <1>5 DEF Bystander
  <1>7. w \notin Others(w) /\ Others(w) \subseteq Workers
    BY DEF Others
  <1>8. \A u \in Workers : setter'[u].record \in 1 .. Len(Share[u]) + 1
    BY <1>3, <1>5, <1>6 DEF SetterShape, Bystander
  <1> QED
    BY ZenonT(30), <1>3, <1>5, <1>6, <1>7, <1>8 DEF SetterShape

\* SetCodeObject keeps the shape, and leaves the calls and what Roma has alone.
LEMMA SetCodeObjectShape ==
    ASSUME UdfAssumption, UdfShape, NEW w \in Workers, SetCodeObject(w)
    PROVE  UdfShape' /\ UNCHANGED <<loaded, note, call>>
  <1>1. HasRecord(w) /\ SetterShape
    BY DEF SetCodeObject, CheckCommitTime, LoadCodeObj, LoadCodeObjFails, CodeObjectSet,
           LoadFailed, LoadTimesOut, SetHandlerName, SetLogicalCommitTime, SetVersion,
           LoadSucceeded, At, UdfShape
  <1>2. UNCHANGED <<running, loaded, note, call>> /\ mixed' \in {mixed, ~setter[w].alone}
    BY DEF SetCodeObject, CheckCommitTime, LoadCodeObj, LoadCodeObjFails, CodeObjectSet,
           LoadFailed, LoadTimesOut, SetHandlerName, SetLogicalCommitTime, SetVersion, roma
  <1>3. NextRecord(w) \/ StartLoad(w) \/ \E pc \in SetterPcs : Goto(w, pc)
    BY DEF SetCodeObject, CheckCommitTime, LoadCodeObj, LoadCodeObjFails, CodeObjectSet,
           LoadFailed, LoadTimesOut, SetHandlerName, SetLogicalCommitTime, SetVersion,
           SetterPcs
  <1>4. SetterShape'
    BY <1>1, <1>3, GotoMoves, NextRecordMoves, StartLoadMoves
  <1>5. FieldsShape'
    <2>1. Config(w).version \in Versions /\ Config(w).handler \in Handlers
          /\ Config(w).time \in Int
      BY <1>1, ConfigIsConfig
    <2>2. /\ handler_name' \in {handler_name, Config(w).handler}
          /\ version' \in {version, Config(w).version}
          /\ logical_commit_time' \in {logical_commit_time, Config(w).time}
      BY DEF SetCodeObject, CheckCommitTime, LoadCodeObj, LoadCodeObjFails, CodeObjectSet,
             LoadFailed, LoadTimesOut, SetHandlerName, SetLogicalCommitTime, SetVersion,
             NewTime, fields
    <2> QED
      BY <2>1, <2>2 DEF UdfShape, FieldsShape
  <1>6. LoadsShape'
    <2> DEFINE req == [worker |-> w, record |-> setter[w].record]
    <2>1. loads' \in {loads, Append(loads, req)}
      BY DEF SetCodeObject, CheckCommitTime, LoadCodeObj, LoadCodeObjFails, CodeObjectSet,
             LoadFailed, LoadTimesOut, SetHandlerName, SetLogicalCommitTime, SetVersion, roma
    <2>2. req \in Load /\ req.record \in DOMAIN Share[req.worker]
      BY <1>1, ConfigIsConfig DEF Load, SetterShape
    <2> HIDE DEF req
    <2>3. CASE loads' = Append(loads, req)
      <3>1. loads \in Seq(Load)
        BY DEF UdfShape, LoadsShape
      <3>2. /\ loads' \in Seq(Load) /\ Len(loads') = Len(loads) + 1
            /\ \A i \in 1 .. Len(loads) : loads'[i] = loads[i]
            /\ loads'[Len(loads) + 1] = req
        BY <2>2, <2>3, <3>1, AppendProperties
      <3>3. \A i \in DOMAIN loads' : \/ loads'[i] = req
                                     \/ i \in DOMAIN loads /\ loads'[i] = loads[i]
        BY <3>1, <3>2
      <3> QED
        BY <2>2, <3>2, <3>3 DEF UdfShape, LoadsShape
    <2>4. CASE loads' = loads
      BY <2>4 DEF UdfShape, LoadsShape
    <2> QED
      BY <2>1, <2>3, <2>4
  <1>7. running' \in BOOLEAN /\ mixed' \in BOOLEAN /\ call' \in [Calls -> Call]
    <2>1. mixed \in BOOLEAN /\ running \in BOOLEAN /\ call \in [Calls -> Call]
      BY DEF UdfShape
    <2> QED
      BY ZenonT(30), <1>2, <2>1
  <1>8. LoadedShape' /\ NoteShape'
    BY <1>2 DEF UdfShape, LoadedShape, NoteShape
  <1> QED
    BY <1>2, <1>4, <1>5, <1>6, <1>7, <1>8 DEF UdfShape

\* So does Roma when it processes a load.
LEMMA ProcessLoadShape ==
    ASSUME UdfAssumption, UdfShape, NEW ok \in BOOLEAN, ProcessLoad(ok)
    PROVE  UdfShape'
  <1> DEFINE req == Head(loads)
             config == Share[req.worker][req.record]
  <1>1. /\ loads # <<>> /\ loads' = Tail(loads)
        /\ loaded' = IF ok THEN [loaded EXCEPT ![config.version] = config] ELSE loaded
        /\ note' = [note EXCEPT ![req.worker][req.record] = IF ok THEN "ok" ELSE "error"]
        /\ UNCHANGED <<handler_name, logical_commit_time, version, running, setter, mixed, call>>
    BY DEF ProcessLoad, fields
  <1>2. /\ req \in Load /\ req.worker \in Workers /\ req.record \in DOMAIN Share[req.worker]
        /\ Tail(loads) \in Seq(Load)
        /\ \A i \in DOMAIN Tail(loads) :
              i + 1 \in DOMAIN loads /\ Tail(loads)[i] = loads[i + 1]
    <2>1. loads \in Seq(Load) /\ loads # <<>>
      BY <1>1 DEF UdfShape, LoadsShape
    <2>2. /\ Head(loads) = loads[1] /\ 1 \in DOMAIN loads /\ loads[1] \in Load
          /\ Tail(loads) \in Seq(Load) /\ Len(Tail(loads)) = Len(loads) - 1
          /\ \A i \in 1 .. Len(Tail(loads)) : Tail(loads)[i] = loads[i + 1]
      BY <2>1, HeadTailProperties
    <2>3. \A i \in DOMAIN Tail(loads) :
             i + 1 \in DOMAIN loads /\ Tail(loads)[i] = loads[i + 1]
      BY <2>1, <2>2
    <2> QED
      BY SMTT(30), <2>2, <2>3 DEF UdfShape, LoadsShape, Load
  <1>3. config \in Configs /\ config.version \in Versions
    BY <1>2, SharesAreConfigs
  <1> HIDE DEF req, config
  <1>4. LoadsShape'
    BY <1>1, <1>2 DEF UdfShape, LoadsShape
  <1>5. LoadedShape'
    BY <1>1, <1>3 DEF UdfShape, LoadedShape
  <1>6. NoteShape'
    BY ZenonT(30), <1>1, <1>2 DEF UdfShape, NoteShape, Notes
  <1>7. FieldsShape' /\ SetterShape'
    BY <1>1 DEF UdfShape, FieldsShape, SetterShape
  <1>8. running' \in BOOLEAN /\ mixed' \in BOOLEAN /\ call' \in [Calls -> Call]
    BY <1>1 DEF UdfShape
  <1> QED
    BY SMTT(30), <1>4, <1>5, <1>6, <1>7, <1>8 DEF UdfShape

Pcs == {"idle", "read", "execute", "waiting", "ok", "error", "timeout"}
Pc(r, x) == [r EXCEPT !.pc = x]
Args(r, x) == [r EXCEPT !.args = x]
CallVersion(r, x) == [r EXCEPT !.version = x]
Handler(r, x) == [r EXCEPT !.handler = x]
Cb(r, x) == [r EXCEPT !.cb = x]
Result(r, x) == [r EXCEPT !.result = x]

\* What an assignment to pc or handler of a call does to the other fields.
LEMMA PcField ==
    ASSUME NEW r \in Call, NEW x \in Pcs
    PROVE  /\ Pc(r, x) \in Call /\ Pc(r, x).pc = x
           /\ Pc(r, x).cb = r.cb /\ Pc(r, x).result = r.result
  BY DEF Call, Pcs, Pc

LEMMA HandlerField ==
    ASSUME NEW r \in Call, NEW x \in Handlers
    PROVE  /\ Handler(r, x) \in Call /\ Handler(r, x).pc = r.pc
           /\ Handler(r, x).cb = r.cb /\ Handler(r, x).result = r.result
  BY DEF Call, Handler

\* What an assignment to any field of a call does to the others.
LEMMA CallFields ==
    ASSUME NEW r \in Call
    PROVE  /\ \A x \in Pcs : /\ Pc(r, x) \in Call /\ Pc(r, x).pc = x
                             /\ Pc(r, x).cb = r.cb /\ Pc(r, x).result = r.result
           /\ \A x \in Seq({"metadata", "data", "argument"}) :
                 /\ Args(r, x) \in Call /\ Args(r, x).pc = r.pc
                 /\ Args(r, x).cb = r.cb /\ Args(r, x).result = r.result
           /\ \A x \in Versions :
                 /\ CallVersion(r, x) \in Call /\ CallVersion(r, x).pc = r.pc
                 /\ CallVersion(r, x).cb = r.cb /\ CallVersion(r, x).result = r.result
           /\ \A x \in Handlers :
                 /\ Handler(r, x) \in Call /\ Handler(r, x).pc = r.pc
                 /\ Handler(r, x).cb = r.cb /\ Handler(r, x).result = r.result
           /\ \A x \in {"none", "run", "written", "notified"} :
                 /\ Cb(r, x) \in Call /\ Cb(r, x).pc = r.pc
                 /\ Cb(r, x).cb = x /\ Cb(r, x).result = r.result
           /\ \A x \in {"empty", "own", "failed"} :
                 /\ Result(r, x) \in Call /\ Result(r, x).pc = r.pc
                 /\ Result(r, x).cb = r.cb /\ Result(r, x).result = x
  <1>1. \A x \in Pcs : /\ Pc(r, x) \in Call /\ Pc(r, x).pc = x
                       /\ Pc(r, x).cb = r.cb /\ Pc(r, x).result = r.result
    BY DEF Call, Pcs, Pc
  <1>2. \A x \in Seq({"metadata", "data", "argument"}) :
           /\ Args(r, x) \in Call /\ Args(r, x).pc = r.pc
           /\ Args(r, x).cb = r.cb /\ Args(r, x).result = r.result
    BY DEF Call, Args
  <1>3. \A x \in Versions :
           /\ CallVersion(r, x) \in Call /\ CallVersion(r, x).pc = r.pc
           /\ CallVersion(r, x).cb = r.cb /\ CallVersion(r, x).result = r.result
    BY DEF Call, CallVersion
  <1>4. \A x \in Handlers :
           /\ Handler(r, x) \in Call /\ Handler(r, x).pc = r.pc
           /\ Handler(r, x).cb = r.cb /\ Handler(r, x).result = r.result
    BY DEF Call, Handler
  <1>5. \A x \in {"none", "run", "written", "notified"} :
           /\ Cb(r, x) \in Call /\ Cb(r, x).pc = r.pc
           /\ Cb(r, x).cb = x /\ Cb(r, x).result = r.result
    BY DEF Call, Cb
  <1>6. \A x \in {"empty", "own", "failed"} :
           /\ Result(r, x) \in Call /\ Result(r, x).pc = r.pc
           /\ Result(r, x).cb = r.cb /\ Result(r, x).result = x
    BY DEF Call, Result
  <1> QED
    BY <1>1, <1>2, <1>3, <1>4, <1>5, <1>6

\* The strings passed to Roma for at most one argument.
LEMMA StringArgsAreStrings ==
    ASSUME NEW args \in {<<>>} \cup {<<a>> : a \in Argument}
    PROVE  StringArgs(args) \in Seq({"metadata", "data", "argument"})
  <1> DEFINE rest == [i \in DOMAIN args |-> IF args[i].tagged THEN "argument" ELSE "data"]
  <1>1. args \in Seq(Argument)
    <2>1. <<>> \in Seq(Argument) /\ \A a \in Argument : <<a>> \in Seq(Argument)
      OBVIOUS
    <2> QED
      BY ZenonT(30), <2>1
  <1>2. rest \in Seq({"metadata", "data", "argument"})
    BY <1>1
  <1> QED
    BY <1>2 DEF StringArgs

\* One call changes, and its response is stored before its caller hears of it.
Advances(c, r) ==
    /\ call' = [call EXCEPT ![c] = r] /\ r \in Call /\ ResponseFirst(r)
    /\ UNCHANGED <<handler_name, logical_commit_time, version, running, loaded, loads,
                   note, setter, mixed>>

\* Every step of ExecuteCode and of its callback is such a change.
LEMMA CallAdvances ==
    ASSUME AnswerInv, NEW c \in Calls,
           \/ \E args \in {<<>>} \cup {<<a>> : a \in Argument} : Begin(c, args)
           \/ ExecuteCode(c) \/ ExecuteTimesOut(c) \/ Run(c) \/ NotifyCaller(c)
    PROVE  \E r : Advances(c, r)
  <1> DEFINE old == call[c]
  <1>1. /\ old \in Call /\ ResponseFirst(old)
        /\ version \in Versions /\ handler_name \in Handlers
        /\ old.result \in {"empty", "own", "failed"}
    BY DEF AnswerInv, CallInv, UdfShape, FieldsShape, Call
  <1>2. CASE \E args \in {<<>>} \cup {<<a>> : a \in Argument} : Begin(c, args)
    <2>1. PICK args \in {<<>>} \cup {<<a>> : a \in Argument} : Begin(c, args)
      BY <1>2
    <2> DEFINE to == IF \A i \in DOMAIN args : args[i].convertible THEN "read" ELSE "error"
               mid == Pc(old, to)
               new == Args(mid, StringArgs(args))
    <2>2. mid \in Call /\ mid.pc \in {"read", "error"} /\ mid.cb = old.cb
          /\ mid.result = old.result
      BY <1>1, PcField DEF Pcs
    <2>3. Update(c, new)
      BY ZenonT(30), <2>1 DEF Begin, Pc, Args
    <2> HIDE DEF mid
    <2>4. new \in Call /\ new.pc = mid.pc /\ new.cb = old.cb /\ new.result = old.result
      BY <2>2, CallFields, StringArgsAreStrings
    <2> HIDE DEF new
    <2>5. ResponseFirst(new)
      BY <1>1, <2>2, <2>4 DEF ResponseFirst
    <2>6. Advances(c, new)
      BY ZenonT(30), <2>1, <2>3, <2>4, <2>5 DEF Advances, Update, Begin, fields, roma
    <2> QED
      BY <2>6
  <1>3. CASE ReadVersion(c)
    <2> DEFINE mid == Pc(old, "execute")
               new == CallVersion(mid, version)
    <2>1. mid \in Call /\ mid.pc = "execute" /\ mid.cb = old.cb /\ mid.result = old.result
      BY <1>1, PcField DEF Pcs
    <2>2. Update(c, new)
      BY <1>3 DEF ReadVersion, Pc, CallVersion
    <2> HIDE DEF mid
    <2>3. new \in Call /\ new.pc = "execute" /\ new.cb = old.cb /\ new.result = old.result
      <3>1. \A x \in Versions :
               /\ CallVersion(mid, x) \in Call /\ CallVersion(mid, x).pc = mid.pc
               /\ CallVersion(mid, x).cb = mid.cb /\ CallVersion(mid, x).result = mid.result
        BY SMTT(30), <2>1, CallFields
      <3> QED
        BY <1>1, <2>1, <3>1
    <2> HIDE DEF new
    <2>4. Advances(c, new)
      BY ZenonT(30), <1>1, <1>3, <2>2, <2>3
         DEF ResponseFirst, Advances, Update, ReadVersion, fields, roma
    <2> QED
      BY <2>4
  <1>4. CASE Execute(c)
    <2> DEFINE first == Pc(old, "waiting")
               mid == Handler(first, handler_name)
               new == Cb(mid, "run")
    <2>1. first \in Call /\ first.pc = "waiting"
      BY <1>1, PcField DEF Pcs
    <2>2. Update(c, new)
      BY <1>4 DEF Execute, Pc, Handler, Cb
    <2> HIDE DEF first
    <2>3. mid \in Call /\ mid.pc = "waiting"
      BY ZenonT(30), <1>1, <2>1, HandlerField
    <2> HIDE DEF mid
    <2>4. new \in Call /\ new.pc = "waiting" /\ new.cb = "run"
      BY <2>3, CallFields
    <2> HIDE DEF new
    <2>5. Advances(c, new)
      BY ZenonT(30), <1>4, <2>2, <2>4
         DEF ResponseFirst, Advances, Update, Execute, fields, roma
    <2> QED
      BY <2>5
  <1>5. CASE ExecuteFails(c)
    <2> DEFINE mid == Pc(old, "error")
               new == Handler(mid, handler_name)
    <2>1. mid \in Call /\ mid.pc = "error" /\ mid.cb = old.cb /\ mid.result = old.result
      BY <1>1, PcField DEF Pcs
    <2>2. Update(c, new)
      BY <1>5 DEF ExecuteFails, Pc, Handler
    <2> HIDE DEF mid
    <2>3. new \in Call /\ new.pc = "error" /\ new.cb = old.cb /\ new.result = old.result
      BY ZenonT(30), <1>1, <2>1, HandlerField
    <2> HIDE DEF new
    <2>4. Advances(c, new)
      BY ZenonT(30), <1>1, <1>5, <2>2, <2>3
         DEF ResponseFirst, Advances, Update, ExecuteFails, fields, roma
    <2> QED
      BY <2>4
  <1>6. CASE Answer(c)
    <2> DEFINE to == IF old.result = "failed" THEN "error" ELSE "ok"
               new == Pc(old, to)
    <2>1. old.cb = "notified" /\ Update(c, new)
      BY <1>6 DEF Answer, Pc
    <2>2. old.result \in {"own", "failed"}
      BY <1>1, <2>1 DEF ResponseFirst
    <2>3. to \in Pcs /\ (to = "ok" => old.result = "own")
      BY <2>2 DEF Pcs
    <2> HIDE DEF to
    <2>4. new \in Call /\ new.pc = to /\ new.cb = "notified" /\ new.result = old.result
      BY ZenonT(30), <1>1, <2>1, <2>3, CallFields
    <2> HIDE DEF new
    <2>5. Advances(c, new)
      BY ZenonT(30), <1>6, <2>1, <2>2, <2>3, <2>4
         DEF ResponseFirst, Advances, Update, Answer, fields, roma
    <2> QED
      BY <2>5
  <1>7. CASE ExecuteTimesOut(c)
    <2> DEFINE new == Pc(old, "timeout")
    <2>1. Update(c, new)
      BY <1>7 DEF ExecuteTimesOut, Pc
    <2>2. new \in Call /\ new.pc = "timeout" /\ new.cb = old.cb /\ new.result = old.result
      BY <1>1, PcField DEF Pcs
    <2> HIDE DEF new
    <2>3. Advances(c, new)
      BY <1>1, <1>7, <2>1, <2>2
         DEF ResponseFirst, Advances, Update, ExecuteTimesOut, fields, roma
    <2> QED
      BY <2>3
  <1>8. CASE Run(c)
    <2>1. PICK outcome \in {"own", "failed"} :
             Update(c, [call[c] EXCEPT !.cb = "written", !.result = outcome])
      BY ZenonT(30), <1>8 DEF Run
    <2> DEFINE mid == Cb(old, "written")
               new == Result(mid, outcome)
    <2>2. mid \in Call /\ mid.pc = old.pc /\ mid.cb = "written"
      BY <1>1, CallFields
    <2>3. Update(c, new)
      BY <2>1 DEF Cb, Result
    <2> HIDE DEF mid
    <2>4. new \in Call /\ new.pc = old.pc /\ new.cb = "written" /\ new.result = outcome
      BY <2>2, CallFields
    <2> HIDE DEF new
    <2>5. old.pc # "ok"
      BY ZenonT(30), <1>1, <1>8 DEF Run, ResponseFirst
    <2>6. Advances(c, new)
      BY ZenonT(30), <1>8, <2>3, <2>4, <2>5
         DEF ResponseFirst, Advances, Update, Run, fields, roma
    <2> QED
      BY <2>6
  <1>9. CASE NotifyCaller(c)
    <2> DEFINE new == Cb(old, "notified")
    <2>1. Update(c, new) /\ old.cb = "written"
      BY <1>9 DEF NotifyCaller, ResponseStored, Cb
    <2>2. new \in Call /\ new.pc = old.pc /\ new.cb = "notified" /\ new.result = old.result
      BY <1>1, CallFields
    <2> HIDE DEF new
    <2>3. Advances(c, new)
      BY ZenonT(30), <1>1, <1>9, <2>1, <2>2
         DEF ResponseFirst, Advances, Update, NotifyCaller, fields, roma
    <2> QED
      BY <2>3
  <1> QED
    BY <1>2, <1>3, <1>4, <1>5, <1>6, <1>7, <1>8, <1>9 DEF ExecuteCode

\* A call advances, and the invariant of the answers is kept.
LEMMA AdvanceShape ==
    ASSUME AnswerInv, NEW c \in Calls, NEW r, Advances(c, r)
    PROVE  AnswerInv'
  <1>1. /\ call' \in [Calls -> Call] /\ running' \in BOOLEAN /\ mixed' \in BOOLEAN
    BY DEF AnswerInv, UdfShape, Advances
  <1>2. CallInv'
    BY DEF AnswerInv, UdfShape, CallInv, Advances
  <1>3. FieldsShape' /\ LoadedShape' /\ LoadsShape' /\ SetterShape' /\ NoteShape'
    BY DEF AnswerInv, UdfShape, Advances, FieldsShape, LoadedShape, LoadsShape, SetterShape,
           NoteShape
  <1> QED
    BY <1>1, <1>2, <1>3 DEF AnswerInv, UdfShape

\* The invariant of the answers is inductive.
LEMMA AnswerInvInit == UdfAssumption /\ Init => AnswerInv
  <1> SUFFICES ASSUME UdfAssumption, Init PROVE AnswerInv
    OBVIOUS
  <1>1. Default \in Configs /\ Default.version \in Versions /\ Default.handler \in Handlers
        /\ Default.time \in Int
    BY DEF Configs, Versions, Handlers, UdfAssumption
  <1>2. FieldsShape /\ running \in BOOLEAN /\ mixed \in BOOLEAN
    BY <1>1 DEF Init, FieldsShape
  <1>3. LoadedShape
    BY <1>1 DEF Init, LoadedShape
  <1>4. LoadsShape
    BY DEF Init, LoadsShape
  <1>5. SetterShape
    BY SharesAreConfigs DEF Init, SetterShape, Setter, SetterPcs
  <1>6. NoteShape
    BY DEF Init, NoteShape, Notes
  <1> DEFINE first == [pc |-> "idle", args |-> <<>>, version |-> Default.version,
                       handler |-> Default.handler, cb |-> "none", result |-> "empty"]
  <1>7. first \in Call /\ ResponseFirst(first)
    BY <1>1 DEF Call, ResponseFirst
  <1>8. call = [c \in Calls |-> first]
    BY DEF Init
  <1> HIDE DEF first
  <1>9. call \in [Calls -> Call] /\ CallInv
    BY <1>7, <1>8 DEF CallInv
  <1> QED
    BY <1>2, <1>3, <1>4, <1>5, <1>6, <1>9 DEF AnswerInv, UdfShape

\* No step breaks it, whichever thread takes it.
LEMMA AnswerInvNext ==
    ASSUME UdfAssumption, AnswerInv, [Next]_vars
    PROVE  AnswerInv'
  <1>1. ASSUME NEW w \in Workers, SetCodeObject(w) PROVE AnswerInv'
    BY <1>1, SetCodeObjectShape DEF AnswerInv, CallInv, ResponseFirst
  <1>2. ASSUME NEW c \in Calls,
               \/ \E args \in {<<>>} \cup {<<a>> : a \in Argument} : Begin(c, args)
               \/ ExecuteCode(c) \/ ExecuteTimesOut(c) \/ Run(c) \/ NotifyCaller(c)
        PROVE  AnswerInv'
    BY <1>2, CallAdvances, AdvanceShape
  <1>3. ASSUME NEW ok \in BOOLEAN, ProcessLoad(ok) PROVE AnswerInv'
    <2>1. call' = call
      BY <1>3 DEF ProcessLoad
    <2> QED
      BY ZenonT(30), <1>3, <2>1, ProcessLoadShape DEF AnswerInv, CallInv, ResponseFirst
  <1>4. CASE RomaStop
    <2>1. UNCHANGED <<handler_name, logical_commit_time, version, loaded, loads, note,
                      setter, mixed, call>>
      BY <1>4 DEF RomaStop, fields
    <2>2. running' \in BOOLEAN /\ mixed \in BOOLEAN
      BY ZenonT(30), <1>4 DEF RomaStop, AnswerInv, UdfShape
    <2> QED
      BY <2>1, <2>2 DEF AnswerInv, UdfShape, FieldsShape, LoadedShape, LoadsShape,
                        SetterShape, NoteShape, CallInv, ResponseFirst
  <1>5. CASE UNCHANGED vars
    BY <1>5 DEF vars, AnswerInv, UdfShape, FieldsShape, LoadedShape, LoadsShape,
                SetterShape, NoteShape, CallInv, ResponseFirst
  <1> QED
    BY <1>1, <1>2, <1>3, <1>4, <1>5 DEF Next

\* Whatever the number of loading threads, configs, versions and calls,
\* ExecuteCode answers with what its own invocation returned.
THEOREM AnswersAreOwn ==
    ASSUME UdfAssumption
    PROVE  Spec => [](TypeOK /\ AnswerIsOwn)
  <1>1. AnswerInv => TypeOK /\ AnswerIsOwn
    BY ShapeIsTyped DEF AnswerInv, CallInv, ResponseFirst, AnswerIsOwn
  <1>2. Init => AnswerInv
    BY AnswerInvInit
  <1>3. AnswerInv /\ [Next]_vars => AnswerInv'
    BY AnswerInvNext
  <1> QED
    BY <1>1, <1>2, <1>3, PTL DEF Spec

\* Roma processes a load, possibly long after SetCodeObject stopped waiting for it:
\* the versions it has code for keep some.
LEMMA ProcessLoadKeepsCode ==
    ASSUME UdfAssumption, UdfShape, LoadedInv, NEW ok \in BOOLEAN, ProcessLoad(ok)
    PROVE  /\ LoadedInv'
           /\ UNCHANGED <<handler_name, logical_commit_time, version, setter, mixed>>
           /\ \A v \in Versions : loaded[v] # NoCode => loaded'[v] # NoCode
  <1> DEFINE req == Head(loads)
             config == Share[req.worker][req.record]
  <1>1. /\ loads # <<>>
        /\ loaded' = IF ok THEN [loaded EXCEPT ![config.version] = config] ELSE loaded
        /\ note' = [note EXCEPT ![req.worker][req.record] = IF ok THEN "ok" ELSE "error"]
        /\ UNCHANGED <<handler_name, logical_commit_time, version, setter, mixed>>
    BY DEF ProcessLoad, fields
  <1>2. req.worker \in Workers /\ req.record \in DOMAIN Share[req.worker]
    <2>1. loads \in Seq(Load) /\ loads # <<>>
      BY <1>1 DEF UdfShape, LoadsShape
    <2>2. Head(loads) = loads[1] /\ 1 \in DOMAIN loads /\ loads[1] \in Load
      BY <2>1
    <2> QED
      BY ZenonT(30), <2>2 DEF UdfShape, LoadsShape, Load
  <1>3. config \in Configs /\ config.version \in Versions /\ config # NoCode
    BY <1>2, SharesAreConfigs DEF UdfAssumption
  <1>4. /\ loaded \in [Versions -> Configs \cup {NoCode}]
        /\ note = [w \in Workers |-> note[w]]
        /\ \A w \in Workers : note[w] \in [DOMAIN Share[w] -> Notes]
    BY DEF UdfShape, LoadedShape, NoteShape
  <1>5. ASSUME NEW w \in Workers, NEW i \in DOMAIN Share[w], note'[w][i] = "ok"
        PROVE  note[w][i] = "ok" \/ (ok /\ Share[w][i] = config)
    <2>1. CASE w = req.worker /\ i = req.record
      <3>1. note'[w][i] = IF ok THEN "ok" ELSE "error"
        BY <1>1, <1>2, <1>4, <2>1
      <3> QED
        BY ZenonT(30), <1>5, <2>1, <3>1
    <2>2. CASE ~(w = req.worker /\ i = req.record)
      <3> HIDE DEF req
      <3>1. note'[w][i] = note[w][i]
        BY <1>1, <1>2, <1>4, <2>2
      <3> QED
        BY <1>5, <3>1
    <2> QED
      BY <2>1, <2>2
  <1> HIDE DEF req, config
  <1>6. /\ \A v \in Versions : loaded[v] # NoCode => loaded'[v] # NoCode
        /\ ok => loaded'[config.version] # NoCode
    BY <1>1, <1>3, <1>4
  <1>7. ASSUME NEW w \in Workers, NEW i \in DOMAIN Share[w], note'[w][i] = "ok"
        PROVE  loaded'[Share[w][i].version] # NoCode
    <2>1. Share[w][i].version \in Versions
      BY SharesAreConfigs
    <2>2. CASE note[w][i] = "ok"
      BY <1>6, <2>1, <2>2 DEF LoadedInv
    <2>3. CASE ok /\ Share[w][i] = config
      BY <1>6, <2>3
    <2> QED
      BY <1>5, <1>7, <2>2, <2>3
  <1> QED
    BY <1>1, <1>6, <1>7 DEF LoadedInv

\* So a load, late or not, leaves the fields as they are, and their code there.
LEMMA ProcessLoadFieldsInv ==
    ASSUME UdfAssumption, FieldsInv, NEW ok \in BOOLEAN, ProcessLoad(ok)
    PROVE  FieldsInv'
  <1>1. UdfShape /\ LoadedInv /\ version \in Versions /\ SetterShape
    BY DEF FieldsInv, AnswerInv, UdfShape, FieldsShape
  <1>2. /\ LoadedInv'
        /\ UNCHANGED <<handler_name, logical_commit_time, version, setter, mixed>>
        /\ \A v \in Versions : loaded[v] # NoCode => loaded'[v] # NoCode
    BY <1>1, ProcessLoadKeepsCode
  <1>3. AnswerInv'
    <2>1. call' = call
      BY DEF ProcessLoad
    <2> QED
      BY ZenonT(30), <1>1, <2>1, ProcessLoadShape DEF FieldsInv, AnswerInv, CallInv, ResponseFirst
  <1>4. ASSUME NEW w \in Workers PROVE StoresLoaded(w)' /\ SoleInv(w)'
    <2>1. StoresLoaded(w) /\ SoleInv(w) /\ Config(w)' = Config(w) /\ HasRecord(w)' = HasRecord(w)
      BY <1>2 DEF FieldsInv, Config, HasRecord
    <2>2. SoleInv(w)'
      BY ZenonT(30), <1>2, <2>1 DEF SoleInv
    <2>3. HasRecord(w) => Config(w).version \in Versions
      BY <1>1, ConfigIsConfig
    <2> QED
      BY <1>2, <2>1, <2>2, <2>3 DEF StoresLoaded
  <1>5. AloneInv'
    BY ZenonT(30), <1>2 DEF FieldsInv, AloneInv
  <1>6. mixed' \/ Agree' \/ \E w \in Workers : setter'[w].pc \in {"time", "version"}
    BY ZenonT(30), <1>2 DEF FieldsInv, Agree
  <1>7. loaded'[version'] # NoCode
    BY <1>1, <1>2 DEF FieldsInv
  <1> QED
    BY <1>2, <1>3, <1>4, <1>5, <1>6, <1>7 DEF FieldsInv

\* A step of one worker keeps the invariant when what the fields and its own record
\* are afterwards fits it: w is the only one past the check, or is none that runs
\* alone, or stays before the check.
LEMMA WorkerKeepsInv ==
    ASSUME UdfAssumption, FieldsInv, AnswerInv', NEW w \in Workers,
           UNCHANGED <<loaded, note>>,
           \A u \in Workers \ {w} : Bystander(u),
           \A u \in Workers \ {w} :
              setter'[w].pc # "check" /\ setter[u].pc # "check" =>
                 ~setter'[w].alone /\ ~setter'[u].alone,
           setter[w].pc = "check" => UNCHANGED <<handler_name, logical_commit_time>>,
           loaded[version'] # NoCode, StoresLoaded(w)', SoleInv(w)',
           mixed' \/ Agree' \/ \E u \in Workers : setter'[u].pc \in {"time", "version"}
    PROVE  FieldsInv'
  <1>1. LoadedInv' /\ loaded'[version'] # NoCode
    BY ZenonT(30) DEF FieldsInv, LoadedInv
  <1>2. AloneInv'
    <2> SUFFICES ASSUME NEW v \in Workers, NEW u \in Workers, v # u,
                        setter'[v].pc # "check", setter'[u].pc # "check"
                 PROVE  ~setter'[v].alone
      BY DEF AloneInv
    <2>1. CASE v = w
      BY ZenonT(30), <2>1 DEF Bystander
    <2>2. CASE u = w
      BY ZenonT(30), <2>2 DEF Bystander
    <2>3. CASE v # w /\ u # w
      BY ZenonT(30), <2>3 DEF Bystander, FieldsInv, AloneInv
    <2> QED
      BY <2>1, <2>2, <2>3
  <1>3. ASSUME NEW u \in Workers \ {w} PROVE StoresLoaded(u)' /\ SoleInv(u)'
    <2>1. StoresLoaded(u) /\ SoleInv(u) /\ Bystander(u)
      BY DEF FieldsInv
    <2>2. Config(u)' = Config(u) /\ HasRecord(u)' = HasRecord(u)
      BY <2>1 DEF Bystander, Config, HasRecord
    <2>3. StoresLoaded(u)'
      BY ZenonT(30), <2>1, <2>2 DEF StoresLoaded, Bystander
    <2>4. ASSUME setter'[u].alone, setter[u].pc # "check"
          PROVE  setter[w].pc = "check"
      BY ZenonT(30), <2>1, <2>4 DEF Bystander, FieldsInv, AloneInv
    <2>5. SoleInv(u)'
      <3>1. CASE ~setter'[u].alone
        BY ZenonT(30), <3>1 DEF SoleInv
      <3>2. CASE setter'[u].alone /\ setter[u].pc = "check"
        <4>1. setter'[u].pc = "check"
          BY <2>1, <3>2 DEF Bystander
        <4> QED
          BY <4>1 DEF SoleInv
      <3>3. CASE setter'[u].alone /\ setter[u].pc # "check"
        <4>1. UNCHANGED <<handler_name, logical_commit_time>> /\ setter[u].alone
          BY ZenonT(30), <2>1, <2>4, <3>3 DEF Bystander
        <4> QED
          BY ZenonT(30), <2>1, <2>2, <4>1 DEF SoleInv, Bystander
      <3> QED
        BY ZenonT(30), <3>1, <3>2, <3>3
    <2> QED
      BY <2>3, <2>5
  <1>4. \A u \in Workers : StoresLoaded(u)' /\ SoleInv(u)'
    BY ZenonT(30), <1>3
  <1> QED
    BY ZenonT(30), <1>1, <1>2, <1>4 DEF FieldsInv

\* A call of SetCodeObject keeps the invariant of the fields; when no other overlaps
\* it, the commit time it stores is higher than the one before.
LEMMA SetCodeObjectFieldsInv ==
    ASSUME UdfAssumption, FieldsInv, NEW w \in Workers, SetCodeObject(w)
    PROVE  FieldsInv' /\ SoleUpdateIsForward
  <1>1. UNCHANGED <<loaded, note, call>> /\ AnswerInv'
    BY SetCodeObjectShape DEF FieldsInv, AnswerInv, CallInv, ResponseFirst
  <1>2. /\ HasRecord(w) /\ SetterShape /\ StoresLoaded(w) /\ SoleInv(w)
        /\ loaded[version] # NoCode /\ logical_commit_time \in Int
        /\ setter[w].pc \in SetterPcs
    <2>1. HasRecord(w)
      BY DEF SetCodeObject, CheckCommitTime, LoadCodeObj, LoadCodeObjFails, CodeObjectSet,
             LoadFailed, LoadTimesOut, SetHandlerName, SetLogicalCommitTime, SetVersion,
             LoadSucceeded, At
    <2>2. SetterShape /\ logical_commit_time \in Int
      BY DEF FieldsInv, AnswerInv, UdfShape, FieldsShape
    <2>3. setter[w].pc \in SetterPcs
      BY <2>2 DEF SetterShape, Setter
    <2> QED
      BY <2>1, <2>2, <2>3 DEF FieldsInv
  <1>3. /\ Config(w) \in Configs /\ Config(w).time \in Int
        /\ Config(w) = Share[w][setter[w].record] /\ setter[w].record \in DOMAIN Share[w]
    BY <1>2, ConfigIsConfig
  <1>4. ASSUME NEW pc \in SetterPcs, Goto(w, pc)
        PROVE  /\ setter'[w].pc = pc /\ setter'[w].alone = setter[w].alone
               /\ Config(w)' = Config(w) /\ HasRecord(w)'
               /\ \A u \in Workers \ {w} : setter'[u] = setter[u]
    BY <1>2, <1>4, GotoMoves DEF Config, HasRecord
  <1>5. ASSUME \A u \in Workers \ {w} : setter'[u] = setter[u],
               setter'[w].pc = "check" \/ setter'[w].alone = setter[w].alone,
               setter[w].pc # "check" \/ setter'[w].pc = "check"
        PROVE  /\ \A u \in Workers \ {w} : Bystander(u)
               /\ \A u \in Workers \ {w} :
                     setter'[w].pc # "check" /\ setter[u].pc # "check" =>
                        ~setter'[w].alone /\ ~setter'[u].alone
    BY ZenonT(30), <1>5 DEF Bystander, FieldsInv, AloneInv
  <1>6. ASSUME UNCHANGED <<handler_name, logical_commit_time, version, mixed>>,
               \A u \in Workers : setter[u].pc \in {"time", "version"} =>
                                     setter'[u].pc = setter[u].pc
        PROVE  /\ mixed' \/ Agree' \/ \E u \in Workers : setter'[u].pc \in {"time", "version"}
               /\ loaded[version'] # NoCode
    BY ZenonT(30), <1>2, <1>6 DEF FieldsInv, Agree
  <1>7. ASSUME ~(setter[w].pc = "time" /\ setter'[w].pc = "version"),
               \A u \in Workers \ {w} : setter'[u].pc = setter[u].pc
        PROVE  SoleUpdateIsForward
    <2> SUFFICES ASSUME NEW u \in Workers, setter[u].pc = "time", setter'[u].pc = "version"
                 PROVE  FALSE
      BY ZenonT(30) DEF SoleUpdateIsForward
    <2>1. "time" # "version"
      OBVIOUS
    <2> QED
      BY ZenonT(30), <1>7, <2>1
  \* A call that ends early or finds its config too old.
  <1>8. ASSUME NextRecord(w), UNCHANGED <<handler_name, logical_commit_time, version, mixed>>,
               setter[w].pc \in {"check", "load", "waiting"}
        PROVE  FieldsInv' /\ SoleUpdateIsForward
    <2>1. setter'[w].pc = "check" /\ \A u \in Workers \ {w} : setter'[u] = setter[u]
      BY <1>2, <1>8, NextRecordMoves
    <2>2. StoresLoaded(w)' /\ SoleInv(w)'
      BY <2>1 DEF StoresLoaded, SoleInv
    <2>3. \A u \in Workers : setter[u].pc \in {"time", "version"} =>
                                setter'[u].pc = setter[u].pc
      BY <1>8, <2>1
    <2>4. setter'[w].pc # "version"
      BY <2>1
    <2>5. FieldsInv'
      BY ZenonT(30), <1>1, <1>5, <1>6, <1>8, <2>1, <2>2, <2>3, WorkerKeepsInv
    <2> QED
      BY ZenonT(30), <1>7, <2>1, <2>4, <2>5
  \* A call that goes on without an assignment.
  <1>9. ASSUME NEW pc \in {"waiting", "handler"}, Goto(w, pc),
               UNCHANGED <<handler_name, logical_commit_time, version, mixed>>,
               setter[w].pc \in {"load", "waiting"},
               pc = "handler" => loaded[Config(w).version] # NoCode
        PROVE  FieldsInv' /\ SoleUpdateIsForward
    <2>1. /\ setter'[w].pc = pc /\ setter'[w].alone = setter[w].alone
          /\ Config(w)' = Config(w) /\ HasRecord(w)'
          /\ \A u \in Workers \ {w} : setter'[u] = setter[u]
      BY <1>4, <1>9 DEF SetterPcs
    <2>2. StoresLoaded(w)'
      BY <1>1, <1>9, <2>1 DEF StoresLoaded
    <2>3. SoleInv(w)'
      BY <1>2, <1>9, <2>1 DEF SoleInv
    <2>4. \A u \in Workers : setter[u].pc \in {"time", "version"} =>
                                setter'[u].pc = setter[u].pc
      BY <1>9, <2>1
    <2>5. setter'[w].pc # "version" /\ setter[w].pc # "check"
      BY <1>9, <2>1
    <2>6. FieldsInv'
      BY ZenonT(30), <1>1, <1>5, <1>6, <1>9, <2>1, <2>2, <2>3, <2>4, <2>5, WorkerKeepsInv
    <2> QED
      BY ZenonT(30), <1>7, <2>1, <2>5, <2>6
  <1>10. CASE CheckCommitTime(w)
    <2>1. /\ UNCHANGED <<handler_name, logical_commit_time, version, mixed>>
          /\ setter[w].pc = "check"
          /\ NextRecord(w) \/ (~TooOld(Config(w)) /\ StartLoad(w))
      BY <1>10 DEF CheckCommitTime, At, fields
    <2>2. CASE ~TooOld(Config(w)) /\ StartLoad(w)
      <3>1. /\ setter'[w].pc = "load" /\ setter'[w].record = setter[w].record
            /\ setter'[w].alone => Others(w) = {}
            /\ \A u \in Workers \ {w} : Bystander(u)
            /\ \A u \in Others(w) : ~setter'[u].alone
        BY <1>2, <2>2, StartLoadMoves
      <3>2. \A u \in Workers \ {w} :
               setter'[w].pc # "check" /\ setter[u].pc # "check" =>
                  ~setter'[w].alone /\ ~setter'[u].alone
        BY ZenonT(30), <3>1 DEF Others
      <3>3. logical_commit_time < Config(w).time
        BY <1>2, <1>3, <2>2 DEF TooOld
      <3>4. Config(w)' = Config(w) /\ HasRecord(w)'
        BY <1>2, <3>1 DEF Config, HasRecord
      <3>5. StoresLoaded(w)' /\ SoleInv(w)'
        BY <2>1, <3>1, <3>3, <3>4 DEF StoresLoaded, SoleInv
      <3>6. \A u \in Workers : setter[u].pc \in {"time", "version"} =>
                                  setter'[u].pc = setter[u].pc
        BY <2>1, <3>1 DEF Bystander
      <3>7. setter'[w].pc # "version" /\ \A u \in Workers \ {w} : setter'[u].pc = setter[u].pc
        BY <3>1 DEF Bystander
      <3>8. FieldsInv'
        BY ZenonT(30), <1>1, <1>6, <2>1, <3>1, <3>2, <3>5, <3>6, WorkerKeepsInv
      <3> QED
        BY ZenonT(30), <1>7, <3>7, <3>8
    <2> QED
      BY ZenonT(30), <1>8, <2>1, <2>2
  <1>11. CASE LoadCodeObj(w)
    <2>1. /\ UNCHANGED <<handler_name, logical_commit_time, version, mixed>>
          /\ setter[w].pc = "load" /\ Goto(w, "waiting")
      BY <1>11 DEF LoadCodeObj, At, fields
    <2> QED
      BY ZenonT(30), <1>9, <2>1
  <1>12. CASE LoadCodeObjFails(w) \/ LoadFailed(w) \/ LoadTimesOut(w)
    <2>1. /\ UNCHANGED <<handler_name, logical_commit_time, version, mixed>>
          /\ setter[w].pc \in {"load", "waiting"} /\ NextRecord(w)
      BY <1>12 DEF LoadCodeObjFails, LoadFailed, LoadTimesOut, At, fields
    <2> QED
      BY ZenonT(30), <1>8, <2>1
  <1>13. CASE CodeObjectSet(w)
    <2>1. /\ UNCHANGED <<handler_name, logical_commit_time, version, mixed>>
          /\ setter[w].pc = "waiting" /\ Goto(w, "handler")
          /\ note[w][setter[w].record] = "ok"
      BY <1>13 DEF CodeObjectSet, LoadSucceeded, At, fields
    <2>2. loaded[Config(w).version] # NoCode
      BY ZenonT(30), <1>3, <2>1 DEF FieldsInv, LoadedInv
    <2> QED
      BY ZenonT(30), <1>9, <2>1, <2>2
  <1>14. CASE SetHandlerName(w)
    <2>1. /\ handler_name' = Config(w).handler
          /\ UNCHANGED <<logical_commit_time, version, mixed>>
          /\ setter[w].pc = "handler" /\ Goto(w, "time")
      BY <1>14 DEF SetHandlerName, At
    <2>2. /\ setter'[w].pc = "time" /\ setter'[w].alone = setter[w].alone
          /\ Config(w)' = Config(w) /\ HasRecord(w)'
          /\ \A u \in Workers \ {w} : setter'[u] = setter[u]
      BY <1>4, <2>1 DEF SetterPcs
    <2>3. StoresLoaded(w)' /\ loaded[version'] # NoCode
      BY <1>1, <1>2, <2>1, <2>2 DEF StoresLoaded
    <2>4. SoleInv(w)'
      BY <1>2, <2>1, <2>2 DEF SoleInv
    <2>5. setter'[w].pc # "version" /\ setter[w].pc # "check"
          /\ \E u \in Workers : setter'[u].pc \in {"time", "version"}
      BY <2>1, <2>2
    <2>6. FieldsInv'
      BY ZenonT(30), <1>1, <1>5, <2>2, <2>3, <2>4, <2>5, WorkerKeepsInv
    <2> QED
      BY ZenonT(30), <1>7, <2>2, <2>5, <2>6
  <1>15. CASE SetLogicalCommitTime(w)
    <2>1. /\ logical_commit_time' = Config(w).time
          /\ UNCHANGED <<handler_name, version, mixed>>
          /\ setter[w].pc = "time" /\ Goto(w, "version")
      BY <1>15 DEF SetLogicalCommitTime, NewTime, At
    <2>2. /\ setter'[w].pc = "version" /\ setter'[w].alone = setter[w].alone
          /\ Config(w)' = Config(w) /\ HasRecord(w)'
          /\ \A u \in Workers \ {w} : setter'[u] = setter[u]
      BY <1>4, <2>1 DEF SetterPcs
    <2>3. StoresLoaded(w)' /\ loaded[version'] # NoCode
      BY <1>1, <1>2, <2>1, <2>2 DEF StoresLoaded
    <2>4. SoleInv(w)' /\ (setter[w].alone => logical_commit_time' > logical_commit_time)
      BY <1>2, <1>3, <2>1, <2>2 DEF SoleInv
    <2>5. setter[w].pc # "check" /\ \E u \in Workers : setter'[u].pc \in {"time", "version"}
      BY <2>1, <2>2
    <2>6. FieldsInv'
      BY ZenonT(30), <1>1, <1>5, <2>2, <2>3, <2>4, <2>5, WorkerKeepsInv
    <2>7. ASSUME NEW u \in Workers \ {w} PROVE ~(setter[u].pc = "time" /\ setter'[u].pc = "version")
      BY <2>2
    <2> QED
      BY ZenonT(30), <2>4, <2>6, <2>7 DEF SoleUpdateIsForward
  <1>16. CASE SetVersion(w)
    <2>1. /\ version' = Config(w).version /\ mixed' = ~setter[w].alone
          /\ UNCHANGED <<handler_name, logical_commit_time>>
          /\ setter[w].pc = "version" /\ NextRecord(w)
      BY ZenonT(30), <1>16 DEF SetVersion, At
    <2>2. setter'[w].pc = "check" /\ \A u \in Workers \ {w} : setter'[u] = setter[u]
      BY <1>2, <2>1, NextRecordMoves
    <2>3. StoresLoaded(w)' /\ SoleInv(w)'
      BY <2>2 DEF StoresLoaded, SoleInv
    <2>4. loaded[version'] # NoCode
      BY <1>2, <2>1 DEF StoresLoaded
    <2>5. setter[w].alone => Agree'
      BY <1>2, <1>3, <2>1 DEF SoleInv, Agree
    <2>6. setter'[w].pc # "version" /\ setter[w].pc # "check"
      BY <2>1, <2>2
    <2>7. mixed' \/ Agree'
      BY ZenonT(30), <2>1, <2>5
    <2>8. FieldsInv'
      BY ZenonT(30), <1>1, <1>5, <2>2, <2>3, <2>4, <2>6, <2>7, WorkerKeepsInv
    <2> QED
      BY ZenonT(30), <1>7, <2>2, <2>6, <2>8
  <1> QED
    BY <1>10, <1>11, <1>12, <1>13, <1>14, <1>15, <1>16 DEF SetCodeObject

\* The fields start with the default config, which Roma has.
LEMMA FieldsInvInit == UdfAssumption /\ Init => FieldsInv
  <1> SUFFICES ASSUME UdfAssumption, Init PROVE FieldsInv
    OBVIOUS
  <1>1. AnswerInv
    BY AnswerInvInit
  <1>2. Default \in Configs /\ Default.version \in Versions /\ Default # NoCode
    BY ZenonT(30) DEF Configs, Versions, UdfAssumption
  <1>3. loaded[version] # NoCode /\ Agree
    BY <1>2 DEF Init, Agree
  <1>4. LoadedInv
    BY DEF Init, LoadedInv
  <1>5. \A w \in Workers : setter[w].pc = "check"
    BY DEF Init
  <1>6. AloneInv /\ \A w \in Workers : StoresLoaded(w) /\ SoleInv(w)
    BY <1>5 DEF AloneInv, StoresLoaded, SoleInv
  <1> QED
    BY <1>1, <1>3, <1>4, <1>6 DEF FieldsInv

\* Every step keeps the invariant of the fields, and moves the code forward unless
\* calls overlap.
LEMMA FieldsInvNext ==
    ASSUME UdfAssumption, FieldsInv, [Next]_vars
    PROVE  FieldsInv' /\ SoleUpdateIsForward
  <1>1. AnswerInv'
    BY ZenonT(30), AnswerInvNext DEF FieldsInv
  <1>2. ASSUME UNCHANGED setter PROVE SoleUpdateIsForward
    <2>1. "time" # "version"
      OBVIOUS
    <2> QED
      BY ZenonT(30), <1>2, <2>1 DEF SoleUpdateIsForward
  <1>3. ASSUME UNCHANGED <<handler_name, logical_commit_time, version, loaded, note, setter,
                           mixed>>
        PROVE  FieldsInv' /\ SoleUpdateIsForward
    <2>1. \A w \in Workers : StoresLoaded(w)' /\ SoleInv(w)'
      BY ZenonT(30), <1>3 DEF FieldsInv, StoresLoaded, SoleInv, HasRecord, Config
    <2>2. LoadedInv' /\ AloneInv'
      BY ZenonT(30), <1>3 DEF FieldsInv, LoadedInv, AloneInv
    <2>3. /\ loaded'[version'] # NoCode
          /\ mixed' \/ Agree' \/ \E w \in Workers : setter'[w].pc \in {"time", "version"}
      BY ZenonT(30), <1>3 DEF FieldsInv, Agree
    <2> QED
      BY ZenonT(30), <1>1, <1>2, <1>3, <2>1, <2>2, <2>3 DEF FieldsInv
  <1>4. ASSUME NEW w \in Workers, SetCodeObject(w) PROVE FieldsInv' /\ SoleUpdateIsForward
    BY <1>4, SetCodeObjectFieldsInv
  <1>5. ASSUME NEW c \in Calls,
               \/ \E args \in {<<>>} \cup {<<a>> : a \in Argument} : Begin(c, args)
               \/ ExecuteCode(c) \/ ExecuteTimesOut(c) \/ Run(c) \/ NotifyCaller(c)
        PROVE  FieldsInv' /\ SoleUpdateIsForward
    <2>1. PICK r : Advances(c, r)
      BY ZenonT(30), <1>5, CallAdvances DEF FieldsInv
    <2> QED
      BY ZenonT(30), <1>3, <2>1 DEF Advances
  <1>6. ASSUME NEW ok \in BOOLEAN, ProcessLoad(ok) PROVE FieldsInv' /\ SoleUpdateIsForward
    <2>1. UNCHANGED setter
      BY <1>6 DEF ProcessLoad
    <2> QED
      BY <1>2, <1>6, <2>1, ProcessLoadFieldsInv
  <1>7. CASE RomaStop
    BY <1>3, <1>7 DEF RomaStop, fields
  <1>8. CASE UNCHANGED vars
    BY <1>3, <1>8 DEF vars
  <1> QED
    BY <1>4, <1>5, <1>6, <1>7, <1>8 DEF Next

\* For any number of loading threads and any configs: the version in use is one Roma
\* has code for, at every moment; and between calls of SetCodeObject handler name,
\* commit time and version belong to one config, unless the call that stored last
\* was overlapped by another.
THEOREM FieldsBelongTogether ==
    ASSUME UdfAssumption
    PROVE  Spec => [](CodeIsThere /\ FieldsAgree)
  <1>1. FieldsInv => CodeIsThere /\ FieldsAgree
    <2> SUFFICES ASSUME FieldsInv PROVE CodeIsThere /\ FieldsAgree
      OBVIOUS
    <2>1. CodeIsThere
      BY DEF FieldsInv, CodeIsThere
    <2>2. ASSUME \A w \in Workers : setter[w].pc = "check", ~mixed PROVE Agree
      <3>1. ~\E w \in Workers : setter[w].pc \in {"time", "version"}
        BY <2>2
      <3> QED
        BY ZenonT(30), <2>2, <3>1 DEF FieldsInv
    <2> QED
      BY ZenonT(30), <2>1, <2>2 DEF FieldsAgree, Agree
  <1>2. Init => FieldsInv
    BY FieldsInvInit
  <1>3. FieldsInv /\ [Next]_vars => FieldsInv'
    BY FieldsInvNext
  <1> QED
    BY <1>1, <1>2, <1>3, PTL DEF Spec

\* For any number of loading threads and any configs: a call of SetCodeObject that no
\* other overlaps stores a higher commit time than the one in use when it stores,
\* however long it waited for Roma since it checked.
THEOREM CodeMovesForward ==
    ASSUME UdfAssumption
    PROVE  Spec => [][SoleUpdateIsForward]_vars
  <1>1. Init => FieldsInv
    BY FieldsInvInit
  <1>2. FieldsInv /\ [Next]_vars => FieldsInv'
    BY FieldsInvNext
  <1>3. FieldsInv /\ [Next]_vars => [SoleUpdateIsForward]_vars
    BY FieldsInvNext
  <1> QED
    BY <1>1, <1>2, <1>3, PTL DEF Spec
=============================================================================
