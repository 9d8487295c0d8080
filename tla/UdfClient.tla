----------------------------- MODULE UdfClient ------------------------------
(***************************************************************************)
(* The client of the UDF engine (components/udf/udf_client.cc).  File      *)
(* workers replace the code object through SetCodeObject while requests    *)
(* run it through ExecuteCode.  Neither takes a lock.  Roma, the engine,   *)
(* is external: it processes loads in the order of the calls, keeps one    *)
(* code object per version number and answers through callbacks on threads *)
(* of its own.                                                             *)
(*                                                                         *)
(* A CodeConfig is known by its commit time, version and handler name; a   *)
(* worker that gets an error from SetCodeObject goes on with its next      *)
(* record (riegeli_stream_io.h only logs it).                              *)
(***************************************************************************)
EXTENDS Integers, Sequences

CONSTANTS Workers,   \* threads that load UDF records
          Share,     \* per worker, the configs it comes across, in order
          Default,   \* the config set when the server starts
          Calls,     \* ExecuteCode calls
          NoCode     \* Roma has no code object for a version

Configs == {Default} \cup UNION {{Share[w][i] : i \in DOMAIN Share[w]} : w \in Workers}
Versions == {c.version : c \in Configs}
Handlers == {c.handler : c \in Configs}

UdfAssumption ==
    /\ Share \in [Workers -> Seq(Configs)] /\ NoCode \notin Configs
    /\ \A c \in Configs : c.time \in Int /\ c.version \in Int
    /\ \A w \in Workers : \A i \in DOMAIN Share[w] : Share[w][i].time > Default.time

VARIABLES handler_name, logical_commit_time, version,
          running,   \* Roma: not stopped
          loaded,    \* Roma: the code object of each version
          loads,     \* Roma: LoadCodeObj requests not processed yet
          note,      \* per worker and record: notification and response_status
          setter,    \* per worker: pc, the number of its record and, for the
                     \* properties, whether no other call overlapped this one
          mixed,     \* for the properties: the last call to store its config was
                     \* overlapped by another
          call       \* per ExecuteCode call: see Call

fields == <<handler_name, logical_commit_time, version>>
roma == <<running, loaded, loads>>
vars == <<handler_name, logical_commit_time, version, running, loaded, loads,
          note, setter, mixed, call>>

Argument == [tagged : BOOLEAN, convertible : BOOLEAN]
Call == [pc : {"idle", "read", "execute", "waiting", "ok", "error", "timeout"},
         args : Seq({"metadata", "data", "argument"}), version : Versions, handler : Handlers,
         cb : {"none", "run", "written", "notified"},
         result : {"empty", "own", "failed"}]

Init ==
    /\ handler_name = Default.handler
    /\ logical_commit_time = Default.time
    /\ version = Default.version
    /\ running = TRUE
    /\ loaded = [v \in Versions |-> IF v = Default.version THEN Default ELSE NoCode]
    /\ loads = <<>>
    /\ note = [w \in Workers |-> [i \in DOMAIN Share[w] |-> "none"]]
    /\ setter = [w \in Workers |-> [pc |-> "check", record |-> 1, alone |-> TRUE]]
    /\ mixed = FALSE
    /\ call = [c \in Calls |-> [pc |-> "idle", args |-> <<>>,
                                version |-> Default.version,
                                handler |-> Default.handler,
                                cb |-> "none", result |-> "empty"]]

-----------------------------------------------------------------------------
(* SetCodeObject *)

HasRecord(w) == setter[w].record <= Len(Share[w])
Config(w) == Share[w][setter[w].record]
At(w, pc) == HasRecord(w) /\ setter[w].pc = pc
Goto(w, pc) == setter' = [setter EXCEPT ![w].pc = pc]

NextRecord(w) ==
    setter' = [setter EXCEPT ![w] = [pc |-> "check", record |-> @.record + 1, alone |-> TRUE]]

Others(w) == {u \in Workers \ {w} : setter[u].pc # "check"}

\* A call that goes on past the check overlaps those that already have.
StartLoad(w) ==
    setter' = [u \in Workers |->
                 IF u = w THEN [setter[u] EXCEPT !.pc = "load", !.alone = Others(w) = {}]
                 ELSE IF u \in Others(w) THEN [setter[u] EXCEPT !.alone = FALSE]
                 ELSE setter[u]]

\* Mutant: a config of any commit time replaces the code.
NeverTooOld(c) == FALSE

TooOld(c) == logical_commit_time >= c.time

CheckCommitTime(w) ==
    /\ At(w, "check")
    /\ IF TooOld(Config(w)) THEN NextRecord(w) ELSE StartLoad(w)
    /\ UNCHANGED <<fields, roma, note, mixed, call>>

\* LoadCodeObj accepts the request.
LoadCodeObj(w) ==
    /\ At(w, "load") /\ running
    /\ loads' = Append(loads, [worker |-> w, record |-> setter[w].record])
    /\ Goto(w, "waiting")
    /\ UNCHANGED <<fields, running, loaded, note, mixed, call>>

LoadCodeObjFails(w) ==
    /\ At(w, "load")
    /\ NextRecord(w)
    /\ UNCHANGED <<fields, roma, note, mixed, call>>

\* Mutant: the end of the wait counts as success.
WaitOver(w) == At(w, "waiting")

LoadSucceeded(w) == At(w, "waiting") /\ note[w][setter[w].record] = "ok"

CodeObjectSet(w) ==
    /\ LoadSucceeded(w)
    /\ Goto(w, "handler")
    /\ UNCHANGED <<fields, roma, note, mixed, call>>

\* The callback reported an error.
LoadFailed(w) ==
    /\ At(w, "waiting") /\ note[w][setter[w].record] = "error"
    /\ NextRecord(w)
    /\ UNCHANGED <<fields, roma, note, mixed, call>>

\* kCodeUpdateTimeout passes without a notification.
LoadTimesOut(w) ==
    /\ At(w, "waiting") /\ note[w][setter[w].record] = "none"
    /\ NextRecord(w)
    /\ UNCHANGED <<fields, roma, note, mixed, call>>

\* The three assignments at the end; nothing keeps other threads out.
SetHandlerName(w) ==
    /\ At(w, "handler")
    /\ handler_name' = Config(w).handler
    /\ Goto(w, "time")
    /\ UNCHANGED <<logical_commit_time, version, roma, note, mixed, call>>

\* Mutant: the commit time of the config before is kept.
OldTime(w) == logical_commit_time

NewTime(w) == Config(w).time

SetLogicalCommitTime(w) ==
    /\ At(w, "time")
    /\ logical_commit_time' = NewTime(w)
    /\ Goto(w, "version")
    /\ UNCHANGED <<handler_name, version, roma, note, mixed, call>>

SetVersion(w) ==
    /\ At(w, "version")
    /\ version' = Config(w).version
    /\ mixed' = ~setter[w].alone
    /\ NextRecord(w)
    /\ UNCHANGED <<handler_name, logical_commit_time, roma, note, call>>

SetCodeObject(w) ==
    \/ CheckCommitTime(w) \/ LoadCodeObj(w) \/ LoadCodeObjFails(w)
    \/ CodeObjectSet(w) \/ LoadFailed(w) \/ LoadTimesOut(w)
    \/ SetHandlerName(w) \/ SetLogicalCommitTime(w) \/ SetVersion(w)

-----------------------------------------------------------------------------
(* ExecuteCode *)

Update(c, changes) == call' = [call EXCEPT ![c] = changes]

\* The strings passed to Roma: the metadata, then of each argument the data
\* alone or, when it has tags, all of it.
StringArgs(args) ==
    <<"metadata">> \o [i \in DOMAIN args |-> IF args[i].tagged THEN "argument" ELSE "data"]

\* The arguments are converted, or one of them cannot be.
Begin(c, args) ==
    /\ call[c].pc = "idle"
    /\ Update(c, [call[c] EXCEPT
                    !.pc = IF \A i \in DOMAIN args : args[i].convertible
                           THEN "read" ELSE "error",
                    !.args = StringArgs(args)])
    /\ UNCHANGED <<fields, roma, note, setter, mixed>>

\* BuildInvocationRequest reads version_, then handler_name_.
ReadVersion(c) ==
    /\ call[c].pc = "read"
    /\ Update(c, [call[c] EXCEPT !.pc = "execute", !.version = version])
    /\ UNCHANGED <<fields, roma, note, setter, mixed>>

Execute(c) ==
    /\ call[c].pc = "execute" /\ running
    /\ Update(c, [call[c] EXCEPT !.pc = "waiting", !.handler = handler_name, !.cb = "run"])
    /\ UNCHANGED <<fields, roma, note, setter, mixed>>

ExecuteFails(c) ==
    /\ call[c].pc = "execute"
    /\ Update(c, [call[c] EXCEPT !.pc = "error", !.handler = handler_name])
    /\ UNCHANGED <<fields, roma, note, setter, mixed>>

Answer(c) ==
    /\ call[c].pc = "waiting" /\ call[c].cb = "notified"
    /\ Update(c, [call[c] EXCEPT !.pc = IF call[c].result = "failed" THEN "error" ELSE "ok"])
    /\ UNCHANGED <<fields, roma, note, setter, mixed>>

\* Mutant: WaitForNotification without a timeout.
NeverTimesOut(c) == FALSE

MayTimeOut(c) == call[c].pc = "waiting" /\ call[c].cb # "notified"

\* udf_timeout passes.  Roma may still run the code and call back.
ExecuteTimesOut(c) ==
    /\ MayTimeOut(c)
    /\ Update(c, [call[c] EXCEPT !.pc = "timeout"])
    /\ UNCHANGED <<fields, roma, note, setter, mixed>>

ExecuteCode(c) == ReadVersion(c) \/ Execute(c) \/ ExecuteFails(c) \/ Answer(c)

-----------------------------------------------------------------------------
(* Roma *)

ProcessLoad(ok) ==
    /\ running /\ loads # <<>>
    /\ LET req == Head(loads)
           config == Share[req.worker][req.record]
       IN /\ loaded' = IF ok THEN [loaded EXCEPT ![config.version] = config] ELSE loaded
          /\ note' = [note EXCEPT ![req.worker][req.record] = IF ok THEN "ok" ELSE "error"]
    /\ loads' = Tail(loads)
    /\ UNCHANGED <<fields, running, setter, mixed, call>>

\* The code runs if the version is there and has the handler; the callback
\* stores the response ...
Run(c) ==
    /\ running /\ call[c].cb = "run"
    /\ LET code == loaded[call[c].version]
           found == code # NoCode /\ code.handler = call[c].handler
       IN \E outcome \in (IF found THEN {"own", "failed"} ELSE {"failed"}) :
            Update(c, [call[c] EXCEPT !.cb = "written", !.result = outcome])
    /\ UNCHANGED <<fields, roma, note, setter, mixed>>

\* Mutant: the callback notifies before it has stored the response.
NotifyAnyTime(c) == call[c].cb \in {"run", "written"}

ResponseStored(c) == call[c].cb = "written"

\* ... and then notifies.
NotifyCaller(c) ==
    /\ running /\ ResponseStored(c)
    /\ Update(c, [call[c] EXCEPT !.cb = "notified"])
    /\ UNCHANGED <<fields, roma, note, setter, mixed>>

RomaStop ==
    /\ running
    /\ running' = FALSE
    /\ UNCHANGED <<fields, loaded, loads, note, setter, mixed, call>>

Next ==
    \/ \E w \in Workers : SetCodeObject(w)
    \/ \E c \in Calls :
          \/ \E args \in {<<>>} \cup {<<a>> : a \in Argument} : Begin(c, args)
          \/ ExecuteCode(c) \/ ExecuteTimesOut(c) \/ Run(c) \/ NotifyCaller(c)
    \/ \E ok \in BOOLEAN : ProcessLoad(ok)
    \/ RomaStop

Spec == Init /\ [][Next]_vars

-----------------------------------------------------------------------------
\* Workers stand at one of their records, and the fields name a version and a
\* handler some config has.
TypeOK ==
    /\ handler_name \in Handlers /\ version \in Versions /\ logical_commit_time \in Int
    /\ running \in BOOLEAN /\ mixed \in BOOLEAN
    /\ loaded \in [Versions -> Configs \cup {NoCode}]
    /\ \A i \in DOMAIN loads : loads[i].worker \in Workers
    /\ \A w \in Workers :
          /\ setter[w].record \in 1 .. Len(Share[w]) + 1 /\ setter[w].alone \in BOOLEAN
          /\ note[w] \in [DOMAIN Share[w] -> {"none", "ok", "error"}]
    /\ call \in [Calls -> Call]

\* ExecuteCode answers with what its own invocation returned, never with the
\* empty string its result starts as: the callback has stored the response
\* before it notifies, and a callback after the timeout finds objects that no
\* later call uses.
AnswerIsOwn == \A c \in Calls : call[c].pc = "ok" => call[c].result = "own"

\* The version that requests ask Roma for is one it has, at every moment and
\* whatever threads replace the code: version_ is set only once the callback
\* reported success, so that a load that failed or timed out leaves no trace.
CodeIsThere == loaded[version] # NoCode

\* Between calls of SetCodeObject, handler name, commit time and version belong
\* to one config, unless the call that stored last was overlapped by another:
\* without a lock the assignments of two calls mix (see README.md).  A later
\* call that runs alone repairs them.
FieldsAgree ==
    (\A w \in Workers : setter[w].pc = "check") /\ ~mixed =>
        \E c \in Configs :
            handler_name = c.handler /\ logical_commit_time = c.time /\ version = c.version

\* A call of SetCodeObject that no other call overlaps stores a higher commit
\* time than the one in use when it stores, though the check was made before
\* the wait for Roma, which may last until the timeout.
SoleUpdateIsForward ==
    \A w \in Workers :
        setter[w].alone /\ setter[w].pc = "time" /\ setter'[w].pc = "version" =>
            logical_commit_time' > logical_commit_time

\* A call of ExecuteCode is in progress, or has returned.
Executing(c) == call[c].pc \in {"read", "execute", "waiting"}
Returned(c) == call[c].pc \in {"ok", "error", "timeout"}

-----------------------------------------------------------------------------
(* What documentation or comments say.  The code does otherwise, see       *)
(* README.md; these are no properties of the model.                        *)

\* "The UDF will only be updated for configs with a higher
\* `logical_commit_time` than the existing one"
\* (docs/generating_udf_files.md): of two calls that both passed the check the
\* older config can be stored last.
UpdatesOnlyForward == logical_commit_time' >= logical_commit_time
=============================================================================
