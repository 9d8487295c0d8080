----------------------------- MODULE RealtimeGcp -----------------------------
(***************************************************************************)
(* Realtime updates on GCP (realtime_notifier_gcp.cc, msg_svc_gcp.cc,      *)
(* realtime_thread_pool_manager_gcp.cc).  The notifier thread subscribes   *)
(* and then sleeps until it is stopped; messages arrive on the threads of  *)
(* the subscriber.  Pub/Sub is external: it sends a message again until it *)
(* is acknowledged, and a cancelled session ends some time after cancel(). *)
(***************************************************************************)
EXTENDS Integers, FiniteSets

CONSTANTS Messages,     \* messages published
          Undecodable,  \* those of Messages that are not base64
          NumThreads    \* MaxConcurrencyOption of the subscriber

VARIABLES main,      \* creates, starts, stops and destroys the notifier
          watcher,   \* the notifier thread
          session,   \* session_: none, active, cancelled; ended in the cloud
          woken,     \* the notification of SleepFor
          handler,   \* per message: where OnMessageReceived is
          applied,   \* messages passed to the callback
          acked      \* messages acknowledged

vars == <<main, watcher, session, woken, handler, applied, acked>>
notifier == <<main, watcher, session, woken>>
messages == <<handler, applied, acked>>

Init ==
    /\ main = "create"
    /\ watcher = "none" /\ session = "none" /\ woken = FALSE
    /\ handler = [m \in Messages |-> "none"]
    /\ applied = {} /\ acked = {}

-----------------------------------------------------------------------------
(* CreateSubscriber: the message service creates a subscription.  When that *)
(* fails, nothing is kept and the server calls Create again.               *)

SetupQueue ==
    /\ main = "create"
    /\ main' = "created"
    /\ UNCHANGED <<watcher, session, woken, messages>>

Start ==
    /\ main = "created"
    /\ watcher' = "subscribe" /\ main' = "started"
    /\ UNCHANGED <<session, woken, messages>>

\* Watch: Subscribe under mutex_, which Stop takes as well, then the sleep without end.
Subscribe ==
    /\ watcher = "subscribe"
    /\ session' = "active" /\ watcher' = "sleep"
    /\ UNCHANGED <<main, woken, messages>>

\* Mutant: the thread sleeps on.
SleepsOn == FALSE

WakesUp == woken

WatchEnds ==
    /\ watcher = "sleep" /\ WakesUp
    /\ watcher' = "ended"
    /\ UNCHANGED <<main, session, woken, messages>>

\* Stop: the critical section.  Without a session there is nothing to cancel,
\* and the thread, woken for good, still subscribes afterwards.
Stop ==
    /\ main = "started"
    /\ session' = IF session = "active" THEN "cancelled" ELSE session
    /\ woken' = TRUE
    /\ main' = "join"
    /\ UNCHANGED <<watcher, messages>>

Join ==
    /\ main = "join" /\ watcher = "ended"
    /\ watcher' = "none" /\ main' = "stopped"
    /\ UNCHANGED <<session, woken, messages>>

\* Mutant: the destructor does not stop the notifier.
LeaveSession == session

CancelSession == IF session = "active" THEN "cancelled" ELSE session

\* The destructor calls Stop again: cancel() once more, Stop of SleepFor and
\* of the thread manager fail and the errors are logged.
Destroy ==
    /\ main = "stopped"
    /\ session' = CancelSession
    /\ main' = "destroyed"
    /\ UNCHANGED <<watcher, woken, messages>>

-----------------------------------------------------------------------------
(* OnMessageReceived, on a thread of the subscriber *)

Running == {m \in Messages : handler[m] \in {"decode", "callback", "ack"}}

Receive(m) ==
    /\ session \in {"active", "cancelled"}
    /\ m \notin acked /\ handler[m] = "none"
    /\ Cardinality(Running) < NumThreads
    /\ handler' = [handler EXCEPT ![m] = "decode"]
    /\ UNCHANGED <<notifier, applied, acked>>

\* Mutant: a message is acknowledged when it has been decoded.
AckDecoded(m) == "ack"

AfterDecode(m) == IF m \in Undecodable THEN "ack" ELSE "callback"

Decode(m) ==
    /\ handler[m] = "decode"
    /\ handler' = [handler EXCEPT ![m] = AfterDecode(m)]
    /\ UNCHANGED <<notifier, applied, acked>>

\* Success or failure of the callback makes no difference to the message.
Callback(m) ==
    /\ handler[m] = "callback"
    /\ applied' = applied \cup {m}
    /\ handler' = [handler EXCEPT ![m] = "ack"]
    /\ UNCHANGED <<notifier, acked>>

\* Mutant: what does not decode is not acknowledged.
AckedIfDecoded(m) == m \notin Undecodable

Acknowledged(m) == TRUE

Ack(m) ==
    /\ handler[m] = "ack"
    /\ acked' = IF Acknowledged(m) THEN acked \cup {m} ELSE acked
    /\ handler' = [handler EXCEPT ![m] = "none"]
    /\ UNCHANGED <<notifier, applied>>

\* The cancelled session ends.
SessionEnds ==
    /\ session = "cancelled"
    /\ session' = "ended"
    /\ UNCHANGED <<main, watcher, woken, messages>>

Handle(m) == Decode(m) \/ Callback(m) \/ Ack(m)

\* What the thread of the server does by itself, and the thread that watches.
MainStep == SetupQueue \/ Start \/ Join \/ Destroy
WatcherStep == Subscribe \/ WatchEnds

Next ==
    \/ MainStep \/ Stop \/ WatcherStep \/ SessionEnds
    \/ \E m \in Messages : Receive(m) \/ Handle(m)

Spec == Init /\ [][Next]_vars

-----------------------------------------------------------------------------
(* Properties *)

\* At most num_threads callbacks run at once, and main, watcher, session and
\* callbacks are in states of the code.
TypeOK ==
    /\ main \in {"create", "created", "started", "join", "stopped", "destroyed"}
    /\ watcher \in {"none", "subscribe", "sleep", "ended"}
    /\ session \in {"none", "active", "cancelled", "ended"} /\ woken \in BOOLEAN
    /\ handler \in [Messages -> {"none", "decode", "callback", "ack"}]
    /\ applied \subseteq Messages /\ acked \subseteq Messages
    /\ Cardinality({m \in Messages : handler[m] # "none"}) <= NumThreads

\* A message is acknowledged only after the callback had it, so that none is
\* lost when the process ends in between (OnMessageReceived acks last).
AckedWereApplied == acked \ Undecodable \subseteq applied

\* A message is acknowledged, or there is no session any more.
SessionIsActive == session = "active"
AckedOrOver(m) == m \in acked \/ session # "active"

\* Stop has been called and has not returned.
Stopping == main = "join"

NotifierDestroyed == main = "destroyed"
SessionEnded == session = "ended"
=============================================================================
