----------------------------- MODULE RealtimeAws -----------------------------
(***************************************************************************)
(* Realtime updates on AWS: the pool of notifier threads                   *)
(* (realtime_thread_pool_manager_aws.cc, realtime_notifier_aws.cc), which  *)
(* poll one SQS queue through change_notifier_aws.cc, and the message      *)
(* service they share (msg_svc_aws.cc), which creates the queue and        *)
(* subscribes it to the SNS topic.                                         *)
(*                                                                         *)
(* SQS and SNS are external.  A queue is a number; somebody may delete one *)
(* (Delete).  A receive hides the messages it returns from other receives  *)
(* until they are deleted or, when they are not, shows them again.         *)
(***************************************************************************)
EXTENDS Integers, FiniteSets, Sequences

CONSTANTS NumThreads,   \* number of notifiers
          Messages,     \* messages that are published, each once
          Unparsable,   \* those of Messages whose body does not parse
          MaxQueues,    \* bound on the queues created
          MaxDeletions, \* bound on the queues deleted by others
          MaxGivenUp,   \* bound on the queues given up though they exist
          MaxUndeleted  \* bound on the failed deletions of a message

RealtimeAwsAssumption ==
    /\ NumThreads \in Nat \ {0}
    /\ Unparsable \subseteq Messages
    /\ {MaxQueues, MaxDeletions, MaxGivenUp, MaxUndeleted} \subseteq Nat

Threads == 1 .. NumThreads
NoQueue == 0
Queues == 1 .. MaxQueues

VARIABLES svc,        \* AwsMessageService: url, arn, attributes, setup, owner of mutex_
          created,    \* number of queues created so far
          existing,   \* queues that exist
          subscribed, \* queues subscribed to the topic
          inbox,      \* per queue: messages that a receive can return
          published,  \* messages published so far
          delivered,  \* per message: number of times it reached the callback
          undeleted,  \* per message: number of times its deletion failed
          thread,     \* per notifier: see Thread
          main        \* the thread that starts and stops the pool

service == <<svc, created, existing, subscribed>>
queues == <<inbox, published, delivered, undeleted>>
vars == <<svc, created, existing, subscribed, inbox, published, delivered,
          undeleted, thread, main>>

\* stop is should_stop_ of the thread manager, long whether max_wait is
\* infinite, url the queue of the poll.
Thread == [pc : {"none", "loop", "poll?", "lock", "url", "arn", "attributes", "subscribe",
                 "receive", "waiting", "delete", "sleep", "apply", "ended"},
           stop : BOOLEAN, long : BOOLEAN,
           url : {NoQueue} \cup Queues, batch : SUBSET Messages]

Init ==
    /\ svc = [url |-> NoQueue, arn |-> NoQueue, attributes |-> FALSE, setup |-> FALSE,
              owner |-> 0]
    /\ created = 0
    /\ existing = {} /\ subscribed = {}
    /\ inbox = [q \in Queues |-> {}]
    /\ published = {}
    /\ delivered = [m \in Messages |-> 0]
    /\ undeleted = [m \in Messages |-> 0]
    /\ thread = [t \in Threads |-> [pc |-> "none", stop |-> FALSE, long |-> FALSE,
                                    url |-> NoQueue, batch |-> {}]]
    /\ main = [pc |-> "start", index |-> 1]

At(t, pc) == thread[t].pc = pc
Goto(t, pc) == thread' = [thread EXCEPT ![t].pc = pc]

-----------------------------------------------------------------------------
(* The message service.  SetupQueue holds mutex_ across its remote calls;   *)
(* each of them may fail, and the next call goes on where it stopped.      *)

\* A failed call ends SetupQueue; the notifier backs off.
SetupFails(t) ==
    /\ thread[t].pc \in {"url", "arn", "attributes", "subscribe"}
    /\ svc.owner = t
    /\ svc' = [svc EXCEPT !.owner = 0]
    /\ Goto(t, "sleep")
    /\ UNCHANGED <<created, existing, subscribed, queues, main>>

LockService(t) ==
    /\ At(t, "lock") /\ svc.owner = 0
    /\ svc' = [svc EXCEPT !.owner = t]
    /\ Goto(t, "url")
    /\ UNCHANGED <<created, existing, subscribed, queues, main>>

CreateQueue(t) ==
    /\ At(t, "url")
    /\ IF svc.url = NoQueue
       THEN /\ created < MaxQueues
            /\ created' = created + 1
            /\ existing' = existing \cup {created'}
            /\ svc' = [svc EXCEPT !.url = created']
       ELSE UNCHANGED <<created, existing, svc>>
    /\ Goto(t, "arn")
    /\ UNCHANGED <<subscribed, queues, main>>

Arn == IF svc.arn = NoQueue THEN svc.url ELSE svc.arn

\* Both calls need an existing queue.
GetQueueArn(t) ==
    /\ At(t, "arn")
    /\ svc.arn = NoQueue => svc.url \in existing
    /\ svc' = [svc EXCEPT !.arn = Arn]
    /\ Goto(t, "attributes")
    /\ UNCHANGED <<created, existing, subscribed, queues, main>>

SetQueueAttributes(t) ==
    /\ At(t, "attributes")
    /\ ~svc.attributes => svc.url \in existing
    /\ svc' = [svc EXCEPT !.attributes = TRUE]
    /\ Goto(t, "subscribe")
    /\ UNCHANGED <<created, existing, subscribed, queues, main>>

SubscribeQueue(t) ==
    /\ At(t, "subscribe")
    /\ subscribed' = subscribed \cup {svc.arn}
    /\ svc' = [svc EXCEPT !.setup = TRUE, !.owner = 0]
    /\ Goto(t, "receive")
    /\ UNCHANGED <<created, existing, queues, main>>

\* Mutant: the identity of the old queue is kept.
ResetKeepsArn(s) == [s EXCEPT !.url = NoQueue, !.attributes = FALSE, !.setup = FALSE]

\* Mutant: the service is left as it is.
NoReset(s) == s

Reset(s) == [s EXCEPT !.url = NoQueue, !.arn = NoQueue, !.attributes = FALSE, !.setup = FALSE]

-----------------------------------------------------------------------------
(* A notifier thread: Watch, with GetNotifications of the change notifier  *)
(* inlined.  Tagging the queue is modelled in SqsCleanup.                  *)

\* Mutant: the loop never looks at should_stop_.
NeverStops(t) == FALSE

ShouldStop(t) == thread[t].stop

CheckStop(t) ==
    /\ At(t, "loop")
    /\ Goto(t, IF ShouldStop(t) THEN "ended" ELSE "poll?")
    /\ UNCHANGED <<service, queues, main>>

\* IsSetupComplete is asked without keeping the lock.
CheckSetup(t) ==
    /\ At(t, "poll?") /\ svc.owner = 0
    /\ Goto(t, IF svc.setup THEN "receive" ELSE "lock")
    /\ UNCHANGED <<service, queues, main>>

\* Where a poll that returns no message leads: with an infinite max_wait it is
\* repeated until should_stop_callback says stop, then Watch goes on.
AfterNoMessages(t) == IF thread[t].long /\ ~ShouldStop(t) THEN "poll?" ELSE "loop"

\* ReceiveMessage takes the url as it is now: another thread may have reset
\* the service since this one looked.
BeginReceive(t) ==
    /\ At(t, "receive") /\ svc.owner = 0
    /\ thread' = [thread EXCEPT ![t].pc = "waiting", ![t].url = svc.url]
    /\ UNCHANGED <<service, queues, main>>

ReceiveNothing(t) ==
    /\ At(t, "waiting") /\ thread[t].url \in existing
    /\ thread' = [thread EXCEPT ![t].pc = AfterNoMessages(t), ![t].long = TRUE,
                                ![t].url = NoQueue]
    /\ UNCHANGED <<service, queues, main>>

ReceiveMessages(t) ==
    /\ At(t, "waiting") /\ thread[t].url \in existing
    /\ \E batch \in SUBSET inbox[thread[t].url] :
         /\ batch # {}
         /\ inbox' = [inbox EXCEPT ![thread[t].url] = @ \ batch]
         /\ thread' = [thread EXCEPT ![t].pc = "delete", ![t].batch = batch]
    /\ UNCHANGED <<service, published, delivered, undeleted, main>>

\* An error that the client would retry.
ReceiveFails(t) ==
    /\ At(t, "waiting")
    /\ thread' = [thread EXCEPT ![t].pc = "sleep", ![t].url = NoQueue]
    /\ UNCHANGED <<service, queues, main>>

\* Any other error: the queue is gone, the url was empty, or the queue is there and
\* the receive is refused.  The service is reset whatever it refers to now, also a
\* queue that another thread has just set up.
ReceiveFailsForGood(t) ==
    /\ At(t, "waiting")
    /\ thread[t].url \in existing => Cardinality(existing) <= MaxGivenUp
    /\ svc.owner = 0
    /\ svc' = Reset(svc)
    /\ thread' = [thread EXCEPT ![t].pc = "sleep", ![t].url = NoQueue]
    /\ UNCHANGED <<created, existing, subscribed, queues, main>>

\* Mutant: received messages are not deleted.
AlwaysVisible(ok) == TRUE

VisibleAgain(ok) == ~ok

\* The outcome of the deletion is only logged.  It goes to the url of the
\* moment, which need not be the one of the receive.
DeleteMessages(t, ok) ==
    /\ At(t, "delete") /\ svc.owner = 0
    /\ IF svc.url = thread[t].url /\ svc.url \in existing
       THEN ok \/ \A m \in thread[t].batch : undeleted[m] < MaxUndeleted
       ELSE ~ok
    /\ inbox' = IF VisibleAgain(ok) /\ thread[t].url \in existing
                THEN [inbox EXCEPT ![thread[t].url] = @ \cup thread[t].batch] ELSE inbox
    /\ undeleted' = [m \in Messages |-> IF ~ok /\ m \in thread[t].batch
                                        THEN undeleted[m] + 1 ELSE undeleted[m]]
    /\ thread' = [thread EXCEPT ![t].pc = "apply", ![t].url = NoQueue]
    /\ UNCHANGED <<service, published, delivered, main>>

\* Mutant: a body that does not parse ends the batch.
StopAtUnparsable(batch, m) == IF m \in Unparsable THEN {} ELSE batch \ {m}

\* GetNotifications of the record change notifier skips bodies that do not parse.
AfterMessage(batch, m) == batch \ {m}

\* The callback gets the messages of a batch one by one.
Apply(t) ==
    /\ At(t, "apply")
    /\ \E m \in thread[t].batch :
         /\ delivered' = IF m \in Unparsable THEN delivered
                         ELSE [delivered EXCEPT ![m] = @ + 1]
         /\ thread' = [thread EXCEPT ![t].batch = AfterMessage(@, m)]
    /\ UNCHANGED <<service, inbox, published, undeleted, main>>

Applied(t) ==
    /\ At(t, "apply") /\ thread[t].batch = {}
    /\ thread' = [thread EXCEPT ![t].pc = "loop", ![t].long = TRUE]
    /\ UNCHANGED <<service, queues, main>>

\* The backoff ends, or SleepFor::Stop interrupts it.
Sleep(t) ==
    /\ At(t, "sleep")
    /\ Goto(t, "loop")
    /\ UNCHANGED <<service, queues, main>>

-----------------------------------------------------------------------------
(* The pool.  Stop wakes and joins the notifiers one after the other; the  *)
(* destructor calls it again and finds none running.                      *)

StartNotifier(t) ==
    /\ main = [pc |-> "start", index |-> t]
    /\ Goto(t, "loop")
    /\ main' = IF t = Cardinality(Threads) THEN [pc |-> "started", index |-> 1]
               ELSE [main EXCEPT !.index = t + 1]
    /\ UNCHANGED <<service, queues>>

Stop ==
    /\ main.pc = "started"
    /\ main' = [pc |-> "stop", index |-> 1]
    /\ UNCHANGED <<service, queues, thread>>

StopNotifier(t) ==
    /\ main = [pc |-> "stop", index |-> t]
    /\ thread' = [thread EXCEPT ![t].stop = TRUE]
    /\ main' = [main EXCEPT !.pc = "join"]
    /\ UNCHANGED <<service, queues>>

Join(t) ==
    /\ main = [pc |-> "join", index |-> t] /\ At(t, "ended")
    /\ thread' = [thread EXCEPT ![t].pc = "none", ![t].stop = FALSE]
    /\ main' = IF t = Cardinality(Threads) THEN [pc |-> "stopped", index |-> t]
               ELSE [pc |-> "stop", index |-> t + 1]
    /\ UNCHANGED <<service, queues>>

-----------------------------------------------------------------------------
(* The cloud. *)

Publish(m) ==
    /\ m \notin published
    /\ published' = published \cup {m}
    /\ inbox' = [q \in Queues |-> IF q \in subscribed \cap existing
                                  THEN inbox[q] \cup {m} ELSE inbox[q]]
    /\ UNCHANGED <<service, delivered, undeleted, thread, main>>

Delete(q) ==
    /\ q \in existing
    /\ created - Cardinality(existing) < MaxDeletions
    /\ existing' = existing \ {q}
    /\ inbox' = [inbox EXCEPT ![q] = {}]
    /\ UNCHANGED <<svc, created, subscribed, published, delivered, undeleted, thread, main>>

SetupStep(t) ==
    \/ LockService(t)
    \/ CreateQueue(t) \/ GetQueueArn(t) \/ SetQueueAttributes(t) \/ SubscribeQueue(t)

PollStep(t) ==
    \/ CheckStop(t) \/ CheckSetup(t)
    \/ BeginReceive(t) \/ ReceiveNothing(t) \/ ReceiveMessages(t) \/ ReceiveFailsForGood(t)
    \/ \E ok \in BOOLEAN : DeleteMessages(t, ok)
    \/ Apply(t) \/ Applied(t) \/ Sleep(t)

Pool == \E t \in Threads : StartNotifier(t) \/ StopNotifier(t) \/ Join(t)

Next ==
    \/ \E t \in Threads : SetupStep(t) \/ SetupFails(t) \/ PollStep(t) \/ ReceiveFails(t)
    \/ Pool \/ Stop
    \/ \E m \in Messages : Publish(m)
    \/ \E q \in Queues : Delete(q)

Spec == Init /\ [][Next]_vars

\* A call fails that could succeed: one to a queue that exists, or the one that
\* creates the queue.
TransientFailure ==
    \E t \in Threads :
       \/ SetupFails(t) /\ svc.url \in existing \cup {NoQueue}
       \/ (ReceiveFails(t) \/ ReceiveFailsForGood(t)) /\ thread[t].url \in existing
       \/ ReceiveNothing(t) /\ inbox[thread[t].url] # {}

\* SQS says of a queue that it does not exist.
QueueIsMissing(t) == ReceiveFailsForGood(t) /\ thread[t].url \notin existing

-----------------------------------------------------------------------------
(* Properties *)

\* The queue the threads share, its subscription and what each thread polls are
\* queues this server created.
TypeOK ==
    /\ svc \in [url : {NoQueue} \cup Queues, arn : {NoQueue} \cup Queues,
                attributes : BOOLEAN, setup : BOOLEAN, owner : {0} \cup Threads]
    /\ created \in 0 .. MaxQueues /\ existing \subseteq 1 .. created
    /\ subscribed \subseteq 1 .. created
    /\ inbox \in [Queues -> SUBSET published] /\ published \subseteq Messages
    /\ delivered \in [Messages -> Nat]
    /\ undeleted \in [Messages -> Nat]
    /\ thread \in [Threads -> Thread]
    /\ main \in [pc : {"start", "started", "stop", "join", "stopped"}, index : Threads]

\* The message service never mixes two queues, and says that it is set up only
\* when its queue is subscribed, whichever threads set it up and reset it.
SetUpQueueIsSubscribed ==
    /\ svc.arn \in {NoQueue, svc.url}
    /\ svc.setup => svc.url \in subscribed /\ svc.attributes

\* A message reaches the callback once for each queue it was sent to, and once
\* more for each deletion that failed (DeleteMessages only logs failures).
NoNeedlessRedelivery ==
    \A m \in Messages : delivered[m] <= Cardinality(subscribed) + undeleted[m]

\* A message is in the queue of the service; it has reached the callback, unless
\* the queue was given up or the pool is stopped.
InQueue(m) == svc.setup /\ m \in inbox[svc.url]
Reached(m) == delivered[m] > 0 \/ ~svc.setup \/ svc.url \notin existing \/ main.pc # "started"

\* Stop has been called and has not returned.
Stopping == main.pc \in {"stop", "join"}

\* The pool has a queue that it can use, or is not running.  Set-up cannot go on when
\* the queue is deleted before it is complete, nor at the bound MaxQueues, which the
\* code does not have.
QueueUsable ==
    \/ svc.setup /\ svc.url \in existing
    \/ main.pc # "started"
    \/ ~svc.setup /\ svc.url \in Queues \ existing
    \/ svc.url = NoQueue /\ created = MaxQueues
=============================================================================
