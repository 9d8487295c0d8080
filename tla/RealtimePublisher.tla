------------------------- MODULE RealtimePublisher -------------------------
(***************************************************************************)
(* The tool that publishes every file of a folder as a realtime update:    *)
(* threads take messages from a queue under a mutex and publish them, each *)
(* pausing after a batch so as not to exceed a rate.  SNS and Pub/Sub are  *)
(* external; a publication may fail.  Time is counted in ticks.            *)
(***************************************************************************)
EXTENDS Naturals, Sequences, FiniteSets, FiniteSetsExt

CONSTANTS Entries,      \* entries of the folder, in the order they are listed
          Publishers,   \* threads
          Rate,         \* files_insertion_rate
          Second,       \* ticks of a second
          StartBy,      \* all threads have begun by then
          MaxTime

PublisherAssumption ==
    /\ Rate \in Nat \ {0} /\ Second \in Nat \ {0}
    /\ MaxTime > StartBy + (Len(Entries) \div Rate + 1) * Second    \* no pause is longer

VARIABLES now, queue,
          pc, message, index, batch_end,   \* of each thread
          sent,        \* publications, in order: thread, message and time
          failed,      \* messages whose publication failed
          run          \* the main thread

vars == <<now, queue, pc, message, index, batch_end, sent, failed, run>>

None == [entry |-> 0]

\* PopulateQueue makes a message of every entry before the threads start.
PopulateQueue == [i \in DOMAIN Entries |-> [entry |-> i]]

Init ==
    /\ now = 0 /\ queue = PopulateQueue /\ run = "waiting"
    /\ pc = [t \in Publishers |-> "begin"] /\ message = [t \in Publishers |-> None]
    /\ index = [t \in Publishers |-> 1] /\ batch_end = [t \in Publishers |-> 0]
    /\ sent = <<>> /\ failed = {}

Tick == /\ now < MaxTime /\ now' = now + 1
        /\ now < StartBy \/ \A t \in Publishers : pc[t] # "begin"
        /\ UNCHANGED <<queue, pc, message, index, batch_end, sent, failed, run>>

Begin(t) ==
    /\ pc[t] = "begin" /\ pc' = [pc EXCEPT ![t] = "pop"]
    /\ batch_end' = [batch_end EXCEPT ![t] = now + Second]
    /\ UNCHANGED <<now, queue, message, index, sent, failed, run>>

AfterPop == Tail(queue)

\* Where a thread is when it found the queue empty
NoMessage == "ended"

Pop(t) ==
    /\ pc[t] = "pop"
    /\ \/ /\ queue # <<>> /\ queue' = AfterPop
          /\ message' = [message EXCEPT ![t] = Head(queue)]
          /\ pc' = [pc EXCEPT ![t] = "publish"]
       \/ /\ queue = <<>> /\ pc' = [pc EXCEPT ![t] = NoMessage]
          /\ UNCHANGED <<queue, message>>
    /\ UNCHANGED <<now, index, batch_end, sent, failed, run>>

Publish(t, ok) == IF ok THEN Append(sent, [by |-> t, what |-> message[t], at |-> now]) ELSE sent

BatchIsFull(n) == n % Rate = 0

\* A failed publication is logged and counted like one that succeeded.
ConsumeAndPublish(t) ==
    /\ pc[t] = "publish"
    /\ \E ok \in BOOLEAN :
          /\ sent' = Publish(t, ok)
          /\ failed' = IF ok THEN failed ELSE failed \cup {message[t]}
    /\ message' = [message EXCEPT ![t] = None]
    /\ index' = [index EXCEPT ![t] = @ + 1]
    /\ pc' = [pc EXCEPT ![t] = IF BatchIsFull(index[t] + 1) THEN "pause" ELSE "pop"]
    /\ UNCHANGED <<now, queue, batch_end, run>>

\* Mutant: the pause lasts to the end of the batch before.
EarlierEnd(t) == batch_end[t] - Second

PauseEnd(t) == batch_end[t]

\* It sleeps unless the end of the batch has passed; batches end a second apart.
Pause(t) ==
    /\ pc[t] = "pause" /\ now >= PauseEnd(t)
    /\ batch_end' = [batch_end EXCEPT ![t] = @ + Second]
    /\ pc' = [pc EXCEPT ![t] = "pop"]
    /\ UNCHANGED <<now, queue, message, index, sent, failed, run>>

\* Run polls the queue, without the mutex, and then joins the threads.
QueueIsEmpty ==
    /\ run = "waiting" /\ queue = <<>> /\ run' = "joining"
    /\ UNCHANGED <<now, queue, pc, message, index, batch_end, sent, failed>>

\* Mutant: an empty queue is taken for the end.
NoJoin == TRUE

Joined == \A t \in Publishers : pc[t] = "ended"

RunReturns ==
    /\ run = "joining" /\ Joined /\ run' = "returned"
    /\ UNCHANGED <<now, queue, pc, message, index, batch_end, sent, failed>>

PublisherStep(t) == Begin(t) \/ Pop(t) \/ ConsumeAndPublish(t) \/ Pause(t)

Next == Tick \/ QueueIsEmpty \/ RunReturns \/ \E t \in Publishers : PublisherStep(t)

Spec == Init /\ [][Next]_vars

-----------------------------------------------------------------------------

Messages == {[entry |-> i] : i \in DOMAIN Entries}
SentBy(t) == {i \in DOMAIN sent : sent[i].by = t}

\* A thread holds a message exactly while it publishes it, and between them the
\* threads count every attempt once.
TypeOK ==
    /\ now \in 0..MaxTime /\ run \in {"waiting", "joining", "returned"}
    /\ \A t \in Publishers : (pc[t] = "publish") <=> (message[t] # None)
    /\ Len(sent) + Cardinality(failed)
          = FoldSet(LAMBDA t, n : index[t] - 1 + n, 0, Publishers)

\* Run returns only after every file was published or its failure logged.
ReturnsAfterAll ==
    run = "returned" => Messages = failed \cup {sent[i].what : i \in DOMAIN sent}

\* A thread never runs ahead of its rate: n seconds after the start it has
\* published at most that many times n + 1, whatever was slow before.
RateOnAverage ==
    \A t \in Publishers : Cardinality(SentBy(t)) <= Rate * (now \div Second + 1)

-----------------------------------------------------------------------------
(* What documentation or comments say.  The code does otherwise, see       *)
(* README.md; these are no properties of the model.                        *)

\* A thread "can't insert more than that many messages per second".
RateEverySecond ==
    \A t \in Publishers, s \in 0..(MaxTime \div Second) :
        Cardinality({i \in SentBy(t) : sent[i].at \div Second = s}) <= Rate
=============================================================================
