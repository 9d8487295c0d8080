----------------------------- MODULE SqsCleanup ------------------------------
(***************************************************************************)
(* The scheduled job that deletes the SQS queues of servers that are gone  *)
(* (components/aws/sqs_cleanup_manager.py), together with the tagging by   *)
(* which a server shows that it uses its queue (MaybeTagQueue in           *)
(* components/data/common/change_notifier_aws.cc).                         *)
(*                                                                         *)
(* Time is kept as ages.  age[q] is the time since the last_updated tag of *)
(* q was written or, when it has none, since q was created; it stops one   *)
(* beyond the timeout.  The job may be interrupted at any step; the next   *)
(* run starts anew.                                                        *)
(***************************************************************************)
EXTENDS Integers

CONSTANTS Servers,        \* each sets up one queue, known by the server's name
          Timeout,        \* timeout_secs of the job
          TagEvery,       \* kLastUpdatedFrequency
          PollEvery,      \* longest time between two polls of a server that works
          MaxTagFailures  \* bound on the failed attempts to tag in a row

\* A poll takes less time (kMaxLongPollDuration) than the tag lasts, and the timeout
\* leaves time for a tag, the failed attempts to renew it and one poll more.
CleanupAssumption ==
    /\ {Timeout, TagEvery, PollEvery, MaxTagFailures} \subseteq Nat
    /\ PollEvery \in 1 .. TagEvery
    /\ Timeout > TagEvery + (MaxTagFailures + 1) * PollEvery

VARIABLES server,  \* per server: up, its setup, age of its last tag and poll, failures
          queue,   \* queues that exist
          subs,    \* queues with a subscription to the topic
          age,
          job,     \* the job: pc, the lists it holds
          unseen   \* queues of running servers that the job took for missing

vars == <<server, queue, subs, age, job, unseen>>

NotRunning == [pc |-> "idle", subs |-> {}, expired |-> {}, dangling |-> {}]

\* The record of a server that does not run.
Idle(state) == [state |-> state, tagged |-> TagEvery, polled |-> 0, failures |-> 0]

Init ==
    /\ server = [s \in Servers |-> Idle("new")]
    /\ queue = {} /\ subs = {}
    /\ age = [s \in Servers |-> 0]
    /\ job = NotRunning /\ unseen = {}

-----------------------------------------------------------------------------
(* Servers *)

CreateQueue(s) ==
    /\ server[s].state = "new"
    /\ server' = [server EXCEPT ![s].state = "created"]
    /\ queue' = queue \cup {s}
    /\ age' = [age EXCEPT ![s] = 0]
    /\ UNCHANGED <<subs, job, unseen>>

\* SetupQueue succeeds; the poll that follows is due at once.
Subscribe(s) ==
    /\ server[s].state = "created"
    /\ server' = [server EXCEPT ![s].state = "polling", ![s].polled = 0]
    /\ subs' = subs \cup {s}
    /\ UNCHANGED <<queue, age, job, unseen>>

TaggedNow == 0

\* Mutant: a tag is due only beyond the interval.
TagIsOverdue(s) == server[s].tagged > TagEvery

\* now - last_updated_ >= kLastUpdatedFrequency
TagIsDue(s) == server[s].tagged >= TagEvery

\* GetNotificationsInternal: MaybeTagQueue comes before the receive.
Poll(s, tagOk) ==
    /\ server[s].state = "polling" /\ s \in queue
    /\ IF ~TagIsDue(s) THEN tagOk /\ server' = [server EXCEPT ![s].polled = 0] /\ UNCHANGED age
       ELSE IF tagOk
       THEN /\ server' = [server EXCEPT ![s].polled = 0, ![s].tagged = TaggedNow, ![s].failures = 0]
            /\ age' = [age EXCEPT ![s] = 0]
       ELSE /\ server[s].failures < MaxTagFailures
            /\ server' = [server EXCEPT ![s].polled = 0, ![s].failures = @ + 1]
            /\ UNCHANGED age
    /\ UNCHANGED <<queue, subs, job, unseen>>

\* A server may end at any time, its queue stays.
Crash(s) ==
    /\ server[s].state \in {"created", "polling"}
    /\ server' = [server EXCEPT ![s] = Idle("gone")]
    /\ unseen' = unseen \ {s}
    /\ UNCHANGED <<queue, subs, age, job>>

\* Somebody deletes the queue.  A server that runs sets up another one, which
\* is no longer modelled.
DeletedByHand(s) ==
    /\ s \in queue
    /\ queue' = queue \ {s}
    /\ server' = [server EXCEPT ![s] = Idle("gone")]
    /\ unseen' = unseen \ {s}
    /\ UNCHANGED <<subs, age, job>>

\* Time passes for all.  A server in service polls in time; setting up a queue
\* takes less than PollEvery.
Tick ==
    /\ \A s \in Servers :
         /\ server[s].state = "polling" => server[s].polled < PollEvery
         /\ server[s].state = "created" => age[s] < PollEvery
    /\ server' = [s \in Servers |->
                    IF server[s].state = "polling"
                    THEN [server[s] EXCEPT !.tagged = IF @ < TagEvery THEN @ + 1 ELSE @,
                                           !.polled = @ + 1]
                    ELSE server[s]]
    /\ age' = [s \in Servers |-> IF s \in queue /\ age[s] <= Timeout THEN age[s] + 1 ELSE age[s]]
    /\ UNCHANGED <<queue, subs, job, unseen>>

-----------------------------------------------------------------------------
(* The job: find_and_cleanup *)

\* _is_expired, for every queue that is listed.
Expired == {q \in queue : age[q] > Timeout}

\* _get_all_subscriptions
GetAllSubscriptions ==
    /\ job.pc = "idle"
    /\ job' = [NotRunning EXCEPT !.pc = "expired", !.subs = subs]
    /\ UNCHANGED <<server, queue, subs, age, unseen>>

FindExpiredQueues ==
    /\ job.pc = "expired"
    /\ job' = [job EXCEPT !.pc = "orphans", !.expired = Expired]
    /\ UNCHANGED <<server, queue, subs, age, unseen>>

\* Mutant: queues without a subscription are left alone.
NoOrphans == {}

Orphans == job.expired \ job.subs

\* _cleanup_orphan_queues: one queue after the other.
DeleteOrphan ==
    /\ job.pc = "orphans"
    /\ IF Orphans # {}
       THEN \E q \in Orphans : /\ queue' = queue \ {q}
                               /\ job' = [job EXCEPT !.expired = @ \ {q}]
       ELSE job' = [NotRunning EXCEPT !.pc = "dangling"] /\ UNCHANGED queue
    /\ UNCHANGED <<server, subs, age, unseen>>

\* _does_queue_exist says no whatever makes get_queue_url fail: for queues that do
\* not exist, and for those of failed that do.
Dangling(failed) == (subs \ queue) \cup failed

\* _get_dangling_subscriptions
GetDanglingSubscriptions ==
    /\ job.pc = "dangling"
    /\ \E failed \in SUBSET (subs \cap queue) :
          /\ job' = [job EXCEPT !.pc = "unsubscribe", !.dangling = Dangling(failed)]
          /\ unseen' = unseen \cup failed
    /\ UNCHANGED <<server, queue, subs, age>>

\* _delete_subscriptions, then the second _find_expired_queues.
DeleteSubscription ==
    /\ job.pc = "unsubscribe"
    /\ IF job.dangling # {}
       THEN \E q \in job.dangling : /\ subs' = subs \ {q}
                                    /\ job' = [job EXCEPT !.dangling = @ \ {q}]
       ELSE job' = [job EXCEPT !.pc = "targets", !.expired = Expired] /\ UNCHANGED subs
    /\ UNCHANGED <<server, queue, age, unseen>>

\* _get_target_subscriptions
GetTargetSubscriptions ==
    /\ job.pc = "targets"
    /\ job' = [job EXCEPT !.pc = "cleanup", !.subs = subs]
    /\ UNCHANGED <<server, queue, subs, age, unseen>>

\* _cleanup: the subscription is deleted first, the queue in the next step.
CleanupSubscription ==
    /\ job.pc = "cleanup"
    /\ IF job.expired \cap job.subs # {}
       THEN \E q \in job.expired \cap job.subs :
              /\ subs' = subs \ {q}
              /\ job' = [job EXCEPT !.pc = "cleanup queue", !.dangling = {q}]
       ELSE job' = NotRunning /\ UNCHANGED subs
    /\ UNCHANGED <<server, queue, age, unseen>>

CleanupQueue ==
    /\ job.pc = "cleanup queue"
    /\ queue' = queue \ job.dangling
    /\ job' = [job EXCEPT !.pc = "cleanup", !.expired = @ \ job.dangling, !.dangling = {}]
    /\ UNCHANGED <<server, subs, age, unseen>>

\* A call of the job raises an exception or the job runs out of time.
Interrupted ==
    /\ job.pc # "idle"
    /\ job' = NotRunning
    /\ UNCHANGED <<server, queue, subs, age, unseen>>

Job ==
    \/ GetAllSubscriptions \/ FindExpiredQueues \/ DeleteOrphan
    \/ GetDanglingSubscriptions \/ DeleteSubscription
    \/ GetTargetSubscriptions \/ CleanupSubscription \/ CleanupQueue

Next ==
    \/ \E s \in Servers : \/ CreateQueue(s) \/ Subscribe(s) \/ Crash(s) \/ DeletedByHand(s)
                          \/ \E tagOk \in BOOLEAN : Poll(s, tagOk)
    \/ Tick \/ Job \/ Interrupted

Spec == Init /\ [][Next]_vars

\* A run of the job ends before it is complete.
CutOff == Interrupted /\ ~CleanupSubscription

-----------------------------------------------------------------------------
(* Properties *)

\* A server fails to tag its queue a bounded number of times, and the ages of tags
\* stay in their ranges.
TypeOK ==
    /\ server \in [Servers -> [state : {"new", "created", "polling", "gone"},
                               tagged : 0 .. TagEvery, polled : 0 .. PollEvery,
                               failures : 0 .. MaxTagFailures]]
    /\ queue \subseteq Servers /\ subs \subseteq Servers /\ unseen \subseteq Servers
    /\ age \in [Servers -> 0 .. Timeout + 1]
    /\ job \in [pc : {"idle", "expired", "orphans", "dangling", "unsubscribe", "targets",
                      "cleanup", "cleanup queue"},
                subs : SUBSET Servers, expired : SUBSET Servers, dangling : SUBSET Servers]

\* The job never takes the queue of a server that sets it up or polls it in time,
\* though it decides from lists that are stale when it deletes, and though attempts
\* to tag the queue may fail.  It takes the subscription of such a server only after
\* a look-up of its queue failed for another reason than that the queue is missing:
\* the bare except of _does_queue_exist does not tell them apart.
UsedQueueIsKept ==
    \A s \in Servers :
        /\ server[s].state \in {"created", "polling"} => s \in queue
        /\ server[s].state = "polling" => s \in subs \/ s \in unseen

\* A server is gone; nothing is left of it.
Gone(s) == server[s].state = "gone"
Removed(s) == s \notin queue /\ s \notin subs
=============================================================================
