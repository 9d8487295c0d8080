--------------------------- MODULE RealtimeProofs ----------------------------
(***************************************************************************)
(* Theorems about the realtime updates in the cloud: the job that deletes  *)
(* the queues of servers that are gone (SqsCleanup) and the notifier of    *)
(* GCP (RealtimeGcp).                                                      *)
(***************************************************************************)
EXTENDS Integers, FiniteSets, FiniteSetTheorems, TLAPS

CONSTANTS Servers, Timeout, TagEvery, PollEvery, MaxTagFailures
VARIABLES server, queue, subs, age, job, unseen

Cleanup == INSTANCE SqsCleanup

-----------------------------------------------------------------------------
(* SqsCleanup *)

\* The time that f failed attempts to write the tag take.
Late(f) == f * PollEvery

\* How old, a, the tag of a server me can be, while it sets up its queue or polls.
AgeFits(me, a) ==
    /\ me.state \in {"new", "created"} => me.tagged = TagEvery /\ me.failures = 0
    /\ me.state = "created" => a <= PollEvery
    /\ me.state = "polling" /\ me.tagged < TagEvery => a <= me.tagged /\ me.failures = 0
    /\ me.state = "polling" /\ me.tagged = TagEvery =>
          a <= TagEvery + Late(me.failures) + me.polled

\* What the job deletes belongs to servers that are gone for good, or it is the
\* subscription of a queue whose look-up failed.
OnlyGone(s) ==
    /\ server[s].state = "new" => s \notin queue /\ s \notin subs
    /\ s \in job.expired => server[s].state = "gone"
    /\ s \in job.dangling => server[s].state = "gone" \/ s \in unseen
    /\ s \in job.dangling /\ job.pc = "cleanup queue" => server[s].state = "gone"

KeptInv ==
    /\ Cleanup!TypeOK
    /\ Cleanup!UsedQueueIsKept
    /\ \A s \in Servers : AgeFits(server[s], age[s]) /\ OnlyGone(s)

ServerType == [state : {"new", "created", "polling", "gone"},
               tagged : 0 .. TagEvery, polled : 0 .. PollEvery,
               failures : 0 .. MaxTagFailures]

\* Timeout leaves time for MaxTagFailures failed attempts and one poll.
LEMMA TimesFit ==
    ASSUME Cleanup!CleanupAssumption
    PROVE  /\ Timeout \in Nat /\ TagEvery \in Nat /\ PollEvery \in Nat
           /\ MaxTagFailures \in Nat /\ PollEvery \in 1 .. TagEvery
           /\ Late(0) = 0
           /\ \A f \in Nat : Late(f) \in Nat /\ Late(f + 1) = Late(f) + PollEvery
           /\ \A f \in 0 .. MaxTagFailures :
                 TagEvery + Late(f) + PollEvery < Timeout
  <1>1. /\ Timeout \in Nat /\ TagEvery \in Nat /\ PollEvery \in Nat
        /\ MaxTagFailures \in Nat /\ PollEvery \in 1 .. TagEvery
        /\ Timeout > TagEvery + (MaxTagFailures + 1) * PollEvery
    BY DEF Cleanup!CleanupAssumption
  <1>2. \A f \in Nat : Late(f) \in Nat /\ Late(f + 1) = Late(f) + PollEvery
    BY <1>1 DEF Late
  <1>3. \A f \in 0 .. MaxTagFailures : Late(f) <= Late(MaxTagFailures)
    BY <1>1 DEF Late
  <1>4. (MaxTagFailures + 1) * PollEvery = Late(MaxTagFailures) + PollEvery
    BY <1>1 DEF Late
  <1>5. Late(0) = 0
    BY <1>1 DEF Late
  <1> QED
    BY <1>1, <1>2, <1>3, <1>4, <1>5

\* The tag of a server that is set up or polls is younger than Timeout.
LEMMA InTime ==
    ASSUME Cleanup!CleanupAssumption, NEW me \in ServerType, NEW a \in Int, AgeFits(me, a),
           me.state \in {"created", "polling"}
    PROVE  a <= Timeout
  <1>1. /\ me.tagged \in 0 .. TagEvery /\ me.polled \in 0 .. PollEvery
        /\ me.failures \in 0 .. MaxTagFailures
    BY DEF ServerType
  <1>2. /\ Timeout \in Nat /\ TagEvery \in Nat /\ PollEvery \in 1 .. TagEvery
        /\ me.failures \in Nat /\ Late(me.failures) \in Nat
        /\ TagEvery + Late(me.failures) + PollEvery < Timeout
    BY <1>1, TimesFit
  <1>3. CASE me.state = "created"
    BY <1>2, <1>3 DEF AgeFits
  <1>4. CASE me.state = "polling" /\ me.tagged < TagEvery
    BY <1>1, <1>2, <1>4 DEF AgeFits
  <1>5. CASE me.state = "polling" /\ me.tagged = TagEvery
    BY <1>1, <1>2, <1>5 DEF AgeFits
  <1> QED
    BY <1>1, <1>2, <1>3, <1>4, <1>5

GoneServers == {s \in Servers : server[s].state = "gone"}
JobType == [pc : {"idle", "expired", "orphans", "dangling", "unsubscribe", "targets",
                  "cleanup", "cleanup queue"},
            subs : SUBSET Servers, expired : SUBSET Servers, dangling : SUBSET Servers]

\* A step of the job that deletes and lists what belongs to servers that are gone
\* keeps the invariant.
LEMMA JobKeepsInv ==
    ASSUME KeptInv, UNCHANGED <<server, age>>,
           queue' \subseteq queue, queue \ queue' \subseteq GoneServers,
           subs' \subseteq subs, subs \ subs' \subseteq GoneServers \cup unseen,
           unseen \subseteq unseen', unseen' \subseteq Servers,
           job' \in JobType, job'.expired \subseteq GoneServers,
           job'.dangling \subseteq GoneServers \cup unseen',
           job'.pc = "cleanup queue" => job'.dangling \subseteq GoneServers
    PROVE  KeptInv'
  <1>1. Cleanup!TypeOK'
    BY DEF KeptInv, Cleanup!TypeOK, JobType
  <1>2. Cleanup!UsedQueueIsKept'
    BY DEF KeptInv, Cleanup!UsedQueueIsKept, GoneServers
  <1>3. ASSUME NEW s \in Servers PROVE AgeFits(server[s], age[s])' /\ OnlyGone(s)'
    BY DEF KeptInv, OnlyGone, GoneServers
  <1> QED
    BY <1>1, <1>2, <1>3 DEF KeptInv

\* What the job finds expired or dangling belongs to servers that are gone.
LEMMA FoundAreGone ==
    ASSUME KeptInv, Cleanup!CleanupAssumption
    PROVE  /\ Cleanup!Expired \subseteq GoneServers
           /\ subs \ queue \subseteq GoneServers
           /\ job \in JobType /\ unseen \subseteq Servers
           /\ job.expired \subseteq GoneServers
           /\ job.dangling \subseteq GoneServers \cup unseen
           /\ job.pc = "cleanup queue" => job.dangling \subseteq GoneServers
  <1>1. job \in JobType /\ unseen \subseteq Servers
    BY DEF KeptInv, Cleanup!TypeOK, JobType
  <1>2. \A s \in Servers : server[s] \in ServerType /\ age[s] \in 0 .. Timeout + 1
    BY DEF KeptInv, Cleanup!TypeOK, ServerType
  <1>3. \A s \in Servers : server[s].state \notin {"new", "created", "polling"} =>
                              s \in GoneServers
    BY <1>2 DEF ServerType, GoneServers
  <1>4. ASSUME NEW s \in Cleanup!Expired PROVE s \in GoneServers
    <2>1. s \in Servers /\ s \in queue /\ age[s] > Timeout
      BY <1>4 DEF Cleanup!Expired, KeptInv, Cleanup!TypeOK
    <2>2. age[s] \in Int /\ AgeFits(server[s], age[s]) /\ ~(age[s] <= Timeout)
      BY <1>2, <2>1, TimesFit DEF KeptInv
    <2>3. server[s].state \notin {"created", "polling"}
      BY <1>2, <2>1, <2>2, InTime
    <2>4. server[s].state # "new"
      BY <2>1 DEF KeptInv, OnlyGone
    <2> QED
      BY <1>3, <2>1, <2>3, <2>4
  <1>5. ASSUME NEW s \in subs \ queue PROVE s \in GoneServers
    <2>1. s \in Servers /\ s \in subs /\ s \notin queue
      BY <1>5 DEF KeptInv, Cleanup!TypeOK
    <2>2. server[s].state \notin {"new", "created", "polling"}
      BY <2>1 DEF KeptInv, OnlyGone, Cleanup!UsedQueueIsKept
    <2> QED
      BY <1>3, <2>1, <2>2
  <1>6. /\ job.expired \subseteq GoneServers
        /\ job.dangling \subseteq GoneServers \cup unseen
        /\ job.pc = "cleanup queue" => job.dangling \subseteq GoneServers
    BY <1>1 DEF KeptInv, OnlyGone, GoneServers, JobType
  <1> QED
    BY <1>1, <1>4, <1>5, <1>6

\* No step of the job, and no interruption, breaks the invariant.
LEMMA JobInv ==
    ASSUME KeptInv, Cleanup!CleanupAssumption, Cleanup!Job \/ Cleanup!Interrupted
    PROVE  KeptInv'
  <1> USE FoundAreGone
  <1>0. queue \subseteq Servers /\ subs \subseteq Servers
    BY DEF KeptInv, Cleanup!TypeOK
  <1>1. CASE Cleanup!GetAllSubscriptions
    BY <1>0, <1>1, JobKeepsInv DEF Cleanup!GetAllSubscriptions, Cleanup!NotRunning, JobType
  <1>2. CASE Cleanup!FindExpiredQueues
    <2>1. job' = [job EXCEPT !.pc = "orphans", !.expired = Cleanup!Expired]
          /\ UNCHANGED <<server, queue, subs, age, unseen>>
      BY <1>2 DEF Cleanup!FindExpiredQueues
    <2>2. /\ job' \in JobType /\ job'.pc = "orphans"
          /\ job'.expired = Cleanup!Expired /\ job'.dangling = job.dangling
      BY <2>1 DEF JobType, GoneServers
    <2> QED
      BY <2>1, <2>2, JobKeepsInv
  <1>3. CASE Cleanup!DeleteOrphan
    <2>1. CASE Cleanup!Orphans # {}
      <3>1. PICK q \in Cleanup!Orphans : /\ queue' = queue \ {q}
                                         /\ job' = [job EXCEPT !.expired = @ \ {q}]
                                         /\ UNCHANGED <<server, subs, age, unseen>>
        BY <1>3, <2>1 DEF Cleanup!DeleteOrphan
      <3>2. q \in GoneServers
        BY DEF Cleanup!Orphans
      <3> QED
        BY <3>1, <3>2, JobKeepsInv DEF JobType
    <2>2. CASE Cleanup!Orphans = {}
      <3>1. /\ job' = [Cleanup!NotRunning EXCEPT !.pc = "dangling"]
            /\ UNCHANGED <<server, queue, subs, age, unseen>>
        BY <1>3, <2>2 DEF Cleanup!DeleteOrphan
      <3>2. job' \in JobType /\ job'.pc = "dangling" /\ job'.expired = {} /\ job'.dangling = {}
        BY <3>1 DEF Cleanup!NotRunning, JobType
      <3> QED
        BY <3>1, <3>2, JobKeepsInv
    <2> QED
      BY <2>1, <2>2
  <1>4. CASE Cleanup!GetDanglingSubscriptions
    <2>1. PICK failed \in SUBSET (subs \cap queue) :
             /\ job' = [job EXCEPT !.pc = "unsubscribe", !.dangling = Cleanup!Dangling(failed)]
             /\ unseen' = unseen \cup failed
             /\ UNCHANGED <<server, queue, subs, age>>
      BY ZenonT(30), <1>4 DEF Cleanup!GetDanglingSubscriptions
    <2>2. /\ Cleanup!Dangling(failed) \subseteq GoneServers \cup unseen'
          /\ Cleanup!Dangling(failed) \subseteq Servers
          /\ unseen \subseteq unseen' /\ unseen' \subseteq Servers
      BY <1>0, <2>1 DEF Cleanup!Dangling
    <2>3. /\ job' \in JobType /\ job'.expired = job.expired /\ job'.pc = "unsubscribe"
          /\ job'.dangling = Cleanup!Dangling(failed)
      BY <2>1, <2>2 DEF JobType
    <2> QED
      BY <2>1, <2>2, <2>3, JobKeepsInv
  <1>5. CASE Cleanup!DeleteSubscription
    <2>1. CASE job.dangling # {}
      <3>1. PICK q \in job.dangling : /\ subs' = subs \ {q}
                                       /\ job' = [job EXCEPT !.dangling = @ \ {q}]
                                       /\ UNCHANGED <<server, queue, age, unseen>>
        BY <1>5, <2>1 DEF Cleanup!DeleteSubscription
      <3> QED
        BY <3>1, JobKeepsInv DEF JobType
    <2>2. CASE job.dangling = {}
      <3>1. job' = [job EXCEPT !.pc = "targets", !.expired = Cleanup!Expired]
            /\ UNCHANGED <<server, queue, subs, age, unseen>>
        BY <1>5, <2>2 DEF Cleanup!DeleteSubscription
      <3>2. job' \in JobType /\ job'.expired = Cleanup!Expired /\ job'.dangling = {}
        BY <2>2, <3>1 DEF JobType, GoneServers
      <3> QED
        BY <3>1, <3>2, JobKeepsInv
    <2> QED
      BY <2>1, <2>2
  <1>6. CASE Cleanup!GetTargetSubscriptions
    BY <1>0, <1>6, JobKeepsInv DEF Cleanup!GetTargetSubscriptions, JobType
  <1>7. CASE Cleanup!CleanupSubscription
    <2>1. CASE job.expired \cap job.subs # {}
      <3>1. PICK q \in job.expired \cap job.subs :
                   /\ subs' = subs \ {q}
                   /\ job' = [job EXCEPT !.pc = "cleanup queue", !.dangling = {q}]
                   /\ UNCHANGED <<server, queue, age, unseen>>
        BY ZenonT(30), <1>7, <2>1 DEF Cleanup!CleanupSubscription
      <3> QED
        BY <3>1, JobKeepsInv DEF JobType
    <2>2. CASE job.expired \cap job.subs = {}
      <3>1. job' = Cleanup!NotRunning /\ UNCHANGED <<server, queue, subs, age, unseen>>
        BY ZenonT(30), <1>7, <2>2 DEF Cleanup!CleanupSubscription
      <3> QED
        BY <3>1, JobKeepsInv DEF Cleanup!NotRunning, JobType
    <2> QED
      BY <2>1, <2>2
  <1>8. CASE Cleanup!CleanupQueue
    BY <1>8, JobKeepsInv DEF Cleanup!CleanupQueue, JobType
  <1>9. CASE Cleanup!Interrupted
    BY <1>9, JobKeepsInv DEF Cleanup!Interrupted, Cleanup!NotRunning, JobType
  <1> QED
    BY <1>1, <1>2, <1>3, <1>4, <1>5, <1>6, <1>7, <1>8, <1>9 DEF Cleanup!Job

\* A step after which the server s is me, and its tag has the age a.
ServerStep(s, me, a) ==
    /\ me \in ServerType /\ a \in 0 .. Timeout + 1
    /\ server' = [server EXCEPT ![s] = me] /\ age' = [age EXCEPT ![s] = a]
    /\ queue' \subseteq Servers /\ queue' \ {s} = queue \ {s}
    /\ subs' \subseteq Servers /\ subs' \ {s} = subs \ {s}
    /\ unseen' = IF me.state = "gone" THEN unseen \ {s} ELSE unseen
    /\ me.state # "new" /\ (server[s].state # "gone" \/ me.state = "gone")
    /\ me.state \in {"created", "polling"} => s \in queue'
    /\ me.state = "polling" => s \in subs' \/ s \in unseen'
    /\ UNCHANGED job

\* Such a step keeps the invariant when me and a fit it.
LEMMA ServerKeepsInv ==
    ASSUME KeptInv, NEW s \in Servers, NEW me, NEW a, ServerStep(s, me, a), AgeFits(me, a)
    PROVE  KeptInv'
  <1> USE DEF ServerStep
  <1>1. server \in [Servers -> ServerType] /\ age \in [Servers -> 0 .. Timeout + 1]
    BY DEF KeptInv, Cleanup!TypeOK, ServerType
  <1>2. /\ server' \in [Servers -> ServerType] /\ age' \in [Servers -> 0 .. Timeout + 1]
        /\ server'[s] = me /\ age'[s] = a
        /\ \A r \in Servers \ {s} : server'[r] = server[r] /\ age'[r] = age[r]
    BY <1>1
  <1>3. Cleanup!TypeOK'
    BY <1>2 DEF KeptInv, Cleanup!TypeOK, ServerType
  <1>4. Cleanup!UsedQueueIsKept'
    BY <1>2 DEF KeptInv, Cleanup!UsedQueueIsKept
  <1>5. AgeFits(server[s], age[s])'
    BY <1>2
  <1>6. OnlyGone(s)'
    BY <1>2 DEF KeptInv, OnlyGone
  <1>7. ASSUME NEW r \in Servers \ {s} PROVE AgeFits(server[r], age[r])' /\ OnlyGone(r)'
    BY <1>2 DEF KeptInv, OnlyGone
  <1> QED
    BY <1>3, <1>4, <1>5, <1>6, <1>7 DEF KeptInv

State(r, x) == [r EXCEPT !.state = x]
Polled(r) == [r EXCEPT !.polled = 0]
Tagged(r) == [r EXCEPT !.tagged = 0]
Failures(r, n) == [r EXCEPT !.failures = n]

\* What changes of one field leave of the record of a server.
LEMMA ServerFields ==
    ASSUME NEW r \in ServerType, TagEvery \in Nat, PollEvery \in Nat, MaxTagFailures \in Nat
    PROVE  /\ \A x \in {"created", "polling", "gone"} :
                 /\ State(r, x) \in ServerType /\ State(r, x).state = x
                 /\ State(r, x).tagged = r.tagged /\ State(r, x).failures = r.failures
           /\ Polled(r) \in ServerType /\ Polled(r).state = r.state /\ Polled(r).polled = 0
           /\ Polled(r).tagged = r.tagged /\ Polled(r).failures = r.failures
           /\ Tagged(r) \in ServerType /\ Tagged(r).state = r.state /\ Tagged(r).tagged = 0
           /\ Tagged(r).polled = r.polled /\ Tagged(r).failures = r.failures
           /\ \A n \in 0 .. MaxTagFailures :
                 /\ Failures(r, n) \in ServerType /\ Failures(r, n).failures = n
                 /\ Failures(r, n).state = r.state /\ Failures(r, n).tagged = r.tagged
                 /\ Failures(r, n).polled = r.polled
  BY DEF ServerType, State, Polled, Tagged, Failures

\* The steps of a server other than a poll.
LEMMA ServerInv ==
    ASSUME KeptInv, Cleanup!CleanupAssumption, NEW s \in Servers,
           \/ Cleanup!CreateQueue(s) \/ Cleanup!Subscribe(s)
           \/ Cleanup!Crash(s) \/ Cleanup!DeletedByHand(s)
    PROVE  KeptInv'
  <1>1. /\ server \in [Servers -> ServerType] /\ age \in [Servers -> 0 .. Timeout + 1]
        /\ queue \subseteq Servers /\ subs \subseteq Servers
        /\ server[s] \in ServerType /\ age[s] \in 0 .. Timeout + 1
        /\ AgeFits(server[s], age[s])
    BY DEF KeptInv, Cleanup!TypeOK, ServerType
  <1>2. /\ PollEvery \in 1 .. TagEvery /\ TagEvery \in Nat /\ PollEvery \in Nat
        /\ Timeout \in Nat /\ MaxTagFailures \in Nat /\ Late(0) = 0
    BY TimesFit
  <1>3. CASE Cleanup!CreateQueue(s)
    <2> DEFINE me == State(server[s], "created")
    <2>1. /\ server[s].state = "new" /\ server' = [server EXCEPT ![s] = me]
          /\ queue' = queue \cup {s} /\ age' = [age EXCEPT ![s] = 0]
          /\ UNCHANGED <<subs, job, unseen>>
      BY <1>1, <1>3 DEF Cleanup!CreateQueue, State
    <2>2. me \in ServerType /\ me.state = "created" /\ AgeFits(me, 0)
      BY <1>1, <1>2, <2>1, ServerFields DEF AgeFits
    <2> HIDE DEF me
    <2>3. 0 \in 0 .. Timeout + 1 /\ me.state # "new" /\ me.state # "polling"
      BY <1>2, <2>2
    <2>4. /\ queue' \subseteq Servers /\ queue' \ {s} = queue \ {s} /\ s \in queue'
          /\ subs' \subseteq Servers /\ subs' \ {s} = subs \ {s}
          /\ job' = job /\ unseen' = unseen /\ server[s].state # "gone"
      BY <1>1, <2>1
    <2>5. ServerStep(s, me, 0)
      BY <2>1, <2>2, <2>3, <2>4 DEF ServerStep
    <2> QED
      BY <2>2, <2>5, ServerKeepsInv
  <1>4. CASE Cleanup!Subscribe(s)
    <2> DEFINE me == Polled(State(server[s], "polling"))
    <2>1. /\ server[s].state = "created" /\ server' = [server EXCEPT ![s] = me]
          /\ subs' = subs \cup {s} /\ UNCHANGED <<queue, age, job, unseen>>
      BY ZenonT(30), <1>1, <1>4 DEF Cleanup!Subscribe, State, Polled
    <2>2. /\ me \in ServerType /\ me.state = "polling" /\ me.polled = 0
          /\ me.tagged = server[s].tagged /\ me.failures = server[s].failures
      BY <1>1, <1>2, ServerFields
    <2>3. age' = [age EXCEPT ![s] = age[s]] /\ s \in queue
      BY <1>1, <2>1 DEF KeptInv, Cleanup!UsedQueueIsKept
    <2> HIDE DEF me
    <2>4. AgeFits(me, age[s])
      BY <1>1, <1>2, <2>1, <2>2 DEF AgeFits
    <2>5. /\ queue' \subseteq Servers /\ queue' \ {s} = queue \ {s} /\ s \in queue'
          /\ subs' \subseteq Servers /\ subs' \ {s} = subs \ {s} /\ s \in subs'
      BY <1>1, <2>1, <2>3
    <2>6. /\ job' = job /\ unseen' = unseen /\ server[s].state # "gone" /\ me.state # "new"
          /\ age[s] \in 0 .. Timeout + 1
      BY <1>1, <2>1, <2>2
    <2>7. ServerStep(s, me, age[s])
      BY <2>1, <2>2, <2>3, <2>5, <2>6 DEF ServerStep
    <2> QED
      BY <2>4, <2>7, ServerKeepsInv
  <1>5. ASSUME Cleanup!Crash(s) \/ Cleanup!DeletedByHand(s) PROVE KeptInv'
    <2> DEFINE me == Cleanup!Idle("gone")
    <2>1. /\ server' = [server EXCEPT ![s] = me] /\ age' = [age EXCEPT ![s] = age[s]]
          /\ queue' \in {queue, queue \ {s}} /\ UNCHANGED <<subs, job>>
          /\ unseen' = unseen \ {s}
      BY <1>1, <1>5 DEF Cleanup!Crash, Cleanup!DeletedByHand
    <2>2. me \in ServerType /\ me.state = "gone" /\ AgeFits(me, age[s])
      BY <1>1, <1>2 DEF AgeFits, ServerType, Cleanup!Idle
    <2> HIDE DEF me
    <2>3. ServerStep(s, me, age[s])
      BY <1>1, <2>1, <2>2 DEF ServerStep
    <2> QED
      BY <2>2, <2>3, ServerKeepsInv
  <1> QED
    BY <1>3, <1>4, <1>5

\* A poll writes the tag, or may fail to do so once more.
LEMMA PollInv ==
    ASSUME KeptInv, Cleanup!CleanupAssumption,
           NEW s \in Servers, NEW tagOk \in BOOLEAN, Cleanup!Poll(s, tagOk)
    PROVE  KeptInv'
  <1>1. /\ server \in [Servers -> ServerType] /\ age \in [Servers -> 0 .. Timeout + 1]
        /\ queue \subseteq Servers /\ subs \subseteq Servers
        /\ server[s] \in ServerType /\ age[s] \in 0 .. Timeout + 1
        /\ AgeFits(server[s], age[s])
    BY DEF KeptInv, Cleanup!TypeOK, ServerType
  <1>2. /\ server[s].state = "polling" /\ s \in queue /\ (s \in subs \/ s \in unseen)
        /\ UNCHANGED <<queue, subs, job, unseen>>
    BY DEF Cleanup!Poll, KeptInv, Cleanup!UsedQueueIsKept
  <1>3. /\ PollEvery \in 1 .. TagEvery /\ TagEvery \in Nat /\ PollEvery \in Nat
        /\ Timeout \in Nat /\ MaxTagFailures \in Nat /\ Late(0) = 0
    BY TimesFit
  <1>4. /\ job' = job /\ unseen' = unseen /\ s \in queue'
        /\ queue' \subseteq Servers /\ queue' \ {s} = queue \ {s}
        /\ subs' \subseteq Servers /\ subs' \ {s} = subs \ {s}
        /\ (s \in subs' \/ s \in unseen')
    BY <1>1, <1>2
  <1>5. CASE ~Cleanup!TagIsDue(s)
    <2> DEFINE me == Polled(server[s])
    <2>1. /\ server' = [server EXCEPT ![s] = me] /\ age' = [age EXCEPT ![s] = age[s]]
      BY <1>1, <1>5 DEF Cleanup!Poll, Polled
    <2>2. server[s].tagged < TagEvery
      BY <1>1, <1>3, <1>5 DEF Cleanup!TagIsDue, ServerType
    <2>3. me \in ServerType /\ me.state = "polling" /\ AgeFits(me, age[s])
      BY <1>1, <1>2, <1>3, <2>2, ServerFields DEF AgeFits
    <2> HIDE DEF me
    <2>4. ServerStep(s, me, age[s])
      BY <1>1, <1>2, <1>4, <2>1, <2>3 DEF ServerStep
    <2> QED
      BY <2>3, <2>4, ServerKeepsInv
  <1>6. CASE Cleanup!TagIsDue(s) /\ tagOk
    <2> DEFINE me == Failures(Tagged(Polled(server[s])), 0)
    <2>1. server' = [server EXCEPT ![s] = me] /\ age' = [age EXCEPT ![s] = 0]
      BY ZenonT(30), <1>1, <1>6 DEF Cleanup!Poll, Cleanup!TaggedNow, Polled, Tagged, Failures
    <2>2. /\ me \in ServerType /\ me.state = "polling" /\ me.tagged = 0
          /\ me.failures = 0 /\ me.polled = 0
      <3> DEFINE polled == Polled(server[s])
                 tagged == Tagged(polled)
      <3>1. polled \in ServerType /\ polled.state = "polling" /\ polled.polled = 0
        BY <1>1, <1>2, <1>3, ServerFields
      <3> HIDE DEF polled
      <3>2. /\ tagged \in ServerType /\ tagged.state = "polling" /\ tagged.polled = 0
            /\ tagged.tagged = 0
        BY <1>3, <3>1, ServerFields
      <3>3. me = Failures(tagged, 0) /\ 0 \in 0 .. MaxTagFailures
        BY <1>3 DEF polled
      <3> HIDE DEF me, tagged
      <3> QED
        BY <1>3, <3>2, <3>3, ServerFields
    <2>3. AgeFits(me, 0)
      BY <1>3, <2>2 DEF AgeFits
    <2>4. 0 \in 0 .. Timeout + 1
      BY <1>3
    <2> HIDE DEF me
    <2>5. ServerStep(s, me, 0)
      BY <1>2, <1>4, <2>1, <2>2, <2>4 DEF ServerStep
    <2> QED
      BY <2>3, <2>5, ServerKeepsInv
  <1>7. CASE Cleanup!TagIsDue(s) /\ ~tagOk
    <2> DEFINE me == Failures(Polled(server[s]), server[s].failures + 1)
    <2>1. /\ server[s].failures < MaxTagFailures
          /\ server' = [server EXCEPT ![s] = me] /\ age' = [age EXCEPT ![s] = age[s]]
      BY ZenonT(30), <1>1, <1>7 DEF Cleanup!Poll, Polled, Failures
    <2>2. server[s].tagged = TagEvery /\ server[s].failures \in Nat
      BY <1>1, <1>3, <1>7 DEF Cleanup!TagIsDue, ServerType
    <2>3. /\ me \in ServerType /\ me.state = "polling" /\ me.tagged = TagEvery
          /\ me.polled = 0 /\ me.failures = server[s].failures + 1
      <3> DEFINE polled == Polled(server[s])
      <3>1. /\ polled \in ServerType /\ polled.state = "polling" /\ polled.polled = 0
            /\ polled.tagged = TagEvery
        BY <1>1, <1>2, <1>3, <2>2, ServerFields
      <3>2. /\ me = Failures(polled, server[s].failures + 1)
            /\ server[s].failures + 1 \in 0 .. MaxTagFailures
        BY <1>3, <2>1, <2>2
      <3> HIDE DEF me, polled
      <3> QED
        BY ZenonT(30), <1>3, <3>1, <3>2, ServerFields
    <2>4. /\ Late(server[s].failures) \in Nat
          /\ Late(server[s].failures + 1) = Late(server[s].failures) + PollEvery
      BY <2>2, TimesFit
    <2> HIDE DEF me
    <2>5. /\ server[s].polled \in 0 .. PollEvery /\ age[s] \in Nat
          /\ age[s] <= TagEvery + Late(server[s].failures) + server[s].polled
      BY <1>1, <1>2, <2>2 DEF ServerType, AgeFits
    <2>6. AgeFits(me, age[s])
      BY <1>3, <2>3, <2>4, <2>5 DEF AgeFits
    <2>7. ServerStep(s, me, age[s])
      BY <1>1, <1>2, <1>4, <2>1, <2>3 DEF ServerStep
    <2> QED
      BY <2>6, <2>7, ServerKeepsInv
  <1> QED
    BY <1>5, <1>6, <1>7

Ticked(r) == [r EXCEPT !.tagged = IF @ < TagEvery THEN @ + 1 ELSE @, !.polled = @ + 1]

\* The record of a server that polls in time, one unit of time later.
LEMMA TickedFields ==
    ASSUME NEW r \in ServerType, TagEvery \in Nat, PollEvery \in Nat, MaxTagFailures \in Nat,
           r.polled < PollEvery
    PROVE  /\ Ticked(r) \in ServerType /\ Ticked(r).state = r.state
           /\ Ticked(r).failures = r.failures /\ Ticked(r).polled = r.polled + 1
           /\ Ticked(r).tagged = IF r.tagged < TagEvery THEN r.tagged + 1 ELSE r.tagged
  <1> DEFINE n == IF r.tagged < TagEvery THEN r.tagged + 1 ELSE r.tagged
             half == [r EXCEPT !.tagged = n]
  <1>1. n \in 0 .. TagEvery /\ r.polled + 1 \in 0 .. PollEvery
    BY DEF ServerType
  <1>2. Ticked(r) = [half EXCEPT !.polled = r.polled + 1]
    BY DEF Ticked, ServerType
  <1> HIDE DEF n
  <1>3. /\ half \in ServerType /\ half.state = r.state /\ half.failures = r.failures
        /\ half.polled = r.polled /\ half.tagged = n
    BY <1>1 DEF ServerType
  <1> HIDE DEF half
  <1>4. /\ Ticked(r) \in ServerType /\ Ticked(r).state = half.state
        /\ Ticked(r).failures = half.failures /\ Ticked(r).polled = r.polled + 1
        /\ Ticked(r).tagged = half.tagged
    BY <1>1, <1>2, <1>3 DEF ServerType
  <1> QED
    BY <1>3, <1>4 DEF n

\* A server that polls in time keeps its tag young enough as time passes.
LEMMA TickedFits ==
    ASSUME Cleanup!CleanupAssumption, NEW r \in ServerType, r.state = "polling",
           r.polled < PollEvery, NEW a \in Int, NEW b \in Int, AgeFits(r, a), b <= a + 1
    PROVE  AgeFits(Ticked(r), b)
  <1> DEFINE q == Ticked(r)
             late == Late(r.failures)
  <1>1. /\ r.tagged \in 0 .. TagEvery /\ r.polled \in Nat /\ r.failures \in Nat
        /\ TagEvery \in Nat /\ PollEvery \in Nat /\ MaxTagFailures \in Nat
    BY TimesFit DEF ServerType
  <1>2. late \in Nat /\ Late(0) = 0
    BY <1>1, TimesFit
  <1>3. /\ q.state = "polling" /\ q.failures = r.failures /\ q.polled = r.polled + 1
        /\ q.tagged = IF r.tagged < TagEvery THEN r.tagged + 1 ELSE r.tagged
    BY <1>1, TickedFields
  <1> HIDE DEF q, late
  <1>4. CASE r.tagged < TagEvery
    <2>1. a <= r.tagged /\ r.failures = 0
      BY <1>4 DEF AgeFits
    <2>2. q.tagged = r.tagged + 1 /\ b <= q.tagged /\ Late(q.failures) = 0
      BY <1>1, <1>2, <1>3, <1>4, <2>1
    <2> QED
      BY <1>1, <1>3, <2>1, <2>2 DEF AgeFits, q
  <1>5. CASE r.tagged = TagEvery
    <2>1. a <= TagEvery + late + r.polled
      BY <1>5 DEF AgeFits, late
    <2>2. q.tagged = TagEvery /\ Late(q.failures) = late
      BY <1>1, <1>3, <1>5 DEF late
    <2>3. b <= TagEvery + late + q.polled
      BY <1>1, <1>2, <1>3, <2>1
    <2> QED
      BY <1>1, <1>3, <2>2, <2>3 DEF AgeFits, q
  <1> QED
    BY <1>1, <1>4, <1>5

\* Time passes: every tag gets older, and no server that polls in time falls behind.
LEMMA TickInv ==
    ASSUME KeptInv, Cleanup!CleanupAssumption, Cleanup!Tick
    PROVE  KeptInv'
  <1>1. /\ \A s \in Servers : /\ server[s].state = "polling" => server[s].polled < PollEvery
                              /\ server[s].state = "created" => age[s] < PollEvery
        /\ server' = [s \in Servers |-> IF server[s].state = "polling" THEN Ticked(server[s])
                                        ELSE server[s]]
        /\ age' = [s \in Servers |-> IF s \in queue /\ age[s] <= Timeout THEN age[s] + 1
                                     ELSE age[s]]
        /\ UNCHANGED <<queue, subs, job, unseen>>
    BY ZenonT(30) DEF Cleanup!Tick, Ticked
  <1>2. \A s \in Servers : /\ server[s] \in ServerType /\ age[s] \in 0 .. Timeout + 1
                           /\ AgeFits(server[s], age[s]) /\ OnlyGone(s)
    BY DEF KeptInv, Cleanup!TypeOK, ServerType
  <1>3. /\ TagEvery \in Nat /\ PollEvery \in Nat /\ Timeout \in Nat /\ MaxTagFailures \in Nat
        /\ \A f \in Nat : Late(f) \in Nat
    BY TimesFit
  <1>4. ASSUME NEW s \in Servers
        PROVE  /\ server'[s] \in ServerType /\ server'[s].state = server[s].state
               /\ age'[s] \in 0 .. Timeout + 1 /\ age'[s] <= age[s] + 1
               /\ AgeFits(server'[s], age'[s])
    <2>1. age'[s] \in 0 .. Timeout + 1 /\ age'[s] <= age[s] + 1
      BY <1>1, <1>2, <1>3
    <2>2. CASE server[s].state = "polling"
      <3>1. server'[s] = Ticked(server[s]) /\ server[s].polled < PollEvery
        BY <1>1, <2>2
      <3>2. server'[s] \in ServerType /\ server'[s].state = "polling"
        BY <1>2, <1>3, <2>2, <3>1, TickedFields
      <3>3. age[s] \in Int /\ age'[s] \in Int /\ AgeFits(server[s], age[s])
        BY <1>2, <1>3, <2>1
      <3>4. AgeFits(server'[s], age'[s])
        BY <1>2, <2>1, <2>2, <3>1, <3>3, TickedFits
      <3> QED
        BY <2>1, <2>2, <3>2, <3>4
    <2>3. CASE server[s].state # "polling"
      <3>1. server'[s] = server[s]
        BY <1>1, <2>3
      <3>2. AgeFits(server[s], age'[s])
        BY <1>1, <1>2, <1>3, <2>1, <2>3 DEF AgeFits
      <3> QED
        BY <1>2, <2>1, <3>1, <3>2
    <2> QED
      BY <2>2, <2>3, <2>1
  <1>5. server' \in [Servers -> ServerType] /\ age' \in [Servers -> 0 .. Timeout + 1]
    BY <1>1, <1>4
  <1>6. Cleanup!TypeOK'
    BY <1>1, <1>5 DEF KeptInv, Cleanup!TypeOK, ServerType
  <1>7. Cleanup!UsedQueueIsKept'
    BY <1>1, <1>4 DEF KeptInv, Cleanup!UsedQueueIsKept
  <1>8. \A s \in Servers : AgeFits(server[s], age[s])' /\ OnlyGone(s)'
    BY <1>1, <1>2, <1>4 DEF OnlyGone
  <1> QED
    BY <1>6, <1>7, <1>8 DEF KeptInv

\* KeptInv is an inductive invariant of the job and the servers it cleans up after.
THEOREM KeptInvariance ==
    ASSUME Cleanup!CleanupAssumption
    PROVE  Cleanup!Spec => []KeptInv
  <1>1. Cleanup!Init => KeptInv
    <2> SUFFICES ASSUME Cleanup!Init PROVE KeptInv
      OBVIOUS
    <2> USE TimesFit DEF Cleanup!Init, Cleanup!Idle
    <2>1. Cleanup!TypeOK
      BY DEF Cleanup!TypeOK, Cleanup!NotRunning
    <2>2. Cleanup!UsedQueueIsKept
      BY DEF Cleanup!UsedQueueIsKept
    <2>3. \A s \in Servers : AgeFits(server[s], age[s]) /\ OnlyGone(s)
      BY DEF AgeFits, OnlyGone, Cleanup!NotRunning
    <2> QED
      BY <2>1, <2>2, <2>3 DEF KeptInv
  <1>2. KeptInv /\ [Cleanup!Next]_Cleanup!vars => KeptInv'
    <2> SUFFICES ASSUME KeptInv, [Cleanup!Next]_Cleanup!vars PROVE KeptInv'
      OBVIOUS
    <2>1. CASE \E s \in Servers : \/ Cleanup!CreateQueue(s) \/ Cleanup!Subscribe(s)
                                  \/ Cleanup!Crash(s) \/ Cleanup!DeletedByHand(s)
      BY <2>1, ServerInv
    <2>2. CASE \E s \in Servers : \E tagOk \in BOOLEAN : Cleanup!Poll(s, tagOk)
      BY <2>2, PollInv
    <2>3. CASE Cleanup!Tick
      BY <2>3, TickInv
    <2>4. CASE Cleanup!Job \/ Cleanup!Interrupted
      BY <2>4, JobInv
    <2>5. CASE UNCHANGED Cleanup!vars
      BY <2>5 DEF Cleanup!vars, KeptInv, Cleanup!TypeOK, Cleanup!UsedQueueIsKept, OnlyGone
    <2> QED
      BY <2>1, <2>2, <2>3, <2>4, <2>5 DEF Cleanup!Next
  <1> QED
    BY <1>1, <1>2, PTL DEF Cleanup!Spec

\* The job never takes the queue of a server that sets it up or polls it in time, and
\* its subscription only after a look-up of its queue failed, for any number of servers
\* and any times, as long as Timeout leaves time for the failed attempts to tag the
\* queue: what sqs_cleanup_manager.py finds expired, in a list that may be stale when
\* it deletes, belongs to servers that never come back, and what it finds dangling to
\* these or to a queue that _does_queue_exist could not look up.
THEOREM UsedQueuesAreKept ==
    ASSUME Cleanup!CleanupAssumption
    PROVE  Cleanup!Spec => [](Cleanup!TypeOK /\ Cleanup!UsedQueueIsKept)
  <1>1. KeptInv => Cleanup!TypeOK /\ Cleanup!UsedQueueIsKept
    BY DEF KeptInv
  <1> QED
    BY <1>1, KeptInvariance, PTL

-----------------------------------------------------------------------------
(* RealtimeGcp *)

CONSTANTS Messages, Undecodable, NumThreads
VARIABLES main, watcher, session, woken, handler, applied, acked

Gcp == INSTANCE RealtimeGcp

\* What is about to be acknowledged was applied, unless it cannot be decoded.
GcpInv ==
    /\ Gcp!TypeOK
    /\ Gcp!AckedWereApplied
    /\ \A m \in Messages : handler[m] = "ack" => m \in applied \cup Undecodable

\* The instance has the operator of FiniteSets under a name of its own.
LEMMA SameCardinality == \A S : Gcp!Cardinality(S) = Cardinality(S)
  BY Zenon DEF Gcp!Cardinality, Cardinality

\* A step of one handler that does not begin one leaves no more of them running.
LEMMA NoMoreHandlers ==
    ASSUME IsFiniteSet(Messages), GcpInv, NumThreads \in Nat,
           NEW m \in Messages, handler[m] # "none", NEW where,
           handler' = [handler EXCEPT ![m] = where]
    PROVE  Gcp!Cardinality({n \in Messages : handler'[n] # "none"}) <= NumThreads
  <1> DEFINE before == {n \in Messages : handler[n] # "none"}
             after == {n \in Messages : handler'[n] # "none"}
  <1>1. after \subseteq before
    BY DEF GcpInv, Gcp!TypeOK
  <1>2. IsFiniteSet(before)
    BY FS_Subset
  <1>3. Gcp!Cardinality(before) <= NumThreads
    BY DEF GcpInv, Gcp!TypeOK
  <1> HIDE DEF before, after
  <1>4. /\ Cardinality(after) <= Cardinality(before)
        /\ Cardinality(after) \in Nat /\ Cardinality(before) \in Nat
    BY <1>1, <1>2, FS_Subset, FS_CardinalityType
  <1>5. Gcp!Cardinality(after) <= NumThreads
    BY <1>3, <1>4, SameCardinality
  <1> QED
    BY <1>5 DEF after

\* Another message is received only when one of the threads is free.
LEMMA ReceiveInv ==
    ASSUME IsFiniteSet(Messages), GcpInv, NumThreads \in Nat,
           NEW m \in Messages, Gcp!Receive(m)
    PROVE  GcpInv'
  <1> DEFINE before == {n \in Messages : handler[n] # "none"}
             after == {n \in Messages : handler'[n] # "none"}
  <1>1. /\ handler[m] = "none" /\ handler' = [handler EXCEPT ![m] = "decode"]
        /\ Gcp!Cardinality(Gcp!Running) < NumThreads
        /\ UNCHANGED <<main, watcher, session, woken, applied, acked>>
    BY DEF Gcp!Receive, Gcp!notifier
  <1>2. handler \in [Messages -> {"none", "decode", "callback", "ack"}]
    BY DEF GcpInv, Gcp!TypeOK
  <1>3. Gcp!Running = before
    BY <1>2 DEF Gcp!Running
  <1>4. after = before \cup {m} /\ m \notin before /\ IsFiniteSet(before)
    BY <1>1, <1>2, FS_Subset
  <1>5. Cardinality(before) < NumThreads
    BY <1>1, <1>3, SameCardinality
  <1> HIDE DEF before, after
  <1>6. Cardinality(after) = Cardinality(before) + 1 /\ Cardinality(before) \in Nat
    BY <1>4, FS_AddElement, FS_CardinalityType
  <1>7. Gcp!Cardinality(after) <= NumThreads
    BY <1>5, <1>6, SameCardinality
  <1>8. handler' \in [Messages -> {"none", "decode", "callback", "ack"}]
    BY <1>1, <1>2
  <1>9. Gcp!TypeOK'
    BY <1>1, <1>7, <1>8 DEF GcpInv, Gcp!TypeOK, after
  <1>10. \A n \in Messages : handler'[n] = "ack" => n \in applied' \cup Undecodable
    BY <1>1, <1>2 DEF GcpInv
  <1> QED
    BY <1>1, <1>9, <1>10 DEF GcpInv, Gcp!AckedWereApplied

\* The steps of OnMessageReceived: decode, apply, acknowledge.
LEMMA HandleInv ==
    ASSUME IsFiniteSet(Messages), GcpInv, NumThreads \in Nat,
           NEW m \in Messages, Gcp!Handle(m)
    PROVE  GcpInv'
  <1> DEFINE Kept == /\ main' = main /\ watcher' = watcher /\ session' = session
                     /\ woken' = woken
  <1>1. handler \in [Messages -> {"none", "decode", "callback", "ack"}]
    BY DEF GcpInv, Gcp!TypeOK
  <1>2. ASSUME NEW where \in {"none", "callback", "ack"}, handler[m] # "none", Kept,
               handler' = [handler EXCEPT ![m] = where],
               applied' \in {applied, applied \cup {m}}, acked' \in {acked, acked \cup {m}}
        PROVE  Gcp!TypeOK'
    <2>1. Gcp!Cardinality({n \in Messages : handler'[n] # "none"}) <= NumThreads
      BY ZenonT(30), <1>2, NoMoreHandlers
    <2>2. handler' \in [Messages -> {"none", "decode", "callback", "ack"}]
      BY <1>1, <1>2
    <2> QED
      BY <1>2, <2>1, <2>2 DEF GcpInv, Gcp!TypeOK
  <1>3. CASE Gcp!Decode(m)
    <2>1. /\ handler[m] = "decode" /\ Kept /\ UNCHANGED <<applied, acked>>
          /\ handler' = [handler EXCEPT ![m] = Gcp!AfterDecode(m)]
      BY <1>3 DEF Gcp!Decode, Gcp!notifier
    <2>2. /\ Gcp!AfterDecode(m) \in {"none", "callback", "ack"}
          /\ Gcp!AfterDecode(m) = "ack" => m \in Undecodable
      BY DEF Gcp!AfterDecode
    <2>3. \A n \in Messages : handler'[n] = "ack" => n \in applied' \cup Undecodable
      BY <1>1, <2>1, <2>2 DEF GcpInv
    <2> QED
      BY ZenonT(30), <1>2, <2>1, <2>2, <2>3 DEF GcpInv, Gcp!AckedWereApplied
  <1>4. CASE Gcp!Callback(m)
    <2>1. /\ handler[m] = "callback" /\ Kept /\ UNCHANGED acked
          /\ applied' = applied \cup {m} /\ handler' = [handler EXCEPT ![m] = "ack"]
      BY <1>4 DEF Gcp!Callback, Gcp!notifier
    <2>2. \A n \in Messages : handler'[n] = "ack" => n \in applied' \cup Undecodable
      BY <1>1, <2>1 DEF GcpInv
    <2> QED
      BY <1>2, <2>1, <2>2 DEF GcpInv, Gcp!AckedWereApplied
  <1>5. CASE Gcp!Ack(m)
    <2>1. /\ handler[m] = "ack" /\ Kept /\ UNCHANGED applied
          /\ acked' = acked \cup {m} /\ handler' = [handler EXCEPT ![m] = "none"]
      BY <1>5 DEF Gcp!Ack, Gcp!Acknowledged, Gcp!notifier
    <2>2. m \in applied \cup Undecodable
      BY <2>1 DEF GcpInv
    <2>3. \A n \in Messages : handler'[n] = "ack" => n \in applied' \cup Undecodable
      BY <1>1, <2>1 DEF GcpInv
    <2> QED
      BY <1>2, <2>1, <2>2, <2>3 DEF GcpInv, Gcp!AckedWereApplied
  <1> QED
    BY <1>3, <1>4, <1>5 DEF Gcp!Handle

\* Nothing the notifier or its owner does touches a message.
LEMMA NotifierInv ==
    ASSUME GcpInv, Gcp!MainStep \/ Gcp!Stop \/ Gcp!WatcherStep \/ Gcp!SessionEnds
    PROVE  GcpInv'
  <1>1. UNCHANGED <<handler, applied, acked>>
    BY DEF Gcp!MainStep, Gcp!SetupQueue, Gcp!Start, Gcp!Join, Gcp!Destroy, Gcp!Stop,
           Gcp!WatcherStep, Gcp!Subscribe, Gcp!WatchEnds, Gcp!SessionEnds, Gcp!messages
  <1>2. /\ main' \in {"create", "created", "started", "join", "stopped", "destroyed"}
        /\ watcher' \in {"none", "subscribe", "sleep", "ended"}
        /\ session' \in {"none", "active", "cancelled", "ended"}
    BY DEF GcpInv, Gcp!TypeOK, Gcp!MainStep, Gcp!SetupQueue, Gcp!Start, Gcp!Join, Gcp!Destroy,
           Gcp!CancelSession, Gcp!Stop, Gcp!WatcherStep, Gcp!Subscribe, Gcp!WatchEnds,
           Gcp!SessionEnds
  <1>3. woken' \in BOOLEAN
    BY DEF GcpInv, Gcp!TypeOK, Gcp!MainStep, Gcp!SetupQueue, Gcp!Start, Gcp!Join, Gcp!Destroy,
           Gcp!Stop, Gcp!WatcherStep, Gcp!Subscribe, Gcp!WatchEnds, Gcp!SessionEnds
  <1>4. Gcp!TypeOK'
    BY <1>1, <1>2, <1>3 DEF GcpInv, Gcp!TypeOK
  <1> QED
    BY <1>1, <1>4 DEF GcpInv, Gcp!AckedWereApplied

\* A Pub/Sub message is acknowledged only after the callback had it, whatever the
\* number of messages and threads and whenever the notifier is stopped, and no more
\* handlers run than the subscriber has threads (OnMessageReceived acks last).
THEOREM AcknowledgedWereApplied ==
    ASSUME IsFiniteSet(Messages), NumThreads \in Nat
    PROVE  Gcp!Spec => [](Gcp!TypeOK /\ Gcp!AckedWereApplied)
  <1>1. Gcp!Init => GcpInv
    <2> SUFFICES ASSUME Gcp!Init PROVE GcpInv
      OBVIOUS
    <2>1. {m \in Messages : handler[m] # "none"} = {}
      BY DEF Gcp!Init
    <2>2. Gcp!Cardinality({m \in Messages : handler[m] # "none"}) <= NumThreads
      BY <2>1, FS_EmptySet, SameCardinality
    <2>3. woken \in BOOLEAN
      BY DEF Gcp!Init
    <2>4. Gcp!TypeOK
      BY <2>2, <2>3 DEF Gcp!Init, Gcp!TypeOK
    <2> QED
      BY <2>4 DEF Gcp!Init, GcpInv, Gcp!AckedWereApplied
  <1>2. GcpInv /\ [Gcp!Next]_Gcp!vars => GcpInv'
    <2> SUFFICES ASSUME GcpInv, [Gcp!Next]_Gcp!vars PROVE GcpInv'
      OBVIOUS
    <2>1. CASE Gcp!MainStep \/ Gcp!Stop \/ Gcp!WatcherStep \/ Gcp!SessionEnds
      BY <2>1, NotifierInv
    <2>2. CASE \E m \in Messages : Gcp!Receive(m)
      BY <2>2, ReceiveInv
    <2>3. CASE \E m \in Messages : Gcp!Handle(m)
      BY <2>3, HandleInv
    <2>4. CASE UNCHANGED Gcp!vars
      BY <2>4 DEF Gcp!vars, GcpInv, Gcp!TypeOK, Gcp!AckedWereApplied
    <2> QED
      BY <2>1, <2>2, <2>3, <2>4 DEF Gcp!Next
  <1>3. GcpInv => Gcp!TypeOK /\ Gcp!AckedWereApplied
    BY DEF GcpInv
  <1> QED
    BY <1>1, <1>2, <1>3, PTL DEF Gcp!Spec
=============================================================================
