--------------------------- MODULE ChangeNotifiers ---------------------------
(***************************************************************************)
(* GetNotifications of the blob storage notifiers, called again and again  *)
(* by the delta file notifier: polling of a local directory against the    *)
(* names known so far; the messages of an S3 bucket, parsed one by one; on *)
(* GCP a sleep, after which the caller lists the bucket itself.  The queue *)
(* behind the S3 notifier is in RealtimeAws.                               *)
(***************************************************************************)
EXTENDS Integers, FiniteSets

CONSTANTS Files,      \* names of files
          Malformed,  \* files whose S3 message cannot be parsed
          Platforms,  \* of "local", "s3", "gcp"
          MaxWait,    \* max_wait of a call
          Poll,       \* kPollInterval
          MaxPuts     \* bound on files put

NotifierAssumption ==
    /\ Malformed \subseteq Files /\ Platforms \subseteq {"local", "s3", "gcp"}
    /\ {MaxWait, Poll} \subseteq Nat \ {0} /\ MaxPuts \in Nat

VARIABLES platform,
          dir,       \* files in the directory or bucket
          messages,  \* S3: messages about files, not yet received
          known,     \* files_in_directory_
          initial,   \* files there when the notifier was created
          found,     \* how often a file was notified
          pc,        \* where the call is, "out" if there is none
          left,      \* what is left of max_wait
          result,    \* of the last call
          stopped,   \* should_stop_callback
          late,      \* how long the call has slept or polled since the stop
          puts

vars == <<platform, dir, messages, known, initial, found, pc, left, result, stopped, late, puts>>

\* LocalChangeNotifier::LocalChangeNotifier.  Files that are there are left to the
\* listing at start-up.
Init ==
    /\ platform \in Platforms
    /\ dir \in SUBSET Files /\ initial = dir /\ messages = {}
    /\ known = (IF platform = "local" THEN dir ELSE {})
    /\ found = [f \in Files |-> 0]
    /\ pc = "out" /\ left = 0 /\ result = "none" /\ stopped = FALSE /\ late = 0 /\ puts = 0

Put(f) ==
    /\ f \notin dir /\ puts < MaxPuts
    /\ dir' = dir \cup {f} /\ puts' = puts + 1
    /\ messages' = IF platform = "s3" THEN messages \cup {f} ELSE messages
    /\ UNCHANGED <<platform, known, initial, found, pc, left, result, stopped, late>>

Remove(f) ==
    /\ f \in dir
    /\ dir' = dir \ {f}
    /\ UNCHANGED <<platform, messages, known, initial, found, pc, left, result, stopped, late, puts>>

Stop ==
    /\ ~stopped /\ stopped' = TRUE
    /\ UNCHANGED <<platform, dir, messages, known, initial, found, pc, left, result, late, puts>>

FirstStep == [local |-> "test", s3 |-> "receive", gcp |-> "sleep"]

Call ==
    /\ pc = "out" /\ ~stopped
    /\ pc' = FirstStep[platform] /\ left' = MaxWait
    /\ UNCHANGED <<platform, dir, messages, known, initial, found, result, stopped, late, puts>>

Return(r) == pc' = "out" /\ left' = 0 /\ result' = r

Notify(new) == found' = [f \in Files |-> IF f \in new THEN found[f] + 1 ELSE found[f]]

\* Mutant: the test for the stop is missing.
NeverStops == FALSE

ShouldStop == stopped

\* Mutant: the files returned are not added to the list.
Forgets(new) == {}

Remember(new) == new

\* Mutant: only files unlike the ones there at first are new.
NewestOnly(previous) == IF previous = {} THEN dir ELSE {}

FindNewFiles(previous) == dir \ previous

TimedOut == left <= 0

\* Mutant: max_wait is not reduced.
NotReduced(d) == left

Reduced(d) == left - d

Slept(d) == late' = IF stopped THEN late + d ELSE late

\* The loop in LocalChangeNotifier::GetNotifications: the tests, the scan of the
\* directory and the sleep.
LocalTest ==
    /\ pc = "test"
    /\ \/ ShouldStop /\ Return("empty")
       \/ ~ShouldStop /\ TimedOut /\ Return("deadline")
       \/ ~ShouldStop /\ ~TimedOut /\ pc' = "scan" /\ UNCHANGED <<left, result>>
    /\ UNCHANGED <<platform, dir, messages, known, initial, found, stopped, late, puts>>

LocalScan ==
    /\ pc = "scan"
    /\ LET new == FindNewFiles(known)
       IN \/ new # {} /\ known' = known \cup Remember(new) /\ Notify(new) /\ Return("files")
          \/ /\ new = {} /\ left' = Reduced(Poll) /\ pc' = "nap"
             /\ UNCHANGED <<known, found, result>>
    /\ UNCHANGED <<platform, dir, messages, initial, stopped, late, puts>>

LocalSleep ==
    /\ pc = "nap" /\ Slept(Poll) /\ pc' = "test"
    /\ UNCHANGED <<platform, dir, messages, known, initial, found, left, result, stopped, puts>>

\* The directory cannot be read.
LocalError ==
    /\ pc = "scan" /\ Return("error")
    /\ UNCHANGED <<platform, dir, messages, known, initial, found, stopped, late, puts>>

Parsed(batch) == batch \ Malformed

\* S3BlobStorageChangeNotifier::GetNotifications when messages have come.
S3Messages ==
    /\ pc = "receive" /\ messages # {}
    /\ \E batch \in (SUBSET messages) \ {{}} :
          /\ messages' = messages \ batch
          /\ Notify(Parsed(batch)) /\ Return(IF Parsed(batch) = {} THEN "empty" ELSE "files")
    /\ UNCHANGED <<platform, dir, known, initial, stopped, late, puts>>

\* AwsChangeNotifier::GetNotifications when a long poll ends without a message.  It
\* was the last one or the next one follows, unless the notifier is to stop.
S3Round ==
    /\ pc = "receive" /\ messages = {}
    /\ \/ left <= Poll /\ Slept(left) /\ Return("deadline")
       \/ left > Poll /\ ShouldStop /\ Slept(Poll) /\ Return("deadline")
       \/ /\ left > Poll /\ ~ShouldStop /\ Slept(Poll) /\ left' = Reduced(Poll)
          /\ UNCHANGED <<pc, result>>
    /\ UNCHANGED <<platform, dir, messages, known, initial, found, stopped, puts>>

\* The queue cannot be set up or received from.
S3Error ==
    /\ pc = "receive" /\ Return("error")
    /\ UNCHANGED <<platform, dir, messages, known, initial, found, stopped, late, puts>>

\* GcpBlobStorageChangeNotifier::GetNotifications: one sleep of max_wait.
GcpRound ==
    /\ pc = "sleep"
    /\ \/ left = 0 /\ Return("deadline") /\ UNCHANGED late
       \/ left > 0 /\ left' = left - 1 /\ Slept(1) /\ UNCHANGED <<pc, result>>
    /\ UNCHANGED <<platform, dir, messages, known, initial, found, stopped, puts>>

LocalRound == LocalTest \/ LocalScan \/ LocalSleep

Next ==
    \/ \E f \in Files : Put(f) \/ Remove(f)
    \/ Stop \/ Call
    \/ LocalRound \/ LocalError \/ S3Messages \/ S3Round \/ S3Error \/ GcpRound

-----------------------------------------------------------------------------
(* Properties *)

\* The wait of GetNotifications never overruns its deadline by a poll or more,
\* and a file is found at most as often as it was put.
TypeOK ==
    /\ platform \in Platforms
    /\ {dir, messages, known, initial} \subseteq SUBSET Files
    /\ found \in [Files -> 0 .. MaxPuts]
    /\ pc \in {"out", "test", "scan", "nap", "receive", "sleep"} /\ left \in 1 - Poll .. MaxWait
    /\ result \in {"none", "empty", "deadline", "files", "error"}
    /\ stopped \in BOOLEAN /\ late \in 0 .. MaxWait + Poll /\ puts \in 0 .. MaxPuts

\* A local file is notified once, and not when it was there at first, however
\* often the calls return with an error, and though it be removed and put again.
LocalFilesNotifiedOnce ==
    platform = "local" => \A f \in Files : found[f] <= (IF f \in initial THEN 0 ELSE 1)

\* A local file is there; it has been found by the listing at start-up or by a
\* notification, unless it is gone again or the notifier stopped.
IsThere(f) == platform = "local" /\ f \in dir
FileFound(f) == f \in initial \/ found[f] > 0 \/ stopped \/ f \notin dir

\* The same for a message of S3.
HasMessage(f) == f \in messages
MessageFound(f) == found[f] > 0 \/ stopped

\* Once it is to stop, the loop over a directory or a queue sleeps or polls at most
\* once more, when the stop came after its test.  On GCP it is not looked at.
StopEndsSleeping == platform # "gcp" => late <= Poll

\* GetNotifications is in progress.
InCall == pc # "out"

-----------------------------------------------------------------------------
(* What documentation or comments say.  The code does otherwise, see       *)
(* README.md; these are no properties of the model.                        *)

\* The `should_stop_callback` is "called periodically as a signal to abort"
\* (blob_storage_change_notifier.h), so a call does not sleep for longer than a
\* poll interval after it.
StopIsNoticed == late <= Poll
=============================================================================
