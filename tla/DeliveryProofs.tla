------------------------ MODULE DeliveryProofs ------------------------
(***************************************************************************)
(* Proofs about what reaches its reader. The background jobs of a session: *)
(* typing, what becomes of completion notices, of waits and of the jobs of *)
(* a stopped Run, and how many jobs run at once. The event stream: typing, *)
(* and that a page shows a beginning of the log.                           *)
(***************************************************************************)
EXTENDS BackgroundJobs, EventStream, FiniteSetTheorems, SequenceTheorems, TLAPS

-----------------------------------------------------------------------------
(* Typing *)

(* What injectJobNotifications reads as a set are the entries of the queue.   *)
LEMMA QueueAsSet ==
  /\ \A j : j \in ToSet(queue) <=> InQueue(j)
  /\ queue \in Seq(Job) => ToSet(queue) \subseteq Job
  BY DEF ToSet, InQueue

(* Where a notice goes does not change the type of queue or history.          *)
LEMMA QueueTyping ==
  ASSUME TypeOK, NEW j \in Job, queueNotification(j)
  PROVE  /\ queue' \in Seq(Job) /\ Len(queue') <= MaxPendingNotifications
         /\ dropped' \subseteq Job
<1>1. CASE Len(queue) >= MaxPendingNotifications
  BY <1>1 DEF TypeOK, queueNotification
<1>2. CASE ~(Len(queue) >= MaxPendingNotifications)
  <2>1. queue \in Seq(Job) /\ Len(queue) \in Nat /\ queue' = Append(queue, j)
    BY <1>2 DEF TypeOK, queueNotification
  <2>2. Len(queue') = Len(queue) + 1 /\ queue' \in Seq(Job)
    BY <2>1
  <2>3. MaxPendingNotifications \in Nat /\ dropped' \subseteq Job
    BY <1>2, ConstantsAssumption DEF TypeOK, queueNotification
  <2> QED
    BY <1>2, <2>1, <2>2, <2>3
<1> QED
  BY <1>1, <1>2

(* Reading the notices counts the wakeup and empties the queue, or neither.   *)
LEMMA InjectTyping ==
  ASSUME TypeOK, NEW r \in Run, NEW count \in 0 .. MaxWakeups, injectJobNotifications(r, count)
  PROVE  /\ wakeups' \in [Run -> 0 .. MaxWakeups]
         /\ queue' \in Seq(Job) /\ Len(queue') <= MaxPendingNotifications
         /\ dropped' \subseteq Job
         /\ seen' \in [Run -> SUBSET Job]
<1> USE ConstantsAssumption DEF TypeOK
<1>1. queue \in Seq(Job) /\ ToSet(queue) \subseteq Job
  BY QueueAsSet
<1>2. CASE canBeWoken(count)
  <2>1. count + 1 \in 0 .. MaxWakeups
    BY <1>2 DEF canBeWoken
  <2>2. queue' = <<>>
    BY <1>2 DEF injectJobNotifications
  <2>3. wakeups' = [wakeups EXCEPT ![r] = count + 1] /\ dropped' = dropped
    BY <1>2 DEF injectJobNotifications
  <2>4. seen' = [seen EXCEPT ![r] = seen[r] \cup ToSet(queue)]
    BY <1>2 DEF injectJobNotifications
  <2>5. seen[r] \cup ToSet(queue) \in SUBSET Job
    BY <1>1
  <2> QED
    BY <2>1, <2>2, <2>3, <2>4, <2>5
<1>3. CASE ~canBeWoken(count)
  <2>1. wakeups' = [wakeups EXCEPT ![r] = count] /\ UNCHANGED <<queue, dropped, seen>>
    BY <1>3 DEF injectJobNotifications
  <2> QED
    BY <2>1
<1> QED
  BY <1>2, <1>3

LEMMA TypeStep ==
  ASSUME TypeOK, [Next]_vars
  PROVE  TypeOK'
<1> USE ConstantsAssumption
<1>z. 0 \in 0 .. MaxWakeups
  OBVIOUS
<1>1. ASSUME NEW r \in Run, RunBegins(r) PROVE TypeOK'
  BY <1>1, <1>z, InjectTyping DEF RunBegins, TypeOK, jobs
<1>2. ASSUME NEW r \in Run, ModelCallsTools(r) PROVE TypeOK'
  BY <1>2 DEF ModelCallsTools, TypeOK, jobs, inbox
<1>3. ASSUME NEW r \in Run, ToolTurnEnds(r) PROVE TypeOK'
  BY <1>3, <1>z, InjectTyping DEF ToolTurnEnds, TypeOK, jobs
<1>4. ASSUME NEW r \in Run, ModelAnswers(r) PROVE TypeOK'
  <2>1. wakeups[r] \in 0 .. MaxWakeups
    BY DEF TypeOK
  <2> QED
    BY <1>4, <2>1, InjectTyping DEF ModelAnswers, TypeOK, jobs
<1>16. ASSUME NEW r \in Run, ReviewSettles(r) PROVE TypeOK'
  BY <1>16 DEF ReviewSettles, TypeOK, jobs, inbox
<1>5. ASSUME NEW r \in Run, RunFails(r) PROVE TypeOK'
  BY <1>5 DEF RunFails, TypeOK, jobs, inbox
<1>6. ASSUME NEW r \in Run, StopRun(r) PROVE TypeOK'
  BY <1>6 DEF StopRun, TypeOK, inbox
<1>7. ASSUME NEW r \in Run, waitTimesOut(r) PROVE TypeOK'
  BY <1>7 DEF waitTimesOut, TypeOK, jobs, inbox
<1>8. ASSUME NEW r \in Run, NEW j \in Job, startBackgroundJob(r, j) PROVE TypeOK'
  BY <1>8 DEF startBackgroundJob, startsAborted, TypeOK, inbox
<1>9. ASSUME NEW r \in Run, NEW j \in Job, waitBegins(r, j) PROVE TypeOK'
  BY <1>9 DEF waitBegins, TypeOK, jobs, inbox
<1>10. ASSUME NEW r \in Run, NEW j \in Job, killBackgroundJob(r, j) PROVE TypeOK'
  BY <1>10 DEF killBackgroundJob, TypeOK, inbox
<1>11. ASSUME NEW j \in Job, jobSettles(j) PROVE TypeOK'
  BY <1>11 DEF jobSettles, TypeOK, inbox
<1>12. ASSUME NEW j \in Job, jobNotifies(j) PROVE TypeOK'
  BY <1>12, QueueTyping DEF jobNotifies, TypeOK
<1>13. CASE archiveSession \/ restoreSession \/ purgeWorkspace
  BY <1>13 DEF archiveSession, restoreSession, purgeWorkspace, SessionBecomes, TypeOK
<1>14. CASE deleteSession
  BY <1>14 DEF deleteSession, SessionBecomes, disposeSessionBackgroundJobs, running, TypeOK
<1>15. CASE UNCHANGED vars
  BY <1>15 DEF vars, jobs, inbox, TypeOK
<1> QED
  BY <1>1, <1>2, <1>3, <1>4, <1>5, <1>6, <1>7, <1>8, <1>9, <1>10, <1>11, <1>12, <1>13,
     <1>14, <1>15, <1>16 DEF Next

(* Every reachable state is well typed; the queue never exceeds its bound and *)
(* no Run is woken more often in a row than it may be.                        *)
THEOREM TypeCorrect == Spec => []TypeOK
<1>1. Init => TypeOK
  BY ConstantsAssumption DEF Init, TypeOK
<1>2. TypeOK /\ [Next]_vars => TypeOK'
  BY TypeStep
<1> QED
  BY <1>1, <1>2, PTL DEF Spec

-----------------------------------------------------------------------------
(* Jobs, waits and stops *)

(* A job's callbacks run after it settled.                                    *)
CallbacksFollowSettling == \A j \in Job : notified[j] => status[j] = "settled"

(* A session in which a Run is active is neither archived nor gone ...        *)
ActiveIsLive == \A r \in Run : Active(r) => session = "live"

(* ... and one that was not deleted still finds its running jobs.             *)
RunningIsTracked == session # "deleted" => \A j \in Job : status[j] = "running" => j \in tracked

JobInv ==
  /\ CallbacksFollowSettling /\ ActiveIsLive /\ RunningIsTracked
  /\ NoLostWait /\ StoppedRunAbortsItsJobs

LEMMA JobStep ==
  ASSUME TypeOK, JobInv, [Next]_vars
  PROVE  JobInv'
<1> USE ConstantsAssumption DEF JobInv, CallbacksFollowSettling, ActiveIsLive, RunningIsTracked,
      NoLostWait, StoppedRunAbortsItsJobs, Active
<1>a. /\ waiting \in [Run -> Job \cup {NoJob}]
      /\ run \in [Run -> {"new", "model", "tools", "reviewing", "answered", "failed"}]
      /\ signal \in [Run -> BOOLEAN]
      /\ owner \in [Job -> Run \cup {NoRun}]
      /\ status \in [Job -> {"unstarted", "running", "settled"}]
      /\ aborted \in [Job -> BOOLEAN] /\ notified \in [Job -> BOOLEAN]
  BY DEF TypeOK
<1>1. ASSUME NEW r \in Run, RunBegins(r) PROVE JobInv'
  BY <1>1, <1>a DEF RunBegins, jobs
<1>2. ASSUME NEW r \in Run, ModelCallsTools(r) PROVE JobInv'
  BY <1>2, <1>a DEF ModelCallsTools, jobs
<1>3. ASSUME NEW r \in Run, ToolTurnEnds(r) PROVE JobInv'
  BY <1>3, <1>a DEF ToolTurnEnds, jobs
<1>4. ASSUME NEW r \in Run, ModelAnswers(r) PROVE JobInv'
  BY <1>4, <1>a DEF ModelAnswers, jobs
<1>16. ASSUME NEW r \in Run, ReviewSettles(r) PROVE JobInv'
  BY <1>16, <1>a DEF ReviewSettles, jobs
<1>5. ASSUME NEW r \in Run, RunFails(r) PROVE JobInv'
  BY <1>5, <1>a DEF RunFails, jobs
<1>6. ASSUME NEW r \in Run, StopRun(r) PROVE JobInv'
  BY <1>6, <1>a DEF StopRun
<1>7. ASSUME NEW r \in Run, waitTimesOut(r) PROVE JobInv'
  BY <1>7, <1>a DEF waitTimesOut, jobs
<1>8. ASSUME NEW r \in Run, NEW j \in Job, startBackgroundJob(r, j) PROVE JobInv'
  <2>1. UNCHANGED <<session, run, signal, waiting, notified>> /\ status[j] = "unstarted"
    BY <1>8 DEF startBackgroundJob
  <2>2. CallbacksFollowSettling' /\ ActiveIsLive' /\ NoLostWait'
    BY <1>8, <2>1, <1>a DEF startBackgroundJob
  <2>3. RunningIsTracked'
    BY <1>8, <2>1, <1>a DEF startBackgroundJob
  <2>4. StoppedRunAbortsItsJobs'
    BY <1>8, <2>1, <1>a DEF startBackgroundJob, startsAborted
  <2> QED
    BY <2>2, <2>3, <2>4
<1>9. ASSUME NEW r \in Run, NEW j \in Job, waitBegins(r, j) PROVE JobInv'
  BY <1>9, <1>a DEF waitBegins, mayWait, running, jobs
<1>10. ASSUME NEW r \in Run, NEW j \in Job, killBackgroundJob(r, j) PROVE JobInv'
  BY <1>10, <1>a DEF killBackgroundJob
<1>11. ASSUME NEW j \in Job, jobSettles(j) PROVE JobInv'
  BY <1>11, <1>a DEF jobSettles
<1>12. ASSUME NEW j \in Job, jobNotifies(j) PROVE JobInv'
  BY <1>12, <1>a DEF jobNotifies
<1>13. CASE archiveSession \/ restoreSession \/ purgeWorkspace
  BY <1>13, <1>a DEF archiveSession, restoreSession, purgeWorkspace, SessionBecomes
<1>14. CASE deleteSession
  BY <1>14, <1>a DEF deleteSession, SessionBecomes, disposeSessionBackgroundJobs
<1>15. CASE UNCHANGED vars
  BY <1>15 DEF vars, jobs
<1> QED
  BY <1>1, <1>2, <1>3, <1>4, <1>5, <1>6, <1>7, <1>8, <1>9, <1>10, <1>11, <1>12, <1>13,
     <1>14, <1>15, <1>16 DEF Next

LEMMA JobInvariance == Spec => [](TypeOK /\ JobInv)
<1>1. Init => JobInv
  BY ConstantsAssumption DEF Init, JobInv, CallbacksFollowSettling, ActiveIsLive,
     RunningIsTracked, NoLostWait, StoppedRunAbortsItsJobs, Active
<1>2. TypeOK /\ JobInv /\ [Next]_vars => JobInv'
  BY JobStep
<1> QED
  BY <1>1, <1>2, TypeCorrect, PTL DEF Spec

(* However jobs settle and time out around it: no shellJob wait is left on a  *)
(* job whose callbacks have already run.                                      *)
THEOREM NoLostWaitHolds == Spec => []NoLostWait
<1>1. JobInv => NoLostWait
  BY DEF JobInv
<1> QED
  BY <1>1, JobInvariance, PTL

(* A stop reaches every running job of its Run, those started after it too.   *)
THEOREM StoppedRunAbortsItsJobsHolds == Spec => []StoppedRunAbortsItsJobs
<1>1. JobInv => StoppedRunAbortsItsJobs
  BY DEF JobInv
<1> QED
  BY <1>1, JobInvariance, PTL

-----------------------------------------------------------------------------
(* Completion notices *)

(* A Run has put the notice of the job before its model.                      *)
Seen(j) == \E r \in Run : j \in seen[r]

(* The queue holds a notice once.                                             *)
Once(j) == \A a, b \in 1 .. Len(queue) : queue[a] = j /\ queue[b] = j => a = b

(* A notice exists only of a job whose callbacks have run.                    *)
NoticesAreReal == \A j \in Job : InQueue(j) \/ j \in dropped \/ Seen(j) => notified[j]

NoticeInv == NoticesAreReal /\ NoticesAccountedFor

(* The notice of a job that had none is queued or refused, the others stay.   *)
LEMMA QueueNotices ==
  ASSUME TypeOK, NEW j \in Job, ~InQueue(j), queueNotification(j)
  PROVE  \A i \in Job :
           /\ InQueue(i)' \/ i \in dropped' <=> InQueue(i) \/ i \in dropped \/ i = j
           /\ InQueue(i) => InQueue(i)'
           /\ InQueue(i)' => InQueue(i) \/ (i = j /\ dropped' = dropped)
           /\ i \in dropped' => i \in dropped \/ (i = j /\ queue' = queue)
           /\ Once(i) => Once(i)'
<1>0. queue \in Seq(Job)
  BY DEF TypeOK
<1>1. CASE Len(queue) >= MaxPendingNotifications
  <2>1. queue' = queue /\ dropped' = dropped \cup {j}
    BY <1>1 DEF queueNotification
  <2>2. \A i : (InQueue(i)' <=> InQueue(i)) /\ (Once(i)' <=> Once(i))
    BY <2>1 DEF InQueue, Once
  <2> QED
    BY <2>1, <2>2
<1>2. CASE ~(Len(queue) >= MaxPendingNotifications)
  <2>1. queue' = Append(queue, j) /\ dropped' = dropped
    BY <1>2 DEF queueNotification
  <2>2. /\ Len(queue) \in Nat /\ Len(queue') = Len(queue) + 1
        /\ \A a \in 1 .. Len(queue) : queue'[a] = queue[a]
        /\ queue'[Len(queue) + 1] = j
    BY <1>0, <2>1
  <2>3. \A i : InQueue(i)' <=> InQueue(i) \/ i = j
    BY <2>2 DEF InQueue
  <2>4. \A i \in Job : Once(i) => Once(i)'
    BY <2>2 DEF Once, InQueue
  <2> QED
    BY <2>1, <2>3, <2>4
<1> QED
  BY <1>1, <1>2

(* What a Run reads moves from the queue to the Run, all of it or nothing.    *)
LEMMA InjectNotices ==
  ASSUME TypeOK, NoticeInv, NEW r \in Run, NEW count \in Nat, injectJobNotifications(r, count),
         UNCHANGED <<session, notified>>
  PROVE  NoticeInv'
<1> USE DEF NoticeInv, NoticesAreReal, NoticesAccountedFor, Seen
<1>1. CASE canBeWoken(count)
  <2>1. /\ queue' = <<>> /\ dropped' = dropped
        /\ seen' = [seen EXCEPT ![r] = @ \cup ToSet(queue)]
    BY <1>1 DEF injectJobNotifications
  <2>2. \A j : ~InQueue(j)'
    BY <2>1 DEF InQueue
  <2>3. \A j \in Job, q \in Run : j \in seen'[q] <=> j \in seen[q] \/ (q = r /\ InQueue(j))
    BY <2>1, QueueAsSet DEF TypeOK
  <2>4. \A j \in Job : \A a, b \in 1 .. Len(queue') : queue'[a] = j /\ queue'[b] = j => a = b
    BY <2>1
  <2> QED
    BY <2>1, <2>2, <2>3, <2>4
<1>2. CASE ~canBeWoken(count)
  <2>1. UNCHANGED <<queue, dropped, seen>>
    BY <1>2 DEF injectJobNotifications, canBeWoken
  <2> QED
    BY <2>1 DEF InQueue
<1> QED
  BY <1>1, <1>2

LEMMA NoticeStep ==
  ASSUME TypeOK, JobInv, NoticeInv, [Next]_vars
  PROVE  NoticeInv'
<1>u. ASSUME UNCHANGED <<session, notified, inbox>> PROVE NoticeInv'
  BY <1>u DEF NoticeInv, NoticesAreReal, NoticesAccountedFor, Seen, InQueue, inbox
<1>1. ASSUME NEW r \in Run, RunBegins(r) \/ ToolTurnEnds(r) \/ ModelAnswers(r) PROVE NoticeInv'
  <2>1. 0 \in Nat /\ wakeups[r] \in Nat
    BY DEF TypeOK
  <2> QED
    BY <1>1, <2>1, InjectNotices DEF RunBegins, ToolTurnEnds, ModelAnswers, jobs
<1>2. ASSUME NEW r \in Run,
             ModelCallsTools(r) \/ ReviewSettles(r) \/ RunFails(r) \/ StopRun(r) \/ waitTimesOut(r)
      PROVE  NoticeInv'
  BY <1>2, <1>u DEF ModelCallsTools, ReviewSettles, RunFails, StopRun, waitTimesOut, jobs
<1>3. ASSUME NEW r \in Run, NEW j \in Job,
             startBackgroundJob(r, j) \/ waitBegins(r, j) \/ killBackgroundJob(r, j)
      PROVE  NoticeInv'
  BY <1>3, <1>u DEF startBackgroundJob, waitBegins, killBackgroundJob, jobs
<1>4. ASSUME NEW j \in Job, jobSettles(j) PROVE NoticeInv'
  BY <1>4, <1>u DEF jobSettles
<1>5. ASSUME NEW j \in Job, jobNotifies(j) PROVE NoticeInv'
  <2> USE DEF NoticeInv, NoticesAreReal, NoticesAccountedFor, Seen
  <2>1. /\ ~notified[j] /\ queueNotification(j) /\ UNCHANGED <<session, seen>>
        /\ notified' = [notified EXCEPT ![j] = TRUE]
    BY <1>5 DEF jobNotifies
  <2>2. ~InQueue(j) /\ j \notin dropped /\ ~Seen(j)
    BY <2>1
  <2>3. \A i \in Job : notified'[i] <=> notified[i] \/ i = j
    BY <2>1 DEF TypeOK
  <2> QED
    BY <2>1, <2>2, <2>3, QueueNotices DEF Once
<1>6. CASE archiveSession \/ restoreSession \/ purgeWorkspace
  BY <1>6 DEF archiveSession, restoreSession, purgeWorkspace, SessionBecomes, NoticeInv,
     NoticesAreReal, NoticesAccountedFor, Seen, InQueue
<1>7. CASE deleteSession
  <2>1. /\ session' = "deleted" /\ queue' = <<>> /\ UNCHANGED <<notified, dropped, seen>>
    BY <1>7 DEF deleteSession, SessionBecomes, disposeSessionBackgroundJobs
  <2>2. (\A j : ~InQueue(j)') /\ 1 .. Len(queue') = {}
    BY <2>1 DEF InQueue
  <2> QED
    BY <2>1, <2>2 DEF NoticeInv, NoticesAreReal, NoticesAccountedFor, Seen
<1>8. CASE UNCHANGED vars
  BY <1>8, <1>u DEF vars, jobs
<1> QED
  BY <1>1, <1>2, <1>3, <1>4, <1>5, <1>6, <1>7, <1>8 DEF Next

LEMMA NoticeInvariance == Spec => [](TypeOK /\ JobInv /\ NoticeInv)
<1>1. Init => NoticeInv
  BY DEF Init, NoticeInv, NoticesAreReal, NoticesAccountedFor, Seen, InQueue
<1>2. TypeOK /\ JobInv /\ NoticeInv /\ [Next]_vars => NoticeInv'
  BY NoticeStep
<1> QED
  BY <1>1, <1>2, JobInvariance, PTL DEF Spec

(* Whatever the limits of queue and wakeups: a finished job's notice is       *)
(* pending, read by one Run or refused by the full queue, and only one of     *)
(* these, until the session is deleted.                                       *)
THEOREM NoticesAccountedForHolds == Spec => []NoticesAccountedFor
<1>1. NoticeInv => NoticesAccountedFor
  BY DEF NoticeInv
<1> QED
  BY <1>1, NoticeInvariance, PTL

(* Somebody was told of the job, or its notice was refused.                   *)
Known(j) == j \in dropped \/ Seen(j)

(* What a Run under review, which could have been woken, does not know ended  *)
(* during the review.                                                         *)
ReviewInv ==
  \A r \in Run, j \in Job :
    run[r] = "reviewing" /\ wakeups[r] < MaxWakeups /\ notified[j]
      => Known(j) \/ j \in unwatched[r]

(* The draft of a Run that may still be woken leaves no notice pending.       *)
LEMMA DraftKnows ==
  ASSUME TypeOK, JobInv, NoticeInv, NEW r \in Run, ModelAnswers(r), run'[r] # "model",
         wakeups[r] < MaxWakeups, NEW j \in Job, notified[j]
  PROVE  Known(j)
<1>r. run \in [Run -> {"new", "model", "tools", "reviewing", "answered", "failed"}]
  BY DEF TypeOK
<1>2. session # "deleted"
  BY DEF ModelAnswers, JobInv, ActiveIsLive, Active
<1>3. queue = <<>>
  BY <1>r DEF ModelAnswers, canBeWoken
<1>4. ~InQueue(j)
  BY <1>3 DEF InQueue
<1> QED
  BY <1>2, <1>4 DEF NoticeInv, NoticesAccountedFor, Known, Seen

(* Nobody forgets a notice.                                                   *)
LEMMA KnownStays ==
  ASSUME TypeOK, [Next]_vars, NEW j \in Job, Known(j)
  PROVE  Known(j)'
<1>t. seen \in [Run -> SUBSET Job]
  BY DEF TypeOK
<1>u. ASSUME UNCHANGED <<dropped, seen>> PROVE Known(j)'
  BY <1>u DEF Known, Seen
<1>i. ASSUME NEW r \in Run, NEW count, injectJobNotifications(r, count) PROVE Known(j)'
  BY <1>i, <1>t DEF injectJobNotifications, Known, Seen
<1>1. ASSUME NEW r \in Run, RunBegins(r) \/ ToolTurnEnds(r) \/ ModelAnswers(r) PROVE Known(j)'
  BY <1>1, <1>i DEF RunBegins, ToolTurnEnds, ModelAnswers
<1>2. ASSUME NEW r \in Run,
             ModelCallsTools(r) \/ ReviewSettles(r) \/ RunFails(r) \/ StopRun(r) \/ waitTimesOut(r)
      PROVE  Known(j)'
  BY <1>2, <1>u DEF ModelCallsTools, ReviewSettles, RunFails, StopRun, waitTimesOut, inbox
<1>3. ASSUME NEW r \in Run, NEW i \in Job,
             startBackgroundJob(r, i) \/ waitBegins(r, i) \/ killBackgroundJob(r, i)
      PROVE  Known(j)'
  BY <1>3, <1>u DEF startBackgroundJob, waitBegins, killBackgroundJob, inbox
<1>4. ASSUME NEW i \in Job, jobSettles(i) PROVE Known(j)'
  BY <1>4, <1>u DEF jobSettles, inbox
<1>5. ASSUME NEW i \in Job, jobNotifies(i) PROVE Known(j)'
  BY <1>5 DEF jobNotifies, queueNotification, Known, Seen
<1>6. CASE archiveSession \/ restoreSession \/ deleteSession \/ purgeWorkspace
  BY <1>6, <1>u DEF archiveSession, restoreSession, deleteSession, purgeWorkspace, SessionBecomes
<1>7. CASE UNCHANGED vars
  BY <1>7, <1>u DEF vars, inbox
<1> QED
  BY <1>1, <1>2, <1>3, <1>4, <1>5, <1>6, <1>7 DEF Next

LEMMA ReviewStep ==
  ASSUME TypeOK, JobInv, NoticeInv, ReviewInv, [Next]_vars
  PROVE  ReviewInv'
<1>t. /\ run \in [Run -> {"new", "model", "tools", "reviewing", "answered", "failed"}]
      /\ wakeups \in [Run -> 0 .. MaxWakeups] /\ notified \in [Job -> BOOLEAN]
      /\ unwatched \in [Run -> SUBSET Job] /\ MaxWakeups \in Nat
  BY ConstantsAssumption DEF TypeOK
<1>k. \A j \in Job : Known(j) => Known(j)'
  BY KnownStays
<1>u. ASSUME UNCHANGED <<notified, unwatched>>,
             \A q \in Run :
               run'[q] = "reviewing" => run[q] = "reviewing" /\ wakeups'[q] = wakeups[q]
      PROVE  ReviewInv'
  BY <1>u, <1>k DEF ReviewInv
<1>i. ASSUME NEW r \in Run, NEW count, injectJobNotifications(r, count)
      PROVE  \A q \in Run \ {r} : wakeups'[q] = wakeups[q]
  BY <1>i, <1>t DEF injectJobNotifications
<1>1. ASSUME NEW r \in Run, RunBegins(r) \/ ToolTurnEnds(r) PROVE ReviewInv'
  <2>1. run' = [run EXCEPT ![r] = "model"] /\ UNCHANGED <<notified, unwatched>>
    BY <1>1 DEF RunBegins, ToolTurnEnds, jobs
  <2>2. \A q \in Run \ {r} : wakeups'[q] = wakeups[q]
    BY <1>1, <1>i DEF RunBegins, ToolTurnEnds
  <2> QED
    BY <2>1, <2>2, <1>t, <1>u
<1>2. ASSUME NEW r \in Run, ModelAnswers(r) PROVE ReviewInv'
  <2>1. UNCHANGED <<notified, unwatched>>
    BY <1>2 DEF ModelAnswers, jobs
  <2>2. \A q \in Run \ {r} : wakeups'[q] = wakeups[q] /\ run'[q] = run[q]
    BY <1>2, <1>i, <1>t DEF ModelAnswers
  <2>3. ASSUME NEW j \in Job, run'[r] = "reviewing", wakeups'[r] < MaxWakeups, notified[j]
        PROVE  Known(j)
    <3>1. wakeups[r] < MaxWakeups
      BY <1>2, <2>3, <1>t DEF ModelAnswers, injectJobNotifications, canBeWoken
    <3> QED
      BY <1>2, <2>3, <3>1, DraftKnows
  <2>4. ASSUME NEW q \in Run, NEW j \in Job,
               run'[q] = "reviewing", wakeups'[q] < MaxWakeups, notified'[j]
        PROVE  Known(j)' \/ j \in unwatched'[q]
    <3>1. CASE q = r
      BY <3>1, <2>1, <2>3, <2>4, <1>k
    <3>2. CASE q # r
      BY <3>2, <2>1, <2>2, <2>4, <1>k DEF ReviewInv
    <3> QED
      BY <3>1, <3>2
  <2> QED
    BY <2>4 DEF ReviewInv
<1>3. ASSUME NEW r \in Run,
             ModelCallsTools(r) \/ ReviewSettles(r) \/ RunFails(r) \/ StopRun(r) \/ waitTimesOut(r)
      PROVE  ReviewInv'
  BY <1>3, <1>u, <1>t DEF ModelCallsTools, ReviewSettles, RunFails, StopRun, waitTimesOut, jobs
<1>4. ASSUME NEW r \in Run, NEW j \in Job,
             startBackgroundJob(r, j) \/ waitBegins(r, j) \/ killBackgroundJob(r, j)
      PROVE  ReviewInv'
  BY <1>4, <1>u DEF startBackgroundJob, waitBegins, killBackgroundJob, jobs
<1>5. ASSUME NEW j \in Job, jobSettles(j) PROVE ReviewInv'
  BY <1>5, <1>u DEF jobSettles
<1>6. ASSUME NEW j \in Job, jobNotifies(j) PROVE ReviewInv'
  <2>1. /\ UNCHANGED <<run, wakeups>> /\ notified' = [notified EXCEPT ![j] = TRUE]
        /\ \A r \in Run : /\ unwatched[r] \subseteq unwatched'[r]
                          /\ run[r] = "reviewing" => j \in unwatched'[r]
    BY <1>6 DEF jobNotifies
  <2>2. \A i \in Job : notified'[i] => notified[i] \/ i = j
    BY <2>1, <1>t
  <2> QED
    BY <2>1, <2>2, <1>k DEF ReviewInv
<1>7. CASE archiveSession \/ restoreSession \/ deleteSession \/ purgeWorkspace
  BY <1>7, <1>u DEF archiveSession, restoreSession, deleteSession, purgeWorkspace, SessionBecomes
<1>8. CASE UNCHANGED vars
  BY <1>8, <1>u DEF vars, jobs
<1> QED
  BY <1>1, <1>2, <1>3, <1>4, <1>5, <1>6, <1>7, <1>8 DEF Next

(* A Run is answered by its draft, or by the review of one.                   *)
LEMMA AnswerStep ==
  ASSUME TypeOK, JobInv, NoticeInv, ReviewInv, Next,
         NEW r \in Run, NEW j \in Job,
         run'[r] = "answered", run[r] # "answered", notified[j], wakeups[r] < MaxWakeups
  PROVE  j \in dropped \/ j \in unwatched[r] \/ \E q \in Run : j \in seen[q]
<1>r. run \in [Run -> {"new", "model", "tools", "reviewing", "answered", "failed"}]
  BY DEF TypeOK
<1>1. ModelAnswers(r) \/ ReviewSettles(r)
  <2>1. ASSUME NEW q \in Run,
               RunBegins(q) \/ ModelCallsTools(q) \/ ToolTurnEnds(q) \/ RunFails(q)
        PROVE  FALSE
    BY <2>1, <1>r DEF RunBegins, ModelCallsTools, ToolTurnEnds, RunFails
  <2>2. ASSUME NEW q \in Run, StopRun(q) \/ waitTimesOut(q) PROVE FALSE
    BY <2>2 DEF StopRun, waitTimesOut
  <2>3. ASSUME NEW q \in Run, NEW i \in Job,
               startBackgroundJob(q, i) \/ waitBegins(q, i) \/ killBackgroundJob(q, i)
        PROVE  FALSE
    BY <2>3 DEF startBackgroundJob, waitBegins, killBackgroundJob
  <2>4. ASSUME NEW i \in Job, jobSettles(i) \/ jobNotifies(i) PROVE FALSE
    BY <2>4 DEF jobSettles, jobNotifies
  <2>5. CASE archiveSession \/ restoreSession \/ deleteSession \/ purgeWorkspace
    BY <2>5 DEF archiveSession, restoreSession, deleteSession, purgeWorkspace, SessionBecomes
  <2>6. ASSUME NEW q \in Run, ModelAnswers(q) \/ ReviewSettles(q), q # r PROVE FALSE
    BY <2>6, <1>r DEF ModelAnswers, ReviewSettles
  <2> QED
    BY <2>1, <2>2, <2>3, <2>4, <2>5, <2>6 DEF Next
<1>2. CASE ModelAnswers(r)
  BY <1>2, DraftKnows DEF Known, Seen
<1>3. CASE ReviewSettles(r)
  BY <1>3 DEF ReviewSettles, ReviewInv, Known, Seen
<1> QED
  BY <1>1, <1>2, <1>3

(* No Run answers over the notice of a finished job that nobody was told of,  *)
(* unless the job ended while the answer was under review, the notice was     *)
(* refused or the Run had been woken as often as it may be.                   *)
THEOREM AnswersKnowTheJobsHolds == Spec => AnswersKnowTheJobs
<1> DEFINE Knows == \A r \in Run, j \in Job :
             run'[r] = "answered" /\ run[r] # "answered" /\ notified[j] /\ wakeups[r] < MaxWakeups
               => j \in dropped \/ j \in unwatched[r] \/ \E q \in Run : j \in seen[q]
<1>1. Init => ReviewInv
  BY DEF Init, ReviewInv
<1>2. TypeOK /\ JobInv /\ NoticeInv /\ ReviewInv /\ [Next]_vars => ReviewInv'
  BY ReviewStep
<1>3. TypeOK /\ JobInv /\ NoticeInv /\ ReviewInv /\ [Next]_vars => [Knows]_vars
  BY AnswerStep
<1> QED
  BY <1>1, <1>2, <1>3, NoticeInvariance, PTL DEF Spec, AnswersKnowTheJobs

-----------------------------------------------------------------------------
(* The limit on concurrent jobs *)

LEMMA ConcurrencyStep ==
  ASSUME TypeOK, JobInv, ConcurrencyBounded, [Next]_vars
  PROVE  ConcurrencyBounded'
<1> DEFINE Executing == {j \in Job : status[j] = "running"}
<1>f. IsFiniteSet(Executing) /\ Cardinality(Executing) \in Nat
  BY ConstantsAssumption, FS_Subset, FS_CardinalityType
<1>s. status \in [Job -> {"unstarted", "running", "settled"}] /\ tracked \subseteq Job
  BY DEF TypeOK
<1>1. ASSUME NEW r \in Run, NEW j \in Job, startBackgroundJob(r, j) PROVE ConcurrencyBounded'
  <2>1. session = "live"
    BY <1>1 DEF startBackgroundJob, JobInv, ActiveIsLive, Active
  <2>2. running = Executing
    BY <2>1, <1>s DEF running, JobInv, RunningIsTracked
  <2>3. Cardinality(Executing) < MaxJobsPerSession
    BY <1>1, <2>2 DEF startBackgroundJob, mayStart
  <2>4. Executing' = Executing \cup {j} /\ j \notin Executing
    BY <1>1, <1>s DEF startBackgroundJob
  <2>5. Cardinality(Executing') = Cardinality(Executing) + 1
    BY <1>f, <2>4, FS_AddElement
  <2>6. Cardinality(Executing') <= MaxJobsPerSession
    BY <1>f, <2>3, <2>5, ConstantsAssumption
  <2> QED
    BY <2>6 DEF ConcurrencyBounded
<1>2. ASSUME NEW j \in Job, jobSettles(j) PROVE ConcurrencyBounded'
  <2>1. Executing' \subseteq Executing
    BY <1>2, <1>s DEF jobSettles
  <2>2. Cardinality(Executing') <= Cardinality(Executing) /\ IsFiniteSet(Executing')
    BY <1>f, <2>1, FS_Subset
  <2>3. Cardinality(Executing') \in Nat
    BY <2>2, FS_CardinalityType
  <2> QED
    BY <1>f, <2>2, <2>3, ConstantsAssumption DEF ConcurrencyBounded
<1>3. CASE status' = status
  BY <1>3 DEF ConcurrencyBounded
<1>4. ASSUME NEW r \in Run,
             RunBegins(r) \/ ModelCallsTools(r) \/ ToolTurnEnds(r) \/ ModelAnswers(r)
               \/ ReviewSettles(r) \/ RunFails(r) \/ StopRun(r) \/ waitTimesOut(r)
      PROVE  ConcurrencyBounded'
  BY <1>4, <1>3 DEF RunBegins, ModelCallsTools, ToolTurnEnds, ModelAnswers, ReviewSettles,
     RunFails, StopRun, waitTimesOut, jobs
<1>5. ASSUME NEW r \in Run, NEW j \in Job, waitBegins(r, j) \/ killBackgroundJob(r, j)
      PROVE  ConcurrencyBounded'
  BY <1>5, <1>3 DEF waitBegins, killBackgroundJob, jobs
<1>6. ASSUME NEW j \in Job, jobNotifies(j) PROVE ConcurrencyBounded'
  BY <1>6, <1>3 DEF jobNotifies
<1>7. CASE archiveSession \/ restoreSession \/ deleteSession \/ purgeWorkspace
  BY <1>7, <1>3 DEF archiveSession, restoreSession, deleteSession, purgeWorkspace, SessionBecomes
<1>8. CASE UNCHANGED vars
  BY <1>8, <1>3 DEF vars, jobs
<1> QED
  BY <1>1, <1>2, <1>4, <1>5, <1>6, <1>7, <1>8 DEF Next

(* Whichever Runs of the session start them, and also after the session is    *)
(* gone: the processes of its jobs are never more than the limit.             *)
THEOREM ConcurrencyBoundedHolds == Spec => []ConcurrencyBounded
<1>1. Init => ConcurrencyBounded
  <2>1. Init => {j \in Job : status[j] = "running"} = {}
    BY DEF Init
  <2> QED
    BY <2>1, FS_EmptySet, ConstantsAssumption DEF ConcurrencyBounded
<1>2. TypeOK /\ JobInv /\ ConcurrencyBounded /\ [Next]_vars => ConcurrencyBounded'
  BY ConcurrencyStep
<1> QED
  BY <1>1, <1>2, JobInvariance, PTL DEF Spec

-----------------------------------------------------------------------------
(* The event stream: the connection and the view *)

(* The Host and the log of the Run.                                           *)
HostTyped ==
  /\ up \in BOOLEAN /\ turn \in 1..MaxTurns /\ runStatus \in Status
  /\ log \in Seq({"event", "terminal"}) /\ Len(log) <= MaxEvents
  /\ crashes \in 0..MaxCrashes /\ resumes \in 0..MaxResumes

(* What the page knows and asks for. No answer is from a Run to come.         *)
PageTyped ==
  /\ opened \in BOOLEAN /\ shown \in 1..turn /\ known \in Status
  /\ wanted \in 0..MaxAsked /\ answers \subseteq Answer /\ lost \in BOOLEAN
  /\ \A a \in answers : a.turn <= turn
  /\ queued \in 0..(MaxTurns - 1) /\ post \in {"none", "sent", "created", "refused"}
  /\ direct \in BOOLEAN

(* The connection and the hook.                                               *)
LineTyped ==
  /\ sink \in BOOLEAN /\ wire \in Seq(Seqs) /\ es \in {"closed", "connecting", "open"}
  /\ connectedOnce \in BOOLEAN /\ failedAttempts \in 0..MaxFails
  /\ lastEventId \in 0..MaxEvents
  /\ lastSeq \in 0..MaxEvents /\ pending \in Seq(Seqs) /\ events \in Seq(Seqs)
  /\ loaded \in BOOLEAN /\ asked \in BOOLEAN /\ snapshot \in 0..MaxEvents
  /\ awaited \in BOOLEAN /\ missed \in BOOLEAN

(* The wire holds what follows the last event the browser saw, and up to the  *)
(* end of the log while the sink is attached. Only an open connection has one.*)
WireInv ==
  /\ \A i \in 1..Len(wire) : wire[i] = lastEventId + i
  /\ lastEventId + Len(wire) <= Len(log)
  /\ sink => es = "open" /\ lastEventId + Len(wire) = Len(log)
  /\ es # "open" => wire = <<>>

(* The page holds the events from the first on, one each. While a source is   *)
(* there, lastSeq counts them and the browser is not ahead of it; a snapshot  *)
(* is awaited only without one.                                               *)
ViewInv ==
  /\ \A i \in 1..Len(events) : events[i] = i
  /\ \A i \in 1..Len(pending) : pending[i] = Len(events) + i
  /\ Len(events) + Len(pending) <= Len(log)
  /\ snapshot <= Len(log)
  /\ es # "closed" => lastEventId <= lastSeq /\ lastSeq = Len(events) + Len(pending)
  /\ awaited => es = "closed" /\ pending = <<>>

LineInv == LineTyped /\ WireInv /\ ViewInv

StreamInv == HostTyped /\ PageTyped /\ LineInv

(* A run of sequence numbers, as a sequence.                                  *)
LEMMA BetweenSeq ==
  ASSUME NEW a \in Nat, NEW b \in Nat, a <= b, b <= MaxEvents
  PROVE  /\ Between(a, b) \in Seq(Seqs) /\ Len(Between(a, b)) = b - a
         /\ \A i \in 1..(b - a) : Between(a, b)[i] = a + i
<1>1. b - a \in Nat
  OBVIOUS
<1>2. \A i \in 1..(b - a) : a + i \in Seqs
  BY EventsAssumption DEF Seqs
<1>3. [i \in 1..(b - a) |-> a + i] \in [1..(b - a) -> Seqs]
  BY <1>2
<1>4. Between(a, b) \in Seq(Seqs)
  <2> DEFINE d == b - a
             e(i) == a + i
  <2>1. d \in Nat /\ \A i \in 1..d : e(i) \in Seqs
    BY <1>1, <1>2
  <2>2. Between(a, b) = [i \in 1..d |-> e(i)]
    BY DEF Between
  <2> HIDE DEF d, e
  <2>3. [i \in 1..d |-> e(i)] \in Seq(Seqs)
    BY <2>1
  <2> QED
    BY <2>2, <2>3
<1>5. DOMAIN Between(a, b) = 1..(b - a)
  BY DEF Between
<1>6. Len(Between(a, b)) = b - a
  BY <1>1, <1>4, <1>5, LenProperties
<1> QED
  BY <1>4, <1>6 DEF Between

LEMMA ViewIsView ==
  ASSUME HostTyped, LineInv
  PROVE  ViewIsPrefix
<1> DEFINE n == Len(events) + Len(pending)
<1>1. /\ events \in Seq(Seqs) /\ pending \in Seq(Seqs) /\ n \in Nat
      /\ n <= Len(log) /\ Len(log) \in Nat /\ Len(log) <= MaxEvents
  BY DEF LineInv, LineTyped, ViewInv, HostTyped
<1>2. /\ events \o pending \in Seq(Seqs) /\ Len(events \o pending) = n
      /\ \A i \in 1..n : (events \o pending)[i] =
           IF i <= Len(events) THEN events[i] ELSE pending[i - Len(events)]
  BY <1>1, ConcatProperties
<1>3. /\ Between(0, n) \in Seq(Seqs) /\ Len(Between(0, n)) = n
      /\ \A i \in 1..n : Between(0, n)[i] = i
  <2>1. n <= MaxEvents
    BY <1>1, EventsAssumption
  <2> HIDE DEF n
  <2>2. /\ Between(0, n) \in Seq(Seqs) /\ Len(Between(0, n)) = n - 0
        /\ \A i \in 1..(n - 0) : Between(0, n)[i] = 0 + i
    <3>1. 0 \in Nat /\ n \in Nat /\ 0 <= n /\ n <= MaxEvents
      BY <1>1, <2>1
    <3> QED
      BY <3>1, BetweenSeq
  <2>3. n - 0 = n
    BY <1>1
  <2> QED
    BY <1>1, <2>2, <2>3
<1>4. ASSUME NEW i \in 1..n PROVE (events \o pending)[i] = i
  <2>1. CASE i <= Len(events)
    BY <1>1, <1>2, <2>1 DEF LineInv, ViewInv
  <2>2. CASE ~(i <= Len(events))
    <3>1. i - Len(events) \in 1..Len(pending)
      BY <1>1, <2>2
    <3> QED
      BY <1>1, <1>2, <2>2, <3>1 DEF LineInv, ViewInv
  <2> QED
    BY <2>1, <2>2
<1>5. events \o pending = Between(0, n)
  <2> HIDE DEF n
  <2> QED
    BY <1>2, <1>3, <1>4, SeqEqual
<1> QED
  BY <1>1, <1>5 DEF ViewIsPrefix

LEMMA StreamInitInv == StreamInit => StreamInv
<1> SUFFICES ASSUME StreamInit PROVE StreamInv
  OBVIOUS
<1> USE EventsAssumption DEF StreamInit
<1>1. HostTyped
  BY DEF HostTyped, Status
<1>2. PageTyped
  <2>1. 1 \in 1..turn /\ 0 \in 0..MaxAsked /\ 0 \in 0..(MaxTurns - 1)
    OBVIOUS
  <2>2. answers \subseteq Answer /\ \A a \in answers : a.turn <= turn
    OBVIOUS
  <2> QED
    BY <2>1, <2>2 DEF PageTyped, Status
<1>3. LineTyped
  <2>1. 0 \in 0..MaxFails /\ 0 \in 0..MaxEvents
    OBVIOUS
  <2>2. <<>> \in Seq(Seqs)
    BY EmptySeq
  <2> QED
    BY <2>1, <2>2 DEF LineTyped
<1>4. WireInv /\ ViewInv
  BY DEF WireInv, ViewInv
<1> QED
  BY <1>1, <1>2, <1>3, <1>4 DEF StreamInv, LineInv

-----------------------------------------------------------------------------
(* The Host and the page *)

LEMMA HostStep ==
  ASSUME HostTyped, [StreamNext]_streamVars
  PROVE  HostTyped'
<1> USE EventsAssumption DEF HostTyped, host
<1>1. CASE Record
  BY <1>1 DEF Record, Publish
<1>2. CASE FinalizeRun
  BY <1>2 DEF FinalizeRun, Publish, Status
<1>3. CASE Stop
  BY <1>3 DEF Stop, Publish, Status
<1>4. CASE Resume
  BY <1>4 DEF Resume, Publish, Status
<1>5. CASE Crash
  <2>1. crashes' \in 0..MaxCrashes
    BY <1>5 DEF Crash
  <2> QED
    BY <1>5, <2>1 DEF Crash
<1>6. CASE Boot
  BY <1>6 DEF Boot, Publish, Status
<1>7. CASE CreateRun
  BY <1>7 DEF CreateRun, Status
<1>8. CASE Subscribe \/ ConnectFails \/ Drop \/ Deliver \/ FlushPending
  BY <1>8 DEF Subscribe, ConnectFails, Drop, Deliver, FlushPending
<1>9. CASE ReadSnapshot \/ SnapshotArrives \/ SnapshotFails
  BY <1>9 DEF ReadSnapshot, SnapshotArrives, SnapshotFails
<1>10. CASE Open \/ Leave \/ ReadRuns \/ RefreshFails \/ ReplayEarlier
  BY <1>10 DEF Open, Leave, ReadRuns, RefreshFails, ReplayEarlier
<1>11. CASE \E a \in Answer : RunsArrive(a)
  BY <1>11 DEF RunsArrive
<1>12. CASE Send \/ DeleteQueued \/ Dispatch \/ RefuseRun \/ RunCreated \/ RunRefused \/ PostFails
  BY <1>12 DEF Send, DeleteQueued, Dispatch, RefuseRun, RunCreated, RunRefused, PostFails
<1>13. CASE UNCHANGED streamVars
  BY <1>13 DEF streamVars
<1> QED
  BY <1>1, <1>2, <1>3, <1>4, <1>5, <1>6, <1>7, <1>8, <1>9, <1>10, <1>11, <1>12, <1>13
     DEF StreamNext

LEMMA PageStep ==
  ASSUME HostTyped, PageTyped, [StreamNext]_streamVars
  PROVE  PageTyped'
<1> USE EventsAssumption DEF PageTyped, list, sending, page
<1>t. turn \in 1..MaxTurns /\ runStatus \in Status
  BY DEF HostTyped
<1>1. CASE Record \/ FinalizeRun \/ Boot
  BY <1>1 DEF Record, FinalizeRun, Boot, Publish
<1>2. CASE Stop
  BY <1>2 DEF Stop, Publish, refreshRuns
<1>3. CASE Resume
  BY <1>3 DEF Resume, Publish, refreshRuns
<1>4. CASE Crash
  BY <1>4 DEF Crash
<1>5. CASE Subscribe \/ ConnectFails \/ Drop \/ FlushPending
  BY <1>5 DEF Subscribe, ConnectFails, Drop, FlushPending, host
<1>6. CASE Deliver
  <2>1. wanted' \in 0..MaxAsked
    BY <1>6 DEF Deliver, ReportTerminal, refreshRuns
  <2> QED
    BY <1>6, <2>1 DEF Deliver, host
<1>7. CASE ReadSnapshot \/ SnapshotArrives \/ SnapshotFails
  BY <1>7 DEF ReadSnapshot, SnapshotArrives, SnapshotFails, host
<1>8. CASE Open \/ Leave
  <2>1. queued' \in 0..(MaxTurns - 1)
    BY <1>8 DEF Open, Leave
  <2> QED
    BY <1>8, <2>1 DEF Open, Leave, host
<1>9. CASE ReadRuns
  <2>1. [turn |-> turn, status |-> runStatus] \in Answer
    BY <1>t DEF Answer
  <2> QED
    BY <1>9, <1>t, <2>1 DEF ReadRuns, host
<1>10. CASE RefreshFails \/ ReplayEarlier
  <2>1. CASE RefreshFails
    BY <2>1 DEF RefreshFails, host
  <2>2. CASE ReplayEarlier
    <3>1. wanted' \in 0..MaxAsked
      BY <2>2 DEF ReplayEarlier, refreshRuns
    <3> QED
      BY <2>2, <3>1 DEF ReplayEarlier, host
  <2> QED
    BY <1>10, <2>1, <2>2
<1>11. ASSUME NEW a \in Answer, RunsArrive(a)
       PROVE  PageTyped'
  <2>1. a.turn \in 1..turn /\ a.status \in Status
    BY <1>11, <1>t DEF RunsArrive, Answer
  <2> QED
    BY <1>11, <2>1 DEF RunsArrive, host
<1>12. CASE Send
  <2>1. queued' \in 0..(MaxTurns - 1)
    BY <1>12, <1>t DEF Send
  <2>2. post' \in {"none", "sent", "created", "refused"} /\ direct' \in BOOLEAN
    BY <1>12 DEF Send
  <2>3. UNCHANGED <<turn, opened, list>>
    BY <1>12 DEF Send, host
  <2> QED
    BY <2>1, <2>2, <2>3
<1>13. CASE DeleteQueued \/ Dispatch
  BY <1>13 DEF DeleteQueued, Dispatch, host
<1>14. CASE CreateRun
  <2>1. turn' = turn + 1 /\ post' = "created" /\ UNCHANGED <<opened, list, queued, direct>>
    BY <1>14 DEF CreateRun
  <2>2. shown \in 1..turn' /\ \A a \in answers : a.turn <= turn'
    <3>1. \A a \in answers : a.turn \in Nat
      BY DEF Answer
    <3> QED
      BY <1>t, <2>1, <3>1
  <2> QED
    BY <2>1, <2>2
<1>15. CASE RefuseRun \/ RunRefused \/ PostFails
  BY <1>15 DEF RefuseRun, RunRefused, PostFails, host
<1>16. CASE RunCreated
  <2>1. turn' = turn /\ shown' \in 1..turn' /\ known' \in Status
    BY <1>16, <1>t DEF RunCreated, host, Status
  <2>2. /\ post' = "none" /\ opened' = TRUE /\ direct' = FALSE
        /\ UNCHANGED <<wanted, answers, lost, queued>>
    BY <1>16 DEF RunCreated
  <2> QED
    BY <2>1, <2>2
<1>17. CASE UNCHANGED streamVars
  BY <1>17 DEF streamVars, host
<1> QED
  BY <1>1, <1>2, <1>3, <1>4, <1>5, <1>6, <1>7, <1>8, <1>9, <1>10, <1>11, <1>12, <1>13, <1>14,
     <1>15, <1>16, <1>17 DEF StreamNext

-----------------------------------------------------------------------------
(* The connection and the hook *)

(* An event that is stored is written behind what is on the wire.             *)
LEMMA PublishLine ==
  ASSUME HostTyped, LineInv, NEW kind \in {"event", "terminal"}, Publish(kind),
         UNCHANGED <<hook, fetch, missed>>
  PROVE  LineInv'
<1> USE EventsAssumption DEF Publish, hook, fetch
<1>1. /\ log \in Seq({"event", "terminal"}) /\ Len(log) \in Nat
      /\ Len(log') = Len(log) + 1 /\ Len(log) + 1 \in Seqs
  BY DEF HostTyped, Seqs
<1>2. wire \in Seq(Seqs) /\ Len(wire) \in Nat /\ lastEventId \in Nat
  BY DEF LineInv, LineTyped
<1>3. LineTyped'
  BY <1>1 DEF LineInv, LineTyped
<1>4. WireInv'
  <2>1. CASE sink
    <3>1. wire' = Append(wire, Len(log) + 1) /\ lastEventId + Len(wire) = Len(log)
      BY <2>1 DEF LineInv, WireInv
    <3>2. /\ Len(wire') = Len(wire) + 1
          /\ \A i \in 1..Len(wire) : wire'[i] = wire[i]
          /\ wire'[Len(wire) + 1] = Len(log) + 1
      BY <3>1, <1>1, <1>2
    <3>3. \A i \in 1..Len(wire') : wire'[i] = lastEventId + i
      BY <3>1, <3>2, <1>1, <1>2 DEF LineInv, WireInv
    <3> QED
      BY <2>1, <3>1, <3>2, <3>3, <1>1, <1>2 DEF LineInv, WireInv
  <2>2. CASE ~sink
    BY <2>2, <1>1, <1>2 DEF LineInv, WireInv
  <2> QED
    BY <2>1, <2>2
<1>5. ViewInv'
  BY <1>1 DEF LineInv, LineTyped, ViewInv
<1> QED
  BY <1>3, <1>4, <1>5 DEF LineInv

(* What the page does with a Timeline leaves a view of the same log.          *)
LEMMA TimelineLine ==
  ASSUME HostTyped, LineInv, log' = log,
         \/ KeepTimeline
         \/ UnmountTimeline
         \/ missed' \in BOOLEAN
            /\ \E m \in {"snapshot", "live"}, k \in BOOLEAN : Effect(m, k)
  PROVE  LineInv'
<1> USE EventsAssumption
<1>t. /\ Len(log) \in Nat /\ snapshot \in Nat /\ events \in Seq(Seqs) /\ Len(events) \in Nat
      /\ Len(events) <= Len(log)
  BY DEF HostTyped, LineInv, LineTyped, ViewInv
<1>e. <<>> \in Seq(Seqs) /\ 0 \in 0..MaxFails /\ 0 \in 0..MaxEvents
  BY EmptySeq
<1>1. CASE KeepTimeline
  <2>1. UNCHANGED <<sink, wire, es, connectedOnce, failedAttempts, lastEventId, lastSeq, pending,
                    events, loaded, asked, snapshot, awaited, missed>>
    BY <1>1 DEF KeepTimeline, connection, hook, fetch
  <2> QED
    BY <2>1 DEF LineInv, LineTyped, WireInv, ViewInv
<1>2. CASE UnmountTimeline
  <2> USE <1>2 DEF UnmountTimeline, Closed, Reset
  <2>1. LineTyped'
    BY <1>e DEF LineInv, LineTyped
  <2>2. WireInv' /\ ViewInv'
    BY <1>t DEF LineInv, WireInv, ViewInv
  <2> QED
    BY <2>1, <2>2 DEF LineInv
<1>3. ASSUME missed' \in BOOLEAN, NEW m \in {"snapshot", "live"}, NEW k \in BOOLEAN, Effect(m, k)
      PROVE  LineInv'
  <2>1. CASE m = "snapshot" /\ k
    <3> USE <1>3, <2>1 DEF Effect, Closed
    <3>1. LineTyped'
      BY <1>e DEF LineInv, LineTyped
    <3>2. WireInv' /\ ViewInv'
      BY <1>t DEF LineInv, WireInv, ViewInv
    <3> QED
      BY <3>1, <3>2 DEF LineInv
  <2>2. CASE m = "snapshot" /\ ~k
    <3> USE <1>3, <2>2 DEF Effect, Closed, Reset
    <3>1. LineTyped'
      BY <1>e DEF LineInv, LineTyped
    <3>2. WireInv' /\ ViewInv'
      BY <1>t DEF LineInv, WireInv, ViewInv
    <3> QED
      BY <3>1, <3>2 DEF LineInv
  <2>3. CASE m = "live"
    <3> USE <1>3, <2>3 DEF Effect, Connects, Reset
    <3>1. LineTyped'
      BY <1>e DEF LineInv, LineTyped
    <3>2. WireInv' /\ ViewInv'
      BY <1>t DEF LineInv, WireInv, ViewInv
    <3> QED
      BY <3>1, <3>2 DEF LineInv
  <2> QED
    BY <2>1, <2>2, <2>3
<1> QED
  BY <1>1, <1>2, <1>3

(* The event that arrives is the one behind the last the browser saw: known   *)
(* to the page already, or the next of its view.                              *)
LEMMA DeliverLine ==
  ASSUME HostTyped, LineInv, Deliver
  PROVE  LineInv'
<1> DEFINE q == Head(wire)
<1> USE EventsAssumption
<1>1. /\ wire \in Seq(Seqs) /\ wire # <<>> /\ es = "open" /\ Len(wire) \in Nat \ {0}
      /\ events \in Seq(Seqs) /\ pending \in Seq(Seqs) /\ Len(log) \in Nat
      /\ Len(events) \in Nat /\ Len(pending) \in Nat
      /\ lastEventId \in Nat /\ lastSeq \in Nat
  BY EmptySeq DEF Deliver, LineInv, LineTyped, HostTyped
<1>2. /\ q = lastEventId + 1 /\ q \in Seqs /\ q <= Len(log)
      /\ Tail(wire) \in Seq(Seqs) /\ Len(Tail(wire)) = Len(wire) - 1
      /\ \A i \in 1..Len(Tail(wire)) : Tail(wire)[i] = wire[i + 1]
  <2>1. Head(wire) = wire[1] /\ 1 \in 1..Len(wire)
    BY <1>1
  <2>2. wire[1] = lastEventId + 1 /\ lastEventId + Len(wire) <= Len(log)
    BY <2>1 DEF LineInv, WireInv
  <2> QED
    BY <1>1, <2>1, <2>2, HeadTailProperties
<1>3. UNCHANGED <<log, asked, snapshot, awaited, missed>>
  BY DEF Deliver, host, fetch
<1>4. lastEventId <= lastSeq /\ lastSeq = Len(events) + Len(pending) /\ ~awaited
  BY <1>1 DEF LineInv, LineTyped, ViewInv
<1>5. /\ Append(pending, q) \in Seq(Seqs) /\ Len(Append(pending, q)) = Len(pending) + 1
      /\ \A i \in 1..Len(pending) : Append(pending, q)[i] = pending[i]
      /\ Append(pending, q)[Len(pending) + 1] = q
  BY <1>1, <1>2
<1> DEFINE Next1 == /\ wire' = Tail(wire) /\ lastEventId' = q
                    /\ UNCHANGED <<sink, es, connectedOnce, failedAttempts>>
<1>6. ASSUME Next1 PROVE WireInv'
  <2>1. Len(wire') = Len(wire) - 1 /\ lastEventId' = lastEventId + 1
    BY <1>2, <1>6
  <2>2. ASSUME NEW i \in 1..Len(wire') PROVE wire'[i] = lastEventId' + i
    <3>1. i + 1 \in 1..Len(wire) /\ wire'[i] = wire[i + 1]
      BY <1>1, <1>2, <1>6, <2>1
    <3>2. wire[i + 1] = lastEventId + (i + 1)
      BY <3>1 DEF LineInv, WireInv
    <3> QED
      BY <1>1, <2>1, <3>1, <3>2
  <2> QED
    BY <1>1, <1>3, <1>6, <2>1, <2>2 DEF LineInv, WireInv
<1>7. CASE q <= lastSeq /\ Next1 /\ UNCHANGED <<hook, wanted>>
  <2> HIDE DEF q
  <2>1. UNCHANGED <<lastSeq, pending, events, loaded>>
    BY <1>7 DEF hook
  <2>2. LineTyped'
    BY <1>2, <1>3, <1>7, <2>1 DEF LineInv, LineTyped, Seqs
  <2>3. ViewInv'
    BY <1>1, <1>3, <1>4, <1>7, <2>1 DEF LineInv, ViewInv
  <2> QED
    BY <1>6, <1>7, <2>2, <2>3 DEF LineInv
<1>8. CASE /\ q > lastSeq /\ log[q] = "terminal" /\ lastSeq' = q
           /\ events' = events \o Append(pending, q) /\ pending' = <<>> /\ loaded' = TRUE
           /\ Closed /\ ReportTerminal
  <2>1. q = Len(events) + Len(pending) + 1
    BY <1>1, <1>2, <1>4, <1>8
  <2> HIDE DEF q
  <2>2. /\ events' \in Seq(Seqs) /\ Len(events') = Len(events) + Len(pending) + 1
        /\ \A i \in 1..Len(events') : events'[i] =
             IF i <= Len(events) THEN events[i] ELSE Append(pending, q)[i - Len(events)]
    <3> DEFINE t == Append(pending, q)
    <3>1. t \in Seq(Seqs) /\ events' = events \o t /\ Len(t) = Len(pending) + 1
      BY <1>5, <1>8
    <3> HIDE DEF t
    <3>2. /\ events \o t \in Seq(Seqs) /\ Len(events \o t) = Len(events) + Len(t)
          /\ \A i \in 1..(Len(events) + Len(t)) : (events \o t)[i] =
               IF i <= Len(events) THEN events[i] ELSE t[i - Len(events)]
      BY <1>1, <3>1, ConcatProperties
    <3>3. /\ events' \in Seq(Seqs) /\ Len(events') = Len(events) + Len(pending) + 1
          /\ \A i \in 1..Len(events') : events'[i] =
               IF i <= Len(events) THEN events[i] ELSE t[i - Len(events)]
      BY <1>1, <3>1, <3>2
    <3> QED
      BY <3>3 DEF t
  <2>3. ASSUME NEW i \in 1..Len(events') PROVE events'[i] = i
    <3>1. CASE i <= Len(events)
      BY <1>1, <2>2, <3>1 DEF LineInv, ViewInv
    <3>2. CASE i > Len(events) /\ i < Len(events')
      <4>1. i - Len(events) \in 1..Len(pending)
        BY <1>1, <2>2, <3>2
      <4>2. pending[i - Len(events)] = i
        BY <1>1, <4>1 DEF LineInv, ViewInv
      <4> QED
        BY <1>1, <1>5, <2>2, <3>2, <4>1, <4>2
    <3>3. CASE i = Len(events') /\ i > Len(events)
      <4>1. i - Len(events) = Len(pending) + 1 /\ i = q
        BY <1>1, <2>1, <2>2, <3>3
      <4>2. events'[i] = Append(pending, q)[i - Len(events)]
        BY <1>1, <2>2, <3>3
      <4>3. Append(pending, q)[i - Len(events)] = q
        BY <1>5, <4>1
      <4> QED
        BY <4>1, <4>2, <4>3
    <3>4. i \in Nat /\ i <= Len(events') /\ Len(events') \in Nat /\ Len(events) < Len(events')
      <4>1. Len(events') = Len(events) + Len(pending) + 1
        BY <2>2
      <4> QED
        BY <1>1, <4>1
    <3>5. \/ i <= Len(events)
          \/ i > Len(events) /\ i < Len(events')
          \/ i = Len(events') /\ i > Len(events)
      BY <1>1, <3>4
    <3> QED
      BY <3>1, <3>2, <3>3, <3>5
  <2>4. /\ es' = "closed" /\ wire' = <<>> /\ sink' = FALSE /\ connectedOnce' = FALSE
        /\ failedAttempts' = 0 /\ lastEventId' = 0
    BY <1>8 DEF Closed
  <2>5. <<>> \in Seq(Seqs) /\ 0 \in 0..MaxFails /\ 0 \in 0..MaxEvents
    BY EmptySeq
  <2>6. LineTyped'
    <3>1. lastSeq' \in 0..MaxEvents
      BY <1>2, <1>8 DEF Seqs
    <3>2. pending' \in Seq(Seqs) /\ events' \in Seq(Seqs) /\ loaded' = TRUE
      BY <1>8, <2>2, <2>5
    <3>3. /\ wire' \in Seq(Seqs) /\ failedAttempts' \in 0..MaxFails /\ lastEventId' \in 0..MaxEvents
      BY <2>4, <2>5
    <3> QED
      BY <1>3, <2>4, <3>1, <3>2, <3>3 DEF LineInv, LineTyped
  <2>7. WireInv'
    BY <1>1, <1>3, <2>4 DEF WireInv
  <2>8. ViewInv'
    BY <1>1, <1>2, <1>3, <1>4, <1>8, <2>1, <2>2, <2>3, <2>4 DEF LineInv, ViewInv
  <2> QED
    BY <2>6, <2>7, <2>8 DEF LineInv
<1>9. CASE /\ q > lastSeq /\ log[q] # "terminal" /\ lastSeq' = q
           /\ pending' = Append(pending, q) /\ Next1 /\ UNCHANGED <<events, loaded, wanted>>
  <2>1. q = Len(events) + Len(pending) + 1
    BY <1>1, <1>2, <1>4, <1>9
  <2> HIDE DEF q
  <2>2. LineTyped'
    BY <1>2, <1>3, <1>5, <1>9 DEF LineInv, LineTyped, Seqs
  <2>3. ASSUME NEW i \in 1..Len(pending') PROVE pending'[i] = Len(events') + i
    <3>1. Len(events') = Len(events) /\ Len(pending') = Len(pending) + 1
      BY <1>5, <1>9
    <3>2. CASE i \in 1..Len(pending)
      <4>1. pending'[i] = pending[i]
        BY <1>5, <1>9, <3>2
      <4> QED
        BY <3>1, <3>2, <4>1 DEF LineInv, ViewInv
    <3>3. CASE i = Len(pending) + 1
      <4>1. pending'[i] = q
        BY <1>5, <1>9, <3>3
      <4> QED
        BY <1>1, <2>1, <3>1, <3>3, <4>1
    <3> QED
      BY <1>1, <3>1, <3>2, <3>3
  <2>4. ViewInv'
    BY <1>1, <1>2, <1>3, <1>4, <1>5, <1>9, <2>1, <2>3 DEF LineInv, ViewInv
  <2> QED
    BY <1>6, <1>9, <2>2, <2>4 DEF LineInv
<1> QED
  BY <1>7, <1>8, <1>9 DEF Deliver

LEMMA FlushLine ==
  ASSUME HostTyped, LineInv, FlushPending
  PROVE  LineInv'
<1> USE EventsAssumption
<1>1. /\ events \in Seq(Seqs) /\ pending \in Seq(Seqs) /\ Len(log) \in Nat
      /\ Len(events) \in Nat /\ Len(pending) \in Nat
  BY DEF LineInv, LineTyped, HostTyped
<1>2. /\ events' = events \o pending /\ pending' = <<>>
      /\ UNCHANGED <<log, sink, wire, es, connectedOnce, failedAttempts, lastEventId, lastSeq,
                     loaded, asked, snapshot, awaited, missed>>
  BY DEF FlushPending, host, connection, fetch
<1>3. /\ events' \in Seq(Seqs) /\ Len(events') = Len(events) + Len(pending)
      /\ \A i \in 1..Len(events') : events'[i] =
           IF i <= Len(events) THEN events[i] ELSE pending[i - Len(events)]
  BY <1>1, <1>2, ConcatProperties
<1>4. ASSUME NEW i \in 1..Len(events') PROVE events'[i] = i
  <2>1. CASE i <= Len(events)
    BY <1>1, <1>3, <2>1 DEF LineInv, ViewInv
  <2>2. CASE ~(i <= Len(events))
    <3>1. i - Len(events) \in 1..Len(pending)
      BY <1>1, <1>3, <2>2
    <3> QED
      BY <1>1, <1>3, <2>2, <3>1 DEF LineInv, ViewInv
  <2> QED
    BY <2>1, <2>2
<1>5. LineTyped'
  BY <1>2, <1>3, EmptySeq DEF LineInv, LineTyped
<1>6. WireInv'
  BY <1>2 DEF LineInv, WireInv
<1>7. ViewInv'
  BY <1>1, <1>2, <1>3, <1>4 DEF LineInv, ViewInv
<1> QED
  BY <1>5, <1>6, <1>7 DEF LineInv

LEMMA LineStep ==
  ASSUME HostTyped, PageTyped, LineInv, [StreamNext]_streamVars
  PROVE  LineInv'
<1> USE EventsAssumption
<1>t. /\ Len(log) \in Nat /\ Len(log) <= MaxEvents /\ lastEventId \in Nat /\ Len(wire) \in Nat
      /\ snapshot \in Nat
  BY DEF HostTyped, LineInv, LineTyped
<1>e. <<>> \in Seq(Seqs) /\ 0 \in 0..MaxFails /\ 0 \in 0..MaxEvents
  BY EmptySeq
<1>m. \A s : Mode(s) \in {"snapshot", "live"}
  BY DEF Mode
<1>k. ASSUME UNCHANGED <<log, connection, hook, fetch, missed>> PROVE LineInv'
  BY <1>k, TimelineLine DEF KeepTimeline
<1>1. CASE Record
  BY <1>1, PublishLine DEF Record, page
<1>2. CASE FinalizeRun
  BY <1>2, PublishLine DEF FinalizeRun, page
<1>3. CASE Stop
  BY <1>3, <1>k, PublishLine DEF Stop
<1>4. CASE Resume
  BY <1>4, PublishLine DEF Resume
<1>5. CASE Crash
  <2>1. /\ sink' = FALSE /\ UNCHANGED <<log, wire, es, connectedOnce, failedAttempts, lastEventId>>
        /\ UNCHANGED <<hook, fetch, missed>>
    BY <1>5 DEF Crash, page
  <2> QED
    BY <2>1 DEF hook, fetch, LineInv, LineTyped, WireInv, ViewInv
<1>6. CASE Boot
  BY <1>6, <1>k, PublishLine DEF Boot, page
<1>7. CASE Subscribe
  <2>1. /\ es = "connecting" /\ es' = "open" /\ connectedOnce' = TRUE /\ failedAttempts' = 0
        /\ wire' = Between(lastEventId, Len(log)) /\ sink' = TRUE /\ lastEventId' = lastEventId
        /\ log' = log /\ UNCHANGED <<hook, fetch, missed>>
    BY <1>7 DEF Subscribe, host, page
  <2>2. Len(wire) = 0 /\ lastEventId <= Len(log)
    BY <1>t, <2>1, EmptySeq DEF LineInv, WireInv
  <2>3. /\ wire' \in Seq(Seqs) /\ Len(wire') = Len(log) - lastEventId
        /\ \A i \in 1..(Len(log) - lastEventId) : wire'[i] = lastEventId + i
    BY <1>t, <2>1, <2>2, BetweenSeq
  <2>4. LineTyped'
    BY <1>e, <2>1, <2>3 DEF hook, fetch, LineInv, LineTyped
  <2>5. WireInv'
    BY <1>t, <2>1, <2>3 DEF WireInv
  <2>6. ViewInv'
    BY <2>1 DEF hook, fetch, LineInv, ViewInv
  <2> QED
    BY <2>4, <2>5, <2>6 DEF LineInv
<1>8. CASE ConnectFails
  <2>1. es = "connecting" /\ log' = log /\ UNCHANGED <<hook, fetch>>
    BY <1>8 DEF ConnectFails, host
  <2>2. CASE failedAttempts + 1 < MaxFails
    <3>1. /\ failedAttempts' = failedAttempts + 1
          /\ UNCHANGED <<sink, wire, es, connectedOnce, lastEventId, missed>>
      BY <1>8, <2>2 DEF ConnectFails
    <3>2. failedAttempts' \in 0..MaxFails
      BY <2>2, <3>1 DEF LineInv, LineTyped
    <3>3. LineTyped'
      BY <2>1, <3>1, <3>2 DEF hook, fetch, LineInv, LineTyped
    <3>4. WireInv' /\ ViewInv'
      BY <2>1, <3>1 DEF hook, fetch, LineInv, WireInv, ViewInv
    <3> QED
      BY <3>3, <3>4 DEF LineInv
  <2>3. CASE ~(failedAttempts + 1 < MaxFails)
    <3>1. /\ es' = "closed" /\ wire' = <<>> /\ sink' = FALSE /\ connectedOnce' = FALSE
          /\ failedAttempts' = 0 /\ lastEventId' = 0 /\ missed' = TRUE
      BY <1>8, <2>3 DEF ConnectFails, Closed
    <3>2. LineTyped'
      BY <1>e, <2>1, <3>1 DEF hook, fetch, LineInv, LineTyped
    <3>3. WireInv' /\ ViewInv'
      BY <1>t, <2>1, <3>1 DEF hook, fetch, LineInv, WireInv, ViewInv
    <3> QED
      BY <3>2, <3>3 DEF LineInv
  <2> QED
    BY <2>2, <2>3
<1>9. CASE Drop
  <2>1. /\ es = "open" /\ es' = "connecting" /\ wire' = <<>> /\ sink' = FALSE
        /\ UNCHANGED <<log, connectedOnce, failedAttempts, lastEventId, hook, fetch, missed>>
    BY <1>9 DEF Drop, host, page
  <2>2. LineTyped'
    BY <1>e, <2>1 DEF hook, fetch, LineInv, LineTyped
  <2>3. WireInv' /\ ViewInv'
    BY <1>t, <2>1 DEF hook, fetch, LineInv, WireInv, ViewInv
  <2> QED
    BY <2>2, <2>3 DEF LineInv
<1>10. CASE Deliver
  BY <1>10, DeliverLine
<1>11. CASE FlushPending
  BY <1>11, FlushLine
<1>12. CASE ReadSnapshot
  <2>1. snapshot' = Len(log) /\ UNCHANGED <<log, connection, hook, asked, awaited, missed>>
    BY <1>12 DEF ReadSnapshot, host
  <2> QED
    BY <1>t, <2>1 DEF connection, hook, LineInv, LineTyped, WireInv, ViewInv
<1>13. CASE SnapshotArrives
  <2>1. /\ asked' = FALSE /\ snapshot' = 0 /\ awaited' = FALSE
        /\ UNCHANGED <<log, connection, lastSeq, pending, missed>>
    BY <1>13 DEF SnapshotArrives, host
  <2>2. CASE awaited
    <3>1. events' = Between(0, snapshot) /\ loaded' = TRUE /\ es = "closed" /\ pending = <<>>
      BY <1>13, <2>2 DEF SnapshotArrives, LineInv, ViewInv
    <3>2. snapshot <= Len(log) /\ snapshot <= MaxEvents
      BY <1>t DEF LineInv, ViewInv
    <3>3. /\ events' \in Seq(Seqs) /\ Len(events') = snapshot
          /\ \A i \in 1..snapshot : events'[i] = i
      <4>1. /\ Between(0, snapshot) \in Seq(Seqs) /\ Len(Between(0, snapshot)) = snapshot - 0
            /\ \A i \in 1..(snapshot - 0) : Between(0, snapshot)[i] = 0 + i
        <5>1. 0 \in Nat /\ 0 <= snapshot
          BY <1>t
        <5> QED
          BY <1>t, <3>2, <5>1, BetweenSeq
      <4> QED
        BY <1>t, <3>1, <4>1
    <3>4. LineTyped'
      BY <1>e, <2>1, <3>1, <3>3 DEF connection, LineInv, LineTyped
    <3>5. WireInv'
      BY <2>1 DEF connection, LineInv, WireInv
    <3>6. ViewInv'
      BY <1>t, <2>1, <3>1, <3>2, <3>3 DEF connection, LineInv, ViewInv
    <3> QED
      BY <3>4, <3>5, <3>6 DEF LineInv
  <2>3. CASE ~awaited
    <3>1. UNCHANGED <<events, loaded>>
      BY <1>13, <2>3 DEF SnapshotArrives
    <3>2. LineTyped'
      BY <1>e, <2>1, <3>1 DEF connection, LineInv, LineTyped
    <3>3. WireInv'
      BY <2>1 DEF connection, LineInv, WireInv
    <3>4. ViewInv'
      BY <1>t, <2>1, <3>1 DEF connection, LineInv, ViewInv
    <3> QED
      BY <3>2, <3>3, <3>4 DEF LineInv
  <2> QED
    BY <2>2, <2>3 DEF LineInv, LineTyped
<1>14. CASE SnapshotFails
  <2>1. /\ asked' = FALSE /\ snapshot' = 0 /\ awaited' = FALSE /\ missed' \in BOOLEAN
        /\ UNCHANGED <<log, connection, hook>>
    BY <1>14 DEF SnapshotFails, host, LineInv, LineTyped
  <2>2. LineTyped'
    BY <1>e, <2>1 DEF connection, hook, LineInv, LineTyped
  <2>3. WireInv'
    BY <2>1 DEF connection, LineInv, WireInv
  <2>4. ViewInv'
    BY <1>t, <2>1 DEF connection, hook, LineInv, ViewInv
  <2> QED
    BY <2>2, <2>3, <2>4 DEF LineInv
<1>15. CASE Open
  <2>1. log' = log /\ (KeepTimeline \/ (missed' \in BOOLEAN /\ Effect(Mode(known), FALSE)))
    BY <1>15 DEF Open, host, MountTimeline
  <2> QED
    BY <1>m, <2>1, TimelineLine
<1>16. CASE Leave
  <2>1. log' = log /\ (KeepTimeline \/ UnmountTimeline)
    BY <1>16 DEF Leave, host
  <2> QED
    BY <2>1, TimelineLine
<1>17. CASE ReadRuns \/ RefreshFails \/ ReplayEarlier
  BY <1>17, <1>k DEF ReadRuns, RefreshFails, ReplayEarlier, host
<1>18. ASSUME NEW a \in Answer, RunsArrive(a)
       PROVE  LineInv'
  <2>1. /\ log' = log
        /\ \/ KeepTimeline
           \/ UnmountTimeline
           \/ missed' \in BOOLEAN /\ Effect(Mode(a.status), FALSE)
           \/ missed' \in BOOLEAN /\ Effect(Mode(a.status), loaded)
    BY <1>18 DEF RunsArrive, host, MountTimeline
  <2>2. loaded \in BOOLEAN
    BY DEF LineInv, LineTyped
  <2> QED
    BY <1>m, <2>1, <2>2, TimelineLine
<1>19. CASE Send \/ DeleteQueued \/ Dispatch \/ RefuseRun \/ RunRefused \/ PostFails
  BY <1>19, <1>k DEF Send, DeleteQueued, Dispatch, RefuseRun, RunRefused, PostFails, host
<1>20. CASE CreateRun
  <2>1. /\ log' = <<"event">> /\ es' = "closed" /\ wire' = <<>> /\ sink' = FALSE
        /\ connectedOnce' = FALSE /\ failedAttempts' = 0 /\ lastEventId' = 0
        /\ lastSeq' = 0 /\ pending' = <<>> /\ events' = <<>> /\ loaded' = FALSE
        /\ asked' = FALSE /\ snapshot' = 0 /\ awaited' = FALSE /\ missed' = FALSE
    BY <1>20 DEF CreateRun, Closed, Reset
  <2>2. LineTyped'
    BY <1>e, <2>1 DEF LineTyped
  <2>3. WireInv' /\ ViewInv'
    BY <2>1 DEF WireInv, ViewInv
  <2> QED
    BY <2>2, <2>3 DEF LineInv
<1>21. CASE RunCreated
  <2>1. log' = log /\ (KeepTimeline \/ (missed' \in BOOLEAN /\ Effect(Mode(known'), FALSE)))
    BY <1>21 DEF RunCreated, host, MountTimeline
  <2> QED
    BY <1>m, <2>1, TimelineLine
<1>22. CASE UNCHANGED streamVars
  BY <1>22, <1>k DEF streamVars, host
<1> QED
  BY <1>1, <1>2, <1>3, <1>4, <1>5, <1>6, <1>7, <1>8, <1>9, <1>10, <1>11, <1>12, <1>13, <1>14,
     <1>15, <1>16, <1>17, <1>18, <1>19, <1>20, <1>21, <1>22 DEF StreamNext

LEMMA StreamInvariance == StreamSpec => []StreamInv
<1>1. StreamInv /\ [StreamNext]_streamVars => StreamInv'
  BY HostStep, PageStep, LineStep DEF StreamInv
<1> QED
  BY StreamInitInv, <1>1, PTL DEF StreamSpec

(* Type correctness of the Host, the connection, the hook and the page.       *)
THEOREM StreamTypeCorrect == StreamSpec => []StreamTypeOK
<1>1. StreamInv => StreamTypeOK
  BY DEF StreamInv, HostTyped, PageTyped, LineInv, LineTyped, StreamTypeOK
<1> QED
  BY <1>1, StreamInvariance, PTL

(* However often the connection drops, the Host crashes, the page turns away  *)
(* or a list arrives late, the page shows a beginning of the log: no event    *)
(* lost, doubled or out of order.                                             *)
THEOREM ViewIsPrefixHolds == StreamSpec => []ViewIsPrefix
<1>1. StreamInv => ViewIsPrefix
  BY ViewIsView DEF StreamInv
<1> QED
  BY <1>1, StreamInvariance, PTL
=============================================================================
