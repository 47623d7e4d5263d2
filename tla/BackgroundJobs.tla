--------------------------- MODULE BackgroundJobs ---------------------------
(***************************************************************************)
(* Background shell jobs of one session: the registry of                   *)
(* sandbox/background-jobs.ts, the Runs of the session that start, wait    *)
(* for and kill jobs (tools/runtime-tools.ts), the agent loop's reading of *)
(* completion notices (runtime/agent.ts), and the ways a session goes away *)
(* (host/session-service.ts).                                              *)
(*                                                                         *)
(* A job outlives the Run that started it; the process behind it is seen   *)
(* here by how its executor settles.  The record's status is set in one    *)
(* promise callback and the notice queued in a later one, so the agent     *)
(* loop may act between the two.                                           *)
(***************************************************************************)
EXTENDS Naturals, Sequences, SequencesExt, FiniteSets

CONSTANTS
  Run,                      \* executions of the agent loop in the session; a resumed
                            \* Run is a new one, with an AbortSignal of its own
  NoRun,
  Job,                      \* numbered in the order they are started
  NoJob,
  MaxJobsPerSession,        \* MAX_JOBS_PER_SESSION (4 in the code)
  MaxPendingNotifications,  \* MAX_PENDING_JOB_NOTIFICATIONS (64 in the code)
  MaxWakeups                \* MAX_JOB_COMPLETION_WAKEUPS (3 in the code)

ASSUME ConstantsAssumption ==
  /\ NoRun \notin Run
  /\ Job \subseteq Nat /\ NoJob \notin Job /\ IsFiniteSet(Job)
  /\ MaxJobsPerSession \in Nat /\ MaxPendingNotifications \in Nat /\ MaxWakeups \in Nat

VARIABLES
  session,   \* "live", "archived", "deleted" or "purged" with its workspace
  run,       \* "new", waiting for the "model", running "tools", "reviewing" its answer,
             \* "answered" or "failed"
  signal,    \* its AbortSignal
  wakeups,   \* jobCompletionWakeups
  waiting,   \* the job its shellJob wait is on
  owner,     \* the Run that started the job
  status,    \* of the record: "unstarted" before it exists, "running", or "settled" for
             \* succeeded, failed and killed
  aborted,   \* the job's controller (kill sets killRequested with it)
  notified,  \* its finally callback has run
  tracked,   \* jobsBySession: what list, wait and kill can find
  queue,     \* notificationsBySession
  dropped,   \* history: notices the full queue refused
  seen,      \* history: jobs whose notice a Run has put before its model
  unwatched  \* history: jobs that notified while the answer of a Run was under review

jobs  == <<owner, status, aborted, notified, tracked>>
inbox == <<queue, dropped, seen>>
vars  == <<session, run, signal, wakeups, waiting, jobs, inbox, unwatched>>

Init ==
  /\ session = "live"
  /\ run = [r \in Run |-> "new"]
  /\ signal = [r \in Run |-> FALSE]
  /\ wakeups = [r \in Run |-> 0]
  /\ waiting = [r \in Run |-> NoJob]
  /\ owner = [j \in Job |-> NoRun]
  /\ status = [j \in Job |-> "unstarted"]
  /\ aborted = [j \in Job |-> FALSE]
  /\ notified = [j \in Job |-> FALSE]
  /\ tracked = {}
  /\ queue = <<>> /\ dropped = {}
  /\ seen = [r \in Run |-> {}]
  /\ unwatched = [r \in Run |-> {}]

Active(r) == run[r] \in {"model", "tools", "reviewing"}

-----------------------------------------------------------------------------
(* The agent loop *)

canBeWoken(count) == count < MaxWakeups /\ queue # <<>>

(* Variant for mutation: the queue is drained before the cap is looked at. *)
injectAfterDrain(r, count) ==
  /\ queue' = <<>>
  /\ IF canBeWoken(count)
     THEN /\ seen' = [seen EXCEPT ![r] = @ \cup ToSet(queue)]
          /\ wakeups' = [wakeups EXCEPT ![r] = count + 1]
     ELSE wakeups' = [wakeups EXCEPT ![r] = count] /\ UNCHANGED seen
  /\ UNCHANGED dropped

(* injectJobNotifications with jobCompletionWakeups at count: everything pending *)
(* becomes one message to the model; at the cap the queue is left as it is.      *)
injectJobNotifications(r, count) ==
  /\ IF canBeWoken(count)
     THEN /\ seen' = [seen EXCEPT ![r] = @ \cup ToSet(queue)]
          /\ queue' = <<>>
          /\ wakeups' = [wakeups EXCEPT ![r] = count + 1]
     ELSE wakeups' = [wakeups EXCEPT ![r] = count] /\ UNCHANGED <<seen, queue>>
  /\ UNCHANGED dropped

(* The first iteration.  A resumed Run may begin while another is active. *)
RunBegins(r) ==
  /\ session = "live" /\ run[r] = "new"
  /\ run' = [run EXCEPT ![r] = "model"]
  /\ injectJobNotifications(r, 0)
  /\ UNCHANGED <<session, signal, waiting, jobs, unwatched>>

ModelCallsTools(r) ==
  /\ run[r] = "model" /\ ~signal[r]
  /\ run' = [run EXCEPT ![r] = "tools"]
  /\ UNCHANGED <<session, signal, wakeups, waiting, jobs, inbox, unwatched>>

(* The batch is done, the count starts anew, and the next iteration begins. *)
ToolTurnEnds(r) ==
  /\ run[r] = "tools" /\ ~signal[r] /\ waiting[r] = NoJob
  /\ run' = [run EXCEPT ![r] = "model"]
  /\ injectJobNotifications(r, 0)
  /\ UNCHANGED <<session, signal, waiting, jobs, unwatched>>

(* Variant for mutation: the notices are not looked at before the answer. *)
ModelAnswersAtOnce(r) ==
  /\ run[r] = "model"
  /\ \E next \in {"reviewing", "answered"} : run' = [run EXCEPT ![r] = next]
  /\ UNCHANGED <<session, signal, wakeups, waiting, jobs, inbox, unwatched>>

(* The model calls no tool: a pending notice sends it round again, else its *)
(* answer is the Run's, at once or after the Harness's final review.        *)
ModelAnswers(r) ==
  /\ run[r] = "model"
  /\ \E next \in {"reviewing", "answered"} :
       run' = [run EXCEPT ![r] = IF canBeWoken(wakeups[r]) THEN "model" ELSE next]
  /\ injectJobNotifications(r, wakeups[r])
  /\ UNCHANGED <<session, signal, waiting, jobs, unwatched>>

(* The review has called the model itself, and jobs may have ended meanwhile.  *)
(* The answer, perhaps revised, is given without another look at the notices.  *)
ReviewSettles(r) ==
  /\ run[r] = "reviewing" /\ ~signal[r]
  /\ run' = [run EXCEPT ![r] = "answered"]
  /\ UNCHANGED <<session, signal, wakeups, waiting, jobs, inbox, unwatched>>

(* The Run fails, or gives in to a stop; its jobs go on unless that aborted them. *)
RunFails(r) ==
  /\ Active(r)
  /\ run' = [run EXCEPT ![r] = "failed"]
  /\ waiting' = [waiting EXCEPT ![r] = NoJob]
  /\ UNCHANGED <<session, signal, wakeups, jobs, inbox, unwatched>>

(* The abort listeners of its jobs that have not settled, and of its wait. *)
StopRun(r) ==
  /\ Active(r) /\ ~signal[r]
  /\ signal' = [signal EXCEPT ![r] = TRUE]
  /\ aborted' = [j \in Job |-> aborted[j] \/ (owner[j] = r /\ ~notified[j])]
  /\ waiting' = [waiting EXCEPT ![r] = NoJob]
  /\ UNCHANGED <<session, run, wakeups, owner, status, notified, tracked, inbox, unwatched>>

-----------------------------------------------------------------------------
(* The registry *)

running == {j \in tracked : status[j] = "running"}

mayStart == Cardinality(running) < MaxJobsPerSession

(* Variant for mutation: the signal is only listened to. *)
startsAbortedNever(r) == FALSE
startsAborted(r) == signal[r]

(* startBackgroundJob.  A call that was waiting for approval when its Run was *)
(* stopped is still executed; its job then starts aborted.                    *)
startBackgroundJob(r, j) ==
  /\ run[r] = "tools" /\ waiting[r] = NoJob
  /\ status[j] = "unstarted" /\ \A i \in Job : i < j => status[i] # "unstarted"
  /\ mayStart
  /\ owner' = [owner EXCEPT ![j] = r]
  /\ status' = [status EXCEPT ![j] = "running"]
  /\ aborted' = [aborted EXCEPT ![j] = startsAborted(r)]
  /\ tracked' = tracked \cup {j}
  /\ UNCHANGED <<session, run, signal, wakeups, waiting, notified, inbox, unwatched>>

(* The executor settles, with an exit code or by rejecting; what the status is *)
(* then called matters to nobody here.                                         *)
jobSettles(j) ==
  /\ status[j] = "running"
  /\ status' = [status EXCEPT ![j] = "settled"]
  /\ UNCHANGED <<session, run, signal, wakeups, waiting, owner, aborted, notified, tracked, inbox,
                 unwatched>>

(* queueNotification: bounded, the newest notice is refused. *)
queueNotification(j) ==
  IF Len(queue) >= MaxPendingNotifications
  THEN dropped' = dropped \cup {j} /\ UNCHANGED queue
  ELSE queue' = Append(queue, j) /\ UNCHANGED dropped

(* The finally callback: the notice, and every wait on the job is over. *)
jobNotifies(j) ==
  /\ status[j] = "settled" /\ ~notified[j]
  /\ notified' = [notified EXCEPT ![j] = TRUE]
  /\ queueNotification(j)
  /\ waiting' = [r \in Run |-> IF waiting[r] = j THEN NoJob ELSE waiting[r]]
  /\ unwatched' = [r \in Run |-> unwatched[r] \cup IF run[r] = "reviewing" THEN {j} ELSE {}]
  /\ UNCHANGED <<session, run, signal, wakeups, owner, status, aborted, tracked, seen>>

(* Variant for mutation: a wait is begun whatever the status.          *)
mayWaitOnAny(j) == j \in tracked
mayWait(j) == j \in running

(* waitForBackgroundJob on a running job; on another it answers at once. *)
waitBegins(r, j) ==
  /\ run[r] = "tools" /\ ~signal[r] /\ waiting[r] = NoJob
  /\ mayWait(j)
  /\ waiting' = [waiting EXCEPT ![r] = j]
  /\ UNCHANGED <<session, run, signal, wakeups, jobs, inbox, unwatched>>

waitTimesOut(r) ==
  /\ waiting[r] # NoJob
  /\ waiting' = [waiting EXCEPT ![r] = NoJob]
  /\ UNCHANGED <<session, run, signal, wakeups, jobs, inbox, unwatched>>

killBackgroundJob(r, j) ==
  /\ run[r] = "tools" /\ waiting[r] = NoJob
  /\ j \in running
  /\ aborted' = [aborted EXCEPT ![j] = TRUE]
  /\ UNCHANGED <<session, run, signal, wakeups, waiting, owner, status, notified, tracked, inbox,
                 unwatched>>

(* Variant for mutation: the records are forgotten, their processes are not told. *)
disposeWithoutAbort == tracked' = {} /\ queue' = <<>> /\ UNCHANGED aborted

(* disposeSessionBackgroundJobs: abort and forget. *)
disposeSessionBackgroundJobs ==
  /\ aborted' = [j \in Job |-> aborted[j] \/ j \in running]
  /\ tracked' = {}
  /\ queue' = <<>>

-----------------------------------------------------------------------------
(* The session *)

SessionBecomes(s) ==
  /\ session' = s
  /\ UNCHANGED <<run, signal, wakeups, waiting, owner, status, notified, dropped, seen, unwatched>>

archiveSession ==
  /\ session = "live" /\ \A r \in Run : ~Active(r)
  /\ SessionBecomes("archived") /\ UNCHANGED <<aborted, tracked, queue>>

restoreSession ==
  /\ session = "archived"
  /\ SessionBecomes("live") /\ UNCHANGED <<aborted, tracked, queue>>

deleteSession ==
  /\ session = "archived"
  /\ SessionBecomes("deleted") /\ disposeSessionBackgroundJobs

(* purgeWorkspace removes every session of a deleted workspace: its rows, active *)
(* Runs and checkpoints.  The jobs are not mentioned.                            *)
purgeWorkspace ==
  /\ session = "archived"
  /\ SessionBecomes("purged") /\ UNCHANGED <<aborted, tracked, queue>>

Next ==
  \/ \E r \in Run :
       \/ RunBegins(r) \/ ModelCallsTools(r) \/ ToolTurnEnds(r) \/ ModelAnswers(r)
       \/ ReviewSettles(r) \/ RunFails(r) \/ StopRun(r) \/ waitTimesOut(r)
       \/ \E j \in Job : startBackgroundJob(r, j) \/ waitBegins(r, j) \/ killBackgroundJob(r, j)
  \/ \E j \in Job : jobSettles(j) \/ jobNotifies(j)
  \/ archiveSession \/ restoreSession \/ deleteSession \/ purgeWorkspace

Spec == Init /\ [][Next]_vars

(* A process that was told to end does (SIGTERM, then SIGKILL), callbacks run, *)
(* and the timer of a wait fires.                                              *)
Fairness ==
  /\ \A j \in Job : WF_vars(aborted[j] /\ jobSettles(j)) /\ WF_vars(jobNotifies(j))
  /\ \A r \in Run : WF_vars(waitTimesOut(r))

FairSpec == Spec /\ Fairness

-----------------------------------------------------------------------------
(* Properties *)

(* The type of the state; the queue stays within its bound. *)
TypeOK ==
  /\ session \in {"live", "archived", "deleted", "purged"}
  /\ run \in [Run -> {"new", "model", "tools", "reviewing", "answered", "failed"}]
  /\ signal \in [Run -> BOOLEAN]
  /\ wakeups \in [Run -> 0 .. MaxWakeups]
  /\ waiting \in [Run -> Job \cup {NoJob}]
  /\ owner \in [Job -> Run \cup {NoRun}]
  /\ status \in [Job -> {"unstarted", "running", "settled"}]
  /\ aborted \in [Job -> BOOLEAN]
  /\ notified \in [Job -> BOOLEAN]
  /\ tracked \subseteq Job
  /\ queue \in Seq(Job) /\ Len(queue) <= MaxPendingNotifications
  /\ dropped \subseteq Job
  /\ seen \in [Run -> SUBSET Job]
  /\ unwatched \in [Run -> SUBSET Job]

InQueue(j) == \E i \in 1 .. Len(queue) : queue[i] = j

(* The notice of a finished job is accounted for while its session exists: pending, *)
(* read by a Run or refused by a full queue, and one of them only, so that no two   *)
(* Runs are told of the same job and the cap on wakeups loses nothing.              *)
NoticesAccountedFor ==
  \A j \in Job :
    /\ session # "deleted" /\ notified[j] =>
         InQueue(j) \/ j \in dropped \/ \E r \in Run : j \in seen[r]
    /\ ~(InQueue(j) /\ (j \in dropped \/ \E r \in Run : j \in seen[r]))
    /\ \A r, q \in Run : j \in seen[r] /\ j \in seen[q] => r = q
    /\ \A a, b \in 1 .. Len(queue) : queue[a] = j /\ queue[b] = j => a = b

(* No wait is left on a job whose callbacks have run: only its timer would end it. *)
NoLostWait == \A r \in Run : waiting[r] # NoJob => ~notified[waiting[r]]

(* The jobs running for a session are never more than the limit, whichever of *)
(* its Runs started them.                                                     *)
ConcurrencyBounded == Cardinality({j \in Job : status[j] = "running"}) <= MaxJobsPerSession

(* A Run that was stopped leaves no job of its own running unasked, also when the *)
(* stop came before the job was started.                                          *)
StoppedRunAbortsItsJobs ==
  \A j \in Job, r \in Run : owner[j] = r /\ signal[r] /\ status[j] = "running" => aborted[j]

(* A Run that answers has been told of every job that ended by then, unless another *)
(* Run was, the queue was full, it had been woken as often in a row as it may, or    *)
(* the job ended while the answer was under review: the review is not interrupted,   *)
(* and its notice is left to a later Run.                                            *)
AnswersKnowTheJobs ==
  [][\A r \in Run, j \in Job :
       run'[r] = "answered" /\ run[r] # "answered" /\ notified[j] /\ wakeups[r] < MaxWakeups
         => j \in dropped \/ j \in unwatched[r] \/ \E q \in Run : j \in seen[q]]_vars

(* The job of a stopped Run or of a deleted session ends, and its callbacks run. *)
StopReapsJobs ==
  \A j \in Job, r \in Run :
    (status[j] = "running" /\ owner[j] = r /\ (signal[r] \/ session = "deleted")) ~> notified[j]
=============================================================================
