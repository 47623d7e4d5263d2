----------------------------- MODULE AgentLoop ------------------------------
(***************************************************************************)
(* runtime/agent.ts, runAgent: the loop of one Run.  A turn prepares the   *)
(* model view (which may ask the model for a summary), asks the model,     *)
(* charges the request to the execution budget, and either runs a batch of *)
(* tool calls or ends with an answer, which the model may review.  The     *)
(* budget lives in the harness and in the checkpoint; everything else a    *)
(* turn counts is lost with the process.                                   *)
(*                                                                         *)
(* The code is single-threaded: an action is what runs between two awaits, *)
(* and a user's stop, the passing of time, the budget's watchdog, a        *)
(* background job's end and a crash come between them.                     *)
(***************************************************************************)
EXTENDS Naturals, FiniteSets

CONSTANTS
  Limit, Converge, Warn,  \* the budget: [Bucket -> Nat], thresholds of a bucket
  WrapUpMs,               \* wrapUpMaxActiveMs
  MaxRetries, MaxJobCompletionWakeups, MaxWrapUpIgnoredTurns, MaxEmptyRecoveries,
  FinalReview,            \* is the review of final answers configured?
  \* Bounds of the instance:
  Tokens,                 \* output tokens one answer may have
  MaxBatch,               \* tool calls in one answer
  MaxNotices,             \* job notifications waiting in the session
  MaxLives,               \* processes that run this Run
  MaxElapsed,             \* ticks of the clock
  Ceiling                 \* stands for Number.MAX_SAFE_INTEGER, where usage saturates

Bucket == {"modelCalls", "outputTokens", "activeMs"}

ASSUME LoopAssumption ==
  /\ Limit \in [Bucket -> Nat] /\ Converge \in [Bucket -> Nat] /\ Warn \in [Bucket -> Nat]
  /\ WrapUpMs \in Nat /\ MaxRetries \in Nat /\ MaxJobCompletionWakeups \in Nat
  /\ MaxWrapUpIgnoredTurns \in Nat /\ MaxEmptyRecoveries \in Nat
  /\ MaxBatch \in Nat /\ MaxNotices \in Nat /\ MaxLives \in Nat
  /\ MaxElapsed \in Nat /\ Ceiling \in Nat
  /\ MaxWrapUpIgnoredTurns > 0 /\ MaxLives > 0 /\ MaxElapsed <= Ceiling
  /\ \A b \in Bucket : 0 < Limit[b] /\ Limit[b] <= Ceiling
  /\ FinalReview \in BOOLEAN /\ Tokens \subseteq Nat

VARIABLES
  pc,             \* where the loop is: see Place
  usage,          \* executionBudget.usage
  marks,          \* the thresholds passed: warned, converged and exhausted, as <<bucket, level>>
  since,          \* time since budgetMarkAt
  pending,        \* requests sent and not charged yet: budgetModelCalls, reviewModelCalls
                  \* and summaryAttempts, of which one is in use at a time
  attempt,        \* chat: the attempt under way
  chatAt,         \* chat: "idle", "send", "wire"
  voices,         \* chat: the attempts whose content the caller was given
  wrapUp,         \* wrapUpInjected, and wrapUpActive of the turn
  wrapMs,         \* time since wrapUpStartedAt
  ignored,        \* wrapUpIgnoredTurns
  empties,        \* emptyTurnRecoveries
  wakeups,        \* jobCompletionWakeups
  notices,        \* completed jobs nobody was told of
  batch,          \* tool calls left in the batch
  worked,         \* state.toolCalls > 0
  round,          \* rounds of the review
  stop,           \* opts.signal aborted
  fired,          \* the watchdog aborted the derived signal of this section
  budgetAborted,
  saved,          \* the checkpoint
  outcome,        \* how the life of the loop ended
  life,
  sent,           \* history: the requests made, of which the checkpoint this life began with knows
  elapsed,        \* history: the time spent, likewise
  turns           \* history: the turns begun with the wrap-up instruction

budget == <<usage, marks, since, pending>>
call   == <<attempt, chatAt, voices>>
tally  == <<wrapUp, wrapMs, ignored, empties, wakeups>>
work   == <<batch, worked, round>>
abort  == <<stop, fired, budgetAborted>>
end    == <<saved, outcome, life>>
hist   == <<sent, elapsed, turns>>
vars   == <<pc, budget, call, tally, notices, work, abort, end, hist>>

Running == {"boundary", "summary", "prepared", "main", "review", "batch", "tool"}
Place   == Running \cup {"over"}
Asking  == {"summary", "main", "review"}
Outcome == {"none", "completed", "failed", "cancelled", "budget"}

AtMost(n, m) == IF n <= m THEN n ELSE m

-----------------------------------------------------------------------------
(* The execution budget *)

(* advanceExecutionBudget: the usage, and the thresholds it passes. *)
Charged(calls, tokens, ms) ==
  [usage EXCEPT !["modelCalls"]   = AtMost(@ + calls, Ceiling),
                !["outputTokens"] = AtMost(@ + tokens, Ceiling),
                !["activeMs"]     = AtMost(@ + ms, Ceiling)]

Band(b, n) ==
  IF n >= Limit[b] THEN {<<b, "exhausted">>}
  ELSE IF n >= Converge[b] THEN {<<b, "converge">>}
  ELSE IF n >= Warn[b] THEN {<<b, "warn">>} ELSE {}

Passed(u) == UNION {Band(b, u[b]) : b \in Bucket}

(* executionBudgetLevel, executionBudgetProjection *)
Exhausted == \E b \in Bucket : <<b, "exhausted">> \in marks
Projected == usage.activeMs + since >= Limit["activeMs"]

(* hardStop, of the turn under way. *)
HardStop == IF wrapUp THEN wrapMs >= WrapUpMs ELSE Projected

Aborted == stop \/ fired

(* The most turns the wrap-up may take, by what is allowed of each kind. *)
TurnsAllowed ==
  MaxWrapUpIgnoredTurns + MaxEmptyRecoveries + MaxJobCompletionWakeups * MaxWrapUpIgnoredTurns

Checkpoint(u, m, w) == [usage |-> u, marks |-> m, worked |-> w]

(* settleBudget; a checkpoint is written when a threshold is newly passed. *)
Settle(tokens) ==
  LET u == Charged(pending, tokens, since) IN
  /\ usage' = u /\ marks' = marks \cup Passed(u)
  /\ since' = 0 /\ pending' = 0
  /\ saved' = IF Passed(u) \subseteq marks THEN saved ELSE Checkpoint(u, marks', worked)

Save == saved' = Checkpoint(usage, marks, worked)

(* A call of chat begins, and ends. *)
Ask(place) ==
  /\ pc' = place
  /\ chatAt' = "send" /\ attempt' = 0 /\ voices' = {}

ChatOver == chatAt' = "idle" /\ attempt' = 0 /\ voices' = {}

(* Mutant: the checkpoint is written before what is outstanding is charged. *)
CatchSavesFirst(error) ==
  LET u == Charged(pending, 0, since) IN
  /\ usage' = u /\ marks' = marks \cup Passed(u)
  /\ since' = 0 /\ pending' = 0
  /\ saved' = Checkpoint(usage, marks, worked)
  /\ outcome' = IF budgetAborted THEN "budget" ELSE error
  /\ pc' = "over" /\ ChatOver
  /\ UNCHANGED <<tally, work, abort, life>>

(* The catch of runAgent: what is not charged yet is, the checkpoint is written, *)
(* and an abort by the budget's watchdog takes the place of the error.           *)
Catch(error) ==
  LET u == Charged(pending, 0, since) IN
  /\ usage' = u /\ marks' = marks \cup Passed(u)
  /\ since' = 0 /\ pending' = 0
  /\ saved' = Checkpoint(u, marks', worked)
  /\ outcome' = IF budgetAborted THEN "budget" ELSE error
  /\ pc' = "over" /\ ChatOver
  /\ UNCHANGED <<tally, work, abort, life>>

-----------------------------------------------------------------------------
(* chat: requests, retried while the caller was given nothing of an answer *)

Init ==
  /\ pc = "boundary"
  /\ usage = [b \in Bucket |-> 0] /\ marks = {} /\ since = 0 /\ pending = 0
  /\ attempt = 0 /\ chatAt = "idle" /\ voices = {}
  /\ wrapUp = FALSE /\ wrapMs = 0 /\ ignored = 0 /\ empties = 0 /\ wakeups = 0
  /\ notices = 0
  /\ batch = 0 /\ worked = FALSE /\ round = 0
  /\ stop = FALSE /\ fired = FALSE /\ budgetAborted = FALSE
  /\ saved = Checkpoint(usage, marks, worked) /\ outcome = "none" /\ life = 1
  /\ sent = 0 /\ elapsed = 0 /\ turns = 0

(* One HTTP request, after the look at the signal that begins an attempt. *)
SendRequest ==
  /\ chatAt = "send" /\ ~Aborted
  /\ chatAt' = "wire"
  /\ pending' = pending + 1
  /\ sent' = AtMost(sent + 1, Ceiling)
  /\ UNCHANGED <<pc, usage, marks, since, attempt, voices, tally, notices, work, abort, end,
                 elapsed, turns>>

(* A text or tool-call delta; thinking does not count. *)
Hear ==
  /\ chatAt = "wire" /\ ~Aborted
  /\ voices' = voices \cup {attempt}
  /\ UNCHANGED <<pc, budget, attempt, chatAt, tally, notices, work, abort, end, hist>>

(* Mutant: a request broken off in the middle of its answer is repeated. *)
MayRetryAnyway == attempt < MaxRetries

(* A transient failure, or no response in time, of a request nothing was heard of. *)
MayRetry == attempt < MaxRetries /\ attempt \notin voices

Retry ==
  /\ chatAt = "wire" /\ ~Aborted /\ MayRetry
  /\ chatAt' = "send" /\ attempt' = attempt + 1
  /\ UNCHANGED <<pc, budget, voices, tally, notices, work, abort, end, hist>>

(* compactConversation after its request failed: it is charged as one at least, *)
(* and the turn goes on without a summary.                                       *)
SummaryFails ==
  LET u == Charged(IF pending = 0 THEN 1 ELSE pending, 0, 0) IN
  /\ usage' = u /\ marks' = marks \cup Passed(u) /\ pending' = 0 /\ since' = since
  /\ saved' = IF Passed(u) \subseteq marks THEN saved ELSE Checkpoint(u, marks', worked)
  /\ pc' = "prepared" /\ ChatOver
  /\ UNCHANGED <<tally, work, abort, outcome, life>>

Throws(error) ==
  /\ IF pc = "summary" THEN SummaryFails ELSE Catch(error)
  /\ UNCHANGED <<notices, hist>>

(* Any failure that is not retried: a refused request, a stall of the stream, a *)
(* break after content, the last attempt.                                        *)
RequestFails == chatAt = "wire" /\ ~Aborted /\ Throws("failed")

RequestAborted == chatAt # "idle" /\ Aborted /\ Throws("cancelled")

(* A summary arrives. *)
SummaryArrives(tokens) ==
  /\ pc = "summary" /\ chatAt = "wire" /\ ~Aborted
  /\ LET u == Charged(pending, tokens, 0) IN
       /\ usage' = u /\ marks' = marks \cup Passed(u) /\ pending' = 0
       /\ saved' = IF Passed(u) \subseteq marks THEN saved ELSE Checkpoint(u, marks', worked)
  /\ pc' = "prepared" /\ ChatOver
  /\ UNCHANGED <<since, tally, notices, work, abort, outcome, life, hist>>

-----------------------------------------------------------------------------
(* A turn *)

(* injectJobNotifications: it writes a checkpoint of its own. *)
Notifies == notices > 0 /\ wakeups < MaxJobCompletionWakeups

(* Mutant: waking the loop does not count. *)
NotifyUncounted == notices' = 0 /\ wakeups' = wakeups

Notify == notices' = 0 /\ wakeups' = wakeups + 1

(* The user's stop is seen first; then the wrap-up instruction, once, if the *)
(* budget is exhausted, and the jobs' notices.                               *)
StartStopped ==
  /\ pc = "boundary" /\ stop
  /\ Catch("cancelled")
  /\ UNCHANGED <<notices, hist>>

StartTurn(summarise) ==
  /\ pc = "boundary" /\ ~stop
  /\ wrapUp' = (wrapUp \/ Exhausted)
  /\ wrapMs' = IF wrapUp THEN wrapMs ELSE 0
  /\ turns' = IF wrapUp' THEN AtMost(turns + 1, TurnsAllowed + 1) ELSE turns
  /\ IF Notifies THEN Notify ELSE UNCHANGED <<notices, wakeups>>
  /\ IF Notifies \/ wrapUp' # wrapUp THEN Save ELSE UNCHANGED saved
  /\ budgetAborted' = FALSE /\ fired' = FALSE
  /\ IF summarise
     THEN Ask("summary")
     ELSE pc' = "prepared" /\ UNCHANGED call
  /\ UNCHANGED <<budget, ignored, empties, work, stop, outcome, life, sent, elapsed>>

(* The view does not fit the model: Context budget exceeded. *)
OverBudget ==
  /\ pc = "prepared"
  /\ Catch("failed")
  /\ UNCHANGED <<notices, hist>>

AskModel ==
  /\ pc = "prepared"
  /\ Ask("main")
  /\ UNCHANGED <<budget, tally, notices, work, abort, end, hist>>

(* The model answers: the request is charged before anything is done about it. *)
Answers(tokens) ==
  /\ pc = "main" /\ chatAt = "wire" /\ ~Aborted
  /\ Settle(tokens)
  /\ ChatOver /\ fired' = FALSE
  /\ UNCHANGED <<stop, life, hist>>

(* Mutant: a turn that ignores the instruction is not counted. *)
AnswerToolsUncounted(tokens, n) ==
  /\ Answers(tokens)
  /\ pc' = "batch" /\ batch' = n
  /\ UNCHANGED <<wrapUp, wrapMs, ignored, empties, wakeups, notices, worked, round,
                 budgetAborted, outcome>>

(* ... with tool calls.  An exhausted budget makes this a turn that ignored it. *)
AnswerTools(tokens, n) ==
  /\ Answers(tokens)
  /\ pc' = "batch" /\ batch' = n
  /\ ignored' = IF Exhausted' THEN ignored + 1 ELSE ignored
  /\ UNCHANGED <<wrapUp, wrapMs, empties, wakeups, notices, worked, round, budgetAborted,
                 outcome>>

(* What the three text answers write: their own checkpoint follows the charge. *)
AnswersAndSaves(tokens) ==
  /\ pc = "main" /\ chatAt = "wire" /\ ~Aborted
  /\ LET u == Charged(pending, tokens, since) IN
       /\ usage' = u /\ marks' = marks \cup Passed(u)
       /\ saved' = Checkpoint(u, marks', worked)
  /\ since' = 0 /\ pending' = 0
  /\ ChatOver /\ fired' = FALSE
  /\ UNCHANGED <<stop, life, hist>>

(* ... with text, while a job completed: its notice comes first. *)
AnswerNotified(tokens) ==
  /\ AnswersAndSaves(tokens)
  /\ Notifies /\ Notify
  /\ pc' = "boundary"
  /\ UNCHANGED <<wrapUp, wrapMs, ignored, empties, work, budgetAborted, outcome>>

(* ... with nothing: recovered, a bounded number of times (decideEmptyTurn). *)
MayRecover == empties < MaxEmptyRecoveries

AnswerEmpty(tokens) ==
  /\ ~Notifies
  /\ AnswersAndSaves(tokens)
  /\ IF MayRecover
     THEN pc' = "boundary" /\ empties' = empties + 1 /\ outcome' = outcome
     ELSE pc' = "over" /\ empties' = empties /\ outcome' = IF budgetAborted THEN "budget" ELSE "failed"
  /\ UNCHANGED <<wrapUp, wrapMs, ignored, wakeups, notices, work, budgetAborted>>

(* ... with text that is the answer: finish. *)
Reviews == FinalReview /\ worked

AnswerFinal(tokens) ==
  /\ ~Notifies /\ ~Reviews
  /\ AnswersAndSaves(tokens)
  /\ pc' = "over" /\ outcome' = "completed"
  /\ UNCHANGED <<tally, notices, work, budgetAborted>>

(* ... with text the model has to review first: reviewFinalAnswer. *)
AnswerDraft(tokens) ==
  /\ ~Notifies /\ Reviews
  /\ pc = "main" /\ chatAt = "wire" /\ ~Aborted
  /\ Settle(tokens)
  /\ round' = 0 /\ budgetAborted' = FALSE /\ fired' = FALSE
  /\ Ask("review")
  /\ UNCHANGED <<tally, notices, batch, worked, stop, outcome, life, hist>>

(* A verdict: the draft passes, is rewritten and reviewed once more, or is refused. *)
ReviewArrives(tokens, verdict) ==
  /\ pc = "review" /\ chatAt = "wire" /\ ~Aborted
  /\ LET u == Charged(pending, tokens, since) IN
       /\ usage' = u /\ marks' = marks \cup Passed(u)
       /\ saved' = IF verdict = "rewrite" /\ Passed(u) \subseteq marks
                   THEN saved ELSE Checkpoint(u, marks', worked)
  /\ since' = 0 /\ pending' = 0
  /\ \/ /\ verdict = "pass"
        /\ pc' = "over" /\ outcome' = "completed" /\ ChatOver
        /\ UNCHANGED <<round, budgetAborted, fired>>
     \/ /\ verdict = "rewrite" /\ round = 0
        /\ round' = 1 /\ budgetAborted' = FALSE /\ fired' = FALSE
        /\ Ask("review") /\ UNCHANGED outcome
     \/ /\ verdict = "refuse"
        /\ pc' = "over" /\ ChatOver
        /\ outcome' = IF budgetAborted THEN "budget" ELSE "failed"
        /\ UNCHANGED <<round, budgetAborted, fired>>
  /\ UNCHANGED <<tally, notices, batch, worked, stop, life, hist>>

-----------------------------------------------------------------------------
(* A batch of tool calls *)

Blocked == Exhausted \/ Projected

BatchStopped ==
  /\ pc = "batch" /\ batch > 0 /\ stop
  /\ Catch("cancelled")
  /\ UNCHANGED <<notices, hist>>

(* tool_execution_skipped *)
SkipTool ==
  /\ pc = "batch" /\ batch > 0 /\ ~stop /\ Blocked
  /\ batch' = batch - 1
  /\ UNCHANGED <<pc, budget, call, tally, notices, worked, round, abort, end, hist>>

(* Mutant: the stop is not looked at between tool calls. *)
StartToolRegardless ==
  /\ pc = "batch" /\ batch > 0 /\ ~Blocked
  /\ pc' = "tool" /\ batch' = batch - 1 /\ worked' = TRUE
  /\ UNCHANGED <<budget, call, tally, notices, round, abort, end, hist>>

StartTool ==
  /\ pc = "batch" /\ batch > 0 /\ ~stop /\ ~Blocked
  /\ pc' = "tool" /\ batch' = batch - 1 /\ worked' = TRUE
  /\ UNCHANGED <<budget, call, tally, notices, round, abort, end, hist>>

(* invokeToolCall returns, whatever became of the call, after a checkpoint; it may *)
(* do so although its signal was aborted.                                          *)
ToolReturns ==
  /\ pc = "tool"
  /\ pc' = "batch"
  /\ Save
  /\ UNCHANGED <<budget, call, tally, notices, work, abort, outcome, life, hist>>

ToolAborts ==
  /\ pc = "tool" /\ Aborted
  /\ Catch("cancelled")
  /\ UNCHANGED <<notices, hist>>

(* The wrap-up instruction was ignored often enough. *)
EndBatchIgnored ==
  /\ pc = "batch" /\ batch = 0 /\ ignored >= MaxWrapUpIgnoredTurns
  /\ Catch("budget")
  /\ UNCHANGED <<notices, hist>>

EndBatch ==
  /\ pc = "batch" /\ batch = 0 /\ ignored < MaxWrapUpIgnoredTurns
  /\ pc' = "boundary"
  /\ Save
  /\ wakeups' = 0
  /\ UNCHANGED <<budget, call, wrapUp, wrapMs, ignored, empties, notices, work, abort,
                 outcome, life, hist>>

-----------------------------------------------------------------------------
(* Around the loop *)

Tick ==
  /\ pc \in Running /\ elapsed < MaxElapsed
  /\ elapsed' = elapsed + 1 /\ since' = since + 1
  /\ wrapMs' = IF wrapUp THEN AtMost(wrapMs + 1, WrapUpMs) ELSE wrapMs
  /\ UNCHANGED <<pc, usage, marks, pending, call, wrapUp, ignored, empties, wakeups, notices,
                 work, abort, end, sent, turns>>

(* The interval of deriveModelCallSignal, in a section that has one. *)
Watched == pc \in Asking \cup {"prepared", "batch", "tool"}

WatchdogFires ==
  /\ Watched /\ HardStop /\ ~(fired /\ budgetAborted)
  /\ fired' = TRUE /\ budgetAborted' = TRUE
  /\ UNCHANGED <<pc, budget, call, tally, notices, work, stop, end, hist>>

Stop ==
  /\ pc \in Running /\ ~stop
  /\ stop' = TRUE
  /\ UNCHANGED <<pc, budget, call, tally, notices, work, fired, budgetAborted, end, hist>>

JobCompletes ==
  /\ notices < MaxNotices /\ pc \in Running
  /\ notices' = notices + 1
  /\ UNCHANGED <<pc, budget, call, tally, work, abort, end, hist>>

(* A new runAgent with the checkpoint, after a crash of the process, whose registry *)
(* of jobs dies with it, or for a Run that ended otherwise than completed.           *)
Resume ==
  /\ pc \in Running \/ outcome # "completed"
  /\ life < MaxLives
  /\ life' = life + 1 /\ pc' = "boundary" /\ outcome' = "none"
  /\ usage' = saved.usage /\ marks' = saved.marks /\ worked' = saved.worked
  /\ since' = 0 /\ pending' = 0
  /\ ChatOver
  /\ wrapUp' = FALSE /\ wrapMs' = 0 /\ ignored' = 0 /\ empties' = 0 /\ wakeups' = 0
  /\ notices' = IF pc \in Running THEN 0 ELSE notices
  /\ batch' = 0 /\ round' = 0
  /\ stop' = FALSE /\ fired' = FALSE /\ budgetAborted' = FALSE
  /\ sent' = saved.usage["modelCalls"] /\ elapsed' = saved.usage["activeMs"] /\ turns' = 0
  /\ UNCHANGED saved

Verdict == {"pass", "rewrite", "refuse"}

Loop ==
  \/ StartStopped \/ \E s \in BOOLEAN : StartTurn(s)
  \/ SendRequest \/ RequestAborted
  \/ OverBudget \/ AskModel
  \/ BatchStopped \/ SkipTool \/ StartTool \/ EndBatchIgnored \/ EndBatch

(* A request on the wire comes to an end: the idle watchdog sees to it. *)
Provider ==
  \/ Retry \/ RequestFails
  \/ \E t \in Tokens :
       \/ SummaryArrives(t)
       \/ \E n \in 1 .. MaxBatch : AnswerTools(t, n)
       \/ AnswerNotified(t) \/ AnswerEmpty(t) \/ AnswerFinal(t) \/ AnswerDraft(t)
       \/ \E v \in Verdict : ReviewArrives(t, v)

(* A tool comes to an end: its deadline sees to it. *)
Tool == ToolReturns \/ ToolAborts

Next ==
  \/ Loop \/ Provider \/ Tool \/ Hear
  \/ Tick \/ WatchdogFires \/ Stop \/ JobCompletes \/ Resume

Spec     == Init /\ [][Next]_vars
FairSpec == Spec /\ WF_vars(Loop) /\ WF_vars(Provider) /\ WF_vars(Tool)
-----------------------------------------------------------------------------
(* Properties *)

CheckpointType ==
  [usage : [Bucket -> 0 .. Ceiling],
   marks : SUBSET (Bucket \X {"warn", "converge", "exhausted"}), worked : BOOLEAN]

(* Every variable has its type. *)
TypeOK ==
  /\ pc \in Place
  /\ usage \in [Bucket -> 0 .. Ceiling]
  /\ marks \subseteq Bucket \X {"warn", "converge", "exhausted"}
  /\ since \in Nat /\ pending \in Nat
  /\ attempt \in 0 .. MaxRetries /\ chatAt \in {"idle", "send", "wire"}
  /\ voices \subseteq 0 .. MaxRetries
  /\ wrapUp \in BOOLEAN /\ wrapMs \in 0 .. WrapUpMs
  /\ ignored \in 0 .. MaxWrapUpIgnoredTurns
  /\ empties \in 0 .. MaxEmptyRecoveries
  /\ wakeups \in 0 .. MaxJobCompletionWakeups
  /\ notices \in 0 .. MaxNotices
  /\ batch \in 0 .. MaxBatch /\ worked \in BOOLEAN /\ round \in 0 .. 1
  /\ stop \in BOOLEAN /\ fired \in BOOLEAN /\ budgetAborted \in BOOLEAN
  /\ saved \in CheckpointType
  /\ outcome \in Outcome /\ life \in 1 .. MaxLives
  /\ sent \in 0 .. Ceiling /\ elapsed \in 0 .. MaxElapsed /\ turns \in 0 .. TurnsAllowed + 1

(* However requests are retried, broken off, cancelled or made for a summary or a *)
(* review, each is charged or about to be, and each unit of time is charged once:  *)
(* settleBudget moves the mark it charges from.                                     *)
RequestsAccounted ==
  /\ sent <= usage["modelCalls"] + pending
  /\ elapsed = usage["activeMs"] + since

(* A turn begins with all earlier requests in the checkpoint, so a crash forgets   *)
(* one turn's at most; a loop that ended has them all there, whichever way it left, *)
(* and one the budget ended is exhausted for the life that resumes it.              *)
CheckpointComplete ==
  /\ pc \in {"boundary", "over"} => saved.usage = usage /\ saved.marks = marks
  /\ pc = "over" => sent <= saved.usage["modelCalls"] /\ elapsed = saved.usage["activeMs"]
  /\ outcome = "budget" => \E b \in Bucket : <<b, "exhausted">> \in saved.marks

(* After the budget is spent the model gets so many turns and no more: tool calls, *)
(* empty answers and job notices together cannot keep the loop going.              *)
WrapUpBounded == turns <= TurnsAllowed

(* What is said to the user in one model call comes from one request: a request is *)
(* never repeated after some of its answer was passed on.                           *)
OneVoice == Cardinality(voices) <= 1

StartsTool == pc # "tool" /\ pc' = "tool"

(* No tool begins once the requests really made, or the time really spent, have     *)
(* reached the limit - failed attempts, summaries and reviews included.             *)
NoToolPastBudget ==
  [][StartsTool => sent < Limit["modelCalls"] /\ elapsed < Limit["activeMs"]]_vars

(* After the user's stop nothing is sent, no tool begins and the Run does not *)
(* complete, wherever the stop found the loop.                                 *)
StopIsFinal ==
  [][stop /\ stop' => /\ sent' = sent /\ ~StartsTool
                      /\ (outcome' = "completed" => outcome = "completed")]_vars

(* The loop has no limit of turns, and ends: the budget is spent some day, and what *)
(* is allowed after it is bounded.                                                   *)
LoopEnds == pc \in Running ~> pc \notin Running
=============================================================================
