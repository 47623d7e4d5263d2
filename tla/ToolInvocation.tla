--------------------------- MODULE ToolInvocation ---------------------------
(***************************************************************************)
(* The tool pipeline of one Run: the handler `invokeToolCall` of           *)
(* runtime/tool-invocation/process-manager.ts, driven by the tool batch    *)
(* loop of runtime/agent.ts, with the side-effect guard                    *)
(* (runtime/side-effect.ts), the failure bookkeeping of the scratchpad     *)
(* (runtime/scratchpad.ts), the per-call deadline (util/timeout.ts) and    *)
(* the checkpoint file the guard survives a crash in                       *)
(* (runtime/agent-context.ts, persistence/file-checkpoint-store.ts).       *)
(*                                                                         *)
(* JavaScript runs to completion between two awaits, so a step here is a   *)
(* stretch of code between two points another actor can observe: an await, *)
(* a write of the checkpoint file, the start or the end of a tool.         *)
(* Tools whose evidenceKind is "check" take their identity from the        *)
(* execution-evidence store and are outside this module.                   *)
(***************************************************************************)
EXTENDS Naturals

CONSTANTS
  Call,          \* distinct tool calls: a tool with normalised arguments
  Operation,     \* canonical operation keys
  OperationOf,   \* operationIdentity: Call -> Operation (aliases share a key)
  NonIdempotent, \* calls whose resolved effect is non_idempotent
  NetworkCall,   \* calls of tools with capabilities.network
  NoCall,        \* no tool call in flight
  MaxRetry,      \* MAX_RETRY of process-manager.ts
  MaxResumes,    \* bound: how often the Run is resumed
  StorageFaults, \* may a checkpoint write fail? the answers to consider
  Modes          \* network modes the setting takes in this instance

ASSUME ConstantsAssumption ==
  /\ OperationOf \in [Call -> Operation]
  /\ NonIdempotent \subseteq Call
  /\ NetworkCall \subseteq Call
  /\ NoCall \notin Call
  /\ MaxRetry \in Nat
  /\ MaxResumes \in Nat
  /\ StorageFaults \subseteq BOOLEAN
  /\ Modes \subseteq {"on", "ask", "off"} /\ Modes # {}

VARIABLES
  run,           \* the agent loop: "active", "throwing" (an error unwinds), "down"
  aborted,       \* the Run's AbortSignal
  network,       \* the global network mode
  phase,         \* lifecycle phase of the invocation in flight, "idle" between calls
  call,          \* the call in flight
  attempt,       \* attempts started for it
  deadline,      \* its derived deadline signal
  exec,          \* the attempt: not started, entering the tool, in it, or the caught error
  answers,       \* tool messages pushed for the call
  guard,         \* side-effect guard, in memory
  failures,      \* scratchpad.failedSteps: retries recorded per call
  invalidSteps,  \* scratchpad.invalidSteps
  saved,         \* a checkpoint file exists
  diskGuard, diskFailures, diskInvalid,  \* its contents
  resumes,       \* resumes so far (bound)
  faulty,        \* checkpoint writes may fail in this behaviour
  starts,        \* history: how often a non-idempotent operation was really started
  returned       \* history: non-idempotent operations whose tool has returned

invocation == <<phase, call, attempt, deadline, exec, answers>>
memory     == <<guard, failures, invalidSteps>>
disk       == <<saved, diskGuard, diskFailures, diskInvalid>>
history    == <<starts, returned>>
world      == <<network, resumes, faulty>>
vars       == <<run, aborted, invocation, memory, disk, history, world>>

-----------------------------------------------------------------------------
(* state-machine.ts *)

TERMINAL_PHASES ==
  {"succeeded", "invalid", "invalid_result", "denied", "replayed", "uncertain",
   "blocked", "failed", "timed_out", "aborted"}

Phase ==
  TERMINAL_PHASES \cup
  {"idle", "received", "parsed", "resolved", "validated", "authorization_pending",
   "authorized", "effect_checked", "intent_persisting", "intent_persisted",
   "executing", "dependency_preparation", "retry_wait"}

ALLOWED_TRANSITIONS ==
  [p \in Phase |->
     CASE p = "received" -> {"parsed", "invalid"}
       [] p = "parsed" -> {"resolved", "invalid"}
       [] p = "resolved" -> {"validated", "invalid"}
       [] p = "validated" -> {"authorization_pending", "authorized"}
       [] p = "authorization_pending" -> {"authorized", "denied", "aborted"}
       [] p = "authorized" -> {"effect_checked"}
       [] p = "effect_checked" -> {"intent_persisting", "executing", "replayed",
                                   "uncertain", "blocked", "failed", "aborted"}
       [] p = "intent_persisting" -> {"intent_persisted", "failed", "aborted"}
       [] p = "intent_persisted" -> {"executing", "aborted"}
       [] p = "executing" -> {"succeeded", "invalid_result", "denied", "uncertain",
                              "failed", "timed_out", "aborted",
                              "dependency_preparation", "retry_wait"}
       [] p = "dependency_preparation" -> {"retry_wait", "failed", "uncertain", "aborted"}
       [] p = "retry_wait" -> {"executing", "failed", "aborted"}
       [] OTHER -> {}]

-----------------------------------------------------------------------------
GuardState == {"none", "executing", "succeeded", "uncertain"}
ToolError  == {"transient", "permanent", "missing_tool", "abort"}

op == OperationOf[call]
isNonIdempotent == call \in NonIdempotent

(* Variant for mutation: a record of any state is replayed. *)
DispositionAnyRecord ==
  IF isNonIdempotent /\ guard[op] \in {"executing", "succeeded"} THEN "replay"
  ELSE IF isNonIdempotent /\ guard[op] = "uncertain" THEN "uncertain" ELSE "start"

(* resolveOperation: what the guard says of the call in flight. *)
Disposition ==
  CASE ~isNonIdempotent -> "start"
    [] isNonIdempotent /\ guard[op] = "succeeded" -> "replay"
    [] isNonIdempotent /\ guard[op] \in {"executing", "uncertain"} -> "uncertain"
    [] OTHER -> "start"

isBlocked == failures[call] > MaxRetry \/ call \in invalidSteps

effectiveRetries == IF isNonIdempotent THEN 0 ELSE MaxRetry

needsNetworkApproval == network = "ask" /\ call \in NetworkCall
networkRefused == network = "off" /\ call \in NetworkCall

(* The guard after a failed, timed out or cancelled execution. *)
GuardMarkedUncertain ==
  IF isNonIdempotent THEN [guard EXCEPT ![op] = "uncertain"] ELSE guard

(* deadline.dispose() when the tool settles: an armed signal goes inert. *)
Disposed == IF deadline = "armed" THEN "inert" ELSE deadline

(* save(): one atomic file write of the state the step leaves; it throws on a fault. *)
Save(ok) ==
  /\ ok \/ faulty
  /\ IF ok
     THEN /\ saved' = TRUE
          /\ diskGuard' = guard'
          /\ diskFailures' = failures'
          /\ diskInvalid' = invalidSteps'
     ELSE UNCHANGED disk

ThrowUnless(ok) == run' = IF ok THEN run ELSE "throwing"

NoInvocation ==
  /\ phase' = "idle" /\ call' = NoCall /\ attempt' = 0
  /\ deadline' = "none" /\ exec' = "none" /\ answers' = 0

EmptyMemory ==
  /\ guard' = [o \in Operation |-> "none"]
  /\ failures' = [c \in Call |-> 0]
  /\ invalidSteps' = {}

-----------------------------------------------------------------------------
Init ==
  /\ run = "active" /\ aborted = FALSE
  /\ network \in Modes
  /\ phase = "idle" /\ call = NoCall /\ attempt = 0
  /\ deadline = "none" /\ exec = "none" /\ answers = 0
  /\ guard = [o \in Operation |-> "none"]
  /\ failures = [c \in Call |-> 0]
  /\ invalidSteps = {}
  /\ saved = FALSE
  /\ diskGuard = guard /\ diskFailures = failures /\ diskInvalid = {}
  /\ resumes = 0 /\ faulty \in StorageFaults
  /\ starts = [o \in Operation |-> 0]
  /\ returned = {}

-----------------------------------------------------------------------------
(* Before execution *)

(* Variant for mutation: throwIfAborted forgotten. *)
ReceiveUnchecked(c) ==
  /\ run = "active" /\ phase = "idle"
  /\ phase' = "received" /\ call' = c
  /\ UNCHANGED <<attempt, deadline, exec, answers, run, aborted, memory, disk, history, world>>

(* The batch loop takes the next call: throwIfAborted has passed. *)
Receive(c) ==
  /\ run = "active" /\ phase = "idle" /\ ~aborted
  /\ phase' = "received" /\ call' = c
  /\ UNCHANGED <<attempt, deadline, exec, answers, run, aborted, memory, disk, history, world>>

(* Parse, resolve, schema validation: one passes ... *)
PassCheck ==
  /\ run = "active"
  /\ \/ phase = "received" /\ phase' = "parsed"
     \/ phase = "parsed" /\ phase' = "resolved"
     \/ phase = "resolved" /\ phase' = "validated"
  /\ UNCHANGED <<call, attempt, deadline, exec, answers, run, aborted, memory, disk,
                 history, world>>

(* ... or fails, and pushToolCallError answers the model. *)
FailCheck(ok) ==
  /\ run = "active"
  /\ phase \in {"received", "parsed", "resolved"}
  /\ phase' = "invalid" /\ answers' = answers + 1
  /\ UNCHANGED <<call, attempt, deadline, exec, aborted, memory, history, world>>
  /\ Save(ok) /\ ThrowUnless(ok)

Authorize ==
  /\ run = "active" /\ phase = "validated"
  /\ phase' = IF needsNetworkApproval THEN "authorization_pending" ELSE "authorized"
  /\ UNCHANGED <<call, attempt, deadline, exec, answers, run, aborted, memory, disk,
                 history, world>>

ApprovalGranted ==
  /\ run = "active" /\ phase = "authorization_pending"
  /\ phase' = "authorized"
  /\ UNCHANGED <<call, attempt, deadline, exec, answers, run, aborted, memory, disk,
                 history, world>>

(* Denied or timed out: the checkpoint is written before the message is pushed. *)
ApprovalDenied(ok) ==
  /\ run = "active" /\ phase = "authorization_pending"
  /\ phase' = "denied"
  /\ answers' = IF ok THEN answers + 1 ELSE answers
  /\ UNCHANGED <<call, attempt, deadline, exec, aborted, memory, history, world>>
  /\ Save(ok) /\ ThrowUnless(ok)

CheckEffect ==
  /\ run = "active" /\ phase = "authorized"
  /\ phase' = "effect_checked"
  /\ UNCHANGED <<call, attempt, deadline, exec, answers, run, aborted, memory, disk,
                 history, world>>

(* Replay, refusal of an operation of unknown outcome, refusal of a call that *)
(* failed too often: the model gets a message, no checkpoint is written.      *)
AnswerWithoutRunning(outcome) ==
  /\ run = "active" /\ phase = "effect_checked"
  /\ phase' = outcome /\ answers' = answers + 1
  /\ UNCHANGED <<call, attempt, deadline, exec, run, aborted, memory, disk, history, world>>

Replay == AnswerWithoutRunning("replayed") /\ Disposition = "replay"

RefuseUncertain == AnswerWithoutRunning("uncertain") /\ Disposition = "uncertain"

RefuseBlocked == AnswerWithoutRunning("blocked") /\ Disposition = "start" /\ isBlocked

MayStart == phase = "effect_checked" /\ Disposition = "start" /\ ~isBlocked

(* A non-idempotent call records "executing" ... *)
BeginIntent ==
  /\ run = "active" /\ MayStart /\ isNonIdempotent
  /\ phase' = "intent_persisting"
  /\ guard' = [guard EXCEPT ![op] = "executing"]
  /\ UNCHANGED <<call, attempt, deadline, exec, answers, run, aborted, failures,
                 invalidSteps, disk, history, world>>

(* Variant for mutation: the tool starts although nothing was written. *)
PersistIntentUnsaved(ok) ==
  /\ run = "active" /\ phase = "intent_persisting" /\ ok
  /\ phase' = "intent_persisted"
  /\ UNCHANGED <<call, attempt, deadline, exec, answers, run, aborted, memory, disk,
                 history, world>>

(* ... and must have it on disk before the tool starts. *)
PersistIntent(ok) ==
  /\ run = "active" /\ phase = "intent_persisting"
  /\ phase' = IF ok THEN "intent_persisted" ELSE "failed"
  /\ UNCHANGED <<call, attempt, deadline, exec, answers, aborted, memory, history, world>>
  /\ Save(ok) /\ ThrowUnless(ok)

-----------------------------------------------------------------------------
(* Execution *)

ReadyToExecute ==
  \/ MayStart /\ ~isNonIdempotent
  \/ phase \in {"intent_persisted", "retry_wait"}

(* One deadline is created for the call, before the retry loop. *)
StartAttempt ==
  /\ run = "active" /\ ReadyToExecute
  /\ phase' = "executing" /\ exec' = "entering"
  /\ attempt' = attempt + 1
  /\ deadline' = IF attempt > 0 THEN deadline
                 ELSE IF aborted THEN "cancelled" ELSE "armed"
  /\ UNCHANGED <<call, answers, run, aborted, memory, disk, history, world>>

EnterTool ==
  /\ run = "active" /\ exec = "entering" /\ ~networkRefused
  /\ exec' = "running"
  /\ starts' = IF isNonIdempotent THEN [starts EXCEPT ![op] = @ + 1] ELSE starts
  /\ UNCHANGED <<phase, call, attempt, deadline, answers, run, aborted, memory, disk,
                 returned, world>>

(* NetworkDeniedError from tools.execute: the tool body never ran. *)
NetworkDenied(ok) ==
  /\ run = "active" /\ exec = "entering" /\ networkRefused
  /\ phase' = "denied" /\ exec' = "none" /\ deadline' = Disposed
  /\ answers' = IF ok THEN answers + 1 ELSE answers
  /\ UNCHANGED <<call, attempt, aborted, memory, history, world>>
  /\ Save(ok) /\ ThrowUnless(ok)

(* The tool returned. The guard is updated before the result is validated; *)
(* the message is pushed before the checkpoint, whose failure lands in the *)
(* catch handler of the same attempt.                                      *)
ToolReturns(valid, ok) ==
  /\ run = "active" /\ exec = "running"
  /\ deadline' = Disposed
  /\ guard' = IF isNonIdempotent THEN [guard EXCEPT ![op] = "succeeded"] ELSE guard
  /\ returned' = IF isNonIdempotent THEN returned \cup {op} ELSE returned
  /\ failures' = IF valid THEN [failures EXCEPT ![call] = 0] ELSE failures
  /\ invalidSteps' = IF valid THEN invalidSteps ELSE invalidSteps \cup {call}
  /\ answers' = answers + 1
  /\ Save(ok)
  /\ IF ok
     THEN /\ phase' = IF valid THEN "succeeded" ELSE "invalid_result"
          /\ exec' = "none"
     ELSE /\ phase' = phase
          /\ exec' \in {"transient", "permanent"}
  /\ UNCHANGED <<call, attempt, run, aborted, starts, world>>

(* The tool threw; an AbortError only after its own signal was aborted. *)
ToolThrows(error) ==
  /\ run = "active" /\ exec = "running"
  /\ error = "abort" => deadline \in {"cancelled", "timeout"}
  /\ exec' = error /\ deadline' = Disposed
  /\ UNCHANGED <<phase, call, attempt, answers, run, aborted, memory, disk, history, world>>

-----------------------------------------------------------------------------
(* The catch handler, branch by branch in the order of the code *)

Catching == run = "active" /\ exec \in ToolError
timedOut == phase = "executing" /\ deadline = "timeout"

(* Variant for mutation: the model is not told of the timeout. *)
CatchTimeoutSilent(ok) ==
  /\ Catching /\ timedOut
  /\ guard' = GuardMarkedUncertain
  /\ phase' = IF isNonIdempotent THEN "uncertain" ELSE "timed_out"
  /\ exec' = "none"
  /\ UNCHANGED <<call, attempt, deadline, answers, aborted, failures, invalidSteps,
                 history, world>>
  /\ Save(ok) /\ ThrowUnless(ok)

CatchTimeout(ok) ==
  /\ Catching /\ timedOut
  /\ guard' = GuardMarkedUncertain
  /\ phase' = IF isNonIdempotent THEN "uncertain" ELSE "timed_out"
  /\ exec' = "none"
  /\ answers' = IF ok THEN answers + 1 ELSE answers
  /\ UNCHANGED <<call, attempt, deadline, aborted, failures, invalidSteps, history, world>>
  /\ Save(ok) /\ ThrowUnless(ok)

(* RequiredRuntimeToolUnavailableError: the Host may install the tool. *)
CatchMissingTool ==
  /\ Catching /\ ~timedOut /\ exec = "missing_tool" /\ phase = "executing"
  /\ phase' = "dependency_preparation"
  /\ UNCHANGED <<call, attempt, deadline, exec, answers, run, aborted, memory, disk,
                 history, world>>

(* Prepared, refused or broken: the call still fails, as a policy error. *)
PreparationSettles ==
  /\ Catching /\ phase = "dependency_preparation" /\ exec = "missing_tool"
  /\ exec' = "permanent"
  /\ UNCHANGED <<phase, call, attempt, deadline, answers, run, aborted, memory, disk,
                 history, world>>

(* Cancellation: checkpoint, then rethrow. No message, no recorded failure. *)
CatchAbort(ok) ==
  /\ Catching /\ ~timedOut /\ exec = "abort"
  /\ guard' = GuardMarkedUncertain
  /\ phase' = IF isNonIdempotent THEN "uncertain" ELSE "aborted"
  /\ exec' = "none" /\ run' = "throwing"
  /\ UNCHANGED <<call, attempt, deadline, answers, aborted, failures, invalidSteps,
                 history, world>>
  /\ Save(ok)

willRetry == exec = "transient" /\ attempt <= effectiveRetries

CatchFailure(ok) ==
  /\ Catching /\ ~timedOut /\ exec \in {"transient", "permanent"}
  /\ guard' = GuardMarkedUncertain
  /\ failures' = [failures EXCEPT ![call] = @ + 1]
  /\ exec' = "none"
  /\ phase' = IF ~ok THEN phase
              ELSE IF willRetry THEN "retry_wait"
              ELSE IF isNonIdempotent THEN "uncertain" ELSE "failed"
  /\ answers' = IF ok /\ ~willRetry THEN answers + 1 ELSE answers
  /\ UNCHANGED <<call, attempt, deadline, aborted, invalidSteps, history, world>>
  /\ Save(ok) /\ ThrowUnless(ok)

Return ==
  /\ run = "active" /\ phase \in TERMINAL_PHASES
  /\ NoInvocation
  /\ UNCHANGED <<run, aborted, memory, disk, history, world>>

-----------------------------------------------------------------------------
(* The agent loop around the pipeline, the user, timers, crashes *)

(* Run stop: the abort listener of an armed deadline fires with it. *)
Stop ==
  /\ run # "down" /\ ~aborted
  /\ aborted' = TRUE
  /\ deadline' = IF deadline = "armed" THEN "cancelled" ELSE deadline
  /\ UNCHANGED <<run, phase, call, attempt, exec, answers, memory, disk, history, world>>

DeadlineFires ==
  /\ run = "active" /\ exec = "running" /\ deadline = "armed"
  /\ deadline' = "timeout"
  /\ UNCHANGED <<run, aborted, phase, call, attempt, exec, answers, memory, disk,
                 history, world>>

(* throwIfAborted at an iteration boundary or between two calls. *)
ThrowIfAborted ==
  /\ run = "active" /\ phase = "idle" /\ aborted
  /\ run' = "throwing"
  /\ UNCHANGED <<aborted, invocation, memory, disk, history, world>>

(* finish(): the model answered; the last checkpoint may still fail. *)
RunCompletes(ok) ==
  /\ run = "active" /\ phase = "idle"
  /\ IF ok THEN run' = "down" /\ EmptyMemory ELSE run' = "throwing" /\ UNCHANGED memory
  /\ ok \/ faulty
  /\ IF ok
     THEN /\ saved' = TRUE /\ diskGuard' = guard
          /\ diskFailures' = failures /\ diskInvalid' = invalidSteps
     ELSE UNCHANGED disk
  /\ UNCHANGED <<aborted, invocation, history, world>>

(* catch of runAgent: save the scene, let the Host settle the Run. *)
AgentCatch(ok) ==
  /\ run = "throwing"
  /\ run' = "down" /\ NoInvocation /\ EmptyMemory
  /\ ok \/ faulty
  /\ IF ok
     THEN /\ saved' = TRUE /\ diskGuard' = guard
          /\ diskFailures' = failures /\ diskInvalid' = invalidSteps
     ELSE UNCHANGED disk
  /\ UNCHANGED <<aborted, history, world>>

(* The process dies: what was only in memory is gone. *)
Crash ==
  /\ run # "down"
  /\ run' = "down" /\ NoInvocation /\ EmptyMemory
  /\ UNCHANGED <<aborted, disk, history, world>>

(* Variant for mutation: the guard of the resumed Run starts empty. *)
ResumeUnseeded ==
  /\ run = "down" /\ saved /\ resumes < MaxResumes
  /\ run' = "active" /\ aborted' = FALSE
  /\ failures' = diskFailures /\ invalidSteps' = diskInvalid
  /\ resumes' = resumes + 1
  /\ UNCHANGED <<guard, invocation, disk, history, network, faulty>>

(* RunLifecycleService.resume: guard and scratchpad are seeded from the file. *)
Resume ==
  /\ run = "down" /\ saved /\ resumes < MaxResumes
  /\ run' = "active" /\ aborted' = FALSE
  /\ guard' = diskGuard /\ failures' = diskFailures /\ invalidSteps' = diskInvalid
  /\ resumes' = resumes + 1
  /\ UNCHANGED <<invocation, disk, history, network, faulty>>

SetNetworkMode(m) ==
  /\ network' = m
  /\ UNCHANGED <<run, aborted, invocation, memory, disk, history, resumes, faulty>>

-----------------------------------------------------------------------------
Agent ==
  \/ \E c \in Call : Receive(c)
  \/ PassCheck \/ Authorize \/ CheckEffect
  \/ Replay \/ RefuseUncertain \/ RefuseBlocked
  \/ BeginIntent \/ StartAttempt \/ EnterTool
  \/ CatchMissingTool \/ Return \/ ThrowIfAborted
  \/ \E ok \in BOOLEAN :
       \/ FailCheck(ok) \/ PersistIntent(ok) \/ NetworkDenied(ok)
       \/ CatchTimeout(ok) \/ CatchAbort(ok) \/ CatchFailure(ok)
       \/ RunCompletes(ok) \/ AgentCatch(ok)

Tool ==
  \/ \E valid, ok \in BOOLEAN : ToolReturns(valid, ok)
  \/ \E error \in ToolError : ToolThrows(error)

Environment ==
  \/ ApprovalGranted
  \/ \E ok \in BOOLEAN : ApprovalDenied(ok)
  \/ PreparationSettles
  \/ Stop \/ DeadlineFires \/ Crash \/ Resume
  \/ \E m \in Modes : SetNetworkMode(m)

Next == Agent \/ Tool \/ Environment

Spec == Init /\ [][Next]_vars

(* The handler runs on; an approval request times out after 60 s; a tool that *)
(* sees its signal abort throws; a tool that does not return meets its        *)
(* deadline timer; a preparation dialog closes when the Run is stopped.       *)
(* Nothing else is fair: the tool may hang, the user may never answer.        *)
SignalledToolThrows ==
  /\ deadline \in {"cancelled", "timeout"}
  /\ \E error \in ToolError : ToolThrows(error)

Fairness ==
  /\ WF_vars(Agent)
  /\ WF_vars(\E ok \in BOOLEAN : ApprovalDenied(ok))
  /\ WF_vars(SignalledToolThrows)
  /\ WF_vars(DeadlineFires)
  /\ WF_vars(aborted /\ PreparationSettles)

FairSpec == Spec /\ Fairness

-----------------------------------------------------------------------------
(* Properties *)

InvocationType ==
  /\ run \in {"active", "throwing", "down"}
  /\ phase \in Phase
  /\ call \in Call \cup {NoCall}
  /\ phase # "idle" => call \in Call
  /\ attempt \in Nat
  /\ answers \in Nat
  /\ deadline \in {"none", "armed", "timeout", "cancelled", "inert"}
  /\ exec \in {"none", "entering", "running"} \cup ToolError
  /\ exec # "none" => phase \in {"executing", "dependency_preparation"}
  /\ exec \in {"entering", "running"} => phase = "executing"

MemoryType ==
  /\ guard \in [Operation -> GuardState]
  /\ failures \in [Call -> Nat]
  /\ invalidSteps \subseteq Call

DiskType ==
  /\ saved \in BOOLEAN
  /\ diskGuard \in [Operation -> GuardState]
  /\ diskFailures \in [Call -> Nat]
  /\ diskInvalid \subseteq Call

WorldType ==
  /\ aborted \in BOOLEAN
  /\ network \in Modes
  /\ resumes \in Nat
  /\ starts \in [Operation -> Nat]
  /\ returned \subseteq Operation

TypeOK == InvocationType /\ MemoryType /\ DiskType /\ WorldType

(* The core promise of side-effect.ts: whatever the model asks for again, and  *)
(* whatever crash and resume happen in between, a non-idempotent operation is  *)
(* really started at most once in the life of its Run.                         *)
AtMostOnce == \A o \in Operation : starts[o] <= 1

(* A replayed result is the result of a real return of that operation: no      *)
(* refused, cancelled or lost execution is ever replayed as a success.         *)
ReplayFaithful ==
  /\ phase = "replayed" => op \in returned
  /\ \A o \in Operation : diskGuard[o] = "succeeded" => o \in returned

(* A record that reached the checkpoint never disappears from it, although     *)
(* every later write replaces the whole file.                                  *)
RecordsPersist ==
  [][\A o \in Operation : diskGuard[o] # "none" => diskGuard'[o] # "none"]_vars

(* isBlocked stops a loop of failing identical calls: the retries recorded for *)
(* a call never exceed those of one call entered at the limit.                 *)
FailuresBounded == \A c \in Call : failures[c] <= 2 * MaxRetry + 1

(* The handler never asks its state machine for a transition that throws.      *)
LegalTransition ==
  [][\/ phase' = phase
     \/ phase = "idle" /\ phase' = "received"
     \/ phase' = "idle" /\ (phase \in TERMINAL_PHASES \/ run' = "down")
     \/ phase' \in ALLOWED_TRANSITIONS[phase]]_vars

(* Every call the handler returns from has exactly one tool message: the next  *)
(* model request would otherwise be rejected. A write that fails after the     *)
(* answer was pushed adds another one, so exactly one takes a working file; a  *)
(* cancelled call leaves by an exception and has none.                         *)
AnsweredOnce ==
  run = "active" /\ phase \in TERMINAL_PHASES => answers = 1 \/ (faulty /\ answers > 1)

(* A stopped Run gets out of the pipeline: no tool, approval or preparation    *)
(* keeps the agent from settling. Claimed outside automatically retried calls. *)
StopLeadsToExit ==
  (aborted /\ (phase = "idle" \/ isNonIdempotent)) ~> (run = "down" \/ ~aborted)

(* The pipeline implements the write-ahead ledger of OperationLedger: the      *)
(* checkpoint file is the log, starts and returns of tools its effects.        *)
Ledger ==
  INSTANCE OperationLedger WITH
    logged <- {o \in Operation : diskGuard[o] # "none"},
    performed <- starts,
    confirmed <- returned

ImplementsLedger == Ledger!Spec
=============================================================================
