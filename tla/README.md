# A TLA+ model of PayasoAgent

PayasoAgent is a coding agent: a runtime that lets a language model call tools in a
workspace, a local Host that keeps sessions and Runs in SQLite and serves a web UI over
HTTP and SSE, and a desktop shell around it. These modules model the parts in which order
matters: what happens when a Run is stopped while it waits, when the process dies between
two writes, when two Runs of a session share a registry, when four events race for one
decision, when a page loses its connection or an update fails half way. TLC checks them on small instances; TLAPS proves the main invariants for every
value of the constants. Paths below are relative to `src/src/` unless they start with
`src/`.

1. [The system](#the-system)
2. [The modules](#the-modules)
3. [Runs and bounds](#runs-and-bounds)
4. [Fairness](#fairness)
5. [What is proved](#what-is-proved)
6. [Disagreements between the code and its documentation](#disagreements-between-the-code-and-its-documentation)
7. [What is not modelled](#what-is-not-modelled)
8. [Plan](#plan)

## The system

One Node process runs everything: the event loop executes a handler until its next `await`,
so the interleavings are those of continuations, timers, signals and child processes, and
a crash may fall between any two writes. State lives in three places: memory, the SQLite
store (`host/persistence/sqlite-store.ts`) and one checkpoint file per Run
(`persistence/file-checkpoint-store.ts`).

### Inventory

| Component | State it keeps | Operations | Interacts with | What is hard | What makes it correct |
|---|---|---|---|---|---|
| **Tool invocation pipeline** `runtime/tool-invocation/`, `side-effect.ts`, `scratchpad.ts` | lifecycle phase of the call, attempts, deadline, side-effect guard, failure counts | validate, authorize, check effect, persist intent, execute, retry, prepare a missing tool, classify errors | agent loop, tools, checkpoint, approval, toolchain preparation | crash between intent and result, timeouts with a tool still running, stops in every await, failing checkpoint writes | a non-idempotent operation starts at most once; a replay is real; one tool message per call; a stop gets out |
| **Runtime checkpoint** `agent-context.ts`, `persistence/` | messages, guard, scratchpad, harness state of a Run | save (whole file, temporary file and rename), load, seed a new context | pipeline, lifecycle, `/compact` | every save replaces all of it; two writers | no record is lost; the file is never older than what was saved |
| **Run lifecycle** `host/run-lifecycle-service.ts`, `run-manager.ts` | active Run objects, cancelled flags, execution promises | create, start, stop, resume, finalize, force, close, scan at start | store, agent, sessions, events | stop against answer, failing finalization, crash at each write, shutdown caps | store and memory agree; one execution; a stop is honoured and settles |
| **Run store** `host/persistence/sqlite-store.ts` | rows of Runs, events with sequence numbers, sessions, workspaces | transactions | lifecycle, sessions, event stream | a transaction may fail; soft delete, restore, purge | final state and final event are one write |
| **Sessions and workspaces** `host/session-service.ts` | - (in the store) | archive, restore, delete, compact, purge | store, active Runs, jobs, checkpoints | checks before an `await`, partial clean-up | nothing runs in a session that is gone |
| **Background jobs** `sandbox/background-jobs.ts` | per session: jobs, output buffers, waiters, queue of notices | start, wait, list, kill, settle, drain, dispose | shell tool, agent loop, sessions | job outlives its Run; notice against answer; waiter races; full queue | every notice is told once; no lost waiter; stops and deletion reach every process |
| **Agent loop** `runtime/agent.ts`, harness policies | turn counter, budget, wakeups, wrap-up flags | ask the model, run the batch, inject notices, review, finish | all of the above | budget ends anywhere, empty answers, cancellation points | it ends; no answer while a notice is pending |
| **Toolchain preparation** `host/toolchain-preparation-coordinator.ts` | cards, shared installs | request, decide, cancel, time out, abort, install | pipeline, UI, installer | decision races, merged waiters, owner against others | one install, only if approved, everybody answered |
| **Network approval** `host/approval-coordinator.ts` | pending cards | request, resolve, time out | pipeline, UI | late answers, stopped Runs | fail closed, one answer |
| **Execution evidence** `runtime/execution-evidence-store.ts` | check records, pending invocations, read and mutation fingerprints | reserve, reuse, record, mark uncertain, invalidate, evict, restore | pipeline, check tools | stale results, full table, restore after a crash | only a settled, unchanged check is reused |
| **Model settings** `host/persistence/settings-store.ts`, `host/secrets/` | one row of SQLite, one keychain entry per provider | add, change, delete, set the default, migrate, import from the environment | routes, credential store | two stores without a transaction | a key is what the user was told; no key is lost |
| **LLM client** `llm/` | attempt counter, watchdogs | send, stream, retry | agent loop | a stream that breaks after it was used | nothing half-used is replayed |
| **Context harness** `harness/` | summary and its count, reminders, plan, execution budget | compose, shorten, compact, trim, observe, acknowledge | agent loop, `/compact`, later Runs of the session | summary and transcript are kept apart; a failed summary; reminders and their acknowledgement | what is hidden is what the summary stands for; no reminder is lost; the view fits |
| **Event stream** `host/event-stream-service.ts`, `src/web/src/hooks/useEventStream.ts` | live sinks per Run; the events a page shows | subscribe, publish, close; follow, load, forget | lifecycle, store, UI | reconnects, stale status answers, resumed Runs | no event is missing or doubled; in the end all are shown |
| **Web page** `src/web/src/App.tsx` | list of Runs, current session, queue of messages, POST in flight | open, leave, send, queue, dispatch, stop, resume, read the list | HTTP API, event stream | answers that come late, are lost or replace newer knowledge; what is asked only when an event says so | a queued message is sent when the session is free |
| **Shell and sandboxes** `sandbox/` | child processes, temporary access rights | spawn, limit, terminate | jobs, shell tool | process trees, signals | nothing survives its termination |
| **Desktop shell** `src/apps/desktop/` | backend process, update state | start, stop, check, download, install, roll back | backend, updater | checks that time out and answer later, a failing install after the backend stopped, quitting in the middle | the package is what its label says; the backend comes back; none is left behind |
| Tools, checks, attachments, HTTP, preview, trace, CLI, rest of the web UI | files, configuration, views | - | - | data and I/O | - |

Who calls whom: the UI posts to a route, the route calls `RunManager`, which delegates to the
lifecycle, session, approval and preparation services; the lifecycle service runs
`runAgent` as a promise and passes it an `AbortSignal` and ports (approval, preparation,
checkpoint writer, observer). The agent calls the pipeline for every tool call. The shared
mutable state is the store, the checkpoint files, the job registry and the tables of cards.
The web page talks to the Host over HTTP and SSE only, the desktop shell starts and stops
the Host as a child process.

`PROJECT.json` lists every component with its status, and under `hazards` what each is
exposed to, at the line where it bites, with the properties that would catch it.

## The modules

| Module | Models | Composes / implements |
|---|---|---|
| `ToolInvocation` | `invokeToolCall` with guard, scratchpad, deadline, checkpoint file and the agent steps around a call | implements `OperationLedger` |
| `OperationLedger` | the write-ahead ledger the guard promises | - |
| `ToolInvocationProofs` | theorems about `ToolInvocation` | extends it |
| `RunLifecycle` | `RunLifecycleService`, `RunManager.close`, the session operations that race with Runs, the store's transactions | implements `RunRecord` |
| `RunRecord` | what the stored status and events of a Run promise | - |
| `RunLifecycleProofs` | theorems about `RunLifecycle` | extends it |
| `BackgroundJobs` | the job registry, the Runs that use it, the agent's reading of notices, archive, delete and purge | registry x agent x session |
| `ToolchainPreparation` | the preparation coordinator with its installer | - |
| `ToolchainPreparationProofs` | theorems about `ToolchainPreparation` | extends it |
| `AgentLoop` | `runAgent`: turns, requests with their retries, budget, wrap-up, reviews, notices, watchdog | loop x request x watchdog |
| `AgentLoopProofs` | theorems about `AgentLoop` | extends it |
| `EvidenceStore` | the evidence store, the check branch of the pipeline, a workspace others write to | store x pipeline x guard |
| `EvidenceStoreProofs` | theorems about `EvidenceStore` | extends it |
| `ContextWindow` | pure: what of a transcript is hidden, shortened and trimmed before a request | - |
| `SessionContext` | transcript, summary and reminders over the Runs of a session, with `/compact` | extends `ContextWindow` |
| `EventStream` | the log, the live sink, the browser's `EventSource`, the page's hook, its list of Runs and its queue | Host x network x page |
| `DesktopUpdate` | the update flow, the backend bridge, the way out of the application | shell x updater x Host process |
| `SettingsStore` | model providers in SQLite and their keys in the credential store | two stores |
| `DeliveryProofs` | theorems about `BackgroundJobs` and `EventStream`: what reaches a Run, what reaches a page | extends both |
| `DesktopProofs` | theorems about `SettingsStore` and `DesktopUpdate`: what the desktop keeps outside the Runs | extends both |
| `MC...` | instances for TLC | extend their module |

Two proof modules speak of two components each. The components share no variable, and no
theorem of one uses a fact of the other; so that both can be extended at once,
`EventStream` and `DesktopUpdate` prefix what every specification has (`StreamInit`,
`StreamNext`, `UpdateSpec`, `updateVars`).

Conventions. A definition has the name of the function, state or constant it translates;
`PROJECT.json` `map` gives its lines. An action is a stretch of code between two points at
which somebody else can act or look: an `await`, a write that a crash may follow, the start
or end of a tool or process. History variables (marked in the modules) record what
properties speak about and guards never read them. Definitions introduced by "Variant for
mutation" are used by no run; each replaces one mapped definition to show that a property
would notice the mistake.

### ToolInvocation

State: the phase of `state-machine.ts` (`phase`, "idle" between calls), the call and its
attempts, the derived deadline signal (`deadline`: armed, fired by its timer or by the Run's
stop, or inert after `dispose`), what the attempt is doing (`exec`), the guard and the failure
counts in memory and in the file, the Run's signal and the global network mode.

`Receive` is the batch loop handing over a call; `PassCheck` / `FailCheck` the parsing,
resolution and validation ladder; `Authorize`, `ApprovalGranted`, `ApprovalDenied` the
network gate; `Replay`, `RefuseUncertain`, `RefuseBlocked` the answers without running;
`BeginIntent` and `PersistIntent` the write-ahead record; `StartAttempt`, `EnterTool`,
`NetworkDenied`, `ToolReturns`, `ToolThrows` the attempt; `CatchTimeout`,
`CatchMissingTool`, `PreparationSettles`, `CatchAbort`, `CatchFailure` the catch ladder in
the order of the code; `Return`, `ThrowIfAborted`, `RunCompletes`, `AgentCatch` the agent.
`Stop`, `DeadlineFires`, `SetNetworkMode`, `Crash`, `Resume` are the environment. A parameter
`ok` is whether the checkpoint write of the step succeeds; a failed one throws where the
code lets it (`ThrowUnless`).

### RunLifecycle

State: rows, last lifecycle event and session state (the store), one checkpoint state per
Run, the active objects (`mem`, `cancelled`, `chains` for unsettled execution promises) and the
Host itself. Handlers with two writes are two steps, with `doing` holding the second, so that
a crash can fall between them and nothing else can. `startAgent` is the start of the execution,
`agentSettles` the `then`/`catch` of its promise with `outcome` as its decision table,
`finalizeRun` the transaction with the memory update after it, `forceFinish` and `closed` the
capped waits of `close`. `Crash`, `Boot`, `interrupt`, `appendInterrupted`, `opened` are the
restart and its scan.

### BackgroundJobs

`Run` has one member per execution (a resumed Run has a new signal and is a new member).
A job settles in one callback and notifies in a later one (`jobSettles`, `jobNotifies`), which
is where the agent's last look (`injectJobNotifications` in `ModelAnswers`) can come between.
After that look an answer is given at once, or is `"reviewing"` while the final review calls the
model; `ReviewSettles` gives it without looking again (`agent.ts:760`-`:840`), and what notified
meanwhile is in the history `unwatched`. `waitForBackgroundJob` is `waitBegins` plus the three
ways to be released.

### ToolchainPreparation

One package, because requests for different packages share nothing. An owner's request is
card, decision promise, install promise and table entry, each with its own step
(`RequestOwned`, `Approve`/`Deny`/`Cancel`/`TimeOut`/`Stop`/`Close`, `InstallStarts`/
`NotInstalled`/`InstallerSettles`, `Forget`, `OwnerAnswered`); a merged request awaits the
owner's promise (`RequestMerged`, `MergedAnswered`) and leaves on its own stop.

### AgentLoop

One Run. `pc` is where `runAgent` awaits: preparing a turn (a summary may be asked for),
asking, running the batch, reviewing a draft. `Loop` is what the loop does
by itself (`StartTurn`, `AskModel`, `SendRequest`, `StartTool`, `SkipTool`, `EndBatch`,
`OverBudget`), `Provider` how a request on the wire ends, in a retry, a failure, a summary,
tool calls, an empty, final or draft answer or a review (`llm.ts`), `Tool` how a tool ends;
`Catch` is the one catch of `runAgent`. A request that was sent is
in `pending` until `Settle` (`settleBudget`) charges it. `Hear` passes a piece of an answer
on, `Tick` lets time pass, `WatchdogFires` is the
interval that aborts the current section when the time is spent, `Stop` the user's stop,
`JobCompletes` a background job. `Resume` begins a new life from the checkpoint, after a
crash anywhere or an end that was no completion, with everything a turn counts in memory
forgotten.

### EvidenceStore

`Check` are the checks, of which `Closed` are fingerprinted (the linters whose input is
known), the others have no identity and run again. A call goes through the branches of
`process-manager.ts`: first fingerprint, decision (`Reuse`, `LogsLost`, `NoIdentity`,
`Guarded`, `Blocked`, `Begin`), the guard's record, execution, second fingerprint, result.
The workspace is a version number. A tool's write may be reported (`recordMutations`) or not;
others write at any time, and what they write is new. Records are evicted at the
limit. `open`, `executed`, `touched` and `outdated` are history: which executions
have not ended, which ids were executed, and which records were settled before a write that is
under way or that ended. What was written stays written, so `Resume`,
which goes back to the checkpoint, takes none of them back.

### ContextWindow and SessionContext

`ContextWindow` has no state: a message is a role and a number of tokens, and its
operators are what `buildModelView`, `projectToolResults`, `trimMessages`, `trimCurrentTurn`
and `resolveCompactionThresholds` compute. `SessionContext` uses them in a session: a Run
holds transcript, summary count and pending reminders in memory and saves them together;
`Inherited` is `conversationHistory`, folded over the Runs before a new one. The text of a
summary is the sequence of messages it was made from (`covers`), so that an invariant can
compare it with what the count hides. The preparation of a turn is one step: nothing of
the session changes while its summary is awaited, as one Run executes at a time.

### EventStream

`log` and `runStatus` are the store's, for the latest Run of a session (`turn`); `sink` is
whether the Host writes to the connection of the page, `wire` what was written and not
dispatched. `es`, `lastEventId`, `failedAttempts` are the browser's `EventSource` and
`connectSSE`; `lastSeq`, `pending`, `events`, `loaded` the hook's. What the page knows of
the session (`shown`, `known`) comes from `GET /runs`: `wanted` are the requests the Host has
not read, `answers` what it read, which may arrive late and out of order or fail. `Effect`
is the effect of the hook, run when a Timeline comes onto the page (`MountTimeline`) or what
the page believes of its Run changes between active and ended (`RunsArrive`). A message sent
while the session is busy is `queued`; `Dispatch` posts the first one when the page sees the
Run ended, and `post` is that POST until the page has its answer. Only the
latest Run has a log; the Timeline of an earlier one that the page still lists as running
replays it (`ReplayEarlier`). One page: sinks share nothing.

### DesktopUpdate

The three promises of the flow (`checking`, `interacting`, `acting`) are variables; each action
is the stretch up to the next `await`. A check that ran into its time limit is
`overdue`: it keeps running in electron-updater and may answer later. `backend`,
`intended`, `owns` are the bridge to the Host process. Dialogs, the updater, the installer
and the Host process are the environment.

### SettingsStore

Each operation is synchronous and has two halves, key first and row second; `doing` is what
is between them, and only the second half, its failure or a crash can follow. The opening is
in steps too: `Open` reads the row, `DeleteBuiltin` deletes the keys of the built-in templates
one by one (or fails to), `RemoveBuiltins` writes the row without them, `MoveKey` and
`FinishMigration` move keys in plain text, `importEnvFallback` takes the environment's. `Init` is
a new database or any row and any keys of `Legacy`: keys in plain text whatever `hasKey` says,
an `Empty` key field, a row that speaks of a key nobody has, a key no row speaks of, a default
that lacks its provider, its key or its model. `may` is what the user can believe the key of a
provider to be; `Promised` is where it starts, with `Lost` for a key an old row speaks of and
neither store has. `Repaired` is the model `readSettings` puts in place of one that left the
catalog. It is applied once, at the start: `InCatalog`, a part of the proved invariant, says that
it changes nothing after that.

## Runs and bounds

| Run | Expect | Instance | Shows |
|---|---|---|---|
| `pipeline` | pass | one shell command asked for twice (with another timeout: `alias`) and one network read; network modes change; one crash and resume; with and without failing checkpoint writes; 2 retries | `AtMostOnce`, `ReplayFaithful`, `AnsweredOnce`, refinement of `OperationLedger`, `StopLeadsToExit` |
| `run_lifecycle` | pass | two turns of one session, one crash, one resume, failing transactions | `StoreAgreesWithMemory`, `OneExecution`, `ArchivedIsQuiet`, `StopIsHonoured`, `StopSettles`, refinement of `RunRecord` |
| `stale_compaction` | violation | two turns, one resume, no faults | `NoLostCheckpoint` fails |
| `background_jobs` | pass | two executions, two jobs; one job at a time, one notice pending, one wakeup | notices, waiters, stops, deletion; answers with and without a review (258,000 states) |
| `toolchain_preparation` | pass | three calls of three Runs | one install, withdrawals, shared answers, liveness |
| `agent_loop` | pass | two lives, a budget of two requests, two tokens and one tick, one retry, batches of one call, two ticks, one notice | requests charged once, wrap-up bounded, a half-used answer never asked again, a stop is final, the loop ends |
| `evidence` | pass | a linter and a test process, two call ids, two records, two turns, two lives, one reported version (4.0 million states) | no stale answer, unresolved checks kept and not run again, nothing outdated called verified |
| `desktop_update` | pass | two versions, two checks that time out | package and label, no orphan Host, the Host comes back |
| `event_stream` | pass | two Runs with four events each, one crash, one resume, two failed connections, two answers on their way (218,000 states) | a beginning of the log is shown, in the end all of it, and a queued message is sent |
| `stop_unnoticed` | violation | the same without crash and resume | `QueueMovesAfterStop` fails |
| `settings` | pass | three ids (one of a built-in template), two URLs, two models, two keys, one crash, the two other ids symmetric; a new database or one of five old ones (1.2 million states) | the key is what the user was told; no key is lost; a usable default stays usable |
| `session_context` | pass | two Runs, window of 12 tokens, seven messages, four of a Run, results of 1 or 5, one resume | summary and hidden part agree, reminders are kept |

Why these are enough to be interesting. The guard works per operation key, so two calls that
share a key and one that has none reach every branch of `Disposition`; one crash with one resume
gives a second life, and a second resume finds the same disk states. `faulty` chooses at
the start whether checkpoint writes may fail: `AnsweredOnce` and the liveness properties speak
of the instances where they cannot. Two Runs of one session
are what archive, delete, resume and create race for; Runs of different sessions share no
variable. With limits of one, two jobs reach the full registry and the full queue.
Three calls give an owner, a merged call and a latecomer that finds the table full or
empty. A budget of two requests and one tick is passed in every place a request or a tool can pass it,
and a second life shows what the checkpoint does not know. Two records make the table full
when a third is asked for, two versions make a result stale. The five old databases of
`MCSettingsStore` have each of the oddities named above at least once, those of
`settings-migration.test.ts` among them; the theorems speak of any. In the small window a turn
with two long results is over it, summaries are asked for, inherited by the second Run and
by a resume of the first; the emergency trim and the refusal occur (an instance of three
Runs with shorter transcripts was checked too: 2.9 million states). Two failed
first connections make a page give up; two Runs are enough for a queue, for an answer read
before a Run was created and for one that arrives after the next has begun. `CHECK_DEADLOCK FALSE` is set where
the system may stop: the bounded inputs run
out, or a Run has ended and nobody resumes it.

Every property of a passing run has a mutant in `PROJECT.json`: a plausible mistake in one
mapped definition under which TLC finds the property violated. Type invariants are theorems
in every module and no run repeats them; the same holds for `RestoredBeforeError`,
`StatusHonest`, `OneSourceOperation` and `PackageKept` of `DesktopUpdate`,
`ConcurrencyBounded` of `BackgroundJobs` and `OneIdentity` of `EvidenceStore`. Each was checked by TLC before it was proved.

## Fairness

Only what the event loop or a timer guarantees.

- `ToolInvocation`: the handler's own continuations; the 60 s approval timer; a tool whose
  signal fired throws; the deadline timer of an attempt that has one; a preparation
  dialog of a stopped Run closes. Tools may hang and users may never answer.
  `StopLeadsToExit` excludes automatically retried calls, because their retries are
  unsupervised (the deadline is `"inert"`).
- `RunLifecycle`: a handler in progress finishes; an aborted execution settles; the timers
  of `close` fire; the scan of a start goes on. Users, crashes and answers are not fair.
- `BackgroundJobs`: callbacks run, timers fire, an aborted process ends (the sandbox
  escalates to SIGKILL); a job nobody aborts may run for ever.
- `ToolchainPreparation`: one weak fairness per call over its timer, its installer (which
  has a time limit of its own) and its continuations. Weak fairness of the disjunction is
  enough, since each of these steps happens at most once. Decisions of the user are not fair.
- `AgentLoop`: the loop's continuations, the provider (a request has its own watchdogs and
  time limit, `llm.ts`) and the tool (its deadline). Neither time, nor the budget's watchdog, nor the
  user is fair: the loop ends because its turns, requests and recoveries are bounded.
- `EventStream`: a Host that ended is started again, connections are retried, what was
  written or asked for arrives or fails, an effect that is due runs, a POST is answered.
  `Deliver` and `ReadRuns` are strongly fair, since a connection may break and answers may
  fill their bound again and again before anything gets through. Runs do not end by
  necessity and users are not fair. `QueueMoves` excuses what the page does not retry: a
  request that failed while the Host was down, a list without the Run, a resumed Run.
- `DesktopUpdate`: timeouts and the continuations after them only. No dialog is ever
  answered by necessity; the stop, the handover and the restart each
  have a time limit, and `BackendRestored` needs no more.

## What is proved

TLAPS checks these for all values of the constants, from the named assumption of each
module only; TLC evaluates that assumption in every run. The assumptions say what the code
says of its limits (a natural number, and positive where a first turn, life, record or
event exists), that the markers `None`, `NoVersion` and `Keep` are none of the values they
stand in for (`flow.ts:53`: `ready` is `null` or an object),
and, for `SettingsStore`, only the types of what an older version may have left. Most invariants a
run checks are not inductive; each proof module states the one that is, and the candidates
were checked with TLC on the instance of the run before they were proved.

`ToolInvocationProofs`

- `TypeCorrect`: `TypeOK` is inductive as it stands, split into the invocation, the
  memory, the file and the world.
- `AtMostOnceHolds`, `ReplayFaithfulHolds`: from `SideEffectInv`. `AtMostOnce` alone is not
  inductive: a step that starts a tool is safe only because the record on disk was
  written before, because every start has left a record (`StartsAreLogged`), because memory
  knows everything the file knows (`MemoryCoversDisk`) and the reverse holds where a crash
  matters (`DiskCoversMemory`), and because between `PersistIntent` and the start nobody
  else touches the operation (`BeforeTheTool`, `InTheTool`).
- `LedgerRefined`: the initial states and every step map to `OperationLedger` or a stutter,
  with the file as the log; `RecordsPersistHolds` follows from it.
- `FailuresBoundedHolds`: from `RetryInv`, which ties the counter to the attempt number.
- `LegalTransitionHolds`: an action property, from the type invariant and what each phase
  excludes (`Legal`).
- `AnsweredOnceHolds`: from `AnswerInv`, which adds that a call still in the handler has no
  tool message. That this fails when a checkpoint write throws after the message was
  added is in the invariant too: then, and only then, there may be a second one.

`RunLifecycleProofs`

- `LifecycleInv` adds to the checked invariants that a Host which is down or starting holds
  no object, that a running object is running in the store, and what the first half of a
  two-write handler leaves for the second (`HalfDone`). From it `LifecycleTypeCorrect`,
  `StoreAgreesWithMemoryHolds`, `OneExecutionHolds`, `ArchivedIsQuietHolds`.
- `StopIsHonouredHolds`: an action property from the same invariant.
- `RunRecordRefined`: every step is a step of `RunRecord` or a stutter.

`DeliveryProofs`, of `BackgroundJobs`

- `JobInv`: callbacks run only after a job has settled, a Run is active only in a live
  session, and a session not deleted still has its running jobs in the table. The last is
  what `StoppedRunAbortsItsJobs` lacks to be inductive: a stop, like the deletion, aborts
  what it finds in the table. From it `TypeCorrect` (with the bounds of the queue and of
  the wake-ups), `NoLostWaitHolds`, `StoppedRunAbortsItsJobsHolds`, and
  `ConcurrencyBoundedHolds`, from a count of the running jobs.
- `NoticeInv`: a notice is pending once, and only of a job whose callbacks have run. It makes
  `NoticesAccountedForHolds` inductive over a queue that is filled by jobs and emptied by
  Runs.
- `ReviewInv`: while the answer of a Run is under review, every job that notified was known
  when the draft was written (`DraftKnows`) or has notified since, or the queue refused it, or
  the Run may not be woken any more. With it `AnswersKnowTheJobsHolds`, an action property, is
  proved for answers given at once and for reviewed ones.

`ToolchainPreparationProofs`

- `PreparationInv` says of each call which parts exist in which stage: a card only
  beside an install on its way (`CardInv`), such an install only in the table with its
  owner waiting (`InstallInv`), an awaited install exists (`StageInv`). `OneInstall` alone
  is not inductive: it holds because whatever is on its way is the one entry of the
  table, which `Forget` clears only after the promise has resolved. From it
  `PreparationTypeCorrect`, `OneInstallHolds`, `OnlyApprovedHolds`,
  `WithdrawalArrivesHolds`, `OthersUnaffectedHolds`, `ToldTheOutcomeHolds`, for any finite
  set of calls.

`AgentLoopProofs`

- `Inv` adds to `TypeOK`, `RequestsAccounted` and `CheckpointComplete` where a request may be
  under way (`Placed`), that a usage at its limit is known as exhausted, in memory and in the
  file (`Leveled`), and how the turns after the budget are paid for, by ignored
  instructions, recoveries of empty answers and wake-ups (`Bounded`). From it `LoopTypeCorrect`,
  `RequestsAccountedHolds`, `CheckpointCompleteHolds` (whatever ended the life, its last
  checkpoint has every request and all the time), `WrapUpBoundedHolds`, `OneVoiceHolds`,
  `NoToolPastBudgetHolds`, and the action property `StopIsFinalHolds`, for every limit,
  every number of retries and every batch size.

`EvidenceStoreProofs`

- `TypeCorrect` has the limit of the table, through `IdentifiedTyping`: making room drops
  exactly one record before one is added.
- `EvidenceInv` says the same of memory (`MemoryInv`) and of the checkpoint (`SavedInv`): a
  settled record that is reusable was read at the version it was called for (`Sound`), and
  every execution that has not ended has a record that is not settled (`Remembers`). It
  adds what a check under way may rely on (`CheckInv`: its own pending record is on disk
  before it starts, and no other execution of that check is unresolved) and that what is
  reusable, in memory or in the checkpoint, was settled before no write that has ended
  (`VerifiedInv` for memory, `SavedInv` for the checkpoint, which a resume brings back while
  the history stays). `ReuseIsFresh`
  alone is not inductive: the record is sound when it settles only because of what
  the pipeline saw before the check began. From it `ReuseIsFreshHolds`,
  `UnresolvedKeptHolds`, `VerifiedIsCurrentHolds`, and the action properties
  `UnresolvedNotRerunHolds` and `OneIdentityHolds`, for any number of checks, versions,
  records and lives.

`DesktopProofs`, of `SettingsStore`

- `Inv` says what holds between the two halves of an operation: `PendingInv` is that it
  changes one provider only, keeps its promise if the row is written (`Promises`) and can put
  back something the user knows of if not; `MigrationInv` that the keys taken off the list
  are in the credential store already. The rest is what the two halves rely on:
  a row's story fits what the key may be (`StoryInv`, `KeyInv`), no key is in the row
  past the migration (`StartInv`), an id never given out has no key (`FreshInv`), the templates
  being removed are still in the row (`BuiltinInv`). `KeysAsAnswered` says
  nothing while the Host is down, so it cannot be inductive by itself. One lemma for
  first halves (`BeginStep`) and one for operations given up (`GiveUpStep`) carry most of
  it. From it `TypeCorrect`, `KeysAsAnsweredHolds` and `NoKeyLostHolds`, for any providers,
  keys, number of crashes and any row and keys of an older version.
- `DefaultStaysUsableHolds`, an action property: an old default may be one no Run can use,
  so that usability is no invariant. What is proved is that no step loses it, in the opening
  or in a request, and that a default which the import or a request changes is usable. It needs
  `DefaultInv`: the row an operation is about to write is as good as the one it found.

`SessionContextProofs`

- `Inv` says the same of a Run's memory and of every checkpoint (`Held`): the summary fits the
  transcript, somebody asked something in it (or a compaction could hide all of it), and
  what is owed is pending; while a request is under way, what is owed is in it. Three
  chains of lemmas carry it: the operators of `ContextWindow` (`RelievedKeepsRoles`,
  `KeptTurnsAreTurns`, `HiddenIsCounted`: the safety clamp of `buildModelView` never bites),
  a compaction (`CompactedAligned`), and what a new Run inherits (`InheritedDefined`, that
  the fold over the Runs is well defined, `ConversationAligned`). From it
  `SessionTypeCorrect`, `SummaryIsOfTheHiddenHolds` and `RemindersKeptHolds`, for every
  window, policy, number of Runs and length of transcript.

`DeliveryProofs`, of `EventStream`

- `StreamInv` adds to the types what connects the four places an event can be: the wire holds
  exactly what follows `lastEventId`, and reaches the end of the log while the sink
  is attached (`WireInv`); what is shown and what waits for the next frame are numbered
  from 1 without a gap, and while there is a source `lastSeq` is their number and the
  browser's `lastEventId` not beyond it; a snapshot is awaited only without a source and with
  nothing pending, and is never longer than the log (`ViewInv`). `ViewIsPrefix` alone is
  not inductive: that the event which arrives is an old one or the very next holds because the
  replay of `subscribe` starts where the browser, and not the page, has got to, and because
  every new source begins with an empty view. One lemma for what the Host publishes
  (`PublishLine`), one for what the page does with a Timeline (`TimelineLine`), one for an
  event that arrives (`DeliverLine`) carry it. From it `StreamTypeCorrect` and `ViewIsPrefixHolds`,
  for logs of any length and any number of Runs, crashes, resumes and late answers.

`DesktopProofs`, of `DesktopUpdate`

- `UpdateInv`: a check is in flight only while there is no package, no action and no open
  question (`FlowInv`); so what is pending, on offer and downloaded is what
  electron-updater has for its target, as long as no answer came after its time
  (`TargetInv`). Without the first part a check could change the target under a download, which
  is why `PackageIsLabelled` alone is not inductive. The page shows what there is, and
  already does so while an installation by hand or its error is on the screen (`PageInv`).
  `BridgeInv`: the installer may take the application down only during `installing`, and then
  an owned Host has stopped. From it `UpdateTypeCorrect`, `PackageIsLabelledHolds`,
  `NoOrphanBackendHolds`, `StatusHonestHolds`, `OneSourceOperationHolds`, and the action
  properties `RestoredBeforeErrorHolds` and `PackageKeptHolds`, for any set of versions and any
  number of checks that time out.

Only model-checked:

- every liveness property (`StopLeadsToExit`, `StopSettles`, `StopReapsJobs`,
  `EveryCallAnswered`, `LoopEnds`, `BackendRestored`, `CatchesUp`, `QueueMoves`): fairness and
  `ENABLED` are out of the prover's reach here;
- what the folds of `ContextWindow` compute for every transcript,
  beyond the lemmas of `SessionContextProofs`: the provers have no induction over data.

## Disagreements between the code and its documentation

The first two are runs that must find a violation; `findings` quotes the lines.

1. **A compaction overwrites a newer checkpoint** (`stale_compaction`). The check for
   running Runs is before the `await`, the save of the loaded copy after it.
2. **A stopped Run is not seen to end** (`stop_unnoticed`). The page reads the list of Runs
   as soon as `POST /stop` is answered, and may learn "stopping"; from then on the Timeline
   passes no `onRunTerminal` to the hook (`Timeline/index.tsx:86`), so that the final event
   makes nobody read the list again. The session stays busy on the page, and the message for
   which the Run was stopped is never sent (`App.tsx:721` says it is, at once). `QueueMoves`
   shows that this is the only way to lose it without a failure: as long as the page does
   not come to know the Run as stopping, the queue moves.
3. **A write cut short by a crash invalidates no check** (no run of its own). A tool that may
   have written something unknown makes all settled checks stale when it returns
   (`process-manager.ts:593`) or fails (`:825`), "conservatively". A crash while it runs reaches
   neither place, and the resume takes the records back as they were saved: the model is told
   "verified" of a check that was settled before the write, and
   `src/docs/plans/agent-run-efficiency-optimization-plan-20261020.md:433` has a resume check
   the basis again. `CutShortIsInvalidated` says what the comments promise; as a property in
   `EvidenceStore.cfg` TLC refutes it with nine states: a linter settles, a tool writes, the
   process dies, the Run is resumed. `VerifiedIsCurrent` shows that nothing else
   does this, but a mutation the Run knows already; and no answer is reused wrongly,
   because reuse compares fingerprints (`ReuseIsFresh`).

Met while modelling, without a run of their own.

- Pipeline. `createDeadline` is outside the retry loop and its `dispose` inside: attempts 2
  and 3 get a signal that `util/timeout.ts:85` declares unusable, so neither the timer nor
  a stop reaches the tool. With the network off, the intent of a shell command is persisted
  before the tool refuses and is never removed (`process-manager.ts:529`, `:796`; the comment
  at `:791` says no uncertain state is made). If the checkpoint write after an answer
  fails, a call gets two tool messages.
- Lifecycle. `resume` does not make the check for a running Run that `createInSession` makes
  (`run-lifecycle-service.ts:192`, `:283`). The restart scan writes row and event in two
  transactions (`:137`). Purging a workspace deletes sessions without disposing their jobs, which
  deleting a session does (`session-service.ts:151`, `:204`).
- Agent. The turn whose own request exhausts the budget counts as one that ignored the
  wrap-up, so one ignored instruction is enough where `agent.ts:309` says two. The watchdog
  goes on after a user's stop and its flag is not reset, so that a stop can be reported
  as an exhausted budget. Notices are drained before the save that would keep them (`:297`). The final review is
  awaited after the last look at the notices (`:660`, `:760`): a job that ends meanwhile is not
  known to the answer, which the look at `:658` is there to prevent, and its notice waits in
  the session for a later Run (`AnswersKnowTheJobs` excuses it).
- Evidence. A repeated mutation fingerprint does not invalidate completed records
  again: a view may say "verified" of a stale result (reuse stays safe). A refused check stays pending, which refuses it for the rest
  of the Run; 32 of them refuse every check.
- Context. The band of `resolveCompactionThresholds` is not guaranteed with an explicit
  `retainTokens`. The emergency trim can keep a tool result without its call. Projected
  outputs come back when a second user message or a compaction moves the boundary
  (`tool-output-projection.ts:18` says they never do). `/compact` picks the newest Run with
  a checkpoint, whatever its status, and reports a success that a new Run does not inherit when
  that Run was interrupted, is evidence or had its draft rejected. A Run without a
  checkpoint before such a Run is told to nobody. The comment of `compactConversation` calls the
  rejection of a long summary unreachable; it is reached when little history precedes a
  long turn. The context message is added after all trimming, and the emergency trim looks only
  at the history: a Run can be refused for its length although whole turns could still be
  dropped (`context-harness.ts:1116` promises otherwise).
- Event stream. After a resume the live stream replays the log from the start, meets the
  earlier life's final event and closes for good (`useEventStream.ts:99`, `:126`);
  `CatchesUp` therefore speaks of Runs never resumed. An answer read before a Run was created
  replaces the list and takes the new Run off the page until the next one; a message out of
  the queue that the Host refuses is dropped after an alert. Failures are no
  longer counted once a connection was open, though a comment says repeated ones close it.
- Desktop. A check that timed out can change what electron-updater downloads;
  `PackageIsLabelled` excludes it. Tasks are listed before the question is asked, a Run started
  meanwhile is stopped unannounced. A backend that exits after its stop timed out is
  taken for a crash and quits the application.
- Settings. A probe in flight while URL or key change records its result under the
  new configuration. The import from the environment does not put a key back when its row
  cannot be written. A keychain call killed by its time limit may have been applied.
- Elsewhere. The installer settles before brew is dead, so that a second brew may start; the
  shutdown loses the SIGKILL timer of processes that ignore SIGTERM; a full output buffer
  drops the newest text while the message speaks of the oldest; a job started in an earlier
  life of a Run listens to that life's signal; a failed `link` of an attachment is
  swallowed and a path returned.

## What is not modelled

- What tools do to files, what the model says, what the UI shows: data.
- Operating-system processes, signals, sandboxes and access rights. The models end where
  an `AbortSignal` fires; what the kernel does with it is assumed as fairness.
- Parsing, formatting, provider protocols, attachments, project checks: pure or I/O.
- In `ToolInvocation`: the evidence branch of check tools (in `EvidenceStore`), and the
  spilling of outputs.
- In `AgentLoop`: the inside of a tool call; the repeat-call, goal and progress policies,
  except for the turns they add.
- In `EvidenceStore`: the caps on remembered reads and writes, failing saves, a file put
  back to an earlier content; which record is the oldest is a choice.
- In `SessionContext`: plan, task focus and attachments in the context message, kinds of
  reminders (one in the instance: they share every step), a summary awaited while the
  session changes (that is `stale_compaction`).
- In `EventStream`: answers other than network errors (another status closes the source for
  good), several pages, the drafts of the input box, the retry button of a Timeline (which
  posts beside the input box), several POSTs at once.
- In `DesktopUpdate`: `dispose` (never called by `main.ts`), windows and menus, the Windows
  installer; a stop that fails for a half-started Host is treated like any other.
- In `SettingsStore`: the remote catalog and its probe, capabilities, names, the built-in
  registry; blank environment variables; which model is the first; a row that cannot be parsed.
- The table of pending network cards of several Runs (`ApprovalCoordinator`): the pipeline
  sees its answer; Runs do not share cards.
- In `RunLifecycle`: a store that is closed while an execution still writes (after the two
  second cap), the history a new turn is given (in `SessionContext`), events other than the lifecycle's.
- In `BackgroundJobs`: output, failing checkpoint writes, the job numbers of a session, the
  disposal of every session at shutdown.
- In `ToolchainPreparation`: requests answered "unavailable" (no state changes), progress
  events, the brew process after SIGTERM.

## Plan

Done: models, runs and proofs of `ToolInvocation` (with its ledger), `RunLifecycle` (with its
record), `BackgroundJobs`, `ToolchainPreparation`, `AgentLoop`, `EvidenceStore`,
`SettingsStore`, `ContextWindow` and `SessionContext`, `EventStream` and `DesktopUpdate`. Every
invariant, action property and refinement that a passing run checks is a theorem.

What would come next:

1. **Policies** as pure operators: the thresholds of the compaction (retain below
   trigger), the repeat-call and progress policies, the derivation of the delivery outcome.
2. **Attachments**: publication by link and the clean-up of what no Run refers to.
