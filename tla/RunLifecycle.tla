---------------------------- MODULE RunLifecycle ----------------------------
(***************************************************************************)
(* The life of Runs in one Host: RunLifecycleService (create, resume,      *)
(* stop, finalizeRun, the restart scan of its constructor, the waits of    *)
(* close), the gate RunManager puts before it, the SQLite transactions it  *)
(* relies on, and the SessionService operations that race with it          *)
(* (archive, restore, delete, compact).                                    *)
(*                                                                         *)
(* JavaScript runs a handler to completion, so other handlers never see it *)
(* half done; a crash does.  A handler that writes the store twice is two  *)
(* steps here: after the first, `doing` holds what is left, and only that  *)
(* or a crash can happen next.  The agent execution of a Run is one        *)
(* promise chain, seen here by its checkpoint writes and by how it settles.*)
(* The Host always starts the agent of a Run it creates (startAgent:false  *)
(* occurs in the repository's tests only).                                 *)
(***************************************************************************)
EXTENDS Naturals, FiniteSets

CONSTANTS
  Run,         \* Runs, numbered in the order of their turns
  NoRun,
  Session,
  SessionOf,   \* the session a Run is created in
  MaxCrashes,  \* bound: how often the process dies or restarts
  MaxResumes,  \* bound: how often a Run is resumed
  StoreFaults, \* may a write of the store fail?
  Compactable  \* sessions /compact is asked for in this instance

ASSUME ConstantsAssumption ==
  /\ Run \subseteq Nat
  /\ NoRun \notin Run
  /\ SessionOf \in [Run -> Session]
  /\ MaxCrashes \in Nat
  /\ MaxResumes \in Nat
  /\ StoreFaults \in BOOLEAN
  /\ Compactable \subseteq Session

VARIABLES
  host,       \* RunManager: "starting" (its constructor), "open", "closing", "down"
  doing,      \* what is left of the handler in progress
  subject,    \* the Run that handler is about
  row,        \* runs.status in the store
  last,       \* last lifecycle event of the Run in the store
  session,    \* sessions: not yet created, live, archived (deleted_at set) or purged
  checkpoint, \* the Run's checkpoint file against the latest state it saved
  mem,        \* status of the active Run object, "none" if there is none
  cancelled,  \* its cancelled flag; its AbortSignal fires in the same handler
  chains,     \* executions of the Run whose promise has not settled
  gaveUp,     \* close(): Runs whose terminal wait reached its cap
  compacting, \* the Run whose checkpoint compactSession has loaded
  copyFresh,  \* has no one saved that checkpoint since?
  crashes, resumes, \* bounds
  faulted     \* history: a store write has failed

store      == <<row, last, session>>
active     == <<mem, cancelled, chains>>
compaction == <<compacting, copyFresh>>
process    == <<host, doing, subject, gaveUp>>
vars == <<process, store, checkpoint, active, compaction, crashes, resumes, faulted>>

-----------------------------------------------------------------------------
TerminalRunStatus == {"completed", "failed", "stopped"}
Cancellable == {"running", "stopping"}

isCancellable(s) == s \in Cancellable
isTerminalRunStatus(s) == s \in TerminalRunStatus

TerminalEvent(s) ==
  CASE s = "completed" -> "run_completed"
    [] s = "failed" -> "run_failed"
    [] OTHER -> "run_stopped"

RunsOf(s) == {r \in Run : SessionOf[r] = s}

isSessionDeleted(s) == session[s] # "live"

(* A store write that may fail: what it writes is visible only if it does not. *)
Write(ok) ==
  /\ ok \/ StoreFaults
  /\ faulted' = (faulted \/ ~ok)

Idle == doing = "nothing"

Continue(what, r) == doing' = what /\ subject' = r
HandlerDone == doing' = "nothing" /\ subject' = NoRun

Init ==
  /\ host = "open" /\ doing = "nothing" /\ subject = NoRun /\ gaveUp = {}
  /\ row = [r \in Run |-> "absent"]
  /\ last = [r \in Run |-> "none"]
  /\ session = [s \in Session |-> "new"]
  /\ checkpoint = [r \in Run |-> "none"]
  /\ mem = [r \in Run |-> "none"]
  /\ cancelled = [r \in Run |-> FALSE]
  /\ chains = [r \in Run |-> 0]
  /\ compacting = NoRun /\ copyFresh = FALSE
  /\ crashes = 0
  /\ resumes = 0
  /\ faulted = FALSE

-----------------------------------------------------------------------------
(* Creating and resuming *)

(* record(): append to the store, then memory and SSE; a failure is swallowed. *)
Record(r, event, ok) ==
  /\ Write(ok)
  /\ last' = IF ok THEN [last EXCEPT ![r] = event] ELSE last

(* A Run is created in a new session or in a live one without a Run in progress. *)
mayCreate(r) ==
  /\ row[r] = "absent"
  /\ \/ session[SessionOf[r]] = "new"
     \/ /\ session[SessionOf[r]] = "live"
        /\ \A q \in RunsOf(SessionOf[r]) : ~isCancellable(row[q])
  /\ \A q \in RunsOf(SessionOf[r]) : q < r => row[q] # "absent"

(* createInSession: the row is written before anything runs.  If that write  *)
(* fails the request fails and leaves at most an empty session.              *)
createInSession(r) ==
  /\ host = "open" /\ Idle /\ mayCreate(r)
  /\ session' = [session EXCEPT ![SessionOf[r]] = "live"]
  /\ \E ok \in BOOLEAN :
       /\ Write(ok)
       /\ IF ok
          THEN /\ row' = [row EXCEPT ![r] = "running"]
               /\ mem' = [mem EXCEPT ![r] = "running"]
               /\ Continue("starting", r)
          ELSE UNCHANGED <<row, mem, doing, subject>>
  /\ UNCHANGED <<host, gaveUp, last, checkpoint, cancelled, chains, compaction, crashes, resumes>>

(* Variant for mutation: the active Run is not consulted. *)
mayResumeAnyway(r) ==
  row[r] # "absent" /\ ~isSessionDeleted(SessionOf[r]) /\ checkpoint[r] # "none"

(* Refused while this very Run is active, when its row is gone or archived, *)
(* and without a checkpoint.  Other Runs of the session are not consulted.  *)
mayResume(r) ==
  /\ ~isCancellable(mem[r])
  /\ row[r] # "absent" /\ ~isSessionDeleted(SessionOf[r])
  /\ checkpoint[r] # "none"

resume(r) ==
  /\ host = "open" /\ Idle /\ mayResume(r)
  /\ resumes < MaxResumes /\ resumes' = resumes + 1
  /\ \E ok \in BOOLEAN :
       /\ Write(ok)
       /\ IF ok
          THEN /\ row' = [row EXCEPT ![r] = "running"]
               /\ mem' = [mem EXCEPT ![r] = "running"]
               /\ cancelled' = [cancelled EXCEPT ![r] = FALSE]
               /\ Continue("starting", r)
          ELSE UNCHANGED <<row, mem, cancelled, doing, subject>>
  /\ UNCHANGED <<host, gaveUp, last, session, checkpoint, chains, compaction, crashes>>

(* The rest of create and resume: run_started, then the agent. *)
startAgent(r) ==
  /\ doing = "starting" /\ subject = r
  /\ \E ok \in BOOLEAN : Record(r, "run_started", ok)
  /\ chains' = [chains EXCEPT ![r] = @ + 1]
  /\ HandlerDone
  /\ UNCHANGED <<host, gaveUp, row, session, checkpoint, mem, cancelled, compaction,
                 crashes, resumes>>

-----------------------------------------------------------------------------
(* Stopping and final states *)

(* stop and markStopping up to run_stopping.  A Run already stopping only has *)
(* its flag set again; on a Run in a final state the flag is read by no one.  *)
stop(r) ==
  /\ host \in {"open", "closing"} /\ Idle
  /\ isCancellable(mem[r]) /\ ~isSessionDeleted(SessionOf[r])
  /\ cancelled' = [cancelled EXCEPT ![r] = TRUE]
  /\ IF mem[r] = "running"
     THEN /\ mem' = [mem EXCEPT ![r] = "stopping"]
          /\ \E ok \in BOOLEAN :
               /\ Write(ok)
               /\ row' = IF ok THEN [row EXCEPT ![r] = "stopping"] ELSE row
          /\ Continue("stopping", r)
     ELSE UNCHANGED <<mem, row, faulted, doing, subject>>
  /\ UNCHANGED <<host, gaveUp, last, session, checkpoint, chains, compaction, crashes, resumes>>

(* The rest of markStopping: run_stopping, then abort(). *)
recordStopping(r) ==
  /\ doing = "stopping" /\ subject = r
  /\ \E ok \in BOOLEAN : Record(r, "run_stopping", ok)
  /\ HandlerDone
  /\ UNCHANGED <<host, gaveUp, row, session, checkpoint, active, compaction, crashes, resumes>>

(* Variants for mutation: status and event without a transaction; memory first; *)
(* a Run already stopping is taken for finished.                                *)
finalizeRunApart(r, status) ==
  IF ~isCancellable(mem[r])
  THEN UNCHANGED <<row, last, mem, faulted>>
  ELSE \E ok \in BOOLEAN :
         /\ Write(ok)
         /\ mem' = [mem EXCEPT ![r] = status]
         /\ row' = [row EXCEPT ![r] = status]
         /\ last' = IF ok THEN [last EXCEPT ![r] = TerminalEvent(status)] ELSE last
finalizeRunMemoryFirst(r, status) ==
  IF ~isCancellable(mem[r])
  THEN UNCHANGED <<row, last, mem, faulted>>
  ELSE \E ok \in BOOLEAN :
         /\ Write(ok)
         /\ mem' = [mem EXCEPT ![r] = status]
         /\ row' = IF ok THEN [row EXCEPT ![r] = status] ELSE row
         /\ last' = IF ok THEN [last EXCEPT ![r] = TerminalEvent(status)] ELSE last
finalizeRunFromRunning(r, status) ==
  IF mem[r] # "running"
  THEN UNCHANGED <<row, last, mem, faulted>>
  ELSE \E ok \in BOOLEAN :
         /\ Write(ok)
         /\ IF ok
            THEN /\ row' = [row EXCEPT ![r] = status]
                 /\ last' = [last EXCEPT ![r] = TerminalEvent(status)]
                 /\ mem' = [mem EXCEPT ![r] = status]
            ELSE UNCHANGED <<row, last, mem>>

(* finalizeRun: status and event in one transaction, then memory; a final    *)
(* state is never overwritten (deleteSession drops only objects in one), and  *)
(* a failed write leaves everything as it is.                                 *)
finalizeRun(r, status) ==
  IF ~isCancellable(mem[r])
  THEN UNCHANGED <<row, last, mem, faulted>>
  ELSE \E ok \in BOOLEAN :
         /\ Write(ok)
         /\ IF ok
            THEN /\ row' = [row EXCEPT ![r] = status]
                 /\ last' = [last EXCEPT ![r] = TerminalEvent(status)]
                 /\ mem' = [mem EXCEPT ![r] = status]
            ELSE UNCHANGED <<row, last, mem>>

(* Variant for mutation: an answer wins over a stop. *)
outcomeAnswerFirst(r, settled) ==
  IF settled = "answered" THEN "completed"
  ELSE IF settled = "stop_requested" \/ cancelled[r] THEN "stopped" ELSE "failed"

(* How the settled execution ends the Run: an intent to stop wins over an answer *)
(* and over an error, and AgentStopRequestedError stops.                         *)
outcome(r, settled) ==
  IF settled = "stop_requested" \/ cancelled[r] THEN "stopped"
  ELSE IF settled = "answered" THEN "completed" ELSE "failed"

(* runAgent resolves or throws: an answer, an AgentStopRequestedError, any other error. *)
agentSettles(r, settled) ==
  /\ host \in {"open", "closing"} /\ Idle /\ chains[r] > 0
  /\ chains' = [chains EXCEPT ![r] = @ - 1]
  /\ finalizeRun(r, outcome(r, settled))
  /\ UNCHANGED <<process, session, checkpoint, cancelled, compaction, crashes, resumes>>

(* The agent saves its checkpoint. *)
agentSaves(r) ==
  /\ host \in {"open", "closing"} /\ Idle /\ chains[r] > 0
  /\ checkpoint' = [checkpoint EXCEPT ![r] = "latest"]
  /\ copyFresh' = (copyFresh /\ compacting # r)
  /\ UNCHANGED <<process, store, active, compacting, crashes, resumes, faulted>>

-----------------------------------------------------------------------------
(* Sessions *)

(* Variant for mutation: the running Runs of the session are not looked at. *)
mayArchiveAnyway(s) == session[s] = "live"

mayArchive(s) ==
  session[s] = "live" /\ \A r \in RunsOf(s) : ~isCancellable(mem[r])

archiveSession(s) ==
  /\ host \in {"open", "closing"} /\ Idle /\ mayArchive(s)
  /\ session' = [session EXCEPT ![s] = "archived"]
  /\ UNCHANGED <<process, row, last, checkpoint, active, compaction, crashes, resumes, faulted>>

restoreSession(s) ==
  /\ host \in {"open", "closing"} /\ Idle
  /\ session[s] = "archived"
  /\ session' = [session EXCEPT ![s] = "live"]
  /\ UNCHANGED <<process, row, last, checkpoint, active, compaction, crashes, resumes, faulted>>

(* deleteSession: rows and events in one transaction, then the active objects *)
(* and the checkpoint files.                                                  *)
deleteSession(s) ==
  /\ host \in {"open", "closing"} /\ Idle
  /\ session[s] = "archived"
  /\ \A r \in RunsOf(s) : ~isCancellable(row[r])
  /\ session' = [session EXCEPT ![s] = "purged"]
  /\ row' = [r \in Run |-> IF r \in RunsOf(s) THEN "absent" ELSE row[r]]
  /\ last' = [r \in Run |-> IF r \in RunsOf(s) THEN "none" ELSE last[r]]
  /\ mem' = [r \in Run |-> IF r \in RunsOf(s) THEN "none" ELSE mem[r]]
  /\ checkpoint' = [r \in Run |-> IF r \in RunsOf(s) THEN "none" ELSE checkpoint[r]]
  /\ UNCHANGED <<process, cancelled, chains, compaction, crashes, resumes, faulted>>

(* compactSession up to its await: the newest checkpoint of an idle session. *)
compactSession(s) ==
  /\ host \in {"open", "closing"} /\ Idle /\ compacting = NoRun
  /\ s \in Compactable
  /\ session[s] = "live"
  /\ \A r \in RunsOf(s) : ~isCancellable(row[r])
  /\ \E r \in RunsOf(s) :
       /\ row[r] # "absent" /\ checkpoint[r] # "none"
       /\ \A q \in RunsOf(s) : q > r => row[q] = "absent" \/ checkpoint[q] = "none"
       /\ compacting' = r
       /\ copyFresh' = (checkpoint[r] = "latest")
  /\ UNCHANGED <<process, store, checkpoint, active, crashes, resumes, faulted>>

(* After the summary the loaded copy is written back, whatever happened meanwhile; *)
(* a failed summary writes nothing.                                                *)
compactionEnds ==
  /\ host \in {"open", "closing"} /\ Idle /\ compacting # NoRun
  /\ \/ checkpoint' = [checkpoint EXCEPT ![compacting] = IF copyFresh THEN "latest" ELSE "stale"]
     \/ UNCHANGED checkpoint
  /\ compacting' = NoRun /\ copyFresh' = FALSE
  /\ UNCHANGED <<process, store, active, crashes, resumes, faulted>>

-----------------------------------------------------------------------------
(* Closing, dying and starting again *)

(* close() and abortActiveRuns(): no new Runs, every active one is aborted. *)
close ==
  /\ host = "open" /\ Idle
  /\ host' = "closing"
  /\ cancelled' = [r \in Run |-> cancelled[r] \/ isCancellable(mem[r])]
  /\ UNCHANGED <<doing, subject, gaveUp, store, checkpoint, mem, chains, compaction, crashes,
                 resumes, faulted>>

(* waitForRunTerminal reaches its cap: the Run is finished without its agent. *)
forceFinish(r) ==
  /\ host = "closing" /\ Idle
  /\ isCancellable(mem[r]) /\ r \notin gaveUp
  /\ gaveUp' = gaveUp \cup {r}
  /\ finalizeRun(r, "stopped")
  /\ UNCHANGED <<host, doing, subject, session, checkpoint, cancelled, chains, compaction,
                 crashes, resumes>>

(* What a process leaves behind: the store and the checkpoint files. *)
ProcessGone ==
  /\ host' = "down" /\ HandlerDone /\ gaveUp' = {}
  /\ mem' = [r \in Run |-> "none"]
  /\ cancelled' = [r \in Run |-> FALSE]
  /\ chains' = [r \in Run |-> 0]
  /\ compacting' = NoRun /\ copyFresh' = FALSE

(* Every wait is over (an agent that ignores its abort is not waited for beyond *)
(* its own cap): the store is closed and the process exits.                     *)
closed ==
  /\ host = "closing" /\ Idle
  /\ \A r \in Run : isCancellable(mem[r]) => r \in gaveUp
  /\ ProcessGone
  /\ UNCHANGED <<store, checkpoint, crashes, resumes, faulted>>

Crash ==
  /\ host # "down"
  /\ crashes < MaxCrashes /\ crashes' = crashes + 1
  /\ ProcessGone
  /\ UNCHANGED <<store, checkpoint, resumes, faulted>>

Boot ==
  /\ host = "down"
  /\ host' = "starting"
  /\ UNCHANGED <<doing, subject, gaveUp, store, checkpoint, active, compaction, crashes,
                 resumes, faulted>>

(* The constructor, for each row that was in progress: status first.  A failed *)
(* write throws out of the constructor and the process does not come up.       *)
interrupt(r) ==
  /\ host = "starting" /\ Idle
  /\ isCancellable(row[r]) /\ ~isSessionDeleted(SessionOf[r])
  /\ \E ok \in BOOLEAN :
       /\ Write(ok)
       /\ IF ok
          THEN /\ row' = [row EXCEPT ![r] = "interrupted"]
               /\ Continue("interrupting", r)
               /\ UNCHANGED host
          ELSE host' = "down" /\ UNCHANGED <<row, doing, subject>>
  /\ UNCHANGED <<gaveUp, last, session, checkpoint, active, compaction, crashes, resumes>>

(* Then its event, outside any transaction. *)
appendInterrupted(r) ==
  /\ doing = "interrupting" /\ subject = r
  /\ \E ok \in BOOLEAN :
       /\ Write(ok)
       /\ last' = IF ok THEN [last EXCEPT ![r] = "run_interrupted"] ELSE last
       /\ host' = IF ok THEN host ELSE "down"
  /\ HandlerDone
  /\ UNCHANGED <<gaveUp, row, session, checkpoint, active, compaction, crashes, resumes>>

opened ==
  /\ host = "starting" /\ Idle
  /\ \A r \in Run : isCancellable(row[r]) => isSessionDeleted(SessionOf[r])
  /\ host' = "open"
  /\ UNCHANGED <<doing, subject, gaveUp, store, checkpoint, active, compaction, crashes,
                 resumes, faulted>>

-----------------------------------------------------------------------------
Rest(r) == startAgent(r) \/ recordStopping(r) \/ appendInterrupted(r)

Next ==
  \/ \E r \in Run :
       \/ createInSession(r) \/ resume(r) \/ stop(r)
       \/ startAgent(r) \/ recordStopping(r) \/ appendInterrupted(r)
       \/ \E settled \in {"answered", "stop_requested", "error"} : agentSettles(r, settled)
       \/ agentSaves(r) \/ forceFinish(r) \/ interrupt(r)
  \/ \E s \in Session :
       archiveSession(s) \/ restoreSession(s) \/ deleteSession(s) \/ compactSession(s)
  \/ compactionEnds \/ close \/ closed \/ Crash \/ Boot \/ opened

Spec == Init /\ [][Next]_vars

(* A handler in progress finishes (run to completion); an aborted execution     *)
(* settles (the runtime checks its signal at every boundary and passes it to    *)
(* every wait); timers fire; a Host that is starting gets through its scan.     *)
Fairness ==
  /\ \A r \in Run :
       /\ WF_vars(Rest(r))
       /\ WF_vars(cancelled[r] /\ \E settled \in {"answered", "stop_requested", "error"} :
                                    agentSettles(r, settled))
       /\ WF_vars(forceFinish(r))
       /\ WF_vars(interrupt(r))
  /\ WF_vars(closed) /\ WF_vars(opened)

FairSpec == Spec /\ Fairness

-----------------------------------------------------------------------------
(* Properties *)

RowStatus == {"absent", "interrupted"} \cup Cancellable \cup TerminalRunStatus
LifecycleEvent ==
  {"none", "run_started", "run_stopping", "run_interrupted",
   "run_completed", "run_failed", "run_stopped"}

(* The type of the state; counters stay within their bounds. *)
TypeOK ==
  /\ host \in {"starting", "open", "closing", "down"}
  /\ doing \in {"nothing", "starting", "stopping", "interrupting"}
  /\ subject \in Run \cup {NoRun}
  /\ doing = "nothing" <=> subject = NoRun
  /\ gaveUp \subseteq Run
  /\ row \in [Run -> RowStatus]
  /\ last \in [Run -> LifecycleEvent]
  /\ session \in [Session -> {"new", "live", "archived", "purged"}]
  /\ checkpoint \in [Run -> {"none", "latest", "stale"}]
  /\ mem \in [Run -> {"none"} \cup Cancellable \cup TerminalRunStatus]
  /\ cancelled \in [Run -> BOOLEAN]
  /\ chains \in [Run -> Nat]
  /\ compacting \in Run \cup {NoRun} /\ copyFresh \in BOOLEAN
  /\ crashes \in 0 .. MaxCrashes
  /\ resumes \in 0 .. MaxResumes
  /\ faulted \in BOOLEAN

(* The store never shows a Run in progress that no active object stands for,  *)
(* nor the reverse: finalizeRun changes both or none, and the restart scan    *)
(* comes before the first request.  A row nobody owns would block its session *)
(* forever, and a final row with a live object would let it be resumed twice. *)
StoreAgreesWithMemory ==
  host \in {"open", "closing"} =>
    \A r \in Run : isCancellable(row[r]) <=> isCancellable(mem[r])

(* At most one execution of a Run, and while the Host is open it belongs to a *)
(* Run on record as in progress: its checkpoint has one writer.               *)
OneExecution ==
  \A r \in Run :
    /\ chains[r] <= 1
    /\ host = "open" /\ chains[r] > 0 => isCancellable(row[r])

(* An archived or purged session has no Run in progress: archive looks at the *)
(* active objects, delete at the store, resume and create at the session.     *)
ArchivedIsQuiet ==
  \A r \in Run :
    session[SessionOf[r]] # "live" => ~isCancellable(row[r]) /\ ~isCancellable(mem[r])

(* Once a stop was asked for, or the Host is closing, the Run ends as stopped *)
(* (or interrupted by a restart) even if the agent answers or fails after it. *)
StopIsHonoured ==
  [][\A r \in Run :
       cancelled[r] /\ row'[r] # row[r] => row'[r] \notin {"completed", "failed"}]_vars

Stored == INSTANCE RunRecord WITH status <- row, last <- last

(* The store's rows and events keep the promise of RunRecord: final status    *)
(* and final event appear together, only from a Run in progress, and stay.    *)
ImplementsRunRecord == Stored!Spec

(* A stop settles: the Run leaves `stopping` unless the store failed. *)
StopSettles ==
  \A r \in Run : (mem[r] = "stopping") ~> (mem[r] # "stopping" \/ faulted)

(* What the guard of /compact is there for: the checkpoint a Run would be resumed *)
(* from is the latest state it saved.                                             *)
NoLostCheckpoint == host = "open" => \A r \in Run : checkpoint[r] # "stale"
=============================================================================
