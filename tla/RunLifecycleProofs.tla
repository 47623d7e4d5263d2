------------------------- MODULE RunLifecycleProofs -------------------------
(***************************************************************************)
(* Theorems about RunLifecycle, for any set of Runs and sessions and any   *)
(* bounds.  The inductive invariant LifecycleInv says who stands for a Run *)
(* in every state: the row and the active object agree while the Host      *)
(* serves requests, a process that is down holds nothing, a handler in     *)
(* progress has written what its first half writes.                        *)
(***************************************************************************)
EXTENDS RunLifecycle, TLAPS

(* A Host that is down or still starting holds no active object. *)
NothingActive ==
  host \in {"down", "starting"} =>
    \A r \in Run : mem[r] = "none" /\ chains[r] = 0 /\ ~cancelled[r]

(* A Run the Host has not been asked to stop is running in the store too. *)
RunningIsStored ==
  host \in {"open", "closing"} =>
    \A r \in Run : mem[r] = "running" => row[r] = "running"

(* What the first half of a handler leaves for the second. *)
HalfDone ==
  /\ doing = "starting" =>
       /\ host = "open" /\ subject \in Run
       /\ mem[subject] = "running" /\ chains[subject] = 0
  /\ doing = "stopping" =>
       host \in {"open", "closing"} /\ subject \in Run /\ mem[subject] = "stopping"
  /\ doing = "interrupting" =>
       host = "starting" /\ subject \in Run /\ row[subject] = "interrupted"

LifecycleInv ==
  /\ TypeOK
  /\ StoreAgreesWithMemory
  /\ OneExecution
  /\ ArchivedIsQuiet
  /\ NothingActive
  /\ RunningIsStored
  /\ HalfDone

RunStep(r) ==
  \/ createInSession(r) \/ resume(r) \/ stop(r)
  \/ startAgent(r) \/ recordStopping(r) \/ appendInterrupted(r)
  \/ \E settled \in {"answered", "stop_requested", "error"} : agentSettles(r, settled)
  \/ agentSaves(r) \/ forceFinish(r) \/ interrupt(r)

SessionStep(s) ==
  archiveSession(s) \/ restoreSession(s) \/ deleteSession(s) \/ compactSession(s)

HostStep == compactionEnds \/ close \/ closed \/ Crash \/ Boot \/ opened

(* Next, grouped by who takes the step. *)
LEMMA NextCases ==
  ASSUME Next
  PROVE  \/ \E r \in Run : RunStep(r)
         \/ \E s \in Session : SessionStep(s)
         \/ HostStep
BY Zenon DEF Next, RunStep, SessionStep, HostStep

(* Only these outcomes exist, and a Run that was asked to stop gets `stopped`. *)
LEMMA OutcomeFacts ==
  ASSUME TypeOK, NEW r \in Run, NEW settled \in {"answered", "stop_requested", "error"}
  PROVE  /\ outcome(r, settled) \in TerminalRunStatus
         /\ cancelled[r] => outcome(r, settled) = "stopped"
BY DEF outcome, TerminalRunStatus

(* finalizeRun writes the final state everywhere or nowhere. *)
LEMMA FinalizeFacts ==
  ASSUME NEW r \in Run, NEW status, finalizeRun(r, status)
  PROVE  \/ UNCHANGED <<row, last, mem>>
         \/ /\ isCancellable(mem[r])
            /\ row' = [row EXCEPT ![r] = status]
            /\ last' = [last EXCEPT ![r] = TerminalEvent(status)]
            /\ mem' = [mem EXCEPT ![r] = status]
BY DEF finalizeRun

(* The type of the state is preserved by every step of a Run, ... *)
LEMMA RunTyping ==
  ASSUME TypeOK, NEW r \in Run, RunStep(r)
  PROVE  TypeOK'
<1> USE ConstantsAssumption
<1>0. r # NoRun
  OBVIOUS
<1>1. CASE createInSession(r)
  BY <1>0, <1>1 DEF TypeOK, createInSession, Write, Continue, compaction, RowStatus, Cancellable, Idle
<1>2. CASE resume(r)
  <2>1. row' \in [Run -> RowStatus] /\ mem' \in [Run -> {"none"} \cup Cancellable \cup TerminalRunStatus]
    BY <1>2 DEF TypeOK, resume, RowStatus, Cancellable
  <2>2. cancelled' \in [Run -> BOOLEAN]
    BY <1>2 DEF TypeOK, resume
  <2>3. faulted' \in BOOLEAN
    BY <1>2 DEF TypeOK, resume, Write
  <2>4. resumes' \in 0 .. MaxResumes
    BY <1>2 DEF TypeOK, resume
  <2>5. /\ doing' \in {"nothing", "starting", "stopping", "interrupting"}
        /\ subject' \in Run \cup {NoRun}
        /\ doing' = "nothing" <=> subject' = NoRun
    BY <1>0, <1>2 DEF TypeOK, resume, Continue, Idle
  <2> QED BY <1>2, <2>1, <2>2, <2>3, <2>4, <2>5 DEF TypeOK, resume, compaction
<1>3. CASE stop(r)
  BY <1>0, <1>3 DEF TypeOK, stop, Write, Continue, compaction, RowStatus, Cancellable, Idle
<1>4. CASE startAgent(r)
  BY <1>4 DEF TypeOK, startAgent, Record, Write, HandlerDone, compaction, LifecycleEvent
<1>5. CASE recordStopping(r)
  BY <1>5 DEF TypeOK, recordStopping, Record, Write, HandlerDone, compaction, active, LifecycleEvent
<1>6. CASE appendInterrupted(r)
  BY <1>6 DEF TypeOK, appendInterrupted, Write, HandlerDone, compaction, active, LifecycleEvent
<1>7. CASE \E settled \in {"answered", "stop_requested", "error"} : agentSettles(r, settled)
  <2> PICK settled \in {"answered", "stop_requested", "error"} : agentSettles(r, settled)
    BY <1>7
  <2>1. outcome(r, settled) \in TerminalRunStatus
    BY OutcomeFacts
  <2>2. row' \in [Run -> RowStatus] /\ last' \in [Run -> LifecycleEvent]
    BY <2>1 DEF TypeOK, agentSettles, finalizeRun, RowStatus, TerminalRunStatus, TerminalEvent,
                LifecycleEvent
  <2>3. mem' \in [Run -> {"none"} \cup Cancellable \cup TerminalRunStatus] /\ faulted' \in BOOLEAN
    BY <2>1 DEF TypeOK, agentSettles, finalizeRun, Write
  <2>4. chains' \in [Run -> Nat]
    BY DEF TypeOK, agentSettles
  <2> QED BY <2>2, <2>3, <2>4 DEF TypeOK, agentSettles, process, compaction
<1>8. CASE agentSaves(r)
  BY <1>8 DEF TypeOK, agentSaves, process, store, active
<1>9. CASE forceFinish(r)
  <2>2. row' \in [Run -> RowStatus] /\ last' \in [Run -> LifecycleEvent]
    BY <1>9 DEF TypeOK, forceFinish, finalizeRun, RowStatus, TerminalRunStatus, TerminalEvent,
                LifecycleEvent
  <2>3. mem' \in [Run -> {"none"} \cup Cancellable \cup TerminalRunStatus] /\ faulted' \in BOOLEAN
    BY <1>9 DEF TypeOK, forceFinish, finalizeRun, Write, TerminalRunStatus
  <2> QED BY <1>9, <2>2, <2>3 DEF TypeOK, forceFinish, compaction
<1>10. CASE interrupt(r)
  BY <1>0, <1>10 DEF TypeOK, interrupt, Write, Continue, compaction, active, RowStatus, Idle
<1> QED BY <1>1, <1>2, <1>3, <1>4, <1>5, <1>6, <1>7, <1>8, <1>9, <1>10 DEF RunStep

(* ... of a session ... *)
LEMMA SessionTyping ==
  ASSUME TypeOK, NEW s \in Session, SessionStep(s)
  PROVE  TypeOK'
<1>1. CASE archiveSession(s)
  BY <1>1 DEF TypeOK, archiveSession, process, active, compaction
<1>2. CASE restoreSession(s)
  BY <1>2 DEF TypeOK, restoreSession, process, active, compaction
<1>3. CASE deleteSession(s)
  BY <1>3 DEF TypeOK, deleteSession, process, compaction, RowStatus, LifecycleEvent
<1>4. CASE compactSession(s)
  BY <1>4 DEF TypeOK, compactSession, RunsOf, process, store, active
<1> QED BY <1>1, <1>2, <1>3, <1>4 DEF SessionStep

(* ... and of the Host. *)
LEMMA HostTyping ==
  ASSUME TypeOK, HostStep
  PROVE  TypeOK'
<1>1. CASE compactionEnds
  BY <1>1 DEF TypeOK, compactionEnds, process, store, active
<1>2. CASE close
  <2>1. cancelled' \in [Run -> BOOLEAN]
    BY <1>2, Zenon DEF TypeOK, close, isCancellable
  <2> QED BY <1>2, <2>1 DEF TypeOK, close, store, compaction
<1>3. CASE closed
  <2>1. ProcessGone /\ UNCHANGED <<store, checkpoint, crashes, resumes, faulted>>
    BY <1>3, Zenon DEF closed
  <2> QED BY <2>1 DEF TypeOK, ProcessGone, HandlerDone, store
<1>4. CASE Crash
  <2>1. ProcessGone /\ UNCHANGED <<store, checkpoint, resumes, faulted>>
    BY <1>4, Zenon DEF Crash
  <2>2. crashes' \in 0 .. MaxCrashes
    BY <1>4, ConstantsAssumption DEF TypeOK, Crash
  <2> QED BY <2>1, <2>2 DEF TypeOK, ProcessGone, HandlerDone, store
<1>5. CASE Boot
  BY <1>5 DEF TypeOK, Boot, store, active, compaction
<1>6. CASE opened
  BY <1>6 DEF TypeOK, opened, store, active, compaction
<1> QED BY <1>1, <1>2, <1>3, <1>4, <1>5, <1>6 DEF HostStep

-----------------------------------------------------------------------------
(* LifecycleInv is inductive: steps of a Run. *)
Parts == StoreAgreesWithMemory /\ OneExecution /\ ArchivedIsQuiet /\ NothingActive
         /\ RunningIsStored /\ HalfDone

LEMMA RunInvariance ==
  ASSUME LifecycleInv, NEW r \in Run, RunStep(r)
  PROVE  Parts'
<1> USE ConstantsAssumption DEF isCancellable, Cancellable
<1> DEFINE Known == /\ row \in [Run -> RowStatus] /\ chains \in [Run -> Nat] /\ cancelled \in [Run -> BOOLEAN]
                    /\ mem \in [Run -> {"none"} \cup Cancellable \cup TerminalRunStatus]
                    /\ session \in [Session -> {"new", "live", "archived", "purged"}]
<1>0. Known
  BY DEF LifecycleInv, TypeOK
<1>1. CASE createInSession(r)
  <2> USE <1>0, <1>1 DEF LifecycleInv
  <2>1. StoreAgreesWithMemory' BY DEF StoreAgreesWithMemory, createInSession
  <2>2. OneExecution' BY DEF OneExecution, createInSession
  <2>3. ArchivedIsQuiet' BY DEF ArchivedIsQuiet, createInSession
  <2>4. NothingActive' BY DEF NothingActive, createInSession
  <2>5. RunningIsStored' BY DEF RunningIsStored, createInSession
  <2>6. HalfDone' BY DEF HalfDone, createInSession, Continue, Idle, mayCreate, OneExecution
  <2> QED BY <2>1, <2>2, <2>3, <2>4, <2>5, <2>6 DEF Parts
<1>2. CASE resume(r)
  <2> USE <1>0, <1>2 DEF LifecycleInv
  <2>1. StoreAgreesWithMemory' BY DEF StoreAgreesWithMemory, resume
  <2>2. OneExecution' BY DEF OneExecution, resume
  <2>3. ArchivedIsQuiet' BY DEF ArchivedIsQuiet, resume, mayResume, isSessionDeleted
  <2>4. NothingActive' BY DEF NothingActive, resume
  <2>5. RunningIsStored' BY DEF RunningIsStored, resume
  <2>6. HalfDone' BY DEF HalfDone, resume, Continue, Idle, mayResume, OneExecution, StoreAgreesWithMemory
  <2> QED BY <2>1, <2>2, <2>3, <2>4, <2>5, <2>6 DEF Parts
<1>3. CASE stop(r)
  <2> USE <1>0, <1>3 DEF LifecycleInv
  <2>1. StoreAgreesWithMemory' BY DEF StoreAgreesWithMemory, stop
  <2>2. OneExecution' BY DEF OneExecution, stop
  <2>3. ArchivedIsQuiet' BY DEF ArchivedIsQuiet, stop, isSessionDeleted
  <2>4. NothingActive' BY DEF NothingActive, stop
  <2>5. RunningIsStored' BY DEF RunningIsStored, stop
  <2>6. HalfDone' BY DEF HalfDone, stop, Continue, Idle
  <2> QED BY <2>1, <2>2, <2>3, <2>4, <2>5, <2>6 DEF Parts
<1>4. CASE startAgent(r)
  <2> USE <1>0, <1>4 DEF LifecycleInv
  <2>0. UNCHANGED <<host, row, session, mem, cancelled>> /\ doing' = "nothing"
    BY DEF startAgent, HandlerDone
  <2>1. StoreAgreesWithMemory' BY <2>0 DEF StoreAgreesWithMemory
  <2>2. OneExecution' BY <2>0 DEF OneExecution, startAgent, HalfDone, StoreAgreesWithMemory
  <2>3. ArchivedIsQuiet' BY <2>0 DEF ArchivedIsQuiet
  <2>4. NothingActive' BY <2>0 DEF NothingActive, HalfDone, startAgent
  <2>5. RunningIsStored' BY <2>0 DEF RunningIsStored
  <2>6. HalfDone' BY <2>0 DEF HalfDone
  <2> QED BY <2>1, <2>2, <2>3, <2>4, <2>5, <2>6 DEF Parts
<1>5. CASE recordStopping(r)
  <2>0. UNCHANGED <<host, row, session, mem, cancelled, chains>> /\ doing' = "nothing"
    BY <1>5 DEF recordStopping, HandlerDone, active
  <2> QED BY <2>0 DEF LifecycleInv, Parts, StoreAgreesWithMemory, OneExecution, ArchivedIsQuiet,
                      NothingActive, RunningIsStored, HalfDone
<1>6. CASE appendInterrupted(r)
  <2>0. UNCHANGED <<row, session, mem, cancelled, chains>> /\ doing' = "nothing"
        /\ host = "starting" /\ host' \in {"starting", "down"}
    BY <1>6 DEF appendInterrupted, HandlerDone, active, LifecycleInv, HalfDone
  <2> QED BY <2>0 DEF LifecycleInv, Parts, StoreAgreesWithMemory, OneExecution, ArchivedIsQuiet,
                      NothingActive, RunningIsStored, HalfDone
<1>7. CASE \E settled \in {"answered", "stop_requested", "error"} : agentSettles(r, settled)
  <2> PICK settled \in {"answered", "stop_requested", "error"} : agentSettles(r, settled)
    BY <1>7
  <2> DEFINE final == outcome(r, settled)
  <2>1. final \in TerminalRunStatus
    BY OutcomeFacts DEF LifecycleInv
  <2>2. /\ UNCHANGED <<host, doing, subject, session, cancelled>> /\ doing = "nothing"
        /\ host \in {"open", "closing"}
        /\ chains[r] > 0 /\ chains' = [chains EXCEPT ![r] = @ - 1]
    BY DEF agentSettles, process, Idle
  <2>3. \/ UNCHANGED <<row, mem>>
        \/ isCancellable(mem[r]) /\ row' = [row EXCEPT ![r] = final] /\ mem' = [mem EXCEPT ![r] = final]
    BY FinalizeFacts DEF agentSettles
  <2> HIDE DEF final
  <2> USE <1>0 DEF LifecycleInv
  <2>4. StoreAgreesWithMemory' BY <2>1, <2>2, <2>3 DEF StoreAgreesWithMemory, TerminalRunStatus
  <2>5. OneExecution' BY <2>1, <2>2, <2>3 DEF OneExecution
  <2>6. ArchivedIsQuiet' BY <2>1, <2>2, <2>3 DEF ArchivedIsQuiet, TerminalRunStatus
  <2>7. RunningIsStored' BY <2>1, <2>2, <2>3 DEF RunningIsStored, TerminalRunStatus
  <2>8. NothingActive' /\ HalfDone' BY <2>2 DEF NothingActive, HalfDone
  <2> QED BY <2>4, <2>5, <2>6, <2>7, <2>8 DEF Parts
<1>8. CASE agentSaves(r)
  <2>0. UNCHANGED <<host, doing, subject, row, session, mem, cancelled, chains>>
    BY <1>8 DEF agentSaves, process, store, active
  <2> QED BY <2>0 DEF LifecycleInv, Parts, StoreAgreesWithMemory, OneExecution, ArchivedIsQuiet,
                      NothingActive, RunningIsStored, HalfDone
<1>9. CASE forceFinish(r)
  <2>2. UNCHANGED <<host, doing, subject, session, cancelled, chains>> /\ doing = "nothing"
        /\ host = "closing"
    BY <1>9 DEF forceFinish, Idle
  <2>3. \/ UNCHANGED <<row, mem>>
        \/ row' = [row EXCEPT ![r] = "stopped"] /\ mem' = [mem EXCEPT ![r] = "stopped"]
    BY <1>9, FinalizeFacts DEF forceFinish
  <2> USE <1>0 DEF LifecycleInv
  <2>4. StoreAgreesWithMemory' BY <2>2, <2>3 DEF StoreAgreesWithMemory
  <2>5. OneExecution' BY <2>2, <2>3 DEF OneExecution
  <2>6. ArchivedIsQuiet' BY <2>2, <2>3 DEF ArchivedIsQuiet
  <2>7. RunningIsStored' BY <2>2, <2>3 DEF RunningIsStored
  <2>8. NothingActive' /\ HalfDone' BY <2>2 DEF NothingActive, HalfDone
  <2> QED BY <2>4, <2>5, <2>6, <2>7, <2>8 DEF Parts
<1>10. CASE interrupt(r)
  <2> USE <1>0, <1>10 DEF LifecycleInv
  <2>0. UNCHANGED <<session, mem, cancelled, chains>> /\ host' \in {"starting", "down"}
        /\ host = "starting"
    BY DEF interrupt, active
  <2>1. StoreAgreesWithMemory' /\ RunningIsStored' BY <2>0 DEF StoreAgreesWithMemory, RunningIsStored
  <2>2. OneExecution' BY <2>0 DEF OneExecution
  <2>3. ArchivedIsQuiet' BY <2>0 DEF ArchivedIsQuiet, interrupt
  <2>4. NothingActive' BY <2>0 DEF NothingActive
  <2>6. HalfDone' BY DEF HalfDone, interrupt, Continue, Idle
  <2> QED BY <2>1, <2>2, <2>3, <2>4, <2>6 DEF Parts
<1> QED BY <1>1, <1>2, <1>3, <1>4, <1>5, <1>6, <1>7, <1>8, <1>9, <1>10 DEF RunStep

(* Steps of a session. *)
LEMMA SessionInvariance ==
  ASSUME LifecycleInv, NEW s \in Session, SessionStep(s)
  PROVE  Parts'
<1> USE ConstantsAssumption DEF isCancellable, Cancellable
<1>1. CASE archiveSession(s)
  <2>0. UNCHANGED <<host, doing, subject, row, mem, cancelled, chains>>
    BY <1>1 DEF archiveSession, process, active
  <2>1. ArchivedIsQuiet'
    BY <1>1, <2>0 DEF ArchivedIsQuiet, archiveSession, mayArchive, RunsOf, LifecycleInv, TypeOK,
                      StoreAgreesWithMemory
  <2> QED BY <2>0, <2>1 DEF LifecycleInv, Parts, StoreAgreesWithMemory, OneExecution,
                            NothingActive, RunningIsStored, HalfDone
<1>2. CASE restoreSession(s)
  <2>0. UNCHANGED <<host, doing, subject, row, mem, cancelled, chains>>
    BY <1>2 DEF restoreSession, process, active
  <2>1. ArchivedIsQuiet'
    BY <1>2, <2>0 DEF ArchivedIsQuiet, restoreSession, LifecycleInv, TypeOK
  <2> QED BY <2>0, <2>1 DEF LifecycleInv, Parts, StoreAgreesWithMemory, OneExecution,
                            NothingActive, RunningIsStored, HalfDone
<1>3. CASE deleteSession(s)
  <2> USE <1>3 DEF LifecycleInv
  <2>0. UNCHANGED <<host, doing, subject, cancelled, chains>> /\ doing = "nothing"
        /\ host \in {"open", "closing"} /\ session[s] = "archived"
    BY DEF deleteSession, process, Idle
  <2>1. \A r \in Run : \/ row'[r] = row[r] /\ mem'[r] = mem[r]
                       \/ SessionOf[r] = s /\ row'[r] = "absent" /\ mem'[r] = "none"
    BY DEF deleteSession, RunsOf
  <2>2. \A r \in Run : SessionOf[r] = s => ~isCancellable(row[r])
    BY DEF deleteSession, RunsOf
  <2>3. \A r \in Run : session'[SessionOf[r]] # "live" => session[SessionOf[r]] # "live"
    BY <2>0 DEF deleteSession, TypeOK
  <2>4. StoreAgreesWithMemory' BY <2>0, <2>1 DEF StoreAgreesWithMemory
  <2>5. OneExecution' BY <2>0, <2>1, <2>2 DEF OneExecution
  <2>6. ArchivedIsQuiet' BY <2>1, <2>3 DEF ArchivedIsQuiet
  <2>7. RunningIsStored' BY <2>0, <2>1 DEF RunningIsStored
  <2>8. NothingActive' /\ HalfDone' BY <2>0 DEF NothingActive, HalfDone
  <2> QED BY <2>4, <2>5, <2>6, <2>7, <2>8 DEF Parts
<1>4. CASE compactSession(s)
  <2>0. UNCHANGED <<host, doing, subject, row, session, mem, cancelled, chains>>
    BY <1>4 DEF compactSession, process, store, active
  <2> QED BY <2>0 DEF LifecycleInv, Parts, StoreAgreesWithMemory, OneExecution, ArchivedIsQuiet,
                      NothingActive, RunningIsStored, HalfDone
<1> QED BY <1>1, <1>2, <1>3, <1>4 DEF SessionStep

(* A process that is gone holds nothing. *)
LEMMA GoneKeepsParts ==
  ASSUME LifecycleInv, ProcessGone, UNCHANGED <<row, session>>
  PROVE  Parts'
<1>1. NothingActive'
  BY DEF ProcessGone, NothingActive
<1>2. OneExecution'
  BY DEF ProcessGone, OneExecution
<1>3. ArchivedIsQuiet'
  BY DEF ProcessGone, ArchivedIsQuiet, LifecycleInv, isCancellable, Cancellable
<1>4. StoreAgreesWithMemory' /\ RunningIsStored' /\ HalfDone'
  BY DEF ProcessGone, HandlerDone, StoreAgreesWithMemory, RunningIsStored, HalfDone
<1> QED BY <1>1, <1>2, <1>3, <1>4 DEF Parts

(* Steps of the Host. *)
LEMMA HostInvariance ==
  ASSUME LifecycleInv, HostStep
  PROVE  Parts'
<1>1. CASE compactionEnds
  <2>0. UNCHANGED <<host, doing, subject, row, session, mem, cancelled, chains>>
    BY <1>1 DEF compactionEnds, process, store, active
  <2> QED BY <2>0 DEF LifecycleInv, Parts, StoreAgreesWithMemory, OneExecution, ArchivedIsQuiet,
                      NothingActive, RunningIsStored, HalfDone
<1>2. CASE close
  <2>0. UNCHANGED <<doing, subject, row, session, mem, chains>> /\ host = "open"
        /\ host' = "closing" /\ doing = "nothing"
    BY <1>2 DEF close, store, Idle
  <2> QED BY <2>0 DEF LifecycleInv, Parts, StoreAgreesWithMemory, OneExecution, ArchivedIsQuiet,
                      NothingActive, RunningIsStored, HalfDone
<1>3. CASE closed
  BY <1>3, GoneKeepsParts DEF closed, store
<1>4. CASE Crash
  BY <1>4, GoneKeepsParts DEF Crash, store
<1>5. CASE Boot
  <2>0. UNCHANGED <<doing, subject, row, session, mem, cancelled, chains>> /\ host = "down"
        /\ host' = "starting"
    BY <1>5 DEF Boot, store, active
  <2> QED BY <2>0 DEF LifecycleInv, Parts, StoreAgreesWithMemory, OneExecution, ArchivedIsQuiet,
                      NothingActive, RunningIsStored, HalfDone
<1>6. CASE opened
  <2>0. UNCHANGED <<doing, subject, row, session, mem, cancelled, chains>> /\ host = "starting"
        /\ host' = "open" /\ doing = "nothing"
    BY <1>6 DEF opened, store, active, Idle
  <2>1. \A r \in Run : ~isCancellable(row[r]) /\ mem[r] = "none" /\ chains[r] = 0
    BY <1>6, <2>0 DEF opened, isSessionDeleted, LifecycleInv, ArchivedIsQuiet, NothingActive
  <2> QED BY <2>0, <2>1 DEF LifecycleInv, Parts, StoreAgreesWithMemory, OneExecution,
            ArchivedIsQuiet, NothingActive, RunningIsStored, HalfDone, isCancellable, Cancellable
<1> QED BY <1>1, <1>2, <1>3, <1>4, <1>5, <1>6 DEF HostStep

LEMMA InitInvariance == Init => LifecycleInv
<1> SUFFICES ASSUME Init PROVE LifecycleInv
  OBVIOUS
<1>1. TypeOK
  <2> USE ConstantsAssumption DEF Init
  <2>1. /\ host \in {"starting", "open", "closing", "down"}
        /\ doing \in {"nothing", "starting", "stopping", "interrupting"}
        /\ subject \in Run \cup {NoRun} /\ gaveUp \subseteq Run
        /\ doing = "nothing" <=> subject = NoRun
        /\ compacting \in Run \cup {NoRun} /\ copyFresh \in BOOLEAN
    OBVIOUS
  <2>2. /\ row \in [Run -> RowStatus] /\ last \in [Run -> LifecycleEvent]
        /\ session \in [Session -> {"new", "live", "archived", "purged"}]
        /\ checkpoint \in [Run -> {"none", "latest", "stale"}]
        /\ mem \in [Run -> {"none"} \cup Cancellable \cup TerminalRunStatus]
    BY DEF RowStatus, LifecycleEvent
  <2>3. cancelled \in [Run -> BOOLEAN] /\ faulted \in BOOLEAN
    BY Zenon
  <2>4. crashes \in 0 .. MaxCrashes /\ resumes \in 0 .. MaxResumes
    OBVIOUS
  <2>5. chains \in [Run -> Nat]
    OBVIOUS
  <2> QED BY <2>1, <2>2, <2>3, <2>4, <2>5 DEF TypeOK
<1>2. Parts
  BY DEF Init, Parts, StoreAgreesWithMemory, OneExecution, ArchivedIsQuiet, NothingActive,
         RunningIsStored, HalfDone, isCancellable, Cancellable
<1> QED BY <1>1, <1>2 DEF LifecycleInv, Parts

LEMMA NextInvariance == LifecycleInv /\ [Next]_vars => LifecycleInv'
<1> SUFFICES ASSUME LifecycleInv, [Next]_vars PROVE LifecycleInv'
  OBVIOUS
<1>1. CASE \E r \in Run : RunStep(r)
  BY <1>1, RunTyping, RunInvariance DEF LifecycleInv, Parts
<1>2. CASE \E s \in Session : SessionStep(s)
  BY <1>2, SessionTyping, SessionInvariance DEF LifecycleInv, Parts
<1>3. CASE HostStep
  BY <1>3, HostTyping, HostInvariance DEF LifecycleInv, Parts
<1>4. CASE UNCHANGED vars
  <2>1. TypeOK'
    BY <1>4 DEF vars, process, store, active, compaction, LifecycleInv, TypeOK
  <2>2. Parts'
    BY <1>4 DEF vars, process, store, active, LifecycleInv, Parts, StoreAgreesWithMemory,
         OneExecution, ArchivedIsQuiet, NothingActive, RunningIsStored, HalfDone
  <2> QED BY <2>1, <2>2 DEF LifecycleInv, Parts
<1> QED BY <1>1, <1>2, <1>3, <1>4, NextCases

LEMMA LifecycleInvHolds == Spec => []LifecycleInv
<1> QED BY InitInvariance, NextInvariance, PTL DEF Spec

(* Every reachable state is well typed. *)
THEOREM LifecycleTypeCorrect == Spec => []TypeOK
BY LifecycleInvHolds, PTL DEF LifecycleInv

(* While the Host serves requests a row is in progress exactly when an active *)
(* object is, through failing writes, crashes and restarts.                   *)
THEOREM StoreAgreesWithMemoryHolds == Spec => []StoreAgreesWithMemory
BY LifecycleInvHolds, PTL DEF LifecycleInv

(* A Run never has two executions, and its one execution is on record. *)
THEOREM OneExecutionHolds == Spec => []OneExecution
BY LifecycleInvHolds, PTL DEF LifecycleInv

(* No Run is in progress in an archived or purged session. *)
THEOREM ArchivedIsQuietHolds == Spec => []ArchivedIsQuiet
BY LifecycleInvHolds, PTL DEF LifecycleInv

-----------------------------------------------------------------------------
(* A stop is honoured by every step. *)
LEMMA StopStep ==
  ASSUME TypeOK, [Next]_vars, NEW r \in Run, cancelled[r], row'[r] # row[r]
  PROVE  row'[r] \notin {"completed", "failed"}
<1>1. CASE \E q \in Run : RunStep(q)
  <2> PICK q \in Run : RunStep(q)
    BY <1>1
  <2>1. CASE createInSession(q)
    BY <2>1 DEF createInSession, TypeOK
  <2>2. CASE resume(q)
    BY <2>2 DEF resume, TypeOK
  <2>3. CASE stop(q)
    BY <2>3 DEF stop, TypeOK
  <2>4. CASE startAgent(q) \/ recordStopping(q) \/ appendInterrupted(q) \/ agentSaves(q)
    BY <2>4 DEF startAgent, recordStopping, appendInterrupted, agentSaves, store
  <2>5. CASE \E settled \in {"answered", "stop_requested", "error"} : agentSettles(q, settled)
    <3> PICK settled \in {"answered", "stop_requested", "error"} : agentSettles(q, settled)
      BY <2>5
    <3>1. row' = row \/ row' = [row EXCEPT ![q] = outcome(q, settled)]
      BY FinalizeFacts DEF agentSettles
    <3>2. cancelled[q] => outcome(q, settled) = "stopped"
      BY OutcomeFacts
    <3> QED BY <3>1, <3>2 DEF TypeOK
  <2>6. CASE forceFinish(q)
    <3>1. row' = row \/ row' = [row EXCEPT ![q] = "stopped"]
      BY <2>6, FinalizeFacts DEF forceFinish
    <3> QED BY <3>1 DEF TypeOK
  <2>7. CASE interrupt(q)
    BY <2>7 DEF interrupt, TypeOK
  <2> QED BY <2>1, <2>2, <2>3, <2>4, <2>5, <2>6, <2>7 DEF RunStep
<1>2. CASE \E s \in Session : SessionStep(s)
  BY <1>2 DEF SessionStep, archiveSession, restoreSession, deleteSession, compactSession, store
<1>3. CASE HostStep
  BY <1>3 DEF HostStep, compactionEnds, close, closed, Crash, Boot, opened, store
<1>4. CASE UNCHANGED vars
  BY <1>4 DEF vars, store
<1> QED BY <1>1, <1>2, <1>3, <1>4, NextCases

(* Once a stop was asked for, no step completes or fails the Run. *)
THEOREM StopIsHonouredHolds == Spec => StopIsHonoured
<1>1. TypeOK /\ [Next]_vars =>
        [\A r \in Run : cancelled[r] /\ row'[r] # row[r] => row'[r] \notin {"completed", "failed"}]_vars
  BY StopStep
<1> QED BY <1>1, LifecycleTypeCorrect, PTL DEF Spec, StopIsHonoured

-----------------------------------------------------------------------------
(* The stored record refines RunRecord. *)
LEMMA SettledIsFinish ==
  ASSUME LifecycleInv, NEW r \in Run, NEW status \in TerminalRunStatus,
         finalizeRun(r, status), host \in {"open", "closing"}
  PROVE  [Stored!Next]_(Stored!vars)
<1>1. CASE UNCHANGED <<row, last, mem>>
  BY <1>1 DEF Stored!vars
<1>2. CASE /\ isCancellable(mem[r])
           /\ row' = [row EXCEPT ![r] = status]
           /\ last' = [last EXCEPT ![r] = TerminalEvent(status)]
  <2>1. row[r] \in Stored!InProgress
    BY <1>2 DEF LifecycleInv, StoreAgreesWithMemory, isCancellable, Cancellable, Stored!InProgress
  <2>2. TerminalEvent(status) = Stored!EventOf(status)
    BY DEF TerminalEvent, Stored!EventOf
  <2>3. Stored!Finish(r, status)
    BY <1>2, <2>1, <2>2 DEF Stored!Finish
  <2> QED BY <2>3 DEF Stored!Next, Stored!Final, TerminalRunStatus
<1> QED BY <1>1, <1>2, FinalizeFacts

LEMMA RecordStep ==
  ASSUME LifecycleInv, [Next]_vars
  PROVE  [Stored!Next]_(Stored!vars)
<1>1. CASE \E r \in Run : RunStep(r)
  <2> PICK r \in Run : RunStep(r)
    BY <1>1
  <2>1. CASE createInSession(r)
    <3>1. Stored!Begin(r) \/ UNCHANGED <<row, last>>
      BY <2>1 DEF createInSession, mayCreate, Stored!Begin, Stored!InProgress
    <3> QED BY <3>1 DEF Stored!Next, Stored!vars
  <2>2. CASE resume(r)
    <3>1. Stored!Begin(r) \/ UNCHANGED <<row, last>>
      BY <2>2 DEF resume, mayResume, Stored!Begin, Stored!InProgress, LifecycleInv,
                  StoreAgreesWithMemory, isCancellable, Cancellable
    <3> QED BY <3>1 DEF Stored!Next, Stored!vars
  <2>3. CASE stop(r)
    <3>1. Stored!AskToStop(r) \/ UNCHANGED <<row, last>>
      BY <2>3 DEF stop, Stored!AskToStop, LifecycleInv, RunningIsStored
    <3> QED BY <3>1 DEF Stored!Next, Stored!vars
  <2>4. CASE startAgent(r)
    <3>1. Stored!Note(r, "run_started") \/ UNCHANGED <<row, last>>
      BY <2>4 DEF startAgent, Record, Stored!Note, LifecycleInv, HalfDone, RunningIsStored
    <3> QED BY <3>1 DEF Stored!Next, Stored!vars
  <2>5. CASE recordStopping(r)
    <3>1. Stored!Note(r, "run_stopping") \/ UNCHANGED <<row, last>>
      BY <2>5 DEF recordStopping, Record, Stored!Note, Stored!InProgress, LifecycleInv, HalfDone,
                  StoreAgreesWithMemory, isCancellable, Cancellable
    <3> QED BY <3>1 DEF Stored!Next, Stored!vars
  <2>6. CASE appendInterrupted(r)
    <3>1. Stored!Note(r, "run_interrupted") \/ UNCHANGED <<row, last>>
      BY <2>6 DEF appendInterrupted, Stored!Note, LifecycleInv, HalfDone
    <3> QED BY <3>1 DEF Stored!Next, Stored!vars
  <2>7. CASE \E settled \in {"answered", "stop_requested", "error"} : agentSettles(r, settled)
    <3> PICK settled \in {"answered", "stop_requested", "error"} : agentSettles(r, settled)
      BY <2>7
    <3>1. outcome(r, settled) \in TerminalRunStatus
      BY OutcomeFacts DEF LifecycleInv
    <3> QED BY <3>1, SettledIsFinish DEF agentSettles
  <2>8. CASE agentSaves(r)
    BY <2>8 DEF agentSaves, store, Stored!vars
  <2>9. CASE forceFinish(r)
    BY <2>9, SettledIsFinish DEF forceFinish, TerminalRunStatus
  <2>10. CASE interrupt(r)
    <3>1. Stored!Interrupt(r) \/ UNCHANGED <<row, last>>
      BY <2>10 DEF interrupt, Stored!Interrupt, Stored!InProgress, isCancellable, Cancellable
    <3> QED BY <3>1 DEF Stored!Next, Stored!vars
  <2> QED BY <2>1, <2>2, <2>3, <2>4, <2>5, <2>6, <2>7, <2>8, <2>9, <2>10 DEF RunStep
<1>2. CASE \E s \in Session : SessionStep(s)
  <2> PICK s \in Session : SessionStep(s)
    BY <1>2
  <2>1. CASE deleteSession(s)
    <3>1. Stored!Forget(RunsOf(s))
      BY <2>1 DEF deleteSession, RunsOf, Stored!Forget, Stored!InProgress, isCancellable, Cancellable
    <3>2. RunsOf(s) \in SUBSET Run
      BY DEF RunsOf
    <3> QED BY <3>1, <3>2 DEF Stored!Next
  <2>2. CASE archiveSession(s) \/ restoreSession(s) \/ compactSession(s)
    BY <2>2 DEF archiveSession, restoreSession, compactSession, store, Stored!vars
  <2> QED BY <2>1, <2>2 DEF SessionStep
<1>3. CASE HostStep
  BY <1>3 DEF HostStep, compactionEnds, close, closed, Crash, Boot, opened, store, Stored!vars
<1>4. CASE UNCHANGED vars
  BY <1>4 DEF vars, store, Stored!vars
<1> QED BY <1>1, <1>2, <1>3, <1>4, NextCases

(* The rows and events of the Host implement RunRecord. *)
THEOREM RunRecordRefined == Spec => ImplementsRunRecord
<1>1. Init => Stored!Init
  BY DEF Init, Stored!Init
<1>2. LifecycleInv /\ [Next]_vars => [Stored!Next]_(Stored!vars)
  BY RecordStep
<1> QED BY <1>1, <1>2, LifecycleInvHolds, PTL DEF Spec, ImplementsRunRecord, Stored!Spec
=============================================================================
