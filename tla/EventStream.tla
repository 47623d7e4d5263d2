---------------------------- MODULE EventStream ----------------------------
(***************************************************************************)
(* A page that shows a session (web/src/App.tsx) and the Host. The page    *)
(* follows the events of the session's latest Run: the log of the store,   *)
(* the live sink of host/event-stream-service.ts, the browser's            *)
(* EventSource with its reconnections (web/src/api.ts), and the hook       *)
(* web/src/hooks/useEventStream.ts, which streams while the page believes  *)
(* the Run is active and fetches the log once when it believes it ended.   *)
(* What it believes comes from GET /runs, asked after a terminal event, a  *)
(* stop and a resume; the answers may be late, out of order or lost. A     *)
(* message sent while a Run is active waits in the page's queue, and is    *)
(* posted as the next Run of the session when the Run is seen to have      *)
(* ended. An event is its sequence number; log gives its kind.             *)
(***************************************************************************)
EXTENDS Naturals, Sequences, FiniteSets

CONSTANTS
  MaxEvents,   \* bound: events of the log
  MaxCrashes,  \* bound: crashes of the Host
  MaxResumes,  \* bound: how often the Run is resumed
  MaxFails,    \* MAX_FAILS_BEFORE_CLOSE: first connections that may fail
  MaxTurns,    \* bound: Runs of the session
  MaxAsked,    \* bound: requests for the list of Runs the Host has not read yet
  MaxAnswers   \* bound: answers to them that are on their way at a time

ASSUME EventsAssumption ==
  /\ MaxEvents \in Nat \ {0, 1} /\ MaxCrashes \in Nat /\ MaxResumes \in Nat
  /\ MaxFails \in Nat \ {0} /\ MaxTurns \in Nat \ {0}
  /\ MaxAsked \in Nat \ {0} /\ MaxAnswers \in Nat \ {0}

VARIABLES
  up,         \* the Host runs
  turn,       \* the number of the session's latest Run, which is the Run below
  runStatus,  \* of the Run
  log,        \* its stored events, in order of seq: "event" or "terminal"
  sink,       \* the Host writes to the connection of the page
  crashes, resumes,
  wire,       \* written to the connection, not dispatched yet
  es,         \* the EventSource: "closed", "connecting" or "open"
  connectedOnce, failedAttempts,
  lastEventId, \* what the browser sends when it connects again
  opened,     \* the session is the current one of the page
  shown,      \* the number of the latest Run the page lists
  known,      \* the status the page lists it with
  wanted,     \* requests for the list that the Host has not read yet
  answers,    \* what the Host read for a request: the latest Run and its status
  queued,     \* messages in sendQueue
  post,       \* the POST of createRunNow: "none", "sent", "created" or "refused"
  direct,     \* it did not come out of the queue
  lastSeq, pending, events, loaded, \* the hook
  asked,      \* a snapshot request is in flight
  snapshot,   \* the length of its answer, 0 before the Host has read the log
  awaited,    \* the effect in force waits for it
  missed,     \* a snapshot failed, or the EventSource gave up (history)
  lost        \* a request for the list or a POST failed (history)

host == <<up, turn, runStatus, log, crashes, resumes>>
connection == <<sink, wire, es, connectedOnce, failedAttempts, lastEventId>>
hook == <<lastSeq, pending, events, loaded>>
fetch == <<asked, snapshot, awaited>>
list == <<shown, known, wanted, answers, lost>>
sending == <<queued, post, direct>>
streamVars == <<host, connection, opened, list, sending, hook, fetch, missed>>

Status == {"running", "stopping", "ended"}

Answer == [turn : 1..MaxTurns, status : Status]

Seqs == 1..MaxEvents

StreamTypeOK ==
  /\ up \in BOOLEAN /\ turn \in 1..MaxTurns /\ runStatus \in Status
  /\ log \in Seq({"event", "terminal"}) /\ Len(log) <= MaxEvents
  /\ crashes \in 0..MaxCrashes /\ resumes \in 0..MaxResumes
  /\ sink \in BOOLEAN /\ wire \in Seq(Seqs) /\ es \in {"closed", "connecting", "open"}
  /\ connectedOnce \in BOOLEAN /\ failedAttempts \in 0..MaxFails
  /\ lastEventId \in 0..MaxEvents
  /\ opened \in BOOLEAN /\ shown \in 1..turn /\ known \in Status
  /\ wanted \in 0..MaxAsked /\ answers \subseteq Answer /\ lost \in BOOLEAN
  /\ queued \in 0..(MaxTurns - 1) /\ post \in {"none", "sent", "created", "refused"}
  /\ direct \in BOOLEAN
  /\ lastSeq \in 0..MaxEvents /\ pending \in Seq(Seqs) /\ events \in Seq(Seqs)
  /\ loaded \in BOOLEAN /\ asked \in BOOLEAN /\ snapshot \in 0..MaxEvents
  /\ awaited \in BOOLEAN /\ missed \in BOOLEAN

(* The first Run of a session just created by this page: run_started is    *)
(* stored, and the user looks at something else.                           *)
StreamInit ==
  /\ up = TRUE /\ turn = 1 /\ runStatus = "running" /\ log = <<"event">>
  /\ crashes = 0 /\ resumes = 0
  /\ sink = FALSE /\ wire = <<>> /\ es = "closed"
  /\ connectedOnce = FALSE /\ failedAttempts = 0 /\ lastEventId = 0
  /\ opened = FALSE /\ shown = 1 /\ known = "running"
  /\ wanted = 0 /\ answers = {} /\ lost = FALSE
  /\ queued = 0 /\ post = "none" /\ direct = FALSE
  /\ lastSeq = 0 /\ pending = <<>> /\ events = <<>> /\ loaded = FALSE
  /\ asked = FALSE /\ snapshot = 0 /\ awaited = FALSE /\ missed = FALSE

(* A Timeline of the Run is on the page.                                   *)
mounted == opened /\ shown = turn

(* isLive of the Timeline.                                                 *)
Mode(s) == IF s = "ended" THEN "snapshot" ELSE "live"

(* The page sends GET /runs; at the bound it joins one not read yet.       *)
refreshRuns == wanted' = IF wanted < MaxAsked THEN wanted + 1 ELSE wanted

(* The sequence numbers after a, up to b.                                  *)
Between(a, b) == [i \in 1..(b - a) |-> a + i]

-----------------------------------------------------------------------------
(* The Host. An event is stored before it is written to the sink.          *)

Publish(kind) ==
  /\ Len(log) < MaxEvents
  /\ log' = Append(log, kind)
  /\ wire' = IF sink THEN Append(wire, Len(log) + 1) ELSE wire
  /\ UNCHANGED <<turn, crashes, sink, es, connectedOnce, failedAttempts, lastEventId>>

page == <<opened, list, sending, hook, fetch, missed>>

(* The last place of the log is kept for the end of the Run.               *)
Record ==
  /\ up /\ runStatus # "ended" /\ Len(log) + 1 < MaxEvents
  /\ Publish("event")
  /\ UNCHANGED <<up, runStatus, resumes, page>>

FinalizeRun ==
  /\ up /\ runStatus # "ended" /\ runStatus' = "ended"
  /\ Publish("terminal")
  /\ UNCHANGED <<up, resumes, page>>

(* handleStopRun, or handleSendQueuedNow: the page asks for the list when  *)
(* POST /stop is answered, and so while the Run may still be stopping.     *)
Stop ==
  /\ up /\ mounted /\ known = "running"
  /\ IF runStatus = "running"
       THEN Len(log) + 1 < MaxEvents /\ runStatus' = "stopping" /\ Publish("event")
       ELSE UNCHANGED <<turn, runStatus, log, crashes, connection>>
  /\ refreshRuns
  /\ UNCHANGED <<up, resumes, opened, shown, known, answers, lost, sending, hook, fetch, missed>>

(* resume() goes on in the same log, behind the terminal event.            *)
Resume ==
  /\ up /\ mounted /\ known = "ended" /\ runStatus = "ended"
  /\ resumes < MaxResumes /\ Len(log) + 1 < MaxEvents
  /\ runStatus' = "running" /\ resumes' = resumes + 1
  /\ Publish("event")
  /\ refreshRuns
  /\ UNCHANGED <<up, opened, shown, known, answers, lost, sending, hook, fetch, missed>>

(* What is on the wire may still arrive; requests are lost.                *)
Crash ==
  /\ up /\ crashes < MaxCrashes
  /\ up' = FALSE /\ crashes' = crashes + 1 /\ sink' = FALSE
  /\ UNCHANGED <<turn, runStatus, log, resumes, wire, es, connectedOnce, failedAttempts,
                 lastEventId, page>>

(* The scan of the constructor ends a Run that was active.                 *)
Boot ==
  /\ ~up /\ up' = TRUE
  /\ IF runStatus # "ended" THEN runStatus' = "ended" /\ Publish("terminal")
     ELSE UNCHANGED <<turn, runStatus, log, crashes, connection>>
  /\ UNCHANGED <<resumes, page>>

-----------------------------------------------------------------------------
(* The connection.                                                         *)

(* close(): what the source remembers goes with it.                        *)
Closed ==
  /\ es' = "closed" /\ wire' = <<>> /\ sink' = FALSE
  /\ connectedOnce' = FALSE /\ failedAttempts' = 0 /\ lastEventId' = 0

Connects ==
  /\ es' = "connecting" /\ wire' = <<>> /\ sink' = FALSE
  /\ connectedOnce' = FALSE /\ failedAttempts' = 0 /\ lastEventId' = 0

(* subscribe(): what the page lacks is replayed, then the sink is live, in *)
(* one synchronous stretch.                                                *)
Subscribe ==
  /\ es = "connecting" /\ up
  /\ es' = "open" /\ connectedOnce' = TRUE /\ failedAttempts' = 0
  /\ wire' = Between(lastEventId, Len(log)) /\ sink' = TRUE
  /\ UNCHANGED <<host, lastEventId, page>>

(* onerror before the first connection: five of them close the source.     *)
ConnectFails ==
  /\ es = "connecting" /\ ~up /\ ~connectedOnce
  /\ IF failedAttempts + 1 < MaxFails
       THEN /\ failedAttempts' = failedAttempts + 1
            /\ UNCHANGED <<sink, wire, es, connectedOnce, lastEventId, missed>>
       ELSE Closed /\ missed' = TRUE
  /\ UNCHANGED <<host, opened, list, sending, hook, fetch>>

(* Variant for mutation: an error closes the source, as for a finite one.  *)
DropForGood ==
  /\ es = "open"
  /\ Closed
  /\ UNCHANGED <<host, page>>

(* The connection is lost, and with it what was on the wire. The browser   *)
(* connects again by itself.                                               *)
Drop ==
  /\ es = "open"
  /\ es' = "connecting" /\ wire' = <<>> /\ sink' = FALSE
  /\ UNCHANGED <<host, connectedOnce, failedAttempts, lastEventId, page>>

-----------------------------------------------------------------------------
(* The hook.                                                               *)

(* Variant for mutation: a terminal event is not reported.                 *)
Unreported == UNCHANGED wanted

(* onRunTerminal. The Timeline passes it on while it knows the Run as      *)
(* running: a terminal event that comes when it is known as stopping is    *)
(* not reported.                                                           *)
ReportTerminal == IF known = "running" THEN refreshRuns ELSE UNCHANGED wanted

(* The callback of connectSSE: an event that was seen is dropped, and the  *)
(* terminal one is flushed at once and closes the source.                  *)
Deliver ==
  LET q == Head(wire)
      batch == Append(pending, q)
      next == /\ wire' = Tail(wire) /\ lastEventId' = q
              /\ UNCHANGED <<sink, es, connectedOnce, failedAttempts>>
  IN  /\ es = "open" /\ wire # <<>>
      /\ \/ /\ q <= lastSeq
            /\ next /\ UNCHANGED <<hook, wanted>>
         \/ /\ q > lastSeq /\ log[q] = "terminal"
            /\ lastSeq' = q /\ events' = events \o batch /\ pending' = <<>> /\ loaded' = TRUE
            /\ Closed /\ ReportTerminal
         \/ /\ q > lastSeq /\ log[q] # "terminal"
            /\ lastSeq' = q /\ pending' = batch
            /\ next /\ UNCHANGED <<events, loaded, wanted>>
      /\ UNCHANGED <<host, opened, shown, known, answers, lost, sending, fetch, missed>>

(* The next animation frame.                                               *)
FlushPending ==
  /\ pending # <<>>
  /\ events' = events \o pending /\ pending' = <<>>
  /\ UNCHANGED <<host, connection, opened, list, sending, lastSeq, loaded, fetch, missed>>

(* Variant for mutation: the sequence number of the old view is kept.      *)
ResetEventsOnly ==
  pending' = <<>> /\ events' = <<>> /\ loaded' = FALSE /\ UNCHANGED lastSeq

Reset == lastSeq' = 0 /\ pending' = <<>> /\ events' = <<>> /\ loaded' = FALSE

(* Cleanup of the effect in force, then the effect for mode m; k tells     *)
(* whether the events of this Run are there already.                       *)
Effect(m, k) ==
  \/ /\ m = "snapshot" /\ k
     /\ Closed /\ pending' = <<>> /\ awaited' = FALSE
     /\ UNCHANGED <<lastSeq, events, loaded, asked, snapshot>>
  \/ /\ m = "snapshot" /\ ~k
     /\ Closed /\ Reset /\ asked' = TRUE /\ awaited' = TRUE
     /\ UNCHANGED snapshot
  \/ /\ m = "live"
     /\ Connects /\ Reset /\ awaited' = FALSE
     /\ UNCHANGED <<asked, snapshot>>

(* A Timeline for the Run, known with status s, comes onto the page.       *)
MountTimeline(s) == Effect(Mode(s), FALSE) /\ missed' = FALSE

(* It goes; what it asked for may still be in flight.                      *)
UnmountTimeline ==
  /\ Closed /\ Reset /\ awaited' = FALSE
  /\ UNCHANGED <<asked, snapshot, missed>>

KeepTimeline == UNCHANGED <<connection, hook, fetch, missed>>

(* A request shared by whoever asks while it is in flight.                 *)
ReadSnapshot ==
  /\ up /\ asked /\ snapshot = 0
  /\ snapshot' = Len(log)
  /\ UNCHANGED <<host, connection, opened, list, sending, hook, asked, awaited, missed>>

SnapshotArrives ==
  /\ asked /\ snapshot > 0
  /\ asked' = FALSE /\ snapshot' = 0 /\ awaited' = FALSE
  /\ IF awaited THEN events' = Between(0, snapshot) /\ loaded' = TRUE
     ELSE UNCHANGED <<events, loaded>>
  /\ UNCHANGED <<host, connection, opened, list, sending, lastSeq, pending, missed>>

(* The failure is not shown and not retried.                               *)
SnapshotFails ==
  /\ asked
  /\ asked' = FALSE /\ snapshot' = 0 /\ awaited' = FALSE
  /\ missed' = (missed \/ awaited)
  /\ UNCHANGED <<host, connection, opened, list, sending, hook>>

-----------------------------------------------------------------------------
(* The page.                                                               *)

(* handleSelectSession, for this session and for another or none: the      *)
(* queue is emptied.                                                       *)
Open ==
  /\ ~opened /\ opened' = TRUE /\ queued' = 0
  /\ IF shown = turn THEN MountTimeline(known) ELSE KeepTimeline
  /\ UNCHANGED <<host, list, post, direct>>

Leave ==
  /\ opened /\ opened' = FALSE /\ queued' = 0
  /\ IF shown = turn THEN UnmountTimeline ELSE KeepTimeline
  /\ UNCHANGED <<host, list, post, direct>>

ReadRuns ==
  /\ up /\ wanted > 0 /\ Cardinality(answers) < MaxAnswers
  /\ wanted' = wanted - 1 /\ answers' = answers \cup {[turn |-> turn, status |-> runStatus]}
  /\ UNCHANGED <<host, connection, opened, shown, known, lost, sending, hook, fetch, missed>>

(* The failure only shows that the Host is offline: it is not retried.     *)
RefreshFails ==
  /\ ~up /\ wanted > 0
  /\ wanted' = wanted - 1 /\ lost' = TRUE
  /\ UNCHANGED <<host, connection, opened, shown, known, answers, sending, hook, fetch, missed>>

(* The answer replaces the list, whatever the page has learnt since it was *)
(* read: a Run that was created later goes from the page.                  *)
RunsArrive(a) ==
  /\ a \in answers /\ answers' = answers \ {a}
  /\ shown' = a.turn /\ known' = a.status
  /\ IF ~opened \/ (a.turn < turn /\ shown < turn) THEN KeepTimeline
     ELSE IF a.turn < turn THEN UnmountTimeline
     ELSE IF shown < turn THEN MountTimeline(a.status)
     ELSE IF Mode(a.status) # Mode(known)
       THEN Effect(Mode(a.status), loaded) /\ missed' = FALSE
     ELSE KeepTimeline
  /\ UNCHANGED <<host, opened, wanted, lost, sending>>

(* The Timeline of an earlier Run that is listed as running streams it     *)
(* again, up to its terminal event.                                        *)
ReplayEarlier ==
  /\ opened /\ shown < turn /\ known = "running" /\ up
  /\ refreshRuns
  /\ UNCHANGED <<host, connection, opened, shown, known, answers, lost, sending, hook, fetch,
                 missed>>

-----------------------------------------------------------------------------
(* Messages.                                                               *)

sessionBusy == known # "ended"

(* handleCreateRun. The input box holds back while its own POST is in      *)
(* flight. Bound: as many messages as the session may have Runs.           *)
Send ==
  /\ opened /\ ~(post # "none" /\ direct)
  /\ turn + queued + (IF post = "sent" THEN 1 ELSE 0) < MaxTurns
  /\ IF sessionBusy \/ post # "none" \/ queued > 0
       THEN queued' = queued + 1 /\ UNCHANGED <<post, direct>>
       ELSE post' = "sent" /\ direct' = TRUE /\ UNCHANGED queued
  /\ UNCHANGED <<host, connection, opened, list, hook, fetch, missed>>

DeleteQueued ==
  /\ queued > 0 /\ queued' = queued - 1
  /\ UNCHANGED <<host, connection, opened, list, post, direct, hook, fetch, missed>>

(* The effect that sends the first message of the queue.                   *)
Dispatch ==
  /\ opened /\ ~sessionBusy /\ queued > 0 /\ post = "none"
  /\ queued' = queued - 1 /\ post' = "sent"
  /\ UNCHANGED <<host, connection, opened, list, direct, hook, fetch, missed>>

(* create(): a new Run, which the page does not list yet.                  *)
CreateRun ==
  /\ up /\ post = "sent" /\ runStatus = "ended" /\ turn < MaxTurns
  /\ turn' = turn + 1 /\ runStatus' = "running" /\ log' = <<"event">> /\ resumes' = 0
  /\ post' = "created"
  /\ Closed /\ Reset /\ asked' = FALSE /\ snapshot' = 0 /\ awaited' = FALSE /\ missed' = FALSE
  /\ UNCHANGED <<up, crashes, opened, list, queued, direct>>

(* The session has a Run in progress already.                              *)
RefuseRun ==
  /\ up /\ post = "sent" /\ runStatus # "ended"
  /\ post' = "refused"
  /\ UNCHANGED <<host, connection, opened, list, queued, direct, hook, fetch, missed>>

(* The answer of the POST: the page turns to the session of the new Run,   *)
(* and lists it unless it does already.                                    *)
RunCreated ==
  /\ post = "created" /\ post' = "none"
  /\ opened' = TRUE /\ shown' = turn
  /\ known' = IF shown = turn THEN known ELSE "running"
  /\ IF mounted THEN KeepTimeline ELSE MountTimeline(known')
  /\ direct' = FALSE
  /\ UNCHANGED <<host, wanted, answers, lost, queued>>

(* An alert; a message out of the queue is not put back.                   *)
RunRefused ==
  /\ post = "refused" /\ post' = "none" /\ direct' = FALSE
  /\ UNCHANGED <<host, connection, opened, list, queued, hook, fetch, missed>>

PostFails ==
  /\ ~up /\ post # "none"
  /\ post' = "none" /\ direct' = FALSE /\ lost' = TRUE
  /\ UNCHANGED <<host, connection, opened, shown, known, wanted, answers, queued, hook, fetch,
                 missed>>

StreamNext ==
  \/ Record \/ FinalizeRun \/ Stop \/ Resume \/ Crash \/ Boot
  \/ Subscribe \/ ConnectFails \/ Drop \/ Deliver \/ FlushPending
  \/ ReadSnapshot \/ SnapshotArrives \/ SnapshotFails
  \/ Open \/ Leave \/ ReadRuns \/ RefreshFails \/ ReplayEarlier
  \/ \E a \in Answer : RunsArrive(a)
  \/ Send \/ DeleteQueued \/ Dispatch
  \/ CreateRun \/ RefuseRun \/ RunCreated \/ RunRefused \/ PostFails

StreamSpec == StreamInit /\ [][StreamNext]_streamVars

(* The shell starts the Host again; a browser connects again every 3 s,    *)
(* notices a dead connection, draws frames, and gets something through a   *)
(* connection that opens again and again; a request settles; React runs    *)
(* the effects of what it has rendered.                                    *)
StreamFairness ==
  /\ WF_streamVars(Boot) /\ WF_streamVars(Subscribe) /\ WF_streamVars(~sink /\ Drop)
  /\ SF_streamVars(Deliver) /\ WF_streamVars(FlushPending)
  /\ WF_streamVars(ReadSnapshot) /\ WF_streamVars(SnapshotArrives \/ SnapshotFails)
  /\ SF_streamVars(ReadRuns) /\ WF_streamVars(\E a \in Answer : RunsArrive(a))
  /\ WF_streamVars(Dispatch) /\ WF_streamVars(CreateRun \/ RefuseRun)
  /\ WF_streamVars(RunCreated \/ RunRefused)

StreamFairSpec == StreamSpec /\ StreamFairness

-----------------------------------------------------------------------------
(* Across reconnections, replays, snapshots and changes of mode the page   *)
(* shows a beginning of the log: no event lost, doubled or out of order.   *)
ViewIsPrefix ==
  /\ events \o pending = Between(0, Len(events) + Len(pending))
  /\ Len(events) + Len(pending) <= Len(log)

(* Once a Run that was never resumed has ended, an open page shows all of  *)
(* it some day, unless a snapshot failed or the source gave up.            *)
CatchesUp ==
  (mounted /\ runStatus = "ended")
    ~> (events = Between(0, Len(log)) \/ ~mounted \/ missed \/ resumes > 0)

(* What else may keep a message waiting: the user turned away or resumed   *)
(* the Run, the Run has gone from the list, or something was lost.         *)
Excused == ~opened \/ resumes > 0 \/ shown # turn \/ missed \/ lost

Waits(n) == queued = n /\ opened /\ runStatus = "ended"

Moves(n) == queued # n \/ runStatus # "ended"

(* A queued message does not wait for ever once the Run has ended, if the  *)
(* page does not come to know the Run as stopping.                         *)
QueueMoves ==
  \A n \in 1..(MaxTurns - 1) : Waits(n) ~> (Moves(n) \/ Excused \/ known = "stopping")

(* App.tsx of handleSendQueuedNow: when the Run it has stopped ends, the   *)
(* effect sends the first message of the queue.                            *)
QueueMovesAfterStop ==
  \A n \in 1..(MaxTurns - 1) : Waits(n) ~> (Moves(n) \/ Excused)
=============================================================================
