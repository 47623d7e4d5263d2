--------------------------- MODULE SessionContext ---------------------------
(***************************************************************************)
(* What a session remembers: the transcript of its Runs, the summary that  *)
(* replaces the oldest part of it, and the reminders the harness owes the  *)
(* model.  A Run keeps all three in memory and writes them to its          *)
(* checkpoint together; a later Run of the session inherits the transcript *)
(* and the summary from a checkpoint (conversationHistory), a resumed Run  *)
(* gets all three back, and /compact (session-service.ts) rewrites the     *)
(* summary of a checkpoint while no Run executes.                          *)
(*                                                                         *)
(* One Run of the session executes at a time; the await of a summary       *)
(* changes nothing of the session, so a turn is prepared in one step.      *)
(***************************************************************************)
EXTENDS ContextWindow

CONSTANTS
  ContextTokens,   \* plan, scratchpad and evidence text of the context message
  SummaryTokens,   \* a summary
  ReminderTokens,  \* a reminder
  Kind,            \* kinds of reminders: budget, repeated calls, goal, lack of progress
  ToolTokens,      \* what a tool result may take
  MaxRuns,         \* Runs in the session
  MaxMessages,     \* bound on a transcript
  MaxOwn,          \* bound on the messages of one Run in it
  MaxResumes       \* bound on resumes

Run == 1 .. MaxRuns

ASSUME SessionAssumption ==
  /\ ContextTokens \in Nat /\ SummaryTokens \in Nat /\ ReminderTokens \in Nat
  /\ ToolTokens \subseteq Nat /\ MaxRuns \in Nat /\ MaxMessages \in Nat
  /\ MaxOwn \in Nat /\ MaxResumes \in Nat

VARIABLES
  status,     \* the Runs: "none", "running", "interrupted", "ended"
  apart,      \* the Runs whose transcript is not carried on: read-only evidence Runs
              \* and Runs whose final draft was rejected
  file,       \* checkpoints: [messages, memory, owed]
  live,       \* the Run that executes, 0 if none
  phase,      \* of its turn: "boundary", "asked", "working", "worked"
  messages,   \* its transcript, without the system message
  memory,     \* ContextHarnessState: summarizedMessageCount, the pending reminders and,
              \* for the summary, the messages it was made from
  request,    \* what the model was sent, and the reminders in it
  owed,       \* history: reminders raised that no answered request carried
  resumes     \* bound: resumes so far

vars == <<status, apart, file, live, phase, messages, memory, request, owed, resumes>>

Fresh     == [count |-> 0, covers |-> <<>>, pending |-> {}]
NoFile    == [messages |-> <<>>, memory |-> Fresh, owed |-> {}]
NoRequest == [kept |-> <<>>, emergency |-> FALSE, shown |-> {}]

Message(role, tokens) == [role |-> role, tokens |-> tokens, run |-> live]

-----------------------------------------------------------------------------
(* What a new Run inherits *)

(* The task and the result of a Run, in place of its transcript. *)
Pair(r) == <<[role |-> "user", tokens |-> 1, run |-> r],
             [role |-> "assistant", tokens |-> 1, run |-> r]>>

(* conversationHistory, one more Run: its checkpoint replaces what came before it; *)
(* of a Run that stands apart the pair is added, and the memory begins anew; a Run *)
(* without a checkpoint is told by its pair if none with one follows.              *)
Nothing == [messages |-> <<>>, untold |-> <<>>, memory |-> Fresh]

Told(before, r) ==
  CASE status[r] # "ended" -> before
    [] status[r] = "ended" /\ r \in apart ->
         [messages |-> before.messages \o Pair(r), untold |-> <<>>, memory |-> Fresh]
    [] status[r] = "ended" /\ r \notin apart /\ file[r] # NoFile ->
         [messages |-> file[r].messages, untold |-> <<>>, memory |-> file[r].memory]
    [] OTHER -> [before EXCEPT !.untold = @ \o Pair(r)]

Inherited[r \in 0 .. MaxRuns] == IF r = 0 THEN Nothing ELSE Told(Inherited[r - 1], r)

Conversation == Inherited[MaxRuns].messages \o Inherited[MaxRuns].untold

(* Variant for mutation: the memory of a checkpoint outlives its transcript. *)
ConversationMemoryKept ==
  LET filed  == {r \in Run : file[r] # NoFile /\ status[r] = "ended"}
  IN IF filed = {} THEN Fresh ELSE file[Greatest(filed)].memory

ConversationMemory == Inherited[MaxRuns].memory

-----------------------------------------------------------------------------
Init ==
  /\ status = [r \in Run |-> "none"] /\ apart = {}
  /\ file = [r \in Run |-> NoFile]
  /\ live = 0 /\ phase = "boundary"
  /\ messages = <<>> /\ memory = Fresh /\ request = NoRequest /\ owed = {}
  /\ resumes = 0

(* Nothing stays in memory of a Run that does not execute. *)
Dismissed ==
  /\ live' = 0 /\ phase' = "boundary"
  /\ messages' = <<>> /\ memory' = Fresh /\ request' = NoRequest /\ owed' = {}

(* save: transcript and harness state go into the checkpoint of the Run together. *)
Saved(m, s, o) == file' = [file EXCEPT ![live] = [messages |-> s, memory |-> m, owed |-> o]]

(* The Run is over: nothing of it stays but its checkpoint, written last, and its   *)
(* status.  Its transcript may be one that later Runs are not to inherit.           *)
Finish(m, s, o) ==
  /\ Saved(m, s, o)
  /\ status' = [status EXCEPT ![live] = "ended"]
  /\ apart' \in {apart \cup {live}, apart \ {live}}
  /\ Dismissed /\ UNCHANGED resumes

(* A reminder waits in the harness until the model has answered a request with it. *)
Reminded(m, kinds) == [m EXCEPT !.pending = @ \cup kinds]

(* createInSession, createTranscript, createAgentContext: summary and transcript   *)
(* are carried on, the reminders are not.                                          *)
CreateRun(r) ==
  /\ live = 0 /\ status[r] = "none" /\ \A q \in Run : q < r => status[q] # "none"
  /\ Len(Conversation) + 2 <= MaxMessages
  /\ live' = r /\ status' = [status EXCEPT ![r] = "running"]
  /\ messages' = Append(Conversation, [role |-> "user", tokens |-> 1, run |-> r])
  /\ memory' = [ConversationMemory EXCEPT !.pending = {}]
  /\ UNCHANGED <<apart, file, phase, request, owed, resumes>>

(* resume: transcript and memory come from the Run's own checkpoint. *)
Resume(r) ==
  /\ live = 0 /\ status[r] # "none" /\ file[r] # NoFile
  /\ resumes < MaxResumes /\ resumes' = resumes + 1
  /\ live' = r /\ status' = [status EXCEPT ![r] = "running"]
  /\ messages' = file[r].messages /\ memory' = file[r].memory /\ owed' = file[r].owed
  /\ UNCHANGED <<apart, file, phase, request>>

-----------------------------------------------------------------------------
(* A turn is prepared *)

(* compactConversation, once the summarizer answered: the count moves on by what   *)
(* the summary, made from the earlier summary and these messages, stands for.      *)
Compacted(s, m, target) ==
  LET count   == HiddenCount(s, m.count)
      removed == Removable(s, m.count, target)
  IN [m EXCEPT !.count = count + removed,
               !.covers = @ \o SubSeq(s, count + 1, count + removed)]

(* A summary is kept if it is shorter than what it stands for. *)
Worthwhile(s, m, target) ==
  LET view    == Relieved(View(s, m.count))
      removed == Removable(s, m.count, target)
  IN removed > 0 /\ SummaryTokens < Tokens(SubSeq(view, 1, removed))

Pressed == Input(Relieved(View(messages, memory.count))) > Trigger

(* A summary is asked for; its cost may pass a threshold of the budget. *)
Asks == Pressed /\ Removable(messages, memory.count, Retain) > 0

MemoryAfter(summarised, raised) ==
  Reminded(IF summarised THEN Compacted(messages, memory, Retain)
           ELSE [memory EXCEPT !.count = HiddenCount(messages, @)], raised)

(* The context message: it carries the summary and every pending reminder. *)
ContextSize(m) ==
  ContextTokens + (IF m.covers = <<>> THEN 0 ELSE SummaryTokens)
                + ReminderTokens * Cardinality(m.pending)

(* prepareTurn: the summary may fail or be thrown away. *)
MayPrepare(summarised, raised) ==
  /\ live # 0 /\ phase = "boundary"
  /\ summarised => Asks /\ Worthwhile(messages, memory, Retain)
  /\ raised # {} => Asks

OverBudget(view, m) == Input(view.kept) + ContextSize(m) > MaxInput

(* The turn fits and is sent; a threshold passed by the summary is saved first. *)
Send ==
  \E summarised \in BOOLEAN, raised \in SUBSET Kind :
    LET m    == MemoryAfter(summarised, raised)
        view == RequestView(messages, m.count, Pressed)
    IN /\ MayPrepare(summarised, raised) /\ ~OverBudget(view, m)
       /\ memory' = m /\ owed' = owed \cup raised
       /\ \/ raised = {} /\ UNCHANGED file
          \/ Asks /\ Saved(m, messages, owed')
       /\ phase' = "asked"
       /\ request' = [kept |-> view.kept, emergency |-> view.emergency, shown |-> m.pending]
       /\ UNCHANGED <<status, apart, live, messages, resumes>>

(* It does not fit, and the Run fails. *)
Refuse ==
  \E summarised \in BOOLEAN, raised \in SUBSET Kind :
    LET m == MemoryAfter(summarised, raised) IN
    /\ MayPrepare(summarised, raised)
    /\ OverBudget(RequestView(messages, m.count, Pressed), m)
    /\ Finish(m, messages, owed \cup raised)

-----------------------------------------------------------------------------
(* The model's answer *)

Room(n) ==
  /\ Len(messages) + n <= MaxMessages
  /\ Cardinality({i \in DOMAIN messages : messages[i].run = live}) + n <= MaxOwn

Acknowledged == [memory EXCEPT !.pending = {}]

(* Variant for mutation: the reminders are cleared after the budget was settled. *)
AnsweredSettledFirst(raised) ==
  /\ memory' = Acknowledged
  /\ owed' = (owed \ request.shown) \cup raised

(* acknowledge, then settleBudget: the reminders the request carried are done with, *)
(* and what the answer cost may raise a new one.                                    *)
Answered(raised) ==
  /\ memory' = Reminded(Acknowledged, raised)
  /\ owed' = (owed \ request.shown) \cup raised

(* Tool calls follow; a threshold that was passed is saved at once. *)
AnswerTool ==
  \E raised \in SUBSET Kind :
    /\ phase = "asked" /\ Room(2)
    /\ messages' = Append(messages, Message("assistant", 1))
    /\ Answered(raised)
    /\ \/ raised = {} /\ UNCHANGED file
       \/ Saved(memory', messages', owed')
    /\ phase' = "working" /\ request' = NoRequest
    /\ UNCHANGED <<status, apart, live, resumes>>

(* An empty answer, or a job that ended meanwhile: the Run goes on with a message  *)
(* in the user's place.                                                            *)
AnswerNudged ==
  \E raised \in SUBSET Kind :
    /\ phase = "asked" /\ Room(2)
    /\ messages' = messages \o <<Message("assistant", 1), Message("user", 1)>>
    /\ Answered(raised) /\ Saved(memory', messages', owed')
    /\ phase' = "boundary" /\ request' = NoRequest
    /\ UNCHANGED <<status, apart, live, resumes>>

(* The final answer: the Run is completed. *)
AnswerFinal ==
  \E raised \in SUBSET Kind :
    /\ phase = "asked" /\ Room(1)
    /\ Finish(Reminded(Acknowledged, raised),
              Append(messages, Message("assistant", 1)), (owed \ request.shown) \cup raised)

(* A tool result, saved unless the tool was not run at all for the budget; a        *)
(* repeated call raises a reminder.                                                 *)
ToolResult ==
  \E tokens \in ToolTokens, raised \in SUBSET Kind :
    /\ phase \in {"working", "worked"} /\ Room(1)
    /\ messages' = Append(messages, Message("tool", tokens))
    /\ memory' = Reminded(memory, raised) /\ owed' = owed \cup raised
    /\ \/ raised = {} /\ tokens = 1 /\ UNCHANGED file
       \/ Saved(memory', messages', owed')
    /\ phase' = "worked"
    /\ UNCHANGED <<status, apart, live, request, resumes>>

(* observeToolTurn: the turn is over; the goal or the progress may be due. *)
TurnObserved ==
  \E raised \in SUBSET Kind :
    /\ phase = "worked"
    /\ memory' = Reminded(memory, raised) /\ owed' = owed \cup raised
    /\ Saved(memory', messages, owed')
    /\ phase' = "boundary"
    /\ UNCHANGED <<status, apart, live, messages, request, resumes>>

(* The instruction to wrap up, or the notice of an ended job, before a turn. *)
Notice ==
  /\ live # 0 /\ phase = "boundary" /\ Room(1)
  /\ messages' = Append(messages, Message("user", 1))
  /\ Saved(memory, messages', owed)
  /\ UNCHANGED <<status, apart, live, phase, memory, request, owed, resumes>>

(* The catch of runAgent: an error or a stop, from anywhere in the turn. *)
FailRun ==
  \E raised \in SUBSET Kind :
    /\ live # 0
    /\ Finish(Reminded(memory, raised), messages, owed \cup raised)

(* The context cannot be made (createAgentContext): no checkpoint is written. *)
FailUnstarted ==
  /\ live # 0 /\ phase = "boundary" /\ file[live] = NoFile
  /\ status' = [status EXCEPT ![live] = "ended"]
  /\ Dismissed
  /\ UNCHANGED <<apart, file, resumes>>

-----------------------------------------------------------------------------
(* Around the Run *)

(* The Host ends; the next one marks the Run interrupted. *)
Crash ==
  /\ live # 0
  /\ status' = [status EXCEPT ![live] = "interrupted"]
  /\ Dismissed
  /\ UNCHANGED <<apart, file, resumes>>

(* compactSession: everything before the last user message of the newest checkpoint *)
(* goes, while no Run of the session executes.                                      *)
Compact ==
  LET filed == {r \in Run : file[r] # NoFile}
      r     == Greatest(filed)
  IN /\ live = 0 /\ filed # {}
     /\ Worthwhile(file[r].messages, file[r].memory, 0)
     /\ file' = [file EXCEPT ![r].memory = Compacted(file[r].messages, @, 0)]
     /\ UNCHANGED <<status, apart, live, phase, messages, memory, request, owed, resumes>>

Next ==
  \/ \E r \in Run : CreateRun(r) \/ Resume(r)
  \/ Send \/ Refuse
  \/ AnswerTool \/ AnswerNudged \/ AnswerFinal \/ ToolResult \/ TurnObserved \/ Notice
  \/ FailRun \/ FailUnstarted \/ Crash \/ Compact

Spec == Init /\ [][Next]_vars

-----------------------------------------------------------------------------
(* Type invariant: the shape of what a Run holds in memory and of its checkpoint. *)
Msg      == [role : {"user", "assistant", "tool"}, tokens : Nat, run : Run]
Memories == [count : Nat, covers : Seq(Msg), pending : SUBSET Kind]
Files    == [messages : Seq(Msg), memory : Memories, owed : SUBSET Kind]

TypeOK ==
  /\ status \in [Run -> {"none", "running", "interrupted", "ended"}]
  /\ apart \subseteq Run /\ live \in {0} \cup Run
  /\ file \in [Run -> Files]
  /\ phase \in {"boundary", "asked", "working", "worked"}
  /\ messages \in Seq(Msg) /\ memory \in Memories
  /\ request.shown \subseteq Kind /\ owed \subseteq Kind
  /\ resumes \in 0 .. MaxResumes

(* The count says what the summary replaces. *)
Aligned(m, s) ==
  /\ m.covers = SubSeq(s, 1, m.count)
  /\ m.count > 0 => m.count < Len(s) /\ s[m.count + 1].role = "user"

(* The summary and the count that says how many messages it replaces are kept      *)
(* apart from the transcript, over Runs, resumes and /compact: what is hidden from *)
(* the model is exactly what its summary was made from, in order and without gaps, *)
(* and it ends where a turn ends (context-harness.ts buildModelView).              *)
SummaryIsOfTheHidden ==
  /\ live # 0 => Aligned(memory, messages)
  /\ \A r \in Run : Aligned(file[r].memory, file[r].messages)

(* A reminder no answered request carried is still waiting, in memory and in every *)
(* checkpoint (agent.ts: acknowledge before the budget is settled, never after).   *)
RemindersKept ==
  /\ owed \subseteq memory.pending
  /\ \A r \in Run : file[r].owed \subseteq file[r].memory.pending
=============================================================================
