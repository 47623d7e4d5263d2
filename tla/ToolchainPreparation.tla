------------------------ MODULE ToolchainPreparation ------------------------
(***************************************************************************)
(* host/toolchain-preparation-coordinator.ts: failed tool calls ask for a  *)
(* missing package; the first request owns a card the user decides on and, *)
(* if approved, one Homebrew install, and requests for the same package    *)
(* made meanwhile share its result.  One package is modelled, on macOS,    *)
(* with the network on (every other request is answered "unavailable" at   *)
(* once, and changes nothing).                                             *)
(*                                                                         *)
(* The steps after a decision and after the install's promise resolves are *)
(* continuations of their own, so anything may happen before they run.     *)
(***************************************************************************)
EXTENDS Naturals, FiniteSets

CONSTANTS
  Call,    \* tool calls that ask for the package, at most once each
  NoCall

ASSUME CallAssumption == NoCall \notin Call /\ IsFiniteSet(Call)

VARIABLES
  stage,            \* of a call: "idle", "owner" of a card, "merged", "answered"
  on,               \* the owner whose install a call awaits
  signal,           \* is the call's signal aborted?
  answer,           \* the status of the result the call got
  pending,          \* pending: an owner's card, "absent" when not in the table
  cancelRequested,
  controller,       \* the AbortController handed to the installer
  decision,         \* the decision promise, "none" until resolved
  install,          \* "none", "deciding", "installing", "resolved"
  outcome,          \* the result the install promise resolves with
  active,           \* activeInstalls: the owner in the table, or NoCall
  available,        \* does the live capability snapshot show the tool?
  approved,         \* history: the cards the user approved
  resolvedEvents    \* history: toolchain_preparation_resolved events of a call

card   == <<pending, cancelRequested, controller, decision>>
shared == <<install, outcome, active, available>>
calls  == <<stage, on, answer, resolvedEvents>>
vars   == <<calls, signal, card, shared, approved>>

Status   == {"prepared", "denied", "aborted", "timed_out", "failed"}
NoAnswer == "none"

Init ==
  /\ stage = [c \in Call |-> "idle"] /\ on = [c \in Call |-> NoCall]
  /\ signal = [c \in Call |-> FALSE] /\ answer = [c \in Call |-> NoAnswer]
  /\ pending = [c \in Call |-> "absent"] /\ cancelRequested = [c \in Call |-> FALSE]
  /\ controller = [c \in Call |-> FALSE] /\ decision = [c \in Call |-> "none"]
  /\ install = [c \in Call |-> "none"] /\ outcome = [c \in Call |-> NoAnswer]
  /\ active = NoCall /\ available = FALSE
  /\ approved = {} /\ resolvedEvents = [c \in Call |-> 0]

Answer(c, status) ==
  /\ stage' = [stage EXCEPT ![c] = "answered"]
  /\ answer' = [answer EXCEPT ![c] = status]

-----------------------------------------------------------------------------
(* request *)

(* The live snapshot already has the tool. *)
RequestAvailable(c) ==
  /\ stage[c] = "idle" /\ available
  /\ Answer(c, "prepared")
  /\ UNCHANGED <<on, resolvedEvents, signal, card, shared, approved>>

(* Another request for the package is on its way: await it, without a card; a *)
(* call already cancelled is answered at once.                                *)
RequestMerged(c) ==
  /\ stage[c] = "idle" /\ ~available /\ active # NoCall
  /\ on' = [on EXCEPT ![c] = active]
  /\ IF signal[c]
     THEN Answer(c, "aborted") /\ resolvedEvents' = [resolvedEvents EXCEPT ![c] = @ + 1]
     ELSE stage' = [stage EXCEPT ![c] = "merged"] /\ UNCHANGED <<answer, resolvedEvents>>
  /\ UNCHANGED <<signal, card, shared, approved>>

(* The first request: card, timer and shared install; decided at once if the *)
(* call was cancelled already.                                               *)
RequestOwned(c) ==
  /\ stage[c] = "idle" /\ ~available /\ active = NoCall
  /\ stage' = [stage EXCEPT ![c] = "owner"]
  /\ on' = [on EXCEPT ![c] = c]
  /\ active' = c
  /\ install' = [install EXCEPT ![c] = "deciding"]
  /\ pending' = [pending EXCEPT ![c] = IF signal[c] THEN "absent" ELSE "waiting"]
  /\ decision' = [decision EXCEPT ![c] = IF signal[c] THEN "aborted" ELSE "none"]
  /\ UNCHANGED <<answer, resolvedEvents, signal, cancelRequested, controller, outcome, available, approved>>

-----------------------------------------------------------------------------
(* Decisions on a card *)

(* resolve(approved = true) *)
Approve(c) ==
  /\ pending[c] = "waiting"
  /\ pending' = [pending EXCEPT ![c] = "preparing"]
  /\ decision' = [decision EXCEPT ![c] = "approved"]
  /\ approved' = approved \cup {c}
  /\ UNCHANGED <<calls, signal, cancelRequested, controller, shared>>

(* resolve(approved = false): the card stays in the table until the install ends. *)
Deny(c) ==
  /\ pending[c] = "waiting"
  /\ pending' = [pending EXCEPT ![c] = "finishing"]
  /\ decision' = [decision EXCEPT ![c] = "denied"]
  /\ UNCHANGED <<calls, signal, cancelRequested, controller, shared, approved>>

(* Variant for mutation: a cancelled card loses its timer and is not decided. *)
CancelUndecided(c) ==
  /\ pending[c] \in {"waiting", "preparing"} /\ ~cancelRequested[c]
  /\ cancelRequested' = [cancelRequested EXCEPT ![c] = TRUE]
  /\ pending' = [pending EXCEPT ![c] = IF @ = "waiting" THEN "finishing" ELSE @]
  /\ controller' = [controller EXCEPT ![c] = @ \/ pending[c] = "preparing"]
  /\ UNCHANGED <<decision, calls, signal, shared, approved>>

(* cancel: an undecided card is decided, an approved install is told to end. *)
Cancel(c) ==
  /\ pending[c] \in {"waiting", "preparing"} /\ ~cancelRequested[c]
  /\ cancelRequested' = [cancelRequested EXCEPT ![c] = TRUE]
  /\ IF pending[c] = "waiting"
     THEN /\ pending' = [pending EXCEPT ![c] = "finishing"]
          /\ decision' = [decision EXCEPT ![c] = "aborted"]
          /\ UNCHANGED controller
     ELSE controller' = [controller EXCEPT ![c] = TRUE] /\ UNCHANGED <<pending, decision>>
  /\ UNCHANGED <<calls, signal, shared, approved>>

(* Nobody answered within APPROVAL_TIMEOUT_MS; every decision clears the timer. *)
TimeOut(c) ==
  /\ pending[c] = "waiting"
  /\ pending' = [pending EXCEPT ![c] = "absent"]
  /\ decision' = [decision EXCEPT ![c] = "timed_out"]
  /\ UNCHANGED <<calls, signal, cancelRequested, controller, shared, approved>>

(* onAbort of the owners among S, which clears their undecided cards. *)
OwnersAbort(S) ==
  /\ controller' = [c \in Call |-> controller[c] \/ (c \in S /\ pending[c] = "preparing")]
  /\ decision' = [c \in Call |-> IF c \in S /\ pending[c] = "waiting" THEN "aborted" ELSE decision[c]]

(* Whose card and install the stop of a Run reaches: its own, never a shared one. *)
StoppedBy(c) == {c}

(* Merged calls among S stop waiting. *)
WaitersAbort(S) ==
  LET leaving == {c \in S : stage[c] = "merged"}
  IN /\ stage' = [c \in Call |-> IF c \in leaving THEN "answered" ELSE stage[c]]
     /\ answer' = [c \in Call |-> IF c \in leaving THEN "aborted" ELSE answer[c]]
     /\ resolvedEvents' = [c \in Call |-> resolvedEvents[c] + (IF c \in leaving THEN 1 ELSE 0)]

(* The Run of a call is stopped. *)
Stop(c) ==
  /\ ~signal[c] /\ stage[c] # "answered"
  /\ signal' = [signal EXCEPT ![c] = TRUE]
  /\ OwnersAbort(StoppedBy(c))
  /\ pending' = [o \in Call |-> IF o \in StoppedBy(c) /\ pending[o] = "waiting" THEN "absent" ELSE pending[o]]
  /\ WaitersAbort({c})
  /\ UNCHANGED <<on, cancelRequested, shared, approved>>

(* RunManager.close: every Run is stopped, then abortAll clears the table. *)
Close ==
  /\ \E c \in Call : ~signal[c] /\ stage[c] # "answered"
  /\ signal' = [c \in Call |-> TRUE]
  /\ OwnersAbort(Call)
  /\ pending' = [c \in Call |-> "absent"]
  /\ WaitersAbort(Call)
  /\ UNCHANGED <<on, cancelRequested, shared, approved>>

-----------------------------------------------------------------------------
(* The shared install *)

(* The install promise resolves with result, after the resolved event; what *)
(* belonged to the card is gone with it.                                    *)
Resolve(c, result) ==
  /\ install' = [install EXCEPT ![c] = "resolved"]
  /\ outcome' = [outcome EXCEPT ![c] = result]
  /\ pending' = [pending EXCEPT ![c] = "absent"]
  /\ decision' = [decision EXCEPT ![c] = "none"]
  /\ cancelRequested' = [cancelRequested EXCEPT ![c] = FALSE]
  /\ controller' = [controller EXCEPT ![c] = FALSE]
  /\ resolvedEvents' = [resolvedEvents EXCEPT ![c] = @ + 1]

Starts(c) == decision[c] = "approved"

InstallStarts(c) ==
  /\ install[c] = "deciding" /\ Starts(c)
  /\ install' = [install EXCEPT ![c] = "installing"]
  /\ UNCHANGED <<calls, signal, card, outcome, active, available, approved>>

NotInstalled(c) ==
  /\ install[c] = "deciding" /\ decision[c] \in {"denied", "aborted", "timed_out"}
  /\ Resolve(c, decision[c])
  /\ UNCHANGED <<stage, on, answer, signal, active, available, approved>>

(* The installer succeeds or fails (no Homebrew, no space, its own time limit  *)
(* included); told to end, it answers "aborted" unless it had just finished.    *)
InstallerSettles(c) ==
  /\ install[c] = "installing"
  /\ \E result \in {"prepared", "failed"} \cup (IF controller[c] THEN {"aborted"} ELSE {}) :
       /\ Resolve(c, result)
       /\ available' = (available \/ result = "prepared")
  /\ UNCHANGED <<stage, on, answer, signal, active, approved>>

(* Variant for mutation: the table is cleared when the card is decided. *)
mayForgetEarly(c) == decision[c] # "none" \/ install[c] = "resolved"
mayForget(c) == install[c] = "resolved"

Forget(c) ==
  /\ active = c /\ mayForget(c)
  /\ active' = NoCall
  /\ UNCHANGED <<calls, signal, card, install, outcome, available, approved>>

OwnerAnswered(c) ==
  /\ stage[c] = "owner" /\ install[c] = "resolved"
  /\ Answer(c, outcome[c])
  /\ UNCHANGED <<on, resolvedEvents, signal, card, shared, approved>>

(* Variant for mutation: a merged call leaves no event of its own. *)
MergedEventNone(c) == UNCHANGED resolvedEvents
MergedEvent(c) == resolvedEvents' = [resolvedEvents EXCEPT ![c] = @ + 1]

MergedAnswered(c) ==
  /\ stage[c] = "merged" /\ install[on[c]] = "resolved"
  /\ Answer(c, outcome[on[c]])
  /\ MergedEvent(c)
  /\ UNCHANGED <<on, signal, card, shared, approved>>

(* What the event loop owes a call: its timer fires, the installer settles (it has *)
(* a time limit), continuations run.  The user owes nothing.                       *)
Continuations(c) ==
  \/ TimeOut(c) \/ InstallStarts(c) \/ NotInstalled(c) \/ InstallerSettles(c)
  \/ Forget(c) \/ OwnerAnswered(c) \/ MergedAnswered(c)

Next ==
  \/ \E c \in Call :
       \/ RequestAvailable(c) \/ RequestMerged(c) \/ RequestOwned(c)
       \/ Approve(c) \/ Deny(c) \/ Cancel(c) \/ Stop(c)
       \/ Continuations(c)
  \/ Close

Spec == Init /\ [][Next]_vars

FairSpec == Spec /\ \A c \in Call : WF_vars(Continuations(c))

-----------------------------------------------------------------------------
(* Properties *)

(* The type of the state. *)
TypeOK ==
  /\ stage \in [Call -> {"idle", "owner", "merged", "answered"}]
  /\ on \in [Call -> Call \cup {NoCall}]
  /\ signal \in [Call -> BOOLEAN] /\ controller \in [Call -> BOOLEAN]
  /\ cancelRequested \in [Call -> BOOLEAN]
  /\ answer \in [Call -> Status \cup {NoAnswer}] /\ outcome \in [Call -> Status \cup {NoAnswer}]
  /\ pending \in [Call -> {"absent", "waiting", "preparing", "finishing"}]
  /\ decision \in [Call -> {"none", "approved", "denied", "aborted", "timed_out"}]
  /\ install \in [Call -> {"none", "deciding", "installing", "resolved"}]
  /\ active \in Call \cup {NoCall} /\ available \in BOOLEAN
  /\ approved \subseteq Call
  /\ resolvedEvents \in [Call -> 0 .. 1]

(* The coordinator never has two installs of the package on their way, cards that *)
(* wait for a decision included.                                                  *)
OneInstall == Cardinality({c \in Call : install[c] \in {"deciding", "installing"}}) <= 1

(* Nothing is installed that the user did not approve. *)
OnlyApproved == \A c \in Call : install[c] = "installing" => c \in approved

(* The owner's stop or the user's cancellation always arrives: the card is decided, *)
(* and an install that was approved before is told to end.                         *)
WithdrawalArrives ==
  \A c \in Call :
    install[c] \in {"deciding", "installing"} /\ (signal[c] \/ cancelRequested[c])
      => decision[c] # "none" /\ (decision[c] = "approved" => controller[c])

(* A merged call that is cancelled takes nobody with it: an install ends early only *)
(* for its owner's stop or for a cancellation of its card.                          *)
OthersUnaffected ==
  \A c \in Call :
    controller[c] \/ decision[c] = "aborted" => signal[c] \/ cancelRequested[c]

(* A call that is answered gets the result of the install it awaited, unless its own *)
(* cancellation came first, and one resolved event.                                  *)
ToldTheOutcome ==
  \A c \in Call :
    stage[c] = "answered" /\ on[c] # NoCall =>
      /\ answer[c] = outcome[on[c]] \/ (answer[c] = "aborted" /\ signal[c])
      /\ resolvedEvents[c] = 1

(* Every request is answered in the end, whatever the user does or does not do. *)
EveryCallAnswered == \A c \in Call : stage[c] \in {"owner", "merged"} ~> stage[c] = "answered"
=============================================================================
