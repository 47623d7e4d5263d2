------------------------------ MODULE RunRecord ------------------------------
(***************************************************************************)
(* What the Host promises of the stored record of a Run: the status column *)
(* and the last lifecycle event of its log.  A Run ends in one indivisible *)
(* step that writes the final status together with its event, only a Run   *)
(* in progress can end, only a Run at rest can begin again or be           *)
(* forgotten, and a final event stays the last word until then.            *)
(***************************************************************************)
CONSTANTS Run

VARIABLES status, last

Final == {"completed", "failed", "stopped"}
InProgress == {"running", "stopping"}
EventOf(s) ==
  CASE s = "completed" -> "run_completed"
    [] s = "failed" -> "run_failed"
    [] OTHER -> "run_stopped"

Init ==
  /\ status = [r \in Run |-> "absent"]
  /\ last = [r \in Run |-> "none"]

Begin(r) ==
  /\ status[r] \notin InProgress
  /\ status' = [status EXCEPT ![r] = "running"]
  /\ UNCHANGED last

AskToStop(r) ==
  /\ status[r] = "running"
  /\ status' = [status EXCEPT ![r] = "stopping"]
  /\ UNCHANGED last

Note(r, event) ==
  /\ \/ event = "run_started" /\ status[r] = "running"
     \/ event = "run_stopping" /\ status[r] \in InProgress
     \/ event = "run_interrupted" /\ status[r] = "interrupted"
  /\ last' = [last EXCEPT ![r] = event]
  /\ UNCHANGED status

Finish(r, s) ==
  /\ status[r] \in InProgress
  /\ status' = [status EXCEPT ![r] = s]
  /\ last' = [last EXCEPT ![r] = EventOf(s)]

Interrupt(r) ==
  /\ status[r] \in InProgress
  /\ status' = [status EXCEPT ![r] = "interrupted"]
  /\ UNCHANGED last

Forget(runs) ==
  /\ \A r \in runs : status[r] \notin InProgress
  /\ status' = [r \in Run |-> IF r \in runs THEN "absent" ELSE status[r]]
  /\ last' = [r \in Run |-> IF r \in runs THEN "none" ELSE last[r]]

Next ==
  \/ \E r \in Run : Begin(r) \/ AskToStop(r) \/ Interrupt(r)
  \/ \E r \in Run, event \in {"run_started", "run_stopping", "run_interrupted"} : Note(r, event)
  \/ \E r \in Run, s \in Final : Finish(r, s)
  \/ \E runs \in SUBSET Run : Forget(runs)

vars == <<status, last>>

Spec == Init /\ [][Next]_vars
=============================================================================
