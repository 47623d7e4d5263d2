--------------------------- MODULE OperationLedger ---------------------------
(***************************************************************************)
(* What the side-effect guard promises of the non-idempotent operations of *)
(* one Run (runtime/side-effect.ts), seen through the checkpoint file: an  *)
(* operation is written to a durable log first, then performed, at most    *)
(* once; only a performed operation may be confirmed, and only a confirmed *)
(* one may be answered from the log. An operation that is logged and never *)
(* confirmed is one of unknown outcome: it is never performed again.       *)
(***************************************************************************)
EXTENDS Naturals

CONSTANT Operation

VARIABLES
  logged,     \* operations with a durable record
  performed,  \* how often each operation was started in the world
  confirmed   \* operations known to have taken effect

vars == <<logged, performed, confirmed>>

Init ==
  /\ logged = {}
  /\ performed = [o \in Operation |-> 0]
  /\ confirmed = {}

Log(o) ==
  /\ o \notin logged
  /\ logged' = logged \cup {o}
  /\ UNCHANGED <<performed, confirmed>>

Perform(o) ==
  /\ o \in logged /\ performed[o] = 0
  /\ performed' = [performed EXCEPT ![o] = 1]
  /\ UNCHANGED <<logged, confirmed>>

Confirm(o) ==
  /\ performed[o] = 1
  /\ confirmed' = confirmed \cup {o}
  /\ UNCHANGED <<logged, performed>>

Next == \E o \in Operation : Log(o) \/ Perform(o) \/ Confirm(o)

Spec == Init /\ [][Next]_vars
=============================================================================
