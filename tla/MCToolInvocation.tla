-------------------------- MODULE MCToolInvocation --------------------------
(***************************************************************************)
(* An instance of ToolInvocation: one shell command asked for in two ways  *)
(* (their timeouts differ, which the operation key leaves out) and a       *)
(* network read that is retried.                                           *)
(***************************************************************************)
EXTENDS ToolInvocation

CONSTANTS shell, alias, fetch

McOperationOf == [c \in Call |-> IF c = fetch THEN "url" ELSE "cmd"]

McOperation == {"cmd", "url"}

Commands == {shell, alias}

AnyMode == {"on", "ask", "off"}
=============================================================================
