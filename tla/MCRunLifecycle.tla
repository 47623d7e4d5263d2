--------------------------- MODULE MCRunLifecycle ---------------------------
(* Instances of RunLifecycle: two turns of one session. *)
EXTENDS RunLifecycle

CONSTANT s1

TwoTurns == 1 .. 2
OneSession == {s1}
AllInOne == [r \in Run |-> s1]
=============================================================================
