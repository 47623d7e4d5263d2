-------------------------- MODULE MCDesktopUpdate --------------------------
(* Two versions, and a check that times out twice.                         *)
EXTENDS DesktopUpdate
CONSTANTS v1, v2
McVersions == {v1, v2}
=============================================================================
