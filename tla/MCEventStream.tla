--------------------------- MODULE MCEventStream ---------------------------
(* Short logs, two Runs of the session, one crash, one resume, two failed  *)
(* first connections; the second instance has neither crash nor resume.    *)
EXTENDS EventStream
=============================================================================
