-------------------------- MODULE MCSessionContext --------------------------
(* A small window: a turn with two long tool results is over it, a summary is     *)
(* asked for from two messages over half of it on.                                *)
EXTENDS SessionContext

McKind         == {"reminder"}
McToolTokens   == {1, 5}
McRetainTokens == {}
McTriggerCap   == {6}
=============================================================================
