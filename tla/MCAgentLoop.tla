---------------------------- MODULE MCAgentLoop -----------------------------
(* An instance of AgentLoop: a budget of two requests, two tokens and one tick. *)
EXTENDS AgentLoop

SmallLimit == [b \in Bucket |-> IF b = "activeMs" THEN 1 ELSE 2]
AlmostIt   == [b \in Bucket |-> IF b = "activeMs" THEN 1 ELSE SmallLimit[b] - 1]
OneToken   == {1}
=============================================================================
