--------------------------- MODULE ContextWindow ---------------------------
(***************************************************************************)
(* What the harness makes of a transcript before it is sent: the part that *)
(* a summary replaces is left out (context-harness.ts), old tool results   *)
(* are shortened under pressure (tool-output-projection.ts), whole turns   *)
(* are dropped from the oldest on, and in an emergency messages of the     *)
(* current turn too (context-manager.ts).                                  *)
(*                                                                         *)
(* A message is a role and a number of tokens.  The one system message is  *)
(* not in the sequence: position i here is index i of the code's array.    *)
(***************************************************************************)
EXTENDS Naturals, Sequences, FiniteSets

CONSTANTS
  MaxInput,        \* maxInputTokens of the model
  SystemTokens,    \* the system message
  SchemaTokens,    \* the tool schemas
  ProjectedTokens, \* what a shortened tool result takes
  TriggerPercent, RetainPercent,  \* triggerRatio, retainRatio
  TriggerCap,      \* triggerTokens: {n}, or {} when it is switched off
  RetainTokens,    \* retainTokens: {n}, or {} when it is not given
  KeepTurns, KeepResults, BatchResults  \* the projection policy

ASSUME WindowAssumption ==
  /\ MaxInput \in Nat /\ SystemTokens \in Nat /\ SchemaTokens \in Nat
  /\ ProjectedTokens \in Nat /\ TriggerPercent \in Nat /\ RetainPercent \in Nat
  /\ TriggerCap \subseteq Nat /\ RetainTokens \subseteq Nat
  /\ KeepTurns \in Nat /\ KeepResults \in Nat /\ BatchResults \in Nat

Least(S)    == CHOOSE n \in S : \A m \in S : n <= m
Greatest(S) == CHOOSE n \in S : \A m \in S : n >= m

Tokens(s) ==
  LET upTo[i \in 0 .. Len(s)] == IF i = 0 THEN 0 ELSE upTo[i - 1] + s[i].tokens
  IN upTo[Len(s)]

Positions(s, role) == {i \in DOMAIN s : s[i].role = role}

LastUser(s) == Greatest({0} \cup Positions(s, "user"))

From(s, i) == SubSeq(s, i, Len(s))

-----------------------------------------------------------------------------
(* compaction-policy.ts: the pressure at which the history is compacted, and what *)
(* a compaction leaves.                                                           *)

Trigger == Greatest({1, Least({(MaxInput * TriggerPercent) \div 100} \cup TriggerCap)})

Retain ==
  LET given == IF RetainTokens = {}
               THEN {(MaxInput * RetainPercent) \div 100, Trigger \div 2}
               ELSE RetainTokens
  IN Least(given \cup {Trigger - 1})

-----------------------------------------------------------------------------
(* tool-output-projection.ts *)

(* The n-th message of the role from the end, 0 when there are fewer. *)
FromEnd(s, role, n) ==
  LET P == Positions(s, role) IN
  IF n = 0 \/ Cardinality(P) < n THEN 0
  ELSE CHOOSE i \in P : Cardinality({j \in P : j >= i}) = n

(* The earliest position that keeps its text; 0 when nothing bounds it. *)
desiredBoundary(s) ==
  LET bounds == {FromEnd(s, "user", KeepTurns), FromEnd(s, "tool", KeepResults)} \ {0}
  IN IF bounds = {} THEN 0 ELSE Least(bounds)

(* Of the tool results before it only whole batches are shortened. *)
quantizeBoundary(s, desired) ==
  LET tools   == Positions(s, "tool")
      whole   == (Cardinality({i \in tools : i < desired}) \div BatchResults) * BatchResults
  IN IF desired = 0 \/ BatchResults <= 1 THEN desired
     ELSE IF whole = 0 THEN 0
     ELSE 1 + CHOOSE i \in tools : Cardinality({j \in tools : j <= i}) = whole

Projected(s) ==
  LET boundary == quantizeBoundary(s, desiredBoundary(s)) IN
  [i \in DOMAIN s |->
     IF s[i].role = "tool" /\ i < boundary
     THEN [s[i] EXCEPT !.tokens = Least({@, ProjectedTokens})] ELSE s[i]]

Input(s) == SystemTokens + Tokens(s) + SchemaTokens

(* projectToolResults: only under the pressure that would also compact. *)
Relieved(s) == IF Input(s) > Trigger THEN Projected(s) ELSE s

-----------------------------------------------------------------------------
(* context-manager.ts *)

Fits(s, target) == Input(s) <= Least({MaxInput, target})

(* trimMessages: turns go from the oldest on, the current one stays. *)
KeptTurns(s, target) ==
  LET current == LastUser(s)
      starts  == {1} \cup Positions(s, "user")
      fitting == {i \in starts : (current = 0 \/ i <= current) /\ Fits(From(s, i), target)}
  IN IF fitting # {} THEN From(s, Least(fitting))
     ELSE IF current > 0 THEN From(s, current) ELSE <<>>

(* trimCurrentTurn: then messages of the current turn go, from the oldest on. *)
KeptMessages(s, target) ==
  LET turns   == KeptTurns(s, target)
      fitting == {i \in 1 .. Len(turns) + 1 : Fits(From(turns, i), target)}
  IN IF fitting = {} THEN <<>> ELSE From(turns, Least(fitting))

-----------------------------------------------------------------------------
(* context-harness.ts *)

(* buildModelView never hides the current turn, whatever the count says. *)
HiddenCount(s, count) ==
  Least({count, IF LastUser(s) = 0 THEN 0 ELSE LastUser(s) - 1})

View(s, count) == From(s, HiddenCount(s, count) + 1)

(* compactConversation: how many messages a summary down to the target replaces. *)
Removable(s, count, target) ==
  LET view == Relieved(View(s, count)) IN Len(view) - Len(KeptTurns(view, target))

EmergencyTarget == (MaxInput * 85) \div 100

(* The view of a request without the context message, and whether messages of the *)
(* current turn had to go.  Only a turn over the trigger is looked at again.      *)
RequestView(s, count, pressed) ==
  LET view  == Relieved(View(s, count))
      turns == KeptTurns(view, MaxInput)
  IN IF pressed /\ Input(turns) > MaxInput
     THEN [kept |-> KeptMessages(turns, EmergencyTarget), emergency |-> TRUE]
     ELSE [kept |-> turns, emergency |-> FALSE]
=============================================================================
