-------------------------- MODULE AgentLoopProofs ---------------------------
(***************************************************************************)
(* Proofs about AgentLoop, for every budget and every bound.               *)
(***************************************************************************)
EXTENDS AgentLoop, TLAPS, FiniteSetTheorems

(* A usage that reached its limit is known to have. *)
Knows(u, m) == \A b \in Bucket : u[b] >= Limit[b] => <<b, "exhausted">> \in m

(* Where the loop is when a request is under way, and what it has heard. *)
Placed ==
  /\ pc \in Asking => chatAt \in {"send", "wire"}
  /\ pc \notin Asking => chatAt = "idle" /\ pending = 0
  /\ pc \in Running => outcome = "none"
  /\ voices \subseteq {attempt}

(* What the level of the budget stands for. *)
Leveled ==
  /\ Knows(usage, marks) /\ Knows(saved.usage, saved.marks)
  /\ saved.usage["activeMs"] <= MaxElapsed
  /\ wrapUp => Exhausted
  /\ ignored > 0 => Exhausted
  /\ budgetAborted => Exhausted \/ Projected

(* How the turns of the wrap-up are paid for. *)
Paid == ignored + empties + MaxJobCompletionWakeups * ignored

Bounded ==
  /\ turns > 0 => wrapUp
  /\ turns <= TurnsAllowed
  /\ pc \in Running \ {"batch", "tool"} => ignored < MaxWrapUpIgnoredTurns
  /\ pc = "boundary" => turns <= Paid + wakeups
  /\ pc \in Asking \cup {"prepared"} => turns <= Paid + wakeups + 1
  /\ pc \in {"batch", "tool"} => turns <= Paid

Inv == TypeOK /\ RequestsAccounted /\ CheckpointComplete /\ Placed /\ Leveled /\ Bounded
-----------------------------------------------------------------------------
(* Charging the budget *)

(* Charged: the usage grows by what is charged, up to the ceiling. *)
LEMMA ChargedGrows ==
  ASSUME TypeOK, NEW c \in Nat, NEW t \in Nat, NEW m \in Nat
  PROVE  /\ Charged(c, t, m) \in [Bucket -> 0 .. Ceiling]
         /\ Charged(c, t, m)["modelCalls"] = AtMost(usage["modelCalls"] + c, Ceiling)
         /\ Charged(c, t, m)["activeMs"] = AtMost(usage["activeMs"] + m, Ceiling)
         /\ \A b \in Bucket : usage[b] <= Charged(c, t, m)[b]
  BY LoopAssumption DEF TypeOK, Charged, AtMost, Bucket

(* Passed: the thresholds of a usage, exhaustion among them where a limit is reached. *)
LEMMA PassedKnows ==
  ASSUME NEW u \in [Bucket -> 0 .. Ceiling]
  PROVE  /\ Passed(u) \subseteq Bucket \X {"warn", "converge", "exhausted"}
         /\ \A b \in Bucket : u[b] >= Limit[b] => <<b, "exhausted">> \in Passed(u)
<1>1. \A b \in Bucket : Band(b, u[b]) \subseteq Bucket \X {"warn", "converge", "exhausted"}
  BY DEF Band
<1>2. \A b \in Bucket : u[b] >= Limit[b] => <<b, "exhausted">> \in Band(b, u[b])
  BY DEF Band
<1> QED
  BY <1>1, <1>2 DEF Passed

(* A charge: what the next usage and marks have in common wherever one is made. *)
LEMMA Charging ==
  ASSUME Inv, NEW c \in Nat, NEW t \in Nat, NEW m \in 0 .. since,
         usage' = Charged(c, t, m), marks' = marks \cup Passed(Charged(c, t, m))
  PROVE  /\ usage' \in [Bucket -> 0 .. Ceiling]
         /\ marks' \subseteq Bucket \X {"warn", "converge", "exhausted"}
         /\ usage'["modelCalls"] = AtMost(usage["modelCalls"] + c, Ceiling)
         /\ usage'["activeMs"] = usage["activeMs"] + m
         /\ usage'["activeMs"] <= MaxElapsed
         /\ Knows(usage', marks')
         /\ Exhausted => Exhausted'
         /\ Projected /\ m = since => Exhausted'
<1>1. /\ usage' \in [Bucket -> 0 .. Ceiling]
      /\ usage'["modelCalls"] = AtMost(usage["modelCalls"] + c, Ceiling)
      /\ usage'["activeMs"] = AtMost(usage["activeMs"] + m, Ceiling)
  <2>1. TypeOK /\ m \in Nat
    BY DEF Inv, TypeOK
  <2> QED
    BY <2>1, ChargedGrows
<1>2. marks' \subseteq Bucket \X {"warn", "converge", "exhausted"} /\ Knows(usage', marks')
  BY <1>1, PassedKnows DEF Inv, TypeOK, Knows
<1>3. /\ usage'["activeMs"] = usage["activeMs"] + m
      /\ usage'["activeMs"] <= MaxElapsed
  BY <1>1, LoopAssumption DEF Inv, TypeOK, RequestsAccounted, AtMost, Bucket
<1>4. Exhausted => Exhausted'
  BY DEF Exhausted
<1>5. Projected /\ m = since => Exhausted'
  BY <1>2, <1>3 DEF Projected, Exhausted, Knows, Bucket
<1> QED
  BY <1>1, <1>2, <1>3, <1>4, <1>5

(* A product with a number that does not shrink does not. *)
LEMMA Products ==
  ASSUME NEW k \in Nat, NEW a \in Nat, NEW b \in Nat
  PROVE  /\ k * a \in Nat
         /\ k * (a + 1) = k * a + k
         /\ a <= b => k * a <= k * b
<1>1. k * a \in Nat /\ k * b \in Nat /\ k * (a + 1) = k * a + k
  OBVIOUS
<1>2. ASSUME a <= b PROVE k * a <= k * b
  <2>1. b - a \in Nat /\ b = a + (b - a)
    BY <1>2
  <2>2. k * (b - a) \in Nat
    BY <2>1
  <2>3. \A d \in Nat : k * (a + d) = k * a + k * d
    OBVIOUS
  <2> QED
    BY <1>1, <2>1, <2>2, <2>3
<1> QED
  BY <1>1, <1>2
-----------------------------------------------------------------------------
(* The invariant *)

(* The catch of the loop keeps the invariant, from wherever it is reached. *)
LEMMA CatchKeepsInv ==
  ASSUME Inv, NEW error \in {"failed", "cancelled", "budget"}, Catch(error), pc \in Running,
         notices' = notices, hist' = hist, error = "budget" => Exhausted
  PROVE  Inv'
<1>1. pending \in Nat /\ 0 \in Nat /\ since \in 0 .. since /\ since \in Nat
  BY DEF Inv, TypeOK
<1>2. usage' = Charged(pending, 0, since) /\ marks' = marks \cup Passed(Charged(pending, 0, since))
  BY DEF Catch
<1>3. /\ usage' \in [Bucket -> 0 .. Ceiling]
      /\ marks' \subseteq Bucket \X {"warn", "converge", "exhausted"}
      /\ usage'["modelCalls"] = AtMost(usage["modelCalls"] + pending, Ceiling)
      /\ usage'["activeMs"] = usage["activeMs"] + since
      /\ usage'["activeMs"] <= MaxElapsed
      /\ Knows(usage', marks')
      /\ Exhausted => Exhausted'
      /\ Projected => Exhausted'
  BY <1>1, <1>2, Charging
<1>4. /\ since' = 0 /\ pending' = 0 /\ pc' = "over" /\ ChatOver
      /\ saved' = Checkpoint(usage', marks', worked)
      /\ outcome' = IF budgetAborted THEN "budget" ELSE error
      /\ UNCHANGED <<tally, work, abort, life, notices, hist>>
  BY <1>2 DEF Catch
<1> USE LoopAssumption, <1>1, <1>3, <1>4
    DEF Inv, tally, work, abort, hist, Checkpoint, ChatOver, Running, Asking
<1>5. TypeOK'
  BY DEF TypeOK, CheckpointType, Place, Outcome
<1>6. RequestsAccounted'
  BY DEF TypeOK, RequestsAccounted, AtMost, Bucket
<1>7. outcome' = "budget" => Exhausted'
  BY DEF Leveled
<1>8. CheckpointComplete'
  BY <1>6, <1>7 DEF CheckpointComplete, RequestsAccounted, Exhausted, Bucket
<1>9. Placed'
  BY DEF Placed
<1>10. Leveled'
  BY DEF Leveled, Exhausted, Projected, Knows
<1>11. Bounded'
  BY DEF Bounded
<1> QED
  BY <1>5, <1>6, <1>8, <1>9, <1>10, <1>11

(* A failed summary is charged as a request at least, and the turn goes on. *)
LEMMA SummaryFailsKeepsInv ==
  ASSUME Inv, pc = "summary", SummaryFails, UNCHANGED <<notices, hist>>
  PROVE  Inv'
<1> DEFINE n == IF pending = 0 THEN 1 ELSE pending
<1>1. n \in Nat /\ 0 \in Nat /\ 0 \in 0 .. since /\ n >= pending
  BY DEF Inv, TypeOK
<1>2. /\ usage' = Charged(n, 0, 0) /\ marks' = marks \cup Passed(Charged(n, 0, 0))
      /\ pending' = 0 /\ since' = since /\ pc' = "prepared" /\ ChatOver
      /\ saved' = saved \/ saved' = Checkpoint(usage', marks', worked)
      /\ UNCHANGED <<tally, work, abort, outcome, life, notices, hist>>
  BY DEF SummaryFails
<1> HIDE DEF n
<1>3. /\ usage' \in [Bucket -> 0 .. Ceiling]
      /\ marks' \subseteq Bucket \X {"warn", "converge", "exhausted"}
      /\ usage'["modelCalls"] = AtMost(usage["modelCalls"] + n, Ceiling)
      /\ usage'["activeMs"] = usage["activeMs"] + 0
      /\ usage'["activeMs"] <= MaxElapsed
      /\ Knows(usage', marks')
      /\ Exhausted => Exhausted'
  BY <1>1, <1>2, Charging
<1> USE LoopAssumption, <1>1, <1>2, <1>3
    DEF Inv, tally, work, abort, hist, Checkpoint, ChatOver, Running, Asking
<1>4. TypeOK'
  BY DEF TypeOK, CheckpointType, Place, Outcome
<1>5. RequestsAccounted'
  BY DEF TypeOK, RequestsAccounted, AtMost, Bucket
<1>6. CheckpointComplete'
  BY DEF CheckpointComplete, Placed
<1>7. Placed'
  BY DEF Placed
<1>8. Leveled'
  BY DEF Leveled, Projected, Knows, TypeOK, Bucket
<1>9. Bounded'
  BY DEF Bounded, Paid
<1> QED
  BY <1>4, <1>5, <1>6, <1>7, <1>8, <1>9

(* The invariant is kept: one step per action, and under it one per part. *)
LEMMA StepKeepsInv ==
  ASSUME Inv, Next
  PROVE  Inv'
<1>1. ASSUME StartStopped PROVE Inv'
  <2>1. /\ Catch("cancelled") /\ pc \in Running /\ notices' = notices /\ hist' = hist
        /\ "cancelled" = "budget" => Exhausted
    BY <1>1, LoopAssumption DEF StartStopped, Running, hist, Inv
  <2> QED
    BY <2>1, CatchKeepsInv
<1>2. ASSUME NEW s \in BOOLEAN, StartTurn(s) PROVE Inv'
  <2> USE <1>2, LoopAssumption DEF StartTurn, Notifies, Notify, Ask, Save, Inv, Checkpoint,
      Running, Asking, budget, call, tally, work, abort, end, hist
  <2>1. TypeOK'
    <3>1. wrapUp' \in BOOLEAN /\ fired' \in BOOLEAN /\ budgetAborted' \in BOOLEAN
      BY Zenon DEF TypeOK
    <3>2. TurnsAllowed \in Nat /\ TurnsAllowed' = TurnsAllowed
      BY Products DEF TurnsAllowed
    <3>3. wrapMs' \in 0 .. WrapUpMs /\ turns' \in 0 .. TurnsAllowed' + 1
      BY <3>2 DEF TypeOK, AtMost
    <3>4. wakeups' \in 0 .. MaxJobCompletionWakeups /\ notices' \in 0 .. MaxNotices
      BY DEF TypeOK
    <3>5. saved' \in CheckpointType
      BY DEF TypeOK, CheckpointType
    <3>6. /\ pc' \in Place /\ chatAt' \in {"idle", "send", "wire"}
          /\ attempt' \in 0 .. MaxRetries /\ voices' \subseteq 0 .. MaxRetries
      <4>1. 0 \in 0 .. MaxRetries /\ TypeOK
        OBVIOUS
      <4>2. CASE s
        BY <4>1, <4>2, Zenon DEF Place
      <4>3. CASE ~s
        <5>1. pc' = "prepared" /\ UNCHANGED call
          BY <4>3, Zenon
        <5> QED
          BY <4>1, <5>1 DEF Place, TypeOK
      <4> QED
        BY <4>2, <4>3
    <3> QED
      BY <3>1, <3>3, <3>4, <3>5, <3>6 DEF TypeOK, CheckpointType, Outcome
  <2>2. RequestsAccounted'
    BY DEF TypeOK, CheckpointType, RequestsAccounted, AtMost, Bucket
  <2>3. CheckpointComplete'
    BY <2>2 DEF CheckpointComplete, RequestsAccounted, Placed, TypeOK, Exhausted, Leveled,
        Bucket
  <2>4. Placed'
    BY DEF Placed, TypeOK
  <2>5. Leveled'
    BY DEF Leveled, Exhausted, Projected, Knows, TypeOK, RequestsAccounted, Bucket
  <2>6. Bounded'
    <3>1. ignored \in Nat /\ MaxWrapUpIgnoredTurns - 1 \in Nat /\ ignored <= MaxWrapUpIgnoredTurns - 1
      BY DEF TypeOK, Bounded
    <3>2. /\ MaxJobCompletionWakeups * ignored \in Nat
          /\ MaxJobCompletionWakeups * ignored
               <= MaxJobCompletionWakeups * (MaxWrapUpIgnoredTurns - 1)
          /\ MaxJobCompletionWakeups * MaxWrapUpIgnoredTurns
               = MaxJobCompletionWakeups * (MaxWrapUpIgnoredTurns - 1) +
                   MaxJobCompletionWakeups
      <4>1. (MaxWrapUpIgnoredTurns - 1) + 1 = MaxWrapUpIgnoredTurns
        OBVIOUS
      <4> QED
        BY <3>1, <4>1, Products
    <3> DEFINE k == MaxJobCompletionWakeups * ignored
               l == MaxJobCompletionWakeups * MaxWrapUpIgnoredTurns
               m == MaxJobCompletionWakeups * (MaxWrapUpIgnoredTurns - 1)
    <3>3. k \in Nat /\ m \in Nat /\ k <= m /\ l = m + MaxJobCompletionWakeups
      BY <3>1, <3>2, Products
    <3>4. Paid = ignored + empties + k /\ Paid' = Paid
          /\ TurnsAllowed = MaxWrapUpIgnoredTurns + MaxEmptyRecoveries + l
      BY DEF Paid, TurnsAllowed
    <3> HIDE DEF k, l, m
    <3>5. turns <= Paid + wakeups /\ turns \in Nat /\ wakeups \in Nat /\ wakeups <= wakeups'
          /\ wakeups' \in Nat /\ ignored' = ignored
          /\ turns' = IF wrapUp' THEN AtMost(turns + 1, TurnsAllowed + 1) ELSE turns
      BY DEF Bounded, TypeOK
    <3>6. turns + 1 <= TurnsAllowed
      BY <3>1, <3>3, <3>4, <3>5 DEF TypeOK
    <3>7. turns' <= turns + 1 /\ turns' \in Nat
      <4>1. AtMost(turns + 1, TurnsAllowed + 1) = turns + 1
        <5>1. turns + 1 <= TurnsAllowed + 1
          <6>1. TurnsAllowed \in Nat
            BY <3>3, <3>4
          <6> QED
            BY <3>5, <3>6, <6>1
        <5> QED
          BY <5>1 DEF AtMost
      <4>2. CASE wrapUp'
        BY <3>5, <4>1, <4>2
      <4>3. CASE ~wrapUp'
        BY <3>5, <4>3
      <4> QED
        BY <4>2, <4>3
    <3>8. turns' <= TurnsAllowed' /\ turns' <= Paid' + wakeups' + 1
      <4>1. TurnsAllowed' = TurnsAllowed /\ TurnsAllowed \in Nat /\ Paid \in Nat
        BY <3>1, <3>3, <3>4 DEF TurnsAllowed, TypeOK
      <4> QED
        BY <4>1, <3>4, <3>5, <3>6, <3>7
    <3> QED
      BY <3>5, <3>8 DEF Bounded
  <2> QED
    BY <2>1, <2>2, <2>3, <2>4, <2>5, <2>6
<1>3. ASSUME SendRequest PROVE Inv'
  <2> USE <1>3, LoopAssumption DEF SendRequest, Inv, Checkpoint, Running, Asking, budget,
      call, tally, work, abort, end, hist
  <2>1. TypeOK'
    BY DEF TypeOK, CheckpointType, Place, Outcome, AtMost, Bounded, Leveled, Bucket
  <2>2. RequestsAccounted'
    BY DEF TypeOK, CheckpointType, RequestsAccounted, AtMost, Bucket
  <2>3. CheckpointComplete'
    BY <2>2 DEF CheckpointComplete, RequestsAccounted, Placed, TypeOK, Exhausted, Leveled,
        Bucket
  <2>4. Placed'
    BY DEF Placed, TypeOK
  <2>5. Leveled'
    BY DEF Leveled, Exhausted, Projected, Knows, TypeOK, RequestsAccounted, Bucket
  <2>6. Bounded'
    BY DEF Bounded, Paid, TypeOK, AtMost
  <2> QED
    BY <2>1, <2>2, <2>3, <2>4, <2>5, <2>6
<1>4. ASSUME Hear PROVE Inv'
  <2> USE <1>4, LoopAssumption DEF Hear, Inv, Checkpoint, Running, Asking, budget, call,
      tally, work, abort, end, hist
  <2>1. TypeOK'
    BY DEF TypeOK, CheckpointType, Place, Outcome, AtMost, Bounded, Leveled, Bucket
  <2>2. RequestsAccounted'
    BY DEF TypeOK, CheckpointType, RequestsAccounted, AtMost, Bucket
  <2>3. CheckpointComplete'
    BY <2>2 DEF CheckpointComplete, RequestsAccounted, Placed, TypeOK, Exhausted, Leveled,
        Bucket
  <2>4. Placed'
    BY DEF Placed, TypeOK
  <2>5. Leveled'
    BY DEF Leveled, Exhausted, Projected, Knows, TypeOK, RequestsAccounted, Bucket
  <2>6. Bounded'
    BY DEF Bounded, Paid, TypeOK, AtMost
  <2> QED
    BY <2>1, <2>2, <2>3, <2>4, <2>5, <2>6
<1>5. ASSUME Retry PROVE Inv'
  <2> USE <1>5, LoopAssumption DEF Retry, MayRetry, Inv, Checkpoint, Running, Asking, budget,
      call, tally, work, abort, end, hist
  <2>1. TypeOK'
    BY DEF TypeOK, CheckpointType, Place, Outcome, AtMost, Bounded, Leveled, Bucket
  <2>2. RequestsAccounted'
    BY DEF TypeOK, CheckpointType, RequestsAccounted, AtMost, Bucket
  <2>3. CheckpointComplete'
    BY <2>2 DEF CheckpointComplete, RequestsAccounted, Placed, TypeOK, Exhausted, Leveled,
        Bucket
  <2>4. Placed'
    BY DEF Placed, TypeOK
  <2>5. Leveled'
    BY DEF Leveled, Exhausted, Projected, Knows, TypeOK, RequestsAccounted, Bucket
  <2>6. Bounded'
    BY DEF Bounded, Paid, TypeOK, AtMost
  <2> QED
    BY <2>1, <2>2, <2>3, <2>4, <2>5, <2>6
<1>6. ASSUME RequestFails PROVE Inv'
  <2>1. chatAt # "idle" /\ Throws("failed") /\ pc \in Asking
    BY <1>6 DEF RequestFails, Inv, Placed
  <2>2. CASE pc = "summary"
    BY <2>1, <2>2, SummaryFailsKeepsInv DEF Throws
  <2>3. CASE pc # "summary"
    <3>1. /\ Catch("failed") /\ pc \in Running /\ notices' = notices /\ hist' = hist
      BY <2>1, <2>3 DEF Throws, Running, Asking, hist
    <3> QED
      BY <3>1, CatchKeepsInv
  <2> QED
    BY <2>2, <2>3
<1>7. ASSUME RequestAborted PROVE Inv'
  <2>1. chatAt # "idle" /\ Throws("cancelled") /\ pc \in Asking
    BY <1>7 DEF RequestAborted, Inv, Placed
  <2>2. CASE pc = "summary"
    BY <2>1, <2>2, SummaryFailsKeepsInv DEF Throws
  <2>3. CASE pc # "summary"
    <3>1. /\ Catch("cancelled") /\ pc \in Running /\ notices' = notices /\ hist' = hist
      BY <2>1, <2>3 DEF Throws, Running, Asking, hist
    <3> QED
      BY <3>1, CatchKeepsInv
  <2> QED
    BY <2>2, <2>3
<1>8. ASSUME NEW t \in Tokens, SummaryArrives(t) PROVE Inv'
  <2>0. /\ usage' \in [Bucket -> 0 .. Ceiling]
        /\ marks' \subseteq Bucket \X {"warn", "converge", "exhausted"}
        /\ usage'["modelCalls"] = AtMost(usage["modelCalls"] + pending, Ceiling)
        /\ usage'["activeMs"] = usage["activeMs"] + 0
        /\ usage'["activeMs"] <= MaxElapsed
        /\ Knows(usage', marks')
        /\ Exhausted => Exhausted'
        /\ Projected /\ 0 = since => Exhausted'
    <3>1. pending \in Nat /\ t \in Nat /\ 0 \in 0 .. since
      BY <1>8, LoopAssumption DEF Inv, TypeOK
    <3>2. usage' = Charged(pending, t, 0) /\ marks' = marks \cup Passed(Charged(pending, t, 0))
      BY <1>8 DEF SummaryArrives
    <3> QED
      BY <3>1, <3>2, Charging
  <2> USE <2>0, <1>8, LoopAssumption DEF SummaryArrives, ChatOver, Inv, Checkpoint, Running,
      Asking, budget, call, tally, work, abort, end, hist
  <2>1. TypeOK'
    BY DEF TypeOK, CheckpointType, Place, Outcome, AtMost, Bounded, Leveled, Bucket
  <2>2. RequestsAccounted'
    BY DEF TypeOK, CheckpointType, RequestsAccounted, AtMost, Bucket
  <2>3. CheckpointComplete'
    BY <2>2 DEF CheckpointComplete, RequestsAccounted, Placed, TypeOK, Exhausted, Leveled,
        Bucket
  <2>4. Placed'
    BY DEF Placed, TypeOK
  <2>5. Leveled'
    BY DEF Leveled, Exhausted, Projected, Knows, TypeOK, RequestsAccounted, Bucket
  <2>6. Bounded'
    BY DEF Bounded, Paid, TypeOK, AtMost
  <2> QED
    BY <2>1, <2>2, <2>3, <2>4, <2>5, <2>6
<1>9. ASSUME OverBudget PROVE Inv'
  <2>1. /\ Catch("failed") /\ pc \in Running /\ notices' = notices /\ hist' = hist
        /\ "failed" = "budget" => Exhausted
    BY <1>9, LoopAssumption DEF OverBudget, Running, hist, Inv
  <2> QED
    BY <2>1, CatchKeepsInv
<1>10. ASSUME AskModel PROVE Inv'
  <2> USE <1>10, LoopAssumption DEF AskModel, Ask, Inv, Checkpoint, Running, Asking, budget,
      call, tally, work, abort, end, hist
  <2>1. TypeOK'
    BY DEF TypeOK, CheckpointType, Place, Outcome, AtMost, Bounded, Leveled, Bucket
  <2>2. RequestsAccounted'
    BY DEF TypeOK, CheckpointType, RequestsAccounted, AtMost, Bucket
  <2>3. CheckpointComplete'
    BY <2>2 DEF CheckpointComplete, RequestsAccounted, Placed, TypeOK, Exhausted, Leveled,
        Bucket
  <2>4. Placed'
    BY DEF Placed, TypeOK
  <2>5. Leveled'
    BY DEF Leveled, Exhausted, Projected, Knows, TypeOK, RequestsAccounted, Bucket
  <2>6. Bounded'
    BY DEF Bounded, Paid, TypeOK, AtMost
  <2> QED
    BY <2>1, <2>2, <2>3, <2>4, <2>5, <2>6
<1>11. ASSUME NEW t \in Tokens, NEW n \in 1 .. MaxBatch, AnswerTools(t, n) PROVE Inv'
  <2>0. /\ usage' \in [Bucket -> 0 .. Ceiling]
        /\ marks' \subseteq Bucket \X {"warn", "converge", "exhausted"}
        /\ usage'["modelCalls"] = AtMost(usage["modelCalls"] + pending, Ceiling)
        /\ usage'["activeMs"] = usage["activeMs"] + since
        /\ usage'["activeMs"] <= MaxElapsed
        /\ Knows(usage', marks')
        /\ Exhausted => Exhausted'
        /\ Projected /\ since = since => Exhausted'
    <3>1. pending \in Nat /\ t \in Nat /\ since \in 0 .. since
      BY <1>11, LoopAssumption DEF Inv, TypeOK
    <3>2. usage' = Charged(pending, t, since) /\ marks' = marks \cup Passed(Charged(pending, t, since))
      BY <1>11 DEF AnswerTools, Answers, Settle
    <3> QED
      BY <3>1, <3>2, Charging
  <2> USE <2>0, <1>11, LoopAssumption DEF AnswerTools, Answers, Settle, ChatOver, Inv,
      Checkpoint, Running, Asking, budget, call, tally, work, abort, end, hist
  <2>1. TypeOK'
    <3>1. /\ wrapUp' \in BOOLEAN /\ worked' \in BOOLEAN /\ stop' \in BOOLEAN
          /\ fired' \in BOOLEAN /\ budgetAborted' \in BOOLEAN
      BY Zenon DEF TypeOK, CheckpointType, Leveled
    <3>2. TurnsAllowed \in Nat /\ TurnsAllowed' = TurnsAllowed
      BY Products DEF TurnsAllowed
    <3> QED
      BY <3>1, <3>2 DEF TypeOK, CheckpointType, Place, Outcome, AtMost, Bounded, Leveled,
          Bucket
  <2>2. RequestsAccounted'
    BY DEF TypeOK, CheckpointType, RequestsAccounted, AtMost, Bucket
  <2>3. CheckpointComplete'
    BY <2>2 DEF CheckpointComplete, RequestsAccounted, Placed, TypeOK, Exhausted, Leveled,
        Bucket
  <2>4. Placed'
    BY DEF Placed, TypeOK
  <2>5. Leveled'
    BY DEF Leveled, Exhausted, Projected, Knows, TypeOK, RequestsAccounted, Bucket
  <2>6. Bounded'
    <3> DEFINE k == MaxJobCompletionWakeups * ignored
               l == MaxJobCompletionWakeups * (ignored + 1)
    <3>1. k \in Nat /\ l = k + MaxJobCompletionWakeups
      BY Products DEF TypeOK
    <3>2. /\ Paid = ignored + empties + k
          /\ ignored' = ignored + 1 => Paid' = ignored + 1 + empties + l
          /\ ignored' = ignored => Paid' = Paid
      BY DEF Paid
    <3> HIDE DEF k, l
    <3>3. turns = 0 \/ ignored' = ignored + 1
      BY DEF Bounded, Leveled, TypeOK
    <3>4. turns' = turns /\ turns <= Paid + wakeups + 1 /\ turns' <= TurnsAllowed'
          /\ wrapUp' = wrapUp /\ pc' = "batch" /\ ignored' \in {ignored, ignored + 1}
      BY DEF Bounded, TurnsAllowed
    <3>5. turns' <= Paid'
      BY <3>1, <3>2, <3>3, <3>4 DEF TypeOK
    <3> QED
      BY <3>4, <3>5 DEF Bounded
  <2> QED
    BY <2>1, <2>2, <2>3, <2>4, <2>5, <2>6
<1>12. ASSUME NEW t \in Tokens, AnswerNotified(t) PROVE Inv'
  <2>0. /\ usage' \in [Bucket -> 0 .. Ceiling]
        /\ marks' \subseteq Bucket \X {"warn", "converge", "exhausted"}
        /\ usage'["modelCalls"] = AtMost(usage["modelCalls"] + pending, Ceiling)
        /\ usage'["activeMs"] = usage["activeMs"] + since
        /\ usage'["activeMs"] <= MaxElapsed
        /\ Knows(usage', marks')
        /\ Exhausted => Exhausted'
        /\ Projected /\ since = since => Exhausted'
    <3>1. pending \in Nat /\ t \in Nat /\ since \in 0 .. since
      BY <1>12, LoopAssumption DEF Inv, TypeOK
    <3>2. usage' = Charged(pending, t, since) /\ marks' = marks \cup Passed(Charged(pending, t, since))
      BY <1>12 DEF AnswerNotified, AnswersAndSaves
    <3> QED
      BY <3>1, <3>2, Charging
  <2> USE <2>0, <1>12, LoopAssumption DEF AnswerNotified, AnswersAndSaves, Notifies, Notify,
      ChatOver, Inv, Checkpoint, Running, Asking, budget, call, tally, work, abort, end, hist
  <2>1. TypeOK'
    <3>1. /\ wrapUp' \in BOOLEAN /\ worked' \in BOOLEAN /\ stop' \in BOOLEAN
          /\ fired' \in BOOLEAN /\ budgetAborted' \in BOOLEAN
      BY Zenon DEF TypeOK, CheckpointType, Leveled
    <3>2. TurnsAllowed \in Nat /\ TurnsAllowed' = TurnsAllowed
      BY Products DEF TurnsAllowed
    <3> QED
      BY <3>1, <3>2 DEF TypeOK, CheckpointType, Place, Outcome, AtMost, Bounded, Leveled,
          Bucket
  <2>2. RequestsAccounted'
    BY DEF TypeOK, CheckpointType, RequestsAccounted, AtMost, Bucket
  <2>3. CheckpointComplete'
    BY <2>2 DEF CheckpointComplete, RequestsAccounted, Placed, TypeOK, Exhausted, Leveled,
        Bucket
  <2>4. Placed'
    BY DEF Placed, TypeOK
  <2>5. Leveled'
    BY DEF Leveled, Exhausted, Projected, Knows, TypeOK, RequestsAccounted, Bucket
  <2>6. Bounded'
    BY DEF Bounded, Paid, TypeOK, AtMost
  <2> QED
    BY <2>1, <2>2, <2>3, <2>4, <2>5, <2>6
<1>13. ASSUME NEW t \in Tokens, AnswerEmpty(t) PROVE Inv'
  <2>0. /\ usage' \in [Bucket -> 0 .. Ceiling]
        /\ marks' \subseteq Bucket \X {"warn", "converge", "exhausted"}
        /\ usage'["modelCalls"] = AtMost(usage["modelCalls"] + pending, Ceiling)
        /\ usage'["activeMs"] = usage["activeMs"] + since
        /\ usage'["activeMs"] <= MaxElapsed
        /\ Knows(usage', marks')
        /\ Exhausted => Exhausted'
        /\ Projected /\ since = since => Exhausted'
    <3>1. pending \in Nat /\ t \in Nat /\ since \in 0 .. since
      BY <1>13, LoopAssumption DEF Inv, TypeOK
    <3>2. usage' = Charged(pending, t, since) /\ marks' = marks \cup Passed(Charged(pending, t, since))
      BY <1>13 DEF AnswerEmpty, AnswersAndSaves
    <3> QED
      BY <3>1, <3>2, Charging
  <2> USE <2>0, <1>13, LoopAssumption DEF AnswerEmpty, AnswersAndSaves, MayRecover, ChatOver,
      Inv, Checkpoint, Running, Asking, budget, call, tally, work, abort, end, hist
  <2>1. TypeOK'
    <3>1. /\ wrapUp' \in BOOLEAN /\ worked' \in BOOLEAN /\ stop' \in BOOLEAN
          /\ fired' \in BOOLEAN /\ budgetAborted' \in BOOLEAN
      BY Zenon DEF TypeOK, CheckpointType, Leveled
    <3>2. TurnsAllowed \in Nat /\ TurnsAllowed' = TurnsAllowed
      BY Products DEF TurnsAllowed
    <3> QED
      BY <3>1, <3>2 DEF TypeOK, CheckpointType, Place, Outcome, AtMost, Bounded, Leveled,
          Bucket
  <2>2. RequestsAccounted'
    BY DEF TypeOK, CheckpointType, RequestsAccounted, AtMost, Bucket
  <2>3. CheckpointComplete'
    BY <2>2 DEF CheckpointComplete, RequestsAccounted, Placed, TypeOK, Exhausted, Leveled,
        Bucket
  <2>4. Placed'
    BY DEF Placed, TypeOK
  <2>5. Leveled'
    BY DEF Leveled, Exhausted, Projected, Knows, TypeOK, RequestsAccounted, Bucket
  <2>6. Bounded'
    BY DEF Bounded, Paid, TypeOK, AtMost
  <2> QED
    BY <2>1, <2>2, <2>3, <2>4, <2>5, <2>6
<1>14. ASSUME NEW t \in Tokens, AnswerFinal(t) PROVE Inv'
  <2>0. /\ usage' \in [Bucket -> 0 .. Ceiling]
        /\ marks' \subseteq Bucket \X {"warn", "converge", "exhausted"}
        /\ usage'["modelCalls"] = AtMost(usage["modelCalls"] + pending, Ceiling)
        /\ usage'["activeMs"] = usage["activeMs"] + since
        /\ usage'["activeMs"] <= MaxElapsed
        /\ Knows(usage', marks')
        /\ Exhausted => Exhausted'
        /\ Projected /\ since = since => Exhausted'
    <3>1. pending \in Nat /\ t \in Nat /\ since \in 0 .. since
      BY <1>14, LoopAssumption DEF Inv, TypeOK
    <3>2. usage' = Charged(pending, t, since) /\ marks' = marks \cup Passed(Charged(pending, t, since))
      BY <1>14 DEF AnswerFinal, AnswersAndSaves
    <3> QED
      BY <3>1, <3>2, Charging
  <2> USE <2>0, <1>14, LoopAssumption DEF AnswerFinal, AnswersAndSaves, ChatOver, Inv,
      Checkpoint, Running, Asking, budget, call, tally, work, abort, end, hist
  <2>1. TypeOK'
    <3>1. /\ wrapUp' \in BOOLEAN /\ worked' \in BOOLEAN /\ stop' \in BOOLEAN
          /\ fired' \in BOOLEAN /\ budgetAborted' \in BOOLEAN
      BY Zenon DEF TypeOK, CheckpointType, Leveled
    <3>2. TurnsAllowed \in Nat /\ TurnsAllowed' = TurnsAllowed
      BY Products DEF TurnsAllowed
    <3> QED
      BY <3>1, <3>2 DEF TypeOK, CheckpointType, Place, Outcome, AtMost, Bounded, Leveled,
          Bucket
  <2>2. RequestsAccounted'
    BY DEF TypeOK, CheckpointType, RequestsAccounted, AtMost, Bucket
  <2>3. CheckpointComplete'
    BY <2>2 DEF CheckpointComplete, RequestsAccounted, Placed, TypeOK, Exhausted, Leveled,
        Bucket
  <2>4. Placed'
    BY DEF Placed, TypeOK
  <2>5. Leveled'
    BY DEF Leveled, Exhausted, Projected, Knows, TypeOK, RequestsAccounted, Bucket
  <2>6. Bounded'
    BY DEF Bounded, Paid, TypeOK, AtMost
  <2> QED
    BY <2>1, <2>2, <2>3, <2>4, <2>5, <2>6
<1>15. ASSUME NEW t \in Tokens, AnswerDraft(t) PROVE Inv'
  <2>0. /\ usage' \in [Bucket -> 0 .. Ceiling]
        /\ marks' \subseteq Bucket \X {"warn", "converge", "exhausted"}
        /\ usage'["modelCalls"] = AtMost(usage["modelCalls"] + pending, Ceiling)
        /\ usage'["activeMs"] = usage["activeMs"] + since
        /\ usage'["activeMs"] <= MaxElapsed
        /\ Knows(usage', marks')
        /\ Exhausted => Exhausted'
        /\ Projected /\ since = since => Exhausted'
    <3>1. pending \in Nat /\ t \in Nat /\ since \in 0 .. since
      BY <1>15, LoopAssumption DEF Inv, TypeOK
    <3>2. usage' = Charged(pending, t, since) /\ marks' = marks \cup Passed(Charged(pending, t, since))
      BY <1>15 DEF AnswerDraft, Answers, Settle
    <3> QED
      BY <3>1, <3>2, Charging
  <2> USE <2>0, <1>15, LoopAssumption DEF AnswerDraft, Settle, Ask, Inv, Checkpoint, Running,
      Asking, budget, call, tally, work, abort, end, hist
  <2>1. TypeOK'
    <3>1. /\ wrapUp' \in BOOLEAN /\ worked' \in BOOLEAN /\ stop' \in BOOLEAN
          /\ fired' \in BOOLEAN /\ budgetAborted' \in BOOLEAN
      BY Zenon DEF TypeOK, CheckpointType, Leveled
    <3>2. TurnsAllowed \in Nat /\ TurnsAllowed' = TurnsAllowed
      BY Products DEF TurnsAllowed
    <3> QED
      BY <3>1, <3>2 DEF TypeOK, CheckpointType, Place, Outcome, AtMost, Bounded, Leveled,
          Bucket
  <2>2. RequestsAccounted'
    BY DEF TypeOK, CheckpointType, RequestsAccounted, AtMost, Bucket
  <2>3. CheckpointComplete'
    BY <2>2 DEF CheckpointComplete, RequestsAccounted, Placed, TypeOK, Exhausted, Leveled,
        Bucket
  <2>4. Placed'
    BY DEF Placed, TypeOK
  <2>5. Leveled'
    BY DEF Leveled, Exhausted, Projected, Knows, TypeOK, RequestsAccounted, Bucket
  <2>6. Bounded'
    BY DEF Bounded, Paid, TypeOK, AtMost
  <2> QED
    BY <2>1, <2>2, <2>3, <2>4, <2>5, <2>6
<1>16. ASSUME NEW t \in Tokens, NEW v \in Verdict, ReviewArrives(t, v) PROVE Inv'
  <2>0. /\ usage' \in [Bucket -> 0 .. Ceiling]
        /\ marks' \subseteq Bucket \X {"warn", "converge", "exhausted"}
        /\ usage'["modelCalls"] = AtMost(usage["modelCalls"] + pending, Ceiling)
        /\ usage'["activeMs"] = usage["activeMs"] + since
        /\ usage'["activeMs"] <= MaxElapsed
        /\ Knows(usage', marks')
        /\ Exhausted => Exhausted'
        /\ Projected /\ since = since => Exhausted'
    <3>1. pending \in Nat /\ t \in Nat /\ since \in 0 .. since
      BY <1>16, LoopAssumption DEF Inv, TypeOK
    <3>2. usage' = Charged(pending, t, since) /\ marks' = marks \cup Passed(Charged(pending, t, since))
      BY <1>16 DEF ReviewArrives
    <3> QED
      BY <3>1, <3>2, Charging
  <2> USE <2>0, <1>16, LoopAssumption DEF ReviewArrives, ChatOver, Ask, Inv, Checkpoint,
      Running, Asking, budget, call, tally, work, abort, end, hist
  <2>1. TypeOK'
    <3>1. /\ wrapUp' \in BOOLEAN /\ worked' \in BOOLEAN /\ stop' \in BOOLEAN
          /\ fired' \in BOOLEAN /\ budgetAborted' \in BOOLEAN
      BY Zenon DEF TypeOK, CheckpointType, Leveled
    <3>2. TurnsAllowed \in Nat /\ TurnsAllowed' = TurnsAllowed
      BY Products DEF TurnsAllowed
    <3> QED
      BY <3>1, <3>2 DEF TypeOK, CheckpointType, Place, Outcome, AtMost, Bounded, Leveled,
          Bucket
  <2>2. RequestsAccounted'
    BY DEF TypeOK, CheckpointType, RequestsAccounted, AtMost, Bucket
  <2>3. CheckpointComplete'
    BY <2>2 DEF CheckpointComplete, RequestsAccounted, Placed, TypeOK, Exhausted, Leveled,
        Bucket
  <2>4. Placed'
    BY DEF Placed, TypeOK
  <2>5. Leveled'
    BY DEF Leveled, Exhausted, Projected, Knows, TypeOK, RequestsAccounted, Bucket
  <2>6. Bounded'
    BY DEF Bounded, Paid, TypeOK, AtMost
  <2> QED
    BY <2>1, <2>2, <2>3, <2>4, <2>5, <2>6
<1>17. ASSUME BatchStopped PROVE Inv'
  <2>1. /\ Catch("cancelled") /\ pc \in Running /\ notices' = notices /\ hist' = hist
        /\ "cancelled" = "budget" => Exhausted
    BY <1>17, LoopAssumption DEF BatchStopped, Running, hist, Inv
  <2> QED
    BY <2>1, CatchKeepsInv
<1>18. ASSUME SkipTool PROVE Inv'
  <2> USE <1>18, LoopAssumption DEF SkipTool, Inv, Checkpoint, Running, Asking, budget, call,
      tally, work, abort, end, hist
  <2>1. TypeOK'
    BY DEF TypeOK, CheckpointType, Place, Outcome, AtMost, Bounded, Leveled, Bucket
  <2>2. RequestsAccounted'
    BY DEF TypeOK, CheckpointType, RequestsAccounted, AtMost, Bucket
  <2>3. CheckpointComplete'
    BY <2>2 DEF CheckpointComplete, RequestsAccounted, Placed, TypeOK, Exhausted, Leveled,
        Bucket
  <2>4. Placed'
    BY DEF Placed, TypeOK
  <2>5. Leveled'
    BY DEF Leveled, Exhausted, Projected, Knows, TypeOK, RequestsAccounted, Bucket
  <2>6. Bounded'
    BY DEF Bounded, Paid, TypeOK, AtMost
  <2> QED
    BY <2>1, <2>2, <2>3, <2>4, <2>5, <2>6
<1>19. ASSUME StartTool PROVE Inv'
  <2> USE <1>19, LoopAssumption DEF StartTool, Inv, Checkpoint, Running, Asking, budget, call,
      tally, work, abort, end, hist
  <2>1. TypeOK'
    <3>1. /\ wrapUp' \in BOOLEAN /\ worked' \in BOOLEAN /\ stop' \in BOOLEAN
          /\ fired' \in BOOLEAN /\ budgetAborted' \in BOOLEAN
      BY Zenon DEF TypeOK, CheckpointType, Leveled
    <3>2. TurnsAllowed \in Nat /\ TurnsAllowed' = TurnsAllowed
      BY Products DEF TurnsAllowed
    <3> QED
      BY <3>1, <3>2 DEF TypeOK, CheckpointType, Place, Outcome, AtMost, Bounded, Leveled,
          Bucket
  <2>2. RequestsAccounted'
    BY DEF TypeOK, CheckpointType, RequestsAccounted, AtMost, Bucket
  <2>3. CheckpointComplete'
    BY <2>2 DEF CheckpointComplete, RequestsAccounted, Placed, TypeOK, Exhausted, Leveled,
        Bucket
  <2>4. Placed'
    BY DEF Placed, TypeOK
  <2>5. Leveled'
    BY DEF Leveled, Exhausted, Projected, Knows, TypeOK, RequestsAccounted, Bucket
  <2>6. Bounded'
    BY DEF Bounded, Paid, TypeOK, AtMost
  <2> QED
    BY <2>1, <2>2, <2>3, <2>4, <2>5, <2>6
<1>20. ASSUME ToolReturns PROVE Inv'
  <2> USE <1>20, LoopAssumption DEF ToolReturns, Save, Inv, Checkpoint, Running, Asking,
      budget, call, tally, work, abort, end, hist
  <2>1. TypeOK'
    BY DEF TypeOK, CheckpointType, Place, Outcome, AtMost, Bounded, Leveled, Bucket
  <2>2. RequestsAccounted'
    BY DEF TypeOK, CheckpointType, RequestsAccounted, AtMost, Bucket
  <2>3. CheckpointComplete'
    BY <2>2 DEF CheckpointComplete, RequestsAccounted, Placed, TypeOK, Exhausted, Leveled,
        Bucket
  <2>4. Placed'
    BY DEF Placed, TypeOK
  <2>5. Leveled'
    BY DEF Leveled, Exhausted, Projected, Knows, TypeOK, RequestsAccounted, Bucket
  <2>6. Bounded'
    BY DEF Bounded, Paid, TypeOK, AtMost
  <2> QED
    BY <2>1, <2>2, <2>3, <2>4, <2>5, <2>6
<1>21. ASSUME ToolAborts PROVE Inv'
  <2>1. /\ Catch("cancelled") /\ pc \in Running /\ notices' = notices /\ hist' = hist
        /\ "cancelled" = "budget" => Exhausted
    BY <1>21, LoopAssumption DEF ToolAborts, Running, hist, Inv
  <2> QED
    BY <2>1, CatchKeepsInv
<1>22. ASSUME EndBatchIgnored PROVE Inv'
  <2>1. /\ Catch("budget") /\ pc \in Running /\ notices' = notices /\ hist' = hist
        /\ "budget" = "budget" => Exhausted
    BY <1>22, LoopAssumption DEF EndBatchIgnored, Running, hist, Leveled, TypeOK, Inv
  <2> QED
    BY <2>1, CatchKeepsInv
<1>23. ASSUME EndBatch PROVE Inv'
  <2> USE <1>23, LoopAssumption DEF EndBatch, Save, Inv, Checkpoint, Running, Asking, budget,
      call, tally, work, abort, end, hist
  <2>1. TypeOK'
    BY DEF TypeOK, CheckpointType, Place, Outcome, AtMost, Bounded, Leveled, Bucket
  <2>2. RequestsAccounted'
    BY DEF TypeOK, CheckpointType, RequestsAccounted, AtMost, Bucket
  <2>3. CheckpointComplete'
    BY <2>2 DEF CheckpointComplete, RequestsAccounted, Placed, TypeOK, Exhausted, Leveled,
        Bucket
  <2>4. Placed'
    BY DEF Placed, TypeOK
  <2>5. Leveled'
    BY DEF Leveled, Exhausted, Projected, Knows, TypeOK, RequestsAccounted, Bucket
  <2>6. Bounded'
    BY DEF Bounded, Paid, TypeOK, AtMost
  <2> QED
    BY <2>1, <2>2, <2>3, <2>4, <2>5, <2>6
<1>24. ASSUME Tick PROVE Inv'
  <2> USE <1>24, LoopAssumption DEF Tick, Inv, Checkpoint, Running, Asking, budget, call,
      tally, work, abort, end, hist
  <2>1. TypeOK'
    BY DEF TypeOK, CheckpointType, Place, Outcome, AtMost, Bounded, Leveled, Bucket
  <2>2. RequestsAccounted'
    BY DEF TypeOK, CheckpointType, RequestsAccounted, AtMost, Bucket
  <2>3. CheckpointComplete'
    BY <2>2 DEF CheckpointComplete, RequestsAccounted, Placed, TypeOK, Exhausted, Leveled,
        Bucket
  <2>4. Placed'
    BY DEF Placed, TypeOK
  <2>5. Leveled'
    BY DEF Leveled, Exhausted, Projected, Knows, TypeOK, RequestsAccounted, Bucket
  <2>6. Bounded'
    BY DEF Bounded, Paid, TypeOK, AtMost
  <2> QED
    BY <2>1, <2>2, <2>3, <2>4, <2>5, <2>6
<1>25. ASSUME WatchdogFires PROVE Inv'
  <2> USE <1>25, LoopAssumption DEF WatchdogFires, Watched, HardStop, Inv, Checkpoint,
      Running, Asking, budget, call, tally, work, abort, end, hist
  <2>1. TypeOK'
    <3>1. /\ wrapUp' \in BOOLEAN /\ worked' \in BOOLEAN /\ stop' \in BOOLEAN
          /\ fired' \in BOOLEAN /\ budgetAborted' \in BOOLEAN
      BY Zenon DEF TypeOK, CheckpointType, Leveled
    <3>2. TurnsAllowed \in Nat /\ TurnsAllowed' = TurnsAllowed
      BY Products DEF TurnsAllowed
    <3> QED
      BY <3>1, <3>2 DEF TypeOK, CheckpointType, Place, Outcome, AtMost, Bounded, Leveled,
          Bucket
  <2>2. RequestsAccounted'
    BY DEF TypeOK, CheckpointType, RequestsAccounted, AtMost, Bucket
  <2>3. CheckpointComplete'
    BY <2>2 DEF CheckpointComplete, RequestsAccounted, Placed, TypeOK, Exhausted, Leveled,
        Bucket
  <2>4. Placed'
    BY DEF Placed, TypeOK
  <2>5. Leveled'
    BY DEF Leveled, Exhausted, Projected, Knows, TypeOK, RequestsAccounted, Bucket
  <2>6. Bounded'
    BY DEF Bounded, Paid, TypeOK, AtMost
  <2> QED
    BY <2>1, <2>2, <2>3, <2>4, <2>5, <2>6
<1>26. ASSUME Stop PROVE Inv'
  <2> USE <1>26, LoopAssumption DEF Stop, Inv, Checkpoint, Running, Asking, budget, call,
      tally, work, abort, end, hist
  <2>1. TypeOK'
    <3>1. /\ wrapUp' \in BOOLEAN /\ worked' \in BOOLEAN /\ stop' \in BOOLEAN
          /\ fired' \in BOOLEAN /\ budgetAborted' \in BOOLEAN
      BY Zenon DEF TypeOK, CheckpointType, Leveled
    <3>2. TurnsAllowed \in Nat /\ TurnsAllowed' = TurnsAllowed
      BY Products DEF TurnsAllowed
    <3> QED
      BY <3>1, <3>2 DEF TypeOK, CheckpointType, Place, Outcome, AtMost, Bounded, Leveled,
          Bucket
  <2>2. RequestsAccounted'
    BY DEF TypeOK, CheckpointType, RequestsAccounted, AtMost, Bucket
  <2>3. CheckpointComplete'
    BY <2>2 DEF CheckpointComplete, RequestsAccounted, Placed, TypeOK, Exhausted, Leveled,
        Bucket
  <2>4. Placed'
    BY DEF Placed, TypeOK
  <2>5. Leveled'
    BY DEF Leveled, Exhausted, Projected, Knows, TypeOK, RequestsAccounted, Bucket
  <2>6. Bounded'
    BY DEF Bounded, Paid, TypeOK, AtMost
  <2> QED
    BY <2>1, <2>2, <2>3, <2>4, <2>5, <2>6
<1>27. ASSUME JobCompletes PROVE Inv'
  <2> USE <1>27, LoopAssumption DEF JobCompletes, Inv, Checkpoint, Running, Asking, budget,
      call, tally, work, abort, end, hist
  <2>1. TypeOK'
    BY DEF TypeOK, CheckpointType, Place, Outcome, AtMost, Bounded, Leveled, Bucket
  <2>2. RequestsAccounted'
    BY DEF TypeOK, CheckpointType, RequestsAccounted, AtMost, Bucket
  <2>3. CheckpointComplete'
    BY <2>2 DEF CheckpointComplete, RequestsAccounted, Placed, TypeOK, Exhausted, Leveled,
        Bucket
  <2>4. Placed'
    BY DEF Placed, TypeOK
  <2>5. Leveled'
    BY DEF Leveled, Exhausted, Projected, Knows, TypeOK, RequestsAccounted, Bucket
  <2>6. Bounded'
    BY DEF Bounded, Paid, TypeOK, AtMost
  <2> QED
    BY <2>1, <2>2, <2>3, <2>4, <2>5, <2>6
<1>28. ASSUME Resume PROVE Inv'
  <2> USE <1>28, LoopAssumption DEF Resume, ChatOver, Inv, Checkpoint, Running, Asking,
      budget, call, tally, work, abort, end, hist
  <2>1. TypeOK'
    <3>1. /\ wrapUp' \in BOOLEAN /\ worked' \in BOOLEAN /\ stop' \in BOOLEAN
          /\ fired' \in BOOLEAN /\ budgetAborted' \in BOOLEAN
      BY Zenon DEF TypeOK, CheckpointType, Leveled
    <3>2. TurnsAllowed \in Nat /\ TurnsAllowed' = TurnsAllowed
      BY Products DEF TurnsAllowed
    <3> QED
      BY <3>1, <3>2 DEF TypeOK, CheckpointType, Place, Outcome, AtMost, Bounded, Leveled,
          Bucket
  <2>2. RequestsAccounted'
    BY DEF TypeOK, CheckpointType, RequestsAccounted, AtMost, Bucket
  <2>3. CheckpointComplete'
    BY <2>2 DEF CheckpointComplete, RequestsAccounted, Placed, TypeOK, Exhausted, Leveled,
        Bucket
  <2>4. Placed'
    BY DEF Placed, TypeOK
  <2>5. Leveled'
    BY DEF Leveled, Exhausted, Projected, Knows, TypeOK, RequestsAccounted, Bucket
  <2>6. Bounded'
    <3>1. /\ MaxJobCompletionWakeups * MaxWrapUpIgnoredTurns \in Nat
          /\ MaxJobCompletionWakeups * 0 \in Nat
      BY Products
    <3>2. TurnsAllowed' \in Nat /\ Paid' \in Nat
      BY <3>1 DEF TurnsAllowed, Paid
    <3>3. turns' = 0 /\ ignored' = 0 /\ wakeups' = 0 /\ pc' = "boundary"
      OBVIOUS
    <3>4. 0 < MaxWrapUpIgnoredTurns
      OBVIOUS
    <3>5. turns' <= TurnsAllowed'
      <4>1. \A n \in Nat : 0 <= n
        OBVIOUS
      <4> QED
        BY <3>2, <3>3, <4>1, Zenon
    <3>6. turns' <= Paid' + wakeups' /\ turns' <= Paid' + wakeups' + 1 /\ turns' <= Paid'
      <4>1. \A n \in Nat : 0 <= n /\ 0 <= n + 0 /\ 0 <= n + 0 + 1
        OBVIOUS
      <4> QED
        BY <3>2, <3>3, <4>1, Zenon
    <3>7. ~(turns' > 0) /\ ignored' < MaxWrapUpIgnoredTurns
      <4>1. ~(0 > 0)
        OBVIOUS
      <4> QED
        BY <3>3, <3>4, <4>1, Zenon
    <3> QED
      BY <3>5, <3>6, <3>7, Zenon DEF Bounded
  <2> QED
    BY <2>1, <2>2, <2>3, <2>4, <2>5, <2>6
<1> QED
  BY <1>1, <1>2, <1>3, <1>4, <1>5, <1>6, <1>7, <1>8, <1>9, <1>10, <1>11, <1>12, <1>13, <1>14,
      <1>15, <1>16, <1>17, <1>18, <1>19, <1>20, <1>21, <1>22, <1>23, <1>24, <1>25, <1>26,
      <1>27, <1>28 DEF Next, Loop, Provider, Tool

(* A loop begins with the invariant. *)
LEMMA InitKeepsInv == Init => Inv
<1> SUFFICES ASSUME Init PROVE Inv
  OBVIOUS
<1> USE LoopAssumption DEF Init, Checkpoint, Running, Asking
<1>1. TypeOK
  <2>1. /\ wrapUp \in BOOLEAN /\ worked \in BOOLEAN /\ stop \in BOOLEAN
        /\ fired \in BOOLEAN /\ budgetAborted \in BOOLEAN
    BY Zenon
  <2>2. TurnsAllowed \in Nat
    BY Products DEF TurnsAllowed
  <2>3. usage \in [Bucket -> 0 .. Ceiling] /\ saved \in CheckpointType
    <3>1. 0 \in 0 .. Ceiling
      OBVIOUS
    <3>2. usage \in [Bucket -> 0 .. Ceiling]
      BY <3>1
    <3>3. marks \in SUBSET (Bucket \X {"warn", "converge", "exhausted"})
      OBVIOUS
    <3> QED
      BY <2>1, <3>2, <3>3 DEF CheckpointType
  <2> QED
    BY <2>1, <2>2, <2>3 DEF TypeOK, Place, Outcome
<1>2. RequestsAccounted
  BY DEF RequestsAccounted, Bucket
<1>3. CheckpointComplete
  BY DEF CheckpointComplete
<1>4. Placed
  BY DEF Placed
<1>5. Leveled
  <2>1. \A b \in Bucket : ~(usage[b] >= Limit[b])
    OBVIOUS
  <2> QED
    BY <2>1 DEF Leveled, Knows, Bucket
<1>6. Bounded
  <2>1. TurnsAllowed \in Nat /\ Paid \in Nat
    BY Products DEF TurnsAllowed, Paid
  <2> QED
    BY <2>1 DEF Bounded
<1> QED
  BY <1>1, <1>2, <1>3, <1>4, <1>5, <1>6 DEF Inv

(* Nothing of the invariant is lost when nothing happens. *)
LEMMA StutterKeepsInv ==
  ASSUME Inv, UNCHANGED vars
  PROVE  Inv'
<1> USE DEF Inv, vars, budget, call, tally, work, abort, end, hist
<1>1. TypeOK' /\ RequestsAccounted' /\ CheckpointComplete'
  BY DEF TypeOK, TurnsAllowed, RequestsAccounted, CheckpointComplete
<1>2. Placed' /\ Leveled' /\ Bounded'
  BY DEF Placed, Leveled, Bounded, Knows, Exhausted, Projected, Paid, TurnsAllowed
<1> QED
  BY <1>1, <1>2

(* The inductive invariant of the loop. *)
LEMMA InvHolds == Spec => []Inv
<1>1. Inv /\ [Next]_vars => Inv'
  BY StepKeepsInv, StutterKeepsInv
<1> QED
  BY InitKeepsInv, <1>1, PTL DEF Spec

-----------------------------------------------------------------------------
(* Theorems *)

(* Type correctness of the loop: its counters of retries, recoveries, wake-ups and *)
(* ignored instructions stay within what the code allows of each.                  *)
THEOREM LoopTypeCorrect == Spec => []TypeOK
<1>1. Inv => TypeOK
  BY DEF Inv
<1> QED
  BY InvHolds, <1>1, PTL

(* Every request is charged or about to be, and each unit of time is charged once. *)
THEOREM RequestsAccountedHolds == Spec => []RequestsAccounted
<1>1. Inv => RequestsAccounted
  BY DEF Inv
<1> QED
  BY InvHolds, <1>1, PTL

(* The checkpoint of a loop between turns, or that ended, holds all of the charges. *)
THEOREM CheckpointCompleteHolds == Spec => []CheckpointComplete
<1>1. Inv => CheckpointComplete
  BY DEF Inv
<1> QED
  BY InvHolds, <1>1, PTL

(* The turns begun with the wrap-up instruction are bounded by the allowances alone. *)
THEOREM WrapUpBoundedHolds == Spec => []WrapUpBounded
<1>1. Inv => WrapUpBounded
  BY DEF Inv, Bounded, WrapUpBounded
<1> QED
  BY InvHolds, <1>1, PTL

(* One model call speaks with the voice of one request. *)
THEOREM OneVoiceHolds == Spec => []OneVoice
<1>1. ASSUME Inv PROVE OneVoice
  <2>1. voices \subseteq {attempt}
    BY <1>1 DEF Inv, Placed
  <2>2. IsFiniteSet({attempt}) /\ Cardinality({attempt}) = 1
    BY FS_Singleton
  <2>3. Cardinality(voices) <= 1
    BY <2>1, <2>2, FS_Subset
  <2> QED
    BY <2>3 DEF OneVoice
<1> QED
  BY InvHolds, <1>1, PTL

(* No tool begins once the budget is really spent. *)
THEOREM NoToolPastBudgetHolds == Spec => NoToolPastBudget
<1> DEFINE Within == sent < Limit["modelCalls"] /\ elapsed < Limit["activeMs"]
<1>1. ASSUME Inv, StartTool PROVE Within
  <2>1. /\ usage["modelCalls"] \in Nat /\ usage["activeMs"] \in Nat /\ since \in Nat
        /\ sent \in Nat /\ elapsed \in Nat
        /\ Limit["modelCalls"] \in Nat /\ Limit["activeMs"] \in Nat
    BY <1>1, LoopAssumption DEF Inv, TypeOK, Bucket
  <2>2. ~Exhausted /\ usage["activeMs"] + since < Limit["activeMs"]
    BY <1>1, <2>1 DEF StartTool, Blocked, Projected
  <2>3. usage["modelCalls"] < Limit["modelCalls"]
    BY <1>1, <2>1, <2>2 DEF Inv, Leveled, Knows, Exhausted, Bucket
  <2>4. sent <= usage["modelCalls"] /\ elapsed = usage["activeMs"] + since
    BY <1>1, <2>1 DEF Inv, Placed, Asking, RequestsAccounted, StartTool
  <2> QED
    BY <2>1, <2>2, <2>3, <2>4
<1>2. ASSUME Next, StartsTool PROVE StartTool
  <2> USE <1>2 DEF StartsTool
  <2>1. CASE Loop
    BY <2>1 DEF Loop, StartStopped, StartTurn, Ask, SendRequest, RequestAborted, Throws,
        SummaryFails, Catch, OverBudget, AskModel, BatchStopped, SkipTool, EndBatchIgnored,
        EndBatch
  <2>2. CASE Provider
    BY <2>2 DEF Provider, Retry, RequestFails, Throws, SummaryFails, Catch, SummaryArrives,
        AnswerTools, AnswerNotified, AnswerEmpty, AnswerFinal, AnswerDraft, ReviewArrives, Ask
  <2>3. CASE Tool \/ Hear \/ Tick \/ WatchdogFires \/ Stop \/ JobCompletes \/ Resume
    BY <2>3 DEF Tool, ToolReturns, ToolAborts, Catch, Hear, Tick, WatchdogFires, Stop,
        JobCompletes, Resume
  <2> QED
    BY <2>1, <2>2, <2>3 DEF Next
<1>3. Inv /\ [Next]_vars => [StartsTool => Within]_vars
  BY <1>1, <1>2
<1> QED
  BY InvHolds, <1>3, PTL DEF Spec, NoToolPastBudget

(* After the user's stop nothing is sent, no tool begins and nothing completes. *)
THEOREM StopIsFinalHolds == Spec => StopIsFinal
<1> DEFINE Quiet == /\ sent' = sent /\ ~StartsTool
                    /\ (outcome' = "completed" => outcome = "completed")
<1>1. ASSUME Next, stop, stop' PROVE Quiet
  <2> USE <1>1 DEF StartsTool, Aborted, hist, end, work, abort
  <2>1. CASE Loop
    BY <2>1 DEF Loop, StartStopped, StartTurn, SendRequest, RequestAborted, Throws,
        SummaryFails, Catch, OverBudget, AskModel, BatchStopped, SkipTool, StartTool,
        EndBatchIgnored, EndBatch, Ask
  <2>2. CASE Provider
    BY <2>2 DEF Provider, Retry, RequestFails, SummaryArrives, AnswerTools, Answers,
        AnswerNotified, AnswerEmpty, AnswerFinal, AnswerDraft, ReviewArrives, AnswersAndSaves
  <2>3. CASE Tool \/ Hear \/ Tick \/ WatchdogFires \/ Stop \/ JobCompletes \/ Resume
    BY <2>3 DEF Tool, ToolReturns, ToolAborts, Catch, Hear, Tick, WatchdogFires, Stop,
        JobCompletes, Resume
  <2> QED
    BY <2>1, <2>2, <2>3 DEF Next
<1>2. [Next]_vars => [stop /\ stop' => Quiet]_vars
  BY <1>1
<1> QED
  BY <1>2, PTL DEF Spec, StopIsFinal
=============================================================================
