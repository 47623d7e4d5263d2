------------------------ MODULE ToolInvocationProofs ------------------------
(***************************************************************************)
(* Theorems about ToolInvocation, for every set of calls and operations,   *)
(* every retry limit and any number of crashes and resumes.                *)
(***************************************************************************)
EXTENDS ToolInvocation, TLAPS

-----------------------------------------------------------------------------
(* Type correctness *)

(* save() writes what memory holds: a typed memory leaves a typed file.       *)
LEMMA SaveTyping ==
  ASSUME NEW ok, DiskType, MemoryType', Save(ok)
  PROVE  DiskType'
  BY DEF Save, DiskType, MemoryType, disk

(* Every action takes typed invocation fields to typed invocation fields.     *)
LEMMA InvocationTyping ==
  ASSUME InvocationType, [Next]_vars
  PROVE  InvocationType'
<1> USE DEF InvocationType, Phase, TERMINAL_PHASES, ToolError
<1>1. ASSUME NEW c \in Call, Receive(c) PROVE InvocationType'
  BY <1>1 DEF Receive
<1>2. CASE PassCheck
  BY <1>2 DEF PassCheck
<1>3. CASE Authorize \/ CheckEffect \/ ApprovalGranted
  BY <1>3 DEF Authorize, CheckEffect, ApprovalGranted
<1>4. CASE Replay \/ RefuseUncertain \/ RefuseBlocked
  BY <1>4 DEF Replay, RefuseUncertain, RefuseBlocked, AnswerWithoutRunning
<1>5. CASE BeginIntent
  BY <1>5 DEF BeginIntent, MayStart
<1>6. CASE StartAttempt
  BY <1>6 DEF StartAttempt, ReadyToExecute, MayStart
<1>7. CASE EnterTool
  BY <1>7 DEF EnterTool
<1>8. CASE CatchMissingTool \/ PreparationSettles
  BY <1>8 DEF CatchMissingTool, PreparationSettles
<1>9. CASE Return \/ ThrowIfAborted
  BY <1>9 DEF Return, NoInvocation, ThrowIfAborted, invocation
<1>10. ASSUME NEW ok \in BOOLEAN, FailCheck(ok) PROVE InvocationType'
  BY <1>10 DEF FailCheck, ThrowUnless
<1>11. ASSUME NEW ok \in BOOLEAN, ApprovalDenied(ok) PROVE InvocationType'
  BY <1>11 DEF ApprovalDenied, ThrowUnless
<1>12. ASSUME NEW ok \in BOOLEAN, PersistIntent(ok) PROVE InvocationType'
  BY <1>12 DEF PersistIntent, ThrowUnless
<1>13. ASSUME NEW ok \in BOOLEAN, NetworkDenied(ok) PROVE InvocationType'
  BY <1>13 DEF NetworkDenied, ThrowUnless, Disposed
<1>14. ASSUME NEW ok \in BOOLEAN, CatchTimeout(ok) PROVE InvocationType'
  BY <1>14 DEF CatchTimeout, ThrowUnless, timedOut
<1>15. ASSUME NEW ok \in BOOLEAN, CatchAbort(ok) PROVE InvocationType'
  BY <1>15 DEF CatchAbort, Catching
<1>16. ASSUME NEW ok \in BOOLEAN, CatchFailure(ok) PROVE InvocationType'
  BY <1>16 DEF CatchFailure, ThrowUnless, Catching
<1>17. ASSUME NEW ok \in BOOLEAN, RunCompletes(ok) PROVE InvocationType'
  BY <1>17 DEF RunCompletes, invocation
<1>18. ASSUME NEW ok \in BOOLEAN, AgentCatch(ok) PROVE InvocationType'
  BY <1>18 DEF AgentCatch, NoInvocation
<1>19. ASSUME NEW valid \in BOOLEAN, NEW ok \in BOOLEAN, ToolReturns(valid, ok)
       PROVE  InvocationType'
  BY <1>19 DEF ToolReturns, Disposed
<1>20. ASSUME NEW error \in ToolError, ToolThrows(error) PROVE InvocationType'
  BY <1>20 DEF ToolThrows, Disposed
<1>21. CASE Stop \/ DeadlineFires
  BY <1>21 DEF Stop, DeadlineFires
<1>22. CASE Crash \/ Resume
  BY <1>22 DEF Crash, Resume, NoInvocation, invocation
<1>23. ASSUME NEW m \in Modes, SetNetworkMode(m) PROVE InvocationType'
  BY <1>23 DEF SetNetworkMode, invocation
<1>24. CASE UNCHANGED vars
  BY <1>24 DEF vars, invocation
<1> QED
  BY <1>1, <1>2, <1>3, <1>4, <1>5, <1>6, <1>7, <1>8, <1>9, <1>10, <1>11, <1>12, <1>13,
     <1>14, <1>15, <1>16, <1>17, <1>18, <1>19, <1>20, <1>21, <1>22, <1>23, <1>24
  DEF Next, Agent, Tool, Environment

(* Every action takes a typed guard, scratchpad, file and history to typed    *)
(* ones.                                                                      *)
LEMMA DataTyping ==
  ASSUME TypeOK, [Next]_vars
  PROVE  MemoryType' /\ DiskType' /\ WorldType'
<1> USE ConstantsAssumption
<1> DEFINE Same == UNCHANGED <<memory, disk, history>>
<1> DEFINE SameWorld == UNCHANGED <<history, world>>
<1>a. MemoryType /\ DiskType /\ WorldType
  BY DEF TypeOK
<1>b. call \in Call => op \in Operation
  BY DEF op
<1>c. exec # "none" => call \in Call
  BY DEF TypeOK, InvocationType
<1>d. ASSUME UNCHANGED memory PROVE MemoryType'
  BY <1>a, <1>d DEF MemoryType, memory
<1>e. ASSUME UNCHANGED disk PROVE DiskType'
  BY <1>a, <1>e DEF DiskType, disk
<1>f. ASSUME SameWorld, aborted' = aborted PROVE WorldType'
  BY <1>a, <1>f DEF WorldType, world, history
<1>g. isNonIdempotent => call \in Call
  BY DEF isNonIdempotent
<1>h. exec # "none" => GuardMarkedUncertain \in [Operation -> GuardState]
  BY <1>a, <1>b, <1>c DEF GuardMarkedUncertain, MemoryType, GuardState
<1>i. ASSUME EmptyMemory PROVE MemoryType'
  BY <1>i DEF EmptyMemory, MemoryType, GuardState
<1>1. ASSUME NEW c \in Call, Receive(c) PROVE MemoryType' /\ DiskType' /\ WorldType'
  BY <1>1, <1>d, <1>e, <1>f DEF Receive
<1>2. CASE PassCheck \/ Authorize \/ CheckEffect \/ ApprovalGranted
  BY <1>2, <1>d, <1>e, <1>f DEF PassCheck, Authorize, CheckEffect, ApprovalGranted
<1>3. CASE Replay \/ RefuseUncertain \/ RefuseBlocked
  BY <1>3, <1>d, <1>e, <1>f DEF Replay, RefuseUncertain, RefuseBlocked, AnswerWithoutRunning
<1>4. CASE BeginIntent
  <2>1. guard' \in [Operation -> GuardState]
    BY <1>4, <1>a, <1>b, <1>g DEF BeginIntent, MemoryType, GuardState
  <2>2. MemoryType'
    BY <2>1, <1>4, <1>a DEF BeginIntent, MemoryType
  <2> QED
    BY <2>2, <1>4, <1>e, <1>f DEF BeginIntent
<1>5. CASE StartAttempt
  BY <1>5, <1>d, <1>e, <1>f DEF StartAttempt
<1>6. CASE EnterTool
  <2>1. starts' \in [Operation -> Nat]
    BY <1>6, <1>a, <1>b, <1>c DEF EnterTool, WorldType
  <2>2. WorldType'
    BY <2>1, <1>6, <1>a DEF EnterTool, WorldType, world
  <2> QED
    BY <2>2, <1>6, <1>d, <1>e DEF EnterTool
<1>7. CASE CatchMissingTool \/ PreparationSettles \/ Return \/ ThrowIfAborted
  BY <1>7, <1>d, <1>e, <1>f DEF CatchMissingTool, PreparationSettles, Return, ThrowIfAborted
<1>8. ASSUME NEW ok \in BOOLEAN,
             FailCheck(ok) \/ ApprovalDenied(ok) \/ PersistIntent(ok) \/ NetworkDenied(ok)
      PROVE  MemoryType' /\ DiskType' /\ WorldType'
  <2>1. MemoryType' /\ WorldType' /\ Save(ok)
    BY <1>8, <1>d, <1>f DEF FailCheck, ApprovalDenied, PersistIntent, NetworkDenied
  <2> QED
    BY <2>1, <1>a, SaveTyping
<1>9. ASSUME NEW ok \in BOOLEAN, CatchTimeout(ok) \/ CatchAbort(ok)
      PROVE  MemoryType' /\ DiskType' /\ WorldType'
  <2>1. exec # "none" /\ guard' = GuardMarkedUncertain
    BY <1>9 DEF CatchTimeout, CatchAbort, Catching, ToolError
  <2>2. MemoryType'
    BY <2>1, <1>9, <1>a, <1>h DEF CatchTimeout, CatchAbort, MemoryType
  <2>3. WorldType' /\ Save(ok)
    BY <1>9, <1>f DEF CatchTimeout, CatchAbort
  <2> QED
    BY <2>2, <2>3, <1>a, SaveTyping
<1>10. ASSUME NEW ok \in BOOLEAN, CatchFailure(ok)
       PROVE  MemoryType' /\ DiskType' /\ WorldType'
  <2>1. exec # "none" /\ guard' = GuardMarkedUncertain
    BY <1>10 DEF CatchFailure, Catching, ToolError
  <2>2. failures' \in [Call -> Nat]
    BY <2>1, <1>10, <1>a, <1>c DEF CatchFailure, MemoryType
  <2>3. MemoryType'
    BY <2>1, <2>2, <1>10, <1>a, <1>h DEF CatchFailure, MemoryType
  <2>4. WorldType' /\ Save(ok)
    BY <1>10, <1>f DEF CatchFailure
  <2> QED
    BY <2>3, <2>4, <1>a, SaveTyping
<1>11. ASSUME NEW ok \in BOOLEAN, RunCompletes(ok) \/ AgentCatch(ok)
       PROVE  MemoryType' /\ DiskType' /\ WorldType'
  <2>1. WorldType'
    BY <1>11, <1>f DEF RunCompletes, AgentCatch
  <2>2. MemoryType'
    BY <1>11, <1>d, <1>i DEF RunCompletes, AgentCatch
  <2>3. DiskType'
    BY <1>11, <1>a, <1>e DEF RunCompletes, AgentCatch, DiskType, MemoryType
  <2> QED
    BY <2>1, <2>2, <2>3
<1>12. ASSUME NEW valid \in BOOLEAN, NEW ok \in BOOLEAN, ToolReturns(valid, ok)
       PROVE  MemoryType' /\ DiskType' /\ WorldType'
  <2>1. call \in Call /\ op \in Operation
    BY <1>12, <1>b, <1>c DEF ToolReturns
  <2>2. guard' \in [Operation -> GuardState]
    BY <2>1, <1>12, <1>a DEF ToolReturns, MemoryType, GuardState
  <2>3. failures' \in [Call -> Nat] /\ invalidSteps' \subseteq Call
    BY <2>1, <1>12, <1>a DEF ToolReturns, MemoryType
  <2>4. MemoryType' /\ Save(ok)
    BY <2>2, <2>3, <1>12 DEF ToolReturns, MemoryType
  <2>5. returned' \subseteq Operation
    BY <2>1, <1>12, <1>a DEF ToolReturns, WorldType
  <2>6. WorldType'
    BY <2>5, <1>12, <1>a DEF ToolReturns, WorldType, world
  <2> QED
    BY <2>4, <2>6, <1>a, SaveTyping
<1>13. ASSUME NEW error \in ToolError, ToolThrows(error)
       PROVE  MemoryType' /\ DiskType' /\ WorldType'
  BY <1>13, <1>d, <1>e, <1>f DEF ToolThrows
<1>14. CASE Stop \/ DeadlineFires
  <2>1. WorldType'
    BY <1>14, <1>a DEF Stop, DeadlineFires, WorldType, world, history
  <2> QED
    BY <2>1, <1>14, <1>d, <1>e DEF Stop, DeadlineFires
<1>15. CASE Crash
  BY <1>15, <1>e, <1>f, <1>i DEF Crash
<1>16. CASE Resume
  <2>1. MemoryType'
    BY <1>16, <1>a DEF Resume, MemoryType, DiskType
  <2>2. WorldType'
    <3>1. aborted' \in BOOLEAN
      BY <1>16 DEF Resume
    <3>2. resumes' \in Nat /\ network' = network /\ starts' = starts /\ returned' = returned
      BY <1>16, <1>a DEF Resume, WorldType, history
    <3> QED
      BY <3>1, <3>2, <1>a DEF WorldType
  <2> QED
    BY <2>1, <2>2, <1>16, <1>e DEF Resume
<1>17. ASSUME NEW m \in Modes, SetNetworkMode(m)
       PROVE  MemoryType' /\ DiskType' /\ WorldType'
  <2>1. WorldType'
    BY <1>17, <1>a DEF SetNetworkMode, WorldType, history
  <2> QED
    BY <2>1, <1>17, <1>d, <1>e DEF SetNetworkMode
<1>18. CASE UNCHANGED vars
  BY <1>18, <1>d, <1>e, <1>f DEF vars
<1> QED
  BY <1>1, <1>2, <1>3, <1>4, <1>5, <1>6, <1>7, <1>8, <1>9, <1>10, <1>11, <1>12, <1>13,
     <1>14, <1>15, <1>16, <1>17, <1>18
  DEF Next, Agent, Tool, Environment

(* The state of the pipeline stays in the domains process-manager.ts,         *)
(* scratchpad.ts and side-effect.ts give it.                                  *)
THEOREM TypeCorrect == Spec => []TypeOK
<1>1. Init => TypeOK
  <2> SUFFICES ASSUME Init PROVE TypeOK
    OBVIOUS
  <2>1. InvocationType
    BY DEF Init, InvocationType, Phase, TERMINAL_PHASES, ToolError
  <2>2. MemoryType /\ DiskType
    BY DEF Init, MemoryType, DiskType, GuardState
  <2>3. WorldType
    BY ConstantsAssumption DEF Init, WorldType
  <2> QED
    BY <2>1, <2>2, <2>3 DEF TypeOK
<1>2. TypeOK /\ [Next]_vars => TypeOK'
  BY InvocationTyping, DataTyping DEF TypeOK
<1> QED
  BY <1>1, <1>2, PTL DEF Spec

-----------------------------------------------------------------------------
(* At most once *)

(* A started operation is on disk. *)
StartsAreLogged ==
  \A o \in Operation : starts[o] <= 1 /\ (starts[o] = 1 => diskGuard[o] # "none")

(* The guard of a living Run knows every record of the file ... *)
MemoryCoversDisk ==
  run # "down" => \A o \in Operation : diskGuard[o] # "none" => guard[o] # "none"

(* ... and the file every record but the one being persisted. *)
DiskCoversMemory ==
  run # "down" =>
    \A o \in Operation :
      guard[o] # "none" /\ diskGuard[o] = "none" =>
        o = op /\ (phase = "intent_persisting" \/ run = "throwing")

(* What the control point says of the operation in flight. *)
BeforeTheTool ==
  /\ phase \in {"intent_persisting", "intent_persisted"} => isNonIdempotent
  /\ phase \in {"intent_persisting", "intent_persisted"} \/ (exec = "entering" /\ isNonIdempotent)
       => guard[op] # "none" /\ starts[op] = 0
  /\ phase = "retry_wait" => ~isNonIdempotent

InTheTool ==
  /\ exec \in {"running"} \cup ToolError /\ isNonIdempotent => starts[op] = 1
  /\ exec # "none" => attempt >= 1

AtRest == run = "down" => phase = "idle" /\ exec = "none"

(* A success on record is the success of a tool that returned. *)
SuccessIsReal ==
  /\ phase = "replayed" => op \in returned
  /\ \A o \in Operation :
       guard[o] = "succeeded" \/ diskGuard[o] = "succeeded" => o \in returned

SideEffectInv ==
  /\ StartsAreLogged /\ MemoryCoversDisk /\ DiskCoversMemory
  /\ BeforeTheTool /\ InTheTool /\ AtRest /\ SuccessIsReal

(* The inductive step: no action of the pipeline, the tool, the user or the   *)
(* environment breaks the invariant behind at-most-once.                      *)
LEMMA SideEffectStep ==
  ASSUME TypeOK, SideEffectInv, [Next]_vars
  PROVE  SideEffectInv'
<1> USE ConstantsAssumption DEF SideEffectInv, StartsAreLogged, MemoryCoversDisk,
      DiskCoversMemory, BeforeTheTool, InTheTool, AtRest, SuccessIsReal, isNonIdempotent, op
<1>a. /\ guard \in [Operation -> GuardState] /\ diskGuard \in [Operation -> GuardState]
      /\ starts \in [Operation -> Nat] /\ attempt \in Nat
      /\ phase # "idle" => call \in Call
      /\ exec # "none" => phase \in {"executing", "dependency_preparation"}
      /\ run \in {"active", "throwing", "down"}
  BY DEF TypeOK, InvocationType, MemoryType, DiskType, WorldType
<1>b. call \in Call => OperationOf[call] \in Operation
  OBVIOUS
<1>1. ASSUME NEW c \in Call, Receive(c) PROVE SideEffectInv'
  BY <1>1, <1>a DEF Receive, memory, disk, history, ToolError
<1>2. CASE PassCheck \/ Authorize \/ CheckEffect \/ ApprovalGranted
  BY <1>2, <1>a DEF PassCheck, Authorize, CheckEffect, ApprovalGranted, memory, disk, history
<1>3. CASE Replay \/ RefuseUncertain \/ RefuseBlocked
  BY <1>3, <1>a, <1>b DEF Replay, RefuseUncertain, RefuseBlocked, AnswerWithoutRunning, memory,
     disk, history, Disposition
<1>4. CASE BeginIntent
  <2>1. guard[op] = "none" /\ starts[op] = 0
    BY <1>4, <1>a, <1>b DEF BeginIntent, MayStart, Disposition, GuardState
  <2> QED
    BY <1>4, <2>1, <1>a, <1>b DEF BeginIntent, MayStart, disk, history
<1>5. CASE StartAttempt
  BY <1>5, <1>a DEF StartAttempt, ReadyToExecute, MayStart, memory, disk, history, ToolError
<1>6. CASE EnterTool
  BY <1>6, <1>a, <1>b DEF EnterTool, memory, disk, history, ToolError
<1>7. CASE CatchMissingTool \/ PreparationSettles
  BY <1>7, <1>a DEF CatchMissingTool, PreparationSettles, Catching, memory, disk, history,
     ToolError
<1>8. CASE Return \/ ThrowIfAborted
  BY <1>8, <1>a DEF Return, ThrowIfAborted, NoInvocation, invocation, memory, disk, history,
     TERMINAL_PHASES, ToolError
<1>9. ASSUME NEW ok \in BOOLEAN, FailCheck(ok) \/ ApprovalDenied(ok) PROVE SideEffectInv'
  BY <1>9, <1>a DEF FailCheck, ApprovalDenied, Save, ThrowUnless, memory, disk, history
<1>10. ASSUME NEW ok \in BOOLEAN, PersistIntent(ok) PROVE SideEffectInv'
  BY <1>10, <1>a DEF PersistIntent, Save, ThrowUnless, memory, disk, history
<1>11. ASSUME NEW ok \in BOOLEAN, NetworkDenied(ok) PROVE SideEffectInv'
  BY <1>11, <1>a DEF NetworkDenied, Save, ThrowUnless, memory, disk, history, ToolError
<1>12. ASSUME NEW ok \in BOOLEAN, CatchTimeout(ok) \/ CatchAbort(ok) PROVE SideEffectInv'
  BY <1>12, <1>a, <1>b DEF CatchTimeout, CatchAbort, Catching, GuardMarkedUncertain, Save,
     ThrowUnless, disk, history, ToolError
<1>13. ASSUME NEW ok \in BOOLEAN, CatchFailure(ok) PROVE SideEffectInv'
  BY <1>13, <1>a, <1>b DEF CatchFailure, Catching, GuardMarkedUncertain, Save, ThrowUnless,
     disk, history, ToolError, willRetry, effectiveRetries
<1>14. ASSUME NEW ok \in BOOLEAN, RunCompletes(ok) \/ AgentCatch(ok) PROVE SideEffectInv'
  BY <1>14, <1>a DEF RunCompletes, AgentCatch, NoInvocation, EmptyMemory, invocation, memory,
     disk, history, ToolError
<1>15. ASSUME NEW valid \in BOOLEAN, NEW ok \in BOOLEAN, ToolReturns(valid, ok)
       PROVE  SideEffectInv'
  BY <1>15, <1>a, <1>b DEF ToolReturns, Save, disk, ToolError
<1>16. ASSUME NEW error \in ToolError, ToolThrows(error) PROVE SideEffectInv'
  BY <1>16, <1>a DEF ToolThrows, memory, disk, history, ToolError
<1>17. CASE Stop \/ DeadlineFires
  BY <1>17, <1>a DEF Stop, DeadlineFires, memory, disk, history
<1>18. CASE Crash \/ Resume
  BY <1>18, <1>a DEF Crash, Resume, NoInvocation, EmptyMemory, invocation, disk, history,
     ToolError
<1>19. ASSUME NEW m \in Modes, SetNetworkMode(m) PROVE SideEffectInv'
  BY <1>19 DEF SetNetworkMode, invocation, memory, disk, history
<1>20. CASE UNCHANGED vars
  BY <1>20 DEF vars, invocation, memory, disk, history
<1> QED
  BY <1>1, <1>2, <1>3, <1>4, <1>5, <1>6, <1>7, <1>8, <1>9, <1>10, <1>11, <1>12, <1>13,
     <1>14, <1>15, <1>16, <1>17, <1>18, <1>19, <1>20
  DEF Next, Agent, Tool, Environment

LEMMA SideEffectInvariance == Spec => [](TypeOK /\ SideEffectInv)
<1>1. Init => SideEffectInv
  BY ConstantsAssumption
  DEF Init, SideEffectInv, StartsAreLogged, MemoryCoversDisk, DiskCoversMemory, BeforeTheTool,
      InTheTool, AtRest, SuccessIsReal, ToolError
<1>2. TypeOK /\ SideEffectInv /\ [Next]_vars => SideEffectInv'
  BY SideEffectStep
<1> QED
  BY <1>1, <1>2, TypeCorrect, PTL DEF Spec

(* Whatever the model asks for, whatever the tools do, whenever the process   *)
(* dies and however often the Run is resumed: a non-idempotent operation is   *)
(* started at most once.                                                      *)
THEOREM AtMostOnceHolds == Spec => []AtMostOnce
<1>1. SideEffectInv => AtMostOnce
  BY DEF SideEffectInv, StartsAreLogged, AtMostOnce
<1> QED
  BY <1>1, SideEffectInvariance, PTL

(* A replayed answer is the answer of an operation whose tool returned.       *)
THEOREM ReplayFaithfulHolds == Spec => []ReplayFaithful
<1>1. SideEffectInv => ReplayFaithful
  BY DEF SideEffectInv, SuccessIsReal, ReplayFaithful
<1> QED
  BY <1>1, SideEffectInvariance, PTL

-----------------------------------------------------------------------------
(* Refinement of the ledger *)

Unchanged == UNCHANGED <<diskGuard, starts, returned>>

(* A step that leaves file and history alone is a step of no ledger.          *)
LEMMA LedgerStutter == Unchanged => UNCHANGED Ledger!vars
  BY DEF Unchanged, Ledger!vars

(* A write of a guard that knows the same operations does not log one.        *)
LEMMA SaveLogsNothing ==
  ASSUME NEW ok, Save(ok),
         \A o \in Operation : guard'[o] # "none" <=> diskGuard[o] # "none",
         UNCHANGED <<starts, returned>>
  PROVE  UNCHANGED Ledger!vars
<1>1. \A o \in Operation : diskGuard'[o] # "none" <=> diskGuard[o] # "none"
  BY DEF Save, disk
<1> QED
  BY <1>1 DEF Ledger!vars

(* A write of a guard that knows one operation more logs at most that one.    *)
LEMMA WriteLogsOne ==
  ASSUME NEW x \in Operation,
         diskGuard' = diskGuard \/ diskGuard' = guard,
         \A o \in Operation : diskGuard[o] # "none" => guard[o] # "none",
         \A o \in Operation : guard[o] # "none" /\ diskGuard[o] = "none" => o = x,
         UNCHANGED <<starts, returned>>
  PROVE  [Ledger!Next]_(Ledger!vars)
<1> DEFINE logged == {o \in Operation : diskGuard[o] # "none"}
<1>1. logged' = logged \/ (x \notin logged /\ logged' = logged \cup {x})
  OBVIOUS
<1>2. CASE logged' = logged
  BY <1>2 DEF Ledger!vars
<1>3. CASE x \notin logged /\ logged' = logged \cup {x}
  BY <1>3 DEF Ledger!Next, Ledger!Log
<1> QED
  BY <1>1, <1>2, <1>3

(* Every step of the pipeline is a step of the ledger or leaves it unchanged. *)
LEMMA LedgerStep ==
  ASSUME TypeOK, SideEffectInv, [Next]_vars
  PROVE  [Ledger!Next]_(Ledger!vars)
<1> USE ConstantsAssumption
<1>a. /\ guard \in [Operation -> GuardState] /\ diskGuard \in [Operation -> GuardState]
      /\ starts \in [Operation -> Nat]
      /\ phase # "idle" => call \in Call
      /\ exec # "none" => phase \in {"executing", "dependency_preparation"}
  BY DEF TypeOK, InvocationType, MemoryType, DiskType, WorldType
<1>b. call \in Call => op \in Operation
  BY DEF op
<1>c. \A o \in Operation : run # "down" => (diskGuard[o] # "none" => guard[o] # "none")
  BY DEF SideEffectInv, MemoryCoversDisk
<1>d. run = "active" /\ phase # "intent_persisting" =>
        \A o \in Operation : guard[o] # "none" <=> diskGuard[o] # "none"
  BY <1>c DEF SideEffectInv, DiskCoversMemory
<1>e. Unchanged => [Ledger!Next]_(Ledger!vars)
  BY LedgerStutter
<1>f. exec \in {"running"} \cup ToolError /\ isNonIdempotent
        => op \in Operation /\ starts[op] = 1 /\ diskGuard[op] # "none"
  BY <1>a, <1>b DEF SideEffectInv, InTheTool, StartsAreLogged, ToolError
<1>1. ASSUME NEW c \in Call, Receive(c) PROVE [Ledger!Next]_(Ledger!vars)
  BY <1>1, <1>e DEF Receive, disk, history, Unchanged
<1>2. CASE PassCheck \/ Authorize \/ CheckEffect \/ ApprovalGranted
  BY <1>2, <1>e DEF PassCheck, Authorize, CheckEffect, ApprovalGranted, disk, history, Unchanged
<1>3. CASE Replay \/ RefuseUncertain \/ RefuseBlocked \/ BeginIntent \/ StartAttempt
  BY <1>3, <1>e DEF Replay, RefuseUncertain, RefuseBlocked, AnswerWithoutRunning, BeginIntent,
     StartAttempt, disk, history, Unchanged
<1>4. CASE EnterTool
  <2>1. CASE ~isNonIdempotent
    BY <2>1, <1>4, <1>e DEF EnterTool, disk, Unchanged
  <2>2. CASE isNonIdempotent
    <3>1. op \in Operation /\ starts[op] = 0 /\ guard[op] # "none" /\ diskGuard[op] # "none"
      BY <2>2, <1>4, <1>a, <1>b, <1>d DEF EnterTool, SideEffectInv, BeforeTheTool
    <3>2. starts' = [starts EXCEPT ![op] = 1]
      BY <2>2, <3>1, <1>4, <1>a DEF EnterTool
    <3>3. Ledger!Perform(op)
      BY <3>1, <3>2, <1>4 DEF EnterTool, disk, Ledger!Perform
    <3> QED
      BY <3>1, <3>3 DEF Ledger!Next
  <2> QED
    BY <2>1, <2>2
<1>5. CASE CatchMissingTool \/ PreparationSettles \/ Return \/ ThrowIfAborted
  BY <1>5, <1>e DEF CatchMissingTool, PreparationSettles, Return, ThrowIfAborted, disk, history,
     Unchanged
<1>6. ASSUME NEW ok \in BOOLEAN, FailCheck(ok) \/ ApprovalDenied(ok) \/ NetworkDenied(ok)
      PROVE  [Ledger!Next]_(Ledger!vars)
  <2>1. Save(ok) /\ guard' = guard /\ UNCHANGED <<starts, returned>>
    BY <1>6 DEF FailCheck, ApprovalDenied, NetworkDenied, memory, history
  <2>2. run = "active" /\ phase # "intent_persisting"
    BY <1>6, <1>a DEF FailCheck, ApprovalDenied, NetworkDenied
  <2> QED
    BY <2>1, <2>2, <1>d, SaveLogsNothing
<1>7. ASSUME NEW ok \in BOOLEAN, PersistIntent(ok) PROVE [Ledger!Next]_(Ledger!vars)
  <2>1. op \in Operation
    BY <1>7, <1>a, <1>b DEF PersistIntent
  <2>2. diskGuard' = diskGuard \/ diskGuard' = guard
    BY <1>7 DEF PersistIntent, Save, disk, memory
  <2>3. \A o \in Operation : guard[o] # "none" /\ diskGuard[o] = "none" => o = op
    BY <1>7 DEF PersistIntent, SideEffectInv, DiskCoversMemory
  <2>4. UNCHANGED <<starts, returned>> /\ run # "down"
    BY <1>7 DEF PersistIntent, history
  <2> QED
    BY <2>1, <2>2, <2>3, <2>4, <1>c, WriteLogsOne
<1>8. ASSUME NEW ok \in BOOLEAN, CatchTimeout(ok) \/ CatchAbort(ok) \/ CatchFailure(ok)
      PROVE  [Ledger!Next]_(Ledger!vars)
  <2>1. /\ Save(ok) /\ guard' = GuardMarkedUncertain /\ UNCHANGED <<starts, returned>>
        /\ run = "active" /\ exec \in ToolError /\ phase # "intent_persisting"
    BY <1>8, <1>a DEF CatchTimeout, CatchAbort, CatchFailure, Catching, history, ToolError
  <2>2. \A o \in Operation : guard'[o] # "none" <=> diskGuard[o] # "none"
    BY <2>1, <1>a, <1>d, <1>f DEF GuardMarkedUncertain
  <2> QED
    BY <2>1, <2>2, SaveLogsNothing
<1>9. ASSUME NEW ok \in BOOLEAN, RunCompletes(ok) PROVE [Ledger!Next]_(Ledger!vars)
  <2>1. /\ diskGuard' = diskGuard \/ diskGuard' = guard
        /\ UNCHANGED <<starts, returned>> /\ run = "active" /\ phase = "idle"
    BY <1>9 DEF RunCompletes, disk, history
  <2>2. \A o \in Operation : diskGuard'[o] # "none" <=> diskGuard[o] # "none"
    BY <2>1, <1>d
  <2> QED
    BY <2>1, <2>2 DEF Ledger!vars
<1>10. ASSUME NEW ok \in BOOLEAN, AgentCatch(ok) PROVE [Ledger!Next]_(Ledger!vars)
  <2>1. /\ diskGuard' = diskGuard \/ diskGuard' = guard
        /\ UNCHANGED <<starts, returned>> /\ run = "throwing"
    BY <1>10 DEF AgentCatch, disk, history
  <2>2. \A o \in Operation : guard[o] # "none" /\ diskGuard[o] = "none" => o = op
    BY <2>1 DEF SideEffectInv, DiskCoversMemory
  <2>3. CASE op \in Operation
    BY <2>1, <2>2, <2>3, <1>c, WriteLogsOne
  <2>4. CASE op \notin Operation
    <3>1. \A o \in Operation : diskGuard'[o] # "none" <=> diskGuard[o] # "none"
      BY <2>1, <2>2, <2>4, <1>c
    <3> QED
      BY <2>1, <3>1 DEF Ledger!vars
  <2> QED
    BY <2>3, <2>4
<1>11. ASSUME NEW valid \in BOOLEAN, NEW ok \in BOOLEAN, ToolReturns(valid, ok)
       PROVE  [Ledger!Next]_(Ledger!vars)
  <2>1. Save(ok) /\ run = "active" /\ phase # "intent_persisting" /\ starts' = starts
    BY <1>11, <1>a DEF ToolReturns
  <2>2. \A o \in Operation : guard'[o] # "none" <=> diskGuard[o] # "none"
    BY <2>1, <1>11, <1>a, <1>d, <1>f DEF ToolReturns
  <2>3. \A o \in Operation : diskGuard'[o] # "none" <=> diskGuard[o] # "none"
    BY <2>1, <2>2 DEF Save, disk
  <2>4. CASE isNonIdempotent
    <3>1. Ledger!Confirm(op)
      BY <2>1, <2>3, <2>4, <1>11, <1>f DEF ToolReturns, Ledger!Confirm
    <3> QED
      BY <3>1, <2>4, <1>11, <1>f DEF Ledger!Next, ToolReturns
  <2>5. CASE ~isNonIdempotent
    BY <2>1, <2>3, <2>5, <1>11 DEF ToolReturns, Ledger!vars
  <2> QED
    BY <2>4, <2>5
<1>12. ASSUME NEW error \in ToolError, ToolThrows(error) PROVE [Ledger!Next]_(Ledger!vars)
  BY <1>12, <1>e DEF ToolThrows, disk, history, Unchanged
<1>13. CASE Stop \/ DeadlineFires \/ Crash \/ Resume
  BY <1>13, <1>e DEF Stop, DeadlineFires, Crash, Resume, disk, history, Unchanged
<1>14. ASSUME NEW m \in Modes, SetNetworkMode(m) PROVE [Ledger!Next]_(Ledger!vars)
  BY <1>14, <1>e DEF SetNetworkMode, disk, history, Unchanged
<1>15. CASE UNCHANGED vars
  BY <1>15, <1>e DEF vars, disk, history, Unchanged
<1> QED
  BY <1>1, <1>2, <1>3, <1>4, <1>5, <1>6, <1>7, <1>8, <1>9, <1>10, <1>11, <1>12, <1>13,
     <1>14, <1>15
  DEF Next, Agent, Tool, Environment

(* The pipeline with its checkpoint file implements the write-ahead ledger:   *)
(* no operation is performed before its record is durable, none is performed  *)
(* twice, none is confirmed that was not performed.                           *)
THEOREM LedgerRefined == Spec => ImplementsLedger
<1>1. Init => Ledger!Init
  BY DEF Init, Ledger!Init
<1>2. TypeOK /\ SideEffectInv /\ [Next]_vars => [Ledger!Next]_(Ledger!vars)
  BY LedgerStep
<1> QED
  BY <1>1, <1>2, SideEffectInvariance, PTL DEF Spec, ImplementsLedger, Ledger!Spec

(* No later write of the checkpoint file loses the record of an operation.    *)
THEOREM RecordsPersistHolds == Spec => RecordsPersist
<1> DEFINE Kept == \A o \in Operation : diskGuard[o] # "none" => diskGuard'[o] # "none"
<1>1. TypeOK /\ SideEffectInv /\ [Next]_vars => [Kept]_vars
  <2> SUFFICES ASSUME TypeOK, SideEffectInv, [Next]_vars PROVE Kept
    OBVIOUS
  <2>1. [Ledger!Next]_(Ledger!vars)
    BY LedgerStep
  <2> DEFINE logged == {o \in Operation : diskGuard[o] # "none"}
  <2>2. logged \subseteq logged'
    BY <2>1 DEF Ledger!Next, Ledger!Log, Ledger!Perform, Ledger!Confirm, Ledger!vars
  <2> QED
    BY <2>2
<1> QED
  BY <1>1, SideEffectInvariance, PTL DEF Spec, RecordsPersist

-----------------------------------------------------------------------------
(* Bounded retries *)

(* What the control point says of the retries recorded for the call.          *)
RetryInv ==
  /\ \A c \in Call : failures[c] <= 2 * MaxRetry + 1 /\ diskFailures[c] <= 2 * MaxRetry + 1
  /\ phase \in {"idle", "received", "parsed", "resolved", "validated", "authorization_pending",
                "authorized", "effect_checked", "intent_persisting", "intent_persisted"}
       => attempt = 0
  /\ phase \in {"intent_persisting", "intent_persisted"} => failures[call] <= MaxRetry
  /\ exec # "none"
       => attempt \in 1..MaxRetry + 1 /\ failures[call] < MaxRetry + attempt
  /\ phase = "retry_wait"
       => attempt \in 1..MaxRetry /\ failures[call] <= MaxRetry + attempt

LEMMA RetryStep ==
  ASSUME TypeOK, SideEffectInv, RetryInv, [Next]_vars
  PROVE  RetryInv'
<1> USE ConstantsAssumption DEF RetryInv
<1>a. /\ failures \in [Call -> Nat] /\ diskFailures \in [Call -> Nat] /\ attempt \in Nat
      /\ phase # "idle" => call \in Call
      /\ exec # "none" => phase \in {"executing", "dependency_preparation"}
  BY DEF TypeOK, InvocationType, MemoryType, DiskType
<1>1. ASSUME NEW c \in Call, Receive(c) PROVE RetryInv'
  BY <1>1, <1>a DEF Receive, memory, disk
<1>2. CASE PassCheck \/ Authorize \/ CheckEffect \/ ApprovalGranted
  BY <1>2, <1>a DEF PassCheck, Authorize, CheckEffect, ApprovalGranted, memory, disk
<1>3. ASSUME NEW outcome \in {"replayed", "uncertain", "blocked"}, AnswerWithoutRunning(outcome)
      PROVE  RetryInv'
  BY <1>3, <1>a DEF AnswerWithoutRunning, memory, disk
<1>4. CASE BeginIntent
  BY <1>4, <1>a DEF BeginIntent, MayStart, isBlocked, disk
<1>5. CASE StartAttempt
  BY <1>5, <1>a DEF StartAttempt, ReadyToExecute, MayStart, isBlocked, memory, disk
<1>6. CASE EnterTool \/ CatchMissingTool \/ PreparationSettles
  BY <1>6, <1>a DEF EnterTool, CatchMissingTool, PreparationSettles, Catching, ToolError,
     memory, disk
<1>7. CASE Return \/ ThrowIfAborted
  BY <1>7, <1>a DEF Return, ThrowIfAborted, NoInvocation, invocation, memory, disk
<1>8. ASSUME NEW ok \in BOOLEAN, FailCheck(ok) \/ ApprovalDenied(ok) \/ PersistIntent(ok)
      PROVE  RetryInv'
  BY <1>8, <1>a DEF FailCheck, ApprovalDenied, PersistIntent, Save, memory, disk
<1>9. ASSUME NEW ok \in BOOLEAN, NetworkDenied(ok) \/ CatchTimeout(ok) \/ CatchAbort(ok)
      PROVE  RetryInv'
  BY <1>9, <1>a DEF NetworkDenied, CatchTimeout, CatchAbort, Save, memory, disk
<1>10. ASSUME NEW ok \in BOOLEAN, CatchFailure(ok) PROVE RetryInv'
  <2>1. exec # "none" /\ call \in Call
    BY <1>10, <1>a DEF CatchFailure, Catching, ToolError
  <2>2. \A c \in Call : failures'[c] <= 2 * MaxRetry + 1
    BY <2>1, <1>10, <1>a DEF CatchFailure
  <2>3. \A c \in Call : diskFailures'[c] <= 2 * MaxRetry + 1
    BY <2>2, <1>10 DEF CatchFailure, Save, disk
  <2>4. failures'[call] <= MaxRetry + attempt
    BY <2>1, <1>10, <1>a DEF CatchFailure
  <2>5. willRetry => attempt <= MaxRetry
    BY <2>1, <1>a DEF willRetry, effectiveRetries
  <2>6. /\ phase' \in {phase, "retry_wait", "uncertain", "failed"} /\ exec' = "none"
        /\ phase' = "retry_wait" => willRetry /\ attempt' = attempt /\ call' = call
    BY <2>1, <1>10, <1>a DEF CatchFailure
  <2> QED
    BY <2>1, <2>2, <2>3, <2>4, <2>5, <2>6, <1>a
<1>11. ASSUME NEW ok \in BOOLEAN, RunCompletes(ok) \/ AgentCatch(ok) PROVE RetryInv'
  BY <1>11, <1>a DEF RunCompletes, AgentCatch, NoInvocation, EmptyMemory, invocation, memory,
     disk
<1>12. ASSUME NEW valid \in BOOLEAN, NEW ok \in BOOLEAN, ToolReturns(valid, ok)
       PROVE  RetryInv'
  BY <1>12, <1>a DEF ToolReturns, Save, disk
<1>13. ASSUME NEW error \in ToolError, ToolThrows(error) PROVE RetryInv'
  BY <1>13, <1>a DEF ToolThrows, memory, disk
<1>14. CASE Stop \/ DeadlineFires
  BY <1>14, <1>a DEF Stop, DeadlineFires, memory, disk
<1>15. CASE Crash \/ Resume
  <2>1. CASE Crash
    <3>1. \A c \in Call : failures'[c] = 0 /\ diskFailures'[c] = diskFailures[c]
      BY <2>1 DEF Crash, EmptyMemory, disk
    <3>2. attempt' = 0 /\ exec' = "none" /\ phase' = "idle"
      BY <2>1 DEF Crash, NoInvocation
    <3> QED
      BY <3>1, <3>2
  <2>2. CASE Resume
    <3>1. run = "down" /\ failures' = diskFailures /\ diskFailures' = diskFailures
      BY <2>2 DEF Resume, disk
    <3>2. UNCHANGED <<phase, call, attempt, exec>>
      BY <2>2 DEF Resume, invocation
    <3>3. phase = "idle" /\ exec = "none"
      BY <3>1 DEF SideEffectInv, AtRest
    <3> QED
      BY <3>1, <3>2, <3>3
  <2> QED
    BY <1>15, <2>1, <2>2
<1>16. ASSUME NEW m \in Modes, SetNetworkMode(m) PROVE RetryInv'
  BY <1>16 DEF SetNetworkMode, invocation, memory, disk
<1>17. CASE UNCHANGED vars
  BY <1>17 DEF vars, invocation, memory, disk
<1> QED
  BY <1>1, <1>2, <1>3, <1>4, <1>5, <1>6, <1>7, <1>8, <1>9, <1>10, <1>11, <1>12, <1>13,
     <1>14, <1>15, <1>16, <1>17
  DEF Next, Agent, Tool, Environment, Replay, RefuseUncertain, RefuseBlocked

(* isBlocked bounds the retries recorded for a call, across calls, crashes    *)
(* and resumes.                                                               *)
THEOREM FailuresBoundedHolds == Spec => []FailuresBounded
<1>1. Init => RetryInv
  BY ConstantsAssumption DEF Init, RetryInv
<1>2. TypeOK /\ SideEffectInv /\ RetryInv /\ [Next]_vars => RetryInv'
  BY RetryStep
<1>3. RetryInv => FailuresBounded
  BY DEF RetryInv, FailuresBounded
<1> QED
  BY <1>1, <1>2, <1>3, SideEffectInvariance, PTL DEF Spec

-----------------------------------------------------------------------------
(* Lifecycle transitions *)

(* What ALLOWED_TRANSITIONS permits from each phase the handler leaves.       *)
LEMMA Transitions ==
  /\ ALLOWED_TRANSITIONS["received"] = {"parsed", "invalid"}
  /\ ALLOWED_TRANSITIONS["parsed"] = {"resolved", "invalid"}
  /\ ALLOWED_TRANSITIONS["resolved"] = {"validated", "invalid"}
  /\ ALLOWED_TRANSITIONS["validated"] = {"authorization_pending", "authorized"}
  /\ ALLOWED_TRANSITIONS["authorization_pending"] = {"authorized", "denied", "aborted"}
  /\ ALLOWED_TRANSITIONS["authorized"] = {"effect_checked"}
  /\ {"intent_persisting", "executing", "replayed", "uncertain", "blocked"}
       \subseteq ALLOWED_TRANSITIONS["effect_checked"]
  /\ {"intent_persisted", "failed"} \subseteq ALLOWED_TRANSITIONS["intent_persisting"]
  /\ "executing" \in ALLOWED_TRANSITIONS["intent_persisted"]
  /\ "executing" \in ALLOWED_TRANSITIONS["retry_wait"]
  /\ {"succeeded", "invalid_result", "denied", "uncertain", "failed", "timed_out", "aborted",
      "dependency_preparation", "retry_wait"} \subseteq ALLOWED_TRANSITIONS["executing"]
  /\ {"retry_wait", "failed", "uncertain", "aborted"}
       \subseteq ALLOWED_TRANSITIONS["dependency_preparation"]
  BY DEF ALLOWED_TRANSITIONS, Phase, TERMINAL_PHASES

Legal ==
  \/ phase' = phase
  \/ phase = "idle" /\ phase' = "received"
  \/ phase' = "idle" /\ (phase \in TERMINAL_PHASES \/ run' = "down")
  \/ phase' \in ALLOWED_TRANSITIONS[phase]

LEMMA LegalStep ==
  ASSUME TypeOK, SideEffectInv, [Next]_vars
  PROVE  Legal
<1> USE Transitions DEF Legal
<1>a. /\ exec # "none" => phase \in {"executing", "dependency_preparation"}
      /\ exec \in {"entering", "running"} => phase = "executing"
  BY DEF TypeOK, InvocationType
<1>1. ASSUME NEW c \in Call, Receive(c) PROVE Legal
  BY <1>1 DEF Receive
<1>2. CASE PassCheck
  BY <1>2 DEF PassCheck
<1>3. CASE Authorize \/ CheckEffect \/ ApprovalGranted
  BY <1>3 DEF Authorize, CheckEffect, ApprovalGranted
<1>4. CASE Replay \/ RefuseUncertain \/ RefuseBlocked
  BY <1>4 DEF Replay, RefuseUncertain, RefuseBlocked, AnswerWithoutRunning
<1>5. CASE BeginIntent \/ StartAttempt
  BY <1>5 DEF BeginIntent, StartAttempt, ReadyToExecute, MayStart
<1>6. CASE EnterTool \/ PreparationSettles \/ ThrowIfAborted
  BY <1>6 DEF EnterTool, PreparationSettles, ThrowIfAborted, invocation
<1>7. CASE CatchMissingTool \/ Return
  BY <1>7 DEF CatchMissingTool, Return, NoInvocation
<1>8. ASSUME NEW ok \in BOOLEAN, FailCheck(ok) \/ ApprovalDenied(ok) \/ PersistIntent(ok)
      PROVE  Legal
  BY <1>8 DEF FailCheck, ApprovalDenied, PersistIntent
<1>9. ASSUME NEW ok \in BOOLEAN, NetworkDenied(ok) \/ CatchTimeout(ok) PROVE Legal
  BY <1>9, <1>a DEF NetworkDenied, CatchTimeout, timedOut
<1>10. ASSUME NEW ok \in BOOLEAN, CatchAbort(ok) \/ CatchFailure(ok) PROVE Legal
  BY <1>10, <1>a DEF CatchAbort, CatchFailure, Catching, ToolError
<1>11. ASSUME NEW ok \in BOOLEAN, RunCompletes(ok) \/ AgentCatch(ok) PROVE Legal
  BY <1>11 DEF RunCompletes, AgentCatch, NoInvocation, invocation
<1>12. ASSUME NEW valid \in BOOLEAN, NEW ok \in BOOLEAN, ToolReturns(valid, ok) PROVE Legal
  BY <1>12, <1>a DEF ToolReturns
<1>13. ASSUME NEW error \in ToolError, ToolThrows(error) PROVE Legal
  BY <1>13 DEF ToolThrows
<1>14. CASE Stop \/ DeadlineFires
  BY <1>14 DEF Stop, DeadlineFires
<1>15. CASE Crash \/ Resume
  BY <1>15 DEF Crash, Resume, NoInvocation, invocation
<1>16. ASSUME NEW m \in Modes, SetNetworkMode(m) PROVE Legal
  BY <1>16 DEF SetNetworkMode, invocation
<1>17. CASE UNCHANGED vars
  BY <1>17 DEF vars, invocation
<1> QED
  BY <1>1, <1>2, <1>3, <1>4, <1>5, <1>6, <1>7, <1>8, <1>9, <1>10, <1>11, <1>12, <1>13,
     <1>14, <1>15, <1>16, <1>17
  DEF Next, Agent, Tool, Environment

(* The handler never requests a transition its state machine rejects, so that *)
(* no exception of the state machine ever unwinds a Run.                      *)
THEOREM LegalTransitionHolds == Spec => LegalTransition
<1>1. TypeOK /\ SideEffectInv /\ [Next]_vars => [Legal]_vars
  BY LegalStep
<1> QED
  BY <1>1, SideEffectInvariance, PTL DEF Spec, LegalTransition, Legal

-----------------------------------------------------------------------------
(* One answer per call *)

(* A call the handler has not finished is unanswered, unless the checkpoint   *)
(* after its answer failed and sent it through the catch handler.             *)
AnswerInv ==
  /\ phase \notin TERMINAL_PHASES => answers = 0 \/ faulty
  /\ AnsweredOnce

LEMMA AnswerStep ==
  ASSUME TypeOK, SideEffectInv, AnswerInv, [Next]_vars
  PROVE  AnswerInv'
<1> USE DEF AnswerInv, AnsweredOnce, TERMINAL_PHASES, world
<1>a. /\ answers \in Nat
      /\ exec # "none" => phase \in {"executing", "dependency_preparation"}
      /\ run = "down" => phase = "idle"
  BY DEF TypeOK, InvocationType, SideEffectInv, AtRest
<1>1. ASSUME NEW c \in Call, Receive(c) PROVE AnswerInv'
  BY <1>1 DEF Receive
<1>2. CASE PassCheck \/ Authorize \/ CheckEffect \/ ApprovalGranted
  BY <1>2 DEF PassCheck, Authorize, CheckEffect, ApprovalGranted
<1>3. ASSUME NEW outcome \in {"replayed", "uncertain", "blocked"}, AnswerWithoutRunning(outcome)
      PROVE  AnswerInv'
  BY <1>3, <1>a DEF AnswerWithoutRunning
<1>4. CASE BeginIntent \/ StartAttempt
  BY <1>4 DEF BeginIntent, StartAttempt, ReadyToExecute, MayStart
<1>5. CASE EnterTool \/ CatchMissingTool \/ PreparationSettles
  BY <1>5 DEF EnterTool, CatchMissingTool, PreparationSettles
<1>6. CASE Return \/ ThrowIfAborted
  BY <1>6 DEF Return, ThrowIfAborted, NoInvocation, invocation
<1>7. ASSUME NEW ok \in BOOLEAN, FailCheck(ok) PROVE AnswerInv'
  BY <1>7, <1>a DEF FailCheck
<1>8. ASSUME NEW ok \in BOOLEAN, ApprovalDenied(ok) \/ PersistIntent(ok) \/ NetworkDenied(ok)
      PROVE  AnswerInv'
  BY <1>8, <1>a DEF ApprovalDenied, PersistIntent, NetworkDenied, ThrowUnless
<1>9. ASSUME NEW ok \in BOOLEAN, CatchTimeout(ok) \/ CatchAbort(ok) PROVE AnswerInv'
  BY <1>9, <1>a DEF CatchTimeout, CatchAbort, Catching, ToolError, ThrowUnless
<1>10. ASSUME NEW ok \in BOOLEAN, CatchFailure(ok) PROVE AnswerInv'
  BY <1>10, <1>a DEF CatchFailure, Catching, ToolError, ThrowUnless
<1>11. ASSUME NEW ok \in BOOLEAN, RunCompletes(ok) \/ AgentCatch(ok) PROVE AnswerInv'
  BY <1>11 DEF RunCompletes, AgentCatch, NoInvocation, invocation
<1>12. ASSUME NEW valid \in BOOLEAN, NEW ok \in BOOLEAN, ToolReturns(valid, ok)
       PROVE  AnswerInv'
  BY <1>12, <1>a DEF ToolReturns, Save
<1>13. ASSUME NEW error \in ToolError, ToolThrows(error) PROVE AnswerInv'
  BY <1>13 DEF ToolThrows
<1>14. CASE Stop \/ DeadlineFires
  BY <1>14 DEF Stop, DeadlineFires
<1>15. CASE Crash \/ Resume
  BY <1>15, <1>a DEF Crash, Resume, NoInvocation, invocation
<1>16. ASSUME NEW m \in Modes, SetNetworkMode(m) PROVE AnswerInv'
  BY <1>16 DEF SetNetworkMode, invocation
<1>17. CASE UNCHANGED vars
  BY <1>17 DEF vars, invocation
<1> QED
  BY <1>1, <1>2, <1>3, <1>4, <1>5, <1>6, <1>7, <1>8, <1>9, <1>10, <1>11, <1>12, <1>13,
     <1>14, <1>15, <1>16, <1>17
  DEF Next, Agent, Tool, Environment, Replay, RefuseUncertain, RefuseBlocked

(* Whatever fails, is retried, refused or replayed: a call the handler        *)
(* returns from has one tool message, or several after a failed write.        *)
THEOREM AnsweredOnceHolds == Spec => []AnsweredOnce
<1>1. Init => AnswerInv
  BY DEF Init, AnswerInv, AnsweredOnce, TERMINAL_PHASES
<1>2. TypeOK /\ SideEffectInv /\ AnswerInv /\ [Next]_vars => AnswerInv'
  BY AnswerStep
<1>3. AnswerInv => AnsweredOnce
  BY DEF AnswerInv
<1> QED
  BY <1>1, <1>2, <1>3, SideEffectInvariance, PTL DEF Spec
=============================================================================
