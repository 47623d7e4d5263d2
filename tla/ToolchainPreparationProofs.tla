--------------------- MODULE ToolchainPreparationProofs ---------------------
(***************************************************************************)
(* Theorems about ToolchainPreparation, for any finite set of calls.  The  *)
(* inductive invariant says of each call which of its parts exist in which *)
(* stage: a card only beside an undecided or running install, an install   *)
(* on its way only in the table and beside its waiting owner.              *)
(***************************************************************************)
EXTENDS ToolchainPreparation, FiniteSetTheorems, TLAPS

OnItsWay(c) == install[c] \in {"deciding", "installing"}

(* A call that owns no install has no card. *)
NoCard(c) ==
  pending[c] = "absent" /\ decision[c] = "none" /\ ~controller[c] /\ ~cancelRequested[c]

StageInv(c) ==
  /\ stage[c] = "idle" => on[c] = NoCall /\ install[c] = "none" /\ resolvedEvents[c] = 0
  /\ stage[c] = "merged" => on[c] \in Call /\ install[c] = "none" /\ resolvedEvents[c] = 0
  /\ stage[c] = "owner" => on[c] = c
  /\ install[c] # "none" => on[c] = c /\ stage[c] \in {"owner", "answered"}
  /\ stage[c] = "answered" /\ on[c] # NoCall => resolvedEvents[c] = 1
  /\ on[c] # NoCall => install[on[c]] # "none"

(* Only the entry of the table is on its way, its owner is still waiting, and *)
(* there is an event exactly when it has resolved.                            *)
InstallInv(c) ==
  /\ OnItsWay(c) => active = c /\ stage[c] = "owner" /\ resolvedEvents[c] = 0
  /\ install[c] = "resolved" => resolvedEvents[c] = 1
  /\ active = c => install[c] # "none"

(* A card is decided once and by whoever may: who waits is undecided and was not *)
(* withdrawn, what was approved and withdrawn is told to end.                    *)
CardInv(c) ==
  /\ ~OnItsWay(c) => NoCard(c)
  /\ install[c] = "installing" => decision[c] = "approved"
  /\ install[c] = "deciding" /\ decision[c] = "none" => pending[c] = "waiting"
  /\ pending[c] = "waiting" =>
       decision[c] = "none" /\ ~controller[c] /\ ~cancelRequested[c] /\ ~signal[c]
  /\ pending[c] = "finishing" => decision[c] \in {"denied", "aborted"}
  /\ pending[c] = "preparing" => decision[c] = "approved"
  /\ decision[c] = "approved" => c \in approved /\ (pending[c] = "preparing" \/ controller[c])
  /\ decision[c] = "approved" /\ (signal[c] \/ cancelRequested[c]) => controller[c]
  /\ controller[c] \/ decision[c] = "aborted" => signal[c] \/ cancelRequested[c]

(* What an answered call was told. *)
AnswerInv(c) ==
  stage[c] = "answered" /\ on[c] # NoCall =>
    \/ install[on[c]] = "resolved" /\ answer[c] = outcome[on[c]]
    \/ answer[c] = "aborted" /\ signal[c]

PreparationInv ==
  TypeOK /\ \A c \in Call : StageInv(c) /\ InstallInv(c) /\ CardInv(c) /\ AnswerInv(c)
-----------------------------------------------------------------------------
(* The invariant is kept: one step per action, and under it the types and one *)
(* step per part of the invariant.                                            *)
LEMMA StepKeepsInv ==
  ASSUME PreparationInv, Next
  PROVE  PreparationInv'
<1> USE CallAssumption
    DEF PreparationInv, TypeOK, StageInv, InstallInv, OnItsWay, calls, card, shared
<1>1. ASSUME NEW c \in Call, RequestAvailable(c) PROVE PreparationInv'
  <2> USE <1>1 DEF RequestAvailable, Answer
  <2>1. TypeOK'
    BY DEF Status, NoAnswer
  <2>2. ASSUME NEW d \in Call PROVE (StageInv(d) /\ InstallInv(d))'
    OBVIOUS
  <2>3. ASSUME NEW d \in Call PROVE CardInv(d)'
    BY DEF CardInv, NoCard
  <2>4. ASSUME NEW d \in Call PROVE AnswerInv(d)'
    BY DEF AnswerInv
  <2> QED
    BY <2>1, <2>2, <2>3, <2>4
<1>2. ASSUME NEW c \in Call, RequestMerged(c) PROVE PreparationInv'
  <2> USE <1>2 DEF RequestMerged, Answer
  <2>1. TypeOK'
    BY DEF Status, NoAnswer
  <2>2. ASSUME NEW d \in Call PROVE (StageInv(d) /\ InstallInv(d))'
    OBVIOUS
  <2>3. ASSUME NEW d \in Call PROVE CardInv(d)'
    BY DEF CardInv, NoCard
  <2>4. ASSUME NEW d \in Call PROVE AnswerInv(d)'
    BY DEF AnswerInv
  <2> QED
    BY <2>1, <2>2, <2>3, <2>4
<1>3. ASSUME NEW c \in Call, RequestOwned(c) PROVE PreparationInv'
  <2> USE <1>3 DEF RequestOwned
  <2>1. TypeOK'
    BY DEF Status, NoAnswer
  <2>2. ASSUME NEW d \in Call PROVE (StageInv(d) /\ InstallInv(d))'
    OBVIOUS
  <2>3. ASSUME NEW d \in Call PROVE CardInv(d)'
    BY DEF CardInv, NoCard
  <2>4. ASSUME NEW d \in Call PROVE AnswerInv(d)'
    BY DEF AnswerInv
  <2> QED
    BY <2>1, <2>2, <2>3, <2>4
<1>4. ASSUME NEW c \in Call, Approve(c) PROVE PreparationInv'
  <2> USE <1>4 DEF Approve
  <2>1. TypeOK'
    BY DEF Status, NoAnswer
  <2>2. ASSUME NEW d \in Call PROVE (StageInv(d) /\ InstallInv(d))'
    OBVIOUS
  <2>3. ASSUME NEW d \in Call PROVE CardInv(d)'
    BY DEF CardInv, NoCard
  <2>4. ASSUME NEW d \in Call PROVE AnswerInv(d)'
    BY DEF AnswerInv
  <2> QED
    BY <2>1, <2>2, <2>3, <2>4
<1>5. ASSUME NEW c \in Call, Deny(c) PROVE PreparationInv'
  <2> USE <1>5 DEF Deny
  <2>1. TypeOK'
    BY DEF Status, NoAnswer
  <2>2. ASSUME NEW d \in Call PROVE (StageInv(d) /\ InstallInv(d))'
    OBVIOUS
  <2>3. ASSUME NEW d \in Call PROVE CardInv(d)'
    BY DEF CardInv, NoCard
  <2>4. ASSUME NEW d \in Call PROVE AnswerInv(d)'
    BY DEF AnswerInv
  <2> QED
    BY <2>1, <2>2, <2>3, <2>4
<1>6. ASSUME NEW c \in Call, Cancel(c) PROVE PreparationInv'
  <2> USE <1>6 DEF Cancel
  <2>1. TypeOK'
    <3>1. CASE pending[c] = "waiting"
      BY <3>1
    <3>2. CASE pending[c] # "waiting"
      <4>1. cancelRequested' \in [Call -> BOOLEAN]
        OBVIOUS
      <4>2. controller' = [controller EXCEPT ![c] = TRUE]
        BY <3>2
      <4>3. controller' \in [Call -> BOOLEAN]
        BY <4>2
      <4>4. UNCHANGED <<stage, on, answer, resolvedEvents, signal, pending, decision,
                        install, outcome, active, available, approved>>
        BY <3>2
      <4> QED
        BY <4>1, <4>3, <4>4
    <3> QED
      BY <3>1, <3>2
  <2>2. ASSUME NEW d \in Call PROVE (StageInv(d) /\ InstallInv(d))'
    OBVIOUS
  <2>3. ASSUME NEW d \in Call PROVE CardInv(d)'
    BY DEF CardInv, NoCard
  <2>4. ASSUME NEW d \in Call PROVE AnswerInv(d)'
    BY DEF AnswerInv
  <2> QED
    BY <2>1, <2>2, <2>3, <2>4
<1>7. ASSUME NEW c \in Call, TimeOut(c) PROVE PreparationInv'
  <2> USE <1>7 DEF TimeOut
  <2>1. TypeOK'
    BY DEF Status, NoAnswer
  <2>2. ASSUME NEW d \in Call PROVE (StageInv(d) /\ InstallInv(d))'
    OBVIOUS
  <2>3. ASSUME NEW d \in Call PROVE CardInv(d)'
    BY DEF CardInv, NoCard
  <2>4. ASSUME NEW d \in Call PROVE AnswerInv(d)'
    BY DEF AnswerInv
  <2> QED
    BY <2>1, <2>2, <2>3, <2>4
<1>8. ASSUME NEW c \in Call, Stop(c) PROVE PreparationInv'
  <2> USE <1>8 DEF Stop, OwnersAbort, StoppedBy, WaitersAbort
  <2>1. TypeOK'
    BY DEF Status, NoAnswer
  <2>2. ASSUME NEW d \in Call PROVE (StageInv(d) /\ InstallInv(d))'
    OBVIOUS
  <2>3. ASSUME NEW d \in Call PROVE CardInv(d)'
    <3>1. /\ install'[d] = install[d] /\ approved' = approved
          /\ cancelRequested'[d] = cancelRequested[d]
      OBVIOUS
    <3>2. CASE d = c
      <4>1. /\ signal'[d]
            /\ controller'[d] = (controller[d] \/ pending[d] = "preparing")
            /\ decision'[d] = IF pending[d] = "waiting" THEN "aborted" ELSE decision[d]
            /\ pending'[d] = IF pending[d] = "waiting" THEN "absent" ELSE pending[d]
        BY <3>2
      <4> QED
        BY <3>1, <4>1 DEF CardInv, OnItsWay, NoCard
    <3>3. CASE d # c
      <4>1. /\ signal'[d] = signal[d] /\ decision'[d] = decision[d]
            /\ controller'[d] = controller[d] /\ pending'[d] = pending[d]
        BY <3>3
      <4> QED
        BY <3>1, <4>1 DEF CardInv, OnItsWay, NoCard
    <3> QED
      BY <3>2, <3>3
  <2>4. ASSUME NEW d \in Call PROVE AnswerInv(d)'
    BY DEF AnswerInv
  <2> QED
    BY <2>1, <2>2, <2>3, <2>4
<1>9. ASSUME NEW c \in Call, InstallStarts(c) PROVE PreparationInv'
  <2> USE <1>9 DEF InstallStarts, Starts
  <2>1. TypeOK'
    BY DEF Status, NoAnswer
  <2>2. ASSUME NEW d \in Call PROVE (StageInv(d) /\ InstallInv(d))'
    OBVIOUS
  <2>3. ASSUME NEW d \in Call PROVE CardInv(d)'
    BY DEF CardInv, NoCard
  <2>4. ASSUME NEW d \in Call PROVE AnswerInv(d)'
    BY DEF AnswerInv
  <2> QED
    BY <2>1, <2>2, <2>3, <2>4
<1>10. ASSUME NEW c \in Call, NotInstalled(c) PROVE PreparationInv'
  <2> USE <1>10 DEF NotInstalled, Resolve
  <2>1. TypeOK'
    BY DEF Status, NoAnswer
  <2>2. ASSUME NEW d \in Call PROVE (StageInv(d) /\ InstallInv(d))'
    OBVIOUS
  <2>3. ASSUME NEW d \in Call PROVE CardInv(d)'
    BY DEF CardInv, NoCard
  <2>4. ASSUME NEW d \in Call PROVE AnswerInv(d)'
    BY DEF AnswerInv
  <2> QED
    BY <2>1, <2>2, <2>3, <2>4
<1>11. ASSUME NEW c \in Call, InstallerSettles(c) PROVE PreparationInv'
  <2> USE <1>11 DEF InstallerSettles, Resolve
  <2>1. TypeOK'
    BY DEF Status, NoAnswer
  <2>2. ASSUME NEW d \in Call PROVE (StageInv(d) /\ InstallInv(d))'
    OBVIOUS
  <2>3. ASSUME NEW d \in Call PROVE CardInv(d)'
    BY DEF CardInv, NoCard
  <2>4. ASSUME NEW d \in Call PROVE AnswerInv(d)'
    BY DEF AnswerInv
  <2> QED
    BY <2>1, <2>2, <2>3, <2>4
<1>12. ASSUME NEW c \in Call, Forget(c) PROVE PreparationInv'
  <2> USE <1>12 DEF Forget, mayForget
  <2>1. TypeOK'
    BY DEF Status, NoAnswer
  <2>2. ASSUME NEW d \in Call PROVE (StageInv(d) /\ InstallInv(d))'
    OBVIOUS
  <2>3. ASSUME NEW d \in Call PROVE CardInv(d)'
    BY DEF CardInv, NoCard
  <2>4. ASSUME NEW d \in Call PROVE AnswerInv(d)'
    BY DEF AnswerInv
  <2> QED
    BY <2>1, <2>2, <2>3, <2>4
<1>13. ASSUME NEW c \in Call, OwnerAnswered(c) PROVE PreparationInv'
  <2> USE <1>13 DEF OwnerAnswered, Answer
  <2>1. TypeOK'
    BY DEF Status, NoAnswer
  <2>2. ASSUME NEW d \in Call PROVE (StageInv(d) /\ InstallInv(d))'
    OBVIOUS
  <2>3. ASSUME NEW d \in Call PROVE CardInv(d)'
    BY DEF CardInv, NoCard
  <2>4. ASSUME NEW d \in Call PROVE AnswerInv(d)'
    BY DEF AnswerInv
  <2> QED
    BY <2>1, <2>2, <2>3, <2>4
<1>14. ASSUME NEW c \in Call, MergedAnswered(c) PROVE PreparationInv'
  <2> USE <1>14 DEF MergedAnswered, Answer, MergedEvent
  <2>1. TypeOK'
    BY DEF Status, NoAnswer
  <2>2. ASSUME NEW d \in Call PROVE (StageInv(d) /\ InstallInv(d))'
    OBVIOUS
  <2>3. ASSUME NEW d \in Call PROVE CardInv(d)'
    BY DEF CardInv, NoCard
  <2>4. ASSUME NEW d \in Call PROVE AnswerInv(d)'
    BY DEF AnswerInv
  <2> QED
    BY <2>1, <2>2, <2>3, <2>4
<1>15. ASSUME Close PROVE PreparationInv'
  <2> USE <1>15 DEF Close, OwnersAbort, WaitersAbort
  <2>1. TypeOK'
    BY DEF Status, NoAnswer
  <2>2. ASSUME NEW d \in Call PROVE (StageInv(d) /\ InstallInv(d))'
    OBVIOUS
  <2>3. ASSUME NEW d \in Call PROVE CardInv(d)'
    BY DEF CardInv, NoCard
  <2>4. ASSUME NEW d \in Call PROVE AnswerInv(d)'
    BY DEF AnswerInv
  <2> QED
    BY <2>1, <2>2, <2>3, <2>4
<1> QED
  BY <1>1, <1>2, <1>3, <1>4, <1>5, <1>6, <1>7, <1>8, <1>9, <1>10,
     <1>11, <1>12, <1>13, <1>14, <1>15
  DEF Next, Continuations

(* Before the first request nothing exists. *)
LEMMA InitKeepsInv == Init => PreparationInv
<1> SUFFICES ASSUME Init PROVE PreparationInv
  OBVIOUS
<1> USE CallAssumption DEF Init
<1>1. /\ signal \in [Call -> BOOLEAN] /\ controller \in [Call -> BOOLEAN]
      /\ cancelRequested \in [Call -> BOOLEAN]
  OBVIOUS
<1>2. /\ stage \in [Call -> {"idle", "owner", "merged", "answered"}]
      /\ on \in [Call -> Call \cup {NoCall}]
      /\ answer \in [Call -> Status \cup {NoAnswer}] /\ outcome \in [Call -> Status \cup {NoAnswer}]
  OBVIOUS
<1>3. /\ pending \in [Call -> {"absent", "waiting", "preparing", "finishing"}]
      /\ decision \in [Call -> {"none", "approved", "denied", "aborted", "timed_out"}]
      /\ install \in [Call -> {"none", "deciding", "installing", "resolved"}]
  OBVIOUS
<1>4. /\ active \in Call \cup {NoCall} /\ approved \subseteq Call
      /\ resolvedEvents \in [Call -> 0 .. 1]
  OBVIOUS
<1>5. available \in BOOLEAN
  BY Zenon
<1>6. TypeOK
  BY <1>1, <1>2, <1>3, <1>4, <1>5 DEF TypeOK
<1>7. ASSUME NEW c \in Call PROVE StageInv(c) /\ InstallInv(c) /\ CardInv(c) /\ AnswerInv(c)
  BY DEF StageInv, InstallInv, CardInv, AnswerInv, OnItsWay, NoCard
<1> QED
  BY <1>6, <1>7 DEF PreparationInv

(* A stutter changes none of it. *)
LEMMA StutterKeepsInv == PreparationInv /\ UNCHANGED vars => PreparationInv'
<1> SUFFICES ASSUME PreparationInv, UNCHANGED vars PROVE PreparationInv'
  OBVIOUS
<1>1. UNCHANGED <<stage, on, signal, answer, pending, cancelRequested, controller, decision,
                  install, outcome, active, available, approved, resolvedEvents>>
  BY DEF vars, calls, card, shared
<1>2. TypeOK'
  BY <1>1 DEF PreparationInv, TypeOK
<1>3. ASSUME NEW c \in Call
      PROVE  (StageInv(c) /\ InstallInv(c) /\ CardInv(c) /\ AnswerInv(c))'
  BY <1>1 DEF PreparationInv, StageInv, InstallInv, CardInv, AnswerInv, OnItsWay, NoCard
<1> QED
  BY <1>2, <1>3 DEF PreparationInv

(* The inductive invariant of the coordinator. *)
LEMMA PreparationInvHolds == Spec => []PreparationInv
<1>1. PreparationInv /\ [Next]_vars => PreparationInv'
  BY StepKeepsInv, StutterKeepsInv
<1> QED
  BY InitKeepsInv, <1>1, PTL DEF Spec

-----------------------------------------------------------------------------
(* Theorems *)

(* Type correctness of the coordinator; no call gets two resolved events. *)
THEOREM PreparationTypeCorrect == Spec => []TypeOK
<1>1. PreparationInv => TypeOK
  BY DEF PreparationInv
<1> QED
  BY PreparationInvHolds, <1>1, PTL

(* The coordinator has at most one install of a package on its way: whatever is *)
(* on its way is the entry of the table.                                        *)
THEOREM OneInstallHolds == Spec => []OneInstall
<1>1. ASSUME PreparationInv PROVE OneInstall
  <2> DEFINE Busy == {c \in Call : install[c] \in {"deciding", "installing"}}
  <2>1. Busy \subseteq {active}
    BY <1>1 DEF PreparationInv, InstallInv, OnItsWay
  <2>2. IsFiniteSet({active}) /\ Cardinality({active}) = 1
    BY FS_Singleton
  <2>3. Cardinality(Busy) <= 1
    BY <2>1, <2>2, FS_Subset
  <2> QED
    BY <2>3 DEF OneInstall
<1> QED
  BY PreparationInvHolds, <1>1, PTL

(* Nothing is installed without the user's approval of its card. *)
THEOREM OnlyApprovedHolds == Spec => []OnlyApproved
<1>1. PreparationInv => OnlyApproved
  BY DEF PreparationInv, CardInv, OnlyApproved
<1> QED
  BY PreparationInvHolds, <1>1, PTL

(* A stop or a cancellation decides the card or tells the install to end. *)
THEOREM WithdrawalArrivesHolds == Spec => []WithdrawalArrives
<1>1. PreparationInv => WithdrawalArrives
  BY DEF PreparationInv, CardInv, OnItsWay, WithdrawalArrives
<1> QED
  BY PreparationInvHolds, <1>1, PTL

(* Only the owner's stop or the cancellation of its card ends an install early. *)
THEOREM OthersUnaffectedHolds == Spec => []OthersUnaffected
<1>1. PreparationInv => OthersUnaffected
  BY DEF PreparationInv, CardInv, OthersUnaffected
<1> QED
  BY PreparationInvHolds, <1>1, PTL

(* Every answer is the shared outcome or the caller's own cancellation, with one *)
(* resolved event.                                                               *)
THEOREM ToldTheOutcomeHolds == Spec => []ToldTheOutcome
<1>1. PreparationInv => ToldTheOutcome
  BY DEF PreparationInv, StageInv, AnswerInv, ToldTheOutcome
<1> QED
  BY PreparationInvHolds, <1>1, PTL
=============================================================================
