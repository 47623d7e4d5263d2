---------------------------- MODULE EvidenceStore ----------------------------
(***************************************************************************)
(* runtime/execution-evidence-store.ts and the check branch of             *)
(* tool-invocation/process-manager.ts: what a Run knows of its checks.  A  *)
(* check whose input is fingerprinted may be answered from an earlier      *)
(* execution; one whose execution is unresolved is not run again.  The     *)
(* records live in memory and, with the ledger of side effects, in the     *)
(* checkpoint.                                                             *)
(*                                                                         *)
(* The tools of a Run run one at a time.  Others write to the workspace    *)
(* between any two steps; what they write is new, never an earlier version *)
(* (nothing in the code could notice a file put back while a check reads). *)
(***************************************************************************)
EXTENDS Naturals, FiniteSets

CONSTANTS
  None,
  Check,         \* what is checked: the spec hash
  Closed,        \* those whose input can be fingerprinted, Biome checks; the others are
                 \* processes, which may write
  CallId,        \* place in a batch and id of a tool call
  MaxRecords,    \* MAX_CHECK_RECORDS
  \* Bounds of the instance:
  MaxTurns, MaxVersion, MaxLives, MaxAllocated

ASSUME StoreAssumption ==
  /\ Closed \subseteq Check
  /\ MaxRecords \in Nat \ {0} /\ MaxTurns \in Nat \ {0} /\ MaxVersion \in Nat
  /\ MaxLives \in Nat \ {0} /\ MaxAllocated \in Nat
  /\ None \notin Nat

VARIABLES
  records,    \* records and pending of the store: a partial function of invocation ids
  allocated,  \* sequence: the ids given out
  mutations,  \* mutation fingerprints, <<before, after>>
  ledger,     \* the guard's operations: a partial function of invocation ids
  turn,       \* state.iteration
  used,       \* the calls of the batch already made
  saved,      \* the checkpoint
  pc,         \* "idle", "fingerprint", "decide", "ready", "reading", "read", "writing", "over"
  call,       \* the tool call under way: [check, origin, reuse]
  seen,       \* its first fingerprint, None if there is none
  current,    \* its invocation id
  basis,      \* the version the running check read
  version,    \* the workspace's content
  latest,     \* the versions there have been
  write,      \* the write under way: the version it replaces, and whether it reports it
  life,
  open,       \* history: <<id, check>> of each execution begun whose result did not arrive
  executed,   \* history: the ids executed
  \* history: the records settled before a write of the Run,
  touched,    \* which is under way, or
  outdated    \* which has ended and was news to the Run.  What was written stays written:
              \* a resume takes none of these back.

store  == <<records, allocated, mutations>>
writes == <<touched, outdated>>
hist   == <<open, executed, writes>>
vars  == <<store, ledger, turn, used, saved, pc, call, seen, current, basis, version, latest,
           write, life, hist>>

Id     == 1 .. MaxAllocated
Origin == (1 .. MaxTurns) \X CallId
Ver    == 0 .. MaxVersion

Put(f, k, v) == [x \in DOMAIN f \cup {k} |-> IF x = k THEN v ELSE f[x]]
Drop(f, S)   == [x \in DOMAIN f \ S |-> f[x]]

(* The checkpoint of a turn. *)
SaveOf(t) == saved' = [records |-> records', allocated |-> allocated', mutations |-> mutations',
                       ledger |-> ledger', turn |-> t]

Save == SaveOf(turn)

-----------------------------------------------------------------------------
(* The store *)

Settled(i) == records[i].state = "settled"

(* In memory or in the checkpoint, where a record may outlive its eviction. *)
SettledIds ==
  UNION {{i \in DOMAIN f : f[i].state = "settled"} : f \in {records, saved.records}}

(* A write, or a process that may write, begins and ends. *)
WriteBegins == touched' = SettledIds /\ UNCHANGED outdated
WriteEnds   == outdated' = outdated \cup touched /\ touched' = {}

(* Mutant: only a record of the same turn counts. *)
UnresolvedThisTurn(c, o) ==
  {i \in DOMAIN records : records[i].check = c /\ ~Settled(i) /\ records[i].origin # o
                          /\ records[i].turn = turn}

(* findUnresolved, and the record of an origin *)
Unresolved(c, o) ==
  {i \in DOMAIN records : records[i].check = c /\ ~Settled(i) /\ records[i].origin # o}
Of(o) == {i \in DOMAIN records : records[i].origin = o}

(* findReusable: isReusableRecord, the same check, the same fingerprint. *)
Reusable(c, v) ==
  IF v = None \/ \E i \in DOMAIN records : records[i].check = c /\ ~Settled(i) THEN {}
  ELSE {i \in DOMAIN records : records[i].reusable /\ records[i].check = c /\ records[i].input = v}

(* invalidateCompleted *)
Invalidated(f) ==
  [i \in DOMAIN f |-> IF f[i].state = "settled" THEN [f[i] EXCEPT !.reusable = FALSE] ELSE f[i]]

(* makeRoom: settled records of earlier turns (the code takes the one used least *)
(* recently).                                                                     *)
MakesRoom == {i \in DOMAIN records : Settled(i) /\ records[i].turn < turn}

(* Mutant: the second fingerprint is not compared. *)
ReusableUnchecked(c, first, second, complete) == c \in Closed /\ complete /\ first # None

(* recordResult: reusable if the report is complete and the input did not change. *)
ReusableResult(c, first, second, complete) ==
  c \in Closed /\ complete /\ first # None /\ first = second

Fingerprints(c) == IF c \in Closed THEN {version, None} ELSE {None}

-----------------------------------------------------------------------------
Init ==
  /\ records = <<>> /\ allocated = 0 /\ mutations = {}
  /\ ledger = <<>>
  /\ turn = 1 /\ used = {}
  /\ pc = "idle" /\ call = None /\ seen = None /\ current = 0 /\ basis = None
  /\ version = 0 /\ latest = 0 /\ write = None /\ life = 1
  /\ open = {} /\ executed = {} /\ touched = {} /\ outdated = {}
  /\ saved = [records |-> records, allocated |-> allocated, mutations |-> mutations,
               ledger |-> ledger, turn |-> turn]

Over(next) ==
  /\ pc' = next /\ call' = None /\ seen' = None /\ current' = 0 /\ basis' = None

(* A check is called.  While an earlier execution of it is unresolved it is refused. *)
CallRefused(c, k) ==
  /\ pc = "idle" /\ k \notin used
  /\ Unresolved(c, <<turn, k>>) # {}
  /\ used' = used \cup {k}
  /\ UNCHANGED <<store, ledger, turn, pc, call, seen, current, basis, version, latest, write,
                 life, hist>>
  /\ Save

CallCheck(c, k, reuse) ==
  /\ pc = "idle" /\ k \notin used
  /\ Unresolved(c, <<turn, k>>) = {}
  /\ pc' = "fingerprint" /\ used' = used \cup {k}
  /\ call' = [check |-> c, origin |-> <<turn, k>>, reuse |-> reuse]
  /\ UNCHANGED <<store, ledger, turn, saved, seen, current, basis, version, latest, write,
                 life, hist>>

(* The first fingerprint; it may fail. *)
Fingerprint ==
  /\ pc = "fingerprint"
  /\ pc' = "decide"
  /\ seen' \in Fingerprints(call.check)
  /\ UNCHANGED <<store, ledger, turn, used, saved, call, current, basis, version, latest, write,
                 life, hist>>

(* The answer of the first record that fits, if its logs can still be read. *)
Reuse ==
  /\ pc = "decide" /\ call.reuse /\ Reusable(call.check, seen) # {}
  /\ Over("idle")
  /\ UNCHANGED <<store, ledger, turn, used, version, latest, write, life, hist>>
  /\ Save

LogsLost ==
  /\ pc = "decide" /\ call.reuse /\ Reusable(call.check, seen) # {}
  /\ records' = Invalidated(records)
  /\ call' = [call EXCEPT !.reuse = FALSE]
  /\ UNCHANGED <<allocated, mutations, ledger, turn, used, saved, pc, seen, current, basis,
                 version, latest, write, life, hist>>

Executes == pc = "decide" /\ (call.reuse => Reusable(call.check, seen) = {})

(* getOrCreateInvocation gives nothing: the origin is known for another check, or no *)
(* record may go.                                                                     *)
Full == Cardinality(DOMAIN records) >= MaxRecords /\ MakesRoom = {}

NoIdentity ==
  /\ Executes
  /\ \/ \E i \in Of(call.origin) : records[i].check # call.check
     \/ Of(call.origin) = {} /\ Full
  /\ Over("idle")
  /\ UNCHANGED <<store, ledger, turn, used, saved, version, latest, write, life, hist>>

(* The origin has its invocation already, of an earlier life of the Run, and the guard *)
(* replays its result or says that it is uncertain.                                     *)
Guarded ==
  /\ Executes
  /\ \E i \in Of(call.origin) : records[i].check = call.check /\ i \in DOMAIN ledger
  /\ Over("idle")
  /\ UNCHANGED <<store, ledger, turn, used, saved, version, latest, write, life, hist>>

Record ==
  [check |-> call.check, origin |-> call.origin, input |-> seen, state |-> "pending",
   reusable |-> FALSE, basis |-> None, turn |-> turn]

(* The records after getOrCreateInvocation, and the id it gives. *)
Identified(i, r) ==
  \/ /\ i \in Of(call.origin) /\ records[i].check = call.check /\ i \notin DOMAIN ledger
     /\ r = records /\ allocated' = allocated
  \/ /\ Of(call.origin) = {} /\ allocated < MaxAllocated
     /\ i = allocated + 1 /\ allocated' = i
     /\ \/ Cardinality(DOMAIN records) < MaxRecords /\ r = Put(records, i, Record)
        \/ /\ Cardinality(DOMAIN records) >= MaxRecords
           /\ \E victim \in MakesRoom : r = Put(Drop(records, {victim}), i, Record)

(* isBlocked: the same arguments failed too often; the record stays as it is. *)
Blocked ==
  /\ Executes
  /\ \E i \in Id : Identified(i, records')
  /\ Over("idle")
  /\ UNCHANGED <<mutations, ledger, turn, used, saved, version, latest, write, life, hist>>

(* Mutant: the intent is not saved before the process starts. *)
BeginUnsaved ==
  /\ Executes
  /\ \E i \in Id :
       /\ Identified(i, records')
       /\ current' = i /\ ledger' = Put(ledger, i, "executing")
  /\ pc' = "ready"
  /\ UNCHANGED <<mutations, turn, used, call, seen, basis, version, latest, write, life, hist,
                 saved>>

(* The guard's begin, and the checkpoint that has to be there before the execution. *)
Begin ==
  /\ Executes
  /\ \E i \in Id :
       /\ Identified(i, records')
       /\ current' = i /\ ledger' = Put(ledger, i, "executing")
  /\ pc' = "ready"
  /\ UNCHANGED <<mutations, turn, used, call, seen, basis, version, latest, write, life, hist>>
  /\ Save

(* execute refuses while the network is off: the record and the operation stay. *)
Denied ==
  /\ pc = "ready"
  /\ Over("idle")
  /\ UNCHANGED <<store, ledger, turn, used, version, latest, write, life, hist>>
  /\ Save

Launch ==
  /\ pc = "ready"
  /\ pc' = "reading"
  /\ open' = open \cup {<<current, call.check>>} /\ executed' = executed \cup {current}
  /\ IF call.check \in Closed THEN UNCHANGED writes ELSE WriteBegins
  /\ UNCHANGED <<store, ledger, turn, used, saved, call, seen, current, basis, version, latest,
                 write, life>>

(* The process reads the files. *)
Reads ==
  /\ pc = "reading"
  /\ pc' = "read" /\ basis' = version
  /\ UNCHANGED <<store, ledger, turn, used, saved, call, seen, current, version, latest, write,
                 life, hist>>

(* What a process may have written invalidates what is settled. *)
Touched(f) == IF call.check \in Closed THEN f ELSE Invalidated(f)

(* The result, the second fingerprint and recordResult: the report may be incomplete *)
(* or not understood.                                                                 *)
Result(complete) ==
  /\ pc = "read"
  /\ \E second \in Fingerprints(call.check) :
       records' = [Touched(records) EXCEPT
         ![current].state = "settled", ![current].basis = basis,
         ![current].reusable = ReusableResult(call.check, records[current].input, second, complete)]
  /\ ledger' = Put(ledger, current, "succeeded")
  /\ open' = open \ {<<current, call.check>>}
  /\ Over("idle") /\ WriteEnds
  /\ UNCHANGED <<allocated, mutations, turn, used, version, latest, write, life, executed>>
  /\ Save

(* A timeout, a failure or the stop of the Run: recordUncertain. *)
Uncertain(next) ==
  /\ pc \in {"reading", "read"}
  /\ records' = [Touched(records) EXCEPT ![current].state = "uncertain"]
  /\ ledger' = Put(ledger, current, "uncertain")
  /\ Over(next) /\ WriteEnds
  /\ UNCHANGED <<allocated, mutations, turn, used, version, latest, write, life, open, executed>>
  /\ Save

-----------------------------------------------------------------------------
(* Other tools *)

(* A tool writes: one that reports its mutation, or one that does not (shell). *)
StartWrite(v, reports) ==
  /\ pc = "idle" /\ v # version
  /\ pc' = "writing" /\ write' = [before |-> version, after |-> v, reports |-> reports]
  /\ version' = v /\ latest' = IF v > latest THEN v ELSE latest
  /\ WriteBegins
  /\ UNCHANGED <<store, ledger, turn, used, saved, call, seen, current, basis, life, open,
                 executed>>

(* Mutant: only a reported mutation invalidates. *)
WriteUnknownKept ==
  /\ pc = "writing"
  /\ pc' = "idle" /\ write' = None /\ WriteEnds
  /\ UNCHANGED <<store, ledger, turn, used, call, seen, current, basis, version, latest, life,
                 open, executed>>
  /\ Save

(* An unknown write, or one that failed, invalidates what is settled. *)
WriteUnknown ==
  /\ pc = "writing"
  /\ records' = Invalidated(records)
  /\ pc' = "idle" /\ write' = None /\ WriteEnds
  /\ UNCHANGED <<allocated, mutations, ledger, turn, used, call, seen, current, basis, version,
                 latest, life, open, executed>>
  /\ Save

(* recordMutations: a mutation known already, of the same content to the same content, *)
(* is no news and invalidates nothing.                                                  *)
WriteReported ==
  /\ pc = "writing" /\ write.reports
  /\ LET m == <<write.before, write.after>> IN
       IF m \in mutations
       THEN touched' = {} /\ UNCHANGED <<records, mutations, outdated>>
       ELSE mutations' = mutations \cup {m} /\ records' = Invalidated(records) /\ WriteEnds
  /\ pc' = "idle" /\ write' = None
  /\ UNCHANGED <<allocated, ledger, turn, used, call, seen, current, basis, version, latest,
                 life, open, executed>>
  /\ Save

-----------------------------------------------------------------------------
(* Around the store *)

(* The batch ends with a checkpoint, in which its turn is the current one; the next *)
(* begins with setIteration.                                                         *)
NextTurn ==
  /\ pc = "idle" /\ turn < MaxTurns
  /\ turn' = turn + 1 /\ used' = {}
  /\ UNCHANGED <<store, ledger, pc, call, seen, current, basis, version, latest, write, life,
                 hist>>
  /\ SaveOf(turn)

(* A job of the session or the user writes. *)
OthersWrite ==
  /\ latest < MaxVersion
  /\ latest' = latest + 1 /\ version' = latest'
  /\ UNCHANGED <<store, ledger, turn, used, saved, pc, call, seen, current, basis, write, life,
                 hist>>

(* A crash, or the end of the Run, and a resume from the checkpoint: the turn is run *)
(* again, and its calls may have the ids they had.  Of a write that was under way the *)
(* checkpoint knows nothing, and nothing invalidates what was settled before it.      *)
Resume ==
  /\ life < MaxLives
  /\ life' = life + 1
  /\ records' = saved.records /\ allocated' = saved.allocated /\ mutations' = saved.mutations
  /\ ledger' = saved.ledger /\ turn' = saved.turn
  /\ touched' = {}
  /\ used' = {} /\ write' = None
  /\ Over("idle")
  /\ UNCHANGED <<saved, version, latest, open, executed, outdated>>

Next ==
  \/ \E c \in Check, k \in CallId : CallRefused(c, k) \/ \E r \in BOOLEAN : CallCheck(c, k, r)
  \/ Fingerprint \/ Reuse \/ LogsLost \/ NoIdentity \/ Guarded \/ Blocked
  \/ Begin \/ Denied \/ Launch \/ Reads
  \/ \E complete \in BOOLEAN : Result(complete)
  \/ \E next \in {"idle", "over"} : Uncertain(next)
  \/ \E v \in Ver, r \in BOOLEAN : v <= latest + 1 /\ StartWrite(v, r)
  \/ WriteUnknown \/ WriteReported
  \/ NextTurn \/ OthersWrite \/ Resume

Spec == Init /\ [][Next]_vars
-----------------------------------------------------------------------------
(* Properties *)

RecordType ==
  [check : Check, origin : Origin, input : Ver \cup {None},
   state : {"pending", "settled", "uncertain"}, reusable : BOOLEAN, basis : Ver \cup {None},
   turn : 1 .. MaxTurns]

TableOK(f) ==
  /\ DOMAIN f \subseteq Id /\ \A i \in DOMAIN f : f[i] \in RecordType
  /\ Cardinality(DOMAIN f) <= MaxRecords

LedgerOK(l) ==
  DOMAIN l \subseteq Id /\ \A i \in DOMAIN l : l[i] \in {"executing", "succeeded", "uncertain"}

(* The table of records, in memory and in the checkpoint, never outgrows its limit, and *)
(* every variable has its type.                                                         *)
TypeOK ==
  /\ TableOK(records) /\ allocated \in 0 .. MaxAllocated
  /\ mutations \subseteq Ver \X Ver
  /\ LedgerOK(ledger) /\ turn \in 1 .. MaxTurns /\ used \subseteq CallId
  /\ TableOK(saved.records) /\ saved.allocated \in 0 .. MaxAllocated
  /\ saved.mutations \subseteq Ver \X Ver /\ LedgerOK(saved.ledger)
  /\ saved.turn \in 1 .. MaxTurns
  /\ pc \in {"idle", "fingerprint", "decide", "ready", "reading", "read", "writing", "over"}
  /\ pc \in {"fingerprint", "decide", "ready", "reading", "read"} =>
       call \in [check : Check, origin : Origin, reuse : BOOLEAN]
  /\ seen \in Ver \cup {None} /\ basis \in Ver \cup {None}
  /\ current \in 0 .. MaxAllocated
  /\ version \in Ver /\ latest \in Ver /\ version <= latest
  /\ pc = "writing" => write \in [before : Ver, after : Ver, reports : BOOLEAN]
  /\ life \in 1 .. MaxLives
  /\ open \subseteq Id \X Check /\ executed \subseteq Id
  /\ touched \subseteq Id /\ outdated \subseteq Id

(* An answer given without running the check is that of an execution which read the *)
(* very version the caller's fingerprint is of, whoever wrote while it ran.          *)
ReuseIsFresh ==
  pc = "decide" => \A i \in Reusable(call.check, seen) : records[i].basis = seen

Launches == pc = "ready" /\ pc' = "reading"

(* A check is not run while an execution of it is unresolved: timed out, cut short by *)
(* a stop or by a crash.  Neither another call id nor reuse = false gets around it.    *)
UnresolvedNotRerun == [][Launches => \A e \in open : e[2] # call.check]_vars

(* No identity is executed twice, however lives and turns repeat calls and ids. *)
OneIdentity == [][Launches => current \notin executed]_vars

(* What is unresolved stays known, in memory and in the checkpoint: making room, *)
(* invalidating and resuming do not drop it.                                     *)
UnresolvedKept ==
  \A e \in open : \A f \in {records, saved.records} :
    e[1] \in DOMAIN f /\ f[e[1]].check = e[2] /\ f[e[1]].state # "settled"

(* The model is not told that a check is verified after a tool of the Run has written, *)
(* or may have, whether the tool returned, failed or timed out, and however often the   *)
(* Run is resumed afterwards.  Known gaps: a mutation the Run knows already, and a      *)
(* write that a crash cut short (below).                                                *)
VerifiedIsCurrent == \A i \in DOMAIN records : records[i].reusable => i \notin outdated

(* What process-manager.ts says of unknown writes, of a write cut short by a crash: the *)
(* Run that is resumed is told of no check settled before it that it is verified.  The  *)
(* code does not have this, the check is verified as before.  No run checks it, TLC     *)
(* refutes it.                                                                          *)
CutShortIsInvalidated ==
  [][ life' # life => \A i \in DOMAIN records' : records'[i].reusable => i \notin touched ]_vars
=============================================================================
