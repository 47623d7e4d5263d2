------------------------- MODULE EvidenceStoreProofs -------------------------
(***************************************************************************)
(* Proofs about the evidence store: typing and the limit of its table, the *)
(* freshness of reused answers, what becomes of unresolved executions, and *)
(* the validity of what the model is told is verified.                     *)
(***************************************************************************)
EXTENDS EvidenceStore, FiniteSetTheorems, TLAPS

-----------------------------------------------------------------------------
(* The operators on tables *)

(* Table g holds the records of f as they are, some of them less reusable.    *)
Keeps(f, g) ==
  /\ DOMAIN g = DOMAIN f
  /\ \A i \in DOMAIN f :
       /\ g[i].check = f[i].check /\ g[i].origin = f[i].origin /\ g[i].input = f[i].input
       /\ g[i].state = f[i].state /\ g[i].basis = f[i].basis
       /\ g[i].reusable => f[i].reusable

(* invalidateCompleted takes back the reuse of what is settled, nothing else. *)
LEMMA InvalidatedKeeps ==
  ASSUME NEW f, TableOK(f)
  PROVE  /\ TableOK(Invalidated(f)) /\ Keeps(f, Invalidated(f))
         /\ \A i \in DOMAIN f : f[i].state = "settled" => ~Invalidated(f)[i].reusable
<1>1. DOMAIN Invalidated(f) = DOMAIN f
  BY DEF Invalidated
<1>2. ASSUME NEW i \in DOMAIN f
      PROVE  LET g == Invalidated(f)[i] IN
               /\ g \in RecordType
               /\ g.check = f[i].check /\ g.origin = f[i].origin /\ g.input = f[i].input
               /\ g.state = f[i].state /\ g.basis = f[i].basis
               /\ g.reusable => f[i].reusable
               /\ f[i].state = "settled" => ~g.reusable
  <2>1. f[i] \in RecordType
    BY DEF TableOK
  <2>2. CASE f[i].state = "settled"
    <3>1. Invalidated(f)[i] = [f[i] EXCEPT !.reusable = FALSE]
      BY <2>2 DEF Invalidated
    <3> QED
      BY <2>1, <3>1 DEF RecordType
  <2>3. CASE f[i].state # "settled"
    <3>1. Invalidated(f)[i] = f[i]
      BY <2>3 DEF Invalidated
    <3> QED
      BY <2>1, <2>3, <3>1
  <2> QED
    BY <2>2, <2>3
<1> QED
  BY <1>1, <1>2 DEF TableOK, Keeps

LEMMA TouchedKeeps ==
  ASSUME NEW f, TableOK(f)
  PROVE  TableOK(Touched(f)) /\ Keeps(f, Touched(f))
<1>1. Keeps(f, f)
  BY DEF Keeps
<1> QED
  BY <1>1, InvalidatedKeeps DEF Touched

(* The ids are finitely many. *)
LEMMA TableFinite ==
  ASSUME NEW f, TableOK(f)
  PROVE  IsFiniteSet(DOMAIN f) /\ Cardinality(DOMAIN f) \in Nat
<1>1. IsFiniteSet(Id)
  BY StoreAssumption, FS_Interval DEF Id
<1> QED
  BY <1>1, FS_Subset, FS_CardinalityType DEF TableOK

(* getOrCreateInvocation keeps the table within its limit.                    *)
LEMMA IdentifiedTyping ==
  ASSUME TableOK(records), allocated \in 0 .. MaxAllocated, Record \in RecordType,
         NEW i \in Id, NEW r, Identified(i, r)
  PROVE  TableOK(r) /\ allocated' \in 0 .. MaxAllocated
<1>1. ASSUME NEW f, NEW g, DOMAIN f \subseteq Id, \A j \in DOMAIN f : f[j] \in RecordType,
             IsFiniteSet(DOMAIN f), Cardinality(DOMAIN f) + 1 <= MaxRecords,
             Cardinality(DOMAIN f) \in Nat, g = Put(f, i, Record)
      PROVE  TableOK(g)
  <2>1. DOMAIN g = DOMAIN f \cup {i} /\ \A j \in DOMAIN g : g[j] \in RecordType
    BY <1>1 DEF Put
  <2>2. /\ Cardinality(DOMAIN f \cup {i}) = Cardinality(DOMAIN f)
           \/ Cardinality(DOMAIN f \cup {i}) = Cardinality(DOMAIN f) + 1
    BY <1>1, FS_AddElement
  <2>3. Cardinality(DOMAIN g) <= MaxRecords
    BY <1>1, <2>1, <2>2, StoreAssumption
  <2> QED
    BY <1>1, <2>1, <2>3 DEF TableOK
<1>2. IsFiniteSet(DOMAIN records) /\ Cardinality(DOMAIN records) \in Nat
  BY TableFinite
<1>3. CASE r = records /\ allocated' = allocated
  BY <1>3
<1>4. CASE i = allocated + 1 /\ allocated' = i /\ allocated < MaxAllocated
           /\ Cardinality(DOMAIN records) < MaxRecords /\ r = Put(records, i, Record)
  BY <1>1, <1>2, <1>4, StoreAssumption DEF TableOK
<1>5. ASSUME i = allocated + 1, allocated' = i, allocated < MaxAllocated,
             NEW victim \in MakesRoom, r = Put(Drop(records, {victim}), i, Record)
      PROVE  TableOK(r) /\ allocated' \in 0 .. MaxAllocated
  <2> DEFINE f == Drop(records, {victim})
  <2>1. DOMAIN f = DOMAIN records \ {victim} /\ \A j \in DOMAIN f : f[j] = records[j]
    BY DEF Drop
  <2>2. victim \in DOMAIN records
    BY <1>5 DEF MakesRoom
  <2>3. IsFiniteSet(DOMAIN f) /\ Cardinality(DOMAIN f) = Cardinality(DOMAIN records) - 1
    BY <1>2, <2>1, <2>2, FS_RemoveElement
  <2>4. Cardinality(DOMAIN f) \in Nat
    BY <2>3, FS_CardinalityType
  <2>5. Cardinality(DOMAIN f) + 1 <= MaxRecords
    BY <1>2, <2>3 DEF TableOK
  <2>6. DOMAIN f \subseteq Id /\ \A j \in DOMAIN f : f[j] \in RecordType
    BY <2>1 DEF TableOK
  <2> HIDE DEF f
  <2>7. TableOK(r)
    BY <1>1, <1>5, <2>3, <2>4, <2>5, <2>6 DEF f
  <2> QED
    BY <1>5, <2>7, StoreAssumption
<1> QED
  BY <1>3, <1>4, <1>5 DEF Identified

-----------------------------------------------------------------------------
(* Typing *)

(* TypeOK in parts: what is in memory, ...                                    *)
MemoryOK ==
  /\ TableOK(records) /\ allocated \in 0 .. MaxAllocated
  /\ mutations \subseteq Ver \X Ver
  /\ LedgerOK(ledger) /\ turn \in 1 .. MaxTurns /\ used \subseteq CallId

(* ... in the checkpoint ...                                                  *)
SavedOK ==
  /\ TableOK(saved.records) /\ saved.allocated \in 0 .. MaxAllocated
  /\ saved.mutations \subseteq Ver \X Ver /\ LedgerOK(saved.ledger)
  /\ saved.turn \in 1 .. MaxTurns

(* ... and under way, with an id for every check that was begun.              *)
WorkOK ==
  /\ pc \in {"idle", "fingerprint", "decide", "ready", "reading", "read", "writing", "over"}
  /\ pc \in {"fingerprint", "decide", "ready", "reading", "read"} =>
       call \in [check : Check, origin : Origin, reuse : BOOLEAN]
  /\ seen \in Ver \cup {None} /\ basis \in Ver \cup {None}
  /\ current \in 0 .. MaxAllocated
  /\ pc \in {"ready", "reading", "read"} => current \in Id
  /\ version \in Ver /\ latest \in Ver /\ version <= latest
  /\ pc = "writing" => write \in [before : Ver, after : Ver, reports : BOOLEAN]
  /\ life \in 1 .. MaxLives
  /\ open \subseteq Id \X Check /\ executed \subseteq Id

(* ... and what the history says of writes.                                   *)
WritesOK == touched \subseteq Id /\ outdated \subseteq Id

TypeInv == MemoryOK /\ SavedOK /\ WorkOK /\ WritesOK

(* A checkpoint of well typed memory is well typed.                           *)
LEMMA SaveTyping ==
  ASSUME MemoryOK', NEW t \in 1 .. MaxTurns, SaveOf(t)
  PROVE  SavedOK'
<1>1. /\ saved'.records = records' /\ saved'.allocated = allocated'
      /\ saved'.mutations = mutations' /\ saved'.ledger = ledger' /\ saved'.turn = t
  BY DEF SaveOf
<1> QED
  BY <1>1 DEF MemoryOK, SavedOK

LEMMA MemoryTyping ==
  ASSUME MemoryOK, SavedOK, WorkOK, [Next]_vars
  PROVE  MemoryOK'
<1> USE StoreAssumption
<1>u. ASSUME UNCHANGED <<store, ledger, turn>>, used' \subseteq CallId PROVE MemoryOK'
  BY <1>u DEF MemoryOK, store
<1>1. ASSUME NEW c \in Check, NEW k \in CallId, NEW r \in BOOLEAN,
             CallRefused(c, k) \/ CallCheck(c, k, r)
      PROVE  MemoryOK'
  BY <1>1, <1>u DEF CallRefused, CallCheck, MemoryOK, hist
<1>2. CASE Fingerprint \/ Reuse \/ NoIdentity \/ Guarded \/ Denied \/ Launch \/ Reads
  BY <1>2, <1>u DEF Fingerprint, Reuse, NoIdentity, Guarded, Denied, Launch, Reads, MemoryOK, hist
<1>3. CASE LogsLost
  BY <1>3, InvalidatedKeeps DEF LogsLost, MemoryOK, hist
<1>4. CASE Blocked \/ Begin
  <2>1. Record \in RecordType
    BY <1>4 DEF Blocked, Begin, Executes, Record, RecordType, MemoryOK, WorkOK
  <2>2. PICK i \in Id : /\ Identified(i, records')
                        /\ ledger' = ledger \/ ledger' = Put(ledger, i, "executing")
    BY <1>4 DEF Blocked, Begin
  <2>3. TableOK(records') /\ allocated' \in 0 .. MaxAllocated
    BY <2>1, <2>2, IdentifiedTyping DEF MemoryOK
  <2>4. LedgerOK(ledger')
    BY <2>2 DEF LedgerOK, MemoryOK, Put
  <2>5. UNCHANGED <<mutations, turn, used>>
    BY <1>4 DEF Blocked, Begin
  <2> QED
    BY <2>3, <2>4, <2>5 DEF MemoryOK
<1>5. ASSUME NEW complete \in BOOLEAN, Result(complete) PROVE MemoryOK'
  <2> DEFINE f == Touched(records)
  <2>1. TableOK(f) /\ DOMAIN f = DOMAIN records
    BY TouchedKeeps DEF MemoryOK, Keeps
  <2>2. PICK second : records' =
          [f EXCEPT ![current].state = "settled", ![current].basis = basis,
             ![current].reusable =
               ReusableResult(call.check, records[current].input, second, complete)]
    BY <1>5 DEF Result
  <2>3. ReusableResult(call.check, records[current].input, second, complete) \in BOOLEAN
    BY DEF ReusableResult
  <2> HIDE DEF f
  <2>4. DOMAIN records' = DOMAIN f /\ \A i \in DOMAIN f : records'[i] \in RecordType
    <3>1. \A i \in DOMAIN f : f[i] \in RecordType
      BY <2>1 DEF TableOK
    <3>2. basis \in Ver \cup {None}
      BY DEF WorkOK
    <3> QED
      BY <2>2, <2>3, <3>1, <3>2 DEF RecordType
  <2>5. TableOK(records')
    BY <2>1, <2>4 DEF TableOK
  <2>6. LedgerOK(ledger')
    BY <1>5 DEF Result, LedgerOK, Put, MemoryOK, WorkOK
  <2> QED
    BY <1>5, <2>5, <2>6 DEF Result, MemoryOK
<1>6. ASSUME NEW next \in {"idle", "over"}, Uncertain(next) PROVE MemoryOK'
  <2> DEFINE f == Touched(records)
  <2>1. TableOK(f) /\ DOMAIN f = DOMAIN records
    BY TouchedKeeps DEF MemoryOK, Keeps
  <2>2. records' = [f EXCEPT ![current].state = "uncertain"]
    BY <1>6 DEF Uncertain
  <2> HIDE DEF f
  <2>4. DOMAIN records' = DOMAIN f /\ \A i \in DOMAIN f : records'[i] \in RecordType
    BY <2>1, <2>2 DEF RecordType, TableOK
  <2>5. TableOK(records')
    BY <2>1, <2>4 DEF TableOK
  <2>6. LedgerOK(ledger')
    BY <1>6 DEF Uncertain, LedgerOK, Put, MemoryOK, WorkOK
  <2> QED
    BY <1>6, <2>5, <2>6 DEF Uncertain, MemoryOK, hist
<1>7. ASSUME NEW v \in Ver, NEW r \in BOOLEAN, StartWrite(v, r) PROVE MemoryOK'
  BY <1>7 DEF StartWrite, MemoryOK, store
<1>8. CASE WriteUnknown
  BY <1>8, InvalidatedKeeps DEF WriteUnknown, MemoryOK, hist
<1>9. CASE WriteReported
  <2>1. <<write.before, write.after>> \in Ver \X Ver
    BY <1>9 DEF WriteReported, WorkOK
  <2>2. mutations' \subseteq Ver \X Ver /\ TableOK(records')
    BY <1>9, <2>1, InvalidatedKeeps DEF WriteReported, MemoryOK
  <2> QED
    BY <1>9, <2>2 DEF WriteReported, MemoryOK, hist
<1>10. CASE NextTurn
  BY <1>10 DEF NextTurn, MemoryOK, store, hist
<1>11. CASE OthersWrite
  BY <1>11, <1>u DEF OthersWrite, MemoryOK, hist
<1>12. CASE Resume
  BY <1>12 DEF Resume, MemoryOK, SavedOK
<1>13. CASE UNCHANGED vars
  BY <1>13, <1>u DEF vars, MemoryOK, hist
<1> QED
  BY <1>1, <1>2, <1>3, <1>4, <1>5, <1>6, <1>7, <1>8, <1>9, <1>10, <1>11, <1>12, <1>13 DEF Next

LEMMA SavedTyping ==
  ASSUME MemoryOK, SavedOK, WorkOK, [Next]_vars
  PROVE  SavedOK'
<1>1. MemoryOK' /\ turn \in 1 .. MaxTurns
  BY MemoryTyping DEF MemoryOK
<1>2. saved' = saved \/ Save \/ SaveOf(turn)
  BY DEF Next, CallRefused, CallCheck, Fingerprint, Reuse, LogsLost, NoIdentity, Guarded, Blocked,
     Begin, Denied, Launch, Reads, Result, Uncertain, StartWrite, WriteUnknown, WriteReported,
     NextTurn, OthersWrite, Resume, vars
<1> QED
  BY <1>1, <1>2, SaveTyping DEF Save, SavedOK

LEMMA WorkTyping ==
  ASSUME MemoryOK, SavedOK, WorkOK, [Next]_vars
  PROVE  WorkOK'
<1> USE StoreAssumption
<1>0. 0 \in 0 .. MaxAllocated
  OBVIOUS
<1>1. ASSUME NEW c \in Check, NEW k \in CallId, CallRefused(c, k) PROVE WorkOK'
  BY <1>1 DEF CallRefused, WorkOK, hist
<1>2. ASSUME NEW c \in Check, NEW k \in CallId, NEW r \in BOOLEAN, CallCheck(c, k, r)
      PROVE  WorkOK'
  <2>1. <<turn, k>> \in Origin
    BY DEF MemoryOK, Origin
  <2> QED
    BY <1>2, <2>1 DEF CallCheck, WorkOK, hist
<1>3. CASE Fingerprint
  BY <1>3 DEF Fingerprint, Fingerprints, WorkOK, hist
<1>4. CASE Reuse \/ NoIdentity \/ Guarded \/ Blocked \/ Denied
  BY <1>0, <1>4 DEF Reuse, NoIdentity, Guarded, Blocked, Denied, Over, Executes, WorkOK, hist
<1>5. CASE LogsLost
  BY <1>5 DEF LogsLost, WorkOK, hist
<1>6. CASE Begin
  <2>1. PICK i \in Id : current' = i
    BY <1>6 DEF Begin
  <2> QED
    BY <1>6, <2>1 DEF Begin, Executes, Id, WorkOK, hist
<1>7. CASE Launch
  <2>1. current \in Id /\ call.check \in Check
    BY <1>7 DEF Launch, WorkOK
  <2>2. <<current, call.check>> \in Id \X Check
    BY <2>1
  <2>3. open' \subseteq Id \X Check
    BY <1>7, <2>2 DEF Launch, WorkOK
  <2>4. executed' \subseteq Id
    BY <1>7, <2>1 DEF Launch, WorkOK
  <2>5. /\ pc = "ready" /\ pc' = "reading"
        /\ UNCHANGED <<call, seen, basis, current, version, latest, life>>
    BY <1>7 DEF Launch
  <2> QED
    BY <2>1, <2>3, <2>4, <2>5 DEF WorkOK
<1>8. CASE Reads
  BY <1>8 DEF Reads, WorkOK, hist
<1>9. ASSUME NEW complete \in BOOLEAN, Result(complete) PROVE WorkOK'
  BY <1>0, <1>9 DEF Result, Over, WorkOK
<1>10. ASSUME NEW next \in {"idle", "over"}, Uncertain(next) PROVE WorkOK'
  BY <1>0, <1>10 DEF Uncertain, Over, WorkOK, hist
<1>11. ASSUME NEW v \in Ver, NEW r \in BOOLEAN, StartWrite(v, r) PROVE WorkOK'
  BY <1>11 DEF StartWrite, WorkOK, Ver
<1>12. CASE WriteUnknown \/ WriteReported
  BY <1>12 DEF WriteUnknown, WriteReported, WorkOK, hist
<1>13. CASE NextTurn
  BY <1>13 DEF NextTurn, WorkOK, hist
<1>14. CASE OthersWrite
  BY <1>14 DEF OthersWrite, WorkOK, Ver, hist
<1>15. CASE Resume
  BY <1>0, <1>15 DEF Resume, Over, WorkOK
<1>16. CASE UNCHANGED vars
  BY <1>16 DEF vars, WorkOK, hist
<1> QED
  BY <1>1, <1>2, <1>3, <1>4, <1>5, <1>6, <1>7, <1>8, <1>9, <1>10, <1>11, <1>12, <1>13,
     <1>14, <1>15, <1>16 DEF Next

LEMMA WritesTyping ==
  ASSUME MemoryOK, SavedOK, WritesOK, [Next]_vars
  PROVE  WritesOK'
<1>1. SettledIds \subseteq Id
  BY DEF SettledIds, MemoryOK, SavedOK, TableOK
<1>2. UNCHANGED writes \/ WriteBegins \/ WriteEnds => WritesOK'
  BY <1>1 DEF writes, WriteBegins, WriteEnds, WritesOK
<1>3. CASE WriteReported \/ Resume
  BY <1>2, <1>3 DEF WriteReported, Resume, WritesOK
<1>4. ASSUME NEW c \in Check, NEW k \in CallId, NEW r \in BOOLEAN,
             CallRefused(c, k) \/ CallCheck(c, k, r)
      PROVE  WritesOK'
  BY <1>2, <1>4 DEF CallRefused, CallCheck, hist
<1>5. ASSUME NEW v \in Ver, NEW r \in BOOLEAN, StartWrite(v, r) PROVE WritesOK'
  BY <1>2, <1>5 DEF StartWrite
<1>6. ASSUME NEW complete \in BOOLEAN, NEW next \in {"idle", "over"},
             Result(complete) \/ Uncertain(next)
      PROVE  WritesOK'
  BY <1>2, <1>6 DEF Result, Uncertain
<1>7. CASE Launch \/ WriteUnknown
  BY <1>2, <1>7 DEF Launch, WriteUnknown
<1>8. CASE Fingerprint \/ Reuse \/ LogsLost \/ NoIdentity \/ Guarded \/ Blocked
  BY <1>2, <1>8 DEF Fingerprint, Reuse, LogsLost, NoIdentity, Guarded, Blocked, hist
<1>9. CASE Begin \/ Denied \/ Reads \/ NextTurn \/ OthersWrite \/ UNCHANGED vars
  BY <1>2, <1>9 DEF Begin, Denied, Reads, NextTurn, OthersWrite, vars, hist
<1> QED
  BY <1>3, <1>4, <1>5, <1>6, <1>7, <1>8, <1>9 DEF Next

LEMMA TypeInvariance == Spec => []TypeInv
<1>1. Init => TypeInv
  <2> SUFFICES ASSUME Init PROVE TypeInv
    OBVIOUS
  <2>1. DOMAIN records = {} /\ DOMAIN ledger = {}
    BY DEF Init
  <2>2. TableOK(records) /\ LedgerOK(ledger)
    BY <2>1, FS_EmptySet, StoreAssumption DEF TableOK, LedgerOK
  <2> QED
    BY <2>2, StoreAssumption DEF Init, TypeInv, MemoryOK, SavedOK, WorkOK, WritesOK, Ver
<1>2. TypeInv /\ [Next]_vars => TypeInv'
  BY MemoryTyping, SavedTyping, WorkTyping, WritesTyping DEF TypeInv
<1> QED
  BY <1>1, <1>2, PTL DEF Spec

(* Every reachable state is well typed: no table of records, in memory or in  *)
(* the checkpoint, outgrows MAX_CHECK_RECORDS.                                *)
THEOREM TypeCorrect == Spec => []TypeOK
<1>1. TypeInv => TypeOK
  BY DEF TypeInv, TypeOK, MemoryOK, SavedOK, WorkOK, WritesOK
<1> QED
  BY <1>1, TypeInvariance, PTL

-----------------------------------------------------------------------------
(* The invariant of records, ledger and checkpoint *)

(* Settled before a write that has ended or is under way.                     *)
Marked == outdated \cup touched

(* A table f with its last id a, its ledger l and the marked records o: ids   *)
(* are not reused, a call has one record, what was ever begun is in the       *)
(* ledger, what may be reused is settled and of the version it names, and the *)
(* versions are those there have been.                                        *)
Sound(f, a, l, o) ==
  /\ DOMAIN f \subseteq 1 .. a /\ DOMAIN l \subseteq 1 .. a /\ o \subseteq DOMAIN l
  /\ \A i, j \in DOMAIN f : f[i].origin = f[j].origin => i = j
  /\ \A i \in DOMAIN f :
       /\ f[i].state # "pending" => i \in DOMAIN l
       /\ f[i].reusable => f[i].state = "settled" /\ f[i].basis = f[i].input
       /\ f[i].state # "settled" => i \notin o
       /\ f[i].input # None => f[i].input <= latest

(* Neither what was executed nor what is unresolved is forgotten.             *)
Remembers(f, l) ==
  /\ executed \subseteq DOMAIN l
  /\ \A e \in open : e[1] \in DOMAIN f /\ f[e[1]].check = e[2] /\ f[e[1]].state # "settled"

MemoryInv == Sound(records, allocated, ledger, Marked) /\ Remembers(records, ledger)

(* The checkpoint has what a resumed Run needs of it, and differs from memory *)
(* only by what nothing was executed for and by what is evicted.              *)
SavedInv ==
  /\ Sound(saved.records, saved.allocated, saved.ledger, Marked)
  /\ Remembers(saved.records, saved.ledger)
  /\ \A i \in DOMAIN saved.records : saved.records[i].reusable => i \notin outdated
  /\ saved.ledger = ledger /\ saved.allocated <= allocated
  /\ \A i \in DOMAIN records \cap DOMAIN saved.records :
       records[i].state = saved.records[i].state

(* The check under way has a pending record of its own, on disk too before it *)
(* starts; no other execution of the same check is unresolved; and a version  *)
(* written while it runs is none it was called for.                           *)
CheckInv ==
  /\ \A e \in open : e[1] \in executed
  /\ seen # None => seen <= latest
  /\ pc \in {"fingerprint", "decide"} => Unresolved(call.check, call.origin) = {}
  /\ pc \in {"ready", "reading", "read"} =>
       /\ current \in DOMAIN records /\ current \in DOMAIN ledger
       /\ records[current].check = call.check /\ records[current].state = "pending"
  /\ pc = "ready" =>
       /\ saved.records = records /\ saved.ledger = ledger
       /\ current \notin executed
       /\ \A e \in open : e[2] # call.check
  /\ pc = "read" => (records[current].input = version => basis = version)

(* Nothing outdated is reusable, and no write is under way but that of a tool *)
(* or of a process.                                                           *)
VerifiedInv ==
  /\ \A i \in DOMAIN records : records[i].reusable => i \notin outdated
  /\ pc \notin {"reading", "read", "writing"} => touched = {}
  /\ pc \in {"reading", "read"} /\ call.check \in Closed => touched = {}

EvidenceInv == MemoryInv /\ SavedInv /\ CheckInv /\ VerifiedInv

(* A table whose records keep what they say stays sound.                      *)
LEMMA KeepsSound ==
  ASSUME NEW f, NEW g, NEW l, NEW a, NEW o, Keeps(f, g)
  PROVE  /\ Sound(f, a, l, o) => Sound(g, a, l, o)
         /\ Remembers(f, l) => Remembers(g, l)
<1>1. ASSUME Sound(f, a, l, o) PROVE Sound(g, a, l, o)
  BY <1>1 DEF Keeps, Sound
<1>2. ASSUME Remembers(f, l) PROVE Remembers(g, l)
  BY <1>2 DEF Keeps, Remembers
<1> QED
  BY <1>1, <1>2

(* The records after getOrCreateInvocation are the ones before, but for a     *)
(* settled one that made room, and the one of the call.                       *)
LEMMA IdentifiedRecords ==
  ASSUME TypeInv, MemoryInv, pc = "decide", NEW i \in Id, NEW r, Identified(i, r)
  PROVE  /\ i \in DOMAIN r /\ i \notin DOMAIN ledger /\ i \in 1 .. allocated'
         /\ r[i].check = call.check /\ r[i].origin = call.origin /\ r[i].state = "pending"
         /\ ~r[i].reusable
         /\ \A j \in DOMAIN r \ {i} : j \in DOMAIN records /\ r[j] = records[j]
         /\ \A j \in DOMAIN records : records[j].state # "settled" => j \in DOMAIN r
         /\ \/ i \in DOMAIN records /\ r[i] = records[i]
            \/ i \notin 1 .. allocated /\ Of(call.origin) = {} /\ r[i].input = seen
         /\ 1 .. allocated \subseteq 1 .. allocated'
<1> USE StoreAssumption
<1>0. allocated \in Nat /\ call.origin \in Origin
  BY DEF TypeInv, MemoryOK, WorkOK
<1>d. DOMAIN records \subseteq 1 .. allocated /\ DOMAIN ledger \subseteq 1 .. allocated
  BY DEF MemoryInv, Sound
<1>1. CASE i \in Of(call.origin) /\ records[i].check = call.check /\ i \notin DOMAIN ledger
           /\ r = records /\ allocated' = allocated
  <2>1. i \in DOMAIN records /\ records[i].origin = call.origin
    BY <1>1 DEF Of
  <2>2. records[i].state = "pending"
    BY <1>1, <2>1 DEF MemoryInv, Sound
  <2>3. ~records[i].reusable
    BY <2>1, <2>2 DEF MemoryInv, Sound
  <2> QED
    BY <1>1, <1>d, <2>1, <2>2, <2>3
<1>2. ASSUME Of(call.origin) = {}, i = allocated + 1, allocated' = i,
             NEW f, DOMAIN f \subseteq DOMAIN records, \A j \in DOMAIN f : f[j] = records[j],
             \A j \in DOMAIN records : records[j].state # "settled" => j \in DOMAIN f,
             r = Put(f, i, Record)
      PROVE  /\ i \in DOMAIN r /\ i \notin DOMAIN ledger /\ i \in 1 .. allocated'
             /\ r[i].check = call.check /\ r[i].origin = call.origin /\ r[i].state = "pending"
             /\ ~r[i].reusable /\ r[i].input = seen
             /\ \A j \in DOMAIN r \ {i} : j \in DOMAIN records /\ r[j] = records[j]
             /\ \A j \in DOMAIN records : records[j].state # "settled" => j \in DOMAIN r
             /\ i \notin 1 .. allocated
             /\ 1 .. allocated \subseteq 1 .. allocated'
  <2>1. DOMAIN r = DOMAIN f \cup {i} /\ r[i] = Record
        /\ \A j \in DOMAIN f \ {i} : r[j] = f[j]
    BY <1>2 DEF Put
  <2>2. i \notin 1 .. allocated /\ i \in 1 .. allocated' /\ 1 .. allocated \subseteq 1 .. allocated'
    BY <1>0, <1>2
  <2>3. /\ r[i].check = call.check /\ r[i].origin = call.origin /\ r[i].state = "pending"
        /\ ~r[i].reusable /\ r[i].input = seen
    BY <2>1 DEF Record
  <2> QED
    BY <1>2, <1>d, <2>1, <2>2, <2>3
<1>3. CASE Of(call.origin) = {} /\ i = allocated + 1 /\ allocated' = i
           /\ r = Put(records, i, Record)
  BY <1>2, <1>3
<1>4. ASSUME Of(call.origin) = {}, i = allocated + 1, allocated' = i,
             NEW victim \in MakesRoom, r = Put(Drop(records, {victim}), i, Record)
      PROVE  /\ i \in DOMAIN r /\ i \notin DOMAIN ledger /\ i \in 1 .. allocated'
             /\ r[i].check = call.check /\ r[i].origin = call.origin /\ r[i].state = "pending"
             /\ ~r[i].reusable /\ r[i].input = seen
             /\ \A j \in DOMAIN r \ {i} : j \in DOMAIN records /\ r[j] = records[j]
             /\ \A j \in DOMAIN records : records[j].state # "settled" => j \in DOMAIN r
             /\ i \notin 1 .. allocated
             /\ 1 .. allocated \subseteq 1 .. allocated'
  <2> DEFINE f == Drop(records, {victim})
  <2>1. DOMAIN f = DOMAIN records \ {victim} /\ \A j \in DOMAIN f : f[j] = records[j]
    BY DEF Drop
  <2>2. records[victim].state = "settled"
    BY <1>4 DEF MakesRoom, Settled
  <2> HIDE DEF f
  <2>3. r = Put(f, i, Record)
    BY <1>4 DEF f
  <2> QED
    BY <1>2, <1>4, <2>1, <2>2, <2>3
<1> QED
  BY <1>1, <1>3, <1>4 DEF Identified

(* What Result and Uncertain leave of the other records, and of the check's. *)
LEMMA RecordedCheck ==
  ASSUME TypeInv, CheckInv, pc \in {"reading", "read"}
  PROVE  LET f == Touched(records) IN
           /\ TableOK(f) /\ Keeps(records, f) /\ current \in DOMAIN f /\ f[current] \in RecordType
           /\ f[current].check = call.check /\ f[current].input = records[current].input
           /\ f[current].state = "pending"
  BY TouchedKeeps DEF TypeInv, MemoryOK, CheckInv, Keeps, TableOK

(* What is settled when a write begins was in the ledger, and nothing that is *)
(* unresolved, in memory or in the checkpoint, is among it.                   *)
LEMMA SettledMarked ==
  ASSUME TypeInv, MemoryInv, SavedInv
  PROVE  /\ SettledIds \subseteq DOMAIN ledger
         /\ \A i \in DOMAIN records : records[i].state # "settled" => i \notin SettledIds
         /\ \A i \in DOMAIN saved.records :
              saved.records[i].state # "settled" => i \notin SettledIds
<1>1. ASSUME NEW i \in SettledIds
      PROVE  \/ i \in DOMAIN records /\ records[i].state = "settled"
             \/ i \in DOMAIN saved.records /\ saved.records[i].state = "settled"
  BY DEF SettledIds
<1>2. ASSUME NEW i \in DOMAIN records, i \notin DOMAIN ledger
      PROVE  records[i].state = "pending"
  BY <1>2 DEF MemoryInv, Sound
<1>3. ASSUME NEW i \in DOMAIN saved.records, i \notin DOMAIN ledger
      PROVE  saved.records[i].state = "pending"
  BY <1>3 DEF SavedInv, Sound
<1> QED
  BY <1>1, <1>2, <1>3 DEF SavedInv

(* What a step of the history does to what is marked.                         *)
LEMMA MarkedStep ==
  /\ UNCHANGED writes => Marked' = Marked
  /\ WriteEnds => Marked' = Marked
  /\ WriteBegins => Marked' \subseteq Marked \cup SettledIds
  BY DEF writes, WriteEnds, WriteBegins, Marked

LEMMA MemoryStep ==
  ASSUME TypeInv, EvidenceInv, [Next]_vars
  PROVE  MemoryInv'
<1> USE StoreAssumption DEF EvidenceInv, TypeInv
<1>a. latest \in Nat /\ \A i \in DOMAIN records : records[i] \in RecordType
  BY DEF MemoryOK, WorkOK, TableOK, Ver
<1>u. ASSUME UNCHANGED <<store, ledger, open, executed>>, Marked' \subseteq Marked,
             latest' \in Nat, latest <= latest'
      PROVE  MemoryInv'
  <2>1. \A i \in DOMAIN records : records[i].input # None => records[i].input <= latest'
    BY <1>a, <1>u DEF MemoryInv, Sound, RecordType, Ver
  <2> QED
    BY <1>u, <2>1 DEF store, MemoryInv, Sound, Remembers
<1>k. ASSUME Keeps(records, records'),
             UNCHANGED <<allocated, ledger, latest, open, executed>>, Marked' \subseteq Marked
      PROVE  MemoryInv'
  <2>1. Sound(records', allocated, ledger, Marked) /\ Remembers(records', ledger)
    BY <1>k, KeepsSound DEF MemoryInv
  <2> QED
    BY <1>k, <2>1 DEF MemoryInv, Sound, Remembers
<1>1. ASSUME NEW c \in Check, NEW k \in CallId, NEW r \in BOOLEAN,
             CallRefused(c, k) \/ CallCheck(c, k, r)
      PROVE  MemoryInv'
  BY <1>1, <1>a, <1>u, MarkedStep DEF CallRefused, CallCheck, hist
<1>2. CASE Fingerprint \/ Reuse \/ NoIdentity \/ Guarded \/ Denied \/ Reads
  BY <1>2, <1>a, <1>u, MarkedStep DEF Fingerprint, Reuse, NoIdentity, Guarded, Denied, Reads, hist
<1>3. CASE LogsLost \/ WriteUnknown
  BY <1>3, <1>k, InvalidatedKeeps, MarkedStep DEF LogsLost, WriteUnknown, MemoryOK, hist
<1>4. CASE Blocked \/ Begin
  <2>1. PICK i \in Id : /\ Identified(i, records')
                        /\ ledger' = ledger \/ ledger' = Put(ledger, i, "executing")
    BY <1>4 DEF Blocked, Begin
  <2>2. pc = "decide" /\ UNCHANGED <<latest, open, executed>> /\ Marked' = Marked
    BY <1>4, MarkedStep DEF Blocked, Begin, Executes, hist
  <2>3. /\ i \in DOMAIN records' /\ i \in 1 .. allocated'
        /\ records'[i].origin = call.origin /\ records'[i].state = "pending"
        /\ ~records'[i].reusable
        /\ \A j \in DOMAIN records' \ {i} : j \in DOMAIN records /\ records'[j] = records[j]
        /\ \A j \in DOMAIN records : records[j].state # "settled" => j \in DOMAIN records'
        /\ \/ i \in DOMAIN records /\ records'[i] = records[i]
           \/ i \notin 1 .. allocated /\ Of(call.origin) = {} /\ records'[i].input = seen
        /\ 1 .. allocated \subseteq 1 .. allocated'
    BY <2>1, <2>2, IdentifiedRecords
  <2>4. DOMAIN ledger \subseteq DOMAIN ledger' /\ DOMAIN ledger' \subseteq DOMAIN ledger \cup {i}
    BY <2>1 DEF Put
  <2>5. \A j, k \in DOMAIN records' : records'[j].origin = records'[k].origin => j = k
    <3>1. \A j \in DOMAIN records' : records'[j].origin = call.origin => j = i
      BY <2>3 DEF MemoryInv, Sound, Of
    <3> QED
      BY <2>3, <3>1 DEF MemoryInv, Sound
  <2>6. i \notin Marked
    <3>1. i \notin DOMAIN ledger
      BY <2>1, <2>2, IdentifiedRecords
    <3> QED
      BY <3>1 DEF MemoryInv, Sound
  <2>7. seen # None => seen <= latest
    BY DEF CheckInv
  <2>8. \A j \in DOMAIN records' :
          /\ records'[j].state # "pending" => j \in DOMAIN ledger'
          /\ records'[j].reusable
               => records'[j].state = "settled" /\ records'[j].basis = records'[j].input
          /\ records'[j].state # "settled" => j \notin Marked
          /\ records'[j].input # None => records'[j].input <= latest
    BY <2>3, <2>4, <2>6, <2>7 DEF MemoryInv, Sound
  <2>9. /\ DOMAIN records' \subseteq 1 .. allocated' /\ DOMAIN ledger' \subseteq 1 .. allocated'
        /\ Marked \subseteq DOMAIN ledger'
    BY <2>3, <2>4 DEF MemoryInv, Sound
  <2>10. \A e \in open :
           e[1] \in DOMAIN records' /\ records'[e[1]].check = e[2]
             /\ records'[e[1]].state # "settled"
    BY <2>3 DEF MemoryInv, Sound, Remembers
  <2> QED
    BY <2>2, <2>4, <2>5, <2>8, <2>9, <2>10 DEF MemoryInv, Sound, Remembers
<1>5. CASE Launch
  <2>1. Sound(records, allocated, ledger, Marked)'
    <3>1. Marked' \subseteq Marked \cup SettledIds
      BY <1>5, MarkedStep DEF Launch
    <3> QED
      BY <1>5, <3>1, SettledMarked DEF Launch, store, MemoryInv, Sound
  <2>2. current \in DOMAIN records /\ current \in DOMAIN ledger
        /\ records[current].check = call.check /\ records[current].state = "pending"
    BY <1>5 DEF Launch, CheckInv
  <2>3. Remembers(records, ledger)'
    BY <1>5, <2>2 DEF Launch, store, MemoryInv, Remembers
  <2> QED
    BY <2>1, <2>3 DEF MemoryInv
<1>6. ASSUME NEW complete \in BOOLEAN, Result(complete) PROVE MemoryInv'
  <2> DEFINE f == Touched(records)
  <2>1. pc = "read" /\ UNCHANGED <<allocated, latest, executed>> /\ Marked' = Marked
        /\ ledger' = Put(ledger, current, "succeeded")
        /\ open' = open \ {<<current, call.check>>}
    BY <1>6, MarkedStep DEF Result
  <2>2. PICK second \in {version, None} : records' =
          [f EXCEPT ![current].state = "settled", ![current].basis = basis,
             ![current].reusable =
               ReusableResult(call.check, records[current].input, second, complete)]
    BY <1>6 DEF Result, Fingerprints
  <2>3. /\ Keeps(records, f) /\ current \in DOMAIN f /\ f[current] \in RecordType
        /\ f[current].check = call.check /\ f[current].input = records[current].input
        /\ current \in DOMAIN records /\ records[current].check = call.check
    BY <2>1, RecordedCheck DEF CheckInv, EvidenceInv
  <2>4. Sound(f, allocated, ledger, Marked) /\ Remembers(f, ledger)
    BY <2>3, KeepsSound DEF MemoryInv
  <2> DEFINE R == ReusableResult(call.check, records[current].input, second, complete)
  <2>5. R => basis = f[current].input
    BY <2>1, <2>2, <2>3 DEF ReusableResult, CheckInv
  <2> HIDE DEF f, R
  <2>6. /\ DOMAIN records' = DOMAIN f /\ \A i \in DOMAIN f \ {current} : records'[i] = f[i]
        /\ records'[current].state = "settled" /\ records'[current].basis = basis
        /\ records'[current].reusable = R
        /\ records'[current].check = f[current].check
        /\ records'[current].origin = f[current].origin
        /\ records'[current].input = f[current].input
    BY <2>2, <2>3 DEF RecordType, R
  <2>7. DOMAIN ledger' = DOMAIN ledger \cup {current}
    BY <2>1 DEF Put
  <2>8. current \in DOMAIN ledger /\ DOMAIN ledger' = DOMAIN ledger
    BY <2>1, <2>7 DEF CheckInv
  <2>9. Sound(records, allocated, ledger, Marked)'
    BY <2>1, <2>4, <2>5, <2>6, <2>8 DEF Sound
  <2>10. \A e \in open' : e \in open /\ e[1] # current
    BY <2>1, <2>3 DEF WorkOK, MemoryInv, Remembers
  <2>11. Remembers(records, ledger)'
    BY <2>1, <2>4, <2>6, <2>8, <2>10 DEF Remembers
  <2> QED
    BY <2>9, <2>11 DEF MemoryInv
<1>7. ASSUME NEW next \in {"idle", "over"}, Uncertain(next) PROVE MemoryInv'
  <2> DEFINE f == Touched(records)
  <2>1. /\ pc \in {"reading", "read"} /\ UNCHANGED <<allocated, latest, executed, open>>
        /\ Marked' = Marked
        /\ ledger' = Put(ledger, current, "uncertain")
        /\ records' = [f EXCEPT ![current].state = "uncertain"]
    BY <1>7, MarkedStep DEF Uncertain
  <2>2. /\ Keeps(records, f) /\ current \in DOMAIN f /\ f[current] \in RecordType
        /\ f[current].state = "pending"
    BY <2>1, RecordedCheck
  <2>3. Sound(f, allocated, ledger, Marked) /\ Remembers(f, ledger)
    BY <2>2, KeepsSound DEF MemoryInv
  <2> HIDE DEF f
  <2>4. /\ DOMAIN records' = DOMAIN f /\ \A i \in DOMAIN f \ {current} : records'[i] = f[i]
        /\ records'[current].state = "uncertain"
        /\ records'[current].check = f[current].check
        /\ records'[current].origin = f[current].origin
        /\ records'[current].input = f[current].input
        /\ records'[current].reusable = f[current].reusable
    BY <2>1, <2>2 DEF RecordType
  <2>5. current \in DOMAIN ledger /\ DOMAIN ledger' = DOMAIN ledger
    BY <2>1 DEF Put, CheckInv
  <2>6. ~f[current].reusable /\ current \notin Marked
    BY <2>2, <2>3 DEF Sound
  <2>7. Sound(records, allocated, ledger, Marked)'
    BY <2>1, <2>3, <2>4, <2>5, <2>6 DEF Sound
  <2>8. Remembers(records, ledger)'
    BY <2>1, <2>3, <2>4, <2>5 DEF Remembers
  <2> QED
    BY <2>7, <2>8 DEF MemoryInv
<1>8. ASSUME NEW v \in Ver, NEW r \in BOOLEAN, StartWrite(v, r) PROVE MemoryInv'
  <2>1. latest' \in Nat /\ latest <= latest'
    BY <1>8, <1>a DEF StartWrite, Ver
  <2>2. \A i \in DOMAIN records : records[i].input # None => records[i].input <= latest'
    BY <1>a, <2>1 DEF MemoryInv, Sound, RecordType, Ver
  <2>3. Marked' \subseteq Marked \cup SettledIds
    BY <1>8, MarkedStep DEF StartWrite
  <2> QED
    BY <1>8, <2>2, <2>3, SettledMarked DEF StartWrite, store, MemoryInv, Sound, Remembers
<1>9. CASE WriteReported
  <2>1. Keeps(records, records')
    BY <1>9, InvalidatedKeeps DEF WriteReported, MemoryOK, Keeps
  <2>2. Marked' \subseteq Marked
    BY <1>9, MarkedStep DEF WriteReported, Marked
  <2> QED
    BY <1>9, <2>1, <2>2, <1>k DEF WriteReported
<1>10. CASE NextTurn \/ OthersWrite
  BY <1>10, <1>a, <1>u, MarkedStep DEF NextTurn, OthersWrite, store, hist
<1>11. CASE Resume
  <2>1. Marked' \subseteq Marked
    BY <1>11 DEF Resume, Marked
  <2>2. UNCHANGED <<latest, open, executed>> /\ records' = saved.records
        /\ allocated' = saved.allocated /\ ledger' = saved.ledger
    BY <1>11 DEF Resume
  <2> QED
    BY <2>1, <2>2 DEF SavedInv, MemoryInv, Sound, Remembers
<1>12. CASE UNCHANGED vars
  BY <1>12, <1>a, <1>u, MarkedStep DEF vars, hist
<1> QED
  BY <1>1, <1>2, <1>3, <1>4, <1>5, <1>6, <1>7, <1>8, <1>9, <1>10, <1>11, <1>12 DEF Next

LEMMA VerifiedStep ==
  ASSUME TypeInv, EvidenceInv, [Next]_vars
  PROVE  VerifiedInv'
<1> USE DEF EvidenceInv, TypeInv, VerifiedInv
<1>r. \A i \in DOMAIN records : records[i].reusable => records[i].state = "settled"
  BY DEF MemoryInv, Sound
<1>u. ASSUME UNCHANGED <<records, outdated, touched>>,
             pc \notin {"reading", "read", "writing"}, pc' # "writing"
      PROVE  VerifiedInv'
  BY <1>u
<1>w. ASSUME UNCHANGED <<records, outdated, touched, call, pc>> PROVE VerifiedInv'
  BY <1>w
<1>h. UNCHANGED hist => UNCHANGED <<outdated, touched>>
  BY DEF hist, writes
<1>i. ASSUME records' = Invalidated(records)
      PROVE  \A i \in DOMAIN records' : ~records'[i].reusable
  <2>1. TableOK(records)
    BY DEF MemoryOK
  <2>2. DOMAIN records' = DOMAIN records
    BY <1>i DEF Invalidated
  <2> QED
    BY <1>i, <1>r, <2>1, <2>2, InvalidatedKeeps DEF Keeps
<1>1. ASSUME NEW c \in Check, NEW k \in CallId, NEW r \in BOOLEAN,
             CallRefused(c, k) \/ CallCheck(c, k, r)
      PROVE  VerifiedInv'
  BY <1>1, <1>u, <1>h DEF CallRefused, CallCheck, store
<1>2. CASE Fingerprint \/ Reuse \/ NoIdentity \/ Guarded \/ Denied
  BY <1>2, <1>u, <1>h DEF Fingerprint, Reuse, NoIdentity, Guarded, Executes, Denied, Over, store
<1>3. CASE LogsLost
  BY <1>3, <1>i, <1>h DEF LogsLost
<1>4. CASE Blocked \/ Begin
  <2>1. PICK i \in Id : Identified(i, records')
    BY <1>4 DEF Blocked, Begin
  <2>2. /\ pc = "decide" /\ pc' \notin {"reading", "read", "writing"}
        /\ UNCHANGED <<outdated, touched>>
    BY <1>4, <1>h DEF Blocked, Begin, Executes, Over
  <2>3. /\ ~records'[i].reusable
        /\ \A j \in DOMAIN records' \ {i} : j \in DOMAIN records /\ records'[j] = records[j]
    BY <2>1, <2>2, IdentifiedRecords
  <2> QED
    BY <2>2, <2>3
<1>5. CASE Launch
  <2>1. /\ pc = "ready" /\ pc' = "reading" /\ UNCHANGED <<records, call, outdated>>
        /\ call.check \in Closed => touched' = touched
    BY <1>5 DEF Launch, store, writes, WriteBegins
  <2> QED
    BY <2>1
<1>6. CASE Reads
  BY <1>6, <1>h DEF Reads, store
<1>7. ASSUME NEW complete \in BOOLEAN, NEW next \in {"idle", "over"},
             Result(complete) \/ Uncertain(next)
      PROVE  VerifiedInv'
  <2> DEFINE f == Touched(records)
  <2>1. /\ pc \in {"reading", "read"} /\ pc' \in {"idle", "over"}
        /\ outdated' = outdated \cup touched /\ touched' = {}
    BY <1>7 DEF Result, Uncertain, Over, WriteEnds
  <2>2. Keeps(records, f) /\ current \in DOMAIN f /\ f[current] \in RecordType
        /\ f[current].state = "pending"
    BY <2>1, RecordedCheck
  <2>3. ~f[current].reusable
    BY <2>2, <1>r DEF Keeps
  <2>4. call.check \notin Closed => f = Invalidated(records)
    BY DEF Touched
  <2>5. call.check \notin Closed => \A i \in DOMAIN f : ~f[i].reusable
    <3>1. TableOK(records)
      BY DEF MemoryOK
    <3> HIDE DEF f
    <3> QED
      BY <1>r, <2>2, <2>4, <3>1, InvalidatedKeeps DEF Keeps
  <2>6. call.check \in Closed => touched = {}
    BY <2>1
  <2> HIDE DEF f
  <2>7. /\ DOMAIN records' = DOMAIN f
        /\ \A i \in DOMAIN f \ {current} : records'[i] = f[i]
        /\ call.check \notin Closed => ~records'[current].reusable
    <3>1. CASE Result(complete)
      <4>1. PICK second : records' =
          [f EXCEPT ![current].state = "settled", ![current].basis = basis,
             ![current].reusable =
               ReusableResult(call.check, records[current].input, second, complete)]
        BY <3>1 DEF Result, f
      <4> QED
        BY <4>1, <2>2 DEF ReusableResult, RecordType
    <3>2. CASE Uncertain(next)
      <4>1. records' = [f EXCEPT ![current].state = "uncertain"]
        BY <3>2 DEF Uncertain, f
      <4> QED
        BY <4>1, <2>2, <2>3 DEF RecordType
    <3> QED
      BY <1>7, <3>1, <3>2
  <2>8. current \notin outdated
    BY <2>1 DEF CheckInv, MemoryInv, Sound, Marked
  <2>9. CASE call.check \in Closed
    BY <2>1, <2>2, <2>6, <2>7, <2>8, <2>9 DEF Keeps
  <2>10. CASE call.check \notin Closed
    BY <2>1, <2>5, <2>7, <2>10
  <2> QED
    BY <2>9, <2>10
<1>8. ASSUME NEW v \in Ver, NEW r \in BOOLEAN, StartWrite(v, r) PROVE VerifiedInv'
  BY <1>8 DEF StartWrite, WriteBegins, store
<1>9. CASE WriteUnknown
  BY <1>9, <1>i DEF WriteUnknown, WriteEnds
<1>10. CASE WriteReported
  <2> DEFINE m == <<write.before, write.after>>
  <2>1. CASE m \in mutations
    BY <1>10, <2>1 DEF WriteReported
  <2>2. CASE m \notin mutations
    <3>1. records' = Invalidated(records) /\ pc' = "idle" /\ touched' = {}
      BY <1>10, <2>2 DEF WriteReported, WriteEnds
    <3> QED
      BY <3>1, <1>i
  <2> QED
    BY <2>1, <2>2
<1>11. CASE NextTurn
  BY <1>11, <1>u, <1>h DEF NextTurn, store
<1>12. CASE OthersWrite
  BY <1>12, <1>w, <1>h DEF OthersWrite, store
<1>13. CASE Resume
  BY <1>13 DEF Resume, Over, SavedInv
<1>14. CASE UNCHANGED vars
  BY <1>14, <1>w, <1>h DEF vars, store
<1> QED
  BY <1>1, <1>2, <1>3, <1>4, <1>5, <1>6, <1>7, <1>8, <1>9, <1>10, <1>11, <1>12, <1>13, <1>14
  DEF Next

LEMMA CheckStep ==
  ASSUME TypeInv, EvidenceInv, [Next]_vars
  PROVE  CheckInv'
<1> USE StoreAssumption DEF EvidenceInv, TypeInv, CheckInv
<1>a. /\ version \in Ver /\ latest \in Ver /\ version <= latest /\ Ver \subseteq Nat
      /\ seen \in Ver \cup {None}
  BY DEF WorkOK, Ver
<1>1. ASSUME NEW c \in Check, NEW k \in CallId, CallRefused(c, k) PROVE CheckInv'
  BY <1>1 DEF CallRefused, store, hist
<1>2. ASSUME NEW c \in Check, NEW k \in CallId, NEW r \in BOOLEAN, CallCheck(c, k, r)
      PROVE  CheckInv'
  <2>1. call'.check = c /\ call'.origin = <<turn, k>> /\ pc' = "fingerprint"
        /\ Unresolved(c, <<turn, k>>) = {} /\ UNCHANGED <<records, open, executed, seen, latest>>
    BY <1>2 DEF CallCheck, store, hist
  <2> QED
    BY <2>1 DEF Unresolved, Settled
<1>3. CASE Fingerprint
  <2>1. /\ pc' = "decide" /\ seen' \in {version, None}
        /\ UNCHANGED <<records, call, open, executed, latest>>
    BY <1>3 DEF Fingerprint, Fingerprints, store, hist
  <2>2. Unresolved(call.check, call.origin)' = {}
    BY <1>3, <2>1 DEF Fingerprint, Unresolved, Settled
  <2> QED
    BY <2>1, <2>2, <1>a
<1>4. CASE Reuse \/ NoIdentity \/ Guarded \/ Denied
  BY <1>4 DEF Reuse, NoIdentity, Guarded, Denied, Over, hist
<1>5. CASE LogsLost
  <2>1. Keeps(records, records') /\ pc = "decide"
    BY <1>5, InvalidatedKeeps DEF LogsLost, MemoryOK
  <2>2. /\ call'.check = call.check /\ call'.origin = call.origin
        /\ UNCHANGED <<pc, seen, latest, open, executed>>
    BY <1>5, <2>1 DEF LogsLost, hist, WorkOK
  <2>3. Unresolved(call.check, call.origin)' = {}
    BY <2>1, <2>2 DEF Keeps, Unresolved, Settled
  <2> QED
    BY <2>1, <2>2, <2>3
<1>6. CASE Blocked
  BY <1>6 DEF Blocked, Over, hist
<1>7. CASE Begin
  <2>1. PICK i \in Id : Identified(i, records') /\ current' = i
                        /\ ledger' = Put(ledger, i, "executing")
    BY <1>7 DEF Begin
  <2>2. /\ pc = "decide" /\ pc' = "ready" /\ UNCHANGED <<call, seen, latest, open, executed>>
        /\ saved'.records = records' /\ saved'.ledger = ledger'
    BY <1>7 DEF Begin, Executes, Save, SaveOf, hist
  <2>3. /\ i \in DOMAIN records' /\ i \notin DOMAIN ledger
        /\ records'[i].check = call.check /\ records'[i].state = "pending"
        /\ records'[i].origin = call.origin
        /\ \/ i \in DOMAIN records /\ records'[i] = records[i]
           \/ i \notin 1 .. allocated /\ Of(call.origin) = {} /\ records'[i].input = seen
    BY <2>1, <2>2, IdentifiedRecords
  <2>4. i \in DOMAIN ledger'
    BY <2>1 DEF Put
  <2>5. i \notin executed
    BY <2>3 DEF MemoryInv, Remembers
  <2>6. ASSUME NEW e \in open, e[2] = call.check PROVE FALSE
    <3>1. /\ e[1] \in DOMAIN records /\ records[e[1]].check = call.check
          /\ records[e[1]].state # "settled" /\ e[1] \in DOMAIN ledger
      BY <2>6 DEF MemoryInv, Remembers
    <3>2. records[e[1]].origin = call.origin
      BY <2>2, <3>1 DEF Unresolved, Settled
    <3>3. i \in DOMAIN records /\ records[i].origin = call.origin
      BY <2>3, <3>1, <3>2 DEF Of
    <3>4. i = e[1]
      BY <3>1, <3>2, <3>3 DEF MemoryInv, Sound
    <3> QED
      BY <2>3, <3>1, <3>4
  <2> QED
    BY <2>1, <2>2, <2>3, <2>4, <2>5, <2>6
<1>8. CASE Launch
  <2>1. /\ pc = "ready" /\ pc' = "reading"
        /\ open' = open \cup {<<current, call.check>>} /\ executed' = executed \cup {current}
        /\ UNCHANGED <<records, ledger, call, seen, latest, current>>
    BY <1>8 DEF Launch, store
  <2> QED
    BY <2>1
<1>9. CASE Reads
  BY <1>9 DEF Reads, store, hist
<1>10. ASSUME NEW complete \in BOOLEAN, Result(complete) PROVE CheckInv'
  BY <1>10 DEF Result, Over
<1>11. ASSUME NEW next \in {"idle", "over"}, Uncertain(next) PROVE CheckInv'
  BY <1>11 DEF Uncertain, Over, hist
<1>12. ASSUME NEW v \in Ver, NEW r \in BOOLEAN, StartWrite(v, r) PROVE CheckInv'
  <2>1. /\ pc' = "writing" /\ UNCHANGED <<seen, open, executed>>
        /\ latest' \in Nat /\ latest <= latest'
    BY <1>12, <1>a DEF StartWrite
  <2> QED
    BY <2>1, <1>a
<1>13. CASE WriteUnknown \/ WriteReported
  BY <1>13 DEF WriteUnknown, WriteReported, hist
<1>14. CASE NextTurn
  BY <1>14 DEF NextTurn, store, hist
<1>15. CASE OthersWrite
  <2>1. /\ latest' = latest + 1 /\ version' = latest + 1
        /\ UNCHANGED <<records, ledger, saved, pc, call, seen, current, basis, open, executed>>
    BY <1>15 DEF OthersWrite, store, hist
  <2>2. Unresolved(call.check, call.origin)' = Unresolved(call.check, call.origin)
    BY <2>1 DEF Unresolved, Settled
  <2>3. seen # None => seen <= latest'
    BY <2>1, <1>a
  <2>4. pc = "read" => records[current].input # version'
    <3>1. SUFFICES ASSUME pc = "read" PROVE records[current].input # version'
      OBVIOUS
    <3>2. records[current] \in RecordType /\ current \in DOMAIN records
      BY <3>1 DEF MemoryOK, TableOK
    <3>3. records[current].input # None => records[current].input <= latest
      BY <3>2 DEF MemoryInv, Sound
    <3>4. records[current].input \in Ver \cup {None}
      BY <3>2 DEF RecordType
    <3> QED
      BY <2>1, <3>3, <3>4, <1>a
  <2> QED
    BY <2>1, <2>2, <2>3, <2>4
<1>16. CASE Resume
  BY <1>16 DEF Resume, Over
<1>17. CASE UNCHANGED vars
  <2>1. UNCHANGED <<records, ledger, saved, pc, call, seen, current, basis, version, latest, open,
                    executed>>
    BY <1>17 DEF vars, store, hist
  <2>2. Unresolved(call.check, call.origin)' = Unresolved(call.check, call.origin)
    BY <2>1 DEF Unresolved, Settled
  <2> QED
    BY <2>1, <2>2
<1> QED
  BY <1>1, <1>2, <1>3, <1>4, <1>5, <1>6, <1>7, <1>8, <1>9, <1>10, <1>11, <1>12, <1>13,
     <1>14, <1>15, <1>16, <1>17 DEF Next

LEMMA SavedStep ==
  ASSUME TypeInv, EvidenceInv, [Next]_vars
  PROVE  SavedInv'
<1> USE DEF EvidenceInv, TypeInv
<1>1. MemoryInv' /\ VerifiedInv' /\ allocated' \in Nat
  BY MemoryStep, VerifiedStep, MemoryTyping, StoreAssumption DEF MemoryOK
<1>2. ASSUME NEW t, SaveOf(t) PROVE SavedInv'
  <2>1. /\ saved'.records = records' /\ saved'.allocated = allocated' /\ saved'.ledger = ledger'
    BY <1>2 DEF SaveOf
  <2> QED
    BY <1>1, <2>1 DEF MemoryInv, VerifiedInv, SavedInv, Sound, Remembers
<1>3. ASSUME UNCHANGED <<saved, outdated, ledger>>, open' \subseteq open, executed' = executed,
             latest' \in Nat, latest <= latest', Marked' \subseteq Marked \cup SettledIds,
             saved.allocated <= allocated',
             \A i \in DOMAIN records' \cap DOMAIN saved.records :
               records'[i].state = saved.records[i].state
      PROVE  SavedInv'
  <2>1. latest \in Nat /\ \A i \in DOMAIN saved.records : saved.records[i] \in RecordType
    BY DEF WorkOK, SavedOK, TableOK, Ver
  <2>2. \A i \in DOMAIN saved.records :
          saved.records[i].input # None => saved.records[i].input <= latest'
    BY <1>3, <2>1 DEF SavedInv, Sound, RecordType, Ver
  <2> QED
    BY <1>3, <2>2, SettledMarked DEF SavedInv, Sound, Remembers
<1>4. latest' \in Nat /\ latest \in Nat
  BY WorkTyping DEF WorkOK, Ver
<1>s. ASSUME UNCHANGED <<saved, store, ledger, hist>>, latest <= latest' PROVE SavedInv'
  BY <1>s, <1>3, <1>4, MarkedStep DEF store, hist, writes, SavedInv
<1>5. CASE Launch
  <2>1. /\ saved.records = records /\ saved.ledger = ledger
        /\ current \in DOMAIN records /\ current \in DOMAIN ledger
        /\ records[current].check = call.check /\ records[current].state = "pending"
        /\ open' = open \cup {<<current, call.check>>} /\ executed' = executed \cup {current}
        /\ UNCHANGED <<saved, latest, store, ledger, outdated>>
    BY <1>5 DEF Launch, CheckInv, writes, WriteBegins
  <2>2. Marked' \subseteq Marked \cup SettledIds
    BY <1>5, MarkedStep DEF Launch
  <2> QED
    BY <2>1, <2>2, SettledMarked DEF SavedInv, Sound, Remembers, store
<1>6. ASSUME NEW c \in Check, NEW k \in CallId, NEW r \in BOOLEAN,
             CallRefused(c, k) \/ CallCheck(c, k, r)
      PROVE  SavedInv'
  BY <1>2, <1>4, <1>6, <1>s DEF CallRefused, CallCheck, Save
<1>7. CASE Fingerprint \/ NoIdentity \/ Guarded \/ Reads
  BY <1>4, <1>7, <1>s DEF Fingerprint, NoIdentity, Guarded, Reads
<1>8. CASE LogsLost
  <2>1. Keeps(records, records') /\ UNCHANGED <<saved, allocated, ledger, latest, hist>>
    BY <1>8, InvalidatedKeeps DEF LogsLost, MemoryOK
  <2>2. \A i \in DOMAIN records' \cap DOMAIN saved.records :
          records'[i].state = saved.records[i].state
    BY <2>1 DEF Keeps, SavedInv
  <2> QED
    BY <1>3, <1>4, <2>1, <2>2, MarkedStep DEF hist, writes, SavedInv
<1>9. CASE Blocked
  <2>1. PICK i \in Id : Identified(i, records')
    BY <1>9 DEF Blocked
  <2>2. pc = "decide" /\ UNCHANGED <<saved, ledger, latest, hist>>
    BY <1>9 DEF Blocked, Executes
  <2>3. /\ \A j \in DOMAIN records' \ {i} : j \in DOMAIN records /\ records'[j] = records[j]
        /\ (i \in DOMAIN records /\ records'[i] = records[i]) \/ i \notin 1 .. allocated
    BY <2>1, <2>2, IdentifiedRecords
  <2>4. allocated \in Nat /\ saved.allocated \in Nat /\ saved.allocated <= allocated
    BY StoreAssumption DEF MemoryOK, SavedOK, SavedInv
  <2>5. allocated <= allocated'
    BY <2>1, <2>4 DEF Identified
  <2>6. saved.allocated <= allocated'
    BY <1>1, <2>4, <2>5
  <2>7. i \in DOMAIN saved.records => i \in 1 .. allocated
    <3>1. DOMAIN saved.records \subseteq 1 .. saved.allocated
      BY DEF SavedInv, Sound
    <3> QED
      BY <2>4, <3>1
  <2>8. \A j \in DOMAIN records' \cap DOMAIN saved.records :
          records'[j].state = saved.records[j].state
    BY <2>3, <2>7 DEF SavedInv
  <2> QED
    BY <1>3, <1>4, <2>2, <2>6, <2>8, MarkedStep DEF hist, writes
<1>10. CASE Reuse \/ Begin \/ Denied \/ WriteUnknown \/ WriteReported \/ NextTurn
  BY <1>2, <1>10 DEF Reuse, Begin, Denied, WriteUnknown, WriteReported, NextTurn, Save
<1>11. ASSUME NEW complete \in BOOLEAN, NEW next \in {"idle", "over"},
             Result(complete) \/ Uncertain(next)
      PROVE  SavedInv'
  BY <1>2, <1>11 DEF Result, Uncertain, Save
<1>12. ASSUME NEW v \in Ver, NEW r \in BOOLEAN, StartWrite(v, r) PROVE SavedInv'
  <2>1. /\ UNCHANGED <<saved, store, ledger, open, executed, outdated>>
        /\ latest <= latest' /\ Marked' \subseteq Marked \cup SettledIds
    BY <1>4, <1>12, MarkedStep DEF StartWrite, WriteBegins, Ver
  <2> QED
    BY <1>3, <1>4, <2>1 DEF store, SavedInv
<1>13. CASE OthersWrite
  BY <1>4, <1>13, <1>s DEF OthersWrite
<1>14. CASE Resume
  <2>1. /\ UNCHANGED <<saved, open, executed, outdated, latest>> /\ records' = saved.records
        /\ allocated' = saved.allocated /\ ledger' = saved.ledger
    BY <1>14 DEF Resume
  <2>2. Marked' \subseteq Marked
    BY <1>14 DEF Resume, Marked
  <2>3. ledger' = ledger /\ saved.allocated <= allocated'
    BY <1>1, <2>1 DEF SavedInv
  <2> QED
    BY <1>3, <1>4, <2>1, <2>2, <2>3
<1>15. CASE UNCHANGED vars
  BY <1>4, <1>15, <1>s DEF vars
<1> QED
  BY <1>5, <1>6, <1>7, <1>8, <1>9, <1>10, <1>11, <1>12, <1>13, <1>14, <1>15 DEF Next

LEMMA EvidenceInvariance == Spec => [](TypeInv /\ EvidenceInv)
<1>1. Init => EvidenceInv
  <2> SUFFICES ASSUME Init PROVE EvidenceInv
    OBVIOUS
  <2>1. DOMAIN records = {} /\ DOMAIN ledger = {} /\ saved.records = records
        /\ saved.ledger = ledger /\ saved.allocated = allocated /\ allocated = 0 /\ Marked = {}
    BY DEF Init, Marked
  <2>2. MemoryInv /\ SavedInv
    BY <2>1 DEF Init, MemoryInv, SavedInv, Sound, Remembers
  <2>3. CheckInv /\ VerifiedInv
    BY <2>1 DEF Init, CheckInv, VerifiedInv
  <2> QED
    BY <2>2, <2>3 DEF EvidenceInv
<1>2. TypeInv /\ EvidenceInv /\ [Next]_vars => EvidenceInv'
  BY MemoryStep, SavedStep, CheckStep, VerifiedStep DEF EvidenceInv
<1> QED
  BY <1>1, <1>2, TypeInvariance, PTL DEF Spec

-----------------------------------------------------------------------------
(* What is reused, what is run again, what is verified *)

(* An answer given without running the check is of the version the caller     *)
(* asked about, whoever wrote while that check ran.                           *)
THEOREM ReuseIsFreshHolds == Spec => []ReuseIsFresh
<1>1. EvidenceInv => ReuseIsFresh
  BY DEF EvidenceInv, MemoryInv, Sound, ReuseIsFresh, Reusable
<1> QED
  BY <1>1, EvidenceInvariance, PTL

(* Making room, invalidating, crashing and resuming: an execution whose       *)
(* result did not arrive is known, in memory and on disk.                     *)
THEOREM UnresolvedKeptHolds == Spec => []UnresolvedKept
<1>1. EvidenceInv => UnresolvedKept
  BY DEF EvidenceInv, MemoryInv, SavedInv, Remembers, UnresolvedKept
<1> QED
  BY <1>1, EvidenceInvariance, PTL

(* Once a write of the Run has ended and is news to it, no check settled      *)
(* before it is reported as verified, whether the tool returned, failed or    *)
(* timed out and however often the Run is resumed.  Of a write that a crash   *)
(* cut short this is not so (CutShortIsInvalidated).                          *)
THEOREM VerifiedIsCurrentHolds == Spec => []VerifiedIsCurrent
<1>1. EvidenceInv => VerifiedIsCurrent
  BY DEF EvidenceInv, VerifiedInv, VerifiedIsCurrent
<1> QED
  BY <1>1, EvidenceInvariance, PTL

(* No call id, batch, reuse flag or resume gets a check run again while an    *)
(* execution of it is unresolved.                                             *)
THEOREM UnresolvedNotRerunHolds == Spec => UnresolvedNotRerun
<1>1. EvidenceInv /\ [Next]_vars => [Launches => \A e \in open : e[2] # call.check]_vars
  BY DEF EvidenceInv, CheckInv, Launches
<1> QED
  BY <1>1, EvidenceInvariance, PTL DEF Spec, UnresolvedNotRerun

(* No invocation id is executed twice, in one life of the Run or in several.  *)
THEOREM OneIdentityHolds == Spec => OneIdentity
<1>1. EvidenceInv /\ [Next]_vars => [Launches => current \notin executed]_vars
  BY DEF EvidenceInv, CheckInv, Launches
<1> QED
  BY <1>1, EvidenceInvariance, PTL DEF Spec, OneIdentity
=============================================================================
