------------------------ MODULE SessionContextProofs ------------------------
(***************************************************************************)
(* Theorems about SessionContext, for every window, policy and number of   *)
(* Runs.  What a Run holds in memory and what its checkpoint holds obey    *)
(* the same conditions (Held), so each action is a matter of what it makes *)
(* of them.                                                                *)
(***************************************************************************)
EXTENDS SessionContext, TLAPS, SequenceTheorems, WellFoundedInduction

(* A transcript somebody asked something in. *)
HasUser(s) == \E i \in DOMAIN s : s[i].role = "user"

(* What is held of a Run, in memory or in its checkpoint. *)
Held(m, s, o) ==
  /\ m \in Memories /\ s \in Seq(Msg) /\ o \in SUBSET Kind
  /\ Aligned(m, s) /\ HasUser(s) /\ o \subseteq m.pending

Resting ==
  /\ phase = "boundary" /\ messages = <<>> /\ memory = Fresh /\ owed = {}
  /\ request.shown = {}

Inv ==
  /\ TypeOK
  /\ live # 0 => Held(memory, messages, owed)
  /\ live = 0 => Resting
  /\ \A r \in Run :
       file[r] = NoFile \/ Held(file[r].memory, file[r].messages, file[r].owed)
  /\ phase = "asked" => owed \subseteq request.shown

-----------------------------------------------------------------------------
(* Least and greatest members *)

(* A set of natural numbers that is not empty has a least one. *)
LEMMA HasLeast ==
  ASSUME NEW S \in SUBSET Nat, S # {}
  PROVE  Least(S) \in S /\ \A m \in S : Least(S) <= m
<1>. DEFINE Q == OpToRel(<, Nat)
<1>1. IsWellFoundedOn(Q, Nat)
  BY NatLessThanWellFounded
<1>2. \A a, b \in Nat : a < b => <<a, b>> \in Q
  BY DEF OpToRel
<1>. HIDE DEF Q
<1>3. PICK x \in S : \A y \in S : ~(<<y, x>> \in Q)
  BY <1>1, WFMin
<1>4. \A y \in S : ~(y < x)
  BY <1>2, <1>3
<1>5. \A y \in S : x <= y
  BY <1>4
<1>. QED
  BY <1>5 DEF Least

(* A bounded one has a greatest member. *)
LEMMA HasGreatest ==
  ASSUME NEW n \in Nat, NEW S \in SUBSET (0 .. n), S # {}
  PROVE  Greatest(S) \in S /\ \A m \in S : m <= Greatest(S)
<1>. DEFINE T == {n - x : x \in S}
<1>1. T \in SUBSET Nat /\ T # {}
  <2>1. \A x \in S : n - x \in Nat
    OBVIOUS
  <2>2. PICK x \in S : TRUE
    OBVIOUS
  <2>3. n - x \in T
    BY <2>2
  <2>. QED
    BY <2>1, <2>3
<1>. HIDE DEF T
<1>2. Least(T) \in T /\ \A m \in T : Least(T) <= m
  BY <1>1, HasLeast
<1>3. PICK x \in S : Least(T) = n - x
  BY <1>2 DEF T
<1>4. \A y \in S : n - y \in T
  BY DEF T
<1>5. \A y \in S : x >= y
  BY <1>2, <1>3, <1>4
<1>. QED
  BY <1>5 DEF Greatest

(* Of two numbers Least takes the smaller. *)
LEMMA LeastOfTwo ==
  ASSUME NEW a \in Nat, NEW b \in Nat
  PROVE  Least({a, b}) = IF a <= b THEN a ELSE b
<1>1. Least({a, b}) \in {a, b} /\ \A m \in {a, b} : Least({a, b}) <= m
  BY HasLeast
<1>. QED
  BY <1>1

(* LastUser: the last position of a user message, 0 if there is none. *)
LEMMA LastUserIsLast ==
  ASSUME NEW s \in Seq(Msg)
  PROVE  /\ LastUser(s) \in 0 .. Len(s)
         /\ \A i \in DOMAIN s : s[i].role = "user" => i <= LastUser(s)
         /\ LastUser(s) # 0 => s[LastUser(s)].role = "user"
<1>. DEFINE S == {0} \cup Positions(s, "user")
<1>1. S \in SUBSET (0 .. Len(s)) /\ S # {} /\ Len(s) \in Nat
  BY DEF Positions
<1>. HIDE DEF S
<1>2. Greatest(S) \in S /\ \A m \in S : m <= Greatest(S)
  BY <1>1, HasGreatest
<1>. QED
  BY <1>1, <1>2 DEF LastUser, S, Positions

-----------------------------------------------------------------------------
(* What is hidden *)

(* The end of a sequence. *)
LEMMA FromIsEnd ==
  ASSUME NEW s \in Seq(Msg), NEW k \in 1 .. Len(s) + 1
  PROVE  /\ From(s, k) \in Seq(Msg)
         /\ Len(From(s, k)) = Len(s) - k + 1
         /\ \A i \in 1 .. Len(s) - k + 1 : From(s, k)[i] = s[k + i - 1]
<1>1. \A i \in k .. Len(s) : s[i] \in Msg
  BY ElementOfSeq
<1>2. k \in Int /\ Len(s) \in Int /\ (k <= Len(s) \/ Len(s) - k + 1 = 0)
  OBVIOUS
<1>3. /\ SubSeq(s, k, Len(s)) \in Seq(Msg)
      /\ Len(SubSeq(s, k, Len(s))) = IF k <= Len(s) THEN Len(s) - k + 1 ELSE 0
      /\ \A i \in 1 .. Len(s) - k + 1 : SubSeq(s, k, Len(s))[i] = s[k + i - 1]
  BY <1>1, <1>2, SubSeqProperties
<1>. QED
  BY <1>2, <1>3 DEF From

(* buildModelView hides what the count says if the count is aligned. *)
LEMMA HiddenIsCounted ==
  ASSUME NEW m \in Memories, NEW s \in Seq(Msg), Aligned(m, s)
  PROVE  HiddenCount(s, m.count) = m.count /\ m.count <= Len(s)
<1>1. LastUser(s) \in Nat /\ \A i \in DOMAIN s : s[i].role = "user" => i <= LastUser(s)
  BY LastUserIsLast
<1>2. m.count \in Nat
  BY DEF Memories
<1>3. CASE m.count = 0
  <2>. DEFINE b == IF LastUser(s) = 0 THEN 0 ELSE LastUser(s) - 1
  <2>1. b \in Nat
    BY <1>1
  <2>. QED
    BY <1>3, <2>1, LeastOfTwo DEF HiddenCount
<1>4. CASE m.count # 0
  <2>1. m.count + 1 \in DOMAIN s /\ s[m.count + 1].role = "user" /\ m.count <= Len(s)
    BY <1>2, <1>4 DEF Aligned
  <2>2. LastUser(s) >= m.count + 1
    BY <1>1, <2>1
  <2>. QED
    BY <1>1, <1>2, <2>1, <2>2, LeastOfTwo DEF HiddenCount
<1>. QED
  BY <1>3, <1>4

(* projectToolResults changes neither the length of a view nor its roles. *)
LEMMA RelievedKeepsRoles ==
  ASSUME NEW s \in Seq(Msg)
  PROVE  /\ Relieved(s) \in Seq(Msg) /\ Len(Relieved(s)) = Len(s)
         /\ \A i \in 1 .. Len(s) : Relieved(s)[i].role = s[i].role
<1>1. ASSUME NEW i \in 1 .. Len(s)
      PROVE  /\ [s[i] EXCEPT !.tokens = Least({@, ProjectedTokens})] \in Msg
             /\ [s[i] EXCEPT !.tokens = Least({@, ProjectedTokens})].role = s[i].role
  <2>1. s[i] \in Msg
    BY ElementOfSeq
  <2>2. s[i].tokens \in Nat
    BY <2>1 DEF Msg
  <2>3. Least({s[i].tokens, ProjectedTokens}) \in Nat
    BY <2>2, LeastOfTwo, WindowAssumption
  <2>. QED
    BY <2>1, <2>3 DEF Msg
<1>. DEFINE boundary == quantizeBoundary(s, desiredBoundary(s))
<1>2. Projected(s) = [i \in 1 .. Len(s) |->
        IF s[i].role = "tool" /\ i < boundary
        THEN [s[i] EXCEPT !.tokens = Least({@, ProjectedTokens})] ELSE s[i]]
  BY DEF Projected
<1>. HIDE DEF boundary
<1>3. /\ Projected(s) \in [1 .. Len(s) -> Msg]
      /\ \A i \in 1 .. Len(s) : Projected(s)[i].role = s[i].role
  <2>1. \A i \in 1 .. Len(s) : s[i] \in Msg
    BY ElementOfSeq
  <2>. QED
    BY <1>1, <1>2, <2>1
<1>4. Projected(s) \in Seq(Msg) /\ Len(Projected(s)) = Len(s)
  BY <1>3
<1>. QED
  BY <1>3, <1>4 DEF Relieved

(* trimMessages keeps an end of the view that begins with a turn. *)
LEMMA KeptTurnsAreTurns ==
  ASSUME NEW v \in Seq(Msg), HasUser(v), NEW target
  PROVE  \E k \in 1 .. Len(v) :
           KeptTurns(v, target) = From(v, k) /\ (k = 1 \/ v[k].role = "user")
<1>1. LastUser(v) \in 1 .. Len(v) /\ v[LastUser(v)].role = "user"
  BY LastUserIsLast DEF HasUser
<1>. DEFINE starts  == {1} \cup Positions(v, "user")
            fitting == {i \in starts : (LastUser(v) = 0 \/ i <= LastUser(v))
                                       /\ Fits(From(v, i), target)}
<1>2. starts \subseteq 1 .. Len(v) /\ \A i \in starts : i = 1 \/ v[i].role = "user"
  BY <1>1 DEF Positions
<1>3. fitting \in SUBSET Nat /\ fitting \subseteq starts
  BY <1>2
<1>4. KeptTurns(v, target) = IF fitting # {} THEN From(v, Least(fitting))
                             ELSE IF LastUser(v) > 0 THEN From(v, LastUser(v)) ELSE <<>>
  BY DEF KeptTurns
<1>. HIDE DEF starts, fitting
<1>5. CASE fitting # {}
  <2>1. Least(fitting) \in fitting
    BY <1>3, <1>5, HasLeast
  <2>2. KeptTurns(v, target) = From(v, Least(fitting))
    BY <1>4, <1>5
  <2>. QED
    BY <1>2, <1>3, <2>1, <2>2
<1>6. CASE fitting = {}
  BY <1>1, <1>4, <1>6
<1>. QED
  BY <1>5, <1>6

(* A transcript that goes on, its summary still stands for its beginning. *)
LEMMA AlignedExtends ==
  ASSUME NEW m \in Memories, NEW s \in Seq(Msg), NEW t \in Seq(Msg), Aligned(m, s)
  PROVE  Aligned(m, s \o t)
<1>1. m.count \in Nat /\ m.count <= Len(s)
  BY HiddenIsCounted DEF Memories
<1>2. /\ s \o t \in Seq(Msg) /\ Len(s \o t) = Len(s) + Len(t)
      /\ \A i \in 1 .. Len(s) : (s \o t)[i] = s[i]
  BY ConcatProperties
<1>3. SubSeq(s \o t, 1, m.count) = SubSeq(s, 1, m.count)
  <2>1. CASE m.count = 0
    BY <2>1, SubSeqEmpty
  <2>2. CASE m.count # 0
    BY <1>1, <2>2, SubSeqOfConcat1
  <2>. QED
    BY <2>1, <2>2
<1>4. m.count > 0 => m.count < Len(s \o t) /\ (s \o t)[m.count + 1].role = "user"
  BY <1>1, <1>2 DEF Aligned
<1>. QED
  BY <1>3, <1>4 DEF Aligned

(* No summary stands for nothing. *)
LEMMA FreshAligned ==
  ASSUME NEW s \in Seq(Msg)
  PROVE  Fresh \in Memories /\ Aligned(Fresh, s)
<1>1. SubSeq(s, 1, 0) = <<>>
  BY SubSeqEmpty
<1>2. <<>> \in Seq(Msg)
  BY EmptySeq
<1>. QED
  BY <1>1, <1>2 DEF Fresh, Aligned, Memories

(* compactConversation: the summary stands for what the count hides, and both end *)
(* before a user message.                                                          *)
LEMMA CompactedAligned ==
  ASSUME NEW m \in Memories, NEW s \in Seq(Msg), Aligned(m, s), HasUser(s), NEW target
  PROVE  /\ Compacted(s, m, target) \in Memories
         /\ Compacted(s, m, target).pending = m.pending
         /\ Aligned(Compacted(s, m, target), s)
<1>. DEFINE c == m.count
            v == Relieved(View(s, c))
            removed == Removable(s, c, target)
<1>1. c \in Nat /\ HiddenCount(s, c) = c /\ c <= Len(s)
  BY HiddenIsCounted DEF Memories
<1>2. c > 0 => c < Len(s) /\ s[c + 1].role = "user"
  BY DEF Aligned
<1>3. /\ View(s, c) \in Seq(Msg) /\ Len(View(s, c)) = Len(s) - c
      /\ \A i \in 1 .. Len(s) - c : View(s, c)[i] = s[c + i]
  <2>1. View(s, c) = From(s, c + 1)
    BY <1>1 DEF View
  <2>2. c + 1 \in 1 .. Len(s) + 1 /\ Len(s) - (c + 1) + 1 = Len(s) - c
    BY <1>1
  <2>3. /\ From(s, c + 1) \in Seq(Msg) /\ Len(From(s, c + 1)) = Len(s) - (c + 1) + 1
        /\ \A i \in 1 .. Len(s) - (c + 1) + 1 : From(s, c + 1)[i] = s[c + 1 + i - 1]
    BY <2>2, FromIsEnd
  <2>4. ASSUME NEW i \in 1 .. Len(s) - c
        PROVE  From(s, c + 1)[i] = s[c + i]
    <3>1. c + 1 + i - 1 = c + i
      BY <1>1
    <3>. QED
      BY <2>2, <2>3, <3>1
  <2>. QED
    BY <2>1, <2>2, <2>3, <2>4
<1>4. /\ v \in Seq(Msg) /\ Len(v) = Len(s) - c
      /\ \A i \in 1 .. Len(s) - c : v[i].role = s[c + i].role
  BY <1>3, RelievedKeepsRoles
<1>. HIDE DEF v
<1>5. HasUser(v)
  <2>1. PICK i \in 1 .. Len(s) : s[i].role = "user"
    BY DEF HasUser
  <2>2. CASE c = 0
    BY <1>4, <2>1, <2>2 DEF HasUser
  <2>3. CASE c > 0
    <3>1. 1 \in 1 .. Len(s) - c
      BY <1>1, <1>2, <2>3
    <3>2. 1 \in DOMAIN v /\ v[1].role = "user"
      BY <1>2, <1>4, <2>3, <3>1
    <3>. QED
      BY <3>2 DEF HasUser
  <2>. QED
    BY <1>1, <2>2, <2>3
<1>6. PICK k \in 1 .. Len(v) :
        KeptTurns(v, target) = From(v, k) /\ (k = 1 \/ v[k].role = "user")
  BY <1>4, <1>5, KeptTurnsAreTurns
<1>7. removed = k - 1
  <2>1. Len(From(v, k)) = Len(v) - k + 1
    <3>1. k \in 1 .. Len(v) + 1 /\ v \in Seq(Msg)
      BY <1>4, <1>6
    <3>. QED
      BY <3>1, FromIsEnd
  <2>2. removed = Len(v) - Len(KeptTurns(v, target))
    BY DEF Removable, v
  <2>. QED
    BY <1>4, <1>6, <2>1, <2>2
<1>. HIDE DEF c, removed
<1>8. Compacted(s, m, target)
        = [m EXCEPT !.count = c + removed, !.covers = @ \o SubSeq(s, c + 1, c + removed)]
  BY <1>1 DEF Compacted, removed, c
<1>9. /\ c + removed \in Nat /\ c + removed < Len(s)
      /\ c + removed > 0 => s[c + removed + 1].role = "user"
  <2>1. c + removed + 1 = c + k /\ k <= Len(s) - c
    BY <1>1, <1>4, <1>6, <1>7
  <2>2. CASE k = 1
    BY <1>1, <1>2, <1>7, <2>1, <2>2
  <2>3. CASE k # 1
    BY <1>1, <1>4, <1>6, <1>7, <2>1, <2>3
  <2>. QED
    BY <2>2, <2>3
<1>10. /\ m.covers \o SubSeq(s, c + 1, c + removed) = SubSeq(s, 1, c + removed)
       /\ SubSeq(s, 1, c + removed) \in Seq(Msg)
  <2>1. m.covers = SubSeq(s, 1, c)
    BY DEF Aligned, c
  <2>2. SubSeq(s, 1, c) \o SubSeq(s, c + 1, c + removed) = SubSeq(s, 1, c + removed)
    <3>1. /\ s \in Seq(Msg) /\ 1 \in 1 .. Len(s) + 1
          /\ c \in 1 - 1 .. Len(s) /\ c + removed \in c .. Len(s)
      BY <1>1, <1>6, <1>7, <1>9
    <3>. QED
      BY <3>1, ConcatAdjacentSubSeq
  <2>3. \A i \in 1 .. c + removed : s[i] \in Msg
    BY <1>9, ElementOfSeq
  <2>4. SubSeq(s, 1, c + removed) \in Seq(Msg)
    BY <1>9, <2>3, SubSeqProperties
  <2>. QED
    BY <2>1, <2>2, <2>4
<1>. QED
  BY <1>8, <1>9, <1>10 DEF Memories, Aligned

-----------------------------------------------------------------------------
(* What a new Run inherits *)

Bequest(x) ==
  /\ x \in [messages : Seq(Msg), untold : Seq(Msg), memory : Memories]
  /\ Aligned(x.memory, x.messages)

(* The recursive definition of Inherited has a solution. *)
LEMMA InheritedDefined ==
  ASSUME MaxRuns \in Nat
  PROVE  Inherited = [r \in 0 .. MaxRuns |->
                        IF r = 0 THEN Nothing ELSE Told(Inherited[r - 1], r)]
<1>. DEFINE Solves(f, n) ==
       f = [r \in 0 .. n |-> IF r = 0 THEN Nothing ELSE Told(f[r - 1], r)]
<1>. DEFINE Unsolved == {n \in Nat : ~\E f : Solves(f, n)}
<1>1. Unsolved = {}
  <2>1. SUFFICES ASSUME Unsolved # {} PROVE FALSE
    OBVIOUS
  <2>2. PICK n \in Unsolved : \A m \in Unsolved : n <= m
    BY <2>1, HasLeast
  <2>3. n # 0
    <3>1. Solves([r \in 0 .. 0 |-> Nothing], 0)
      OBVIOUS
    <3>. QED
      BY <2>2, <3>1
  <2>4. PICK f : Solves(f, n - 1)
    BY <2>2, <2>3
  <2>. DEFINE g == [r \in 0 .. n |-> IF r = n THEN Told(f[n - 1], n) ELSE f[r]]
  <2>5. \A r \in 0 .. n : g[r] = IF r = 0 THEN Nothing ELSE Told(g[r - 1], r)
    <3>1. TAKE r \in 0 .. n
    <3>2. CASE r = n
      BY <2>2, <2>3, <3>2
    <3>3. CASE r # n
      <4>1. r \in 0 .. n - 1 /\ g[r] = f[r] /\ (r # 0 => g[r - 1] = f[r - 1])
        BY <2>2, <3>3
      <4>2. f[r] = IF r = 0 THEN Nothing ELSE Told(f[r - 1], r)
        BY <2>4, <4>1
      <4>. QED
        BY <4>1, <4>2
    <3>. QED
      BY <3>2, <3>3
  <2>6. Solves(g, n)
    BY <2>5
  <2>. QED
    BY <2>2, <2>6
<1>2. \E f : Solves(f, MaxRuns)
  BY <1>1
<1>. QED
  BY <1>2 DEF Inherited

(* The task and the result of a Run are messages. *)
LEMMA PairTyped ==
  ASSUME NEW r \in Run
  PROVE  Pair(r) \in Seq(Msg)
<1>1. Run \subseteq Nat
  BY DEF Run
<1>. QED
  BY <1>1 DEF Pair, Msg

(* conversationHistory, one more Run. *)
LEMMA ToldBequeaths ==
  ASSUME Inv, NEW x, Bequest(x), NEW r \in Run
  PROVE  Bequest(Told(x, r))
<1>1. Pair(r) \in Seq(Msg) /\ <<>> \in Seq(Msg)
  BY PairTyped, EmptySeq
<1>2. /\ x.messages \in Seq(Msg) /\ x.untold \in Seq(Msg) /\ x.memory \in Memories
      /\ Aligned(x.memory, x.messages)
  BY DEF Bequest
<1>3. CASE status[r] # "ended"
  BY <1>3 DEF Told
<1>4. CASE status[r] = "ended" /\ r \in apart
  <2>1. x.messages \o Pair(r) \in Seq(Msg)
    BY <1>1, <1>2, ConcatProperties
  <2>2. Fresh \in Memories /\ Aligned(Fresh, x.messages \o Pair(r))
    BY <2>1, FreshAligned
  <2>3. Told(x, r) = [messages |-> x.messages \o Pair(r), untold |-> <<>>, memory |-> Fresh]
    BY <1>4 DEF Told
  <2>. QED
    BY <1>1, <2>1, <2>2, <2>3 DEF Bequest
<1>5. CASE status[r] = "ended" /\ r \notin apart /\ file[r] # NoFile
  <2>1. Held(file[r].memory, file[r].messages, file[r].owed)
    BY <1>5 DEF Inv
  <2>2. Told(x, r) = [messages |-> file[r].messages, untold |-> <<>>, memory |-> file[r].memory]
    BY <1>5 DEF Told
  <2>. QED
    BY <1>1, <2>1, <2>2 DEF Bequest, Held
<1>6. CASE status[r] = "ended" /\ r \notin apart /\ file[r] = NoFile
  <2>1. Told(x, r) = [x EXCEPT !.untold = @ \o Pair(r)]
    BY <1>6 DEF Told
  <2>2. x.untold \o Pair(r) \in Seq(Msg)
    BY <1>1, <1>2, ConcatProperties
  <2>. QED
    BY <2>1, <2>2 DEF Bequest
<1>. QED
  BY <1>3, <1>4, <1>5, <1>6

(* The transcript and the summary a new Run begins with fit each other. *)
LEMMA ConversationAligned ==
  ASSUME Inv
  PROVE  /\ Conversation \in Seq(Msg) /\ ConversationMemory \in Memories
         /\ Aligned(ConversationMemory, Conversation)
<1>1. MaxRuns \in Nat
  BY SessionAssumption
<1>2. \A r \in 0 .. MaxRuns :
        Inherited[r] = IF r = 0 THEN Nothing ELSE Told(Inherited[r - 1], r)
  BY <1>1, InheritedDefined
<1>. DEFINE Failing == {r \in 0 .. MaxRuns : ~Bequest(Inherited[r])}
<1>3. Failing = {}
  <2>1. SUFFICES ASSUME Failing # {} PROVE FALSE
    OBVIOUS
  <2>2. Failing \in SUBSET Nat
    OBVIOUS
  <2>3. PICK r \in Failing : \A q \in Failing : r <= q
    BY <2>1, <2>2, HasLeast
  <2>4. CASE r = 0
    <3>1. <<>> \in Seq(Msg)
      BY EmptySeq
    <3>2. Bequest(Nothing)
      BY <3>1, FreshAligned DEF Bequest, Nothing
    <3>. QED
      BY <1>2, <2>3, <2>4, <3>2
  <2>5. CASE r # 0
    <3>1. r - 1 \in 0 .. MaxRuns /\ r - 1 \notin Failing /\ r \in Run
      BY <2>3, <2>5, <1>1 DEF Run
    <3>2. Bequest(Told(Inherited[r - 1], r))
      BY <3>1, ToldBequeaths
    <3>. QED
      BY <1>2, <2>3, <2>5, <3>2
  <2>. QED
    BY <2>4, <2>5
<1>4. Bequest(Inherited[MaxRuns])
  BY <1>1, <1>3
<1>. QED
  BY <1>4, AlignedExtends, ConcatProperties
     DEF Conversation, ConversationMemory, Bequest

-----------------------------------------------------------------------------
(* The invariant *)

(* A fresh checkpoint file is of the right shape. *)
LEMMA NoFileTyped == NoFile \in Files
<1>1. <<>> \in Seq(Msg)
  BY EmptySeq
<1>. QED
  BY <1>1 DEF NoFile, Files, Memories, Fresh

(* The initial state: nothing is held. *)
LEMMA InitInv ==
  ASSUME Init
  PROVE  Inv
<1>1. <<>> \in Seq(Msg) /\ Fresh \in Memories
  BY FreshAligned, EmptySeq
<1>2. TypeOK
  BY <1>1, NoFileTyped, SessionAssumption DEF Init, TypeOK, NoRequest
<1>. QED
  BY <1>2 DEF Init, Inv, Resting, NoRequest

(* save: the checkpoint of the Run that executes holds what it is given. *)
LEMMA SavedHeld ==
  ASSUME Inv, live # 0, NEW m, NEW s, NEW o, Held(m, s, o), Saved(m, s, o)
  PROVE  /\ file' \in [Run -> Files]
         /\ \A r \in Run :
              file'[r] = NoFile \/ Held(file'[r].memory, file'[r].messages, file'[r].owed)
<1>1. live \in Run /\ file \in [Run -> Files]
  BY DEF Inv, TypeOK
<1>2. [messages |-> s, memory |-> m, owed |-> o] \in Files
  BY DEF Held, Files
<1>3. \A r \in Run : file'[r] = IF r = live THEN [messages |-> s, memory |-> m, owed |-> o]
                                ELSE file[r]
  BY <1>1 DEF Saved
<1>. QED
  BY <1>1, <1>2, <1>3 DEF Saved, Inv

(* Finish: the checkpoint holds what the Run ends with, memory nothing. *)
LEMMA FinishInv ==
  ASSUME Inv, live # 0, NEW m, NEW s, NEW o, Held(m, s, o), Finish(m, s, o)
  PROVE  Inv'
<1>1. /\ file' \in [Run -> Files]
      /\ \A r \in Run :
           file'[r] = NoFile \/ Held(file'[r].memory, file'[r].messages, file'[r].owed)
  BY SavedHeld DEF Finish
<1>2. <<>> \in Seq(Msg) /\ Fresh \in Memories
  BY FreshAligned, EmptySeq
<1>3. TypeOK'
  BY <1>1, <1>2 DEF Inv, TypeOK, Finish, Dismissed, NoRequest
<1>. QED
  BY <1>1, <1>3 DEF Inv, Finish, Dismissed, Resting, NoRequest

(* A message more: the summary still stands for the beginning. *)
LEMMA AppendHeld ==
  ASSUME NEW m, NEW s, NEW o, Held(m, s, o), NEW x \in Msg
  PROVE  Held(m, Append(s, x), o)
<1>1. /\ Append(s, x) \in Seq(Msg) /\ Len(Append(s, x)) = Len(s) + 1
      /\ \A i \in 1 .. Len(s) : Append(s, x)[i] = s[i]
  BY AppendProperties DEF Held
<1>2. Append(s, x) = s \o <<x>> /\ <<x>> \in Seq(Msg)
  BY AppendIsConcat DEF Held
<1>3. Aligned(m, Append(s, x))
  BY <1>2, AlignedExtends DEF Held
<1>4. HasUser(Append(s, x))
  BY <1>1 DEF HasUser, Held
<1>. QED
  BY <1>1, <1>3, <1>4 DEF Held

(* Reminders do not touch the summary. *)
LEMMA RemindedHeld ==
  ASSUME NEW m, NEW s, NEW o, Held(m, s, o), NEW raised \in SUBSET Kind
  PROVE  Held(Reminded(m, raised), s, o \cup raised)
  BY DEF Held, Reminded, Memories, Aligned

(* acknowledge: what the answered request carried is owed no longer. *)
LEMMA AnsweredHeld ==
  ASSUME Inv, phase = "asked", NEW raised \in SUBSET Kind
  PROVE  Held(Reminded(Acknowledged, raised), messages, (owed \ request.shown) \cup raised)
<1>1. live # 0 /\ Held(memory, messages, owed)
  BY DEF Inv, Resting
<1>2. owed \ request.shown = {}
  BY DEF Inv
<1>. QED
  BY <1>1, <1>2 DEF Held, Reminded, Acknowledged, Memories, Aligned

(* prepareTurn: summarised or not, summary and transcript fit each other. *)
LEMMA PreparedHeld ==
  ASSUME Inv, NEW summarised \in BOOLEAN, NEW raised \in SUBSET Kind,
         MayPrepare(summarised, raised)
  PROVE  Held(MemoryAfter(summarised, raised), messages, owed \cup raised)
<1>1. Held(memory, messages, owed)
  BY DEF Inv, MayPrepare
<1>2. memory \in Memories /\ messages \in Seq(Msg) /\ HasUser(messages)
      /\ Aligned(memory, messages)
  BY <1>1 DEF Held
<1>3. CASE summarised
  <2>1. Held(Compacted(messages, memory, Retain), messages, owed)
    BY <1>1, <1>2, CompactedAligned DEF Held
  <2>. QED
    BY <1>3, <2>1, RemindedHeld DEF MemoryAfter
<1>4. CASE ~summarised
  <2>1. HiddenCount(messages, memory.count) = memory.count
    BY <1>2, HiddenIsCounted
  <2>2. [memory EXCEPT !.count = HiddenCount(messages, @)] = memory
    BY <1>2, <2>1 DEF Memories
  <2>. QED
    BY <1>1, <1>4, <2>2, RemindedHeld DEF MemoryAfter
<1>. QED
  BY <1>3, <1>4

(* A message of the Run that executes. *)
LEMMA MessageTyped ==
  ASSUME Inv, live # 0, NEW role \in {"user", "assistant", "tool"}, NEW tokens \in Nat
  PROVE  Message(role, tokens) \in Msg
  BY DEF Inv, TypeOK, Message, Msg

(* Every step that leaves the Run executing comes down to what it makes of what is *)
(* held, saved or not.                                                              *)
LEMMA GoesOn ==
  ASSUME Inv, live' = live, live # 0, NEW m, NEW s, NEW o, Held(m, s, o),
         memory' = m, messages' = s, owed' = o, UNCHANGED <<status, apart, resumes>>,
         file' = file \/ Saved(m, s, o),
         phase' \in {"boundary", "asked", "working", "worked"},
         request'.shown \subseteq Kind, phase' = "asked" => o \subseteq request'.shown
  PROVE  Inv'
<1>1. /\ file' \in [Run -> Files]
      /\ \A r \in Run :
           file'[r] = NoFile \/ Held(file'[r].memory, file'[r].messages, file'[r].owed)
  <2>1. CASE file' = file
    BY <2>1 DEF Inv, TypeOK
  <2>2. CASE Saved(m, s, o)
    BY <2>2, SavedHeld
  <2>. QED
    BY <2>1, <2>2
<1>2. TypeOK'
  BY <1>1 DEF Inv, TypeOK, Held
<1>. QED
  BY <1>1, <1>2 DEF Inv

(* Nothing executes and nothing is written. *)
LEMMA Rests ==
  ASSUME Inv, Dismissed, UNCHANGED <<apart, file, resumes>>,
         status' \in [Run -> {"none", "running", "interrupted", "ended"}]
  PROVE  Inv'
<1>1. <<>> \in Seq(Msg) /\ Fresh \in Memories
  BY FreshAligned, EmptySeq
<1>2. TypeOK'
  BY <1>1 DEF Inv, TypeOK, Dismissed, NoRequest
<1>. QED
  BY <1>2 DEF Inv, Dismissed, Resting, NoRequest

(* A new Run begins with what it inherits and its task. *)
LEMMA CreateRunInv ==
  ASSUME Inv, NEW r \in Run, CreateRun(r)
  PROVE  Inv'
<1>. DEFINE task == [role |-> "user", tokens |-> 1, run |-> r]
            m == [ConversationMemory EXCEPT !.pending = {}]
<1>1. /\ Conversation \in Seq(Msg) /\ ConversationMemory \in Memories
      /\ Aligned(ConversationMemory, Conversation)
  BY ConversationAligned
<1>2. task \in Msg
  BY DEF Msg
<1>3. /\ Append(Conversation, task) \in Seq(Msg)
      /\ Append(Conversation, task) = Conversation \o <<task>> /\ <<task>> \in Seq(Msg)
  BY <1>1, <1>2, AppendProperties, AppendIsConcat
<1>4. HasUser(Append(Conversation, task))
  <2>1. /\ Len(Append(Conversation, task)) = Len(Conversation) + 1
        /\ Append(Conversation, task)[Len(Conversation) + 1] = task
    BY <1>1, <1>2, AppendProperties
  <2>. QED
    BY <1>1, <1>3, <2>1 DEF HasUser
<1>. HIDE DEF task
<1>5. m \in Memories /\ m.pending = {} /\ m.count = ConversationMemory.count
      /\ m.covers = ConversationMemory.covers
  BY <1>1 DEF Memories
<1>6. Aligned(m, Append(Conversation, task))
  <2>1. Aligned(ConversationMemory, Append(Conversation, task))
    BY <1>1, <1>3, AlignedExtends
  <2>. HIDE DEF m
  <2>. QED
    BY <1>5, <2>1 DEF Aligned
<1>7. Held(m, Append(Conversation, task), {})
  BY <1>3, <1>4, <1>5, <1>6 DEF Held
<1>8. /\ messages' = Append(Conversation, task) /\ memory' = m /\ owed' = {}
      /\ live' = r /\ live' # 0 /\ phase' = "boundary"
  BY DEF CreateRun, Inv, Resting, task, Run
<1>. HIDE DEF m
<1>9. TypeOK'
  BY <1>5, <1>3, <1>8 DEF Inv, TypeOK, CreateRun
<1>. QED
  BY <1>7, <1>8, <1>9 DEF Inv, CreateRun

(* A resumed Run has back what its checkpoint holds. *)
LEMMA ResumeInv ==
  ASSUME Inv, NEW r \in Run, Resume(r)
  PROVE  Inv'
<1>1. Held(file[r].memory, file[r].messages, file[r].owed)
  BY DEF Inv, Resume
<1>2. phase' = "boundary" /\ live' # 0
  BY DEF Inv, Resting, Resume, Run
<1>3. TypeOK'
  BY <1>1, SessionAssumption DEF Inv, TypeOK, Resume, Held
<1>. QED
  BY <1>1, <1>2, <1>3 DEF Inv, Resume

(* A turn is sent with a summary and reminders that fit the transcript. *)
LEMMA SendInv ==
  ASSUME Inv, Send
  PROVE  Inv'
<1>1. PICK summarised \in BOOLEAN, raised \in SUBSET Kind :
        /\ MayPrepare(summarised, raised)
        /\ memory' = MemoryAfter(summarised, raised) /\ owed' = owed \cup raised
        /\ file' = file \/ Saved(MemoryAfter(summarised, raised), messages, owed')
        /\ phase' = "asked" /\ request'.shown = MemoryAfter(summarised, raised).pending
        /\ UNCHANGED <<status, apart, live, messages, resumes>>
  BY DEF Send
<1>2. Held(MemoryAfter(summarised, raised), messages, owed \cup raised)
  BY <1>1, PreparedHeld
<1>3. MemoryAfter(summarised, raised).pending \subseteq Kind
  BY <1>2 DEF Held, Memories
<1>. QED
  BY <1>1, <1>2, <1>3, GoesOn DEF MayPrepare, Held

(* A Run that is refused ends with what it had prepared. *)
LEMMA RefuseInv ==
  ASSUME Inv, Refuse
  PROVE  Inv'
  BY PreparedHeld, FinishInv DEF Refuse, MayPrepare

(* Tool calls: the reminders that were shown are done with. *)
LEMMA AnswerToolInv ==
  ASSUME Inv, AnswerTool
  PROVE  Inv'
<1>1. PICK raised \in SUBSET Kind :
        /\ phase = "asked" /\ messages' = Append(messages, Message("assistant", 1))
        /\ Answered(raised) /\ (file' = file \/ Saved(memory', messages', owed'))
        /\ phase' = "working" /\ request' = NoRequest
        /\ UNCHANGED <<status, apart, live, resumes>>
  BY DEF AnswerTool
<1>2. live # 0 /\ Message("assistant", 1) \in Msg
  BY <1>1, MessageTyped DEF Inv, Resting
<1>3. Held(memory', messages', owed')
  BY <1>1, <1>2, AnsweredHeld, AppendHeld DEF Answered
<1>. QED
  BY <1>1, <1>2, <1>3, GoesOn DEF NoRequest

(* An answer and a message in the user's place. *)
LEMMA AnswerNudgedInv ==
  ASSUME Inv, AnswerNudged
  PROVE  Inv'
<1>. DEFINE a == Message("assistant", 1)
            u == Message("user", 1)
<1>1. PICK raised \in SUBSET Kind :
        /\ phase = "asked" /\ messages' = messages \o <<a, u>>
        /\ Answered(raised) /\ Saved(memory', messages', owed')
        /\ phase' = "boundary" /\ request' = NoRequest
        /\ UNCHANGED <<status, apart, live, resumes>>
  BY DEF AnswerNudged
<1>2. live # 0 /\ a \in Msg /\ u \in Msg /\ messages \in Seq(Msg)
  BY <1>1, MessageTyped DEF Inv, Resting, Held
<1>. HIDE DEF a, u
<1>3. messages \o <<a, u>> = Append(Append(messages, a), u)
  BY <1>2
<1>4. Held(memory', messages', owed')
  <2>1. Held(memory', messages, owed')
    BY <1>1, AnsweredHeld DEF Answered
  <2>2. Held(memory', Append(messages, a), owed')
    BY <1>2, <2>1, AppendHeld
  <2>3. Held(memory', Append(Append(messages, a), u), owed')
    BY <1>2, <2>2, AppendHeld
  <2>. QED
    BY <1>1, <1>3, <2>3
<1>. QED
  BY <1>1, <1>2, <1>4, GoesOn DEF NoRequest

(* The final answer is the last message saved. *)
LEMMA AnswerFinalInv ==
  ASSUME Inv, AnswerFinal
  PROVE  Inv'
<1>1. live # 0 /\ Message("assistant", 1) \in Msg
  BY MessageTyped DEF AnswerFinal, Inv, Resting
<1>. QED
  BY <1>1, AnsweredHeld, AppendHeld, FinishInv DEF AnswerFinal

(* A tool result is one message more. *)
LEMMA ToolResultInv ==
  ASSUME Inv, ToolResult
  PROVE  Inv'
<1>1. PICK tokens \in ToolTokens, raised \in SUBSET Kind :
        /\ phase \in {"working", "worked"}
        /\ messages' = Append(messages, Message("tool", tokens))
        /\ memory' = Reminded(memory, raised) /\ owed' = owed \cup raised
        /\ file' = file \/ Saved(memory', messages', owed')
        /\ phase' = "worked"
        /\ UNCHANGED <<status, apart, live, request, resumes>>
  BY DEF ToolResult
<1>2. live # 0 /\ Message("tool", tokens) \in Msg
  BY <1>1, MessageTyped, SessionAssumption DEF Inv, Resting
<1>3. Held(memory', messages', owed')
  BY <1>1, <1>2, RemindedHeld, AppendHeld DEF Inv
<1>. QED
  BY <1>1, <1>2, <1>3, GoesOn DEF Inv, TypeOK

(* The end of a turn adds reminders only. *)
LEMMA TurnObservedInv ==
  ASSUME Inv, TurnObserved
  PROVE  Inv'
<1>1. PICK raised \in SUBSET Kind :
        /\ phase = "worked" /\ memory' = Reminded(memory, raised)
        /\ owed' = owed \cup raised /\ Saved(memory', messages, owed')
        /\ phase' = "boundary" /\ UNCHANGED <<status, apart, live, messages, request, resumes>>
  BY DEF TurnObserved
<1>2. live # 0
  BY <1>1 DEF Inv, Resting
<1>3. Held(memory', messages', owed')
  BY <1>1, <1>2, RemindedHeld DEF Inv
<1>. QED
  BY <1>1, <1>2, <1>3, GoesOn DEF Inv, TypeOK

(* A notice is one message more. *)
LEMMA NoticeInv ==
  ASSUME Inv, Notice
  PROVE  Inv'
<1>1. Message("user", 1) \in Msg /\ live # 0
  BY MessageTyped DEF Notice
<1>2. Held(memory', messages', owed')
  BY <1>1, AppendHeld DEF Inv, Notice
<1>. QED
  BY <1>1, <1>2, GoesOn DEF Inv, TypeOK, Notice

(* A Run that fails ends with what it held. *)
LEMMA FailRunInv ==
  ASSUME Inv, FailRun
  PROVE  Inv'
<1>1. PICK raised \in SUBSET Kind :
        live # 0 /\ Finish(Reminded(memory, raised), messages, owed \cup raised)
  BY DEF FailRun
<1>2. Held(Reminded(memory, raised), messages, owed \cup raised)
  BY <1>1, RemindedHeld DEF Inv
<1>. QED
  BY <1>1, <1>2, FinishInv

(* compactSession: the newest checkpoint. *)
LEMMA CompactInv ==
  ASSUME Inv, Compact
  PROVE  Inv'
<1>. DEFINE filed == {q \in Run : file[q] # NoFile}
            r == Greatest(filed)
<1>1. r \in filed
  <2>1. filed \in SUBSET (0 .. MaxRuns) /\ filed # {} /\ MaxRuns \in Nat
    BY SessionAssumption DEF Compact, Run
  <2>. QED
    BY <2>1, HasGreatest
<1>. DEFINE m == Compacted(file[r].messages, file[r].memory, 0)
<1>2. Held(file[r].memory, file[r].messages, file[r].owed)
  BY <1>1 DEF Inv
<1>3. Held(m, file[r].messages, file[r].owed)
  BY <1>2, CompactedAligned DEF Held
<1>4. /\ file' = [file EXCEPT ![r].memory = m]
      /\ UNCHANGED <<status, apart, live, phase, messages, memory, request, owed, resumes>>
  BY DEF Compact
<1>. HIDE DEF r, m
<1>5. r \in Run /\ file \in [Run -> Files] /\ m \in Memories
  BY <1>1, <1>3 DEF Inv, TypeOK, Held
<1>6. \A q \in Run : file'[q] = IF q = r THEN [file[r] EXCEPT !.memory = m] ELSE file[q]
  BY <1>4, <1>5
<1>7. [file[r] EXCEPT !.memory = m]
        = [messages |-> file[r].messages, memory |-> m, owed |-> file[r].owed]
  BY <1>5 DEF Files
<1>8. file' \in [Run -> Files]
  <2>1. file[r] \in Files
    BY <1>5
  <2>2. [file[r] EXCEPT !.memory = m] \in Files
    BY <1>5, <2>1 DEF Files
  <2>. QED
    BY <1>4, <1>5, <2>2
<1>9. TypeOK'
  BY <1>4, <1>8 DEF Inv, TypeOK
<1>. QED
  BY <1>3, <1>4, <1>6, <1>7, <1>9 DEF Inv, Resting

(* A step that changes nothing. *)
LEMMA StutterInv ==
  ASSUME Inv, UNCHANGED vars
  PROVE  Inv'
  BY DEF Inv, vars, TypeOK, Resting, Held, Aligned, HasUser

(* Every step keeps the invariant. *)
LEMMA NextInv ==
  ASSUME Inv, Next
  PROVE  Inv'
<1>1. CASE \E r \in Run : CreateRun(r) \/ Resume(r)
  BY <1>1, CreateRunInv, ResumeInv
<1>2. CASE FailUnstarted
  BY <1>2, Rests DEF FailUnstarted, Inv, TypeOK
<1>3. CASE Crash
  BY <1>3, Rests DEF Crash, Inv, TypeOK
<1>. QED
  BY <1>1, <1>2, <1>3, SendInv, RefuseInv, AnswerToolInv, AnswerNudgedInv, AnswerFinalInv,
     ToolResultInv, TurnObservedInv, NoticeInv, FailRunInv, CompactInv DEF Next

(* The invariant holds in every state. *)
THEOREM InvHolds == Spec => []Inv
  BY InitInv, StutterInv, NextInv, PTL DEF Spec

(* Type correctness: the state keeps its shape. *)
THEOREM SessionTypeCorrect == Spec => []TypeOK
<1>. Inv => TypeOK
  BY DEF Inv
<1>. QED
  BY InvHolds, PTL

(* Over any number of Runs, resumes, summaries and compactions, what is hidden from *)
(* the model is what its summary was made from (buildModelView,                      *)
(* compactConversation, conversationHistory).                                        *)
THEOREM SummaryIsOfTheHiddenHolds == Spec => []SummaryIsOfTheHidden
<1>1. ASSUME NEW r \in Run PROVE Aligned(NoFile.memory, NoFile.messages)
  BY FreshAligned, EmptySeq DEF NoFile
<1>2. Inv => SummaryIsOfTheHidden
  BY <1>1 DEF Inv, Held, SummaryIsOfTheHidden
<1>. QED
  BY <1>2, InvHolds, PTL

(* No reminder is dropped before a request that carried it was answered, in memory *)
(* or in a checkpoint (acknowledgeConvergenceReminders before settleBudget).        *)
THEOREM RemindersKeptHolds == Spec => []RemindersKept
<1>1. Inv => RemindersKept
  BY DEF Inv, Held, Resting, NoFile, Fresh, RemindersKept
<1>. QED
  BY <1>1, InvHolds, PTL
=============================================================================
