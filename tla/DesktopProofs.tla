------------------------ MODULE DesktopProofs ------------------------
(***************************************************************************)
(* Proofs about what the desktop application keeps outside the Runs. The   *)
(* settings store: typing, the agreement of the row and the credential     *)
(* store with what the user was told, that no acknowledged key is lost,    *)
(* and that a default a Run can use stays one. The self update: typing,    *)
(* that a package is what it is labelled as and stays, that the page shows *)
(* what there is, and that no Host is left behind.                         *)
(***************************************************************************)
EXTENDS SettingsStore, DesktopUpdate, TLAPS

-----------------------------------------------------------------------------
(* The operators on tables *)

LEMMA TableForm ==
  ASSUME NEW t \in Table
  PROVE  /\ DOMAIN t \subseteq Id /\ t = [p \in DOMAIN t |-> t[p]]
         /\ \A p \in DOMAIN t :
              /\ t[p] \in Provider
              /\ t[p].url \in Url /\ t[p].models \in SUBSET Model
              /\ t[p].hasKey \in BOOLEAN /\ t[p].plain \in KeyOrNone \cup {Empty}
<1>1. PICK P \in SUBSET Id : t \in [P -> Provider]
  BY DEF Table
<1> QED
  BY <1>1 DEF Provider

LEMMA TableIntro ==
  ASSUME NEW P \in SUBSET Id, NEW t \in [P -> Provider]
  PROVE  t \in Table
BY DEF Table

LEMMA WithTyping ==
  ASSUME NEW t \in Table, NEW p \in Id, NEW r \in Provider
  PROVE  /\ With(t, p, r) \in Table
         /\ DOMAIN With(t, p, r) = DOMAIN t \cup {p} /\ With(t, p, r)[p] = r
         /\ \A q \in DOMAIN t \ {p} : With(t, p, r)[q] = t[q]
<1>1. With(t, p, r) \in [DOMAIN t \cup {p} -> Provider]
  BY TableForm DEF With
<1>2. DOMAIN t \cup {p} \in SUBSET Id
  BY TableForm
<1>3. With(t, p, r) \in Table
  BY <1>1, <1>2, TableIntro
<1> QED
  BY <1>3 DEF With

LEMMA WithoutTyping ==
  ASSUME NEW t \in Table, NEW P
  PROVE  /\ Without(t, P) \in Table /\ DOMAIN Without(t, P) = DOMAIN t \ P
         /\ \A q \in DOMAIN t \ P : Without(t, P)[q] = t[q]
<1>1. Without(t, P) \in [DOMAIN t \ P -> Provider]
  BY TableForm DEF Without, Restrict
<1>2. DOMAIN t \ P \in SUBSET Id
  BY TableForm
<1>3. Without(t, P) \in Table
  BY <1>1, <1>2, TableIntro
<1> QED
  BY <1>3 DEF Without, Restrict

(* What the migration writes: no key in the row, a mark where one was.        *)
LEMMA StrippedTyping ==
  ASSUME row \in Row
  PROVE  /\ Stripped \in Table /\ DOMAIN Stripped = DOMAIN row.models
         /\ \A p \in DOMAIN row.models :
              /\ Stripped[p].models = row.models[p].models /\ Stripped[p].plain = None
              /\ row.models[p].plain # None => Stripped[p].hasKey = (p \in plaintext)
              /\ row.models[p].plain = None => Stripped[p].hasKey = row.models[p].hasKey
<1>1. row.models \in Table
  BY DEF Row
<1>2. DOMAIN Stripped = DOMAIN row.models
  BY DEF Stripped
<1>3. ASSUME NEW p \in DOMAIN row.models
      PROVE  /\ Stripped[p] \in Provider
             /\ Stripped[p].models = row.models[p].models /\ Stripped[p].plain = None
             /\ row.models[p].plain # None => Stripped[p].hasKey = (p \in plaintext)
             /\ row.models[p].plain = None => Stripped[p].hasKey = row.models[p].hasKey
  <2>1. row.models[p] \in Provider
    BY <1>1, TableForm
  <2>2. CASE row.models[p].plain # None
    <3> DEFINE marked == p \in plaintext
    <3>1. Stripped[p] = [row.models[p] EXCEPT !.hasKey = marked, !.plain = None]
      BY <2>2 DEF Stripped
    <3>2. marked \in BOOLEAN
      BY DEF plaintext
    <3> HIDE DEF marked
    <3>3. /\ Stripped[p] \in Provider /\ Stripped[p].hasKey = marked
          /\ Stripped[p].models = row.models[p].models /\ Stripped[p].plain = None
      BY <2>1, <3>1, <3>2 DEF Provider, KeyOrNone
    <3> QED
      BY <2>2, <3>3 DEF marked
  <2>3. CASE row.models[p].plain = None
    <3>1. Stripped[p] = row.models[p]
      BY <2>3 DEF Stripped
    <3> QED
      BY <2>1, <2>3, <3>1 DEF Provider
  <2> QED
    BY <2>2, <2>3
<1>4. Stripped \in [DOMAIN row.models -> Provider]
  BY <1>2, <1>3 DEF Stripped
<1>5. DOMAIN row.models \in SUBSET Id
  BY <1>1, TableForm
<1>6. Stripped \in Table
  BY <1>4, <1>5, TableIntro
<1> QED
  BY <1>2, <1>3, <1>6

LEMMA RowTyping ==
  ASSUME NEW r \in Row
  PROVE  /\ r.models \in Table /\ r.default \in {None} \cup (Id \X (Model \cup {None}))
         /\ r.envImported \in BOOLEAN
BY DEF Row

LEMMA ModelsEdit ==
  ASSUME NEW r \in Row, NEW t \in Table
  PROVE  LET e == [r EXCEPT !.models = t] IN e \in Row /\ e.models = t /\ e.default = r.default
BY DEF Row

(* What reading the row makes of its default: the same, if a Run could use it.  *)
LEMMA RepairedTyping ==
  ASSUME row \in Row, NEW d \in Repaired
  PROVE  /\ d \in {None} \cup (Id \X (Model \cup {None}))
         /\ d # None => row.default # None /\ d[1] = row.default[1]
         /\ d # None /\ d[1] \in DOMAIN row.models => d[2] \in First(row.models[d[1]].models)
         /\ row.default = None => d = None
         /\ /\ row.default # None /\ row.default[1] \in DOMAIN row.models
            /\ row.default[2] \in row.models[row.default[1]].models
            => d = row.default
<1>1. row.models \in Table /\ row.default \in {None} \cup (Id \X (Model \cup {None}))
  BY DEF Row
<1>2. CASE row.default = None
  BY <1>2 DEF Repaired
<1>3. CASE row.default # None /\ row.default[1] \notin DOMAIN row.models
  BY <1>1, <1>3 DEF Repaired
<1>4. CASE /\ row.default # None /\ row.default[1] \in DOMAIN row.models
           /\ row.default[2] \in row.models[row.default[1]].models
  <2>1. d = row.default
    BY <1>4 DEF Repaired
  <2> QED
    BY <1>1, <1>4, <2>1 DEF First
<1>5. CASE /\ row.default # None /\ row.default[1] \in DOMAIN row.models
           /\ row.default[2] \notin row.models[row.default[1]].models
  <2>1. PICK m \in First(row.models[row.default[1]].models) : d = <<row.default[1], m>>
    BY <1>5 DEF Repaired
  <2>2. row.models[row.default[1]].models \subseteq Model
    BY <1>1, <1>5, TableForm
  <2>3. m \in Model \cup {None} /\ row.default[1] \in Id
    BY <1>1, <1>5, <2>2 DEF First
  <2> QED
    BY <1>5, <2>1, <2>3
<1> QED
  BY <1>2, <1>3, <1>4, <1>5

LEMMA OpTyping ==
  ASSUME NEW o \in {"builtins", "migrate", "import", "add", "update", "delete"},
         NEW p \in Id \cup {None},
         NEW next \in Row, NEW old \in KeyOrNone, NEW new \in KeyOrNone \cup {Keep},
         NEW todo \in SUBSET Id
  PROVE  /\ Op(o, p, next, old, new, todo) \in Operation
         /\ Op(o, p, next, old, new, todo) # None
         /\ Op(o, p, next, old, new, todo).op = o /\ Op(o, p, next, old, new, todo).id = p
         /\ Op(o, p, next, old, new, todo).next = next
         /\ Op(o, p, next, old, new, todo).old = old
         /\ Op(o, p, next, old, new, todo).new = new
         /\ Op(o, p, next, old, new, todo).todo = todo
BY SettingsAssumption DEF Op, Operation

-----------------------------------------------------------------------------
(* The inductive invariant *)

(* TypeOK, less the provenance of the ids in the row.                         *)
Typed ==
  /\ row \in Row /\ doing \in Operation \cup {None}
  /\ secret \in [Id -> KeyOrNone]
  /\ host \in {"down", "opening", "importing", "up"}
  /\ taken \subseteq Id
  /\ may \in [Id -> SUBSET (KeyOrNone \cup {Lost})]
  /\ crashes \in 0 .. MaxCrashes

(* What table t says of the key of p fits what the key may be: a key that is  *)
(* still in the row is the one, and a row without one is right to say so.     *)
HasStory(t, keys, p) ==
  p \in DOMAIN t =>
    /\ t[p].plain \in Key => keys = {t[p].plain}
    /\ t[p].plain = Empty => None \in keys
    /\ t[p].plain = None => /\ t[p].hasKey => keys # {None}
                            /\ ~t[p].hasKey => None \in keys

StoryInv == \A p \in Id : may[p] # {} /\ (p \notin Builtin => HasStory(row.models, may[p], p))

(* The credential store has what the key may be, but for a key that is still  *)
(* in the row or a built-in template that is still listed.                    *)
KeyInv ==
  \A p \in Id : ~Pending({p}) =>
    \/ p \in DOMAIN row.models /\ (p \in Builtin \/ row.models[p].plain \in Key)
    \/ secret[p] \in may[p]

(* Past the migration no key is in the row, and no template of old.           *)
StartInv ==
  host \in {"importing", "up"} =>
    builtins = {} /\ \A p \in DOMAIN row.models : row.models[p].plain = None

(* An id that was never given out has no key, and none is expected of it; the *)
(* default, and the one that will be written, is not of such an id.           *)
FreshInv ==
  /\ DOMAIN row.models \subseteq taken /\ Builtin \subseteq taken
  /\ \A p \in Id \ taken : may[p] = {None} /\ secret[p] = None
  /\ row.default # None => row.default[1] \in taken
  /\ doing # None /\ doing.next.default # None => doing.next.default[1] \in taken

(* A template that is still listed has its key somewhere, or lost it on        *)
(* purpose; the removal has dealt with the keys it took off its list.         *)
BuiltinInv ==
  /\ \A p \in builtins : row.models[p].plain \in may[p] \/ secret[p] \in may[p] \/ None \in may[p]
  /\ doing # None /\ doing.op = "builtins" =>
       /\ host = "opening" /\ doing.id = None
       /\ doing.next = BuiltinsGone /\ doing.todo \subseteq builtins
       /\ \A p \in builtins \ doing.todo : secret[p] \in may[p]

(* The migration writes the row it read, and has moved what it took off its list. *)
MigrationInv ==
  doing # None /\ doing.op = "migrate" =>
    /\ host = "opening" /\ doing.id = None /\ builtins = {}
    /\ \E d \in Repaired : doing.next = [row EXCEPT !.models = Stripped, !.default = d]
    /\ doing.todo \subseteq plaintext
    /\ \A p \in plaintext \ doing.todo : secret[p] = row.models[p].plain

(* Operation o, on table t, with the keys s in the store: it changes one      *)
(* provider only, and what the user is told if it succeeds is then true.      *)
Promises(o, t, s, m) ==
  LET p    == o.id
      told == IF o.new = Keep THEN m[p] ELSE {o.new}
  IN
  /\ p \in Id \ Builtin
  /\ DOMAIN o.next.models \ {p} = DOMAIN t \ {p}
  /\ \A q \in DOMAIN t \ {p} : o.next.models[q] = t[q]
  /\ p \in DOMAIN o.next.models => o.next.models[p].plain = None
  /\ HasStory(o.next.models, told, p)
  /\ s[p] \in told
  /\ o.op = "import" => o.new \in Key

(* Of every other operation between its halves: it is allowed now, it keeps   *)
(* its promise if the row is written, and can take back what it did if not.   *)
PendingInv ==
  doing # None /\ doing.op \notin {"builtins", "migrate"} =>
    /\ host = (IF doing.op = "import" THEN "importing" ELSE "up")
    /\ doing.id \in taken /\ Promises(doing, row.models, secret, may)
    /\ doing.op # "import" => Restored(doing) \in may[doing.id]

(* DefaultUsable of any row; and the default of a listed provider is a model   *)
(* of its catalog, or the catalog is empty.                                   *)
Usable(r) ==
  r.default # None =>
    /\ r.default[1] \in DOMAIN r.models
    /\ \/ r.models[r.default[1]].plain \in Key
       \/ r.models[r.default[1]].plain = None /\ r.models[r.default[1]].hasKey
    /\ r.default[2] \in r.models[r.default[1]].models

InCatalog(r) ==
  r.default # None /\ r.default[1] \in DOMAIN r.models =>
    r.default[2] \in First(r.models[r.default[1]].models)

(* The row that will be written keeps a usable default, and past the start it   *)
(* puts nothing but a usable one in the place of another.                     *)
DefaultInv ==
  /\ host \in {"importing", "up"} => InCatalog(row)
  /\ doing # None =>
       /\ doing.op # "builtins" => InCatalog(doing.next)
       /\ Usable(row) => Usable(doing.next)
       /\ host # "opening" /\ doing.next.default # row.default => Usable(doing.next)

Inv ==
  /\ Typed /\ StoryInv /\ KeyInv /\ StartInv /\ FreshInv
  /\ BuiltinInv /\ MigrationInv /\ PendingInv /\ DefaultInv

-----------------------------------------------------------------------------
(* The first halves, each with the row it is going to write *)

(* importEnvFallback: one provider more or changed, with a key and the model.  *)
LEMMA ImportForm ==
  ASSUME Typed, NEW p \in Id, importEnvFallback(p)
  PROVE  /\ doing' \in Operation /\ doing'.op = "import" /\ doing'.id = p /\ doing' # None
         /\ doing'.new = EnvKey
         /\ DOMAIN doing'.next.models = DOMAIN row.models \cup {p}
         /\ \A q \in DOMAIN row.models \ {p} : doing'.next.models[q] = row.models[q]
         /\ doing'.next.models[p].plain = None /\ doing'.next.models[p].hasKey
         /\ EnvModel \in doing'.next.models[p].models
         /\ doing'.next.default = <<p, EnvModel>>
<1> DEFINE same   == {q \in DOMAIN row.models : row.models[q].url = EnvUrl}
           models == IF p \in same THEN row.models[p].models \cup {EnvModel} ELSE {EnvModel}
           made   == [url |-> EnvUrl, models |-> models, hasKey |-> TRUE, plain |-> None]
           next   == [models |-> With(row.models, p, made), default |-> <<p, EnvModel>>,
                      envImported |-> TRUE]
<1>1. row.models \in Table
  BY RowTyping DEF Typed
<1>2. models \in SUBSET Model /\ EnvModel \in models
  <2>1. ASSUME p \in same
        PROVE  row.models[p].models \subseteq Model
    BY <1>1, <2>1, TableForm
  <2>2. models \subseteq Model /\ EnvModel \in models
    BY <2>1, SettingsAssumption
  <2> QED
    BY <2>2
<1>3. made \in Provider
  BY <1>2, SettingsAssumption DEF Provider, KeyOrNone
<1>4. doing' = Op("import", p, next, None, EnvKey, {})
  BY DEF importEnvFallback
<1>5. made.plain = None /\ made.hasKey /\ EnvModel \in made.models
  BY <1>2
<1> HIDE DEF made
<1>6. next \in Row
  BY <1>1, <1>3, WithTyping, SettingsAssumption DEF Row
<1>7. next.models = With(row.models, p, made) /\ next.default = <<p, EnvModel>>
  OBVIOUS
<1> HIDE DEF next
<1>8. None \in KeyOrNone /\ EnvKey \in KeyOrNone \cup {Keep}
  BY SettingsAssumption DEF KeyOrNone
<1>9. /\ doing' \in Operation /\ doing'.op = "import" /\ doing'.id = p /\ doing' # None
      /\ doing'.new = EnvKey /\ doing'.next = next
  BY <1>4, <1>6, <1>8, OpTyping
<1>10. doing'.next.models = With(row.models, p, made) /\ doing'.next.default = <<p, EnvModel>>
  BY <1>7, <1>9
<1>11. /\ DOMAIN With(row.models, p, made) = DOMAIN row.models \cup {p}
       /\ With(row.models, p, made)[p] = made
       /\ \A q \in DOMAIN row.models \ {p} : With(row.models, p, made)[q] = row.models[q]
  <2>1. row.models \in Table /\ made \in Provider
    BY <1>1, <1>3
  <2> QED
    BY <2>1, WithTyping
<1> QED
  BY <1>5, <1>9, <1>10, <1>11

LEMMA AddForm ==
  ASSUME Typed, NEW p \in Id, NEW u \in Url, NEW ms \in Catalog, NEW key \in KeyOrNone,
         addModel(p, u, ms, key)
  PROVE  /\ doing' \in Operation /\ doing'.op = "add" /\ doing'.id = p /\ doing' # None
         /\ doing'.new = key
         /\ DOMAIN doing'.next.models = DOMAIN row.models \cup {p}
         /\ \A q \in DOMAIN row.models \ {p} : doing'.next.models[q] = row.models[q]
         /\ doing'.next.models[p].plain = None
         /\ doing'.next.models[p].hasKey = (key # None)
         /\ doing'.next.default = row.default
<1> DEFINE made == [url |-> u, models |-> ms, hasKey |-> key # None, plain |-> None]
           next == [row EXCEPT !.models = With(@, p, made)]
<1>1. row.models \in Table /\ row \in Row
  BY RowTyping DEF Typed
<1>2. made \in Provider /\ made.plain = None /\ made.hasKey = (key # None)
  BY DEF Provider, KeyOrNone, Catalog
<1>3. doing' = Op("add", p, next, None, key, {})
  BY DEF addModel
<1> HIDE DEF made
<1>4. With(row.models, p, made) \in Table
  BY <1>1, <1>2, WithTyping
<1>5. next \in Row /\ next.models = With(row.models, p, made) /\ next.default = row.default
  BY <1>1, <1>4, ModelsEdit
<1> HIDE DEF next
<1>6. None \in KeyOrNone
  BY DEF KeyOrNone
<1>7. /\ doing' \in Operation /\ doing'.op = "add" /\ doing'.id = p /\ doing' # None
      /\ doing'.new = key /\ doing'.next = next
  BY <1>3, <1>5, <1>6, OpTyping
<1>8. doing'.next.models = With(row.models, p, made) /\ doing'.next.default = row.default
  BY <1>5, <1>7
<1>9. /\ DOMAIN With(row.models, p, made) = DOMAIN row.models \cup {p}
      /\ With(row.models, p, made)[p] = made
      /\ \A q \in DOMAIN row.models \ {p} : With(row.models, p, made)[q] = row.models[q]
  <2>1. row.models \in Table /\ made \in Provider
    BY <1>1, <1>2
  <2> QED
    BY <2>1, WithTyping
<1> QED
  BY <1>2, <1>7, <1>8, <1>9

LEMMA UpdateForm ==
  ASSUME Typed, NEW p \in Id, NEW url \in Url \cup {Keep}, NEW models \in Catalog \cup {Keep},
         NEW key \in KeyOrNone \cup {Keep}, updateModel(p, url, models, key)
  PROVE  /\ doing' \in Operation /\ doing'.op = "update" /\ doing'.id = p /\ doing' # None
         /\ doing'.new = key /\ doing'.old = oldApiKey(p)
         /\ DOMAIN doing'.next.models = DOMAIN row.models
         /\ \A q \in DOMAIN row.models \ {p} : doing'.next.models[q] = row.models[q]
         /\ doing'.next.models[p].plain = None
         /\ doing'.next.models[p].hasKey = hasApiKeyAfter(p, key)
         /\ doing'.next.models[p].models = {} => row.models[p].models = {}
         /\ \E first \in First(doing'.next.models[p].models) :
              doing'.next.default =
                DefaultAfter(p, hasApiKeyAfter(p, key), doing'.next.models[p].models, first)
<1> DEFINE u    == IF url = Keep THEN row.models[p].url ELSE url
           ms   == IF models = Keep THEN row.models[p].models ELSE models
           has  == hasApiKeyAfter(p, key)
           made == [url |-> u, models |-> ms, hasKey |-> has, plain |-> None]
<1>1. /\ row.models \in Table /\ row \in Row
      /\ row.default \in {None} \cup (Id \X (Model \cup {None}))
      /\ p \in DOMAIN row.models
  BY RowTyping DEF Typed, updateModel
<1>2. /\ u \in Url /\ ms \in SUBSET Model /\ (ms = {} => row.models[p].models = {})
      /\ has \in BOOLEAN /\ oldApiKey(p) \in KeyOrNone
  <2>1. u \in Url /\ ms \in SUBSET Model /\ (ms = {} => row.models[p].models = {})
    BY <1>1, TableForm DEF Catalog
  <2>2. secret[p] \in KeyOrNone
    BY DEF Typed
  <2> QED
    BY <2>1, <2>2 DEF oldApiKey, hasApiKeyAfter, KeyOrNone
<1>3. PICK first \in First(ms) :
        doing' = Op("update", p, [row EXCEPT !.models = With(@, p, made),
                                             !.default = DefaultAfter(p, has, ms, first)],
                    oldApiKey(p), key, {})
  BY DEF updateModel
<1> DEFINE default == DefaultAfter(p, has, ms, first)
           next == [row EXCEPT !.models = With(row.models, p, made), !.default = default]
<1>4. doing' = Op("update", p, next, oldApiKey(p), key, {})
  BY <1>3
<1>5. made \in Provider /\ made.plain = None /\ made.hasKey = has /\ made.models = ms
  BY <1>2 DEF Provider, KeyOrNone
<1>6. default \in {None} \cup (Id \X (Model \cup {None}))
  BY <1>1, <1>2, <1>3 DEF DefaultAfter, First
<1> HIDE DEF has, u, ms, made, default
<1>7. With(row.models, p, made) \in Table
  BY <1>1, <1>5, WithTyping
<1>8. next \in Row /\ next.models = With(row.models, p, made) /\ next.default = default
  <2>1. next = [row EXCEPT !.models = With(row.models, p, made), !.default = default]
    OBVIOUS
  <2> HIDE DEF next
  <2> QED
    BY <1>1, <1>6, <1>7, <2>1 DEF Row
<1> HIDE DEF next
<1>9. /\ doing' \in Operation /\ doing'.op = "update" /\ doing'.id = p /\ doing' # None
      /\ doing'.new = key /\ doing'.old = oldApiKey(p) /\ doing'.next = next
  BY <1>2, <1>4, <1>8, OpTyping
<1>10. doing'.next.models[p] = made /\ DOMAIN doing'.next.models = DOMAIN row.models
       /\ \A q \in DOMAIN row.models \ {p} : doing'.next.models[q] = row.models[q]
  <2>1. /\ DOMAIN With(row.models, p, made) = DOMAIN row.models \cup {p}
        /\ With(row.models, p, made)[p] = made
        /\ \A q \in DOMAIN row.models \ {p} : With(row.models, p, made)[q] = row.models[q]
    <3>1. row.models \in Table /\ p \in Id /\ made \in Provider
      BY <1>1, <1>5
    <3> QED
      BY <3>1, WithTyping
  <2>2. doing'.next.models = With(row.models, p, made)
    BY <1>8, <1>9
  <2> QED
    BY <1>1, <2>1, <2>2
<1>11. doing'.next.default = default
  BY <1>8, <1>9
<1> QED
  BY <1>2, <1>3, <1>5, <1>9, <1>10, <1>11 DEF default, has

LEMMA DeleteForm ==
  ASSUME Typed, NEW p \in Id, deleteModel(p)
  PROVE  /\ doing' \in Operation /\ doing'.op = "delete" /\ doing'.id = p /\ doing' # None
         /\ doing'.old = oldApiKey(p)
         /\ doing'.new = (IF row.models[p].hasKey THEN None ELSE Keep)
         /\ DOMAIN doing'.next.models = DOMAIN row.models \ {p}
         /\ \A q \in DOMAIN row.models \ {p} : doing'.next.models[q] = row.models[q]
         /\ doing'.next.default =
              (IF row.default # None /\ row.default[1] = p THEN None ELSE row.default)
<1> DEFINE default == IF row.default # None /\ row.default[1] = p THEN None ELSE row.default
           next == [row EXCEPT !.models = Without(row.models, {p}), !.default = default]
           new  == IF row.models[p].hasKey THEN None ELSE Keep
<1>1. /\ row.models \in Table /\ row \in Row
      /\ row.default \in {None} \cup (Id \X (Model \cup {None}))
      /\ p \in DOMAIN row.models
  BY RowTyping DEF Typed, deleteModel
<1>2. oldApiKey(p) \in KeyOrNone /\ new \in KeyOrNone \cup {Keep}
  BY DEF Typed, oldApiKey, KeyOrNone
<1>3. doing' = Op("delete", p, next, oldApiKey(p), new, {})
  BY DEF deleteModel
<1>4. default \in {None} \cup (Id \X (Model \cup {None}))
  BY <1>1
<1> HIDE DEF default, new
<1>5. Without(row.models, {p}) \in Table
  BY <1>1, WithoutTyping
<1>6. next \in Row /\ next.models = Without(row.models, {p}) /\ next.default = default
  <2>1. next = [row EXCEPT !.models = Without(row.models, {p}), !.default = default]
    OBVIOUS
  <2> HIDE DEF next
  <2> QED
    BY <1>1, <1>4, <1>5, <2>1 DEF Row
<1> HIDE DEF next
<1>7. /\ doing' \in Operation /\ doing'.op = "delete" /\ doing'.id = p /\ doing' # None
      /\ doing'.new = new /\ doing'.old = oldApiKey(p) /\ doing'.next = next
  <2>1. next \in Row /\ {} \in SUBSET Id /\ p \in Id \cup {None}
    BY <1>6
  <2>2. oldApiKey(p) \in KeyOrNone /\ new \in KeyOrNone \cup {Keep}
    BY <1>2
  <2> QED
    BY <1>3, <2>1, <2>2, OpTyping
<1>8. doing'.next.models = Without(row.models, {p}) /\ doing'.next.default = default
  BY <1>6, <1>7
<1>9. /\ DOMAIN Without(row.models, {p}) = DOMAIN row.models \ {p}
      /\ \A q \in DOMAIN row.models \ {p} : Without(row.models, {p})[q] = row.models[q]
  BY <1>1, WithoutTyping
<1> QED
  BY <1>7, <1>8, <1>9 DEF default, new

-----------------------------------------------------------------------------
(* The steps of the start *)

LEMMA InitInv == Init => Inv
<1> SUFFICES ASSUME Init
             PROVE  Inv
  OBVIOUS
<1>1. /\ host = "down" /\ doing = None /\ crashes = 0
      /\ may = [p \in Id |-> Promised(row, secret, p)]
      /\ taken = {p \in Id : \/ p \in DOMAIN row.models \cup Builtin
                             \/ secret[p] # None
                             \/ row.default # None /\ p = row.default[1]}
  BY DEF Init
<1>2. row \in Row /\ secret \in [Id -> KeyOrNone]
  <2>1. CASE /\ row = [models |-> <<>>, default |-> None, envImported |-> FALSE]
             /\ secret = [p \in Id |-> None]
    <3>1. <<>> \in [{} -> Provider]
      OBVIOUS
    <3>2. <<>> \in Table
      BY <3>1, TableIntro
    <3> QED
      BY <2>1, <3>2 DEF Row, KeyOrNone
  <2>2. CASE \E left \in Legacy : row = left.row /\ secret = left.secret
    BY <2>2, SettingsAssumption
  <2> QED
    BY <2>1, <2>2 DEF Init
<1>3. row.models \in Table /\ row.default \in {None} \cup (Id \X (Model \cup {None}))
  BY <1>2, RowTyping
<1>4. ASSUME NEW p \in Id
      PROVE  /\ may[p] \in SUBSET (KeyOrNone \cup {Lost}) /\ may[p] # {}
             /\ HasStory(row.models, may[p], p)
             /\ (p \in DOMAIN row.models /\ row.models[p].plain \in Key) \/ secret[p] \in may[p]
             /\ p \in DOMAIN row.models => row.models[p].plain \in may[p] \/ secret[p] \in may[p]
             /\ p \notin taken => may[p] = {None} /\ secret[p] = None
  <2>1. may[p] = Promised(row, secret, p) /\ secret[p] \in KeyOrNone
    BY <1>1, <1>2
  <2>2. CASE p \notin DOMAIN row.models
    <3>1. may[p] = {secret[p]}
      BY <2>1, <2>2 DEF Promised
    <3> QED
      BY <1>1, <2>1, <2>2, <3>1 DEF HasStory
  <2>3. CASE p \in DOMAIN row.models /\ row.models[p].plain \in Key
    <3>1. may[p] = {row.models[p].plain}
      BY <2>1, <2>3 DEF Promised
    <3>2. p \in taken /\ None \notin Key /\ Empty \notin Key
      BY <1>1, <2>3, SettingsAssumption DEF KeyOrNone
    <3> QED
      BY <2>3, <3>1, <3>2 DEF HasStory, KeyOrNone
  <2>4. CASE /\ p \in DOMAIN row.models /\ row.models[p].plain \notin Key
             /\ row.models[p].plain = Empty \/ ~row.models[p].hasKey
    <3>1. may[p] = {secret[p], None}
      BY <2>1, <2>4 DEF Promised
    <3>2. p \in taken /\ Empty # None
      BY <1>1, <2>4, SettingsAssumption DEF KeyOrNone
    <3> QED
      BY <2>1, <2>4, <3>1, <3>2 DEF HasStory, KeyOrNone
  <2>5. CASE /\ p \in DOMAIN row.models /\ row.models[p].plain \notin Key
             /\ row.models[p].plain # Empty /\ row.models[p].hasKey
    <3>1. may[p] = IF secret[p] = None THEN {None, Lost} ELSE {secret[p]}
      BY <2>1, <2>5 DEF Promised
    <3>2. p \in taken /\ Lost # None
      BY <1>1, <2>5, SettingsAssumption DEF KeyOrNone
    <3>3. CASE secret[p] = None
      BY <2>5, <3>1, <3>2, <3>3 DEF HasStory, KeyOrNone
    <3>4. CASE secret[p] # None
      BY <2>1, <2>5, <3>1, <3>2, <3>4 DEF HasStory
    <3> QED
      BY <3>3, <3>4
  <2> QED
    BY <2>2, <2>3, <2>4, <2>5
<1>5. Typed
  <2>1. may \in [Id -> SUBSET (KeyOrNone \cup {Lost})]
    BY <1>1, <1>4
  <2> QED
    BY <1>1, <1>2, <2>1, SettingsAssumption DEF Typed
<1>6. StoryInv /\ KeyInv /\ StartInv
  BY <1>1, <1>4 DEF StoryInv, KeyInv, StartInv
<1>7. FreshInv
  <2>1. DOMAIN row.models \subseteq Id /\ (row.default # None => row.default[1] \in Id)
    BY <1>3, TableForm
  <2> QED
    BY <1>1, <1>4, <2>1, SettingsAssumption DEF FreshInv
<1>8. BuiltinInv
  BY <1>1, <1>3, <1>4, TableForm DEF BuiltinInv, builtins
<1> QED
  BY <1>1, <1>5, <1>6, <1>7, <1>8 DEF Inv, MigrationInv, PendingInv, DefaultInv

(* What the start writes once the templates are gone. *)
LEMMA BuiltinsGoneTyping ==
  ASSUME row \in Row
  PROVE  /\ BuiltinsGone \in Row
         /\ DOMAIN BuiltinsGone.models = DOMAIN row.models \ Builtin
         /\ \A q \in DOMAIN row.models \ Builtin : BuiltinsGone.models[q] = row.models[q]
         /\ \/ BuiltinsGone.default = None
            \/ /\ BuiltinsGone.default = row.default
               /\ row.default[1] \in DOMAIN row.models \ Builtin
<1> DEFINE default == IF row.default # None /\ row.default[1] \notin DOMAIN row.models \ Builtin
                      THEN None ELSE row.default
<1>1. row.models \in Table /\ row.default \in {None} \cup (Id \X (Model \cup {None}))
  BY RowTyping
<1>2. /\ Without(row.models, builtins) \in Table
      /\ DOMAIN Without(row.models, builtins) = DOMAIN row.models \ builtins
      /\ \A q \in DOMAIN row.models \ builtins :
           Without(row.models, builtins)[q] = row.models[q]
  BY <1>1, WithoutTyping
<1>3. DOMAIN row.models \ builtins = DOMAIN row.models \ Builtin
  BY DEF builtins
<1>4. BuiltinsGone = [row EXCEPT !.models = Without(row.models, builtins), !.default = default]
  BY DEF BuiltinsGone
<1>5. /\ default \in {None} \cup (Id \X (Model \cup {None}))
      /\ \/ default = None
         \/ default = row.default /\ row.default[1] \in DOMAIN row.models \ Builtin
  BY <1>1
<1> HIDE DEF default
<1>6. /\ BuiltinsGone \in Row /\ BuiltinsGone.models = Without(row.models, builtins)
      /\ BuiltinsGone.default = default
  BY <1>2, <1>4, <1>5 DEF Row
<1> QED
  BY <1>2, <1>3, <1>5, <1>6

LEMMA OpenStep ==
  ASSUME Inv, Open
  PROVE  Inv'
<1>1. /\ host = "down" /\ host' = "opening" /\ UNCHANGED <<row, secret, taken, may, crashes>>
      /\ doing' = IF builtins = {} THEN None
                  ELSE Op("builtins", None, BuiltinsGone, None, None, builtins)
  BY DEF Open
<1>2. doing = None /\ row \in Row
  BY <1>1 DEF Inv, Typed, BuiltinInv, MigrationInv, PendingInv
<1>3. /\ BuiltinsGone \in Row
      /\ DOMAIN BuiltinsGone.models = DOMAIN row.models \ Builtin
      /\ \A q \in DOMAIN row.models \ Builtin : BuiltinsGone.models[q] = row.models[q]
      /\ \/ BuiltinsGone.default = None
         \/ /\ BuiltinsGone.default = row.default
            /\ row.default[1] \in DOMAIN row.models \ Builtin
  BY <1>2, BuiltinsGoneTyping
<1>4. /\ doing' \in Operation \cup {None}
      /\ doing' # None =>
           /\ doing'.op = "builtins" /\ doing'.id = None
           /\ doing'.next = BuiltinsGone /\ doing'.todo = builtins
  <2>1. builtins \in SUBSET Id /\ None \in KeyOrNone
    BY SettingsAssumption DEF builtins, KeyOrNone
  <2>2. CASE builtins = {}
    BY <1>1, <2>2
  <2>3. CASE builtins # {}
    <3>1. doing' = Op("builtins", None, BuiltinsGone, None, None, builtins)
      BY <1>1, <2>3
    <3> QED
      BY <1>3, <2>1, <3>1, OpTyping
  <2> QED
    BY <2>2, <2>3
<1>5. BuiltinsGone' = BuiltinsGone /\ builtins' = builtins
  BY <1>1 DEF BuiltinsGone, builtins
<1>6. Typed' /\ StoryInv' /\ StartInv'
  BY <1>1, <1>4 DEF Inv, Typed, StoryInv, HasStory, StartInv
<1>7. KeyInv'
  BY <1>1, <1>2 DEF Inv, KeyInv, Pending
<1>8. FreshInv'
  BY <1>1, <1>3, <1>4 DEF Inv, FreshInv
<1>9. BuiltinInv'
  BY <1>1, <1>4, <1>5 DEF Inv, BuiltinInv
<1>10. DefaultInv'
  <2>1. Usable(row) => Usable(BuiltinsGone)
    BY <1>3 DEF Usable
  <2>2. doing' # None => (Usable(row') => Usable(doing'.next))
    BY <1>1, <1>4, <2>1 DEF Usable
  <2> QED
    BY <1>1, <1>4, <2>2 DEF DefaultInv
<1> QED
  BY <1>4, <1>6, <1>7, <1>8, <1>9, <1>10 DEF Inv, MigrationInv, PendingInv

LEMMA DeleteBuiltinStep ==
  ASSUME Inv, NEW p \in Builtin, NEW works \in BOOLEAN, DeleteBuiltin(p, works)
  PROVE  Inv'
<1> DEFINE key  == IF works THEN None ELSE secret[p]
           keys == IF works THEN {None} ELSE may[p] \cup {secret[p]}
<1>1. /\ doing \in Operation /\ doing # None /\ doing.op = "builtins" /\ p \in doing.todo
      /\ doing' = [doing EXCEPT !.todo = @ \ {p}]
      /\ UNCHANGED <<row, host, taken, crashes>> /\ p \in Id
      /\ secret \in [Id -> KeyOrNone] /\ may \in [Id -> SUBSET (KeyOrNone \cup {Lost})]
  BY SettingsAssumption DEF Inv, Typed, DeleteBuiltin
<1>2. /\ doing' \in Operation /\ doing' # None /\ doing'.op = "builtins"
      /\ doing'.id = doing.id /\ doing'.next = doing.next /\ doing'.todo = doing.todo \ {p}
  BY <1>1, SettingsAssumption DEF Operation
<1>3. /\ secret' = [secret EXCEPT ![p] = key] /\ may' = [may EXCEPT ![p] = keys]
  BY <1>1 DEF DeleteBuiltin
<1>4. key \in KeyOrNone /\ key \in keys /\ keys \in SUBSET (KeyOrNone \cup {Lost})
  BY <1>1 DEF KeyOrNone
<1> HIDE DEF key, keys
<1>5. /\ secret' \in [Id -> KeyOrNone] /\ secret'[p] = key
      /\ \A q \in Id \ {p} : secret'[q] = secret[q]
      /\ may' \in [Id -> SUBSET (KeyOrNone \cup {Lost})] /\ may'[p] = keys
      /\ \A q \in Id \ {p} : may'[q] = may[q]
  BY <1>1, <1>3, <1>4
<1>6. /\ host = "opening" /\ doing.id = None /\ doing.next = BuiltinsGone
      /\ doing.todo \subseteq builtins
      /\ \A q \in builtins \ doing.todo : secret[q] \in may[q]
      /\ p \in builtins /\ p \in DOMAIN row.models
  BY <1>1 DEF Inv, BuiltinInv, builtins
<1>7. Typed' /\ StartInv'
  BY <1>1, <1>2, <1>5, <1>6 DEF Inv, Typed, StartInv
<1>8. StoryInv'
  BY <1>1, <1>4, <1>5 DEF Inv, StoryInv, HasStory
<1>9. KeyInv'
  <2>1. \A q \in Id : ~Pending({q})
    BY <1>6, SettingsAssumption DEF Pending
  <2> QED
    BY <1>1, <1>5, <1>6, <2>1 DEF Inv, KeyInv
<1>10. FreshInv'
  <2>1. p \in taken
    BY <1>6 DEF Inv, FreshInv
  <2> QED
    BY <1>1, <1>2, <1>5, <2>1 DEF Inv, FreshInv
<1>11. BuiltinInv'
  <2>1. builtins' = builtins /\ BuiltinsGone' = BuiltinsGone /\ builtins \subseteq Id
    BY <1>1, SettingsAssumption DEF builtins, BuiltinsGone
  <2>2. \A q \in builtins : q # p =>
          row.models[q].plain \in may[q] \/ secret[q] \in may[q] \/ None \in may[q]
    BY DEF Inv, BuiltinInv
  <2> QED
    BY <1>1, <1>2, <1>4, <1>5, <1>6, <2>1, <2>2 DEF BuiltinInv
<1>12. DefaultInv'
  BY <1>1, <1>2, <1>6 DEF Inv, DefaultInv, Usable
<1> QED
  BY <1>2, <1>7, <1>8, <1>9, <1>10, <1>11, <1>12 DEF Inv, MigrationInv, PendingInv

LEMMA RemoveBuiltinsStep ==
  ASSUME Inv, RemoveBuiltins
  PROVE  Inv'
<1>1. /\ doing # None /\ doing.op = "builtins" /\ doing.todo = {}
      /\ row' = doing.next /\ doing' = None
      /\ UNCHANGED <<secret, host, taken, may, crashes>> /\ row \in Row
  BY DEF Inv, Typed, RemoveBuiltins
<1>2. /\ host = "opening" /\ doing.id = None /\ row' = BuiltinsGone
      /\ \A p \in builtins : secret[p] \in may[p]
  BY <1>1 DEF Inv, BuiltinInv
<1>3. /\ row' \in Row /\ DOMAIN row'.models = DOMAIN row.models \ Builtin
      /\ \A q \in DOMAIN row.models \ Builtin : row'.models[q] = row.models[q]
      /\ row'.default = None \/ row'.default = row.default
  BY <1>1, <1>2, BuiltinsGoneTyping
<1>4. builtins' = {}
  BY <1>3 DEF builtins
<1>5. Typed' /\ StoryInv' /\ StartInv'
  BY <1>1, <1>2, <1>3 DEF Inv, Typed, StoryInv, HasStory, StartInv
<1>6. KeyInv'
  <2>1. \A p \in Id : ~Pending({p})
    BY <1>2, SettingsAssumption DEF Pending
  <2> QED
    BY <1>1, <1>2, <1>3, <2>1 DEF Inv, KeyInv, builtins
<1>7. FreshInv'
  BY <1>1, <1>3 DEF Inv, FreshInv
<1> QED
  BY <1>1, <1>2, <1>4, <1>5, <1>6, <1>7
  DEF Inv, BuiltinInv, MigrationInv, PendingInv, DefaultInv

LEMMA MigrationStep ==
  ASSUME Inv, migrateLegacyPlaintextKeys
  PROVE  Inv'
<1>1. row \in Row /\ row.models \in Table
  BY RowTyping DEF Inv, Typed
<1>2. /\ Stripped \in Table /\ DOMAIN Stripped = DOMAIN row.models
      /\ \A p \in DOMAIN row.models :
           /\ Stripped[p].models = row.models[p].models /\ Stripped[p].plain = None
           /\ row.models[p].plain # None => Stripped[p].hasKey = (p \in plaintext)
           /\ row.models[p].plain = None => Stripped[p].hasKey = row.models[p].hasKey
  BY <1>1, StrippedTyping
<1>3. PICK d \in Repaired :
        doing' = Op("migrate", None, [row EXCEPT !.models = Stripped, !.default = d],
                    None, None, plaintext)
  BY DEF migrateLegacyPlaintextKeys
<1>4. /\ d \in {None} \cup (Id \X (Model \cup {None}))
      /\ d # None => row.default # None /\ d[1] = row.default[1]
      /\ d # None /\ d[1] \in DOMAIN row.models => d[2] \in First(row.models[d[1]].models)
      /\ row.default = None => d = None
      /\ /\ row.default # None /\ row.default[1] \in DOMAIN row.models
         /\ row.default[2] \in row.models[row.default[1]].models
         => d = row.default
  BY <1>1, RepairedTyping
<1> DEFINE next == [row EXCEPT !.models = Stripped, !.default = d]
<1>5. next \in Row /\ next.models = Stripped /\ next.default = d
  <2>1. next = [row EXCEPT !.models = Stripped, !.default = d]
    OBVIOUS
  <2> HIDE DEF next
  <2> QED
    BY <1>1, <1>2, <1>4, <2>1 DEF Row
<1>6. plaintext \in SUBSET Id /\ None \in KeyOrNone
  BY <1>1, TableForm DEF plaintext, KeyOrNone
<1>7. /\ doing = None /\ host = "opening" /\ builtins = {}
      /\ UNCHANGED <<row, secret, host, taken, may, crashes>>
  BY DEF migrateLegacyPlaintextKeys
<1>8. /\ doing' \in Operation /\ doing' # None /\ doing'.op = "migrate" /\ doing'.id = None
      /\ doing'.next = next /\ doing'.todo = plaintext
  <2>1. doing' = Op("migrate", None, next, None, None, plaintext)
    BY <1>3
  <2> HIDE DEF next
  <2> QED
    BY <1>5, <1>6, <2>1, OpTyping
<1>9. MigrationInv'
  <2>1. /\ doing'.next = [row' EXCEPT !.models = Stripped', !.default = d]
        /\ plaintext' = plaintext /\ builtins' = {} /\ d \in Repaired'
    <3>1. Stripped' = Stripped /\ plaintext' = plaintext /\ builtins' = {} /\ Repaired' = Repaired
      BY <1>7 DEF Stripped, plaintext, builtins, Repaired
    <3> QED
      BY <1>3, <1>7, <1>8, <3>1
  <2> QED
    BY <1>7, <1>8, <2>1 DEF MigrationInv
<1> HIDE DEF next
<1>10. KeyInv'
  BY <1>7, <1>8, SettingsAssumption DEF Inv, KeyInv, Pending
<1>11. Typed' /\ StoryInv' /\ StartInv'
  BY <1>7, <1>8 DEF Inv, Typed, StoryInv, HasStory, StartInv
<1>12. FreshInv'
  BY <1>4, <1>5, <1>7, <1>8 DEF Inv, FreshInv
<1>13. BuiltinInv'
  BY <1>7, <1>8 DEF BuiltinInv, builtins
<1>14. DefaultInv'
  <2>1. InCatalog(next)
    BY <1>2, <1>4, <1>5 DEF InCatalog
  <2>2. Usable(row) => Usable(next)
    <3> SUFFICES ASSUME Usable(row), d # None
                 PROVE  Usable(next)
      BY <1>5 DEF Usable
    <3>1. d = row.default /\ d[1] \in DOMAIN row.models /\ d[2] \in row.models[d[1]].models
      BY <1>4 DEF Usable
    <3>2. Stripped[d[1]].plain = None /\ d[2] \in Stripped[d[1]].models
      BY <1>2, <3>1
    <3>3. Stripped[d[1]].hasKey
      <4>1. CASE row.models[d[1]].plain \in Key
        <5>1. row.models[d[1]].plain # None
          BY <4>1, SettingsAssumption
        <5> QED
          BY <1>2, <3>1, <4>1, <5>1 DEF plaintext
      <4>2. CASE row.models[d[1]].plain = None /\ row.models[d[1]].hasKey
        BY <1>2, <3>1, <4>2
      <4> QED
        BY <1>4, <3>1, <4>1, <4>2 DEF Usable
    <3> QED
      BY <1>2, <1>5, <3>1, <3>2, <3>3 DEF Usable
  <2>3. Usable(row') = Usable(row) /\ Usable(doing'.next) = Usable(next)
        /\ InCatalog(doing'.next) = InCatalog(next)
    BY <1>7, <1>8 DEF Usable, InCatalog
  <2> QED
    BY <1>7, <1>8, <2>1, <2>2, <2>3 DEF DefaultInv
<1> QED
  BY <1>8, <1>9, <1>10, <1>11, <1>12, <1>13, <1>14 DEF Inv, PendingInv

LEMMA MoveKeyStep ==
  ASSUME Inv, NEW p \in Id, MoveKey(p)
  PROVE  Inv'
<1>1. /\ doing \in Operation /\ doing # None /\ doing.op = "migrate" /\ p \in doing.todo
      /\ doing' = [doing EXCEPT !.todo = @ \ {p}]
      /\ secret' = [secret EXCEPT ![p] = row.models[p].plain]
      /\ UNCHANGED <<row, host, taken, may, crashes>>
  BY DEF Inv, Typed, MoveKey
<1>2. /\ doing' \in Operation /\ doing' # None /\ doing'.op = "migrate"
      /\ doing'.id = doing.id /\ doing'.next = doing.next /\ doing'.todo = doing.todo \ {p}
  BY <1>1, SettingsAssumption DEF Operation
<1>3. /\ doing.id = None /\ host = "opening" /\ builtins = {}
      /\ doing.todo \subseteq plaintext
      /\ \A q \in plaintext \ doing.todo : secret[q] = row.models[q].plain
      /\ \E d \in Repaired : doing.next = [row EXCEPT !.models = Stripped, !.default = d]
  BY <1>1 DEF Inv, MigrationInv
<1>4. /\ p \in plaintext /\ p \in DOMAIN row.models /\ row.models[p].plain \in Key
      /\ row.models[p].plain \in KeyOrNone /\ p \in taken
  BY <1>1, <1>3 DEF plaintext, KeyOrNone, Inv, FreshInv
<1>5. /\ secret' \in [Id -> KeyOrNone] /\ secret'[p] = row.models[p].plain
      /\ \A q \in Id \ {p} : secret'[q] = secret[q]
  BY <1>1, <1>4 DEF Inv, Typed
<1>6. Typed' /\ StoryInv' /\ StartInv'
  BY <1>1, <1>2, <1>3, <1>5 DEF Inv, Typed, StoryInv, HasStory, StartInv
<1>7. FreshInv'
  BY <1>1, <1>2, <1>4, <1>5 DEF Inv, FreshInv
<1>8. KeyInv'
  <2>1. \A q \in Id : ~Pending({q})
    BY <1>3, SettingsAssumption DEF Pending
  <2> QED
    BY <1>1, <1>4, <1>5, <2>1 DEF Inv, KeyInv
<1>9. MigrationInv'
  <2>1. /\ plaintext' = plaintext /\ Stripped' = Stripped /\ plaintext \subseteq Id
        /\ builtins' = {} /\ Repaired' = Repaired
    <3>1. plaintext \subseteq Id
      BY RowTyping, TableForm DEF plaintext, Inv, Typed
    <3> QED
      BY <1>1, <1>3, <3>1 DEF plaintext, Stripped, builtins, Repaired
  <2>2. \A q \in plaintext \ doing'.todo : secret'[q] = row.models[q].plain
    BY <1>2, <1>3, <1>5, <2>1
  <2> QED
    BY <1>1, <1>2, <1>3, <2>1, <2>2 DEF MigrationInv
<1>10. BuiltinInv'
  BY <1>1, <1>2, <1>3 DEF BuiltinInv, builtins
<1>11. DefaultInv'
  BY <1>1, <1>2 DEF Inv, DefaultInv, Usable, InCatalog
<1> QED
  BY <1>2, <1>6, <1>7, <1>8, <1>9, <1>10, <1>11 DEF Inv, PendingInv

LEMMA FinishMigrationStep ==
  ASSUME Inv, FinishMigration
  PROVE  Inv'
<1>1. /\ doing \in Operation /\ doing # None /\ doing.op = "migrate" /\ doing.todo = {}
      /\ row' = doing.next /\ doing' = None /\ host' = "importing"
      /\ UNCHANGED <<secret, taken, may, crashes>>
  BY DEF Inv, Typed, FinishMigration
<1>2. /\ doing.id = None /\ builtins = {}
      /\ \A p \in plaintext : secret[p] = row.models[p].plain
  BY <1>1 DEF Inv, MigrationInv
<1>3. PICK d \in Repaired : row' = [row EXCEPT !.models = Stripped, !.default = d]
  BY <1>1 DEF Inv, MigrationInv
<1>4. row \in Row /\ row.models \in Table /\ d \in {None} \cup (Id \X (Model \cup {None}))
  BY RowTyping, RepairedTyping DEF Inv, Typed
<1>5. /\ Stripped \in Table /\ DOMAIN Stripped = DOMAIN row.models
      /\ \A p \in DOMAIN row.models :
           /\ Stripped[p].plain = None
           /\ row.models[p].plain # None => Stripped[p].hasKey = (p \in plaintext)
           /\ row.models[p].plain = None => Stripped[p].hasKey = row.models[p].hasKey
  BY <1>4, StrippedTyping
<1>6. row' \in Row /\ row'.models = Stripped
  BY <1>3, <1>4, <1>5 DEF Row
<1>7. /\ DOMAIN row'.models = DOMAIN row.models /\ builtins' = {}
      /\ \A p \in DOMAIN row.models :
           /\ row'.models[p].plain = None
           /\ row.models[p].plain # None => row'.models[p].hasKey = (p \in plaintext)
           /\ row.models[p].plain = None => row'.models[p].hasKey = row.models[p].hasKey
           /\ p \notin Builtin /\ row.models[p].plain \in KeyOrNone \cup {Empty}
  BY <1>2, <1>4, <1>5, <1>6, TableForm DEF builtins
<1>8. StoryInv'
  <2> SUFFICES ASSUME NEW p \in Id
               PROVE  may[p] # {} /\ HasStory(row'.models, may[p], p)
    BY <1>1 DEF StoryInv
  <2>1. may[p] # {} /\ (p \in DOMAIN row.models => HasStory(row.models, may[p], p))
    BY <1>7 DEF Inv, StoryInv
  <2>2. CASE p \notin DOMAIN row.models
    BY <1>7, <2>1, <2>2 DEF HasStory
  <2>3. CASE p \in DOMAIN row.models /\ row.models[p].plain \in Key
    <3>1. row'.models[p].hasKey /\ row'.models[p].plain = None /\ None \notin Key
      BY <1>7, <2>3, SettingsAssumption DEF plaintext
    <3>2. may[p] # {None}
      BY <2>1, <2>3, <3>1 DEF HasStory
    <3> QED
      BY <2>1, <3>1, <3>2, SettingsAssumption DEF HasStory, KeyOrNone
  <2>4. CASE p \in DOMAIN row.models /\ row.models[p].plain = Empty
    <3>1. ~row'.models[p].hasKey /\ row'.models[p].plain = None
      BY <1>7, <2>4, SettingsAssumption DEF plaintext, KeyOrNone
    <3> QED
      BY <2>1, <2>4, <3>1, SettingsAssumption DEF HasStory, KeyOrNone
  <2>5. CASE p \in DOMAIN row.models /\ row.models[p].plain = None
    <3>1. row'.models[p].hasKey = row.models[p].hasKey /\ row'.models[p].plain = None
      BY <1>7, <2>5
    <3> QED
      BY <2>1, <2>5, <3>1, SettingsAssumption DEF HasStory, KeyOrNone
  <2> QED
    BY <1>7, <2>2, <2>3, <2>4, <2>5 DEF KeyOrNone
<1>9. KeyInv'
  <2> SUFFICES ASSUME NEW p \in Id
               PROVE  secret[p] \in may[p]
    BY <1>1 DEF KeyInv
  <2>1. ~Pending({p})
    BY <1>2, SettingsAssumption DEF Pending
  <2>2. CASE p \in plaintext
    <3>1. HasStory(row.models, may[p], p)
      BY <1>7, <2>2 DEF Inv, StoryInv, plaintext
    <3> QED
      BY <1>2, <2>2, <3>1 DEF HasStory, plaintext
  <2>3. CASE p \notin plaintext
    BY <1>7, <2>1, <2>3 DEF Inv, KeyInv, plaintext
  <2> QED
    BY <2>2, <2>3
<1>10. StartInv' /\ FreshInv'
  <2>1. row'.default # None => row'.default[1] \in taken
    BY <1>1 DEF Inv, FreshInv
  <2> QED
    BY <1>1, <1>7, <2>1 DEF Inv, StartInv, FreshInv
<1>11. InCatalog(row')
  BY <1>1 DEF Inv, DefaultInv
<1> QED
  BY <1>1, <1>6, <1>7, <1>8, <1>9, <1>10, <1>11
  DEF Inv, Typed, BuiltinInv, MigrationInv, PendingInv, DefaultInv

-----------------------------------------------------------------------------
(* The other steps *)

(* A first half that keeps what is asked of an operation under way keeps all. *)
LEMMA BeginStep ==
  ASSUME Inv, NEW p \in Id, NEW key \in KeyOrNone,
         doing = None, host \in {"importing", "up"}, UNCHANGED <<row, host, may, crashes>>,
         secret' = [secret EXCEPT ![p] = key], taken' = taken \cup {p},
         doing' \in Operation, doing' # None, doing'.id = p,
         doing'.op \notin {"builtins", "migrate"},
         host = (IF doing'.op = "import" THEN "importing" ELSE "up"),
         Promises(doing', row.models, secret', may),
         doing'.op # "import" => Restored(doing)' \in may[p],
         InCatalog(doing'.next), Usable(row) => Usable(doing'.next),
         doing'.next.default # row.default => Usable(doing'.next),
         doing'.next.default # None => doing'.next.default[1] \in taken'
  PROVE  Inv'
<1>1. /\ secret' \in [Id -> KeyOrNone] /\ \A q \in Id \ {p} : secret'[q] = secret[q]
  BY DEF Inv, Typed
<1>2. Typed' /\ StoryInv'
  BY <1>1 DEF Inv, Typed, StoryInv, HasStory
<1>3. StartInv' /\ FreshInv'
  BY <1>1 DEF Inv, StartInv, FreshInv, builtins
<1>4. KeyInv'
  BY <1>1 DEF Inv, KeyInv, Pending
<1>5. MigrationInv' /\ BuiltinInv'
  <2>1. builtins' = {}
    BY DEF Inv, StartInv, builtins
  <2> QED
    BY <2>1 DEF MigrationInv, BuiltinInv
<1>6. PendingInv'
  <2>1. Promises(doing, row.models, secret, may)'
    BY DEF Promises, HasStory
  <2> QED
    BY <2>1 DEF PendingInv
<1>7. DefaultInv'
  <2>1. /\ Usable(row') = Usable(row) /\ Usable(doing.next)' = Usable(doing'.next)
        /\ InCatalog(row') = InCatalog(row) /\ InCatalog(doing.next)' = InCatalog(doing'.next)
    BY DEF Usable, InCatalog
  <2> QED
    BY <2>1 DEF Inv, DefaultInv
<1> QED
  BY <1>2, <1>3, <1>4, <1>5, <1>6, <1>7 DEF Inv

LEMMA ImportStep ==
  ASSUME Inv, NEW p \in Id, importEnvFallback(p)
  PROVE  Inv'
<1>1. /\ doing' \in Operation /\ doing'.op = "import" /\ doing'.id = p /\ doing' # None
      /\ doing'.new = EnvKey
      /\ DOMAIN doing'.next.models = DOMAIN row.models \cup {p}
      /\ \A q \in DOMAIN row.models \ {p} : doing'.next.models[q] = row.models[q]
      /\ doing'.next.models[p].plain = None /\ doing'.next.models[p].hasKey
      /\ EnvModel \in doing'.next.models[p].models
      /\ doing'.next.default = <<p, EnvModel>>
  BY ImportForm DEF Inv
<1>2. /\ host = "importing" /\ doing = None /\ UNCHANGED <<row, host, may, crashes>>
      /\ secret' = [secret EXCEPT ![p] = EnvKey] /\ taken' = taken \cup {p}
  BY DEF importEnvFallback
<1>3. EnvKey \in Key /\ EnvKey \in KeyOrNone /\ EnvKey # Keep /\ EnvKey # None
  BY SettingsAssumption DEF KeyOrNone
<1>4. secret'[p] = EnvKey /\ p \notin Builtin
  BY <1>2 DEF Inv, Typed, FreshInv, StartInv, builtins, importEnvFallback
<1>5. Promises(doing', row.models, secret', may)
  <2>1. HasStory(doing'.next.models, {EnvKey}, p)
    BY <1>1, <1>3, SettingsAssumption DEF HasStory, KeyOrNone
  <2>2. doing'.new # Keep /\ doing'.new \in Key
    BY <1>1, <1>3
  <2>3. /\ DOMAIN doing'.next.models \ {p} = DOMAIN row.models \ {p}
        /\ \A q \in DOMAIN row.models \ {p} : doing'.next.models[q] = row.models[q]
        /\ doing'.next.models[p].plain = None
    BY <1>1
  <2>4. doing'.id = p /\ doing'.new = EnvKey
    BY <1>1
  <2> QED
    BY <1>4, <2>1, <2>2, <2>3, <2>4 DEF Promises
<1>6. /\ Usable(doing'.next) /\ InCatalog(doing'.next)
      /\ doing'.next.default # None => doing'.next.default[1] \in taken'
  BY <1>1, <1>2 DEF Usable, InCatalog, First
<1> QED
  BY <1>1, <1>2, <1>3, <1>5, <1>6, BeginStep

LEMMA AddStep ==
  ASSUME Inv, NEW p \in Id, NEW u \in Url, NEW ms \in Catalog, NEW key \in KeyOrNone,
         addModel(p, u, ms, key)
  PROVE  Inv'
<1>1. /\ doing' \in Operation /\ doing'.op = "add" /\ doing'.id = p /\ doing' # None
      /\ doing'.new = key
      /\ DOMAIN doing'.next.models = DOMAIN row.models \cup {p}
      /\ \A q \in DOMAIN row.models \ {p} : doing'.next.models[q] = row.models[q]
      /\ doing'.next.models[p].plain = None
      /\ doing'.next.models[p].hasKey = (key # None)
      /\ doing'.next.default = row.default
  BY AddForm DEF Inv
<1>2. /\ host = "up" /\ doing = None /\ UNCHANGED <<row, host, may, crashes>>
      /\ taken' = taken \cup {p} /\ p \notin taken /\ p \notin DOMAIN row.models
      /\ p \notin Builtin
      /\ row.default # None => row.default[1] # p /\ row.default[1] \in taken
  BY DEF addModel, Idle, Inv, FreshInv
<1>3. may[p] = {None} /\ secret[p] = None /\ secret \in [Id -> KeyOrNone]
  BY <1>2 DEF Inv, FreshInv, Typed
<1>4. secret' = [secret EXCEPT ![p] = key] /\ secret'[p] = key /\ key # Keep
  BY <1>3, SettingsAssumption DEF addModel
<1>5. Promises(doing', row.models, secret', may)
  <2>1. HasStory(doing'.next.models, {key}, p)
    BY <1>1, SettingsAssumption DEF HasStory, KeyOrNone
  <2>2. /\ DOMAIN doing'.next.models \ {p} = DOMAIN row.models \ {p}
        /\ \A q \in DOMAIN row.models \ {p} : doing'.next.models[q] = row.models[q]
        /\ doing'.next.models[p].plain = None
    BY <1>1
  <2>3. doing'.id = p /\ doing'.new = key /\ doing'.op = "add"
    BY <1>1
  <2> QED
    BY <1>2, <1>4, <2>1, <2>2, <2>3 DEF Promises
<1>6. Restored(doing)' \in may[p]
  BY <1>1, <1>3, <1>4 DEF Restored
<1>7. /\ Usable(row) => Usable(doing'.next)
      /\ doing'.next.default # None => doing'.next.default[1] \in taken'
  BY <1>1, <1>2 DEF Usable
<1>8. InCatalog(doing'.next)
  <2>1. InCatalog(row)
    BY <1>2 DEF Inv, DefaultInv
  <2> QED
    BY <1>1, <1>2, <2>1 DEF InCatalog
<1> QED
  BY <1>1, <1>2, <1>4, <1>5, <1>6, <1>7, <1>8, BeginStep

(* What a request finds of a listed provider, none of whose operations is under way. *)
LEMMA ListedProvider ==
  ASSUME Inv, Idle, NEW p \in DOMAIN row.models
  PROVE  /\ p \in Id \ Builtin /\ p \in taken /\ row.models[p].plain = None
         /\ secret[p] \in KeyOrNone /\ secret[p] \in may[p]
         /\ row.models[p].hasKey => may[p] # {None}
         /\ ~row.models[p].hasKey => None \in may[p]
         /\ oldApiKey(p) \in may[p] /\ oldApiKey(p) \in KeyOrNone
<1>1. p \in Id \ Builtin /\ p \in taken /\ row.models[p].plain = None
  BY DEF Inv, FreshInv, Typed, StartInv, Idle, builtins
<1>2. secret[p] \in KeyOrNone /\ secret[p] \in may[p]
  BY <1>1, SettingsAssumption DEF Inv, Typed, KeyInv, Pending, Idle
<1>3. /\ row.models[p].hasKey => may[p] # {None}
      /\ ~row.models[p].hasKey => None \in may[p]
  BY <1>1 DEF Inv, StoryInv, HasStory
<1> QED
  BY <1>1, <1>2, <1>3 DEF oldApiKey, KeyOrNone

LEMMA UpdateStep ==
  ASSUME Inv, NEW p \in Id, NEW url \in Url \cup {Keep}, NEW models \in Catalog \cup {Keep},
         NEW key \in KeyOrNone \cup {Keep}, updateModel(p, url, models, key)
  PROVE  Inv'
<1> DEFINE has  == hasApiKeyAfter(p, key)
           left == IF key = Keep THEN secret[p] ELSE key
<1>1. /\ doing' \in Operation /\ doing'.op = "update" /\ doing'.id = p /\ doing' # None
      /\ doing'.new = key /\ doing'.old = oldApiKey(p)
      /\ DOMAIN doing'.next.models = DOMAIN row.models
      /\ \A q \in DOMAIN row.models \ {p} : doing'.next.models[q] = row.models[q]
      /\ doing'.next.models[p].plain = None
      /\ doing'.next.models[p].hasKey = has
      /\ doing'.next.models[p].models = {} => row.models[p].models = {}
      /\ \E first \in First(doing'.next.models[p].models) :
           doing'.next.default = DefaultAfter(p, has, doing'.next.models[p].models, first)
  BY UpdateForm DEF Inv
<1>2. /\ Idle /\ host = "up" /\ doing = None /\ p \in DOMAIN row.models
      /\ secret' = [secret EXCEPT ![p] = left] /\ UNCHANGED <<row, host, taken, may, crashes>>
  BY DEF updateModel, Idle
<1>3. /\ p \in Id \ Builtin /\ p \in taken /\ row.models[p].plain = None
      /\ secret[p] \in KeyOrNone /\ secret[p] \in may[p]
      /\ row.models[p].hasKey => may[p] # {None}
      /\ oldApiKey(p) \in may[p] /\ oldApiKey(p) \in KeyOrNone
  BY <1>2, ListedProvider
<1>4. left \in KeyOrNone /\ taken' = taken \cup {p}
  BY <1>2, <1>3
<1>5. secret'[p] = left
  BY <1>2 DEF Inv, Typed
<1>6. Promises(doing', row.models, secret', may)
  <2> DEFINE told == IF key = Keep THEN may[p] ELSE {key}
  <2>1. left \in told
    BY <1>3
  <2>2. (has => told # {None}) /\ (~has => None \in told)
    BY <1>3 DEF hasApiKeyAfter, oldApiKey
  <2>3. HasStory(doing'.next.models, told, p)
    BY <1>1, <2>2, SettingsAssumption DEF HasStory, KeyOrNone
  <2> QED
    BY <1>1, <1>3, <1>5, <2>1, <2>3 DEF Promises
<1>7. Restored(doing)' \in may[p]
  BY <1>1, <1>3, <1>5 DEF Restored
<1>8. /\ InCatalog(doing'.next) /\ (Usable(row) => Usable(doing'.next))
      /\ doing'.next.default # row.default => Usable(doing'.next)
      /\ doing'.next.default # None => doing'.next.default[1] \in taken
  <2> DEFINE ms == doing'.next.models[p].models
  <2>1. PICK first \in First(ms) : doing'.next.default = DefaultAfter(p, has, ms, first)
    BY <1>1
  <2>2. /\ row.default # None => row.default[1] \in taken
        /\ InCatalog(row) /\ row.default \in {None} \cup (Id \X (Model \cup {None}))
    BY <1>2, RowTyping DEF Inv, FreshInv, DefaultInv, Typed
  <2>3. CASE row.default = None \/ row.default[1] # p
    <3>1. doing'.next.default = row.default
      BY <2>1, <2>3 DEF DefaultAfter
    <3> QED
      BY <1>1, <2>2, <2>3, <3>1 DEF Usable, InCatalog
  <2>4. CASE row.default # None /\ row.default[1] = p /\ ~has
    <3>1. doing'.next.default = None
      BY <2>1, <2>4 DEF DefaultAfter
    <3> QED
      BY <3>1 DEF Usable, InCatalog
  <2>5. CASE row.default # None /\ row.default[1] = p /\ has /\ row.default[2] \in ms
    <3>1. doing'.next.default = row.default
      BY <2>1, <2>5 DEF DefaultAfter
    <3> QED
      BY <1>1, <1>2, <2>2, <2>5, <3>1 DEF Usable, InCatalog, First
  <2>6. CASE row.default # None /\ row.default[1] = p /\ has /\ row.default[2] \notin ms
    <3>1. doing'.next.default = <<p, first>>
      BY <2>1, <2>6 DEF DefaultAfter
    <3>2. CASE ms # {}
      <4>1. first \in ms
        BY <2>1, <3>2 DEF First
      <4>2. doing'.next.default[1] = p /\ doing'.next.default[2] \in ms
        BY <3>1, <4>1
      <4>3. /\ p \in DOMAIN doing'.next.models /\ doing'.next.models[p].plain = None
            /\ doing'.next.models[p].hasKey
        BY <1>1, <1>2, <2>6
      <4>4. Usable(doing'.next) /\ InCatalog(doing'.next)
        BY <4>2, <4>3 DEF Usable, InCatalog, First
      <4> QED
        BY <1>3, <4>2, <4>4
    <3>3. CASE ms = {}
      <4>1. first = None /\ row.models[p].models = {}
        BY <1>1, <2>1, <3>3 DEF First
      <4>2. row.default[2] = None
        BY <1>2, <2>2, <2>6, <4>1 DEF InCatalog, First
      <4>3. doing'.next.default = row.default
        BY <2>2, <2>6, <3>1, <4>1, <4>2
      <4>4. ~Usable(row)
        BY <2>6, <4>1 DEF Usable
      <4>5. doing'.next.default[1] = p /\ doing'.next.default[2] \in First(ms)
        BY <2>1, <3>1
      <4> QED
        BY <1>3, <4>3, <4>4, <4>5 DEF InCatalog
    <3> QED
      BY <3>2, <3>3
  <2> QED
    BY <2>3, <2>4, <2>5, <2>6
<1> QED
  BY <1>1, <1>2, <1>4, <1>6, <1>7, <1>8, BeginStep

LEMMA DeleteStep ==
  ASSUME Inv, NEW p \in Id, deleteModel(p)
  PROVE  Inv'
<1> DEFINE left == IF row.models[p].hasKey THEN None ELSE secret[p]
           new  == IF row.models[p].hasKey THEN None ELSE Keep
<1>1. /\ doing' \in Operation /\ doing'.op = "delete" /\ doing'.id = p /\ doing' # None
      /\ doing'.old = oldApiKey(p) /\ doing'.new = new
      /\ DOMAIN doing'.next.models = DOMAIN row.models \ {p}
      /\ \A q \in DOMAIN row.models \ {p} : doing'.next.models[q] = row.models[q]
      /\ doing'.next.default =
           (IF row.default # None /\ row.default[1] = p THEN None ELSE row.default)
  BY DeleteForm DEF Inv
<1>2. /\ Idle /\ host = "up" /\ doing = None /\ p \in DOMAIN row.models
      /\ secret' = [secret EXCEPT ![p] = left] /\ UNCHANGED <<row, host, taken, may, crashes>>
  BY DEF deleteModel, Idle
<1>3. /\ p \in Id \ Builtin /\ p \in taken /\ row.models[p].plain = None
      /\ secret[p] \in KeyOrNone /\ secret[p] \in may[p]
      /\ oldApiKey(p) \in may[p] /\ oldApiKey(p) \in KeyOrNone
  BY <1>2, ListedProvider
<1>4. left \in KeyOrNone /\ taken' = taken \cup {p} /\ None # Keep
  BY <1>2, <1>3, SettingsAssumption DEF KeyOrNone
<1>5. secret'[p] = left
  BY <1>2 DEF Inv, Typed
<1>6. Promises(doing', row.models, secret', may)
  <2>1. left \in (IF new = Keep THEN may[p] ELSE {new})
    BY <1>3, <1>4
  <2> QED
    BY <1>1, <1>3, <1>5, <2>1 DEF Promises, HasStory
<1>7. Restored(doing)' \in may[p]
  <2>1. CASE row.models[p].hasKey
    <3>1. secret'[p] = None /\ (oldApiKey(p) = None => None \in may[p])
      BY <1>3, <1>5, <2>1
    <3>2. doing'.new = None /\ doing'.new # Keep
      BY <1>1, <1>4, <2>1
    <3> QED
      BY <1>1, <1>3, <3>1, <3>2 DEF Restored
  <2>2. CASE ~row.models[p].hasKey
    BY <1>1, <1>3, <1>5, <2>2 DEF Restored, oldApiKey
  <2> QED
    BY <2>1, <2>2
<1>8. /\ InCatalog(doing'.next) /\ (Usable(row) => Usable(doing'.next))
      /\ doing'.next.default # row.default => Usable(doing'.next)
      /\ doing'.next.default # None => doing'.next.default[1] \in taken
  <2>1. InCatalog(row) /\ (row.default # None => row.default[1] \in taken)
    BY <1>2 DEF Inv, DefaultInv, FreshInv
  <2> QED
    BY <1>1, <2>1 DEF Usable, InCatalog
<1> QED
  BY <1>1, <1>2, <1>4, <1>6, <1>7, <1>8, BeginStep

LEMMA SetDefaultStep ==
  ASSUME Inv, NEW p \in Id, NEW m \in Model, setDefaultModel(p, m)
  PROVE  Inv'
<1>1. /\ doing = None /\ row' = [row EXCEPT !.default = <<p, m>>]
      /\ p \in DOMAIN row.models /\ row.models[p].hasKey /\ m \in row.models[p].models
      /\ UNCHANGED <<secret, host, doing, taken, may, crashes>>
  BY DEF setDefaultModel, Idle
<1>2. row' \in Row /\ row'.models = row.models /\ row'.default = <<p, m>>
  BY <1>1 DEF Inv, Typed, Row
<1>3. Typed' /\ StoryInv'
  BY <1>1, <1>2 DEF Inv, Typed, StoryInv, HasStory
<1>4. StartInv' /\ FreshInv' /\ BuiltinInv'
  BY <1>1, <1>2 DEF Inv, StartInv, FreshInv, BuiltinInv, builtins
<1>5. KeyInv'
  BY <1>1, <1>2 DEF Inv, KeyInv, Pending
<1>6. InCatalog(row')
  BY <1>1, <1>2 DEF InCatalog, First
<1> QED
  BY <1>1, <1>3, <1>4, <1>5, <1>6 DEF Inv, MigrationInv, PendingInv, DefaultInv

LEMMA NothingToImportStep ==
  ASSUME Inv, NothingToImport
  PROVE  Inv'
<1>1. /\ host = "importing" /\ host' = "up" /\ doing = None
      /\ UNCHANGED <<row, secret, doing, taken, may, crashes>>
  BY DEF NothingToImport
<1>2. Typed' /\ StoryInv'
  BY <1>1 DEF Inv, Typed, StoryInv, HasStory
<1>3. StartInv' /\ FreshInv' /\ BuiltinInv'
  BY <1>1 DEF Inv, StartInv, FreshInv, BuiltinInv, builtins
<1>4. KeyInv'
  BY <1>1 DEF Inv, KeyInv, Pending
<1>5. DefaultInv'
  BY <1>1 DEF Inv, DefaultInv, InCatalog
<1> QED
  BY <1>1, <1>2, <1>3, <1>4, <1>5 DEF Inv, MigrationInv, PendingInv

(* What is known of an operation that is not of the opening, for its second half. *)
LEMMA UnderWay ==
  ASSUME Inv, doing # None, doing.op \notin {"builtins", "migrate"}
  PROVE  /\ doing \in Operation /\ doing.id \in Id \ Builtin /\ doing.id \in taken
         /\ builtins = {}
         /\ host = (IF doing.op = "import" THEN "importing" ELSE "up")
         /\ \A q \in DOMAIN row.models : row.models[q].plain = None
         /\ \A q \in Id \ {doing.id} : secret[q] \in may[q]
         /\ Told(doing.new) \subseteq KeyOrNone \cup {Lost}
         /\ Doubt(doing) \subseteq KeyOrNone \cup {Lost}
         /\ may[doing.id] \subseteq Doubt(doing) /\ secret[doing.id] \in Told(doing.new)
         /\ secret[doing.id] \in Doubt(doing)
<1>1. doing \in Operation /\ doing.new \in KeyOrNone \cup {Keep}
  BY DEF Inv, Typed, Operation
<1>2. /\ doing.id \in Id \ Builtin /\ doing.id \in taken
      /\ host = (IF doing.op = "import" THEN "importing" ELSE "up")
      /\ secret[doing.id] \in Told(doing.new)
  BY DEF Inv, PendingInv, Promises, Told
<1>3. builtins = {} /\ \A q \in DOMAIN row.models : row.models[q].plain = None
  BY <1>2 DEF Inv, StartInv
<1>4. \A q \in Id \ {doing.id} : secret[q] \in may[q]
  BY <1>3, SettingsAssumption DEF Inv, KeyInv, Pending, builtins
<1>5. may[doing.id] \subseteq KeyOrNone \cup {Lost}
  BY <1>2 DEF Inv, Typed
<1>6. /\ Told(doing.new) \subseteq Doubt(doing) /\ may[doing.id] \subseteq Doubt(doing)
      /\ Doubt(doing) \subseteq KeyOrNone \cup {Lost}
  BY <1>1, <1>5 DEF Told, Doubt
<1> QED
  BY <1>1, <1>2, <1>3, <1>4, <1>6

LEMMA WriteStep ==
  ASSUME Inv, writeSettings
  PROVE  Inv'
<1> DEFINE p    == doing.id
           told == Told(doing.new)
<1>1. /\ doing # None /\ doing.op \notin {"builtins", "migrate"}
      /\ row' = doing.next /\ doing' = None
      /\ may' = [may EXCEPT ![p] = told] /\ host' = AfterWrite
      /\ UNCHANGED <<secret, taken, crashes>>
  BY DEF writeSettings
<1>2. /\ doing \in Operation /\ p \in Id \ Builtin /\ p \in taken /\ builtins = {}
      /\ host = (IF doing.op = "import" THEN "importing" ELSE "up")
      /\ \A q \in DOMAIN row.models : row.models[q].plain = None
      /\ \A q \in Id \ {p} : secret[q] \in may[q]
      /\ told \subseteq KeyOrNone \cup {Lost} /\ secret[p] \in told
  BY <1>1, UnderWay
<1>3. /\ DOMAIN row'.models \ {p} = DOMAIN row.models \ {p}
      /\ \A q \in DOMAIN row.models \ {p} : row'.models[q] = row.models[q]
      /\ p \in DOMAIN row'.models => row'.models[p].plain = None
      /\ HasStory(row'.models, told, p)
  BY <1>1 DEF Inv, PendingInv, Promises, Told
<1> HIDE DEF p, told
<1>4. /\ may' \in [Id -> SUBSET (KeyOrNone \cup {Lost})] /\ may'[p] = told
      /\ \A q \in Id \ {p} : may'[q] = may[q]
  BY <1>1, <1>2 DEF Inv, Typed
<1>5. host' = "up" /\ row' \in Row
  BY <1>1, <1>2 DEF AfterWrite, Operation
<1>6. Typed'
  BY <1>1, <1>4, <1>5 DEF Inv, Typed
<1>7. StoryInv'
  <2> SUFFICES ASSUME NEW q \in Id
               PROVE  may'[q] # {} /\ (q \notin Builtin => HasStory(row'.models, may'[q], q))
    BY DEF StoryInv
  <2>1. CASE q = p
    BY <1>2, <1>3, <1>4, <2>1
  <2>2. CASE q # p
    <3>1. may[q] # {} /\ (q \notin Builtin => HasStory(row.models, may[q], q))
      BY DEF Inv, StoryInv
    <3> QED
      BY <1>3, <1>4, <2>2, <3>1 DEF HasStory
  <2> QED
    BY <2>1, <2>2
<1>8. StartInv' /\ builtins' = {}
  BY <1>2, <1>3 DEF StartInv, builtins
<1>9. KeyInv'
  BY <1>1, <1>2, <1>3, <1>4 DEF KeyInv
<1>10. FreshInv'
  <2>1. row'.default # None => row'.default[1] \in taken
    BY <1>1 DEF Inv, FreshInv
  <2> QED
    BY <1>1, <1>2, <1>3, <1>4, <2>1 DEF Inv, FreshInv
<1>11. InCatalog(row')
  BY <1>1 DEF Inv, DefaultInv
<1> QED
  BY <1>1, <1>6, <1>7, <1>8, <1>9, <1>10, <1>11
  DEF Inv, BuiltinInv, MigrationInv, PendingInv, DefaultInv

(* An operation is given up: the row is as it was, and the user is left to reckon *)
(* with what the store may now have.                                           *)
LEMMA GiveUpStep ==
  ASSUME Inv, doing # None, doing.op \notin {"builtins", "migrate"},
         doing' = None, UNCHANGED <<row, taken>>,
         host' \in {"down", host}, crashes' \in 0 .. MaxCrashes,
         NEW keys \in SUBSET (KeyOrNone \cup {Lost}), NEW key \in KeyOrNone,
         may' = [may EXCEPT ![doing.id] = keys], secret' = [secret EXCEPT ![doing.id] = key],
         key \in keys, keys = may[doing.id] \/ keys = Doubt(doing)
  PROVE  Inv'
<1> DEFINE p == doing.id
<1>1. /\ p \in Id \ Builtin /\ p \in taken /\ builtins = {}
      /\ \A q \in DOMAIN row.models : row.models[q].plain = None
      /\ \A q \in Id \ {p} : secret[q] \in may[q]
      /\ host \in {"importing", "up"}
  BY UnderWay
<1>2. /\ may' \in [Id -> SUBSET (KeyOrNone \cup {Lost})] /\ may'[p] = keys
      /\ \A q \in Id \ {p} : may'[q] = may[q]
      /\ secret' \in [Id -> KeyOrNone] /\ secret'[p] = key
      /\ \A q \in Id \ {p} : secret'[q] = secret[q]
  BY <1>1 DEF Inv, Typed
<1>3. may[p] # {} /\ HasStory(row.models, may[p], p)
  BY <1>1 DEF Inv, StoryInv
<1>4. HasStory(row.models, keys, p)
  <2>1. may[p] \subseteq keys
    BY DEF Doubt
  <2>2. CASE keys = may[p]
    BY <1>3, <2>2
  <2>3. CASE keys # may[p]
    <3>1. PICK k \in keys : k \notin may[p]
      BY <2>1, <2>3
    <3>2. keys # {None}
      BY <1>3, <2>1, <3>1
    <3> QED
      BY <1>1, <1>3, <2>1, <3>2, SettingsAssumption DEF HasStory, KeyOrNone
  <2> QED
    BY <2>2, <2>3
<1> HIDE DEF p
<1>5. Typed'
  BY <1>2 DEF Inv, Typed
<1>6. StoryInv'
  BY <1>1, <1>2, <1>4 DEF Inv, StoryInv
<1>7. KeyInv' /\ StartInv' /\ builtins' = {}
  BY <1>1, <1>2 DEF KeyInv, StartInv, builtins
<1>8. FreshInv'
  BY <1>1, <1>2 DEF Inv, FreshInv
<1>9. DefaultInv'
  BY <1>1 DEF Inv, DefaultInv, InCatalog
<1> QED
  BY <1>5, <1>6, <1>7, <1>8, <1>9 DEF Inv, BuiltinInv, MigrationInv, PendingInv

LEMMA FailStep ==
  ASSUME Inv, NEW restores \in BOOLEAN, WriteFails(restores)
  PROVE  Inv'
<1> DEFINE p == doing.id
<1>1. /\ doing # None /\ doing.op \notin {"builtins", "migrate"} /\ doing' = None
      /\ UNCHANGED <<row, taken, crashes>> /\ host' \in {"down", host}
  BY DEF WriteFails
<1>2. /\ doing \in Operation /\ p \in Id /\ Doubt(doing) \subseteq KeyOrNone \cup {Lost}
      /\ secret[p] \in Doubt(doing) /\ secret \in [Id -> KeyOrNone]
      /\ may \in [Id -> SUBSET (KeyOrNone \cup {Lost})]
  BY <1>1, UnderWay DEF Inv, Typed
<1>3. /\ crashes' \in 0 .. MaxCrashes /\ secret[p] \in KeyOrNone
      /\ may[p] \in SUBSET (KeyOrNone \cup {Lost})
  BY <1>1, <1>2 DEF Inv, Typed
<1>4. CASE restores /\ doing.op # "import"
  <2>1. secret' = [secret EXCEPT ![p] = Restored(doing)] /\ may' = [may EXCEPT ![p] = may[p]]
    BY <1>2, <1>4 DEF WriteFails
  <2>2. Restored(doing) \in may[p]
    BY <1>1, <1>4 DEF Inv, PendingInv
  <2>3. Restored(doing) \in KeyOrNone
    BY <1>2, <1>3 DEF Restored, Operation, KeyOrNone
  <2> QED
    BY <1>1, <1>3, <2>1, <2>2, <2>3, GiveUpStep
<1>5. CASE ~restores \/ doing.op = "import"
  <2>1. may' = [may EXCEPT ![p] = Doubt(doing)]
    BY <1>5 DEF WriteFails
  <2>2. secret' = [secret EXCEPT ![p] = secret[p]]
    BY <1>2, <1>5 DEF WriteFails, Restored
  <2> QED
    BY <1>1, <1>2, <1>3, <2>1, <2>2, GiveUpStep
<1> QED
  BY <1>4, <1>5

LEMMA CrashStep ==
  ASSUME Inv, Crash
  PROVE  Inv'
<1>1. /\ host' = "down" /\ doing' = None /\ UNCHANGED <<row, secret, taken>>
      /\ crashes' \in 0 .. MaxCrashes
  BY SettingsAssumption DEF Crash, Inv, Typed
<1>2. CASE doing # None /\ doing.op \notin {"builtins", "migrate"}
  <2>1. /\ doing.id \in Id /\ Doubt(doing) \in SUBSET (KeyOrNone \cup {Lost})
        /\ secret[doing.id] \in Doubt(doing) /\ secret \in [Id -> KeyOrNone]
    BY <1>2, UnderWay DEF Inv, Typed
  <2>2. secret' = [secret EXCEPT ![doing.id] = secret[doing.id]] /\ secret[doing.id] \in KeyOrNone
    BY <1>1, <2>1
  <2>3. may' = [may EXCEPT ![doing.id] = Doubt(doing)]
    BY <1>2 DEF Crash
  <2> QED
    BY <1>1, <1>2, <2>1, <2>2, <2>3, GiveUpStep
<1>3. CASE doing = None \/ doing.op \in {"builtins", "migrate"}
  <2>1. may' = may
    BY <1>3 DEF Crash
  <2>2. \A p \in Id : ~Pending({p})
    BY <1>3, SettingsAssumption DEF Pending, Inv, MigrationInv, BuiltinInv
  <2>3. KeyInv'
    BY <1>1, <2>1, <2>2 DEF Inv, KeyInv
  <2>4. Typed' /\ StoryInv' /\ StartInv' /\ FreshInv'
    BY <1>1, <2>1 DEF Inv, Typed, StoryInv, HasStory, StartInv, FreshInv
  <2>5. BuiltinInv'
    BY <1>1, <2>1 DEF Inv, BuiltinInv, builtins
  <2> QED
    BY <1>1, <2>3, <2>4, <2>5 DEF Inv, MigrationInv, PendingInv, DefaultInv
<1> QED
  BY <1>2, <1>3

LEMMA InvStep == Inv /\ [Next]_vars => Inv'
<1> SUFFICES ASSUME Inv, [Next]_vars
             PROVE  Inv'
  OBVIOUS
<1>1. CASE RemoveBuiltins
  BY <1>1, RemoveBuiltinsStep
<1>2. CASE migrateLegacyPlaintextKeys
  BY <1>2, MigrationStep
<1>3. ASSUME NEW p \in Id, MoveKey(p)
      PROVE  Inv'
  BY <1>3, MoveKeyStep
<1>4. CASE FinishMigration
  BY <1>4, FinishMigrationStep
<1>5. ASSUME NEW p \in Id, importEnvFallback(p)
      PROVE  Inv'
  BY <1>5, ImportStep
<1>6. CASE NothingToImport
  BY <1>6, NothingToImportStep
<1>7. ASSUME NEW p \in Id, NEW u \in Url, NEW ms \in Catalog, NEW key \in KeyOrNone,
             addModel(p, u, ms, key)
      PROVE  Inv'
  BY <1>7, AddStep
<1>8. ASSUME NEW p \in Id, NEW u \in Url \cup {Keep}, NEW ms \in Catalog \cup {Keep},
             NEW key \in KeyOrNone \cup {Keep}, updateModel(p, u, ms, key)
      PROVE  Inv'
  BY <1>8, UpdateStep
<1>9. ASSUME NEW p \in Id, deleteModel(p)
      PROVE  Inv'
  BY <1>9, DeleteStep
<1>10. ASSUME NEW p \in Id, NEW m \in Model, setDefaultModel(p, m)
       PROVE  Inv'
  BY <1>10, SetDefaultStep
<1>11. CASE writeSettings
  BY <1>11, WriteStep
<1>12. ASSUME NEW restores \in BOOLEAN, WriteFails(restores)
       PROVE  Inv'
  BY <1>12, FailStep
<1>13. CASE Crash
  BY <1>13, CrashStep
<1>14. CASE UNCHANGED vars
  <2>1. /\ row' = row /\ secret' = secret /\ host' = host /\ doing' = doing
        /\ taken' = taken /\ may' = may /\ crashes' = crashes
    BY <1>14 DEF vars
  <2>2. Typed' /\ StoryInv' /\ KeyInv' /\ FreshInv'
    BY <2>1 DEF Inv, Typed, StoryInv, HasStory, KeyInv, Pending, FreshInv
  <2>3. StartInv' /\ BuiltinInv'
    BY <2>1 DEF Inv, StartInv, BuiltinInv, builtins, BuiltinsGone
  <2>5. MigrationInv'
    <3>1. /\ Stripped' = Stripped /\ plaintext' = plaintext
          /\ Repaired' = Repaired /\ builtins' = builtins
      BY <2>1 DEF Stripped, plaintext, Repaired, builtins
    <3> QED
      BY <2>1, <3>1 DEF Inv, MigrationInv
  <2>6. DefaultInv'
    BY <2>1 DEF Inv, DefaultInv, Usable, InCatalog
  <2>4. PendingInv'
    BY <2>1 DEF Inv, PendingInv, Promises, HasStory, Restored
  <2> QED
    BY <2>2, <2>3, <2>4, <2>5, <2>6 DEF Inv
<1>15. CASE Open
  BY <1>15, OpenStep
<1>16. ASSUME NEW p \in Builtin, NEW works \in BOOLEAN, DeleteBuiltin(p, works)
       PROVE  Inv'
  BY <1>16, DeleteBuiltinStep
<1> QED
  BY <1>1, <1>2, <1>3, <1>4, <1>5, <1>6, <1>7, <1>8, <1>9, <1>10, <1>11, <1>12, <1>13, <1>14,
     <1>15, <1>16
  DEF Next

LEMMA Invariance == Spec => []Inv
<1>1. Init => Inv
  BY InitInv
<1>2. Inv /\ [Next]_vars => Inv'
  BY InvStep
<1> QED
  BY <1>1, <1>2, PTL DEF Spec

-----------------------------------------------------------------------------
(* The theorems *)

(* The row, the credential store and the operation under way stay well-formed,  *)
(* and no id in the row was not given out.                                      *)
THEOREM TypeCorrect == Spec => []TypeOK
<1>1. Inv => TypeOK
  BY DEF Inv, Typed, FreshInv, TypeOK
<1> QED
  BY <1>1, Invariance, PTL

(* Between requests the row and the credential store agree with what the user   *)
(* was told, whichever write failed or crash came before; a Run is never given  *)
(* a key that was replaced or removed.                                          *)
THEOREM KeysAsAnsweredHolds == Spec => []KeysAsAnswered
<1>1. Inv => KeysAsAnswered
  <2> SUFFICES ASSUME Inv, host = "up", NEW p \in Id, ~Pending({p})
               PROVE  /\ secret[p] \in may[p]
                      /\ p \in DOMAIN row.models =>
                           /\ row.models[p].plain = None
                           /\ row.models[p].hasKey => may[p] # {None}
                           /\ ~row.models[p].hasKey => None \in may[p]
                      /\ getProviderCredentials(p) \in may[p] \cup {None}
    BY DEF KeysAsAnswered
  <2>1. p \in DOMAIN row.models => row.models[p].plain = None /\ p \notin Builtin
    BY DEF Inv, StartInv, builtins
  <2>2. secret[p] \in may[p]
    BY <2>1, SettingsAssumption DEF Inv, KeyInv
  <2> QED
    BY <2>1, <2>2 DEF Inv, StoryInv, HasStory, getProviderCredentials
<1> QED
  BY <1>1, Invariance, PTL

(* No acknowledged key is ever in neither store, wherever a start breaks off.   *)
THEOREM NoKeyLostHolds == Spec => []NoKeyLost
<1>1. Inv => NoKeyLost
  <2> SUFFICES ASSUME Inv, NEW p \in DOMAIN row.models, ~Pending({p}), None \notin may[p]
               PROVE  row.models[p].plain \in may[p] \/ secret[p] \in may[p]
    BY DEF NoKeyLost
  <2>1. p \in Id
    BY DEF Inv, FreshInv, Typed
  <2>2. CASE p \in Builtin
    BY <2>2 DEF Inv, BuiltinInv, builtins
  <2>3. CASE p \notin Builtin /\ row.models[p].plain \in Key
    BY <2>1, <2>3 DEF Inv, StoryInv, HasStory
  <2>4. CASE p \notin Builtin /\ row.models[p].plain \notin Key
    BY <2>1, <2>4 DEF Inv, KeyInv
  <2> QED
    BY <2>2, <2>3, <2>4
<1> QED
  BY <1>1, Invariance, PTL

(* Whatever default an older version left, no step turns one that a Run can use *)
(* into one that it cannot, and the import and the requests put nothing else    *)
(* in its place.                                                                *)
THEOREM DefaultStaysUsableHolds == Spec => DefaultStaysUsable
<1>1. DefaultUsable = Usable(row) /\ DefaultUsable' = Usable(row')
  BY DEF DefaultUsable, Usable
<1>2. Inv /\ [Next]_vars =>
        [ (DefaultUsable \/ (host \in {"importing", "up"} /\ row'.default # row.default))
          => DefaultUsable' ]_vars
  <2> SUFFICES ASSUME Inv, Next,
                      Usable(row) \/ (host \in {"importing", "up"} /\ row'.default # row.default)
               PROVE  Usable(row')
    BY <1>1
  <2>1. CASE row' = row
    BY <2>1 DEF Usable
  <2>2. CASE doing # None /\ row' = doing.next
    BY <2>2 DEF Inv, DefaultInv
  <2>3. ASSUME NEW p \in Id, NEW m \in Model, setDefaultModel(p, m)
        PROVE  Usable(row')
    <3>1. row' = [row EXCEPT !.default = <<p, m>>] /\ p \in DOMAIN row.models
          /\ row.models[p].hasKey /\ m \in row.models[p].models
          /\ host = "up" /\ row \in Row
      BY <2>3 DEF setDefaultModel, Idle, Inv, Typed
    <3>2. row'.models = row.models /\ row'.default = <<p, m>> /\ row.models[p].plain = None
      BY <3>1 DEF Row, Inv, StartInv
    <3> QED
      BY <3>1, <3>2 DEF Usable
  <2>4. \/ row' = row \/ (doing # None /\ row' = doing.next)
        \/ \E p \in Id, m \in Model : setDefaultModel(p, m)
    BY DEF Next, Open, DeleteBuiltin, RemoveBuiltins, migrateLegacyPlaintextKeys, MoveKey,
           FinishMigration, importEnvFallback, NothingToImport, addModel, updateModel,
           deleteModel, writeSettings, WriteFails, Crash
  <2> QED
    BY <2>1, <2>2, <2>3, <2>4
<1> QED
  BY <1>2, Invariance, PTL DEF Spec, DefaultStaysUsable

-----------------------------------------------------------------------------
(* The self update: typing, the flow, the package and its name *)

(* UpdateTypeOK, and a version for every download.                            *)
UpdateTyped ==
  /\ UpdateTypeOK
  /\ acting \in {"detecting", "downloading"} => version # NoVersion
  /\ acting \in InstallStep \cup {"opening"} => ready # NoVersion

(* A check is in flight only while there is no package, no action and no      *)
(* question of an earlier check; a version is on offer while it is asked.     *)
FlowInv ==
  /\ checking => acting = "none" /\ ready = NoVersion /\ interacting # "asking"
  /\ interacting = "asking" <=> offered # NoVersion

(* What is offered, and what is downloaded, is what electron-updater has for  *)
(* its target, as long as no answer came after its time.                      *)
TargetInv ==
  overdue = "no" =>
    /\ pending # NoVersion => target = pending
    /\ offered # NoVersion => target = offered
    /\ acting \in {"detecting", "downloading"} => target = version
    /\ acting = "downloading" => fetching = target
    /\ ready # NoVersion => ready.content = ready.label

(* The page shows what there is, and already does so while a hand-made        *)
(* installation or its error is on the screen.                                *)
PageInv ==
  /\ StatusHonest
  /\ acting = "opening" => phase = Resting(ready, pending)
  /\ acting = "reporting" /\ fault \notin {"install", "restart"} => phase = Resting(ready, pending)

(* Only a Host that was stopped lets the installer take the application down. *)
BridgeInv ==
  /\ quitForUpdate => acting = "installing"
  /\ acting = "installing" /\ owns => backend = "down"
  /\ NoOrphanBackend

UpdateInv == UpdateTyped /\ FlowInv /\ TargetInv /\ PageInv /\ BridgeInv

LEMMA UpdateInitInv == UpdateInit => UpdateInv
<1> SUFFICES ASSUME UpdateInit PROVE UpdateInv
  OBVIOUS
<1> USE VersionsAssumption DEF UpdateInit
<1>1. UpdateTyped
  <2>1. overdues \in 0 .. MaxOverdue
    OBVIOUS
  <2> QED
    BY <2>1 DEF UpdateTyped, UpdateTypeOK, Offer, InstallStep
<1>2. FlowInv /\ TargetInv
  BY DEF FlowInv, TargetInv
<1>3. PageInv
  BY DEF PageInv, StatusHonest, Resting
<1>4. BridgeInv
  BY DEF BridgeInv, NoOrphanBackend
<1> QED
  BY <1>1, <1>2, <1>3, <1>4 DEF UpdateInv

(* What a package names is a version.                                         *)
LEMMA PackageFields ==
  ASSUME UpdateTyped, ready # NoVersion
  PROVE  ready \in Package /\ ready.label \in Versions /\ ready.content \in Offer
BY DEF UpdateTyped, UpdateTypeOK, Package

(* What a check that settles leaves behind.                                   *)
LEMMA ContinueTyped ==
  ASSUME UpdateTyped, FlowInv, NEW p \in Offer, NEW failed \in BOOLEAN, checking,
         Continue(p, failed), pending' = p, ready' = ready, target' \in Offer,
         overdue' \in {"no", "running", "answered"}, overdues' \in 0 .. MaxOverdue
  PROVE  UpdateTyped'
<1> USE VersionsAssumption
<1>1. acting = "none" /\ ready = NoVersion
  BY DEF FlowInv
<1>2. /\ version' \in Offer /\ fetching' \in Offer
      /\ acting' \in {"none", "detecting"}
      /\ acting' = "detecting" => version' # NoVersion
  BY <1>1 DEF Continue, Download, UpdateTyped, UpdateTypeOK, Offer, action
<1>3. phase' \in {"idle", "checking", "available", "downloading", "ready", "installing"}
  BY <1>1 DEF Continue, Download, Resting
<1>4. /\ interacting' \in {"none", "checking", "asking", "joined", "telling"}
      /\ offered' \in Offer
  BY DEF Continue, UpdateTyped, UpdateTypeOK, Offer
<1>5. /\ fault' \in {"none", "download", "open", "install", "restart"}
      /\ manual' \in BOOLEAN /\ owns' \in BOOLEAN
      /\ backend' \in {"up", "starting", "signalled", "down"}
      /\ intended' \in BOOLEAN /\ quitForUpdate' \in BOOLEAN /\ exited' \in BOOLEAN
  BY DEF Continue, shell, platform, UpdateTyped, UpdateTypeOK
<1>6. checking' = FALSE /\ waiting' = FALSE
  BY DEF Continue
<1>7. ready' \in Package \cup {NoVersion}
  BY DEF UpdateTyped, UpdateTypeOK
<1>8. UpdateTypeOK'
  BY <1>2, <1>3, <1>4, <1>5, <1>6, <1>7 DEF UpdateTypeOK
<1> QED
  BY <1>2, <1>8 DEF UpdateTyped, InstallStep

LEMMA TypedStep ==
  ASSUME UpdateTyped, FlowInv, [UpdateNext]_updateVars
  PROVE  UpdateTyped'
<1> USE VersionsAssumption
    DEF UpdateTyped, UpdateTypeOK, FlowInv, offers, action, shell, platform
<1>0. CASE UNCHANGED updateVars
  BY <1>0 DEF updateVars
<1>1. CASE AutoCheck
  BY <1>1 DEF AutoCheck
<1>3. CASE CheckFails
  <2>1. /\ checking /\ Continue(pending, TRUE)
        /\ pending' = pending /\ ready' = ready /\ target' = target
        /\ overdue' = overdue /\ overdues' = overdues
    BY <1>3 DEF CheckFails
  <2> QED
    BY <2>1, ContinueTyped
<1>4. CASE CheckTimesOut
  <2>1. /\ checking /\ Continue(pending, TRUE)
        /\ pending' = pending /\ ready' = ready /\ target' = target
        /\ overdue' = "running"
    BY <1>4 DEF CheckTimesOut
  <2>2. overdues' \in 0 .. MaxOverdue
    BY <1>4 DEF CheckTimesOut
  <2> QED
    BY <2>1, <2>2, ContinueTyped
<1>5. ASSUME NEW v \in Offer, CheckAnswers(v)
      PROVE  UpdateTyped'
  <2>1. PICK p \in Offer :
          /\ checking /\ Continue(p, FALSE) /\ pending' = p /\ target' \in Offer
          /\ ready' = ready /\ overdue' = overdue /\ overdues' = overdues
    BY <1>5 DEF CheckAnswers, Targeted
  <2> QED
    BY <2>1, ContinueTyped
<1>6. ASSUME NEW v \in Offer, OverdueAnswers(v)
      PROVE  UpdateTyped'
  BY <1>6 DEF OverdueAnswers, Targeted
<1>7. CASE CheckInteractively
  <2>1. CASE acting = "none" /\ ready # NoVersion
    <3>1. ready.label \in Versions
      BY <2>1, PackageFields
    <3> QED
      BY <1>7, <2>1, <3>1 DEF CheckInteractively, Install, Offer, InstallStep
  <2>2. CASE ~(acting = "none" /\ ready # NoVersion)
    <3>1. UNCHANGED <<offers, offered, waiting, action, fault, shell, platform>>
      BY <1>7, <2>2 DEF CheckInteractively
    <3>2. /\ interacting' \in {"none", "checking", "asking", "joined", "telling"}
          /\ phase' \in {"idle", "checking", "available", "downloading", "ready", "installing"}
          /\ checking' \in BOOLEAN
      BY <1>7, <2>2 DEF CheckInteractively
    <3> QED
      BY <3>1, <3>2 DEF InstallStep
  <2> QED
    BY <2>1, <2>2
<1>8. CASE AcceptOffer
  BY <1>8 DEF AcceptOffer, Download, Offer, InstallStep
<1>9. CASE CloseDialog
  BY <1>9 DEF CloseDialog, Offer
<1>10. CASE DownloadNow
  <2>1. CASE checking
    BY <1>10, <2>1 DEF DownloadNow
  <2>2. CASE ~checking /\ ready # NoVersion
    <3>1. ready.label \in Versions
      BY <2>2, PackageFields
    <3> QED
      BY <1>10, <2>2, <3>1 DEF DownloadNow, Install, Offer, InstallStep
  <2>3. CASE ~checking /\ ready = NoVersion
    BY <1>10, <2>3 DEF DownloadNow, Download, Offer, InstallStep
  <2> QED
    BY <2>1, <2>2, <2>3
<1>11. CASE Fetch
  BY <1>11 DEF Fetch, InstallStep
<1>12. CASE Downloaded
  <2>1. version \in Versions
    BY <1>12 DEF Downloaded, Offer
  <2>2. ready' \in Package /\ ready' # NoVersion
    <3>1. [label |-> version, content |-> fetching] \in Package
      BY <2>1 DEF Package
    <3> QED
      BY <3>1, <1>12, PackageAssumption DEF Downloaded
  <2> QED
    BY <1>12, <2>2 DEF Downloaded, Offer, InstallStep
<1>13. CASE DownloadFails
  BY <1>13 DEF DownloadFails, Report, Resting, InstallStep
<1>14. CASE OpenPackage
  BY <1>14 DEF OpenPackage, Report, ActionEnds, Offer, InstallStep
<1>15. CASE Prepared
  BY <1>15 DEF Prepared, Proceed, InstallStep
<1>16. CASE TasksListed
  BY <1>16 DEF TasksListed, Proceed, InstallStep
<1>17. CASE PreparationFails
  BY <1>17 DEF PreparationFails, Report, InstallStep
<1>18. CASE Postpone
  BY <1>18 DEF Postpone, ActionEnds, Resting, Offer, InstallStep
<1>19. CASE ConfirmInstall
  BY <1>19 DEF ConfirmInstall, Proceed, InstallStep
<1>20. CASE Stopped
  BY <1>20 DEF Stopped, Proceed, InstallStep
<1>21. CASE StopFails
  <2>1. UpdateTypeOK'
    BY <1>21 DEF StopFails, Report, InstallStep
  <2> QED
    BY <1>21, <2>1 DEF StopFails, Report, InstallStep
<1>22. CASE HandedOver
  BY <1>22 DEF HandedOver
<1>23. CASE InstallFails
  <2>1. /\ intended' \in BOOLEAN
        /\ quitForUpdate' \in BOOLEAN
        /\ backend' \in {"up", "starting", "signalled", "down"}
        /\ exited' \in BOOLEAN
    BY <1>23 DEF InstallFails
  <2>2. acting = "installing" /\ acting' = "restarting"
    BY <1>23 DEF InstallFails, Proceed
  <2>3. UNCHANGED <<phase, offers, version, fetching, fault, checking, interacting, offered,
                    waiting, platform>>
    BY <1>23 DEF InstallFails, Proceed
  <2>4. UpdateTypeOK'
    BY <2>1, <2>2, <2>3 DEF InstallStep
  <2> QED
    BY <2>2, <2>3, <2>4 DEF InstallStep
<1>24. CASE Restarted
  BY <1>24 DEF Restarted, Report, InstallStep
<1>25. CASE RestartFails
  BY <1>25 DEF RestartFails, Report, InstallStep
<1>26. CASE CloseReport
  BY <1>26 DEF CloseReport, ActionEnds, Resting, Offer, InstallStep
<1>27. CASE BackendExits
  BY <1>27 DEF BackendExits
<1>28. CASE Quit
  BY <1>28 DEF Quit
<1> QED
  BY <1>0, <1>1, <1>3, <1>4, <1>5, <1>6, <1>7, <1>8, <1>9, <1>10, <1>11, <1>12, <1>13, <1>14,
     <1>15, <1>16, <1>17, <1>18, <1>19, <1>20, <1>21, <1>22, <1>23, <1>24, <1>25, <1>26, <1>27,
     <1>28 DEF UpdateNext, Step

(* What was settled is what the next steps find.                              *)
LEMMA ContinueFlow ==
  ASSUME UpdateTyped, FlowInv, NEW p \in Offer, NEW failed \in BOOLEAN, checking,
         Continue(p, failed), ready' = ready
  PROVE  FlowInv'
BY VersionsAssumption DEF FlowInv, Continue

LEMMA FlowStep ==
  ASSUME UpdateTyped, FlowInv, [UpdateNext]_updateVars
  PROVE  FlowInv'
<1> USE DEF offers, action
<1>t. offered \in Offer /\ pending \in Offer /\ ready \in Package \cup {NoVersion}
  BY DEF UpdateTyped, UpdateTypeOK
<1>0. CASE UNCHANGED updateVars
  BY <1>0 DEF updateVars, FlowInv
<1>1. CASE AutoCheck
  BY <1>1 DEF AutoCheck, FlowInv
<1>2. CASE CheckFails \/ CheckTimesOut \/ \E v \in Offer : CheckAnswers(v)
  <2>1. PICK p \in Offer, failed \in BOOLEAN : checking /\ Continue(p, failed) /\ ready' = ready
    BY <1>2, <1>t DEF CheckFails, CheckTimesOut, CheckAnswers
  <2> QED
    BY <2>1, ContinueFlow
<1>3. CASE \E v \in Offer : OverdueAnswers(v)
  BY <1>3 DEF OverdueAnswers, FlowInv
<1>4. CASE CheckInteractively
  BY <1>4 DEF CheckInteractively, Install, FlowInv
<1>5. CASE AcceptOffer
  BY <1>5 DEF AcceptOffer, FlowInv
<1>6. CASE CloseDialog
  BY <1>6 DEF CloseDialog, FlowInv
<1>7. CASE DownloadNow
  BY <1>7 DEF DownloadNow, FlowInv
<1>8. CASE Fetch \/ Downloaded
  BY <1>8 DEF Fetch, Downloaded, FlowInv
<1>9. CASE DownloadFails \/ OpenPackage \/ PreparationFails
  BY <1>9 DEF DownloadFails, OpenPackage, PreparationFails, Report, ActionEnds, FlowInv
<1>10. CASE Postpone \/ CloseReport
  BY <1>10 DEF Postpone, CloseReport, ActionEnds, FlowInv
<1>11. CASE Prepared \/ TasksListed \/ ConfirmInstall \/ Stopped \/ InstallFails
  BY <1>11 DEF Prepared, TasksListed, ConfirmInstall, Stopped, InstallFails, Proceed, FlowInv
<1>12. CASE StopFails \/ Restarted \/ RestartFails
  BY <1>12 DEF StopFails, Restarted, RestartFails, Report, FlowInv
<1>13. CASE HandedOver \/ BackendExits \/ Quit
  BY <1>13 DEF HandedOver, BackendExits, Quit, FlowInv
<1> QED
  BY <1>0, <1>1, <1>2, <1>3, <1>4, <1>5, <1>6, <1>7, <1>8, <1>9, <1>10, <1>11, <1>12, <1>13
     DEF UpdateNext, Step

LEMMA TargetStep ==
  ASSUME UpdateTyped, FlowInv, TargetInv, [UpdateNext]_updateVars
  PROVE  TargetInv'
<1> USE DEF offers, action
<1>t. offered \in Offer /\ pending \in Offer /\ ready \in Package \cup {NoVersion}
  BY DEF UpdateTyped, UpdateTypeOK
<1>0. CASE UNCHANGED updateVars
  BY <1>0 DEF updateVars, TargetInv
<1>1. CASE AutoCheck
  BY <1>1 DEF AutoCheck, TargetInv
<1>2. CASE CheckFails
  BY <1>2 DEF CheckFails, Continue, Download, FlowInv, TargetInv
<1>3. CASE CheckTimesOut
  BY <1>3 DEF CheckTimesOut, TargetInv
<1>4. ASSUME NEW v \in Offer, CheckAnswers(v)
      PROVE  TargetInv'
  <2>1. /\ acting = "none" /\ ready = NoVersion /\ interacting # "asking"
        /\ offered = NoVersion
    BY <1>4 DEF CheckAnswers, FlowInv
  <2>2. /\ Continue(v, FALSE) /\ pending' = v
        /\ v # NoVersion => target' = v
        /\ ready' = ready /\ overdue' = overdue
    BY <1>4, <2>1 DEF CheckAnswers, Targeted
  <2>3. /\ acting' \in {"none", "detecting"}
        /\ acting' = "detecting" => version' = v /\ v # NoVersion
    BY <2>1, <2>2 DEF Continue, Download
  <2>4. offered' \in {NoVersion, v}
    BY <2>1, <2>2 DEF Continue
  <2> QED
    BY <2>1, <2>2, <2>3, <2>4 DEF TargetInv
<1>5. ASSUME NEW v \in Offer, OverdueAnswers(v)
      PROVE  TargetInv'
  BY <1>5 DEF OverdueAnswers, TargetInv
<1>6. CASE CheckInteractively
  BY <1>6 DEF CheckInteractively, Install, TargetInv
<1>7. CASE AcceptOffer
  BY <1>7 DEF AcceptOffer, Download, FlowInv, TargetInv
<1>8. CASE CloseDialog
  BY <1>8 DEF CloseDialog, TargetInv
<1>9. CASE DownloadNow
  BY <1>9 DEF DownloadNow, Install, Download, TargetInv
<1>10. CASE Fetch
  BY <1>10 DEF Fetch, TargetInv
<1>11. CASE Downloaded
  BY <1>11 DEF Downloaded, TargetInv
<1>12. CASE DownloadFails
  BY <1>12 DEF DownloadFails, Report, TargetInv
<1>13. CASE OpenPackage \/ PreparationFails
  BY <1>13 DEF OpenPackage, PreparationFails, Report, ActionEnds, TargetInv
<1>14. CASE Postpone \/ CloseReport
  BY <1>14 DEF Postpone, CloseReport, ActionEnds, TargetInv
<1>15. CASE Prepared \/ TasksListed \/ ConfirmInstall \/ Stopped \/ InstallFails
  BY <1>15 DEF Prepared, TasksListed, ConfirmInstall, Stopped, InstallFails, Proceed, TargetInv
<1>16. CASE StopFails \/ Restarted \/ RestartFails
  BY <1>16 DEF StopFails, Restarted, RestartFails, Report, TargetInv
<1>17. CASE HandedOver \/ BackendExits \/ Quit
  BY <1>17 DEF HandedOver, BackendExits, Quit, TargetInv
<1> QED
  BY <1>0, <1>1, <1>2, <1>3, <1>4, <1>5, <1>6, <1>7, <1>8, <1>9, <1>10, <1>11, <1>12, <1>13,
     <1>14, <1>15, <1>16, <1>17 DEF UpdateNext, Step

(* Only a finished download writes the package.                               *)
LEMMA ReadyStep ==
  ASSUME UpdateTyped, [UpdateNext]_updateVars
  PROVE  IF Downloaded THEN ready' \in Package /\ ready' # NoVersion ELSE ready' = ready
<1> USE DEF offers
<1>1. CASE Downloaded
  <2>1. version \in Versions /\ fetching \in Offer
    BY <1>1 DEF Downloaded, UpdateTyped, UpdateTypeOK, Offer
  <2>2. [label |-> version, content |-> fetching] \in Package
    BY <2>1 DEF Package
  <2> QED
    BY <1>1, <2>2, PackageAssumption DEF Downloaded
<1> SUFFICES ASSUME ~Downloaded PROVE ready' = ready
  BY <1>1
<1>2. CASE AutoCheck \/ CheckFails \/ CheckTimesOut
  BY <1>2 DEF AutoCheck, CheckFails, CheckTimesOut
<1>3. CASE \E v \in Offer : CheckAnswers(v) \/ OverdueAnswers(v)
  BY <1>3 DEF CheckAnswers, OverdueAnswers
<1>4. CASE CheckInteractively \/ AcceptOffer \/ CloseDialog \/ DownloadNow
  BY <1>4 DEF CheckInteractively, AcceptOffer, CloseDialog, DownloadNow
<1>5. CASE Fetch \/ DownloadFails \/ OpenPackage \/ PreparationFails \/ Postpone \/ CloseReport
  BY <1>5 DEF Fetch, DownloadFails, OpenPackage, PreparationFails, Postpone, CloseReport
<1>6. CASE Prepared \/ TasksListed \/ ConfirmInstall \/ Stopped \/ InstallFails
  BY <1>6 DEF Prepared, TasksListed, ConfirmInstall, Stopped, InstallFails, Proceed
<1>7. CASE StopFails \/ Restarted \/ RestartFails
  BY <1>7 DEF StopFails, Restarted, RestartFails
<1>8. CASE HandedOver \/ BackendExits \/ Quit
  BY <1>8 DEF HandedOver, BackendExits, Quit
<1>9. CASE UNCHANGED updateVars
  BY <1>9 DEF updateVars
<1> QED
  BY <1>1, <1>2, <1>3, <1>4, <1>5, <1>6, <1>7, <1>8, <1>9 DEF UpdateNext, Step

LEMMA PageStep ==
  ASSUME UpdateTyped, FlowInv, PageInv, [UpdateNext]_updateVars
  PROVE  PageInv'
<1> USE DEF offers, action, PageInv, StatusHonest
<1>0. CASE UNCHANGED updateVars
  BY <1>0 DEF updateVars, Resting
<1>1. CASE AutoCheck
  BY <1>1 DEF AutoCheck
<1>2. CASE CheckFails \/ CheckTimesOut \/ \E v \in Offer : CheckAnswers(v)
  <2>1. PICK p, failed : checking /\ Continue(p, failed) /\ pending' = p /\ ready' = ready
    BY <1>2 DEF CheckFails, CheckTimesOut, CheckAnswers
  <2>2. acting = "none" /\ ready = NoVersion
    BY <2>1 DEF FlowInv
  <2>3. \/ acting' = "detecting"
        \/ acting' = "none" /\ phase' = Resting(ready, p)
    BY <2>1, <2>2 DEF Continue, Download
  <2> QED
    BY <2>1, <2>3 DEF Resting
<1>3. CASE \E v \in Offer : OverdueAnswers(v)
  BY <1>3 DEF OverdueAnswers, Resting
<1>4. CASE CheckInteractively
  BY <1>4 DEF CheckInteractively, Install, FlowInv, Resting
<1>5. CASE AcceptOffer
  BY <1>5 DEF AcceptOffer, Download, FlowInv, Resting
<1>6. CASE CloseDialog
  BY <1>6 DEF CloseDialog, Resting
<1>7. CASE DownloadNow
  BY <1>7 DEF DownloadNow, Install, Download, Resting
<1>8. CASE Fetch
  BY <1>8 DEF Fetch
<1>9. CASE Downloaded
  <2>1. ready' # NoVersion
    BY <1>9, ReadyStep
  <2> QED
    BY <1>9, <2>1 DEF Downloaded, Resting
<1>10. CASE DownloadFails
  BY <1>10 DEF DownloadFails, Report, Resting
<1>11. CASE OpenPackage
  BY <1>11 DEF OpenPackage, Report, ActionEnds, Resting
<1>12. CASE PreparationFails \/ StopFails \/ Restarted \/ RestartFails
  BY <1>12 DEF PreparationFails, StopFails, Restarted, RestartFails, Report
<1>13. CASE Postpone
  BY <1>13 DEF Postpone, ActionEnds, Resting
<1>14. CASE CloseReport
  BY <1>14 DEF CloseReport, ActionEnds, Resting
<1>15. CASE Prepared \/ TasksListed \/ ConfirmInstall \/ Stopped \/ InstallFails
  BY <1>15 DEF Prepared, TasksListed, ConfirmInstall, Stopped, InstallFails, Proceed
<1>16. CASE HandedOver \/ BackendExits \/ Quit
  BY <1>16 DEF HandedOver, BackendExits, Quit, Resting
<1> QED
  BY <1>0, <1>1, <1>2, <1>3, <1>4, <1>5, <1>6, <1>7, <1>8, <1>9, <1>10, <1>11, <1>12, <1>13,
     <1>14, <1>15, <1>16 DEF UpdateNext, Step

LEMMA BridgeStep ==
  ASSUME UpdateTyped, FlowInv, BridgeInv, [UpdateNext]_updateVars
  PROVE  BridgeInv'
<1> USE DEF action, shell, platform, BridgeInv, NoOrphanBackend
<1>0. CASE UNCHANGED updateVars
  BY <1>0 DEF updateVars
<1>n. CASE UpdateNext
  <2>0. ~exited /\ Step
    BY <1>n DEF UpdateNext
  <2>1. CASE AutoCheck
    BY <2>0, <2>1 DEF AutoCheck
  <2>2. CASE CheckFails \/ CheckTimesOut \/ \E v \in Offer : CheckAnswers(v)
    <3>1. PICK p, failed : checking /\ Continue(p, failed)
      BY <2>2 DEF CheckFails, CheckTimesOut, CheckAnswers
    <3>2. acting = "none" /\ ready = NoVersion
      BY <3>1 DEF FlowInv
    <3>3. acting' \in {"none", "detecting"} /\ UNCHANGED <<shell, platform>>
      BY <3>1, <3>2 DEF Continue, Download
    <3> QED
      BY <2>0, <3>2, <3>3
  <2>3. CASE \E v \in Offer : OverdueAnswers(v)
    BY <2>0, <2>3 DEF OverdueAnswers
  <2>4. CASE CheckInteractively
    BY <2>0, <2>4 DEF CheckInteractively, Install
  <2>5. CASE AcceptOffer
    BY <2>0, <2>5 DEF AcceptOffer, Download
  <2>6. CASE CloseDialog
    BY <2>0, <2>6 DEF CloseDialog
  <2>7. CASE DownloadNow
    BY <2>0, <2>7 DEF DownloadNow, Install, Download
  <2>8. CASE Fetch \/ Downloaded
    BY <2>0, <2>8 DEF Fetch, Downloaded
  <2>9. CASE DownloadFails \/ OpenPackage \/ PreparationFails
    BY <2>0, <2>9 DEF DownloadFails, OpenPackage, PreparationFails, Report, ActionEnds
  <2>10. CASE Postpone \/ CloseReport
    BY <2>0, <2>10 DEF Postpone, CloseReport, ActionEnds
  <2>11. CASE Prepared \/ TasksListed
    BY <2>0, <2>11 DEF Prepared, TasksListed, Proceed
  <2>12. CASE ConfirmInstall
    BY <2>0, <2>12 DEF ConfirmInstall, Proceed
  <2>13. CASE Stopped
    BY <2>0, <2>13 DEF Stopped, Proceed
  <2>14. CASE InstallFails
    BY <2>0, <2>14 DEF InstallFails, Proceed
  <2>15. CASE StopFails
    BY <2>0, <2>15 DEF StopFails, Report
  <2>16. CASE Restarted \/ RestartFails
    BY <2>0, <2>16 DEF Restarted, RestartFails, Report
  <2>17. CASE HandedOver
    BY <2>0, <2>17 DEF HandedOver
  <2>18. CASE BackendExits
    BY <2>0, <2>18 DEF BackendExits
  <2>19. CASE Quit
    BY <2>0, <2>19 DEF Quit
  <2> QED
    BY <2>0, <2>1, <2>2, <2>3, <2>4, <2>5, <2>6, <2>7, <2>8, <2>9, <2>10, <2>11, <2>12, <2>13,
       <2>14, <2>15, <2>16, <2>17, <2>18, <2>19 DEF Step
<1> QED
  BY <1>0, <1>n

LEMMA UpdateInvariance == UpdateSpec => []UpdateInv
<1>1. UpdateInv /\ [UpdateNext]_updateVars => UpdateInv'
  BY TypedStep, FlowStep, TargetStep, PageStep, BridgeStep DEF UpdateInv
<1> QED
  BY UpdateInitInv, <1>1, PTL DEF UpdateSpec

(* Type correctness of the flow, the dialogs and the bridge.                  *)
THEOREM UpdateTypeCorrect == UpdateSpec => []UpdateTypeOK
<1>1. UpdateInv => UpdateTypeOK
  BY DEF UpdateInv, UpdateTyped
<1> QED
  BY <1>1, UpdateInvariance, PTL

(* A downloaded package is of the version its entry names, for every feed and *)
(* every interleaving of checks and clicks, as long as no check answers late. *)
THEOREM PackageIsLabelledHolds == UpdateSpec => []PackageIsLabelled
<1>1. UpdateInv => PackageIsLabelled
  BY DEF UpdateInv, TargetInv, PackageIsLabelled
<1> QED
  BY <1>1, UpdateInvariance, PTL

(* The application never goes and leaves an owned Host running: what takes it *)
(* down is the handover after the stop, a signal of its own, or the exit.     *)
THEOREM NoOrphanBackendHolds == UpdateSpec => []NoOrphanBackend
<1>1. UpdateInv => NoOrphanBackend
  BY DEF UpdateInv, BridgeInv
<1> QED
  BY <1>1, UpdateInvariance, PTL

(* Every way out of the flow restores what the page shows.                    *)
THEOREM StatusHonestHolds == UpdateSpec => []StatusHonest
<1>1. UpdateInv => StatusHonest
  BY DEF UpdateInv, PageInv
<1> QED
  BY <1>1, UpdateInvariance, PTL

(* No check runs beside a download or an installation.                        *)
THEOREM OneSourceOperationHolds == UpdateSpec => []OneSourceOperation
<1>1. UpdateInv => OneSourceOperation
  BY DEF UpdateInv, FlowInv, OneSourceOperation
<1> QED
  BY <1>1, UpdateInvariance, PTL

(* flow.ts: first restore the service, then show the error. Whatever made an  *)
(* attempt fail, the Host is there again when the report opens, or the report *)
(* says that it is not.                                                       *)
THEOREM RestoredBeforeErrorHolds == UpdateSpec => RestoredBeforeError
<1> DEFINE Restores ==
      (acting \in Interrupting /\ acting' \notin Interrupting) =>
        acting' = "reporting" /\ (fault' = "restart" \/ backend' # "down")
<1>1. UpdateInv /\ [UpdateNext]_updateVars => [Restores]_updateVars
  <2> SUFFICES ASSUME UpdateInv, [UpdateNext]_updateVars PROVE Restores
    OBVIOUS
  <2> USE DEF Interrupting, action
  <2>0. CASE UNCHANGED updateVars
    BY <2>0 DEF updateVars
  <2>1. CASE AutoCheck \/ CloseDialog \/ \E v \in Offer : OverdueAnswers(v)
    BY <2>1 DEF AutoCheck, CloseDialog, OverdueAnswers
  <2>2. CASE CheckFails \/ CheckTimesOut \/ \E v \in Offer : CheckAnswers(v)
    BY <2>2 DEF CheckFails, CheckTimesOut, CheckAnswers, UpdateInv, FlowInv
  <2>3. CASE CheckInteractively \/ AcceptOffer
    BY <2>3 DEF CheckInteractively, AcceptOffer
  <2>4. CASE DownloadNow
    BY <2>4 DEF DownloadNow
  <2>5. CASE Fetch \/ Downloaded \/ DownloadFails \/ OpenPackage \/ PreparationFails
    BY <2>5 DEF Fetch, Downloaded, DownloadFails, OpenPackage, PreparationFails
  <2>6. CASE Prepared \/ TasksListed \/ Postpone \/ ConfirmInstall \/ CloseReport
    BY <2>6 DEF Prepared, TasksListed, Postpone, ConfirmInstall, CloseReport
  <2>7. CASE Stopped \/ InstallFails
    BY <2>7 DEF Stopped, InstallFails, Proceed
  <2>8. CASE StopFails
    BY <2>8 DEF StopFails, Report
  <2>9. CASE Restarted \/ RestartFails
    BY <2>9 DEF Restarted, RestartFails, Report
  <2>10. CASE HandedOver \/ BackendExits \/ Quit
    BY <2>10 DEF HandedOver, BackendExits, Quit
  <2> QED
    BY <2>0, <2>1, <2>2, <2>3, <2>4, <2>5, <2>6, <2>7, <2>8, <2>9, <2>10 DEF UpdateNext, Step
<1>2. [][Restores]_updateVars => RestoredBeforeError
  BY DEF RestoredBeforeError
<1> QED
  BY <1>1, <1>2, UpdateInvariance, PTL DEF UpdateSpec

(* A downloaded package is there until the application is replaced.           *)
THEOREM PackageKeptHolds == UpdateSpec => PackageKept
<1>1. UpdateInv /\ [UpdateNext]_updateVars
        => [ready # NoVersion => ready' # NoVersion]_updateVars
  BY ReadyStep DEF UpdateInv
<1> QED
  BY <1>1, UpdateInvariance, PTL DEF UpdateSpec, PackageKept
=============================================================================
