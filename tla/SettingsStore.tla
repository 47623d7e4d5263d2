---------------------------- MODULE SettingsStore ----------------------------
(***************************************************************************)
(* host/persistence/settings-store.ts: the model providers a user has set  *)
(* up.  What is known of a provider is in one row of SQLite, its key is in *)
(* the credential store of the system (host/secrets/).  No transaction     *)
(* spans the two: an operation touches the key first, writes the row after *)
(* it and puts the key back if that write fails.                           *)
(*                                                                         *)
(* Every operation is synchronous, so nothing of the Host comes between    *)
(* its two halves; a crash does.                                           *)
(***************************************************************************)
EXTENDS Naturals, FiniteSets, Functions

CONSTANTS
  None, Keep,    \* Keep: a field the request leaves out
  Id,            \* the UUIDs of providers
  Url, Model, Key,
  Empty,         \* a key field of an older version with nothing in it
  Lost,          \* a key the user was told of and neither store has
  Legacy,        \* what older versions may have left: the row and the keys
  Builtin,       \* the ids of their built-in templates
  EnvUrl, EnvModel, EnvKey,
  \* Bound of the instance:
  MaxCrashes

KeyOrNone  == Key \cup {None}
Provider   == [url : Url, models : SUBSET Model, hasKey : BOOLEAN,
               plain : KeyOrNone \cup {Empty}]
Table      == UNION {[P -> Provider] : P \in SUBSET Id}
Row        == [models : Table, default : {None} \cup (Id \X (Model \cup {None})),
               envImported : BOOLEAN]
Operation  == [op : {"builtins", "migrate", "import", "add", "update", "delete"},
               id : Id \cup {None}, next : Row, old : KeyOrNone,
               new : KeyOrNone \cup {Keep}, todo : SUBSET Id]

ASSUME SettingsAssumption ==
  /\ None \notin Key \cup Model \cup Id \cup Url /\ Keep \notin KeyOrNone \cup Url
  /\ Empty \notin KeyOrNone /\ Lost \notin KeyOrNone
  /\ None \notin Operation /\ MaxCrashes \in Nat
  /\ EnvUrl \in Url /\ EnvModel \in Model /\ EnvKey \in Key
  /\ Builtin \subseteq Id /\ Legacy \subseteq [row : Row, secret : [Id -> KeyOrNone]]

VARIABLES
  row,      \* AppSettingsBlob: [models, default, envImported]
  secret,   \* the credential store
  host,     \* "down", "opening", "importing", "up"
  doing,    \* the operation between its two halves, None if there is none
  taken,    \* the ids given out
  may,      \* history: what the user was told the key is, or could have become unnoticed
  crashes

vars == <<row, secret, host, doing, taken, may, crashes>>

With(t, p, r) == [q \in DOMAIN t \cup {p} |-> IF q = p THEN r ELSE t[q]]
Without(t, P) == Restrict(t, DOMAIN t \ P)

(* What an operation found and what is left of it: the row to write, the key it put in  *)
(* place of the old one, and the work still to do in the credential store.             *)
Op(op, p, next, old, new, todo) ==
  [op |-> op, id |-> p, next |-> next, old |-> old, new |-> new, todo |-> todo]
Pending(P) == doing # None /\ doing.id \in P

(* What the user of an older version has been told of a key: the one in its row, one in  *)
(* the store, none; a row that speaks of a key promises one whether or not it is there.  *)
Promised(r, s, p) ==
  IF p \notin DOMAIN r.models THEN {s[p]}
  ELSE IF r.models[p].plain \in Key THEN {r.models[p].plain}
  ELSE IF r.models[p].plain = Empty \/ ~r.models[p].hasKey THEN {s[p], None}
  ELSE IF s[p] = None THEN {None, Lost} ELSE {s[p]}

(* A new database, or any row and keys an older version left.  An id that occurs anywhere *)
(* in them is not made again.                                                            *)
Init ==
  /\ \/ /\ row = [models |-> <<>>, default |-> None, envImported |-> FALSE]
        /\ secret = [p \in Id |-> None]
     \/ \E left \in Legacy : row = left.row /\ secret = left.secret
  /\ host = "down" /\ doing = None
  /\ taken = {p \in Id : \/ p \in DOMAIN row.models \cup Builtin
                         \/ secret[p] # None
                         \/ row.default # None /\ p = row.default[1]}
  /\ may = [p \in Id |-> Promised(row, secret, p)]
  /\ crashes = 0

-----------------------------------------------------------------------------
(* The start.  Built-in templates of older versions go first, one key after the other    *)
(* and then the row; the default goes with them unless its provider is still listed.     *)
builtins == DOMAIN row.models \cap Builtin

BuiltinsGone ==
  [row EXCEPT !.models = Without(@, builtins),
              !.default = IF @ # None /\ @[1] \notin DOMAIN row.models \ Builtin
                          THEN None ELSE @]

Open ==
  /\ host = "down" /\ host' = "opening"
  /\ doing' = IF builtins = {} THEN None
              ELSE Op("builtins", None, BuiltinsGone, None, None, builtins)
  /\ UNCHANGED <<row, secret, taken, may, crashes>>

(* Best effort: a key that cannot be deleted stays, and nobody refers to it any more.    *)
DeleteBuiltin(p, works) ==
  /\ doing # None /\ doing.op = "builtins" /\ p \in doing.todo
  /\ secret' = IF works THEN [secret EXCEPT ![p] = None] ELSE secret
  /\ may' = [may EXCEPT ![p] = IF works THEN {None} ELSE @ \cup {secret[p]}]
  /\ doing' = [doing EXCEPT !.todo = @ \ {p}]
  /\ UNCHANGED <<row, host, taken, crashes>>

RemoveBuiltins ==
  /\ doing # None /\ doing.op = "builtins" /\ doing.todo = {}
  /\ row' = doing.next /\ doing' = None
  /\ UNCHANGED <<secret, host, taken, may, crashes>>

(* models[0], '' of an empty catalog. *)
First(ms) == IF ms = {} THEN {None} ELSE ms

(* Reading the row puts a default right that has left the catalog of its provider.       *)
Repaired ==
  LET d == row.default
  IN IF d = None THEN {None}
     ELSE IF d[1] \notin DOMAIN row.models THEN {<<d[1], None>>}
     ELSE IF d[2] \in row.models[d[1]].models THEN {d}
     ELSE {<<d[1], m>> : m \in First(row.models[d[1]].models)}

(* Then keys found in the row move to the credential store, and only a row whose keys    *)
(* have all moved is written without them.                                               *)
plaintext == {p \in DOMAIN row.models : row.models[p].plain \in Key}
Stripped  == [p \in DOMAIN row.models |->
                IF row.models[p].plain # None
                THEN [row.models[p] EXCEPT !.hasKey = p \in plaintext, !.plain = None]
                ELSE row.models[p]]

(* Variant for mutation: the row loses its keys before the store has them. *)
StripsFirst ==
  /\ host = "opening" /\ doing = None /\ builtins = {}
  /\ \E d \in Repaired : row' = [row EXCEPT !.models = Stripped, !.default = d]
  /\ doing' = Op("migrate", None, row', None, None, plaintext)
  /\ UNCHANGED <<secret, host, taken, may, crashes>>

migrateLegacyPlaintextKeys ==
  /\ host = "opening" /\ doing = None /\ builtins = {}
  /\ \E d \in Repaired :
       doing' = Op("migrate", None, [row EXCEPT !.models = Stripped, !.default = d],
                   None, None, plaintext)
  /\ UNCHANGED <<row, secret, host, taken, may, crashes>>

MoveKey(p) ==
  /\ doing # None /\ doing.op = "migrate" /\ p \in doing.todo
  /\ secret' = [secret EXCEPT ![p] = row.models[p].plain]
  /\ doing' = [doing EXCEPT !.todo = @ \ {p}]
  /\ UNCHANGED <<row, host, taken, may, crashes>>

FinishMigration ==
  /\ doing # None /\ doing.op = "migrate" /\ doing.todo = {}
  /\ row' = doing.next
  /\ doing' = None /\ host' = "importing"
  /\ UNCHANGED <<secret, taken, may, crashes>>

(* importEnvFallback, once: the provider of that address gets the key, or a new one    *)
(* is made.  A failure ends the start; nothing puts the old key back.                  *)
importEnvFallback(p) ==
  LET same   == {q \in DOMAIN row.models : row.models[q].url = EnvUrl}
      models == IF p \in same THEN row.models[p].models \cup {EnvModel} ELSE {EnvModel}
      made   == [url |-> EnvUrl, models |-> models, hasKey |-> TRUE, plain |-> None]
  IN
  /\ host = "importing" /\ doing = None /\ ~row.envImported
  /\ IF same = {} THEN p \in Id \ taken ELSE p \in same
  /\ secret' = [secret EXCEPT ![p] = EnvKey]
  /\ taken' = taken \cup {p}
  /\ doing' = Op("import", p,
                 [models |-> With(row.models, p, made), default |-> <<p, EnvModel>>,
                  envImported |-> TRUE],
                 None, EnvKey, {})
  /\ UNCHANGED <<row, host, may, crashes>>

NothingToImport ==
  /\ host = "importing" /\ doing = None
  /\ host' = "up"
  /\ UNCHANGED <<row, secret, doing, taken, may, crashes>>

-----------------------------------------------------------------------------
(* Requests. *)
Idle == host = "up" /\ doing = None

FreeUrl(u, p) == \A q \in DOMAIN row.models \ {p} : row.models[q].url # u

addModel(p, u, ms, key) ==
  /\ Idle /\ p \in Id \ taken /\ FreeUrl(u, p)
  /\ secret' = [secret EXCEPT ![p] = IF key = None THEN @ ELSE key]
  /\ taken' = taken \cup {p}
  /\ doing' = Op("add", p,
                 [row EXCEPT !.models =
                    With(@, p, [url |-> u, models |-> ms, hasKey |-> key # None,
                                plain |-> None])],
                 None, key, {})
  /\ UNCHANGED <<row, host, may, crashes>>

(* A key that the row speaks of and the store does not have counts as none.            *)
oldApiKey(p) == IF row.models[p].hasKey THEN secret[p] ELSE None

hasApiKeyAfter(p, key) == IF key = Keep THEN oldApiKey(p) # None ELSE key # None

(* Variant for mutation: the default outlives the key of its provider. *)
DefaultKept(p, has, ms, first) ==
  IF row.default = None \/ row.default[1] # p \/ row.default[2] \in ms THEN row.default
  ELSE <<p, first>>

(* The default goes with the key of its provider, and follows its catalog.             *)
DefaultAfter(p, has, ms, first) ==
  IF row.default = None \/ row.default[1] # p THEN row.default
  ELSE IF ~has THEN None
  ELSE IF row.default[2] \in ms THEN row.default
  ELSE <<p, first>>

updateModel(p, url, models, key) ==
  LET u   == IF url = Keep THEN row.models[p].url ELSE url
      ms  == IF models = Keep THEN row.models[p].models ELSE models
      has == hasApiKeyAfter(p, key)
  IN
  /\ Idle /\ p \in DOMAIN row.models /\ (url # Keep => FreeUrl(u, p))
  /\ secret' = [secret EXCEPT ![p] = IF key = Keep THEN @ ELSE key]
  /\ \E first \in First(ms) :
       doing' = Op("update", p,
                   [row EXCEPT !.models = With(@, p, [url |-> u, models |-> ms,
                                                      hasKey |-> has, plain |-> None]),
                               !.default = DefaultAfter(p, has, ms, first)],
                   oldApiKey(p), key, {})
  /\ UNCHANGED <<row, host, taken, may, crashes>>

deleteModel(p) ==
  /\ Idle /\ p \in DOMAIN row.models
  /\ secret' = [secret EXCEPT ![p] = IF row.models[p].hasKey THEN None ELSE @]
  /\ doing' = Op("delete", p,
                 [row EXCEPT !.models = Without(@, {p}),
                             !.default = IF @ # None /\ @[1] = p THEN None ELSE @],
                 oldApiKey(p), IF row.models[p].hasKey THEN None ELSE Keep, {})
  /\ UNCHANGED <<row, host, taken, may, crashes>>

setDefaultModel(p, m) ==
  /\ Idle /\ p \in DOMAIN row.models /\ row.models[p].hasKey /\ m \in row.models[p].models
  /\ row' = [row EXCEPT !.default = <<p, m>>]
  /\ UNCHANGED <<secret, host, doing, taken, may, crashes>>

(* What a Run is given: nothing, unless both stores have it.                            *)
getProviderCredentials(p) ==
  IF p \in DOMAIN row.models /\ row.models[p].hasKey THEN secret[p] ELSE None

-----------------------------------------------------------------------------
(* The second half: the row is written and the user is told so, or the write fails,    *)
(* the key is put back, and the user is told that nothing happened.                    *)
Told(key) == IF key = Keep THEN may[doing.id] ELSE {key}
AfterWrite == IF doing.op = "import" THEN "up" ELSE host

writeSettings ==
  /\ doing # None /\ doing.op \notin {"builtins", "migrate"}
  /\ row' = doing.next
  /\ may' = [may EXCEPT ![doing.id] = Told(doing.new)]
  /\ doing' = None /\ host' = AfterWrite
  /\ UNCHANGED <<secret, taken, crashes>>

(* Variant for mutation: the old key is not put back. *)
NotRestored(op) == IF op.op = "add" THEN None ELSE secret[op.id]

(* What the compensation leaves in the store.                                          *)
Restored(op) ==
  IF op.op = "import" \/ op.new = Keep \/ (op.op = "delete" /\ op.old = None)
  THEN secret[op.id]
  ELSE IF op.op = "add" THEN None ELSE op.old

(* What may be there when nobody could put it back, or when the credential store did as *)
(* it was asked and reported a failure.                                                *)
Doubt(op) == may[op.id] \cup (IF op.new = Keep THEN {} ELSE {op.new})

WriteFails(restores) ==
  /\ doing # None /\ doing.op \notin {"builtins", "migrate"}
  /\ IF restores
     THEN secret' = [secret EXCEPT ![doing.id] = Restored(doing)]
     ELSE UNCHANGED secret
  /\ may' = IF restores /\ doing.op # "import" THEN may
            ELSE [may EXCEPT ![doing.id] = Doubt(doing)]
  /\ doing' = None
  /\ host' = IF doing.op = "import" THEN "down" ELSE host
  /\ UNCHANGED <<row, taken, crashes>>

(* A start that fails, at any of its writes, or a crash.                               *)
Crash ==
  /\ host # "down" /\ crashes < MaxCrashes
  /\ crashes' = crashes + 1
  /\ host' = "down" /\ doing' = None
  /\ may' = IF doing = None \/ doing.op \in {"builtins", "migrate"} THEN may
            ELSE [may EXCEPT ![doing.id] = Doubt(doing)]
  /\ UNCHANGED <<row, secret, taken>>

Catalog == (SUBSET Model) \ {{}}

Next ==
  \/ Open
  \/ \E p \in Builtin, works \in BOOLEAN : DeleteBuiltin(p, works)
  \/ RemoveBuiltins
  \/ migrateLegacyPlaintextKeys
  \/ \E p \in Id : MoveKey(p)
  \/ FinishMigration
  \/ \E p \in Id : importEnvFallback(p)
  \/ NothingToImport
  \/ \E p \in Id, u \in Url, ms \in Catalog, key \in KeyOrNone : addModel(p, u, ms, key)
  \/ \E p \in Id, u \in Url \cup {Keep}, ms \in Catalog \cup {Keep},
        key \in KeyOrNone \cup {Keep} : updateModel(p, u, ms, key)
  \/ \E p \in Id : deleteModel(p)
  \/ \E p \in Id, m \in Model : setDefaultModel(p, m)
  \/ writeSettings
  \/ \E restores \in BOOLEAN : WriteFails(restores)
  \/ Crash

Spec == Init /\ [][Next]_vars

-----------------------------------------------------------------------------
TypeOK ==
  /\ row \in Row /\ doing \in Operation \cup {None}
  /\ secret \in [Id -> KeyOrNone]
  /\ host \in {"down", "opening", "importing", "up"}
  /\ taken \subseteq Id /\ DOMAIN row.models \subseteq taken
  /\ may \in [Id -> SUBSET (KeyOrNone \cup {Lost})]
  /\ crashes \in 0 .. MaxCrashes

(* Between requests the two stores tell one story, and it is the one the user was told: *)
(* the key of a provider is the last that was acknowledged, or what a failure nobody    *)
(* could repair has left; the row says there is a key exactly when there should be one, *)
(* or when an older version said so and nobody has changed the provider since; and a    *)
(* Run is never given a key that was replaced or removed.                               *)
KeysAsAnswered ==
  host = "up" => \A p \in Id : ~Pending({p}) =>
    /\ secret[p] \in may[p]
    /\ p \in DOMAIN row.models =>
         /\ row.models[p].plain = None
         /\ row.models[p].hasKey => may[p] # {None}
         /\ ~row.models[p].hasKey => None \in may[p]
    /\ getProviderCredentials(p) \in may[p] \cup {None}

(* A key that an older version kept in the row is never lost on its way to the          *)
(* credential store, wherever the start breaks off; nor is any other acknowledged key.  *)
NoKeyLost ==
  \A p \in DOMAIN row.models :
    None \notin may[p] /\ ~Pending({p}) => {row.models[p].plain, secret[p]} \cap may[p] # {}

(* Something a Run can use: a listed provider with a key and a model of its catalog.    *)
DefaultUsable ==
  row.default # None =>
    /\ row.default[1] \in DOMAIN row.models
    /\ LET r == row.models[row.default[1]]
       IN (r.plain \in Key \/ (r.plain = None /\ r.hasKey)) /\ row.default[2] \in r.models

(* An older version may leave a default no Run can use, and the start only puts its     *)
(* model right.  No step turns one that can be used into one that cannot, whatever it   *)
(* does to the provider; and a default that the import or a request changes is one that *)
(* can be used.                                                                         *)
DefaultStaysUsable ==
  [][ (DefaultUsable \/ (host \in {"importing", "up"} /\ row'.default # row.default))
        => DefaultUsable' ]_vars
=============================================================================
