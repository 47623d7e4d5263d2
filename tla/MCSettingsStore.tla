--------------------------- MODULE MCSettingsStore ---------------------------
(* SettingsStore for model checking: two addresses, two keys, and what older versions    *)
(* may have left: keys in the row whatever it says of them, an empty key field, a row    *)
(* that speaks of a key nobody has, a key no row speaks of, built-in templates, a default *)
(* without a key, without a provider, or of a model that has left the catalog.           *)
EXTENDS SettingsStore, TLC

CONSTANTS p1, p2, p3, u1, u2, m1, m2, k1, k2

Left(t, d, e, s) == [row |-> [models |-> t, default |-> d, envImported |-> e],
                     secret |-> [p \in Id |-> IF p \in DOMAIN s THEN s[p] ELSE None]]
Listed(u, ms, has, plain) == [url |-> u, models |-> ms, hasKey |-> has, plain |-> plain]

(* p1 and p2 are providers a user made, of which either may be the first. *)
MCLegacy == UNION {{
  Left(a :> Listed(u1, {m1}, FALSE, k1) @@ p3 :> Listed(u2, {m1, m2}, TRUE, None),
       <<a, m2>>, FALSE, b :> k1 @@ p3 :> k2),
  Left(a :> Listed(u1, {m2}, TRUE, k1) @@ p3 :> Listed(u1, {m1}, TRUE, k1),
       <<p3, m1>>, TRUE, a :> k2 @@ b :> k1 @@ p3 :> k2),
  Left(a :> Listed(u2, {m1}, TRUE, None), <<a, m1>>, TRUE, b :> k1),
  Left(a :> Listed(u1, {}, FALSE, Empty), <<a, m1>>, TRUE, a :> k1 @@ b :> k2),
  Left(a :> Listed(u1, {m1, m2}, TRUE, Empty), <<b, m1>>, FALSE, a :> k1) }
  : <<a, b>> \in {<<p1, p2>>, <<p2, p1>>}}

Symmetry == Permutations({p1, p2})
=============================================================================
