CONSTANTS
  None = None
  Keep = Keep
  Empty = Empty
  Lost = Lost
  p1 = p1
  p2 = p2
  p3 = p3
  u1 = u1
  u2 = u2
  m1 = m1
  m2 = m2
  k1 = k1
  k2 = k2
  Id = {p1, p2, p3}
  Url = {u1, u2}
  Model = {m1, m2}
  Key = {k1, k2}
  Legacy <- MCLegacy
  Builtin = {p3}
  EnvUrl = u1
  EnvModel = m2
  EnvKey = k2
  MaxCrashes = 1
SPECIFICATION Spec
SYMMETRY Symmetry
INVARIANTS
  KeysAsAnswered
  NoKeyLost
PROPERTIES
  DefaultStaysUsable
CHECK_DEADLOCK FALSE
