\* Two disputes of a model, filed, resolved, posted under and released at once.
CONSTANTS
  e1 = e1 e2 = e2 k1 = k1 d1 = d1 d2 = d2 f1 = f1 f2 = f2
  x1 = x1 x2 = x2 p1 = p1 p2 = p2 r1 = r1 r2 = r2
  NoRow = NoRow
  Legs = {e1}
  Locks = {k1}
  Disputes = {d1, d2}
  Filers = {f1}
  Resolvers = {x1, x2}
  Passes = {p1, p2}
  Releases = {r1, r2}
  Parties = 2
  Faults = TRUE
SPECIFICATION Spec
SYMMETRY Symmetric
INVARIANTS TypeOK FrozenWhileDisputed ThawedAfterwards ReleasedOnce
PROPERTY OnlyVerifiedExits
CHECK_DEADLOCK FALSE
