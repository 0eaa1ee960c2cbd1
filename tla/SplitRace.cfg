\* Two runs of one payee, two reversals and a dispute call, with journals that fail.
CONSTANTS
  s1 = s1 s2 = s2 v1 = v1 v2 = v2 l1 = l1 l2 = l2
  NoAdvance = NoAdvance NoRun = NoRun
  Runs = {s1, s2}
  Reversals = {v1, v2}
  Operating = FALSE
  Lockers = {l1}
  Net = 1
  Withheld = 1
  Cut = 1
  Dust = 0
  Target = 1
  Bounded = TRUE
  Faults = {"throw", "torn"}
SPECIFICATION Spec
SYMMETRY Symmetric
INVARIANTS TypeOK VaultsMatchBooks ReversedOnce RecoupedMatches FrozenAccounted
CHECK_DEADLOCK FALSE
