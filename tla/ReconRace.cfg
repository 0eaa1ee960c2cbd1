\* Two workers, one job of two lines, every fault and overtaken claims.
CONSTANTS
  j1 = j1 j2 = j2 w1 = w1 w2 = w2 e1 = e1 e2 = e2
  NoJob = NoJob NoLine = NoLine
  Jobs = {j1}
  Workers = {w1, w2}
  Lines = {e1, e2}
  LinesOf <- MCSharedIngest
  Postable = {e1, e2}
  Identified = {e1}
  MaxAttempts = 3
  Faults = TRUE
  Overtaking = TRUE
SPECIFICATION FairSpec
INVARIANTS TypeOK CreditedOnce JournalsHaveCredits
PROPERTIES ImplementsBoard EveryJobEnds
CHECK_DEADLOCK FALSE
