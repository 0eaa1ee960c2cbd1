\* Two withdrawals of one holder: a settlement between the two sums of the
\* second reserve.
CONSTANTS
  w1 = w1 w2 = w2 h1 = h1 r1 = r1 r2 = r2
  NoIntent = NoIntent
  Intents = {w1, w2}
  Holders = {h1}
  Resolvers = {r1}
  TaxNum = 1 TaxDen = 4
  HolderOf <- MCHolderOf
  Amount <- MCAmount
  Gross <- MCGross
SPECIFICATION Spec
INVARIANT SecondRefuses
CHECK_DEADLOCK FALSE
