SPECIFICATION Spec
CONSTANTS
  ciL = 1
  CharBits = 3
  DividendLimbs = 3
  DivisorLimbs = 2
  ModulusLimbs = 2
  Widths = {4, 8}
  Dividends <- MCDividends
  Divisors <- MCDivisors
  Moduli <- MCModuli
  Factors <- MCFactors
INVARIANT DigitsBalance
INVARIANT IsResidue
INVARIANT RoundReduces
INVARIANT ProductIsReduced
CHECK_DEADLOCK FALSE
