SPECIFICATION Spec
CONSTANTS
  ciL = 5
  CharBits = 1
  Exponents <- MCExponents
  ExponentLimbs = 2
  Bases <- MCSigns
  Above <- MCAbove
  None = None
INVARIANT WindowContinuesPower
INVARIANT PowerIsRight
INVARIANT CacheOwnsItsLimbs
