SPECIFICATION MCSpec
CONSTANTS
  GfLimbs = 2
  GfBits = 6
  ScalarBits = 8
  Coefficient = 10
  Scalars <- MCScalars
  Abscissas <- MCAbscissas
INVARIANT MCLadderMultiplies
INVARIANT EncodingsInvert
INVARIANT SignedOpens
CHECK_DEADLOCK FALSE
