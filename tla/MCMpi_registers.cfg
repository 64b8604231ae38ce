SPECIFICATION Spec
CONSTANTS
  ciL = 2
  CharBits = 1
  Regs = {1, 2}
  Digits <- MCDigits
  Counts = {1, 2, 3, 5}
  Bufs <- MCBufs
  MaxLimbs <- MCMaxLimbs
INVARIANT ComparesAsIntegers
INVARIANT WrittenIsRead
INVARIANT ComputesIntegers
