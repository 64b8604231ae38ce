SPECIFICATION MCSpec
CONSTANTS
  ciL = 1
  CharBits = 4
  Kernels <- MCKernels
  Unroll = 2
  Calls <- MCCalls
  Extends = {0, 1}
INVARIANT MCKernelsMultiply
INVARIANT TagIsPoly1305
INVARIANT FieldKeepsResidue
INVARIANT BlockIsChaCha20
INVARIANT HashIsSha512
CHECK_DEADLOCK FALSE
