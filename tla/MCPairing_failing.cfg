SPECIFICATION Spec
CONSTANTS
  a0 = a0
  a1 = a1
  a2 = a2
  c1 = c1
  c2 = c2
  i1 = i1
  i2 = i2
  Conns = {c1}
  PublicKeys = {a0, a1, a2}
  Multiples = {a0}
  Requests <- Mixed
  HeapBlocks = 9
  Identities = {i1}
  Faults = {"mpi"}
INVARIANT AcceptedOnPin
