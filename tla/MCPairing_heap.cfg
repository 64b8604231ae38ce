SPECIFICATION FairSpec
CONSTANTS
  a0 = a0
  a1 = a1
  a2 = a2
  c1 = c1
  c2 = c2
  i1 = i1
  i2 = i2
  Conns = {c1, c2}
  PublicKeys = {a1}
  Multiples = {a0}
  Requests <- Odd
  HeapBlocks = 6
  Identities = {i1, i2}
  Faults = {"reset", "hangup", "write"}
INVARIANT LeakIsExact
INVARIANT UnackedAreAllocated
INVARIANT OneAnswerPerRequest
PROPERTY AnswersItsRequest
PROPERTY Answered
