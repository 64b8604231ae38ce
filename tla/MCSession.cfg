SPECIFICATION MCSpec
CONSTANTS
  Secrets = {s1, s2}
  Lengths = {1, 3, 4, 5}
  LengthMod = 4
  Radix = 2
  NonceBytes = 3
  MaxRecords = 4
  MaxQueue = 2
  None = None
  Base = 4
  Block = 2
  CounterBytes = 3
  IvBytes = 2
  MacBytes = 4
  TextLengths = {1, 3, 4, 5, 9}
  MaxSealed = 3
  HashBytes = 2
  HmacBlock = 3
  KeyBytes = 1
  Symbols <- MCSymbols
  SharedSecrets <- MCSharedSecrets
  ControlSalt <- MCControlSalt
  ReadInfo <- MCReadInfo
  WriteInfo <- MCWriteInfo
  Renewals = 3
INVARIANT RecordsOpen
INVARIANT KeysAreOfConnection
INVARIANT KeystreamUsedOnce
INVARIANT OpensWhatWasSealed
INVARIANT DerivesHkdf
CHECK_DEADLOCK FALSE
