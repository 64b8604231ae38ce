SPECIFICATION Spec
CONSTANTS
  Identities = {id1, id2, id3, id4}
  SignKeys = {key1, key2}
  None = None
INVARIANT ValidStoreIsWhole
INVARIANT ServesStoredIdentity
