CONSTANTS
  None = None
  NotBoolean = NotBoolean
  MaxGiven = 2
  GivenValues <- MCGivenValues
  MaxKeys = 3
  HostLists <- MCHostLists
  CredLists <- MCCredLists
  Ports <- MCPorts
  Concurrency = {0, 200, 201}
  MaxEntries = 2
  Directories <- MCDirectories
  VaultRequests = {r1, r2}
  Workers = {w1, w2}
  MaxWipes = 2
  MaxQueued = 2
  Readers = {g1, g2}
  MaxAggregates = 2
SPECIFICATION Spec
INVARIANTS
  SecretsEncryptedOnce
  OneMethod
  SourceFitsType
  GetThenPutIsNeutral
  PatchKeepsOthers
  StoredConfigVerified
  CompleteHasFingerprints
  NeverDoubleCounted
  SettledAggregateCounts
PROPERTIES
  NewDefinitionNotOverwritten
  FingerprintsComeBack
CHECK_DEADLOCK FALSE
