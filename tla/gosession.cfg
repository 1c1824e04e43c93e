SPECIFICATION GoFairSpec

CONSTANTS
  a = a
  b = b
  NoClient = NoClient
  Client <- MCClient
  Receivers = {}
  Id <- MCId
  RequestId <- MCRequestId
  PartsPerFile = 2

INVARIANTS
  GoTypeOK
  DeferredInOrder
  PartReturnsClean
  ReleasedOnce
  GoTokenUsable

PROPERTY
  EveryClientExits
