SPECIFICATION PortedFairSpec

CONSTANTS
  j = j
  y = y
  NoClient = NoClient
  Client <- MCClient
  Receivers = {j}
  Java = {j}
  Id <- MCId
  RequestId <- MCRequestId

INVARIANTS
  PortedTypeOK
  HandlesNested
  FailedSetupReleases
  PortedTokenUsable
  PeerBeforeRtr

PROPERTY
  EveryClientExits
