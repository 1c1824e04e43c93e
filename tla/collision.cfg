SPECIFICATION TransferSpec
CONSTANTS
  c1 = c1
  c2 = c2
  Client <- MCClient
  Receivers <- NoReceivers
  Id <- MCId
  RequestId <- CollidingIds
  NoClient = NoClient
  Key <- MCKey
  KeyOf <- TwoKeys
  File <- SameSizeFiles
  InitStore <- MCInitStore
  Absent = Absent
INVARIANT AckedPutIsStored
