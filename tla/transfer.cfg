SPECIFICATION TransferFairSpec
CONSTANTS
  c1 = c1
  c2 = c2
  Client <- MCClient
  Receivers <- OneReceiver
  Id <- MCId
  RequestId <- UniqueIds
  NoClient = NoClient
  Key <- MCKey
  KeyOf <- OneKey
  File <- SameSizeFiles
  InitStore <- MCInitStore
  Absent = Absent
INVARIANTS
  TransferTypeOK
  StoreIsSound
  AckedPutIsStored
PROPERTIES
  AtomicOperations
  EveryClientExits
