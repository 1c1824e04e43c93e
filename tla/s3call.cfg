SPECIFICATION Spec
CONSTANTS
  Cap0 = 3
  Char <- MCChar
  UploadIds <- MCUploadIds
  UploadIdSize = 3
  NumSize = 4
  EtagSize = 4
  IntBits = 5
  LongBits = 7
  PartLists <- MCPartLists
  EtagLens = {0, 7, 255}
  MaxParts = 3
  NoValue = NoValue
INVARIANTS
  CallTypeOK
  SignatureAgrees
  OkMeansDone
  TakesServersAnswer
  ReturnsClean
