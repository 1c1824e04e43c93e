SPECIFICATION Spec
CONSTANTS
  Radix = 32
  GidLen = 4
  GidIdx = 61
  ServerIdx = 62
  BufSize = 20
  RespMax = 4
  IdLens <- MCIdLens
  Masks <- MCMasks
  Replies <- MCReplies
  XorOf <- MCXor
INVARIANT
  PathIsFromGidIndex
