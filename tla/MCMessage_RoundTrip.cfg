CONSTANTS
  o1 = o1
  o2 = o2
  pEmpty = pEmpty
  p128 = p128
  pZip = pZip
  pRand = pRand
  pMax = pMax
  pHuge = pHuge
  pGarbage = pGarbage
  NULL = NULL
  Objs <- MCObjs
  Payloads <- MCPayloads
  PeerPayloads <- MCPeerPayloads
  Garbage <- pGarbage
  EmptyPayload <- pEmpty
  PLen <- MCPLen
  Lz4Len <- MCLz4Len
  WireTypes <- MCWireTypes
  SendTypes <- MCSendTypes
  PeerFrames <- MCPeerFrames
SPECIFICATION Spec
INVARIANTS RoundTrip
