CONSTANTS
  a1 = a1
  a2 = a2
  NULL = NULL
  Ids = {a1, a2}
  Times = {1, 2}
  MAX_CAPABILITIES = 32
  MaxRx = 2
  MaxWire = 2
  InitAddrs <- MCInitAddrs
  PeerFrames <- MCPeerFrames
SPECIFICATION Spec
INVARIANTS TypeOK RoundTrip CompleteEntries
