SPECIFICATION Spec
CONSTANTS
  SeqSpace = 16
  Iss = 13
  Total = 2
  Mss = 2
  SndBuf = 4
  PeerBuf = 1
  MaxRtx = 2
  MaxCwnd = 5
  MaxDup = 4
  MaxAcks = 1
INVARIANT PersistHasData
CHECK_DEADLOCK FALSE
