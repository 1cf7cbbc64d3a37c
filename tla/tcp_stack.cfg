SPECIFICATION MCSpec
CONSTANTS
  SeqSpace = 16
  Iss = 13
  Total = 3
  Mss = 2
  SndBuf = 4
  PeerBuf = 1
  MaxRtx = 2
  MaxCwnd = 5
  MaxDup = 4
  MaxAcks = 1
  RcvSpace = 32
  RcvIrs = 29
  RcvTotal = 7
  RcvWnd = 6
  RcvSynWnd = 5
  RcvUnit = 2
  RcvMss = 2
INVARIANTS RetransmitQueue WireSound ReceivedExactly
PROPERTIES Delivered WindowNeverShrinks AllReceived
CHECK_DEADLOCK FALSE
