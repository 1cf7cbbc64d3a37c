SPECIFICATION Spec
CONSTANTS
  Mss = 2
  SndBuf = 4
  Wnd = 2
  SockBuf = 1
  IdleTimeout = 1
  SentMax = 1
  SynAckLost = TRUE
  MaxApp = 3
  MaxPeer = 5
INVARIANTS LossIsReported NothingStuck CallbackContract PayloadHeld SynAckAfterProxy
PROPERTIES BothStreams
CHECK_DEADLOCK FALSE
