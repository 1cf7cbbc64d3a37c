SPECIFICATION FairSpec
CONSTANTS
  Mss = 2
  SndBuf = 4
  Wnd = 2
  SockBuf = 1
  IdleTimeout = 1
  SentMax = 1
  SynAckLost = FALSE
  MaxApp = 2
  MaxPeer = 3
PROPERTIES EofsArrive ConnectAnswered
CHECK_DEADLOCK FALSE
