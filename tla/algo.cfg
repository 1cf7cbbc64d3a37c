SPECIFICATION MCSpec
CONSTANTS
  Base = 6
  MaxLabel = 2
  PtrBase = 4
  Dot = 3
  Upper = {1}
  Shift = 1
  MaxLen = 5
  Rounds = 4
  OutLen = 4
  QFixed = 1
  RFixed = 2
  LenA = 1
  LenAAAA = 2
  MaxSize = 8
  MaxCount = 2
  ByteBits = 2
  V4Bytes = 1
  V6Bytes = 2
  IntBits = 5
  SizeBits = 4
  FirstCapacity = 1
  MaxRules = 2
  MaxLines = 2
  Block = 2
  IpHlen = 1
  FragHlen = 2
  Mtu = 6
  MaxPayload = 8
  Radix = 4
  SumValues = {0, 1, 3}
  MaxRest = 2
  ICMP_ECHO = 2
  Proto = 3
  Blocks = 4
  BlockValues = {0, 5}
  Octets = {0, 7, 8, 64, 100, 255}
  MaxText = 8
  ByteRadix = 8
  InitialMss = 5
  MaxMss = 10
  MaxScale = 2
  RcvScale = 1
  FullWnd = 6
  ShortWnd = 5
  Len4 = 1
  Len6 = 2
  PortRadix = 5
  HdrSpace = 11
  MaxName = 4
  OctetValues = {0, 1, 2}
  DgramRest = 5
INVARIANTS MessagesDecoded RoutesByRule MatchesByLabel FragmentsExact ChecksumStandard AddressesReadBack
\* The algorithms end.
CHECK_DEADLOCK FALSE
