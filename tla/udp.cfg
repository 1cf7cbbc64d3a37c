SPECIFICATION FairSpec
CONSTANTS
  a = a
  b = b
  gw = gw
  t = t
  u = u
  Flows = {a, b}
  Dest <- MCDest
  Gateway = gw
  Targets = {t, u}
  Port53 = {b}
  ProxyType = "SOCKS5"
  DnsType = "TCP"
  Mode = "WHITELIST"
  Cidrs = {}
  QMax = 2
  CdExpMax = 1
  UdpIdle = 3
  DnsIdle = 1
  MaxSent = 3
INVARIANTS QueueKept AssocUsable
PROPERTIES RuleHonoured BackoffRespected PendingResolved
