SPECIFICATION MCSpec
CONSTANTS
  d1 = d1
  d2 = d2
  d3 = d3
  MaxPbufs = 3
  MaxAge = 2
  U16 = 5
  Pbufs = 11
  SndBuf = 6
  Mss = 2
  Hdr = 1
  Ports = {1, 2}
  MaxPcbs = 3
  PrefixSet = {x}
  Neighbors = 2
  Routers = 1
  PrefixSlots = 1
  MaxSolicit = 1
  DelayTime = 1
  ReachableTime = 2
  Lifetime = 2
  ValidLife = 1
INVARIANTS DatagramWhole QueueSound PbufsCounted FlowExact AnswersAddressed NoDanglingReference
PROPERTY StaleStateExpires
\* The interface is gone.
CHECK_DEADLOCK FALSE
