SPECIFICATION Spec
CONSTANTS
  Ports = {1, 2}
  MaxPcbs = 3
INVARIANT OnlyLaterHopByHop
