SPECIFICATION Spec
CONSTANTS
  Fd = {f1, f2}
  Packets = {"login", "order", "risky_order", "logout"}
  MaxPeers = 2
  MaxPackets = 2
  MaxTicks = 0
SYMMETRY FdSymmetry
INVARIANTS MapsAgree OwnAnswersOnly NoAnswerLost
CHECK_DEADLOCK FALSE
