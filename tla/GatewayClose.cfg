SPECIFICATION Spec
CONSTANTS
  Fd = {f1}
  Packets = {"login", "order"}
  MaxPeers = 1
  MaxPackets = 2
  MaxTicks = 0
INVARIANTS NotTouchedAfterClose
CHECK_DEADLOCK FALSE
