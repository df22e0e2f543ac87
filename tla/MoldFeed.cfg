SPECIFICATION Spec
CONSTANTS
  BlockSize = {1, 4}
  HeaderSize = 2
  Mtu = 5
  EosCount = 99
  MaxMessages = 3
  MaxBatch = 3
  MaxRepeats = 1
  MaxHeartbeats = 2
INVARIANTS PacketsTile PrefixUnlessGap CompleteAtEnd CaptureReplays
PROPERTIES GapMeansMissing
CHECK_DEADLOCK FALSE
