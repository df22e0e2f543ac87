SPECIFICATION Spec
CONSTANTS
  Day = 12
  Word = 64
  HeartbeatInterval = 2
  SessionTimeout = 4
  Start = 8
  Horizon = 18
  MaxRead = 2
  MaxQueued = 4
  MaxOwed = 2
PROPERTIES DropsOnlySilentPeers
CHECK_DEADLOCK FALSE
