SPECIFICATION PeerSpec
CONSTANTS
  Day = 12
  Word = 64
  HeartbeatInterval = 2
  SessionTimeout = 6
  Start = 5
  Horizon = 18
  MaxRead = 2
  MaxQueued = 4
  MaxOwed = 2
  LoginWait = 2
  ClientInterval = 1
  PollGap = 1
  ReadDelay = 2
  PipeRoom = 2
  MaxSubmitted = 2
INVARIANTS LoginFirst SilenceBounded 
PROPERTIES DropsWithinDay ClientKept
CHECK_DEADLOCK FALSE
