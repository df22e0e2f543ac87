SPECIFICATION Spec
CONSTANTS
  RingCapacity = 1
  Outputs <- MCOutputs
  MaxCommands = 3
INVARIANTS CommandsConserved ResponsesInOrder FeedComplete
PROPERTIES ResponsesTaken StopTerminates
