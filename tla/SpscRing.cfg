SPECIFICATION Spec
CONSTANTS
  N = 4
  Data = {d1, d2, d3}
  Blank = blank
INVARIANTS NoSlotRace
PROPERTIES ImplementsFifo
