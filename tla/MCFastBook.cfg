SPECIFICATION MCSpec
CONSTANTS
  OrderId = {o1, o2, o3}
  Prices = {2, 3, 5}
  Qtys = {0, 1, 2}
  QtyMod = 4
  Tick = 2
  HalfTicks = 1
VIEW Observed
SYMMETRY IdSymmetry
INVARIANTS PoolPartitioned CursorsBound 
PROPERTIES ImplementsReference
