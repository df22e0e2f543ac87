SPECIFICATION MCSpec
CONSTANTS
  OrderId = {1, 2, 3}
  Prices = {0, 1, 2}
  Qtys = {0, 1, 2}
  QtyMod = 4
INVARIANTS TypeOK NeverCrossed IndexConsistent LevelTotals
PROPERTIES PriceTimePriority CallReturns
