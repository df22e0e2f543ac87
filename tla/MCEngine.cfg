SPECIFICATION MCSpec
CONSTANTS
  OrderId = {1, 2, 3}
  Client = {c1, c2}
  Token = {t1, t2}
  Symbol = {s1, s2}
  Enters <- MCEnters
  Prices = {0, 1, 2}
  Qtys = {0, 1, 2}
  MarketPrice = 9
  PriceMax = 10
  QtyMod = 8
VIEW Observed
SYMMETRY ClientSymmetry
INVARIANTS MapsMatchBooks ClientViewExact MirrorExact FilteredExact
 
