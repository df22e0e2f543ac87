SPECIFICATION Spec
CONSTANTS
  Key = {k1, k2, k3, k4, k5}
  Val = {v1, v2}
  HashValues = {0, 5, 6, 7}
  InitialCap = 4
  Free = free
SYMMETRY KeySymmetry
INVARIANTS ProbesEnd FindsWhatWasStored
