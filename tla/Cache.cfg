SPECIFICATION Spec
CONSTANTS
  Keys <- MCKeys
  Runs = {r1, r2}
  Interval = 1
  MaxAge = 1
  Caps = {0, 1}
  MaxTime = 4
INVARIANTS TypeOK IndexPersisted RecencyPersisted 
SYMMETRY MCSymmetry
