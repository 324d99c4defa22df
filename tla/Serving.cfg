SPECIFICATION Spec
SYMMETRY Symmetry
CONSTANTS
  Models = {m1}
  NameOf <- MCNameOf
  Versions = {v1, v2}
  Nodes = {n1}
  Deps = {d1}
  Slots = {s1, s2}
  Ttl = 0
  SweepEvery = 1
INVARIANTS BooksTrue
PROPERTIES SweepIsFair
