\* UGens in wrappers: changes, ramps, ends.
SPECIFICATION Spec
CONSTANTS
  One = 4
  Graphs <- SomeGraphs
  BlockSize = 4
  Slots = 2
  NaN = NaN
CHECK_DEADLOCK FALSE
INVARIANTS
  TypeOK
  HeardWhenDue
PROPERTIES
  FreedAtItsEnd
  Settles
