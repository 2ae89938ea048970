\* Two slots in each ring: updates pile up, while nodes are freed in every way.
SPECIFICATION Spec
CONSTANTS
  a = a
  b = b
  Key = {a, b}
  SelfFreeing = {a}
  AutoMath = {b}
  Guarded = {}
  RingSize = 2
  MaxUpdates = 0
INVARIANTS
  TypeOK
  TasksOwnTheirUGens
  UGensMoved
  RemovedUnreachable
  MemoryKept
PROPERTY
  ImplementsUpdates
