\* Four tasks of up to two outputs and up to two sources, two of which may run later.
SPECIFICATION Spec
CONSTANTS
  NumTasks = 4
  Reads <- UpToTwoReads
  Channels = {0, 1, 2}
  Capacity = 4
  UsizeMax = 100
CONSTRAINT KnownWhereRead
CHECK_DEADLOCK FALSE
INVARIANTS
  TypeOK
  DataKept
  AllocationFits
