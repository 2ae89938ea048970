\* Blocks of four frames, and callbacks of fewer and of more.
SPECIFICATION Spec
CONSTANTS
  BlockSize = 4
  SampleRate = 3
  TESIMALS = 6
  CpalSizes <- SomeSizes
  JackSizes <- Periods
  Splits <- AllSplits
  MaxFrames = 13
  MaxStarts = 2
CHECK_DEADLOCK FALSE
INVARIANTS
  HeardInStep
