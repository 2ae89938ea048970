\* What precise_timing.rs says of changes within a block.
SPECIFICATION Spec
CONSTANTS
  t = t
  NoToken = NoToken
  Node = {a}
  Parameter = {0}
  Playing = {a}
  Timed = {a}
  Delayed = 3
  Token = {t}
  Schedules <- InAndBetweenBlocks
  Parts <- OnlyValues
  TESIMALS = 8
  BEAT_TESIMALS = 6
  SampleRate = 4
  BlockSize = 2
  RingSize = 2
  MaxSent = 2
  MaxFrame = 8
CHECK_DEADLOCK FALSE
INVARIANT SampleAccurate
