\* Two changes to a node with precise timing and to one without.
SPECIFICATION Spec
CONSTANTS
  t = t
  NoToken = NoToken
  Node = {a, b}
  Parameter = {0}
  Playing = {b}
  Timed = {a}
  Delayed = 3
  Token = {t}
  Schedules <- Scheduled
  Parts <- Both
  TESIMALS = 6
  BEAT_TESIMALS = 6
  SampleRate = 3
  BlockSize = 2
  RingSize = 2
  MaxSent = 3
  MaxFrame = 8
CHECK_DEADLOCK FALSE
CONSTRAINT OneNodeChanges
INVARIANTS
  TypeOK
  NeverEarly
  NothingReadyWaits
  ChangesPrecedeTasks
  KeptForASecond
  OnceInOrder
