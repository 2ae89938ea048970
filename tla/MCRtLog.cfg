\* The log of two audio threads, one with a ring that is too small.
SPECIFICATION Spec
CONSTANTS
  MaxChannels = 2
  Capacity <- TwoRings
  MaxParts = 2
  MaxMessages <- SomeMessages
CHECK_DEADLOCK FALSE
INVARIANTS
  TypeOK
PROPERTIES
  HandedAsItLies
  MessagesArrive
