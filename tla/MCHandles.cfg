\* Typed and dynamic handles.
SPECIFICATION Spec
CONSTANTS
  Starts <- SomeStarts
  GraphInputs = 1
  GraphOutputs = 1
  Selections <- TwoSelections
  Operations <- OneOperation
CHECK_DEADLOCK FALSE
INVARIANTS
  TypeOK
  HalfCallsNeverPlayed
PROPERTIES
  ResultsAsAsked
  ConnectsAllThatFits
