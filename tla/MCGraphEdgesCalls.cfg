\* Chains of two math nodes or a feedback pair; parameters; or graph inputs.
SPECIFICATION Spec
CONSTANTS
  User = {a, b}
  Own = {x, y}
  UserInputs = 1
  UserOutputs = 1
  GraphInputs = 1
  GraphOutputs = 1
  Parameters = {p}
  CallSets <- ThreeSetsOfCalls
SYMMETRY Symmetric
CHECK_DEADLOCK FALSE
PROPERTIES
  CallsAsAsked
  ImplementsConnections
