\* Two nodes, feedback pairs and math nodes, freed and disconnected in any order.
SPECIFICATION Spec
CONSTANTS
  User = {a, b}
  Own = {x, y, z}
  UserInputs = 1
  UserOutputs = 1
  GraphInputs = 0
  GraphOutputs = 1
  Parameters = {}
  CallSets <- OneSetOfCalls
SYMMETRY Symmetric
CHECK_DEADLOCK FALSE
INVARIANTS
  TypeOK
  EdgesNameNodes
  InputsAcyclic
  InputChangesMarked
PROPERTIES
  CommitsKeepConnections
