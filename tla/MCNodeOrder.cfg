\* Three nodes of up to two inputs and a parameter, two outputs.
SPECIFICATION FairSpec
CONSTANTS
  NumNodes = 3
  Inputs <- UpToTwoInputs
  Params <- UpToOneParam
  Outputs <- TwoOutputs
CHECK_DEADLOCK FALSE
INVARIANTS
  TypeOK
  EachOnce
  SearchOrder
PROPERTIES
  Terminates
