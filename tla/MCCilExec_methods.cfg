\* Every instruction, methods of 5.
CONSTANTS
  MaxCode = 5
  Instructions <- AllInstructions
  Locals = {1}
  Modulus = 3
  Length = 2
  Fuel = 12
SPECIFICATION Spec
INVARIANTS TypeOK LateEvaluationAgrees BranchesHaveLabels
CHECK_DEADLOCK FALSE
