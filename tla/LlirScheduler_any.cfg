SPECIFICATION Spec
CONSTANT Sources <- AnyStages
INVARIANTS
  Satisfiable
CHECK_DEADLOCK FALSE
