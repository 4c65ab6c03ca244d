SPECIFICATION Spec
CONSTANT Sources <- MCSources
INVARIANTS
  TypeOK
  OnlyHints
  KeepsUses
  SyncIdsIdentifySpans
  CountsDeclaredSpans
  PipelinesComplete
  Satisfiable
CHECK_DEADLOCK FALSE
