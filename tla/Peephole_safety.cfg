SPECIFICATION Spec
CONSTANTS
  Regs <- MCRegs
  Trips <- MCTrips
  Programs <- DisciplinedPrograms
INVARIANTS
  TypeOK
  KeepsMemoryAccesses
  StaysSynchronised
PROPERTY
  Termination
CHECK_DEADLOCK FALSE
