SPECIFICATION Spec
CONSTANTS
  Regs <- MCRegs
  Trips <- MCTrips
  Programs <- CarriedPrograms
INVARIANTS
  KeepsMemoryAccesses
CHECK_DEADLOCK FALSE
