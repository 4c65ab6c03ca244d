SPECIFICATION Spec
CONSTANT
    Kernels <- AllKernels
INVARIANTS
    WholeTileInLds
    OperandsMatch
    SliceStored
    FitsInLds
