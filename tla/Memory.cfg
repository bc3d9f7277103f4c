CONSTANTS
    Procs = {p1, p2}
    MaxOrder = 2
    NBlocks = 2
    Sizes = {1, 3}
    MaxUses = 2
SPECIFICATION MemSpec
SYMMETRY ProcSymmetry
INVARIANTS PagesConserved SlabsExact  FramesCounted CopiesRight
PROPERTIES ImplementsUserMemory
CHECK_DEADLOCK FALSE
