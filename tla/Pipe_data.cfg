CONSTANTS
    Procs = {p1, p2}
    PIPESIZE = 2
    Width = 2
    Bytes = {0, 1}
    MaxLen = 3
SPECIFICATION Spec
SYMMETRY ProcSymmetry
PROPERTIES ImplementsFifo
CHECK_DEADLOCK FALSE
