CONSTANTS
    Procs = {p1, p2}
    Crowd = {p1, p2, p3}
    NBUF = 2
    ind = ind
    bmp = bmp
    blk = blk
    Blocks <- FsBlocks
    Values = {0, 1}
    Nested <- FsNested
    Unwritten = FALSE
    Nobody = Nobody
    Layout <- SomeLayout
    Scenarios <- SomeScenarios
SPECIFICATION StorageSpec
SYMMETRY ProcSymmetry
INVARIANTS BuffersOrderly  WritesKept CrashSafe 
PROPERTIES ImplementsStore
CHECK_DEADLOCK FALSE
