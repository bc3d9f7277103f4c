CONSTANTS
    Procs = {1, 2}
    DynBase = 3
    MmapBase = 4
    StackBase = 8
    UserTop = 9
    NFRAMES = 10
    Objects = {1, 2, 3, 4}
    NFILES = 2
    FileSize = 3
    Scripts <- MCScripts
    NINODE = 5
    NInum = 5
    Names = {"a", "b", "l", "n"}
    NFILE = 2
    NOFILE = 2
    Targets <- SomeTargets
    Tree <- SomeTree
    FileScripts <- SomeScripts
SPECIFICATION FvSpec
INVARIANTS PagesExact  CountsExact  NoLockCycle 
CHECK_DEADLOCK FALSE
