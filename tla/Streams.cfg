SPECIFICATION StreamSpec
CONSTANTS
    Procs = {p1, p2}
    PIPESIZE = 1
    Width = 1
    Bytes = {0}
    MaxLen = 2
    ShellCases <- MCCases
INVARIANTS PipeSound OutputRight ShellRight
PROPERTIES ImplementsLines CallsReturn LinesDone
CHECK_DEADLOCK FALSE
