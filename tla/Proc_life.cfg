SPECIFICATION Spec
CONSTANTS
    NPROC = 4
    MaxPid = 4
    Calls = {"fork", "exit", "wait4", "fault"}
    Signals = {}
    KillPids = {}
    WaitPids <- AnyOrOne
    WaitOptions <- PlainWait
INVARIANTS ParentAlive NoMissedExit
PROPERTIES FreedAfterExit
