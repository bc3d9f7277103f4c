SPECIFICATION FairSpec
CONSTANTS
    NPROC = 3
    MaxPid = 3
    Calls = {"fork", "exit", "wait4", "kill"}
    Signals = {9}
    KillPids <- NotInit
    WaitPids <- AnyChild
    WaitOptions <- PlainWait
PROPERTY KilledExits
