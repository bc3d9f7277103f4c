SPECIFICATION SchedulingSpec
CONSTANTS
    NPROC = 3
    MaxPid = 4
    Calls = {"fork", "exit", "wait4"}
    Signals = {}
    KillPids <- NotInit
    WaitPids <- AnyChild
    WaitOptions <- PlainWait
INVARIANTS LockedQuiet IntrRestored 
PROPERTIES AllGetTheHart OrphansFreed Interruptible
