SPECIFICATION Spec
CONSTANTS
    NPROC = 2
    MaxPid = 2
    Calls = {"fork", "exit", "wait4", "kill", "sigsuspend", "sigaction", "execve", "setpgid"}
    Signals = {15, 19}
    KillPids <- NotInitOrGroup
    WaitPids <- AnyOrGroup
    WaitOptions <- SomeWaits
INVARIANTS CpuOwner
