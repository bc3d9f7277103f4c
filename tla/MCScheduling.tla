---------------------------- MODULE MCScheduling ----------------------------
(***************************************************************************)
(* Who gets the hart: the process table under a fair timer, and below it   *)
(* the interrupts, spin locks and context switches themselves.  An initial *)
(* state chooses one of the two; the other rests in its initial state.     *)
(***************************************************************************)
EXTENDS MCProc

VARIABLES
    which,
    hart, thread, runs, found, slot, sleepsOn, epc, todo               \* Interrupts

Hart ==
    INSTANCE Interrupts WITH
        NPROC <- 2, cur <- thread, cproc <- runs, state <- slot, chan <- sleepsOn

intVars == <<hart, thread, runs, found, slot, sleepsOn, epc, todo>>

SchedulingInit == which \in {"table", "hart"} /\ Init /\ Hart!Init

SchedulingNext ==
    \/ which = "table" /\ Next /\ UNCHANGED <<which, intVars>>
    \/ which = "hart" /\ Hart!Next /\ UNCHANGED <<which, vars>>

SchedulingSpec ==
    /\ SchedulingInit /\ [][SchedulingNext]_<<which, vars, intVars>>
    /\ WF_vars(which = "table" /\ scheduler)
    /\ \A p \in Procs : /\ WF_vars(which = "table" /\ (TimerUser(p) \/ Preempt(p)))
                        /\ SF_vars(which = "table" /\ KernelStep(p))
    /\ SF_vars(which = "table" /\ InitWait)
    /\ WF_intVars(which = "hart" /\ Hart!HartStep)

-----------------------------------------------------------------------------
(* Properties *)

\* No process stays RUNNABLE for ever without being chosen by scheduler().
AllGetTheHart == which = "table" => RunnableRuns

\* A zombie whose parent is init, by fork() or by reparent(), is freed by init's
\* wait4(), whoever exited first.
OrphansFreed == which = "table" => OrphansReaped

\* While a spin lock is held interrupts are off (spinlock.c).
LockedQuiet == which = "hart" => Hart!LockedQuiet

\* System calls run with interrupts on, page faults with interrupts off, also
\* after sleeping, preemption and nested locks (spinlock.c:93, proc.c:659-661);
\* user mode holds no lock and traps to uservec (trap.c:129-153).
IntrRestored == which = "hart" => Hart!IntrRestored /\ Hart!UserClean

\* No check of acquire, release, pop_off, sched, usertrap or kerneltrap fails,
\* and every sret goes back to where its trap came from (trap.c:195-198).
HartNoPanic == which = "hart" => Hart!TypeOK /\ Hart!NoPanic

\* Devices can interrupt again and again (proc.c:605).
Interruptible == which = "hart" => Hart!Interruptible
=============================================================================
