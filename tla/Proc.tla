-------------------------------- MODULE Proc --------------------------------
(***************************************************************************)
(* The process table of kernel/proc.c: scheduler, sleep/wakeup, fork, exit,*)
(* wait4, and signal delivery by kill, with the parts of usertrap() and    *)
(* kerneltrap() (kernel/trap.c) that drive them.                           *)
(*                                                                         *)
(* The kernel runs on one hart (NCPU is 1 in include/config.h) and may be  *)
(* preempted by the timer whenever interrupts are on.  A critical section  *)
(* of a spinlock runs with interrupts off, so it is one step here; between *)
(* two critical sections a process can lose the CPU (Preempt).  Statements *)
(* outside any critical section belong to the step of the next one.        *)
(*                                                                         *)
(* pc[p] is the place in the kernel where process p continues when it next *)
(* has the CPU.  The local variables of the call in progress are functions *)
(* of p too: obj is the other slot the call works on (np in fork(), the    *)
(* target of kill() and handle_signal()), arg the pid argument of kill()   *)
(* or wait4(), sig kill()'s signal and hsig the one handle_signal() gets,  *)
(* opt the options of wait4() and status the argument of exit().           *)
(***************************************************************************)
EXTENDS Integers

CONSTANTS
    NPROC,        \* slots of the process table
    MaxPid,       \* bound of the model: fork fails once nextpid exceeds it
    Calls,        \* the system calls the user programs of the instance make
    Signals,      \* the signals they send, by number
    KillPids,     \* the pid arguments they give to kill
    WaitPids,     \* ... and to wait4
    WaitOptions   \* the option sets they give to wait4; "EFAULT" stands for a
                  \* status pointer that copyout() cannot write through

WaitFlags == {"WNOHANG", "WUNTRACED", "EFAULT"}

SIGINT == 2
SIGKILL == 9
SIGTERM == 15
SIGCONT == 18
StopSignals == {19, 20, 21, 22}
IgnoredSignals == {17, 23, 28}

ASSUME ConstantsAssumption ==
    /\ NPROC \in Nat \ {0} /\ MaxPid \in Nat \ {0}
    /\ Calls \subseteq {"fork", "exit", "wait4", "kill", "sigsuspend", "sigaction",
                       "execve", "setpgid", "fault"}
    /\ Signals \subseteq 1..31
    /\ KillPids \subseteq Int /\ WaitPids \subseteq Int
    /\ WaitOptions \subseteq SUBSET WaitFlags

Procs == 1..NPROC
SigNums == Signals \union {SIGCONT}
initproc == 1
States == {"UNUSED", "USED", "SLEEPING", "RUNNABLE", "RUNNING", "ZOMBIE"}
Labels == {"user", "fork", "fork1", "fork2", "exit", "exit2", "wait4", "waitk",
           "kill", "send", "send2", "handle", "hclear", "sigsuspend", "pause",
           "sigaction", "execve", "setpgid", "fault", "sysret", "sigchk"}

VARIABLES
    state, chan, killed, paused, xstate, pid, pgid,   \* struct proc, p->lock
    parent,                                           \* struct proc, wait_lock
    pending, handler,                                 \* struct signal
    open,      \* whether the slot's ofile[] and cwd hold references
    nextpid, cproc,                                   \* nextpid, cpus[0].proc
    next,      \* the slot the scheduler's loop looks at next
    pc,
    obj, arg, sig, hsig, opt, status   \* locals of the call in progress

sigVars == <<pending, handler, paused>>
procVars == <<state, chan, killed, xstate, pid, pgid, parent, open>>
locals == <<obj, arg, sig, hsig, opt, status>>
vars == <<procVars, sigVars, nextpid, cproc, next, pc, locals>>

(***************************************************************************)
(* Initially userinit() has made slot 1 the init process, RUNNABLE, and the*)
(* scheduler starts its first round.                                       *)
(***************************************************************************)
Init ==
    /\ state = [p \in Procs |-> IF p = initproc THEN "RUNNABLE" ELSE "UNUSED"]
    /\ pid = [p \in Procs |-> IF p = initproc THEN 1 ELSE 0]
    /\ pgid = pid
    /\ open = [p \in Procs |-> p = initproc]
    /\ chan = [p \in Procs |-> 0]
    /\ killed = [p \in Procs |-> FALSE]
    /\ paused = [p \in Procs |-> FALSE]
    /\ xstate = [p \in Procs |-> 0]
    /\ parent = [p \in Procs |-> 0]
    /\ pending = [p \in Procs |-> {}]
    /\ handler = [p \in Procs |-> [s \in SigNums |-> "SIG_DFL"]]
    /\ nextpid = 2
    /\ cproc = 0
    /\ next = 1
    /\ pc = [p \in Procs |-> "user"]
    /\ obj = [p \in Procs |-> 0] /\ arg = [p \in Procs |-> 0]
    /\ sig = [p \in Procs |-> 0] /\ hsig = [p \in Procs |-> 0]
    /\ opt = [p \in Procs |-> {}] /\ status = [p \in Procs |-> 0]

At(p, label) == cproc = p /\ pc[p] = label
Goto(p, label) == pc' = [pc EXCEPT ![p] = label]
Drop(p) ==
    /\ obj' = [obj EXCEPT ![p] = 0] /\ arg' = [arg EXCEPT ![p] = 0]
    /\ sig' = [sig EXCEPT ![p] = 0] /\ hsig' = [hsig EXCEPT ![p] = 0]
    /\ opt' = [opt EXCEPT ![p] = {}] /\ UNCHANGED status

-----------------------------------------------------------------------------
(* scheduler(), yield(), sleep(), wakeup() *)

(***************************************************************************)
(* The table as wakeup(c) called by p leaves it, for every c in C.         *)
(***************************************************************************)
wakeup(p, C, table) ==
    [q \in Procs |-> IF q # p /\ table[q] = "SLEEPING" /\ chan[q] \in C
                     THEN "RUNNABLE" ELSE table[q]]

(***************************************************************************)
(* The slot scheduler()'s loop comes to next.                              *)
(***************************************************************************)
\* A wrong version for comparison: after a switch the search starts over.
NextSlotFromStart == IF state[next] = "RUNNABLE" THEN 1 ELSE (next % NPROC) + 1
NextSlot == (next % NPROC) + 1

(***************************************************************************)
(* One turn of scheduler()'s loop.  A chosen process resumes behind the    *)
(* swtch() in sleep(), yield() or forkret(); what these still do under     *)
(* p->lock, of which only p->chan = 0 matters here, belongs to this step.  *)
(***************************************************************************)
scheduler ==
    /\ cproc = 0
    /\ next' = NextSlot
    /\ IF state[next] = "RUNNABLE"
       THEN /\ state' = [state EXCEPT ![next] = "RUNNING"]
            /\ cproc' = next
            /\ chan' = [chan EXCEPT ![next] = 0]
       ELSE UNCHANGED <<state, cproc, chan>>
    /\ UNCHANGED <<killed, xstate, pid, pgid, parent, open, sigVars, nextpid, pc, locals>>

(***************************************************************************)
(* sched() with the new state st of the running process p.                 *)
(***************************************************************************)
sched(p, st, table) == state' = [table EXCEPT ![p] = st] /\ cproc' = 0

sleep(p, c) == sched(p, "SLEEPING", state) /\ chan' = [chan EXCEPT ![p] = c]

(***************************************************************************)
(* The status exit() is called with for a killed process.                  *)
(***************************************************************************)
ExitKilled(p) ==
    /\ Goto(p, "exit")
    /\ status' = [status EXCEPT ![p] = IF xstate[p] # 0 THEN xstate[p] ELSE -1]
    /\ UNCHANGED <<obj, arg, sig, hsig, opt>>

(***************************************************************************)
(* A timer interrupt.  From user mode usertrap() exits a killed process,   *)
(* yields otherwise and looks at pending signals when scheduled again; from*)
(* kernel mode kerneltrap() yields in place.                               *)
(***************************************************************************)
TimerUser(p) ==
    /\ At(p, "user")
    /\ IF killed[p]
       THEN ExitKilled(p) /\ UNCHANGED <<state, cproc>>
       ELSE sched(p, "RUNNABLE", state) /\ Goto(p, "sigchk") /\ UNCHANGED locals
    /\ UNCHANGED <<chan, killed, xstate, pid, pgid, parent, open, sigVars, nextpid, next>>

Preempt(p) ==
    /\ cproc = p /\ pc[p] # "user"
    /\ sched(p, "RUNNABLE", state)
    /\ UNCHANGED <<chan, killed, xstate, pid, pgid, parent, open, sigVars, nextpid, next, pc, locals>>

-----------------------------------------------------------------------------
(* usertrap(): entry to and return from a system call *)

(***************************************************************************)
(* init's program neither exits nor faults: exit() would panic.            *)
(***************************************************************************)
Ecall(p) ==
    /\ At(p, "user")
    /\ IF killed[p]
       THEN ExitKilled(p)
       ELSE \E c \in Calls :
              /\ c \in {"exit", "fault"} => p # initproc
              /\ Goto(p, c)
              /\ \/ /\ c = "kill"
                    /\ \E n \in KillPids : arg' = [arg EXCEPT ![p] = n]
                    /\ \E s \in Signals : sig' = [sig EXCEPT ![p] = s]
                    /\ obj' = [obj EXCEPT ![p] = 1]
                    /\ UNCHANGED <<hsig, opt, status>>
                 \/ /\ c = "wait4"
                    /\ \E n \in WaitPids : arg' = [arg EXCEPT ![p] = n]
                    /\ \E o \in WaitOptions : opt' = [opt EXCEPT ![p] = o]
                    /\ UNCHANGED <<obj, sig, hsig, status>>
                 \/ c \notin {"kill", "wait4"} /\ UNCHANGED locals
    /\ UNCHANGED <<procVars, sigVars, nextpid, cproc, next>>

SysRet(p) ==
    /\ At(p, "sysret")
    /\ IF killed[p] THEN ExitKilled(p) ELSE Goto(p, "sigchk") /\ UNCHANGED locals
    /\ UNCHANGED <<procVars, sigVars, nextpid, cproc, next>>

(***************************************************************************)
(* A fault the kernel cannot repair: setkilled(), then the killed check.   *)
(***************************************************************************)
Fault(p) ==
    /\ At(p, "fault")
    /\ killed' = [killed EXCEPT ![p] = TRUE]
    /\ Goto(p, "sysret")
    /\ UNCHANGED <<state, chan, xstate, pid, pgid, parent, open, sigVars, nextpid, cproc, next, locals>>

-----------------------------------------------------------------------------
(* fork(), exit(), wait4() *)

(***************************************************************************)
(* freeproc(q): every field it resets.  It leaves paused and ofile[] alone.*)
(***************************************************************************)
freeproc(q) ==
    /\ state' = [state EXCEPT ![q] = "UNUSED"]
    /\ chan' = [chan EXCEPT ![q] = 0]
    /\ killed' = [killed EXCEPT ![q] = FALSE]
    /\ xstate' = [xstate EXCEPT ![q] = 0]
    /\ pid' = [pid EXCEPT ![q] = 0]
    /\ pgid' = [pgid EXCEPT ![q] = 0]
    /\ parent' = [parent EXCEPT ![q] = 0]
    /\ pending' = [pending EXCEPT ![q] = {}]
    /\ handler' = [handler EXCEPT ![q] = [s \in SigNums |-> "SIG_DFL"]]

FirstUnused(q) == state[q] = "UNUSED" /\ \A r \in 1..(q - 1) : state[r] # "UNUSED"

(***************************************************************************)
(* fork() up to the release of np->lock, with q the slot of the child:     *)
(* what allocproc() sets, then the copies from the parent.                 *)
(***************************************************************************)
ForkCopy(p, q) ==
    /\ state' = [state EXCEPT ![q] = "USED"]
    /\ pid' = [pid EXCEPT ![q] = nextpid]
    /\ pgid' = [pgid EXCEPT ![q] = pgid[p]]
    /\ open' = [open EXCEPT ![q] = TRUE]
    /\ pending' = [pending EXCEPT ![q] = pending[p]]
    /\ handler' = [handler EXCEPT ![q] = handler[p]]
    /\ pc' = [pc EXCEPT ![p] = "fork1", ![q] = "user"]
    /\ obj' = [obj EXCEPT ![p] = q, ![q] = 0] /\ status' = [status EXCEPT ![q] = 0]
    /\ arg' = [arg EXCEPT ![q] = 0] /\ opt' = [opt EXCEPT ![q] = {}]
    /\ sig' = [sig EXCEPT ![q] = 0] /\ hsig' = [hsig EXCEPT ![q] = 0]
    /\ UNCHANGED <<chan, killed, xstate, parent>>

(***************************************************************************)
(* When memory runs out the slot is given back, and its pid is lost.       *)
(***************************************************************************)
ForkAlloc(p) ==
    /\ At(p, "fork") /\ nextpid <= MaxPid
    /\ nextpid' = nextpid + 1
    /\ \E q \in Procs :
         /\ FirstUnused(q)
         /\ \/ ForkCopy(p, q)
            \/ freeproc(q) /\ Goto(p, "sysret") /\ UNCHANGED <<open, locals>>
    /\ UNCHANGED <<paused, cproc, next>>

ForkFull(p) ==
    /\ At(p, "fork")
    /\ nextpid > MaxPid \/ \A q \in Procs : state[q] # "UNUSED"
    /\ Goto(p, "sysret")
    /\ UNCHANGED <<procVars, sigVars, nextpid, cproc, next, locals>>

ForkParent(p) ==
    /\ At(p, "fork1")
    /\ parent' = [parent EXCEPT ![obj[p]] = p]
    /\ Goto(p, "fork2")
    /\ UNCHANGED <<state, chan, killed, xstate, pid, pgid, open, sigVars, nextpid, cproc, next, locals>>

ForkRunnable(p) ==
    /\ At(p, "fork2")
    /\ state' = [state EXCEPT ![obj[p]] = "RUNNABLE"]
    /\ Goto(p, "sysret") /\ Drop(p)
    /\ UNCHANGED <<chan, killed, xstate, pid, pgid, parent, open, sigVars, nextpid, cproc, next>>

(***************************************************************************)
(* exit() before wait_lock: mappings, open files and cwd are given back.   *)
(***************************************************************************)
ExitClose(p) ==
    /\ At(p, "exit") /\ p # initproc
    /\ open' = [open EXCEPT ![p] = FALSE]
    /\ Goto(p, "exit2")
    /\ UNCHANGED <<state, chan, killed, xstate, pid, pgid, parent, sigVars, nextpid, cproc, next, locals>>

(***************************************************************************)
(* exit() under wait_lock, up to and with its sched().                     *)
(***************************************************************************)
\* A wrong version for comparison: the children keep their parent.
reparentNone(p) == UNCHANGED parent
reparent(p) == parent' = [q \in Procs |-> IF parent[q] = p THEN initproc ELSE parent[q]]

\* A wrong version for comparison: only the parent is woken, not init.
ExitWakesParent(p) == {parent[p]}
\* A wrong version for comparison: nobody is woken.
ExitWakesNone(p) == {}
ExitWakes(p) ==
    IF \E q \in Procs : parent[q] = p THEN {parent[p], initproc} ELSE {parent[p]}

ExitZombie(p) ==
    /\ At(p, "exit2")
    /\ reparent(p)
    /\ sched(p, "ZOMBIE", wakeup(p, ExitWakes(p), state))
    /\ xstate' = [xstate EXCEPT ![p] = status[p]]
    /\ UNCHANGED <<chan, killed, pid, pgid, open, sigVars, nextpid, next, pc, locals>>

(***************************************************************************)
(* wait4(), one pass over the table under wait_lock.  At "wait4" the       *)
(* variable kids is 0; a process that has slept comes back to "waitk" with *)
(* kids set, since the loop never clears it.                               *)
(***************************************************************************)
Child(p, q) ==
    /\ parent[q] = p
    /\ LET n == arg[p] IN
       CASE n > 0  -> pid[q] = n
         [] n = 0  -> pgid[q] = pgid[p]
         [] n = -1 -> TRUE
         [] OTHER  -> pgid[q] = -n

\* A wrong version for comparison: any child will do.
WaitableAny(p, q) == Child(p, q)
Waitable(p, q) ==
    /\ Child(p, q)
    /\ \/ state[q] = "ZOMBIE"
       \/ "WUNTRACED" \in opt[p] /\ state[q] = "SLEEPING"
       \/ "WNOHANG" \in opt[p]

AtWait(p) == cproc = p /\ pc[p] \in {"wait4", "waitk"}

WaitReap(p) ==
    /\ AtWait(p)
    /\ \E q \in Procs :
         /\ Waitable(p, q) /\ \A r \in 1..(q - 1) : ~Waitable(p, r)
         /\ IF "EFAULT" \in opt[p]
            THEN UNCHANGED <<state, chan, killed, xstate, pid, pgid, parent, pending, handler>>
            ELSE freeproc(q)
    /\ Goto(p, "sysret") /\ Drop(p)
    /\ UNCHANGED <<open, paused, nextpid, cproc, next>>

NoKids(p) == pc[p] = "wait4" /\ \A q \in Procs : ~Child(p, q)

WaitNone(p) ==
    /\ AtWait(p)
    /\ \A q \in Procs : ~Waitable(p, q)
    /\ NoKids(p) \/ killed[p]
    /\ Goto(p, "sysret") /\ Drop(p)
    /\ UNCHANGED <<procVars, sigVars, nextpid, cproc, next>>

WaitSleep(p) ==
    /\ AtWait(p)
    /\ \A q \in Procs : ~Waitable(p, q)
    /\ ~NoKids(p) /\ ~killed[p]
    /\ sleep(p, p)
    /\ Goto(p, "waitk")
    /\ UNCHANGED <<killed, xstate, pid, pgid, parent, open, sigVars, nextpid, next, locals>>

-----------------------------------------------------------------------------
(* kill(), send_signal(), handle_signal() *)

KillMatch(p, q) ==
    LET n == arg[p] IN
    CASE n > 0  -> pid[q] = n
      [] n = 0  -> pgid[p] > 0 /\ pgid[q] = pgid[p]
      [] n = -1 -> pid[q] > 1 /\ q # p
      [] OTHER  -> pgid[q] = -n

(***************************************************************************)
(* kill()'s loop over the table: obj[p] is the slot it has come to.        *)
(* No lock is held, here or in send_signal().                              *)
(***************************************************************************)
KillNext(p) ==
    /\ At(p, "kill")
    /\ \/ \E q \in obj[p]..NPROC :
            /\ KillMatch(p, q) /\ \A r \in obj[p]..(q - 1) : ~KillMatch(p, r)
            /\ Goto(p, "send") /\ obj' = [obj EXCEPT ![p] = q]
            /\ UNCHANGED <<arg, sig, hsig, opt, status>>
       \/ /\ \A r \in obj[p]..NPROC : ~KillMatch(p, r)
          /\ Goto(p, "sysret") /\ Drop(p)
    /\ UNCHANGED <<procVars, sigVars, nextpid, cproc, next>>

(***************************************************************************)
(* send_signal() up to its test of p->state.                               *)
(***************************************************************************)
SendMark(p) ==
    /\ At(p, "send")
    /\ LET t == obj[p]  s == sig[p] IN
       IF s = SIGKILL
       THEN killed' = [killed EXCEPT ![t] = TRUE] /\ UNCHANGED pending
       ELSE pending' = [pending EXCEPT ![t] = @ \union {s}] /\ UNCHANGED killed
    /\ Goto(p, "send2")
    /\ UNCHANGED <<state, chan, xstate, pid, pgid, parent, open, paused, handler, nextpid, cproc, next, locals>>

(***************************************************************************)
(* The rest of send_signal(): the choice of what handle_signal() gets.     *)
(***************************************************************************)
SendCheck(p) ==
    /\ At(p, "send2")
    /\ LET t == obj[p]
           s == sig[p]
           handle(h) == Goto(p, "handle") /\ hsig' = [hsig EXCEPT ![p] = h] /\ UNCHANGED obj
           ends == paused[t] /\ s \in {SIGTERM, SIGINT, SIGKILL}
       IN \/ /\ state[t] = "SLEEPING" /\ ends
             /\ paused' = [paused EXCEPT ![t] = FALSE]
             /\ handle(SIGCONT)
          \/ /\ state[t] = "SLEEPING" /\ ~paused[t] /\ ~killed[t]
             /\ handle(s) /\ UNCHANGED paused
          \/ /\ ~(state[t] = "SLEEPING" /\ (ends \/ (~paused[t] /\ ~killed[t])))
             /\ Goto(p, "kill") /\ obj' = [obj EXCEPT ![p] = t + 1]
             /\ UNCHANGED <<paused, hsig>>
    /\ UNCHANGED <<procVars, pending, handler, nextpid, cproc, next, arg, sig, opt, status>>

(***************************************************************************)
(* The table as term_handler(t) leaves it.                                 *)
(***************************************************************************)
\* A wrong version for comparison: whatever state the target is in.
TermStateAny(t) == [state EXCEPT ![t] = "RUNNABLE"]
TermState(t) == [state EXCEPT ![t] = IF @ = "SLEEPING" THEN "RUNNABLE" ELSE @]

(***************************************************************************)
(* handle_signal(t, s) run by p, up to its clearing of the pending bit.    *)
(* stop_handler() puts the caller p to sleep, with t as the channel.  A    *)
(* user handler only changes t's saved user pc, which is not modelled.     *)
(***************************************************************************)
HandleSignal(p) ==
    /\ At(p, "handle")
    /\ LET t == obj[p]
           s == hsig[p]
           dfl == handler[t][s] = "SIG_DFL"
       IN \/ /\ dfl /\ s \in StopSignals
             /\ sleep(p, t) /\ UNCHANGED <<killed, xstate>>
          \/ /\ dfl /\ s = SIGCONT
             /\ state' = wakeup(p, {t}, state)
             /\ UNCHANGED <<chan, killed, xstate, cproc>>
          \/ /\ dfl /\ s \notin StopSignals \union IgnoredSignals \union {SIGCONT}
             /\ xstate' = [xstate EXCEPT ![t] = s]
             /\ killed' = [killed EXCEPT ![t] = TRUE]
             /\ state' = TermState(t)
             /\ UNCHANGED <<chan, cproc>>
          \/ /\ ~dfl \/ s \in IgnoredSignals
             /\ UNCHANGED <<state, chan, killed, xstate, cproc>>
    /\ Goto(p, "hclear")
    /\ UNCHANGED <<pid, pgid, parent, open, sigVars, nextpid, next, locals>>

(***************************************************************************)
(* handle_signal()'s last section, under siglock.  check_pending_signal()  *)
(* calls it for the process itself, kill() only for another one.           *)
(***************************************************************************)
HandleClear(p) ==
    /\ At(p, "hclear")
    /\ LET t == obj[p] IN
       /\ pending' = [pending EXCEPT ![t] = @ \ {hsig[p]}]
       /\ IF t = p
          THEN Goto(p, "user") /\ Drop(p)
          ELSE /\ Goto(p, "kill") /\ obj' = [obj EXCEPT ![p] = t + 1]
               /\ hsig' = [hsig EXCEPT ![p] = 0] /\ UNCHANGED <<arg, sig, opt, status>>
    /\ UNCHANGED <<procVars, handler, paused, nextpid, cproc, next>>

(***************************************************************************)
(* check_pending_signal(): the lowest pending signal, one per trap.        *)
(***************************************************************************)
CheckPending(p) ==
    /\ At(p, "sigchk")
    /\ \/ pending[p] = {} /\ Goto(p, "user") /\ UNCHANGED locals
       \/ \E s \in pending[p] :
            /\ \A r \in pending[p] : s <= r
            /\ Goto(p, "handle")
            /\ obj' = [obj EXCEPT ![p] = p] /\ hsig' = [hsig EXCEPT ![p] = s]
            /\ UNCHANGED <<arg, sig, opt, status>>
    /\ UNCHANGED <<procVars, sigVars, nextpid, cproc, next>>

-----------------------------------------------------------------------------
(* The other calls that change this state *)

(***************************************************************************)
(* sigsuspend(), and ppoll() without descriptors: paused is set in one     *)
(* critical section and the process sleeps in the next.                    *)
(***************************************************************************)
SigsuspendMark(p) ==
    /\ At(p, "sigsuspend")
    /\ paused' = [paused EXCEPT ![p] = TRUE]
    /\ Goto(p, "pause")
    /\ UNCHANGED <<procVars, pending, handler, nextpid, cproc, next, locals>>

SigsuspendSleep(p) ==
    /\ At(p, "pause")
    /\ sleep(p, p)
    /\ Goto(p, "sysret")
    /\ UNCHANGED <<killed, xstate, pid, pgid, parent, open, sigVars, nextpid, next, locals>>

(***************************************************************************)
(* sigaction() with user pointers that are mapped.                         *)
(***************************************************************************)
Sigaction(p) ==
    /\ At(p, "sigaction")
    /\ \E s \in Signals \ {SIGKILL, 19}, a \in {"SIG_DFL", "SIG_IGN", "user"} :
         handler' = [handler EXCEPT ![p][s] = a]
    /\ Goto(p, "sysret")
    /\ UNCHANGED <<procVars, pending, paused, nextpid, cproc, next, locals>>

(***************************************************************************)
(* flush_signal_handlers(), the part of execve() that reaches this state.  *)
(***************************************************************************)
Execve(p) ==
    /\ At(p, "execve")
    /\ handler' = [handler EXCEPT ![p] =
                     [s \in SigNums |-> IF @[s] = "SIG_IGN" THEN "SIG_IGN" ELSE "SIG_DFL"]]
    /\ paused' = [paused EXCEPT ![p] = FALSE]
    /\ Goto(p, "sysret")
    /\ UNCHANGED <<procVars, pending, nextpid, cproc, next, locals>>

(***************************************************************************)
(* setpgid() on the caller or a child of it; either way the group that     *)
(* changes is the caller's.  All processes share init's session.           *)
(***************************************************************************)
Setpgid(p) ==
    /\ At(p, "setpgid")
    /\ \E q \in Procs, g \in 1..MaxPid :
         pgid' = IF q = p \/ parent[q] = p THEN [pgid EXCEPT ![p] = g] ELSE pgid
    /\ Goto(p, "sysret")
    /\ UNCHANGED <<state, chan, killed, xstate, pid, parent, open, sigVars, nextpid, cproc, next, locals>>

-----------------------------------------------------------------------------
(***************************************************************************)
(* The kernel steps of the process that has the CPU.                       *)
(***************************************************************************)
KernelStep(p) ==
    \/ SysRet(p) \/ Fault(p)
    \/ ForkAlloc(p) \/ ForkFull(p) \/ ForkParent(p) \/ ForkRunnable(p)
    \/ ExitClose(p) \/ ExitZombie(p)
    \/ WaitReap(p) \/ WaitNone(p) \/ WaitSleep(p)
    \/ KillNext(p) \/ SendMark(p) \/ SendCheck(p)
    \/ HandleSignal(p) \/ HandleClear(p) \/ CheckPending(p)
    \/ SigsuspendMark(p) \/ SigsuspendSleep(p)
    \/ Sigaction(p) \/ Execve(p) \/ Setpgid(p)

Next ==
    \/ scheduler
    \/ \E p \in Procs : TimerUser(p) \/ Preempt(p) \/ Ecall(p) \/ KernelStep(p)

Spec == Init /\ [][Next]_vars

(***************************************************************************)
(* The scheduler never stops and the timer keeps interrupting.  Between two*)
(* timer interrupts a process runs many instructions, so one that keeps    *)
(* getting the CPU inside the kernel keeps making steps there.             *)
(***************************************************************************)
KernelFairness ==
    /\ WF_vars(scheduler)
    /\ \A p \in Procs : WF_vars(TimerUser(p) \/ Preempt(p)) /\ SF_vars(KernelStep(p))

FairSpec == Spec /\ KernelFairness

(***************************************************************************)
(* init's program (usr/src/init/main.c) always comes back to wait().       *)
(***************************************************************************)
InitWait ==
    Ecall(initproc) /\ pc'[initproc] = "wait4" /\ arg'[initproc] = -1 /\ opt'[initproc] = {}

-----------------------------------------------------------------------------
(* Properties *)

(***************************************************************************)
(* Types of the process table, the CPU and the scheduler's cursor.         *)
(***************************************************************************)
TypeOK ==
    /\ state \in [Procs -> States]
    /\ chan \in [Procs -> 0..NPROC]
    /\ killed \in [Procs -> BOOLEAN] /\ paused \in [Procs -> BOOLEAN]
    /\ open \in [Procs -> BOOLEAN]
    /\ xstate \in [Procs -> -1..31]
    /\ pid \in [Procs -> Nat] /\ pgid \in [Procs -> Nat]
    /\ parent \in [Procs -> 0..NPROC]
    /\ pending \in [Procs -> SUBSET Signals]
    /\ handler \in [Procs -> [SigNums -> {"SIG_DFL", "SIG_IGN", "user"}]]
    /\ nextpid \in Nat \ {0}
    /\ cproc \in 0..NPROC /\ next \in Procs
    /\ pc \in [Procs -> Labels]
    /\ obj \in [Procs -> 0..(NPROC + 1)] /\ arg \in [Procs -> Int]
    /\ sig \in [Procs -> 0..31] /\ hsig \in [Procs -> 0..31]
    /\ opt \in [Procs -> SUBSET WaitFlags] /\ status \in [Procs -> -1..31]

(***************************************************************************)
(* The hart's c->proc is exactly the process whose state is RUNNING, so    *)
(* that sched()'s and kerneltrap()'s tests of p->state mean what they say: *)
(* no signal, wakeup or wait of another process changes the state of the   *)
(* one that runs, or makes a second one RUNNING.                           *)
(***************************************************************************)
CpuOwner == \A p \in Procs : state[p] = "RUNNING" <=> cproc = p

Alive == {"SLEEPING", "RUNNABLE", "RUNNING"}

(***************************************************************************)
(* Somebody can always reap: the parent of a started or exited process is a*)
(* process that has not itself exited.  fork() publishes np->parent before *)
(* np runs, and exit() hands the children to init and becomes a zombie in  *)
(* one critical section of wait_lock.                                      *)
(***************************************************************************)
ParentAlive ==
    \A p \in Procs : (p # initproc /\ state[p] \in Alive \union {"ZOMBIE"}) =>
        parent[p] \in Procs /\ state[parent[p]] \in Alive

(***************************************************************************)
(* No exit is missed: a process asleep in wait4() has no zombie among the  *)
(* children it waits for, whether the child exited itself or was handed to *)
(* init by its parent's exit().                                            *)
(***************************************************************************)
NoMissedExit ==
    \A p, q \in Procs :
        (state[p] = "SLEEPING" /\ pc[p] = "waitk" /\ Child(p, q)) => state[q] # "ZOMBIE"

(***************************************************************************)
(* wait4() never clears its variable kids.  That is sound: a process asleep*)
(* in wait4() for any child, or for one pid, still has such a child, so it *)
(* does not wait for something that cannot happen.                         *)
(***************************************************************************)
KidsFlagSound ==
    \A p \in Procs :
        (state[p] = "SLEEPING" /\ pc[p] = "waitk" /\ (arg[p] = -1 \/ arg[p] > 0)) =>
            \E q \in Procs : Child(p, q)

(***************************************************************************)
(* References to files and to cwd are held by started processes that have  *)
(* not closed them in exit(), and by no zombie and no free slot.           *)
(***************************************************************************)
FilesReleased ==
    \A p \in Procs : state[p] \in {"UNUSED", "ZOMBIE"} => ~open[p]

(***************************************************************************)
(* A process leaves the table only through the zombie state: "An exited    *)
(* process remains in the zombie state until its parent calls wait()".     *)
(***************************************************************************)
FreesNoLive == \A q \in Procs : state[q] \in Alive => state'[q] # "UNUSED"
FreedAfterExit == [][FreesNoLive]_vars

(***************************************************************************)
(* kill(pid, sig) marks the process whose pid it was given.                *)
(***************************************************************************)
SignalsItsTarget ==
    [][\A p \in Procs : (At(p, "send") /\ pc'[p] = "send2" /\ arg[p] > 0)
          => pid[obj[p]] = arg[p]]_vars

(***************************************************************************)
(* The scheduler's round robin starves no runnable process.                *)
(***************************************************************************)
RunnableRuns == \A p \in Procs : state[p] = "RUNNABLE" ~> state[p] # "RUNNABLE"

(***************************************************************************)
(* init reaps every orphan that has exited.                                *)
(***************************************************************************)
OrphansReaped ==
    \A p \in Procs : (state[p] = "ZOMBIE" /\ parent[p] = initproc) ~> state[p] = "UNUSED"

(***************************************************************************)
(* A killed process does exit: kill(pid, SIGKILL) "kills the process".     *)
(***************************************************************************)
KilledExits == \A p \in Procs : killed[p] ~> state[p] \in {"ZOMBIE", "UNUSED"}

=============================================================================
