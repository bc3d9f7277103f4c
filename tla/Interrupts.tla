----------------------------- MODULE Interrupts -----------------------------
(***************************************************************************)
(* Interrupts, spin locks and context switches on the one hart, one        *)
(* instruction group at a time: spinlock.c, the traps of trap.c,           *)
(* kernelvec.S and trampoline.S, and sched, sleep and the scheduler loop   *)
(* of proc.c.  The other modules take a section under a spin lock as one   *)
(* step; this one shows why they may.                                      *)
(*                                                                         *)
(* A thread (0 is the scheduler, the others are processes) is the list of  *)
(* operations it has still to run in the kernel; an interrupt puts those   *)
(* of its handler in front.  The process is in user mode, or at the sret   *)
(* that goes there, when the list is used up.  While interrupts are off    *)
(* nothing else can run, so operations are merged there, never elsewhere.  *)
(***************************************************************************)
EXTENDS Naturals, Sequences, FiniteSets, FiniteSetsExt

CONSTANT NPROC

Procs == 1..NPROC
Threads == 0..NPROC
Devices == {"uart", "clock"}

\* p->lock, and the locks of the UART, the clock and wait_lock.
Plock(p) == <<"proc", p>>
Lock(name) == <<name, 0>>
Locks == {Plock(p) : p \in Procs} \union {Lock("uart"), Lock("clock"), Lock("wait")}

VARIABLES
    hart,    \* sie, spie, spp, sepc, stvec, user; noff, intena of struct cpu; held; panic
    cur,     \* the thread whose stack the hart is on
    cproc,   \* c->proc, 0 for none
    found,   \* the scheduler's local variable
    state,   \* p->state
    chan,    \* p->chan
    epc,     \* p->trapframe->epc
    todo     \* what each thread has still to do in the kernel

vars == <<hart, cur, cproc, found, state, chan, epc, todo>>

-----------------------------------------------------------------------------
(* spinlock.c: functions from hart to hart.                                *)

Panic(h) == [h EXCEPT !.panic = TRUE]

push_off(h, old) ==
    [h EXCEPT !.sie = FALSE,
              !.intena = IF h.noff = 0 THEN old ELSE h.intena,
              !.noff = @ + 1]

\* A wrong version for comparison: interrupts come back at every level.
PopOffEvery(h) ==
    IF h.sie \/ h.noff < 1 THEN Panic(h)
    ELSE [h EXCEPT !.noff = @ - 1, !.sie = h.intena]

pop_off(h) ==
    IF h.sie \/ h.noff < 1 THEN Panic(h)
    ELSE [h EXCEPT !.noff = @ - 1, !.sie = h.noff = 1 /\ h.intena]

holding(h, l) == l \in h.held

\* acquire() after intr_get() has given old.  No other hart holds the lock.
acquire(h, l, old) ==
    LET g == push_off(h, old)
    IN  IF holding(g, l) THEN Panic(g) ELSE [g EXCEPT !.held = @ \union {l}]

release(h, l) ==
    IF ~holding(h, l) THEN Panic(h)
    ELSE pop_off([h EXCEPT !.held = @ \ {l}])

\* myproc(): off and on again.
myproc(h) == pop_off(push_off(h, h.sie))

-----------------------------------------------------------------------------
(* proc.c *)

\* The locks of wakeup(): each other process's, one after the other.
WakeLocks(h) ==
    FoldSet(LAMBDA p, g : release(acquire(g, Plock(p), g.sie), Plock(p)), h, Procs \ {cproc})

Woken(c) ==
    [p \in Procs |-> IF p # cproc /\ state[p] = "SLEEPING" /\ chan[p] = c
                     THEN "RUNNABLE" ELSE state[p]]

\* The checks of sched() before swtch.
SchedChecks(h, st) ==
    IF ~holding(h, Plock(cur)) \/ h.noff # 1 \/ st = "RUNNING" \/ h.sie THEN Panic(h) ELSE h

\* A wrong version for comparison: intena is left as the others made it.
AfterSwtchKept(saved) == hart' = hart

\* sched() after swtch: intena is a property of the thread.
AfterSwtch(saved) == hart' = [hart EXCEPT !.intena = saved]

\* sched() of the current process with state st: it goes on with rest.
Sched(h, st, rest) ==
    LET g == SchedChecks(h, st)
    IN  /\ hart' = g
        /\ state' = [state EXCEPT ![cur] = st]
        /\ todo' = [todo EXCEPT ![cur] = <<<<"schedret", g.intena>>>> \o rest]
        /\ cur' = 0

\* A wrong version for comparison: the scheduler leaves interrupts as they are.
SchedulerOnNot(h) == h

\* intr_on() of the scheduler, at the top of the loop and before wfi.
SchedulerOn(h) == [h EXCEPT !.sie = TRUE]

\* One pass of the scheduler's loop over the table.
SchedulerLoop ==
    <<<<"top">>>>
    \o [i \in 1..(3 * NPROC) |->
           LET p == (i + 2) \div 3
           IN  CASE i % 3 = 1 -> <<"acquire", Plock(p)>>
                 [] i % 3 = 2 -> <<"pick", p>>
                 [] i % 3 = 0 -> <<"release", Plock(p)>>]
    \o <<<<"wfi">>>>

\* forkret(); the first process reads the superblock before it leaves.
forkret(p) ==
    <<<<"release", Plock(p)>>>>
    \o (IF p = 1 THEN <<<<"acquire", Lock("uart")>>, <<"release", Lock("uart")>>>> ELSE <<>>)
    \o <<<<"uret">>, <<"sret">>>>

-----------------------------------------------------------------------------
(* What kernel code does with locks, entered with interrupts on or off.    *)
(* <<"code", on>> is any code between: it must find interrupts so.         *)

Section(name, inside) == <<<<"acquire", Lock(name)>>>> \o inside \o <<<<"release", Lock(name)>>>>

SlotSection(p, what) == <<<<"acquire", Plock(p)>>, <<what, p>>, <<"release", Plock(p)>>>>

Bodies(on) ==
    LET code == <<<<"code", on>>>>
    IN  {code \o <<<<"push">>, <<"pop">>>> \o code,
         Section("uart", <<<<"sleep", "uart">>>>) \o code,
         Section("uart", <<<<"wakeup", "uart">>>>) \o code,
         <<<<"acquire", Lock("wait")>>, <<"wakeup", "exit">>, <<"zombie">>>>}
        \union
        {SlotSection(p, "alloc") \o code \o SlotSection(p, "ready") \o code : p \in Procs \ {cur}}

\* clockintr() or uartintr() of devintr().
devintr(d) == Section(d, <<<<"wakeup", d>>>>)

\* The instruction the thread is at.
Place(t, ops) == <<t, Len(ops)>>

-----------------------------------------------------------------------------
(* trap.c *)

\* usertrap() up to the branch on scause.
usertrapEntry(h) ==
    IF h.spp = "S" THEN Panic(h) ELSE myproc([h EXCEPT !.stvec = "kernel"])

\* kerneltrap() up to the call of devintr().
kerneltrapEntry(h) == IF h.spp # "S" \/ h.sie THEN Panic(h) ELSE h

\* usertrap() after the branch, for a cause and one choice of what it does.
UserBody(cause, body) ==
    (CASE cause = "ecall" -> <<<<"intr_on">>>> \o body
       [] cause = "fault" -> body
       [] cause = "clock" -> devintr("clock") \o <<<<"yield">>>>
       [] cause = "uart" -> devintr("uart"))
    \o <<<<"uret">>, <<"sret">>>>

\* What the hart does when a trap is taken.
TrapTaken ==
    [hart EXCEPT !.spp = IF hart.user THEN "U" ELSE "S", !.spie = hart.sie, !.sie = FALSE,
                 !.sepc = Place(cur, todo[cur]), !.user = FALSE]

\* uservec and usertrap().
UserTrap(cause) ==
    /\ hart.stvec = "user"
    /\ hart' = usertrapEntry(TrapTaken)
    /\ epc' = IF hart'.panic THEN epc ELSE [epc EXCEPT ![cur] = TrapTaken.sepc]
    /\ \E body \in IF cause \in Devices THEN {<<>>} ELSE Bodies(cause = "ecall") :
          todo' = [todo EXCEPT ![cur] = UserBody(cause, body) \o @]
    /\ UNCHANGED <<cur, cproc, found, state, chan>>

\* kernelvec and kerneltrap() for a device's interrupt.
KernelTrap(cause) ==
    /\ hart.stvec = "kernel"
    /\ hart' = kerneltrapEntry(TrapTaken)
    /\ todo' = [todo EXCEPT ![cur] =
                   devintr(cause) \o (IF cause = "clock" THEN <<<<"preempt">>>> ELSE <<>>)
                   \o <<<<"kret", hart'.sepc, hart'.spie, hart'.spp>>, <<"sret">>>> \o @]
    /\ UNCHANGED <<cur, cproc, found, state, chan, epc>>

\* A device interrupts whenever the hart lets it.
Interrupt(d) ==
    /\ ~hart.panic
    /\ hart.user \/ hart.sie
    /\ UserTrap(d) \/ KernelTrap(d)

\* A system call or a page fault in user mode.
Exception(cause) ==
    /\ ~hart.panic
    /\ hart.user
    /\ UserTrap(cause)

\* usertrapret() up to the jump to userret.
usertrapret(h, pc) ==
    [h EXCEPT !.sie = FALSE, !.stvec = "user", !.spp = "U", !.spie = TRUE, !.sepc = pc]

\* A wrong version for comparison: the registers are as yield() left them.
KernelRetKept(h, pc, pie, pp) == h

\* The end of kerneltrap(): the registers of this trap again.
KernelRet(h, pc, pie, pp) == [h EXCEPT !.sepc = pc, !.spie = pie, !.spp = pp, !.sie = FALSE]

\* sret: it goes to sepc, wherever that is.
SretTo(h, place) ==
    LET g == [h EXCEPT !.sie = h.spie, !.spie = TRUE, !.user = h.spp = "U", !.spp = "U"]
    IN  IF h.sepc = place THEN g ELSE Panic(g)
-----------------------------------------------------------------------------
Rest == Tail(todo[cur])

\* The thread goes on with ops; only the hart changes besides.
GoOn(h, ops) ==
    /\ hart' = h
    /\ todo' = [todo EXCEPT ![cur] = ops]
    /\ UNCHANGED <<cur, cproc, found, state, chan, epc>>

\* intr_get() of push_off(), then the rest of it: an interrupt fits between.
Acquire(op) ==
    \/ /\ op[1] \in {"acquire", "push"}
       /\ GoOn(hart, <<<<"off", op, hart.sie>>>> \o Rest)
    \/ /\ op[1] = "off"
       /\ GoOn(IF op[2][1] = "push" THEN push_off(hart, op[3]) ELSE acquire(hart, op[2][2], op[3]),
               Rest)

Release(op) ==
    \/ op[1] = "release" /\ GoOn(release(hart, op[2]), Rest)
    \/ op[1] = "pop" /\ GoOn(pop_off(hart), Rest)

Code(op) ==
    \/ op[1] = "code" /\ GoOn(hart, Rest)
    \/ op[1] = "intr_on" /\ GoOn([hart EXCEPT !.sie = TRUE], Rest)

\* wakeup(c), under a lock.
Wakeup(op) ==
    /\ op[1] = "wakeup"
    /\ hart' = WakeLocks(hart)
    /\ state' = Woken(op[2])
    /\ todo' = [todo EXCEPT ![cur] = Rest]
    /\ UNCHANGED <<cur, cproc, found, chan, epc>>

\* sleep(l, l) up to swtch: after it the lock of the process, then l again.
Sleep(op) ==
    /\ op[1] = "sleep"
    /\ chan' = [chan EXCEPT ![cur] = op[2]]
    /\ Sched(release(acquire(myproc(hart), Plock(cur), hart.sie), Lock(op[2])), "SLEEPING",
             <<<<"unchan">>, <<"release", Plock(cur)>>, <<"acquire", Lock(op[2])>>>> \o Rest)
    /\ UNCHANGED <<cproc, found, epc>>

\* sleep() after sched().
Unchan(op) ==
    /\ op[1] = "unchan"
    /\ chan' = [chan EXCEPT ![cur] = ""]
    /\ todo' = [todo EXCEPT ![cur] = Rest]
    /\ UNCHANGED <<hart, cur, cproc, found, state, epc>>

\* myproc() != 0 && myproc()->state == RUNNING
ProcRuns == \E p \in Procs : p = cproc /\ state[p] = "RUNNING"

\* yield() up to swtch; kerneltrap() yields only for a process that runs.
Yield(op) ==
    \/ /\ op[1] = "yield" \/ (op[1] = "preempt" /\ ProcRuns)
       /\ Sched(acquire(myproc(hart), Plock(cur), hart.sie), "RUNNABLE",
                <<<<"release", Plock(cur)>>>> \o Rest)
       /\ UNCHANGED <<cproc, found, chan, epc>>
    \/ /\ op[1] = "preempt" /\ ~ProcRuns
       /\ GoOn(myproc(hart), Rest)

\* The end of exit(), under wait_lock.
Zombie(op) ==
    /\ op[1] = "zombie"
    /\ Sched(release(acquire(hart, Plock(cur), hart.sie), Lock("wait")), "ZOMBIE", <<>>)
    /\ UNCHANGED <<cproc, found, chan, epc>>

SchedRet(op) ==
    /\ op[1] = "schedret"
    /\ AfterSwtch(op[2])
    /\ todo' = [todo EXCEPT ![cur] = Rest]
    /\ UNCHANGED <<cur, cproc, found, state, chan, epc>>

\* allocproc() for a slot that is free or has been waited for, and the end of
\* fork(); a slot in use makes fork() give up.
Fork(op) ==
    \/ /\ op[1] = "alloc" /\ state[op[2]] \in {"UNUSED", "ZOMBIE"}
       /\ state' = [state EXCEPT ![op[2]] = "USED"]
       /\ todo' = [todo EXCEPT ![op[2]] = forkret(op[2]), ![cur] = Rest]
       /\ UNCHANGED <<hart, cur, cproc, found, chan, epc>>
    \/ /\ op[1] = "alloc" /\ state[op[2]] \notin {"UNUSED", "ZOMBIE"}
       /\ GoOn(hart, <<Rest[1]>> \o SubSeq(Rest, 6, Len(Rest)))
    \/ /\ op[1] = "ready"
       /\ state' = [state EXCEPT ![op[2]] = "RUNNABLE"]
       /\ todo' = [todo EXCEPT ![cur] = Rest]
       /\ UNCHANGED <<hart, cur, cproc, found, chan, epc>>

\* scheduler(): intr_on and found = 0, a slot's turn, back from swtch, wfi.
Scheduler(op) ==
    \/ /\ op[1] = "top"
       /\ hart' = SchedulerOn(hart)
       /\ found' = FALSE
       /\ todo' = [todo EXCEPT ![0] = Rest]
       /\ UNCHANGED <<cur, cproc, state, chan, epc>>
    \/ /\ op[1] = "pick" /\ state[op[2]] = "RUNNABLE"
       /\ found' = TRUE
       /\ state' = [state EXCEPT ![op[2]] = "RUNNING"]
       /\ cproc' = op[2] /\ cur' = op[2]
       /\ todo' = [todo EXCEPT ![0] = <<<<"back">>>> \o Rest]
       /\ UNCHANGED <<hart, chan, epc>>
    \/ /\ op[1] = "pick" /\ state[op[2]] # "RUNNABLE"
       /\ GoOn(hart, Rest)
    \/ /\ op[1] = "back"
       /\ cproc' = 0
       /\ todo' = [todo EXCEPT ![0] = Rest]
       /\ UNCHANGED <<hart, cur, found, state, chan, epc>>
    \/ /\ op[1] = "wfi"
       /\ GoOn(IF found THEN hart ELSE SchedulerOn(hart), SchedulerLoop)

TrapReturn(op) ==
    \/ op[1] = "uret" /\ GoOn(usertrapret(myproc(hart), epc[cur]), Rest)
    \/ op[1] = "kret" /\ GoOn(KernelRet(hart, op[2], op[3], op[4]), Rest)
    \/ op[1] = "sret" /\ GoOn(SretTo(hart, Place(cur, Rest)), Rest)

\* The next instructions of the thread the hart is on, in the kernel.
HartStep ==
    /\ ~hart.panic /\ ~hart.user
    /\ LET op == Head(todo[cur])
       IN  \/ Acquire(op) \/ Release(op) \/ Code(op) \/ Wakeup(op)
           \/ Sleep(op) \/ Unchan(op) \/ Yield(op) \/ Zombie(op) \/ SchedRet(op)
           \/ Fork(op) \/ Scheduler(op) \/ TrapReturn(op)

Init ==
    /\ hart = [sie |-> FALSE, spie |-> TRUE, spp |-> "U", sepc |-> <<0, 0>>, stvec |-> "kernel",
               user |-> FALSE, noff |-> 0, intena |-> FALSE, held |-> {}, panic |-> FALSE]
    /\ cur = 0 /\ cproc = 0 /\ found = FALSE
    /\ state = [p \in Procs |-> IF p = 1 THEN "RUNNABLE" ELSE "UNUSED"]
    /\ chan = [p \in Procs |-> ""]
    /\ epc = [p \in Procs |-> <<p, 0>>]
    /\ todo = [t \in Threads |-> IF t = 0 THEN SchedulerLoop ELSE IF t = 1 THEN forkret(1) ELSE <<>>]

Next ==
    \/ HartStep
    \/ \E d \in Devices : Interrupt(d)
    \/ \E c \in {"ecall", "fault"} : Exception(c)

\* The hart goes on with the instructions of the kernel.
Fairness == WF_vars(HartStep)

Spec == Init /\ [][Next]_vars /\ Fairness

-----------------------------------------------------------------------------
\* Types; two levels of push_off() are the deepest the kernel shows outside
\* wakeup().
TypeOK ==
    /\ hart.noff \in 0..2 /\ hart.held \subseteq Locks /\ {hart.sie, hart.intena, found} \subseteq BOOLEAN
    /\ cur \in Threads /\ cproc \in Threads
    /\ \A p \in Procs : state[p] \in {"UNUSED", "USED", "SLEEPING", "RUNNABLE", "RUNNING", "ZOMBIE"}

\* While any spin lock is held, or push_off() has not been undone, interrupts
\* are off, whatever nests in whatever; so no other code runs on the hart in a
\* section under a lock: acquire(), release() and sched() of spinlock.c, proc.c.
LockedQuiet == (hart.held # {} \/ hart.noff > 0) => ~hart.sie

\* Code of a system call runs with interrupts on and code of a page fault with
\* interrupts off whenever it holds no lock, also after it slept, was preempted
\* or nested locks, and whatever the threads in between did: "push_off, pop_off
\* leave interrupts off if they were off" (spinlock.c:93), intena of sched().
IntrRestored ==
    (~hart.user /\ ~hart.panic /\ todo[cur] # <<>> /\ Head(todo[cur])[1] = "code")
        => hart.sie = Head(todo[cur])[2]

\* No run of the kernel trips the checks of acquire, release, pop_off, sched,
\* usertrap and kerneltrap, and every sret goes back to the code its trap came
\* from although other threads trap between (trap.c:195-198).
NoPanic == ~hart.panic

\* In user mode no lock is held, nothing is pushed, traps go to uservec, and the
\* process the hart is on is the one c->proc names and the table calls RUNNING.
UserClean ==
    hart.user => /\ hart.held = {} /\ hart.noff = 0 /\ hart.stvec = "user"
                 /\ cproc = cur /\ state[cur] = "RUNNING"

\* Devices can interrupt again and again: neither locks, page faults that sleep
\* with interrupts off nor an idle scheduler shut them out for good ("Avoid
\* deadlock by ensuring that devices can interrupt", proc.c:605).
Interruptible == []<>(hart.sie \/ hart.user)
=============================================================================
