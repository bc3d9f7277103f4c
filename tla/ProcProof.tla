----------------------------- MODULE ProcProof ------------------------------
(***************************************************************************)
(* The table invariant, for every number of slots, every set of system     *)
(* calls, signals and arguments of the user programs.                      *)
(***************************************************************************)
EXTENDS ProcTypeProof

(* slot has no parent.                                                     *)
(***************************************************************************)
TreeOK ==
    /\ parent[initproc] = 0
    /\ state[initproc] \in Alive
    /\ pc[initproc] # "exit2"
    /\ \A p \in Procs : parent[p] # p /\ (state[p] = "UNUSED" => parent[p] = 0)

(***************************************************************************)
(* The slot a fork() in progress is filling is its own, is still USED, and *)
(* has no parent or the forking process as its parent.                     *)
(***************************************************************************)
ForkOK ==
    \A p \in Procs : (state[p] \in Alive /\ pc[p] \in {"fork1", "fork2"}) =>
        /\ state[obj[p]] = "USED" /\ pc[obj[p]] = "user"
        /\ parent[obj[p]] = IF pc[p] = "fork1" THEN 0 ELSE p
        /\ \A q \in Procs : (q # p /\ state[q] \in Alive /\ pc[q] \in {"fork1", "fork2"})
              => obj[q] # obj[p]

(***************************************************************************)
(* A process asleep in wait4() sleeps on its own address, and one that has *)
(* set kids still has a child it waits for.                                *)
(***************************************************************************)
WaitOK ==
    \A p \in Procs : (state[p] \in Alive /\ pc[p] = "waitk") =>
        /\ state[p] = "SLEEPING" => chan[p] = p
        /\ (arg[p] = -1 \/ arg[p] > 0) => \E q \in Procs : Child(p, q)

(***************************************************************************)
(* The inductive invariant that needs nothing of wait4()'s options.        *)
(***************************************************************************)
TableInv == CpuOwner /\ TreeOK /\ ForkOK /\ WaitOK /\ NoMissedExit

-----------------------------------------------------------------------------
(***************************************************************************)
(* The types the proof of the table invariant uses, and that 0 is no slot. *)
(***************************************************************************)
LEMMA TableTypes ==
    TypeInv => /\ state \in [Procs -> States] /\ chan \in [Procs -> 0..NPROC]
               /\ pid \in [Procs -> Nat] /\ pgid \in [Procs -> Nat]
               /\ parent \in [Procs -> 0..NPROC] /\ pc \in [Procs -> Labels]
               /\ obj \in [Procs -> 0..(NPROC + 1)] /\ arg \in [Procs -> Int]
               /\ 0 \notin Procs /\ initproc \in Procs
  BY SlotRange DEF TypeInv, TypeOK, Procs

(***************************************************************************)
(* Child(a, b) depends on the caller's pid argument and group, and on b's  *)
(* parent, pid and group.                                                  *)
(***************************************************************************)
LEMMA ChildFrame ==
    ASSUME NEW a \in Procs, NEW b \in Procs, parent'[b] = parent[b], pid'[b] = pid[b],
           pgid'[a] = pgid[a], pgid'[b] = pgid[b], arg'[a] = arg[a]
    PROVE  Child(a, b)' <=> Child(a, b)
  BY DEF Child

(***************************************************************************)
(* A process that wait4() counts as a child has the caller as its parent.  *)
(***************************************************************************)
LEMMA ChildParent ==
    ASSUME NEW a, NEW b, Child(a, b)
    PROVE  parent[b] = a
  BY DEF Child

(***************************************************************************)
(* The running process moves on, and may have made sleepers runnable.      *)
(***************************************************************************)
LEMMA MoveStep ==
    ASSUME TypeInv, TableInv, NEW p \in Procs, cproc = p, NEW l,
           state' \in [Procs -> States],
           \A q \in Procs : state'[q] = state[q] \/ (state[q] = "SLEEPING" /\ state'[q] = "RUNNABLE"),
           UNCHANGED <<chan, pid, pgid, parent, cproc>>,
           pc' = [pc EXCEPT ![p] = l], l \notin {"fork1", "fork2", "waitk"},
           l = "exit2" => p # initproc,
           \A q \in Procs \ {p} : obj'[q] = obj[q] /\ arg'[q] = arg[q]
    PROVE  TableInv'
  <1>0. state[p] = "RUNNING" /\ state'[p] = "RUNNING"
    BY DEF TableInv, CpuOwner
  <1>c. \A a, b \in Procs : a # p => (Child(a, b)' <=> Child(a, b))
    BY ChildFrame
  <1>1. CpuOwner'
    BY DEF TableInv, CpuOwner
  <1>2. TreeOK'
    BY TableTypes DEF TableInv, TreeOK, Alive
  <1>3. ForkOK'
    BY <1>0, TableTypes DEF TableInv, ForkOK, LocOK, TypeInv, Alive
  <1>4. WaitOK'
    BY <1>0, <1>c, TableTypes DEF TableInv, WaitOK, Alive
  <1>5. NoMissedExit'
    BY <1>0, <1>c, TableTypes DEF TableInv, NoMissedExit
  <1> QED
    BY <1>1, <1>2, <1>3, <1>4, <1>5 DEF TableInv

(***************************************************************************)
(* The running process gives up the CPU, by yield() or by sleep() outside  *)
(* wait4().                                                                *)
(***************************************************************************)
LEMMA LeaveStep ==
    ASSUME TypeInv, TableInv, NEW p \in Procs, cproc = p, NEW l, NEW st \in {"RUNNABLE", "SLEEPING"},
           state' = [state EXCEPT ![p] = st], cproc' = 0,
           \A q \in Procs \ {p} : chan'[q] = chan[q],
           UNCHANGED <<pid, pgid, parent, obj, arg>>,
           pc' = [pc EXCEPT ![p] = l],
           l \notin {"fork1", "fork2", "waitk", "exit2"} \/ (l = pc[p] /\ st = "RUNNABLE")
    PROVE  TableInv'
  <1>0. state[p] = "RUNNING"
    BY DEF TableInv, CpuOwner
  <1>c. \A a, b \in Procs : Child(a, b)' <=> Child(a, b)
    BY ChildFrame
  <1>1. CpuOwner'
    BY TableTypes DEF TableInv, CpuOwner
  <1>2. TreeOK'
    BY TableTypes DEF TableInv, TreeOK, Alive
  <1>3. ForkOK'
    BY <1>0, TableTypes DEF TableInv, ForkOK, LocOK, TypeInv, Alive
  <1>4. WaitOK'
    BY <1>0, <1>c, TableTypes DEF TableInv, WaitOK, Alive
  <1>5. NoMissedExit'
    BY <1>0, <1>c, TableTypes DEF TableInv, NoMissedExit
  <1> QED
    BY <1>1, <1>2, <1>3, <1>4, <1>5 DEF TableInv

(***************************************************************************)
(* One turn of scheduler()'s loop keeps the table invariant.               *)
(***************************************************************************)
LEMMA SchedulerStep ==
    ASSUME TypeInv, TableInv, scheduler
    PROVE  TableInv'
  <1>0. next \in Procs /\ cproc = 0 /\ UNCHANGED <<pid, pgid, parent, obj, arg, pc>>
    BY DEF TypeInv, TypeOK, scheduler, locals
  <1>c. \A a, b \in Procs : Child(a, b)' <=> Child(a, b)
    BY <1>0, ChildFrame
  <1>1. CASE state[next] # "RUNNABLE"
    <2> UNCHANGED <<state, chan, cproc>>
      BY <1>1 DEF scheduler
    <2> QED
      BY <1>0, <1>c DEF TableInv, CpuOwner, TreeOK, ForkOK, WaitOK, NoMissedExit
  <1>2. CASE state[next] = "RUNNABLE"
    <2>0. /\ state' = [state EXCEPT ![next] = "RUNNING"] /\ cproc' = next
          /\ chan' = [chan EXCEPT ![next] = 0]
      BY <1>2 DEF scheduler
    <2>1. CpuOwner'
      BY <1>0, <2>0, TableTypes DEF TableInv, CpuOwner
    <2>2. TreeOK'
      BY <1>0, <1>2, <2>0, TableTypes DEF TableInv, TreeOK, Alive
    <2>3. ForkOK'
      BY <1>0, <1>2, <2>0, TableTypes DEF TableInv, ForkOK, LocOK, TypeInv, Alive
    <2>4. WaitOK'
      BY <1>0, <1>2, <1>c, <2>0, TableTypes DEF TableInv, WaitOK, Alive
    <2>5. NoMissedExit'
      BY <1>0, <1>2, <1>c, <2>0, TableTypes DEF TableInv, NoMissedExit
    <2> QED
      BY <2>1, <2>2, <2>3, <2>4, <2>5 DEF TableInv
  <1> QED
    BY <1>1, <1>2
(***************************************************************************)
(* fork() has taken a free slot and copied itself into it.                 *)
(***************************************************************************)
LEMMA ForkCopyStep ==
    ASSUME TypeInv, TableInv, NEW p \in Procs, cproc = p, cproc' = p, NEW q \in Procs,
           state[q] = "UNUSED", ForkCopy(p, q)
    PROVE  TableInv'
  <1>0. /\ state[p] = "RUNNING" /\ q # p /\ q # initproc /\ parent[q] = 0
        /\ state' = [state EXCEPT ![q] = "USED"]
        /\ pid' = [pid EXCEPT ![q] = nextpid] /\ pgid' = [pgid EXCEPT ![q] = pgid[p]]
        /\ pc' = [pc EXCEPT ![p] = "fork1", ![q] = "user"]
        /\ obj' = [obj EXCEPT ![p] = q, ![q] = 0] /\ arg' = [arg EXCEPT ![q] = 0]
        /\ UNCHANGED <<chan, parent>>
    BY DEF TableInv, CpuOwner, TreeOK, ForkCopy, Alive
  <1>c. \A a, b \in Procs : a # q /\ b # q => (Child(a, b)' <=> Child(a, b))
    BY <1>0, TableTypes, ChildFrame
  <1>d. \A a \in Procs : ~Child(a, q) /\ ~Child(a, q)'
    BY <1>0, TableTypes DEF Child
  <1>1. CpuOwner'
    BY <1>0, TableTypes DEF TableInv, CpuOwner
  <1>2. TreeOK'
    BY <1>0, TableTypes DEF TableInv, TreeOK
  <1>3. ForkOK'
    BY <1>0, TableTypes DEF TableInv, ForkOK, LocOK, TypeInv, Alive
  <1>4. WaitOK'
    BY <1>0, <1>c, <1>d, TableTypes DEF TableInv, WaitOK, Alive
  <1>5. NoMissedExit'
    BY <1>0, <1>c, <1>d, TableTypes DEF TableInv, NoMissedExit
  <1> QED
    BY <1>1, <1>2, <1>3, <1>4, <1>5 DEF TableInv

(***************************************************************************)
(* A slot q that nobody but p can hold is given back: by fork() when memory*)
(* runs out, or by wait4() for a child of p.                               *)
(***************************************************************************)
LEMMA FreeStep ==
    ASSUME TypeInv, TableInv, NEW p \in Procs, cproc = p, cproc' = p, NEW q \in Procs,
           state[q] = "UNUSED" \/ parent[q] = p, freeproc(q),
           pc' = [pc EXCEPT ![p] = "sysret"],
           \A r \in Procs \ {p} : obj'[r] = obj[r] /\ arg'[r] = arg[r]
    PROVE  TableInv'
  <1>0. /\ state[p] = "RUNNING" /\ q # p /\ q # initproc
        /\ state' = [state EXCEPT ![q] = "UNUSED"] /\ chan' = [chan EXCEPT ![q] = 0]
        /\ pid' = [pid EXCEPT ![q] = 0] /\ pgid' = [pgid EXCEPT ![q] = 0]
        /\ parent' = [parent EXCEPT ![q] = 0]
    BY TableTypes DEF TableInv, CpuOwner, TreeOK, freeproc, Alive
  <1>c. \A a, b \in Procs : a \notin {p, q} /\ b # q => (Child(a, b)' <=> Child(a, b))
    BY <1>0, TableTypes, ChildFrame
  <1>d. \A a \in Procs \ {p} : ~Child(a, q) /\ ~Child(a, q)'
    BY <1>0, TableTypes DEF Child, TableInv, TreeOK
  <1>1. CpuOwner'
    BY <1>0, TableTypes DEF TableInv, CpuOwner
  <1>2. TreeOK'
    BY <1>0, TableTypes DEF TableInv, TreeOK
  <1>3. ForkOK'
    BY <1>0, TableTypes DEF TableInv, ForkOK, LocOK, TypeInv, Alive
  <1>4. WaitOK'
    BY <1>0, <1>c, <1>d, TableTypes DEF TableInv, WaitOK, Alive
  <1>5. NoMissedExit'
    BY <1>0, <1>c, <1>d, TableTypes DEF TableInv, NoMissedExit
  <1> QED
    BY <1>1, <1>2, <1>3, <1>4, <1>5 DEF TableInv

(***************************************************************************)
(* fork() setting np->parent under wait_lock keeps the table invariant.    *)
(***************************************************************************)
LEMMA ForkParentStep ==
    ASSUME TypeInv, TableInv, NEW p \in Procs, ForkParent(p)
    PROVE  TableInv'
  <1> DEFINE q == obj[p]
  <1>0. /\ cproc = p /\ pc[p] = "fork1" /\ q \in Procs
        /\ parent' = [parent EXCEPT ![q] = p] /\ pc' = [pc EXCEPT ![p] = "fork2"]
        /\ UNCHANGED <<state, chan, pid, pgid, cproc, obj, arg>>
    BY TableTypes DEF ForkParent, At, Goto, locals, TypeInv, LocOK
  <1>1. state[p] = "RUNNING" /\ state[q] = "USED" /\ q # p /\ q # initproc /\ parent[q] = 0
    BY <1>0 DEF TableInv, CpuOwner, ForkOK, TreeOK, Alive
  <1> HIDE DEF q
  <1>c. \A a, b \in Procs : b # q => (Child(a, b)' <=> Child(a, b))
    BY <1>0, TableTypes, ChildFrame
  <1>d. \A a \in Procs : ~Child(a, q)
    BY <1>1, TableTypes DEF Child
  <1>2. CpuOwner'
    BY <1>0, <1>1, TableTypes DEF TableInv, CpuOwner
  <1>3. TreeOK'
    BY <1>0, <1>1, TableTypes DEF TableInv, TreeOK
  <1>4. ForkOK'
    BY <1>0, <1>1, TableTypes DEF TableInv, ForkOK, LocOK, TypeInv, Alive, q
  <1>5. WaitOK'
    BY <1>0, <1>1, <1>c, <1>d, TableTypes DEF TableInv, WaitOK, Alive
  <1>6. NoMissedExit'
    BY <1>0, <1>1, <1>c, <1>d, TableTypes DEF TableInv, NoMissedExit
  <1> QED
    BY <1>2, <1>3, <1>4, <1>5, <1>6 DEF TableInv

(***************************************************************************)
(* fork() making the child RUNNABLE keeps the table invariant.             *)
(***************************************************************************)
LEMMA ForkRunnableStep ==
    ASSUME TypeInv, TableInv, NEW p \in Procs, ForkRunnable(p)
    PROVE  TableInv'
  <1> DEFINE q == obj[p]
  <1>0. /\ cproc = p /\ pc[p] = "fork2" /\ q \in Procs
        /\ state' = [state EXCEPT ![q] = "RUNNABLE"] /\ pc' = [pc EXCEPT ![p] = "sysret"]
        /\ \A r \in Procs \ {p} : obj'[r] = obj[r] /\ arg'[r] = arg[r]
        /\ UNCHANGED <<chan, pid, pgid, parent, cproc>>
    BY TableTypes DEF ForkRunnable, At, Goto, Drop, TypeInv, LocOK
  <1>1. state[p] = "RUNNING" /\ state[q] = "USED" /\ pc[q] = "user" /\ q # p /\ q # initproc
    BY <1>0 DEF TableInv, CpuOwner, ForkOK, TreeOK, Alive
  <1>c. \A a, b \in Procs : a # p => (Child(a, b)' <=> Child(a, b))
    BY Zenon, <1>0, ChildFrame
  <1>4. ForkOK'
    BY <1>0, <1>1, TableTypes DEF TableInv, ForkOK, LocOK, TypeInv, Alive
  <1> HIDE DEF q
  <1>2. CpuOwner'
    BY <1>0, <1>1, TableTypes DEF TableInv, CpuOwner
  <1>3. TreeOK'
    BY <1>0, <1>1, TableTypes DEF TableInv, TreeOK, Alive
  <1>5. WaitOK'
    BY <1>0, <1>1, <1>c, TableTypes DEF TableInv, WaitOK, Alive
  <1>6. NoMissedExit'
    BY <1>0, <1>1, <1>c, TableTypes DEF TableInv, NoMissedExit
  <1> QED
    BY <1>2, <1>3, <1>4, <1>5, <1>6 DEF TableInv

(***************************************************************************)
(* exit() under wait_lock keeps the table invariant: it reparents, wakes   *)
(* the waiting parents and becomes a zombie in one step.                   *)
(***************************************************************************)
LEMMA ExitZombieStep ==
    ASSUME TypeInv, TableInv, NEW p \in Procs, ExitZombie(p)
    PROVE  TableInv'
  <1> DEFINE woken == ExitWakes(p)
  <1>0. /\ cproc = p /\ pc[p] = "exit2" /\ cproc' = 0
        /\ parent' = [q \in Procs |-> IF parent[q] = p THEN initproc ELSE parent[q]]
        /\ state' = [wakeup(p, woken, state) EXCEPT ![p] = "ZOMBIE"]
        /\ UNCHANGED <<chan, pid, pgid, pc, obj, arg>>
    BY DEF ExitZombie, At, reparent, sched, locals
  <1>1. state[p] = "RUNNING" /\ p # initproc /\ parent[p] # p /\ parent[initproc] = 0
    BY <1>0, TableTypes DEF TableInv, CpuOwner, TreeOK
  <1>2. /\ state'[p] = "ZOMBIE"
        /\ \A q \in Procs \ {p} : state'[q] = IF state[q] = "SLEEPING" /\ chan[q] \in woken
                                              THEN "RUNNABLE" ELSE state[q]
    BY <1>0 DEF wakeup
  <1>3. parent[p] \in woken /\ \A q \in Procs : parent[q] = p => initproc \in woken
    BY DEF ExitWakes
  <1> HIDE DEF woken
  <1>c. \A a, b \in Procs : parent[b] # p => (Child(a, b)' <=> Child(a, b))
    BY <1>0, ChildFrame
  <1>4. CpuOwner'
    BY <1>0, <1>1, <1>2, TableTypes DEF TableInv, CpuOwner
  <1>5. TreeOK'
    BY <1>0, <1>1, <1>2, TableTypes DEF TableInv, TreeOK, Alive
  <1>6. ForkOK'
    BY <1>0, <1>1, <1>2, TableTypes DEF TableInv, ForkOK, LocOK, TypeInv, Alive
  <1>7. WaitOK'
    BY <1>0, <1>1, <1>2, <1>c, ChildParent, TableTypes DEF TableInv, WaitOK, Alive
  <1>8. NoMissedExit'
    <2> SUFFICES ASSUME NEW a \in Procs, NEW b \in Procs, state'[a] = "SLEEPING", pc[a] = "waitk",
                        Child(a, b)', state'[b] = "ZOMBIE"
                 PROVE  FALSE
      BY Zenon, <1>0 DEF NoMissedExit
    <2>1. a # p /\ state[a] = "SLEEPING" /\ chan[a] \notin woken /\ chan[a] = a
      BY <1>2 DEF TableInv, WaitOK, Alive
    <2>2. parent'[b] = a
      BY DEF Child
    <2>3. CASE b = p
      BY <1>0, <1>1, <1>3, <2>1, <2>2, <2>3
    <2>4. CASE b # p /\ parent[b] = p
      BY <1>0, <1>3, <2>1, <2>2, <2>4
    <2>5. CASE b # p /\ parent[b] # p
      BY <1>2, <1>c, <2>1, <2>5 DEF TableInv, NoMissedExit
    <2> QED
      BY <2>3, <2>4, <2>5
  <1> QED
    BY <1>4, <1>5, <1>6, <1>7, <1>8 DEF TableInv

(***************************************************************************)
(* wait4() going to sleep keeps the table invariant: it has just seen      *)
(* under wait_lock that no child it waits for is a zombie.                 *)
(***************************************************************************)
LEMMA WaitSleepStep ==
    ASSUME TypeInv, TableInv, NEW p \in Procs, WaitSleep(p)
    PROVE  TableInv'
  <1>0. /\ cproc = p /\ pc[p] \in {"wait4", "waitk"} /\ cproc' = 0
        /\ state' = [state EXCEPT ![p] = "SLEEPING"] /\ chan' = [chan EXCEPT ![p] = p]
        /\ pc' = [pc EXCEPT ![p] = "waitk"] /\ UNCHANGED <<pid, pgid, parent, obj, arg>>
        /\ \A q \in Procs : Child(p, q) => state[q] # "ZOMBIE"
        /\ pc[p] = "waitk" \/ \E q \in Procs : Child(p, q)
    BY DEF WaitSleep, AtWait, sleep, sched, Goto, locals, Waitable, NoKids
  <1>1. state[p] = "RUNNING"
    BY <1>0 DEF TableInv, CpuOwner
  <1>c. \A a, b \in Procs : Child(a, b)' <=> Child(a, b)
    BY <1>0, ChildFrame
  <1>2. CpuOwner'
    BY <1>0, TableTypes DEF TableInv, CpuOwner
  <1>3. TreeOK'
    BY <1>0, TableTypes DEF TableInv, TreeOK, Alive
  <1>4. ForkOK'
    BY <1>0, <1>1, TableTypes DEF TableInv, ForkOK, LocOK, TypeInv, Alive
  <1>5. WaitOK'
    BY <1>0, <1>1, <1>c, TableTypes DEF TableInv, WaitOK, Alive
  <1>6. NoMissedExit'
    BY <1>0, <1>1, <1>c, TableTypes DEF TableInv, NoMissedExit
  <1> QED
    BY <1>2, <1>3, <1>4, <1>5, <1>6 DEF TableInv

(***************************************************************************)
(* setpgid() keeps the table invariant: it changes the group of the        *)
(* running process only, which is not asleep and is nobody's zombie child. *)
(***************************************************************************)
LEMMA SetpgidStep ==
    ASSUME TypeInv, TableInv, NEW p \in Procs, Setpgid(p)
    PROVE  TableInv'
  <1>0. /\ cproc = p /\ pc' = [pc EXCEPT ![p] = "sysret"]
        /\ \A r \in Procs \ {p} : pgid'[r] = pgid[r]
        /\ UNCHANGED <<state, chan, pid, parent, cproc, obj, arg>>
    BY TableTypes DEF Setpgid, At, Goto, locals
  <1>1. state[p] = "RUNNING"
    BY <1>0 DEF TableInv, CpuOwner
  <1>c. \A a, b \in Procs : a # p /\ b # p => (Child(a, b)' <=> Child(a, b))
    <2> SUFFICES ASSUME NEW a \in Procs, NEW b \in Procs, a # p, b # p
                 PROVE  Child(a, b)' <=> Child(a, b)
      OBVIOUS
    <2>1. /\ parent'[b] = parent[b] /\ pid'[b] = pid[b] /\ arg'[a] = arg[a]
          /\ pgid'[a] = pgid[a] /\ pgid'[b] = pgid[b]
      BY <1>0
    <2> QED
      BY Zenon, <2>1, ChildFrame
  <1>d. \A a, b \in Procs : (arg[a] = -1 \/ arg[a] > 0) => (Child(a, b)' <=> Child(a, b))
    BY <1>0, TableTypes DEF Child
  <1>2. CpuOwner'
    BY <1>0 DEF TableInv, CpuOwner
  <1>3. TreeOK'
    BY <1>0, TableTypes DEF TableInv, TreeOK
  <1>4. ForkOK'
    BY <1>0, <1>1, TableTypes DEF TableInv, ForkOK, LocOK, TypeInv, Alive
  <1>5. WaitOK'
    BY <1>0, <1>d, TableTypes DEF TableInv, WaitOK
  <1>6. NoMissedExit'
    BY <1>0, <1>1, <1>c, TableTypes DEF TableInv, NoMissedExit
  <1> QED
    BY <1>2, <1>3, <1>4, <1>5, <1>6 DEF TableInv
-----------------------------------------------------------------------------
(***************************************************************************)
(* The table that userinit() leaves satisfies the table invariant.         *)
(***************************************************************************)
LEMMA TableInit == Init => TableInv
  BY SlotRange, ConstantsAssumption DEF Init, TableInv, CpuOwner, TreeOK, ForkOK, WaitOK, NoMissedExit,
     Alive, Procs, initproc

(***************************************************************************)
(* Every step keeps the table invariant: one case per action.              *)
(***************************************************************************)
LEMMA TableStep == TypeInv /\ TableInv /\ [Next]_vars => TableInv'
  <1> SUFFICES ASSUME TypeInv, TableInv, [Next]_vars PROVE TableInv'
    OBVIOUS
  <1> USE DEF At, Goto, procVars, locals
  <1>1. CASE UNCHANGED vars
    BY <1>1 DEF vars, TableInv, CpuOwner, TreeOK, ForkOK, WaitOK, NoMissedExit, Child
  <1>2. CASE scheduler
    BY <1>2, SchedulerStep
  <1>3. ASSUME NEW p \in Procs, TimerUser(p) PROVE TableInv'
    <2>1. CASE killed[p]
      BY <1>3, <2>1, MoveStep, TableTypes DEF TimerUser, ExitKilled
    <2>2. CASE ~killed[p]
      BY <1>3, <2>2, LeaveStep DEF TimerUser, sched
    <2> QED
      BY <2>1, <2>2
  <1>4. ASSUME NEW p \in Procs, Preempt(p) PROVE TableInv'
    <2>1. pc' = [pc EXCEPT ![p] = pc[p]]
      BY <1>4, TableTypes DEF Preempt
    <2> QED
      BY Zenon, <1>4, <2>1, LeaveStep DEF Preempt, sched
  <1>5. ASSUME NEW p \in Procs, Ecall(p) PROVE TableInv'
    <2>1. PICK l \in Calls \union {"exit"} : pc' = [pc EXCEPT ![p] = l]
      BY Zenon, <1>5 DEF Ecall, ExitKilled
    <2>2. l \notin {"fork1", "fork2", "waitk", "exit2"}
      BY ConstantsAssumption
    <2>3. \A q \in Procs \ {p} : obj'[q] = obj[q] /\ arg'[q] = arg[q]
      BY <1>5, TableTypes DEF Ecall, ExitKilled
    <2>4. cproc = p /\ UNCHANGED <<state, chan, pid, pgid, parent, cproc>>
      BY <1>5 DEF Ecall
    <2> QED
      BY Zenon, <2>1, <2>2, <2>3, <2>4, MoveStep, TableTypes
  <1>6. ASSUME NEW p \in Procs, KernelStep(p) PROVE TableInv'
    <2>1. CASE SysRet(p)
      <3>1. PICK l \in {"exit", "sigchk"} : pc' = [pc EXCEPT ![p] = l]
        BY Zenon, <2>1 DEF SysRet, ExitKilled
      <3> QED
        BY Zenon, <2>1, <3>1, MoveStep, TableTypes DEF SysRet, ExitKilled
    <2>2. CASE Fault(p)
      BY Zenon, <2>2, MoveStep, TableTypes DEF Fault
    <2>3. CASE ForkAlloc(p)
      <3> PICK q \in Procs : /\ FirstUnused(q)
                             /\ \/ ForkCopy(p, q)
                                \/ freeproc(q) /\ Goto(p, "sysret") /\ UNCHANGED <<open, locals>>
        BY <2>3 DEF ForkAlloc
      <3>1. cproc = p /\ cproc' = p /\ state[q] = "UNUSED"
        BY <2>3 DEF ForkAlloc, FirstUnused
      <3>2. CASE ForkCopy(p, q)
        BY <3>1, <3>2, ForkCopyStep
      <3>3. CASE freeproc(q) /\ Goto(p, "sysret") /\ UNCHANGED <<open, locals>>
        BY Zenon, <3>1, <3>3, FreeStep
      <3> QED
        BY <3>2, <3>3
    <2>4. CASE ForkFull(p)
      BY Zenon, <2>4, MoveStep, TableTypes DEF ForkFull
    <2>5. CASE ForkParent(p)
      BY <2>5, ForkParentStep
    <2>6. CASE ForkRunnable(p)
      BY <2>6, ForkRunnableStep
    <2>7. CASE ExitClose(p)
      BY Zenon, <2>7, MoveStep, TableTypes DEF ExitClose
    <2>8. CASE ExitZombie(p)
      BY <2>8, ExitZombieStep
    <2>9. CASE WaitReap(p)
      <3>0. /\ cproc = p /\ cproc' = p /\ pc' = [pc EXCEPT ![p] = "sysret"]
            /\ \A r \in Procs \ {p} : obj'[r] = obj[r] /\ arg'[r] = arg[r]
        BY <2>9, TableTypes DEF WaitReap, AtWait, Drop
      <3> PICK q \in Procs :
            /\ Waitable(p, q)
            /\ IF "EFAULT" \in opt[p]
               THEN UNCHANGED <<state, chan, killed, xstate, pid, pgid, parent, pending, handler>>
               ELSE freeproc(q)
        BY <2>9 DEF WaitReap
      <3>1. parent[q] = p
        BY ChildParent DEF Waitable
      <3>2. CASE "EFAULT" \in opt[p]
        BY Zenon, <3>0, <3>2, MoveStep, TableTypes
      <3>3. CASE freeproc(q)
        BY Zenon, <3>0, <3>1, <3>3, FreeStep
      <3> QED
        BY <3>2, <3>3
    <2>10. CASE WaitNone(p)
      BY Zenon, <2>10, MoveStep, TableTypes DEF WaitNone, AtWait, Drop
    <2>11. CASE WaitSleep(p)
      BY <2>11, WaitSleepStep
    <2>12. CASE KillNext(p)
      <3>1. PICK l \in {"send", "sysret"} : pc' = [pc EXCEPT ![p] = l]
        BY <2>12 DEF KillNext
      <3>2. \A q \in Procs \ {p} : obj'[q] = obj[q] /\ arg'[q] = arg[q]
        BY <2>12, TableTypes DEF KillNext, Drop
      <3> QED
        BY Zenon, <2>12, <3>1, <3>2, MoveStep, TableTypes DEF KillNext
    <2>13. CASE SendMark(p)
      BY Zenon, <2>13, MoveStep, TableTypes DEF SendMark
    <2>14. CASE SendCheck(p)
      <3>1. PICK l \in {"handle", "kill"} : pc' = [pc EXCEPT ![p] = l]
        BY Zenon, <2>14 DEF SendCheck
      <3>2. \A q \in Procs \ {p} : obj'[q] = obj[q] /\ arg'[q] = arg[q]
        BY <2>14, TableTypes DEF SendCheck
      <3> QED
        BY Zenon, <2>14, <3>1, <3>2, MoveStep, TableTypes DEF SendCheck
    <2>15. CASE HandleSignal(p)
      <3>0. /\ cproc = p /\ pc' = [pc EXCEPT ![p] = "hclear"] /\ obj[p] \in Procs
            /\ UNCHANGED <<pid, pgid, parent, obj, arg>>
        BY Zenon, <2>15 DEF HandleSignal, TypeInv, LocOK
      <3>1. CASE sleep(p, obj[p])
        BY Zenon, <3>0, <3>1, LeaveStep, TableTypes DEF sleep, sched
      <3>2. CASE UNCHANGED <<chan, cproc>>
        <4>1. /\ state' \in [Procs -> States]
              /\ \A q \in Procs : state'[q] = state[q]
                                  \/ (state[q] = "SLEEPING" /\ state'[q] = "RUNNABLE")
          <5>1. CASE state' = wakeup(p, {obj[p]}, state)
            BY <5>1, TableTypes DEF wakeup, States
          <5>2. CASE state' = TermState(obj[p])
            BY <3>0, <5>2, TableTypes DEF TermState, States
          <5>3. CASE UNCHANGED state
            BY <5>3, TableTypes
          <5>4. CASE sleep(p, obj[p])
            BY <3>0, <3>2, <5>4, TableTypes DEF sleep, sched
          <5> QED
            BY Zenon, <2>15, <5>1, <5>2, <5>3, <5>4 DEF HandleSignal
        <4> QED
          BY Zenon, <3>0, <3>2, <4>1, MoveStep
      <3> QED
        BY Zenon, <2>15, <3>1, <3>2 DEF HandleSignal
    <2>16. CASE HandleClear(p)
      <3>1. PICK l \in {"user", "kill"} : pc' = [pc EXCEPT ![p] = l]
        BY <2>16 DEF HandleClear
      <3>2. \A q \in Procs \ {p} : obj'[q] = obj[q] /\ arg'[q] = arg[q]
        BY <2>16, TableTypes DEF HandleClear, Drop
      <3> QED
        BY Zenon, <2>16, <3>1, <3>2, MoveStep, TableTypes DEF HandleClear
    <2>17. CASE CheckPending(p)
      <3>1. PICK l \in {"user", "handle"} : pc' = [pc EXCEPT ![p] = l]
        BY <2>17 DEF CheckPending
      <3>2. \A q \in Procs \ {p} : obj'[q] = obj[q] /\ arg'[q] = arg[q]
        BY <2>17, TableTypes DEF CheckPending
      <3> QED
        BY Zenon, <2>17, <3>1, <3>2, MoveStep, TableTypes DEF CheckPending
    <2>18. CASE SigsuspendMark(p)
      BY Zenon, <2>18, MoveStep, TableTypes DEF SigsuspendMark
    <2>19. CASE SigsuspendSleep(p)
      BY Zenon, <2>19, LeaveStep, TableTypes DEF SigsuspendSleep, sleep, sched
    <2>20. CASE Sigaction(p)
      BY Zenon, <2>20, MoveStep, TableTypes DEF Sigaction
    <2>21. CASE Execve(p)
      BY Zenon, <2>21, MoveStep, TableTypes DEF Execve
    <2>22. CASE Setpgid(p)
      BY <2>22, SetpgidStep
    <2> QED
      BY <1>6, <2>1, <2>2, <2>3, <2>4, <2>5, <2>6, <2>7, <2>8, <2>9, <2>10, <2>11, <2>12, <2>13,
         <2>14, <2>15, <2>16, <2>17, <2>18, <2>19, <2>20, <2>21, <2>22 DEF KernelStep
  <1> QED
    BY <1>1, <1>2, <1>3, <1>4, <1>5, <1>6 DEF Next

(***************************************************************************)
(* The table invariant holds in every reachable state.                     *)
(***************************************************************************)
LEMMA TableCorrect == Spec => [](TypeInv /\ TableInv)
  <1>1. Init => TypeInv /\ TableInv
    BY TypeInit, TableInit
  <1>2. (TypeInv /\ TableInv) /\ [Next]_vars => (TypeInv /\ TableInv)'
    BY TypeStep, LocStep, TableStep DEF TypeInv
  <1> QED
    BY <1>1, <1>2, PTL DEF Spec

(***************************************************************************)
(* The hart's c->proc is the one RUNNING process, whatever kill(), wakeup()*)
(* and wait4() of other processes do between its steps.                    *)
(***************************************************************************)
THEOREM CpuOwnerHolds == Spec => []CpuOwner
  <1>1. TypeInv /\ TableInv => CpuOwner
    BY DEF TableInv
  <1> QED
    BY <1>1, TableCorrect, PTL

(***************************************************************************)
(* wait4() never sleeps through the exit() of a child, its own or one that *)
(* it inherits, for any options and pid arguments.                         *)
(***************************************************************************)
THEOREM NoMissedExitHolds == Spec => []NoMissedExit
  <1>1. TypeInv /\ TableInv => NoMissedExit
    BY DEF TableInv
  <1> QED
    BY <1>1, TableCorrect, PTL

(***************************************************************************)
(* A process asleep in wait4() for any child or for one pid has one.       *)
(***************************************************************************)
THEOREM KidsFlagSoundHolds == Spec => []KidsFlagSound
  <1>1. TypeInv /\ TableInv => KidsFlagSound
    BY DEF TableInv, WaitOK, KidsFlagSound, Alive
  <1> QED
    BY <1>1, TableCorrect, PTL
=============================================================================
