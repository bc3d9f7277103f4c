--------------------------- MODULE ProcTypeProof ----------------------------
(***************************************************************************)
(* Type correctness of the process table, for every number of slots, every *)
(* set of system calls, signals and arguments of the user programs.        *)
(***************************************************************************)
EXTENDS Proc, TLAPS

(***************************************************************************)
(* What the local variables of a call hold at the places that use them.    *)
(***************************************************************************)
LocOK ==
    \A p \in Procs :
        /\ pc[p] = "kill" => obj[p] \in 1..(NPROC + 1)
        /\ pc[p] \in {"send", "send2", "handle", "hclear"} => obj[p] \in Procs
        /\ pc[p] \in {"kill", "send", "send2"} => sig[p] \in Signals
        /\ pc[p] \in {"handle", "hclear"} => hsig[p] \in SigNums
        /\ pc[p] \in {"handle", "hclear"} /\ obj[p] # p => sig[p] \in Signals
        /\ pc[p] \in {"fork1", "fork2"} => obj[p] \in Procs

(***************************************************************************)
(* The types together with the local variables: the inductive invariant.   *)
(***************************************************************************)
TypeInv == TypeOK /\ LocOK

(***************************************************************************)
(* userinit() leaves a well-typed table, with no call in progress.         *)
(***************************************************************************)
LEMMA TypeInit == Init => TypeInv
  BY ConstantsAssumption DEF Init, TypeInv, TypeOK, LocOK, Procs, States, Labels,
     initproc, SigNums, SIGCONT, WaitFlags

(***************************************************************************)
(* Slot numbers are channels, parents and positions of kill()'s loop,      *)
(* whose position may run one past the last slot.                          *)
(***************************************************************************)
LEMMA SlotRange ==
    /\ \A p \in Procs : p \in 0..NPROC /\ p \in 0..(NPROC + 1) /\ p + 1 \in 0..(NPROC + 1)
    /\ 0 \in 0..NPROC /\ 0 \in 0..(NPROC + 1) /\ 1 \in 0..(NPROC + 1) /\ initproc \in Procs
  BY ConstantsAssumption DEF Procs, initproc

(***************************************************************************)
(* freeproc() keeps the types of the fields it resets.                     *)
(***************************************************************************)
LEMMA FreeprocType ==
    ASSUME TypeOK, NEW q \in Procs, freeproc(q)
    PROVE  /\ state' \in [Procs -> States] /\ chan' \in [Procs -> 0..NPROC]
           /\ killed' \in [Procs -> BOOLEAN] /\ xstate' \in [Procs -> -1..31]
           /\ pid' \in [Procs -> Nat] /\ pgid' \in [Procs -> Nat]
           /\ parent' \in [Procs -> 0..NPROC] /\ pending' \in [Procs -> SUBSET Signals]
           /\ handler' \in [Procs -> [SigNums -> {"SIG_DFL", "SIG_IGN", "user"}]]
  BY ConstantsAssumption DEF TypeOK, freeproc, States

(***************************************************************************)
(* The locals of a call that returns are back at their types.              *)
(***************************************************************************)
LEMMA DropType ==
    ASSUME TypeOK, NEW p \in Procs, Drop(p)
    PROVE  /\ obj' \in [Procs -> 0..(NPROC + 1)] /\ arg' \in [Procs -> Int]
           /\ sig' \in [Procs -> 0..31] /\ hsig' \in [Procs -> 0..31]
           /\ opt' \in [Procs -> SUBSET WaitFlags] /\ status' \in [Procs -> -1..31]
  BY ConstantsAssumption DEF TypeOK, Drop

(***************************************************************************)
(* Every step of a call, a trap or the scheduler keeps the types: one case *)
(* per action.                                                             *)
(***************************************************************************)
LEMMA TypeStep == TypeInv /\ [Next]_vars => TypeOK'
  <1> SUFFICES ASSUME TypeInv, [Next]_vars PROVE TypeOK'
    OBVIOUS
  <1> USE DEF TypeInv, TypeOK, At, Goto, procVars, sigVars, locals
  <1>1. CASE UNCHANGED vars
    BY <1>1 DEF vars
  <1>2. CASE scheduler
    <2>1. next' \in Procs
      BY <1>2, ConstantsAssumption DEF scheduler, NextSlot, Procs
    <2>2. cproc' \in 0..NPROC
      BY <1>2, SlotRange DEF scheduler
    <2>3. state' \in [Procs -> States]
      BY <1>2 DEF scheduler, States
    <2>4. chan' \in [Procs -> 0..NPROC]
      BY Zenon, <1>2, SlotRange DEF scheduler
    <2> QED
      BY <1>2, <2>1, <2>2, <2>3, <2>4 DEF scheduler
  <1>3. ASSUME NEW p \in Procs, TimerUser(p) PROVE TypeOK'
    BY <1>3, ConstantsAssumption DEF TimerUser, ExitKilled, sched, States, Labels
  <1>4. ASSUME NEW p \in Procs, Preempt(p) PROVE TypeOK'
    BY <1>4, ConstantsAssumption DEF Preempt, sched, States
  <1>5. ASSUME NEW p \in Procs, Ecall(p) PROVE TypeOK'
    BY SMTT(30), <1>5, ConstantsAssumption DEF Ecall, ExitKilled, Labels
  <1>6. ASSUME NEW p \in Procs, KernelStep(p) PROVE TypeOK'
    <2>1. CASE SysRet(p)
      BY <2>1 DEF SysRet, ExitKilled, Labels
    <2>2. CASE Fault(p)
      BY <2>2 DEF Fault, Labels
    <2>3. CASE ForkAlloc(p)
      <3> PICK q \in Procs : ForkCopy(p, q)
                              \/ (freeproc(q) /\ Goto(p, "sysret") /\ UNCHANGED <<open, locals>>)
        BY <2>3 DEF ForkAlloc
      <3>1. nextpid' \in Nat \ {0}
        BY <2>3 DEF ForkAlloc
      <3>2. CASE freeproc(q) /\ Goto(p, "sysret") /\ UNCHANGED <<open, locals>>
        BY SMTT(30), <2>3, <3>1, <3>2, FreeprocType DEF ForkAlloc, Labels
      <3>3. CASE ForkCopy(p, q)
        <4>1. pc' \in [Procs -> Labels]
          BY Zenon, <3>3 DEF ForkCopy, Labels
        <4>2. /\ arg' \in [Procs -> Int]
              /\ sig' \in [Procs -> 0..31] /\ hsig' \in [Procs -> 0..31]
              /\ opt' \in [Procs -> SUBSET WaitFlags] /\ status' \in [Procs -> -1..31]
          BY <3>3 DEF ForkCopy
        <4>4. obj' \in [Procs -> 0..(NPROC + 1)]
          BY Zenon, <3>3, SlotRange DEF ForkCopy
        <4>3. /\ state' \in [Procs -> States] /\ open' \in [Procs -> BOOLEAN]
              /\ pid' \in [Procs -> Nat] /\ pgid' \in [Procs -> Nat]
              /\ pending' \in [Procs -> SUBSET Signals]
              /\ handler' \in [Procs -> [SigNums -> {"SIG_DFL", "SIG_IGN", "user"}]]
          BY <3>3 DEF ForkCopy, States
        <4> QED
          BY Zenon, <2>3, <3>1, <3>3, <4>1, <4>2, <4>3, <4>4 DEF ForkAlloc, ForkCopy
      <3> QED
        BY <3>2, <3>3
    <2>4. CASE ForkFull(p)
      BY <2>4 DEF ForkFull, Labels
    <2>5. CASE ForkParent(p)
      BY Zenon, <2>5, ConstantsAssumption DEF ForkParent, Labels, Procs
    <2>6. CASE ForkRunnable(p)
      BY Zenon, <2>6, DropType DEF ForkRunnable, Labels, States
    <2>7. CASE ExitClose(p)
      BY <2>7 DEF ExitClose, Labels
    <2>8. CASE ExitZombie(p)
      <3>1. parent' \in [Procs -> 0..NPROC]
        BY <2>8, ConstantsAssumption DEF ExitZombie, reparent, initproc
      <3>2. state' \in [Procs -> States] /\ cproc' \in 0..NPROC
        BY <2>8, ConstantsAssumption DEF ExitZombie, sched, wakeup, States
      <3>3. xstate' \in [Procs -> -1..31]
        BY <2>8 DEF ExitZombie
      <3> QED
        BY <2>8, <3>1, <3>2, <3>3 DEF ExitZombie
    <2>9. CASE WaitReap(p)
      <3>1. pc' \in [Procs -> Labels]
        BY <2>9 DEF WaitReap, Labels
      <3> QED
        BY SMTT(30), <2>9, <3>1, FreeprocType, DropType DEF WaitReap
    <2>10. CASE WaitNone(p)
      BY <2>10, DropType DEF WaitNone, Labels
    <2>11. CASE WaitSleep(p)
      <3>1. state' \in [Procs -> States] /\ cproc' \in 0..NPROC /\ chan' \in [Procs -> 0..NPROC]
        BY <2>11, SlotRange DEF WaitSleep, sleep, sched, States
      <3> QED
        BY Zenon, <2>11, <3>1 DEF WaitSleep, Labels
    <2>12. CASE KillNext(p)
      BY <2>12, ConstantsAssumption, DropType DEF KillNext, Labels
    <2>13. CASE SendMark(p)
      <3>1. killed' \in [Procs -> BOOLEAN]
        BY Zenon, <2>13 DEF SendMark
      <3>2. sig[p] \in Signals
        BY <2>13 DEF SendMark, LocOK
      <3>3. pending' \in [Procs -> SUBSET Signals]
        BY <2>13, <3>2 DEF SendMark
      <3> QED
        BY <2>13, <3>1, <3>3 DEF SendMark, Labels
    <2>14. CASE SendCheck(p)
      <3>1. pc' \in [Procs -> Labels]
        BY <2>14 DEF SendCheck, Labels
      <3>2. paused' \in [Procs -> BOOLEAN]
        BY Zenon, <2>14 DEF SendCheck
      <3>3. obj[p] + 1 \in 0..(NPROC + 1) /\ SIGCONT \in 0..31
        BY <2>14, SlotRange DEF SendCheck, LocOK, SIGCONT
      <3>4. obj' \in [Procs -> 0..(NPROC + 1)] /\ hsig' \in [Procs -> 0..31]
        BY <2>14, <3>3 DEF SendCheck
      <3> QED
        BY <2>14, <3>1, <3>2, <3>4 DEF SendCheck
    <2>15. CASE HandleSignal(p)
      <3>1. obj[p] \in Procs /\ hsig[p] \in -1..31
        BY <2>15, ConstantsAssumption DEF HandleSignal, LocOK
      <3>2. state' \in [Procs -> States] /\ cproc' \in 0..NPROC
        BY <2>15, ConstantsAssumption DEF HandleSignal, TermState, sleep, sched, wakeup, States
      <3>3. chan' \in [Procs -> 0..NPROC]
        BY <2>15, <3>1, SlotRange DEF HandleSignal, sleep
      <3>4. killed' \in [Procs -> BOOLEAN] /\ xstate' \in [Procs -> -1..31]
        BY Zenon, <2>15, <3>1 DEF HandleSignal
      <3> QED
        BY Zenon, <2>15, <3>2, <3>3, <3>4 DEF HandleSignal, Labels
    <2>16. CASE HandleClear(p)
      <3>1. obj[p] + 1 \in 0..(NPROC + 1)
        BY <2>16, SlotRange DEF HandleClear, LocOK
      <3>2. /\ obj' \in [Procs -> 0..(NPROC + 1)] /\ arg' \in [Procs -> Int]
            /\ sig' \in [Procs -> 0..31] /\ hsig' \in [Procs -> 0..31]
            /\ opt' \in [Procs -> SUBSET WaitFlags] /\ status' \in [Procs -> -1..31]
        BY <2>16, <3>1, DropType DEF HandleClear
      <3>3. pc' \in [Procs -> Labels]
        BY <2>16 DEF HandleClear, Labels
      <3>4. pending' \in [Procs -> SUBSET Signals]
        BY Zenon, <2>16 DEF HandleClear
      <3> QED
        BY <2>16, <3>2, <3>3, <3>4 DEF HandleClear
    <2>17. CASE CheckPending(p)
      BY <2>17, ConstantsAssumption, SlotRange DEF CheckPending, Labels
    <2>18. CASE SigsuspendMark(p)
      BY <2>18 DEF SigsuspendMark, Labels
    <2>19. CASE SigsuspendSleep(p)
      <3>1. state' \in [Procs -> States] /\ cproc' \in 0..NPROC /\ chan' \in [Procs -> 0..NPROC]
        BY <2>19, SlotRange DEF SigsuspendSleep, sleep, sched, States
      <3> QED
        BY Zenon, <2>19, <3>1 DEF SigsuspendSleep, Labels
    <2>20. CASE Sigaction(p)
      <3>1. PICK s \in Signals, a \in {"SIG_DFL", "SIG_IGN", "user"} :
              handler' = [handler EXCEPT ![p][s] = a]
        BY Zenon, <2>20 DEF Sigaction
      <3>2. [handler[p] EXCEPT ![s] = a] \in [SigNums -> {"SIG_DFL", "SIG_IGN", "user"}]
        BY Zenon
      <3>3. handler' \in [Procs -> [SigNums -> {"SIG_DFL", "SIG_IGN", "user"}]]
        BY <3>1, <3>2
      <3> QED
        BY <2>20, <3>3 DEF Sigaction, Labels
    <2>21. CASE Execve(p)
      BY <2>21 DEF Execve, Labels
    <2>22. CASE Setpgid(p)
      BY <2>22, ConstantsAssumption DEF Setpgid, Labels
    <2> QED
      BY Zenon, <1>6, <2>1, <2>2, <2>3, <2>4, <2>5, <2>6, <2>7, <2>8, <2>9, <2>10, <2>11, <2>12, <2>13,
         <2>14, <2>15, <2>16, <2>17, <2>18, <2>19, <2>20, <2>21, <2>22 DEF KernelStep
  <1> QED
    BY SMTT(30), <1>1, <1>2, <1>3, <1>4, <1>5, <1>6 DEF Next
-----------------------------------------------------------------------------
(***************************************************************************)
(* Every step keeps what the locals of kill(), send_signal(),              *)
(* handle_signal() and fork() stand for.                                   *)
(***************************************************************************)
LEMMA LocStep == TypeInv /\ [Next]_vars => LocOK'
  <1> SUFFICES ASSUME TypeInv, [Next]_vars PROVE LocOK'
    OBVIOUS
  <1>0. /\ pc \in [Procs -> Labels] /\ obj \in [Procs -> 0..(NPROC + 1)]
        /\ sig \in [Procs -> 0..31] /\ hsig \in [Procs -> 0..31]
        /\ pending \in [Procs -> SUBSET Signals] /\ LocOK
        /\ Signals \subseteq SigNums /\ SIGCONT \in SigNums
    BY DEF TypeInv, TypeOK, SigNums
  <1> USE <1>0 DEF LocOK, At, Goto, locals
  <1>1. CASE UNCHANGED vars
    BY <1>1 DEF vars
  <1>2. CASE scheduler
    BY <1>2 DEF scheduler
  <1>3. ASSUME NEW p \in Procs, TimerUser(p) PROVE LocOK'
    BY <1>3 DEF TimerUser, ExitKilled
  <1>4. ASSUME NEW p \in Procs, Preempt(p) PROVE LocOK'
    BY <1>4 DEF Preempt
  <1>5. ASSUME NEW p \in Procs, Ecall(p) PROVE LocOK'
    BY SMTT(30), <1>5, ConstantsAssumption DEF Ecall, ExitKilled
  <1>6. ASSUME NEW p \in Procs, KernelStep(p) PROVE LocOK'
    <2>1. CASE SysRet(p)
      BY <2>1 DEF SysRet, ExitKilled
    <2>2. CASE Fault(p)
      BY <2>2 DEF Fault
    <2>3. CASE ForkAlloc(p)
      BY <2>3 DEF ForkAlloc, ForkCopy
    <2>4. CASE ForkFull(p)
      BY <2>4 DEF ForkFull
    <2>5. CASE ForkParent(p)
      BY <2>5 DEF ForkParent
    <2>6. CASE ForkRunnable(p)
      BY <2>6 DEF ForkRunnable, Drop
    <2>7. CASE ExitClose(p)
      BY <2>7 DEF ExitClose
    <2>8. CASE ExitZombie(p)
      BY <2>8 DEF ExitZombie
    <2>9. CASE WaitReap(p)
      BY <2>9 DEF WaitReap, Drop
    <2>10. CASE WaitNone(p)
      BY <2>10 DEF WaitNone, Drop
    <2>11. CASE WaitSleep(p)
      BY <2>11 DEF WaitSleep
    <2>12. CASE KillNext(p)
      BY SMTT(30), <2>12, ConstantsAssumption DEF KillNext, Drop, Procs
    <2>13. CASE SendMark(p)
      BY <2>13 DEF SendMark
    <2>14. CASE SendCheck(p)
      BY <2>14, SlotRange DEF SendCheck
    <2>15. CASE HandleSignal(p)
      BY <2>15 DEF HandleSignal
    <2>16. CASE HandleClear(p)
      BY <2>16, SlotRange DEF HandleClear, Drop
    <2>17. CASE CheckPending(p)
      BY <2>17 DEF CheckPending
    <2>18. CASE SigsuspendMark(p)
      BY <2>18 DEF SigsuspendMark
    <2>19. CASE SigsuspendSleep(p)
      BY <2>19 DEF SigsuspendSleep
    <2>20. CASE Sigaction(p)
      BY <2>20 DEF Sigaction
    <2>21. CASE Execve(p)
      BY <2>21 DEF Execve
    <2>22. CASE Setpgid(p)
      BY <2>22 DEF Setpgid
    <2> QED
      BY Zenon, <1>6, <2>1, <2>2, <2>3, <2>4, <2>5, <2>6, <2>7, <2>8, <2>9, <2>10, <2>11, <2>12, <2>13,
         <2>14, <2>15, <2>16, <2>17, <2>18, <2>19, <2>20, <2>21, <2>22 DEF KernelStep
  <1> QED
    BY <1>1, <1>2, <1>3, <1>4, <1>5, <1>6 DEF Next

(***************************************************************************)
(* Type correctness of the process table, for any number of slots and any  *)
(* programs: no call, signal or trap of kernel/proc.c leaves the types.    *)
(***************************************************************************)
THEOREM TypeCorrect == Spec => []TypeOK
  <1>1. Init => TypeInv
    BY TypeInit
  <1>2. TypeInv /\ [Next]_vars => TypeInv'
    BY TypeStep, LocStep DEF TypeInv
  <1>3. TypeInv => TypeOK
    BY DEF TypeInv
  <1> QED
    BY <1>1, <1>2, <1>3, PTL DEF Spec
-----------------------------------------------------------------------------
=============================================================================
