--------------------------- MODULE ProcPlainProof ---------------------------
(***************************************************************************)
(* What holds of the process table when no program passes wait4() an       *)
(* option that makes it free a child that has not exited.                  *)
(***************************************************************************)
EXTENDS ProcProof

(***************************************************************************)
(* exit() has given back the files of a process about to become a zombie.  *)
(***************************************************************************)
CloseOK == \A p \in Procs : (state[p] \in Alive /\ pc[p] = "exit2") => ~open[p]

(***************************************************************************)
(* No program passes wait4() an option that makes it free a live child.    *)
(***************************************************************************)
PlainWaits == \A o \in WaitOptions : "WNOHANG" \notin o /\ "WUNTRACED" \notin o

(***************************************************************************)
(* What holds when no program uses the options that free a live child.     *)
(***************************************************************************)
PlainInv ==
    /\ ParentAlive /\ FilesReleased /\ CloseOK
    /\ \A p \in Procs : pc[p] \in {"wait4", "waitk"} => opt[p] \in WaitOptions

(***************************************************************************)
(* The table that userinit() leaves satisfies the plain-options invariant. *)
(***************************************************************************)
LEMMA PlainInit == Init => PlainInv
  BY Zenon, SlotRange DEF Init, PlainInv, ParentAlive, FilesReleased, CloseOK, Alive

(***************************************************************************)
(* A step that leaves parent and open alone and exits, frees or starts     *)
(* nobody: started processes keep being started.                           *)
(***************************************************************************)
LEMMA PlainMove ==
    ASSUME TypeInv, TableInv, PlainInv, NEW p \in Procs, cproc = p, NEW l,
           \A q \in Procs : state'[q] = state[q] \/ (state[q] \in Alive /\ state'[q] \in Alive),
           UNCHANGED <<parent, open>>,
           pc' = [pc EXCEPT ![p] = l], l = pc[p] \/ l # "exit2",
           l \in {"wait4", "waitk"} => opt'[p] \in WaitOptions,
           \A q \in Procs \ {p} : opt'[q] = opt[q]
    PROVE  PlainInv'
  <1>0. state[p] \in Alive
    BY DEF TableInv, CpuOwner, Alive
  <1>1. ParentAlive'
    BY TableTypes DEF PlainInv, ParentAlive, Alive
  <1>2. FilesReleased'
    BY TableTypes DEF PlainInv, FilesReleased, Alive
  <1>3. CloseOK'
    BY <1>0, TableTypes DEF PlainInv, CloseOK
  <1>4. (\A r \in Procs : pc[r] \in {"wait4", "waitk"} => opt[r] \in WaitOptions)'
    BY TableTypes DEF PlainInv
  <1> QED
    BY <1>1, <1>2, <1>3, <1>4 DEF PlainInv

(***************************************************************************)
(* A slot without started children goes back to the table.                 *)
(***************************************************************************)
LEMMA PlainFree ==
    ASSUME TypeInv, TableInv, PlainInv, NEW p \in Procs, cproc = p, NEW q \in Procs,
           state[q] \in {"UNUSED", "ZOMBIE"}, freeproc(q), UNCHANGED open,
           pc' = [pc EXCEPT ![p] = "sysret"],
           \A r \in Procs \ {p} : opt'[r] = opt[r]
    PROVE  PlainInv'
  <1>0. state' = [state EXCEPT ![q] = "UNUSED"] /\ parent' = [parent EXCEPT ![q] = 0]
    BY DEF freeproc
  <1>1. ParentAlive'
    BY <1>0, TableTypes DEF PlainInv, ParentAlive, Alive
  <1>2. FilesReleased'
    BY <1>0, TableTypes DEF PlainInv, FilesReleased
  <1>3. CloseOK'
    BY <1>0, TableTypes DEF PlainInv, CloseOK, Alive
  <1>4. (\A r \in Procs : pc[r] \in {"wait4", "waitk"} => opt[r] \in WaitOptions)'
    BY TableTypes DEF PlainInv
  <1> QED
    BY <1>1, <1>2, <1>3, <1>4 DEF PlainInv

(***************************************************************************)
(* With such options wait4() frees zombies only.                           *)
(***************************************************************************)
LEMMA PlainReap ==
    ASSUME PlainWaits, PlainInv, NEW p \in Procs, NEW q \in Procs, AtWait(p), Waitable(p, q)
    PROVE  state[q] = "ZOMBIE"
  BY DEF PlainWaits, PlainInv, AtWait, Waitable

(***************************************************************************)
(* Every step keeps the plain-options invariant when wait4() frees zombies *)
(* only: one case per action.                                              *)
(***************************************************************************)
LEMMA PlainStep ==
    ASSUME PlainWaits
    PROVE  TypeInv /\ TableInv /\ PlainInv /\ [Next]_vars => PlainInv'
  <1> SUFFICES ASSUME TypeInv, TableInv, PlainInv, [Next]_vars PROVE PlainInv'
    OBVIOUS
  <1>0. opt \in [Procs -> SUBSET WaitFlags]
    BY DEF TypeInv, TypeOK
  <1> USE DEF At, Goto, procVars, locals
  <1>1. CASE UNCHANGED vars
    BY Zenon, <1>1 DEF vars, PlainInv, ParentAlive, FilesReleased, CloseOK
  <1>2. CASE scheduler
    <2>0. /\ UNCHANGED <<parent, open, pc, opt>> /\ next \in Procs
          /\ \A q \in Procs : state'[q] = state[q] \/ (state[q] \in Alive /\ state'[q] \in Alive)
      BY Zenon, <1>2, TableTypes DEF scheduler, Alive, TypeInv, TypeOK
    <2>1. ParentAlive'
      BY Zenon, <2>0, TableTypes DEF PlainInv, ParentAlive, Alive
    <2>2. FilesReleased' /\ CloseOK'
      BY <2>0 DEF PlainInv, FilesReleased, CloseOK, Alive
    <2> QED
      BY <2>0, <2>1, <2>2 DEF PlainInv
  <1>3. ASSUME NEW p \in Procs, TimerUser(p) \/ Preempt(p) PROVE PlainInv'
    <2>1. PICK l \in {"exit", "sigchk", pc[p]} : pc' = [pc EXCEPT ![p] = l]
      BY <1>3, TableTypes DEF TimerUser, Preempt, ExitKilled
    <2>2. /\ \A q \in Procs : state'[q] = state[q] \/ (state[q] \in Alive /\ state'[q] \in Alive)
          /\ cproc = p /\ UNCHANGED <<parent, open, opt>>
      BY <1>3, TableTypes DEF TimerUser, Preempt, ExitKilled, sched, Alive, TableInv, CpuOwner
    <2> QED
      BY Zenon, <2>1, <2>2, PlainMove DEF PlainInv
  <1>5. ASSUME NEW p \in Procs, Ecall(p) PROVE PlainInv'
    <2>1. PICK l \in Calls \union {"exit"} : /\ pc' = [pc EXCEPT ![p] = l]
                                             /\ l = "wait4" => opt'[p] \in WaitOptions
      BY Zenon, <1>0, <1>5 DEF Ecall, ExitKilled
    <2>2. l \notin {"waitk", "exit2"}
      BY ConstantsAssumption
    <2>3. \A q \in Procs \ {p} : opt'[q] = opt[q]
      BY Zenon, <1>0, <1>5 DEF Ecall, ExitKilled
    <2>4. cproc = p /\ UNCHANGED <<state, parent, open>>
      BY <1>5 DEF Ecall
    <2>5. l \in {"wait4", "waitk"} => opt'[p] \in WaitOptions
      BY <2>1, <2>2
    <2>6. \A q \in Procs : state'[q] = state[q] \/ (state[q] \in Alive /\ state'[q] \in Alive)
      BY <2>4
    <2>7. pc' = [pc EXCEPT ![p] = l] /\ l # "exit2"
      BY SMTT(30), <2>1, <2>2
    <2> QED
      BY Zenon, <2>3, <2>4, <2>5, <2>6, <2>7, PlainMove
  <1>6. ASSUME NEW p \in Procs, KernelStep(p) PROVE PlainInv'
    <2>0. state[p] = "RUNNING" /\ cproc = p
      BY Zenon, <1>6 DEF TableInv, CpuOwner, KernelStep, SysRet, Fault, ForkAlloc, ForkFull, ForkParent,
         ForkRunnable, ExitClose, ExitZombie, WaitReap, WaitNone, WaitSleep, KillNext, SendMark,
         SendCheck, HandleSignal, HandleClear, CheckPending, SigsuspendMark, SigsuspendSleep,
         Sigaction, Execve, Setpgid, AtWait
    <2>1. CASE SysRet(p)
      <3>1. PICK l \in {"exit", "sigchk"} : pc' = [pc EXCEPT ![p] = l]
        BY Zenon, <2>1 DEF SysRet, ExitKilled
      <3> QED
        BY Zenon, <2>0, <2>1, <3>1, PlainMove DEF SysRet, ExitKilled
    <2>2. CASE Fault(p)
      BY Zenon, <2>0, <2>2, PlainMove DEF Fault
    <2>3. CASE ForkAlloc(p)
      <3> PICK q \in Procs : /\ FirstUnused(q)
                             /\ \/ ForkCopy(p, q)
                                \/ freeproc(q) /\ Goto(p, "sysret") /\ UNCHANGED <<open, locals>>
        BY <2>3 DEF ForkAlloc
      <3>1. state[q] = "UNUSED"
        BY DEF FirstUnused
      <3>2. CASE ForkCopy(p, q)
        <4>0. /\ state' = [state EXCEPT ![q] = "USED"] /\ open' = [open EXCEPT ![q] = TRUE]
              /\ pc' = [pc EXCEPT ![p] = "fork1", ![q] = "user"]
              /\ opt' = [opt EXCEPT ![q] = {}] /\ UNCHANGED parent
          BY <3>2 DEF ForkCopy
        <4>1. ParentAlive'
          BY Zenon, <3>1, <4>0, TableTypes DEF PlainInv, ParentAlive, Alive
        <4>2. FilesReleased' /\ CloseOK'
          BY Zenon, <4>0, TableTypes DEF PlainInv, FilesReleased, CloseOK, Alive, TypeInv, TypeOK
        <4>3. (\A r \in Procs : pc[r] \in {"wait4", "waitk"} => opt[r] \in WaitOptions)'
          BY <1>0, <4>0, TableTypes DEF PlainInv
        <4> QED
          BY <4>1, <4>2, <4>3 DEF PlainInv
      <3>3. CASE freeproc(q) /\ Goto(p, "sysret") /\ UNCHANGED <<open, locals>>
        BY Zenon, <2>0, <3>1, <3>3, PlainFree
      <3> QED
        BY <3>2, <3>3
    <2>4. CASE ForkFull(p)
      BY Zenon, <2>0, <2>4, PlainMove DEF ForkFull
    <2>5. CASE ForkParent(p)
      <3>0. /\ obj[p] \in Procs /\ state[obj[p]] = "USED" /\ parent' = [parent EXCEPT ![obj[p]] = p]
            /\ pc' = [pc EXCEPT ![p] = "fork2"] /\ UNCHANGED <<state, open, opt>>
        BY <2>0, <2>5 DEF ForkParent, TableInv, ForkOK, TypeInv, LocOK, Alive
      <3>1. ParentAlive'
        BY Zenon, <3>0, TableTypes DEF PlainInv, ParentAlive, Alive
      <3>2. FilesReleased' /\ CloseOK'
        BY <3>0, TableTypes DEF PlainInv, FilesReleased, CloseOK
      <3> QED
        BY <3>0, <3>1, <3>2, TableTypes DEF PlainInv
    <2>6. CASE ForkRunnable(p)
      <3>0. /\ obj[p] \in Procs /\ state[obj[p]] = "USED" /\ parent[obj[p]] = p /\ pc[obj[p]] = "user"
            /\ obj[p] # p /\ state' = [state EXCEPT ![obj[p]] = "RUNNABLE"]
            /\ pc' = [pc EXCEPT ![p] = "sysret"] /\ UNCHANGED <<parent, open>>
            /\ \A r \in Procs \ {p} : opt'[r] = opt[r]
        BY <1>0, <2>0, <2>6 DEF ForkRunnable, Drop, TableInv, ForkOK, TypeInv, LocOK, Alive
      <3>1. ParentAlive'
        BY <2>0, <3>0, TableTypes DEF PlainInv, ParentAlive, Alive
      <3>2. FilesReleased' /\ CloseOK'
        BY <2>0, <3>0, TableTypes DEF PlainInv, FilesReleased, CloseOK, Alive
      <3> QED
        BY <3>0, <3>1, <3>2, TableTypes DEF PlainInv
    <2>7. CASE ExitClose(p)
      <3>0. /\ open' = [open EXCEPT ![p] = FALSE] /\ pc' = [pc EXCEPT ![p] = "exit2"]
            /\ UNCHANGED <<state, parent, opt>> /\ open \in [Procs -> BOOLEAN]
        BY <2>7 DEF ExitClose, TypeInv, TypeOK
      <3>1. ParentAlive'
        BY <3>0 DEF PlainInv, ParentAlive
      <3>2. FilesReleased' /\ CloseOK'
        BY <3>0, TableTypes DEF PlainInv, FilesReleased, CloseOK
      <3> QED
        BY <3>0, <3>1, <3>2, TableTypes DEF PlainInv
    <2>8. CASE ExitZombie(p)
      <3> DEFINE woken == ExitWakes(p)
      <3>0. /\ parent' = [q \in Procs |-> IF parent[q] = p THEN initproc ELSE parent[q]]
            /\ state' = [wakeup(p, woken, state) EXCEPT ![p] = "ZOMBIE"]
            /\ pc[p] = "exit2" /\ UNCHANGED <<open, pc, opt>>
        BY Zenon, <2>8 DEF ExitZombie, reparent, sched
      <3>1. /\ state'[p] = "ZOMBIE"
            /\ \A q \in Procs \ {p} : state'[q] = state[q] \/ (state[q] \in Alive /\ state'[q] \in Alive)
        BY Zenon, <3>0 DEF wakeup, Alive
      <3> HIDE DEF woken
      <3>2. p # initproc /\ state[initproc] \in Alive /\ parent[p] # p
        BY <3>0, TableTypes DEF TableInv, TreeOK
      <3>3. ParentAlive'
        BY <2>0, <3>0, <3>1, <3>2, TableTypes DEF PlainInv, ParentAlive, Alive
      <3>4. FilesReleased' /\ CloseOK'
        BY <2>0, <3>0, <3>1, TableTypes DEF PlainInv, FilesReleased, CloseOK, Alive
      <3> QED
        BY Zenon, <3>0, <3>3, <3>4 DEF PlainInv
    <2>9. CASE WaitReap(p)
      <3>0. /\ AtWait(p) /\ pc' = [pc EXCEPT ![p] = "sysret"] /\ UNCHANGED open
            /\ \A r \in Procs \ {p} : opt'[r] = opt[r]
        BY <1>0, <2>9 DEF WaitReap, Drop
      <3> PICK q \in Procs :
            /\ Waitable(p, q)
            /\ IF "EFAULT" \in opt[p]
               THEN UNCHANGED <<state, chan, killed, xstate, pid, pgid, parent, pending, handler>>
               ELSE freeproc(q)
        BY Zenon, <2>9 DEF WaitReap
      <3>1. state[q] = "ZOMBIE"
        BY Zenon, <3>0, PlainReap
      <3>2. CASE "EFAULT" \in opt[p]
        BY Zenon, <2>0, <3>0, <3>2, PlainMove
      <3>3. CASE freeproc(q)
        BY Zenon, <2>0, <3>0, <3>1, <3>3, PlainFree
      <3> QED
        BY Zenon, <3>2, <3>3
    <2>10. CASE WaitNone(p)
      BY Zenon, <1>0, <2>0, <2>10, PlainMove DEF WaitNone, Drop
    <2>11. CASE WaitSleep(p)
      <3>1. opt[p] \in WaitOptions
        BY Zenon, <2>11 DEF WaitSleep, AtWait, PlainInv
      <3> QED
        BY Zenon, <2>0, <2>11, <3>1, PlainMove, TableTypes DEF WaitSleep, sleep, sched, Alive
    <2>12. CASE KillNext(p)
      <3>1. PICK l \in {"send", "sysret"} : pc' = [pc EXCEPT ![p] = l]
        BY <2>12 DEF KillNext
      <3>2. \A q \in Procs \ {p} : opt'[q] = opt[q]
        BY <1>0, <2>12 DEF KillNext, Drop
      <3> QED
        BY Zenon, <2>0, <2>12, <3>1, <3>2, PlainMove DEF KillNext
    <2>13. CASE SendMark(p)
      BY Zenon, <2>0, <2>13, PlainMove DEF SendMark
    <2>14. CASE SendCheck(p)
      <3>1. PICK l \in {"handle", "kill"} : pc' = [pc EXCEPT ![p] = l]
        BY Zenon, <2>14 DEF SendCheck
      <3> QED
        BY Zenon, <2>0, <2>14, <3>1, PlainMove DEF SendCheck
    <2>15. CASE HandleSignal(p)
      <3>0. /\ pc' = [pc EXCEPT ![p] = "hclear"] /\ obj[p] \in Procs /\ UNCHANGED <<parent, open, opt>>
        BY Zenon, <2>15 DEF HandleSignal, TypeInv, LocOK
      <3>1. \A q \in Procs : state'[q] = state[q] \/ (state[q] \in Alive /\ state'[q] \in Alive)
        <4>1. CASE state' = wakeup(p, {obj[p]}, state)
          BY <4>1, TableTypes DEF wakeup, Alive
        <4>2. CASE state' = TermState(obj[p])
          BY <3>0, <4>2, TableTypes DEF TermState, Alive
        <4>3. CASE UNCHANGED state
          BY <4>3
        <4>4. CASE sleep(p, obj[p])
          BY <2>0, <4>4, TableTypes DEF sleep, sched, Alive
        <4> QED
          BY Zenon, <2>15, <4>1, <4>2, <4>3, <4>4 DEF HandleSignal
      <3> QED
        BY Zenon, <2>0, <3>0, <3>1, PlainMove
    <2>16. CASE HandleClear(p)
      <3>1. PICK l \in {"user", "kill"} : pc' = [pc EXCEPT ![p] = l]
        BY <2>16 DEF HandleClear
      <3>2. \A q \in Procs \ {p} : opt'[q] = opt[q]
        BY <1>0, <2>16 DEF HandleClear, Drop
      <3> QED
        BY Zenon, <2>0, <2>16, <3>1, <3>2, PlainMove DEF HandleClear
    <2>17. CASE CheckPending(p)
      <3>1. PICK l \in {"user", "handle"} : pc' = [pc EXCEPT ![p] = l]
        BY <2>17 DEF CheckPending
      <3> QED
        BY Zenon, <2>0, <2>17, <3>1, PlainMove DEF CheckPending
    <2>18. CASE SigsuspendMark(p)
      BY Zenon, <2>0, <2>18, PlainMove DEF SigsuspendMark
    <2>19. CASE SigsuspendSleep(p)
      BY Zenon, <2>0, <2>19, PlainMove, TableTypes DEF SigsuspendSleep, sleep, sched, Alive
    <2>20. CASE Sigaction(p)
      BY Zenon, <2>0, <2>20, PlainMove DEF Sigaction
    <2>21. CASE Execve(p)
      BY Zenon, <2>0, <2>21, PlainMove DEF Execve
    <2>22. CASE Setpgid(p)
      BY Zenon, <2>0, <2>22, PlainMove DEF Setpgid
    <2> QED
      BY <1>6, <2>1, <2>2, <2>3, <2>4, <2>5, <2>6, <2>7, <2>8, <2>9, <2>10, <2>11, <2>12, <2>13,
         <2>14, <2>15, <2>16, <2>17, <2>18, <2>19, <2>20, <2>21, <2>22 DEF KernelStep
  <1> QED
    BY <1>1, <1>2, <1>3, <1>5, <1>6 DEF Next

(***************************************************************************)
(* The plain-options invariant holds in every reachable state.             *)
(***************************************************************************)
LEMMA PlainCorrect ==
    ASSUME PlainWaits
    PROVE  Spec => [](TypeInv /\ TableInv /\ PlainInv)
  <1>1. Init => TypeInv /\ TableInv /\ PlainInv
    BY TypeInit, TableInit, PlainInit
  <1>2. (TypeInv /\ TableInv /\ PlainInv) /\ [Next]_vars => (TypeInv /\ TableInv /\ PlainInv)'
    BY TypeStep, LocStep, TableStep, PlainStep DEF TypeInv
  <1> QED
    BY <1>1, <1>2, PTL DEF Spec

(***************************************************************************)
(* When no program passes WNOHANG or WUNTRACED to wait4(), every started or*)
(* exited process has a living parent to reap it: fork() sets np->parent   *)
(* before np runs and exit() reparents under wait_lock.                    *)
(***************************************************************************)
THEOREM ParentAliveHolds ==
    ASSUME PlainWaits
    PROVE  Spec => []ParentAlive
  <1>1. TypeInv /\ TableInv /\ PlainInv => ParentAlive
    BY DEF PlainInv
  <1> QED
    BY <1>1, PlainCorrect, PTL

(***************************************************************************)
(* Under the same condition no zombie and no free slot holds a reference to*)
(* a file or a directory: exit() closes them before it becomes a zombie.   *)
(***************************************************************************)
THEOREM FilesReleasedHolds ==
    ASSUME PlainWaits
    PROVE  Spec => []FilesReleased
  <1>1. TypeInv /\ TableInv /\ PlainInv => FilesReleased
    BY DEF PlainInv
  <1> QED
    BY <1>1, PlainCorrect, PTL
(***************************************************************************)
(* Under the same condition no step frees a process that has not exited.   *)
(***************************************************************************)
LEMMA FreedStep ==
    ASSUME PlainWaits
    PROVE  TypeInv /\ TableInv /\ PlainInv /\ [Next]_vars => [FreesNoLive]_vars
  <1> SUFFICES ASSUME TypeInv, TableInv, PlainInv, Next PROVE FreesNoLive
    BY DEF vars
  <1> USE TableTypes DEF FreesNoLive, At, procVars
  <1>1. CASE UNCHANGED state
    BY <1>1 DEF Alive
  <1>2. CASE scheduler
    BY <1>2 DEF scheduler, Alive
  <1>3. ASSUME NEW p \in Procs, TimerUser(p) \/ Preempt(p) \/ Ecall(p) PROVE FreesNoLive
    BY <1>1, <1>3 DEF TimerUser, Preempt, Ecall, sched, Alive
  <1>4. ASSUME NEW p \in Procs, KernelStep(p), state' # state PROVE FreesNoLive
    <2>1. CASE ForkAlloc(p)
      <3> PICK q \in Procs : FirstUnused(q) /\ (ForkCopy(p, q) \/ freeproc(q))
        BY <2>1 DEF ForkAlloc
      <3> QED
        BY DEF FirstUnused, ForkCopy, freeproc, Alive
    <2>2. CASE ForkRunnable(p)
      BY <2>2 DEF ForkRunnable, Alive
    <2>3. CASE ExitZombie(p)
      BY <2>3 DEF ExitZombie, sched, wakeup, Alive
    <2>4. CASE WaitReap(p)
      <3> PICK q \in Procs : Waitable(p, q) /\ (UNCHANGED state \/ freeproc(q))
        BY <2>4 DEF WaitReap
      <3>1. state[q] = "ZOMBIE"
        BY <2>4, PlainReap DEF WaitReap
      <3> QED
        BY <1>1, <3>1 DEF freeproc, Alive
    <2>5. CASE WaitSleep(p)
      BY <2>5 DEF WaitSleep, sleep, sched, Alive
    <2>6. CASE HandleSignal(p)
      BY Zenon, <2>6 DEF HandleSignal, TermState, sleep, sched, wakeup, Alive
    <2>7. CASE SigsuspendSleep(p)
      BY <2>7 DEF SigsuspendSleep, sleep, sched, Alive
    <2> QED
      BY Zenon, <1>4, <2>1, <2>2, <2>3, <2>4, <2>5, <2>6, <2>7 DEF KernelStep, SysRet, Fault, ForkFull,
         ForkParent, ExitClose, WaitNone, KillNext, SendMark, SendCheck, HandleClear, CheckPending,
         SigsuspendMark, Sigaction, Execve, Setpgid
  <1> QED
    BY <1>1, <1>2, <1>3, <1>4 DEF Next

(***************************************************************************)
(* When no program passes WNOHANG or WUNTRACED to wait4(), a process leaves*)
(* the table only as a zombie: freeproc() never gets a process that runs,  *)
(* can run or sleeps.                                                      *)
(***************************************************************************)
THEOREM FreedAfterExitHolds ==
    ASSUME PlainWaits
    PROVE  Spec => FreedAfterExit
  <1>1. TypeInv /\ TableInv /\ PlainInv /\ [Next]_vars => [FreesNoLive]_vars
    BY FreedStep
  <1>2. Spec => [](TypeInv /\ TableInv /\ PlainInv)
    BY PlainCorrect
  <1> QED
    BY <1>1, <1>2, PTL DEF Spec, FreedAfterExit
=============================================================================
