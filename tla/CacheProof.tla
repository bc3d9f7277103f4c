----------------------------- MODULE CacheProof -----------------------------
(***************************************************************************)
(* Proofs about the buffer cache, for any number of buffers, processes and *)
(* blocks and any nesting of bread() calls.                                *)
(***************************************************************************)
EXTENDS BufferCache, TLAPS

(***************************************************************************)
(* A call in progress works on a buffer that its process holds; a process  *)
(* sleeps only in bget(); a buffer in use, or valid, has a block.          *)
(***************************************************************************)
CallOK ==
    /\ \A p \in Procs :
         /\ pc[p] \in {"fill", "bwrite", "sd_rw"} => cur[p] \in Bufs /\ holder[cur[p]] = p
         /\ pc[p] = "bget" => want[p] \in Blocks
         /\ chan[p] # Nobody => pc[p] = "bget"
    /\ \A b \in Bufs : (holder[b] # Nobody \/ valid[b]) => key[b] \in Blocks

(***************************************************************************)
(* The invariant of the locking protocol.                                  *)
(***************************************************************************)
LockInv == TypeOK /\ CallOK /\ OneBufferPerBlock /\ BusyWhileHeld /\ SleepersWait

(***************************************************************************)
(* What the card lacks is on its way there: a dirty buffer is in sd_rw(),  *)
(* and a valid one that differs from the card is in bwrite().              *)
(***************************************************************************)
WriteInv ==
    \A b \in Bufs :
        /\ dirty[b] => holder[b] # Nobody /\ pc[holder[b]] = "sd_rw" /\ cur[holder[b]] = b
        /\ valid[b] /\ data[b] # disk[key[b]] =>
              /\ holder[b] # Nobody
              /\ pc[holder[b]] \in {"bwrite", "sd_rw"} /\ cur[holder[b]] = b

(***************************************************************************)
(* binit() establishes the locking invariant.                              *)
(***************************************************************************)
LEMMA LockInit == Init => LockInv
  <1> SUFFICES ASSUME Init PROVE LockInv
    OBVIOUS
  <1>1. (CHOOSE v \in Values : TRUE) \in Values
    BY CacheAssumption
  <1>2. TypeOK
    BY <1>1, CacheAssumption DEF Init, TypeOK
  <1>3. CallOK /\ OneBufferPerBlock /\ BusyWhileHeld /\ SleepersWait
    BY CacheAssumption DEF Init, CallOK, OneBufferPerBlock, BusyWhileHeld, SleepersWait
  <1> QED
    BY <1>2, <1>3 DEF LockInv

(***************************************************************************)
(* Every step of bread(), bwrite(), brelse() and of their callers keeps    *)
(* the locking invariant, one case per action.                             *)
(***************************************************************************)
LEMMA LockStep == LockInv /\ [Next]_vars => LockInv'
  <1> SUFFICES ASSUME LockInv, [Next]_vars PROVE LockInv'
    OBVIOUS
  <1>0. TypeOK /\ CallOK /\ OneBufferPerBlock /\ BusyWhileHeld /\ SleepersWait
        /\ Nobody \notin Bufs /\ Nobody \notin Procs /\ Nobody \notin Blocks
    BY CacheAssumption DEF LockInv
  <1> USE <1>0 DEF At, Goto, flagVars
  <1>1. CASE UNCHANGED vars
    BY <1>1 DEF vars, LockInv, TypeOK, CallOK, OneBufferPerBlock, BusyWhileHeld, SleepersWait
  <1>2. ASSUME NEW p \in Procs, CallBread(p) PROVE LockInv'
    <2>1. TypeOK'
      BY <1>2 DEF CallBread, TypeOK
    <2>2. CallOK'
      BY <1>2 DEF CallBread, TypeOK, CallOK
    <2>3. OneBufferPerBlock' /\ BusyWhileHeld'
      BY <1>2 DEF CallBread, OneBufferPerBlock, BusyWhileHeld
    <2>4. SleepersWait'
      BY <1>2 DEF CallBread, TypeOK, SleepersWait
    <2> QED
      BY <2>1, <2>2, <2>3, <2>4 DEF LockInv
  <1>3. ASSUME NEW p \in Procs, BgetHit(p) PROVE LockInv'
    <2> PICK b \in Bufs : /\ key[b] = want[p] /\ ~busy[b]
                          /\ busy' = [busy EXCEPT ![b] = TRUE]
                          /\ refcnt' = [refcnt EXCEPT ![b] = @ + 1]
                          /\ holder' = [holder EXCEPT ![b] = p]
                          /\ cur' = [cur EXCEPT ![p] = b]
      BY <1>3 DEF BgetHit, Match, BgetHitFree
    <2>0. /\ pc[p] = "bget" /\ chan[p] = Nobody /\ pc' = [pc EXCEPT ![p] = "fill"]
          /\ UNCHANGED <<key, valid, dirty, pos, data, disk, want, chan, panicked>>
      BY <1>3 DEF BgetHit
    <2>1. TypeOK'
      BY <2>0 DEF TypeOK
    <2>2. CallOK'
      BY <2>0 DEF TypeOK, CallOK, BusyWhileHeld
    <2>3. OneBufferPerBlock' /\ BusyWhileHeld'
      BY <2>0 DEF TypeOK, OneBufferPerBlock, BusyWhileHeld
    <2>4. SleepersWait'
      BY <2>0 DEF TypeOK, SleepersWait
    <2> QED
      BY <2>1, <2>2, <2>3, <2>4 DEF LockInv
  <1>4. ASSUME NEW p \in Procs, BgetSleep(p) PROVE LockInv'
    <2> PICK b \in Bufs : key[b] = want[p] /\ busy[b] /\ chan' = [chan EXCEPT ![p] = b]
      BY <1>4 DEF BgetSleep, Match, BgetHitFree, TypeOK
    <2>0. /\ pc[p] = "bget" /\ chan[p] = Nobody
          /\ UNCHANGED <<key, flagVars, refcnt, pos, data, disk, holder, pc, want, cur, panicked>>
      BY <1>4 DEF BgetSleep
    <2>1. TypeOK'
      BY <2>0 DEF TypeOK
    <2>2. CallOK'
      BY <2>0 DEF TypeOK, CallOK
    <2>3. OneBufferPerBlock' /\ BusyWhileHeld'
      BY <2>0 DEF OneBufferPerBlock, BusyWhileHeld
    <2>4. SleepersWait'
      BY <2>0 DEF TypeOK, SleepersWait
    <2> QED
      BY <2>1, <2>2, <2>3, <2>4 DEF LockInv
  <1>5. ASSUME NEW p \in Procs, BgetRecycle(p) PROVE LockInv'
    <2> PICK b \in Bufs : /\ ~busy[b] /\ ~dirty[b]
                          /\ key' = [key EXCEPT ![b] = want[p]]
                          /\ busy' = [busy EXCEPT ![b] = TRUE]
                          /\ valid' = [valid EXCEPT ![b] = FALSE]
                          /\ dirty' = [dirty EXCEPT ![b] = FALSE]
                          /\ refcnt' = [refcnt EXCEPT ![b] = 1]
                          /\ holder' = [holder EXCEPT ![b] = p]
                          /\ cur' = [cur EXCEPT ![p] = b]
      BY <1>5 DEF BgetRecycle, Victim, Reusable, RecycledValid
    <2>0. /\ pc[p] = "bget" /\ chan[p] = Nobody /\ pc' = [pc EXCEPT ![p] = "fill"]
          /\ \A c \in Bufs : key[c] # want[p]
          /\ UNCHANGED <<pos, data, disk, want, chan, panicked>>
      BY <1>5 DEF BgetRecycle, Miss
    <2>1. TypeOK'
      BY <2>0 DEF TypeOK
    <2>2. CallOK'
      BY <2>0 DEF TypeOK, CallOK, BusyWhileHeld
    <2>3. OneBufferPerBlock' /\ BusyWhileHeld'
      BY <2>0 DEF TypeOK, OneBufferPerBlock, BusyWhileHeld
    <2>4. SleepersWait'
      BY <2>0 DEF TypeOK, SleepersWait
    <2> QED
      BY <2>1, <2>2, <2>3, <2>4 DEF LockInv
  <1>6. ASSUME NEW p \in Procs, BgetPanic(p) PROVE LockInv'
    BY <1>6 DEF BgetPanic, LockInv, TypeOK, CallOK, OneBufferPerBlock, BusyWhileHeld, SleepersWait
  <1>7. ASSUME NEW p \in Procs, Fill(p) \/ BwriteDisk(p) PROVE LockInv'
    <2>0. /\ pc[p] \in {"fill", "sd_rw"} /\ chan[p] = Nobody /\ pc' = [pc EXCEPT ![p] = "run"]
          /\ UNCHANGED <<key, busy, refcnt, pos, holder, want, cur, panicked>>
          /\ cur[p] \in Bufs /\ holder[cur[p]] = p /\ key[cur[p]] \in Blocks
      BY <1>7 DEF Fill, BwriteDisk, CallOK
    <2>1. CASE UNCHANGED <<data, disk, valid, dirty, chan>>
      <3>1. TypeOK' /\ CallOK'
        BY <2>0, <2>1 DEF TypeOK, CallOK
      <3>2. OneBufferPerBlock' /\ BusyWhileHeld' /\ SleepersWait'
        BY <2>0, <2>1 DEF OneBufferPerBlock, BusyWhileHeld, SleepersWait
      <3> QED
        BY <3>1, <3>2 DEF LockInv
    <2>2. CASE sd_rw(cur[p])
      <3>1. TypeOK'
        <4>1. data' \in [Bufs -> Values] /\ disk' \in [Blocks -> Values]
          <5>1. CASE dirty[cur[p]]
            BY <2>0, <2>2, <5>1 DEF TypeOK, sd_rw
          <5>2. CASE ~dirty[cur[p]]
            BY <2>0, <2>2, <5>2 DEF TypeOK, sd_rw
          <5> QED
            BY <5>1, <5>2
        <4>2. valid' \in [Bufs -> BOOLEAN] /\ dirty' \in [Bufs -> BOOLEAN]
          BY <2>2 DEF TypeOK, sd_rw
        <4>3. chan' \in [Procs -> Bufs \union {Nobody}]
          BY <2>2 DEF TypeOK, sd_rw, wakeup
        <4> QED
          BY <2>0, <4>1, <4>2, <4>3 DEF TypeOK
      <3>2. CallOK'
        BY <2>0, <2>2 DEF TypeOK, CallOK, sd_rw, wakeup
      <3>3. OneBufferPerBlock' /\ BusyWhileHeld'
        BY <2>0 DEF OneBufferPerBlock, BusyWhileHeld
      <3>4. SleepersWait'
        BY <2>0, <2>2 DEF TypeOK, SleepersWait, sd_rw, wakeup
      <3> QED
        BY <3>1, <3>2, <3>3, <3>4 DEF LockInv
    <2> QED
      BY <1>7, <2>1, <2>2 DEF Fill, BwriteDisk
  <1>8. ASSUME NEW p \in Procs, Edit(p) \/ EditOnly(p) \/ bwrite(p) PROVE LockInv'
    <2>0. UNCHANGED <<key, busy, valid, refcnt, pos, disk, holder, want, chan, panicked>>
      BY <1>8 DEF Edit, EditOnly, bwrite
    <2>1. TypeOK'
      <3>1. CASE Edit(p)
        BY <2>0, <3>1 DEF Edit, TypeOK
      <3>2. CASE EditOnly(p)
        BY <2>0, <3>2 DEF EditOnly, TypeOK
      <3>3. CASE bwrite(p)
        BY <2>0, <3>3 DEF bwrite, TypeOK
      <3> QED
        BY <1>8, <3>1, <3>2, <3>3
    <2>2. CallOK'
      BY <1>8, <2>0 DEF Edit, EditOnly, bwrite, TypeOK, CallOK
    <2>3. OneBufferPerBlock' /\ BusyWhileHeld' /\ SleepersWait'
      BY <2>0 DEF OneBufferPerBlock, BusyWhileHeld, SleepersWait
    <2> QED
      BY <2>1, <2>2, <2>3 DEF LockInv
  <1>9. ASSUME NEW p \in Procs, brelse(p) PROVE LockInv'
    <2> PICK b \in Bufs : /\ holder[b] = p /\ pos' = MovedBack(b)
                          /\ refcnt' = [refcnt EXCEPT ![b] = @ - 1]
                          /\ busy' = [busy EXCEPT ![b] = FALSE]
                          /\ holder' = [holder EXCEPT ![b] = Nobody]
                          /\ wakeup(b)
      BY <1>9 DEF brelse, RelseWakes
    <2>0. /\ pc[p] = "run" /\ chan[p] = Nobody
          /\ UNCHANGED <<key, valid, dirty, data, disk, pc, want, cur, panicked>>
      BY <1>9 DEF brelse
    <2>1. refcnt[b] = 1
      BY DEF BusyWhileHeld
    <2>2. pos' \in [Bufs -> Bufs] /\ \A c, d \in Bufs : pos'[c] = pos'[d] => c = d
      <3>1. /\ pos \in [Bufs -> 1..NBUF] /\ NBUF \in Nat /\ b \in 1..NBUF
            /\ \A c, d \in Bufs : pos[c] = pos[d] => c = d
        BY CacheAssumption DEF TypeOK, Bufs
      <3>2. \A c \in Bufs : c # b => pos[c] \in 1..NBUF /\ pos[b] \in 1..NBUF /\ pos[c] # pos[b]
        BY <3>1
      <3>3. \A c \in Bufs : c # b =>
              pos'[c] = (IF pos[c] > pos[b] THEN pos[c] - 1 ELSE pos[c]) /\ pos'[c] \in 1..(NBUF - 1)
        BY <3>1, <3>2 DEF MovedBack
      <3>4. pos'[b] = NBUF /\ DOMAIN pos' = Bufs /\ pos' = [c \in Bufs |-> pos'[c]]
        BY DEF MovedBack
      <3>5. \A c \in Bufs : pos'[c] \in 1..NBUF
        BY <3>1, <3>3, <3>4
      <3>6. \A c, d \in Bufs : pos'[c] = pos'[d] => c = d
        BY <3>1, <3>2, <3>3, <3>4
      <3> QED
        BY <3>4, <3>5, <3>6 DEF Bufs
    <2>3. TypeOK'
      <3>1. chan' \in [Procs -> Bufs \union {Nobody}]
        BY DEF TypeOK, wakeup
      <3>2. /\ refcnt' \in [Bufs -> Nat] /\ busy' \in [Bufs -> BOOLEAN]
            /\ holder' \in [Bufs -> Procs \union {Nobody}]
        BY <2>1 DEF TypeOK
      <3> QED
        BY <2>0, <2>2, <3>1, <3>2 DEF TypeOK
    <2>4. CallOK'
      BY <2>0 DEF TypeOK, CallOK, wakeup
    <2>5. OneBufferPerBlock' /\ BusyWhileHeld'
      BY <2>0, <2>1 DEF TypeOK, OneBufferPerBlock, BusyWhileHeld
    <2>6. SleepersWait'
      BY <2>0 DEF TypeOK, SleepersWait, wakeup
    <2> QED
      BY <2>3, <2>4, <2>5, <2>6 DEF LockInv
  <1> QED
    BY <1>1, <1>2, <1>3, <1>4, <1>5, <1>6, <1>7, <1>8, <1>9 DEF Next

(***************************************************************************)
(* After binit() no buffer has contents that the card lacks.               *)
(***************************************************************************)
LEMMA WriteInit == Init => WriteInv
  BY DEF Init, WriteInv

(***************************************************************************)
(* When no user of the cache releases a changed buffer without bwrite(),   *)
(* every step keeps WriteInv.                                              *)
(***************************************************************************)
LEMMA WriteStep == LockInv /\ WriteInv /\ ~Unwritten /\ [Next]_vars => WriteInv'
  <1> SUFFICES ASSUME LockInv, WriteInv, ~Unwritten, [Next]_vars PROVE WriteInv'
    OBVIOUS
  <1>0. TypeOK /\ CallOK /\ OneBufferPerBlock /\ BusyWhileHeld
        /\ Nobody \notin Bufs /\ Nobody \notin Procs /\ Nobody \notin Blocks
    BY CacheAssumption DEF LockInv
  <1> USE <1>0 DEF At, Goto, flagVars
  <1>1. CASE UNCHANGED vars
    BY <1>1 DEF vars, WriteInv
  <1>2. ASSUME NEW p \in Procs, CallBread(p) \/ BgetSleep(p) \/ BgetPanic(p) PROVE WriteInv'
    <2>1. UNCHANGED <<key, valid, dirty, data, disk, holder, cur>>
      BY <1>2 DEF CallBread, BgetSleep, BgetPanic
    <2>2. pc' = pc \/ (pc[p] = "run" /\ pc' = [pc EXCEPT ![p] = "bget"])
      BY <1>2 DEF CallBread, BgetSleep, BgetPanic
    <2> QED
      BY <2>1, <2>2 DEF WriteInv, TypeOK
  <1>3. ASSUME NEW p \in Procs, BgetHit(p) \/ BgetRecycle(p) PROVE WriteInv'
    <2> PICK b \in Bufs : /\ ~busy[b]
                          /\ holder' = [holder EXCEPT ![b] = p]
                          /\ cur' = [cur EXCEPT ![p] = b]
                          /\ \/ UNCHANGED <<key, valid, dirty>>
                             \/ /\ key' = [key EXCEPT ![b] = want[p]]
                                /\ valid' = [valid EXCEPT ![b] = FALSE]
                                /\ dirty' = [dirty EXCEPT ![b] = FALSE]
      BY <1>3 DEF BgetHit, BgetRecycle, BgetHitFree, Victim, Reusable, RecycledValid
    <2>1. pc[p] = "bget" /\ pc' = [pc EXCEPT ![p] = "fill"] /\ UNCHANGED <<data, disk>>
      BY <1>3 DEF BgetHit, BgetRecycle
    <2>2. holder[b] = Nobody
      BY DEF BusyWhileHeld
    <2>3. ~dirty[b] /\ (valid[b] => data[b] = disk[key[b]])
      BY <2>2 DEF WriteInv
    <2> QED
      BY <2>1, <2>2, <2>3 DEF WriteInv, TypeOK
  <1>4. ASSUME NEW p \in Procs, Fill(p) \/ BwriteDisk(p) PROVE WriteInv'
    <2>0. /\ pc[p] \in {"fill", "sd_rw"} /\ pc' = [pc EXCEPT ![p] = "run"]
          /\ UNCHANGED <<key, holder, cur>>
          /\ cur[p] \in Bufs /\ holder[cur[p]] = p /\ key[cur[p]] \in Blocks
          /\ pc[p] = "fill" => (valid[cur[p]] /\ UNCHANGED <<data, disk, valid, dirty>>) \/ sd_rw(cur[p])
          /\ pc[p] = "sd_rw" => sd_rw(cur[p])
      BY <1>4 DEF Fill, BwriteDisk, CallOK
    <2>1. \A b \in Bufs : b # cur[p] /\ holder[b] = p => ~dirty[b] /\ (valid[b] => data[b] = disk[key[b]])
      BY DEF WriteInv
    <2>2. pc[p] = "fill" => ~dirty[cur[p]] /\ (valid[cur[p]] => data[cur[p]] = disk[key[cur[p]]])
      BY <2>0 DEF WriteInv
    <2>3. CASE pc[p] = "fill" /\ UNCHANGED <<data, disk, valid, dirty>>
      BY <2>0, <2>1, <2>2, <2>3 DEF WriteInv, TypeOK
    <2>4. CASE sd_rw(cur[p]) /\ dirty[cur[p]]
      <3>1. /\ disk' = [disk EXCEPT ![key[cur[p]]] = data[cur[p]]] /\ data' = data
            /\ valid' = [valid EXCEPT ![cur[p]] = TRUE] /\ dirty' = [dirty EXCEPT ![cur[p]] = FALSE]
        BY <2>4 DEF sd_rw
      <3>2. \A b \in Bufs : b # cur[p] /\ valid[b] => key[b] \in Blocks /\ key[b] # key[cur[p]]
        BY <2>0 DEF CallOK, OneBufferPerBlock
      <3> QED
        BY <2>0, <2>1, <3>1, <3>2 DEF WriteInv, TypeOK
    <2>5. CASE sd_rw(cur[p]) /\ ~dirty[cur[p]]
      <3>1. /\ data' = [data EXCEPT ![cur[p]] = disk[key[cur[p]]]] /\ disk' = disk
            /\ valid' = [valid EXCEPT ![cur[p]] = TRUE] /\ dirty' = [dirty EXCEPT ![cur[p]] = FALSE]
        BY <2>5 DEF sd_rw
      <3> QED
        BY <2>0, <2>1, <3>1 DEF WriteInv, TypeOK
    <2> QED
      BY <2>0, <2>3, <2>4, <2>5
  <1>5. ASSUME NEW p \in Procs, Edit(p) PROVE WriteInv'
    <2> PICK b \in Bufs, v \in Values :
            holder[b] = p /\ data' = [data EXCEPT ![b] = v] /\ cur' = [cur EXCEPT ![p] = b]
      BY <1>5 DEF Edit
    <2>1. /\ pc[p] = "run" /\ pc' = [pc EXCEPT ![p] = "bwrite"]
          /\ UNCHANGED <<key, valid, dirty, disk, holder>>
      BY <1>5 DEF Edit
    <2> QED
      BY <2>1 DEF WriteInv, TypeOK
  <1>6. ASSUME NEW p \in Procs, EditOnly(p) PROVE WriteInv'
    BY <1>6 DEF EditOnly
  <1>7. ASSUME NEW p \in Procs, bwrite(p) PROVE WriteInv'
    <2>1. /\ pc[p] = "bwrite" /\ pc' = [pc EXCEPT ![p] = "sd_rw"]
          /\ dirty' = [dirty EXCEPT ![cur[p]] = TRUE]
          /\ UNCHANGED <<key, valid, data, disk, holder, cur>>
          /\ cur[p] \in Bufs /\ holder[cur[p]] = p
      BY <1>7 DEF bwrite, CallOK
    <2> QED
      BY <2>1 DEF WriteInv, TypeOK
  <1>8. ASSUME NEW p \in Procs, brelse(p) PROVE WriteInv'
    <2> PICK b \in Bufs : holder[b] = p /\ holder' = [holder EXCEPT ![b] = Nobody]
      BY <1>8 DEF brelse
    <2>1. pc[p] = "run" /\ UNCHANGED <<key, valid, dirty, data, disk, pc, cur>>
      BY <1>8 DEF brelse
    <2>2. ~dirty[b] /\ (valid[b] => data[b] = disk[key[b]])
      BY <2>1 DEF WriteInv
    <2> QED
      BY <2>1, <2>2 DEF WriteInv, TypeOK
  <1> QED
    BY <1>1, <1>2, <1>3, <1>4, <1>5, <1>6, <1>7, <1>8 DEF Next

(***************************************************************************)
(* bread(), bwrite() and brelse() keep the locking invariant, whatever     *)
(* the processes do with the contents of their buffers.                    *)
(***************************************************************************)
LEMMA LockInvariant == Spec => []LockInv
  BY LockInit, LockStep, PTL DEF Spec

(***************************************************************************)
(* The cache keeps its types, and its list holds every buffer once.        *)
(***************************************************************************)
THEOREM TypeCorrect == Spec => []TypeOK
  <1>1. LockInv => TypeOK
    BY DEF LockInv
  <1> QED
    BY <1>1, LockInvariant, PTL

(***************************************************************************)
(* bget() never caches a block in two buffers.                             *)
(***************************************************************************)
THEOREM OneBufferPerBlockHolds == Spec => []OneBufferPerBlock
  <1>1. LockInv => OneBufferPerBlock
    BY DEF LockInv
  <1> QED
    BY <1>1, LockInvariant, PTL

(***************************************************************************)
(* A buffer is busy exactly while one process holds it.                    *)
(***************************************************************************)
THEOREM BusyWhileHeldHolds == Spec => []BusyWhileHeld
  <1>1. LockInv => BusyWhileHeld
    BY DEF LockInv
  <1> QED
    BY <1>1, LockInvariant, PTL

(***************************************************************************)
(* A process asleep in bget() will be woken: the buffer it sleeps on still *)
(* has its block and is in use.                                            *)
(***************************************************************************)
THEOREM SleepersWaitHolds == Spec => []SleepersWait
  <1>1. LockInv => SleepersWait
    BY DEF LockInv
  <1> QED
    BY <1>1, LockInvariant, PTL

(***************************************************************************)
(* If every changed buffer is written back before brelse(), a buffer that  *)
(* bget() may recycle never has contents that the card lacks.              *)
(***************************************************************************)
THEOREM CleanMatchesDiskHolds == ASSUME ~Unwritten PROVE Spec => []CleanMatchesDisk
  <1>1. LockInv /\ WriteInv => CleanMatchesDisk
    BY DEF LockInv, BusyWhileHeld, WriteInv, CleanMatchesDisk
  <1>2. LockInv /\ WriteInv /\ [Next]_vars => WriteInv'
    BY WriteStep
  <1> QED
    BY <1>1, <1>2, WriteInit, LockInvariant, PTL DEF Spec

-----------------------------------------------------------------------------
(* The cache implements an array of blocks with one user each. *)

(***************************************************************************)
(* What the refinement mapping shows of a cached block, and of a block that*)
(* is only on the card.                                                    *)
(***************************************************************************)
View ==
    /\ Content = [k \in Blocks |-> Content[k]] /\ User = [k \in Blocks |-> User[k]]
    /\ \A b \in Bufs : key[b] \in Blocks =>
          /\ User[key[b]] = holder[b]
          /\ Content[key[b]] = IF valid[b] THEN data[b] ELSE disk[key[b]]
    /\ \A k \in Blocks : (\A b \in Bufs : key[b] # k) => User[k] = Nobody /\ Content[k] = disk[k]

(***************************************************************************)
(* As a block has at most one buffer, the mapping shows that buffer.       *)
(***************************************************************************)
LEMMA ViewHolds == LockInv => View
  <1> SUFFICES ASSUME LockInv PROVE View
    OBVIOUS
  <1>0. OneBufferPerBlock /\ Nobody \notin Blocks
    BY CacheAssumption DEF LockInv
  <1>1. Content = [k \in Blocks |-> Content[k]] /\ User = [k \in Blocks |-> User[k]]
    BY DEF Content, User
  <1>2. ASSUME NEW b \in Bufs, key[b] \in Blocks
        PROVE  /\ User[key[b]] = holder[b]
               /\ Content[key[b]] = IF valid[b] THEN data[b] ELSE disk[key[b]]
    <2>1. Cached(key[b]) = {b}
      BY <1>0, <1>2 DEF Cached, OneBufferPerBlock
    <2>2. User[key[b]] = holder[b]
      BY <1>2, <2>1 DEF User
    <2>3. Content[key[b]] = IF \E c \in {b} : valid[c]
                            THEN data[CHOOSE c \in {b} : valid[c]] ELSE disk[key[b]]
      BY <1>2, <2>1 DEF Content
    <2> QED
      BY <2>2, <2>3
  <1>3. ASSUME NEW k \in Blocks, \A b \in Bufs : key[b] # k
        PROVE  User[k] = Nobody /\ Content[k] = disk[k]
    <2>1. Cached(k) = {}
      BY <1>3 DEF Cached
    <2> QED
      BY <2>1 DEF User, Content
  <1> QED
    BY <1>1, <1>2, <1>3 DEF View

(***************************************************************************)
(* A step that leaves the view of every block alone leaves the mapped      *)
(* state alone: an sd_rw() that reads a block, for one.                    *)
(***************************************************************************)
LEMMA SameMaps ==
    ASSUME View, View', \A k \in Blocks : Content'[k] = Content[k] /\ User'[k] = User[k]
    PROVE  Content' = Content /\ User' = User
  BY DEF View

(***************************************************************************)
(* Every step of the cache is a step of the abstract store or changes      *)
(* nothing in it: BgetHit and BgetRecycle are Get, an edit and its         *)
(* bwrite() are Change, brelse() is Put.                                   *)
(***************************************************************************)
LEMMA StoreStep ==
    LockInv /\ LockInv' /\ WriteInv /\ ~Unwritten /\ [Next]_vars
      => [store!StoreNext]_(store!storeVars)
  <1> SUFFICES ASSUME LockInv, LockInv', WriteInv, ~Unwritten, [Next]_vars
               PROVE  store!StoreNext \/ (Content' = Content /\ User' = User)
    BY DEF store!storeVars
  <1>0. TypeOK /\ CallOK /\ OneBufferPerBlock /\ BusyWhileHeld
        /\ Nobody \notin Bufs /\ Nobody \notin Procs /\ Nobody \notin Blocks
    BY CacheAssumption DEF LockInv
  <1>00. View /\ View'
    BY ViewHolds, PTL
  <1> USE <1>0, <1>00 DEF At, Goto, flagVars
  <1>1. CASE UNCHANGED <<key, valid, data, disk, holder>>
    BY <1>1 DEF Content, User, Cached
  <1>2. ASSUME NEW p \in Procs, BgetHit(p) PROVE store!StoreNext
    <2> PICK b \in Bufs : /\ key[b] = want[p] /\ ~busy[b]
                          /\ holder' = [holder EXCEPT ![b] = p]
      BY <1>2 DEF BgetHit, Match, BgetHitFree
    <2> DEFINE k == key[b]
    <2>1. k \in Blocks /\ holder[b] = Nobody /\ UNCHANGED <<key, valid, data, disk>>
      BY <1>2 DEF BgetHit, CallOK, BusyWhileHeld
    <2>2. User[k] = Nobody /\ User'[k] = p
      BY <2>1 DEF View, TypeOK
    <2>3. \A l \in Blocks : Content'[l] = Content[l] /\ (l # k => User'[l] = User[l])
      <3>1. ASSUME NEW c \in Bufs, key[c] \in Blocks
            PROVE  /\ Content'[key[c]] = Content[key[c]]
                   /\ c # b => User'[key[c]] = User[key[c]]
        BY <2>1, <3>1 DEF View, TypeOK
      <3>2. ASSUME NEW l \in Blocks, \A c \in Bufs : key[c] # l
            PROVE  Content'[l] = Content[l] /\ User'[l] = User[l]
        BY <2>1, <3>2 DEF View
      <3> QED
        BY <3>1, <3>2
    <2>4. Content' = Content /\ User' = [User EXCEPT ![k] = p]
      BY <2>1, <2>2, <2>3 DEF View
    <2>5. store!Get(p, k)
      BY <2>2, <2>4 DEF store!Get
    <2> QED
      BY <2>1, <2>5 DEF store!StoreNext
  <1>3. ASSUME NEW p \in Procs, BgetRecycle(p) PROVE store!StoreNext
    <2> PICK b \in Bufs : /\ ~busy[b]
                          /\ key' = [key EXCEPT ![b] = want[p]]
                          /\ valid' = [valid EXCEPT ![b] = FALSE]
                          /\ holder' = [holder EXCEPT ![b] = p]
      BY <1>3 DEF BgetRecycle, Victim, Reusable, RecycledValid
    <2> DEFINE k == want[p]
    <2>1. /\ k \in Blocks /\ holder[b] = Nobody /\ UNCHANGED <<data, disk>>
          /\ \A c \in Bufs : key[c] # k
      BY <1>3 DEF BgetRecycle, Miss, CallOK, BusyWhileHeld
    <2>2. User[k] = Nobody /\ User'[k] = p /\ Content'[k] = Content[k]
      <3>1. key'[b] = k /\ ~valid'[b] /\ holder'[b] = p
        BY DEF TypeOK
      <3>2. User[k] = Nobody /\ Content[k] = disk[k]
        BY <2>1 DEF View
      <3>3. User'[k] = p /\ Content'[k] = disk'[k]
        BY <2>1, <3>1 DEF View
      <3> QED
        BY <2>1, <3>2, <3>3
    <2>3. ASSUME NEW l \in Blocks, l # k PROVE Content'[l] = Content[l] /\ User'[l] = User[l]
      <3>1. CASE l = key[b]
        <4>1. \A c \in Bufs : key'[c] # l
          BY <2>1, <2>3, <3>1 DEF TypeOK, OneBufferPerBlock
        <4>2. valid[b] => data[b] = disk[key[b]]
          BY <2>1 DEF WriteInv
        <4> QED
          BY <2>1, <3>1, <4>1, <4>2 DEF View
      <3>2. CASE l # key[b] /\ \E c \in Bufs : key[c] = l
        BY <2>1, <2>3, <3>2 DEF View, TypeOK
      <3>3. CASE \A c \in Bufs : key[c] # l
        BY <2>1, <2>3, <3>3 DEF View, TypeOK
      <3> QED
        BY <3>1, <3>2, <3>3
    <2>4. Content' = Content /\ User' = [User EXCEPT ![k] = p]
      BY <2>1, <2>2, <2>3 DEF View
    <2>5. store!Get(p, k)
      BY <2>2, <2>4 DEF store!Get
    <2> QED
      BY <2>1, <2>5 DEF store!StoreNext
  <1>4. ASSUME NEW p \in Procs, Fill(p), ~UNCHANGED <<key, valid, data, disk, holder>>
        PROVE  Content' = Content /\ User' = User
    <2>1. /\ cur[p] \in Bufs /\ key[cur[p]] \in Blocks /\ ~valid[cur[p]] /\ sd_rw(cur[p])
          /\ UNCHANGED <<key, holder>> /\ holder[cur[p]] = p /\ pc[p] = "fill"
      BY <1>4 DEF Fill, CallOK
    <2>2. ~dirty[cur[p]]
      BY <2>1 DEF WriteInv
    <2>3. /\ data' = [data EXCEPT ![cur[p]] = disk[key[cur[p]]]] /\ disk' = disk
          /\ valid' = [valid EXCEPT ![cur[p]] = TRUE]
      BY <2>1, <2>2 DEF sd_rw
    <2>4. \A l \in Blocks : Content'[l] = Content[l] /\ User'[l] = User[l]
      BY <2>1, <2>3 DEF View, TypeOK
    <2> QED
      BY <2>4, SameMaps
  <1>5. ASSUME NEW p \in Procs, Edit(p) PROVE store!StoreNext \/ (Content' = Content /\ User' = User)
    <2> PICK b \in Bufs, v \in Values : holder[b] = p /\ data' = [data EXCEPT ![b] = v]
      BY <1>5 DEF Edit
    <2> DEFINE k == key[b]
    <2>1. k \in Blocks /\ User[k] = p /\ UNCHANGED <<key, valid, disk, holder>>
      BY <1>5 DEF Edit, CallOK, View
    <2>2. \A l \in Blocks : User'[l] = User[l] /\ (l # k => Content'[l] = Content[l])
      BY <2>1 DEF View, TypeOK
    <2>3. Content'[k] = v \/ Content'[k] = Content[k]
      BY <2>1 DEF View, TypeOK
    <2>4. User' = User
      BY <2>2 DEF View
    <2>5. CASE Content'[k] = v
      <3>1. Content' = [Content EXCEPT ![k] = v]
        BY <2>1, <2>2, <2>5 DEF View
      <3>2. store!Change(p, k)
        BY <2>1, <2>4, <3>1 DEF store!Change
      <3> QED
        BY <2>1, <3>2 DEF store!StoreNext
    <2>6. CASE Content'[k] = Content[k]
      BY <2>2, <2>6, SameMaps
    <2> QED
      BY <2>3, <2>5, <2>6
  <1>6. ASSUME NEW p \in Procs, BwriteDisk(p)
        PROVE  store!StoreNext \/ (Content' = Content /\ User' = User)
    <2> DEFINE k == key[cur[p]]
    <2>1. /\ cur[p] \in Bufs /\ k \in Blocks /\ User[k] = p /\ sd_rw(cur[p])
          /\ UNCHANGED <<key, holder>>
      BY <1>6 DEF BwriteDisk, CallOK, View
    <2>2. /\ valid' = [valid EXCEPT ![cur[p]] = TRUE]
          /\ \/ disk' = [disk EXCEPT ![k] = data[cur[p]]] /\ data' = data
             \/ data' = [data EXCEPT ![cur[p]] = disk[k]] /\ disk' = disk
      BY <2>1 DEF sd_rw
    <2>3. \A l \in Blocks : User'[l] = User[l] /\ (l # k => Content'[l] = Content[l])
      <3>1. ASSUME NEW c \in Bufs, key[c] \in Blocks
            PROVE  /\ User'[key[c]] = User[key[c]]
                   /\ c # cur[p] => Content'[key[c]] = Content[key[c]]
        <4>1. c # cur[p] => key[c] # k /\ valid'[c] = valid[c] /\ data'[c] = data[c]
          BY <2>1, <2>2, <3>1 DEF TypeOK, OneBufferPerBlock
        <4>2. c # cur[p] => disk'[key[c]] = disk[key[c]]
          BY <2>1, <2>2, <3>1, <4>1 DEF TypeOK
        <4> QED
          BY <2>1, <3>1, <4>1, <4>2 DEF View
      <3>2. ASSUME NEW l \in Blocks, \A c \in Bufs : key[c] # l
            PROVE  User'[l] = User[l] /\ Content'[l] = Content[l]
        <4>1. disk'[l] = disk[l]
          BY <2>1, <2>2, <3>2 DEF TypeOK
        <4> QED
          BY <2>1, <3>2, <4>1 DEF View
      <3> QED
        BY <3>1, <3>2
    <2>4. PICK v \in Values : Content'[k] = v
      BY <2>1, <2>2 DEF View, TypeOK
    <2>5. User' = User /\ Content' = [Content EXCEPT ![k] = v]
      BY <2>1, <2>3, <2>4 DEF View
    <2>6. store!Change(p, k)
      BY <2>1, <2>5 DEF store!Change
    <2> QED
      BY <2>1, <2>6 DEF store!StoreNext
  <1>7. ASSUME NEW p \in Procs, brelse(p) PROVE store!StoreNext
    <2> PICK b \in Bufs : holder[b] = p /\ holder' = [holder EXCEPT ![b] = Nobody]
      BY <1>7 DEF brelse
    <2> DEFINE k == key[b]
    <2>1. k \in Blocks /\ UNCHANGED <<key, valid, data, disk>>
      BY <1>7 DEF brelse, CallOK
    <2>2. User[k] = p /\ User'[k] = Nobody
      BY <2>1 DEF View, TypeOK
    <2>3. \A l \in Blocks : Content'[l] = Content[l] /\ (l # k => User'[l] = User[l])
      BY <2>1 DEF View, TypeOK
    <2>4. Content' = Content /\ User' = [User EXCEPT ![k] = Nobody]
      BY <2>1, <2>2, <2>3 DEF View
    <2>5. store!Put(p, k)
      BY <2>2, <2>4 DEF store!Put
    <2> QED
      BY <2>1, <2>5 DEF store!StoreNext
  <1>8. ASSUME NEW p \in Procs, CallBread(p) \/ BgetSleep(p) \/ BgetPanic(p) \/ EditOnly(p) \/ bwrite(p)
        PROVE  UNCHANGED <<key, valid, data, disk, holder>>
    BY <1>8 DEF CallBread, BgetSleep, BgetPanic, EditOnly, bwrite
  <1>9. UNCHANGED vars => UNCHANGED <<key, valid, data, disk, holder>>
    BY DEF vars
  <1> QED
    BY <1>1, <1>2, <1>3, <1>4, <1>5, <1>6, <1>7, <1>8, <1>9 DEF Next

(***************************************************************************)
(* If every changed buffer is written back before brelse(), bread() and    *)
(* brelse() give each process the block it asked for, alone, with the      *)
(* contents its last user left, however buffers are shared and recycled.   *)
(***************************************************************************)
THEOREM CacheImplementsStore == ASSUME ~Unwritten PROVE Spec => ImplementsStore
  <1>1. Init => store!StoreInit
    <2> SUFFICES ASSUME Init PROVE store!StoreInit
      OBVIOUS
    <2>1. \A k \in Blocks : Cached(k) = {}
      BY CacheAssumption DEF Init, Cached
    <2>2. Content = [k \in Blocks |-> disk[k]] /\ User = [k \in Blocks |-> Nobody]
      BY <2>1 DEF Content, User
    <2> QED
      BY <2>2 DEF Init, store!StoreInit
  <1>2. LockInv /\ LockInv' /\ WriteInv /\ [Next]_vars => [store!StoreNext]_(store!storeVars)
    BY StoreStep
  <1>3. LockInv /\ WriteInv /\ [Next]_vars => WriteInv'
    BY WriteStep
  <1> QED
    BY <1>1, <1>2, <1>3, WriteInit, LockInvariant, PTL DEF Spec, ImplementsStore, store!StoreSpec
=============================================================================
