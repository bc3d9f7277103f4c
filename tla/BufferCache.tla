---------------------------- MODULE BufferCache ----------------------------
(***************************************************************************)
(* The buffer cache, kernel/bio.c, with the SD card driver's request       *)
(* routine sd_rw() of kernel/sd.c.  A process gets a buffer with bread(),  *)
(* may change it and write it back with bwrite(), and lets go of it with   *)
(* brelse(); it may hold one buffer while it gets another, as bmap() and   *)
(* itrunc() (kernel/fs.c) do.  A stretch of code under bcache.lock or      *)
(* sdlock is one step.                                                     *)
(*                                                                         *)
(* The cache list is the ranking pos of the buffers, 1 at the head.        *)
(***************************************************************************)
EXTENDS Naturals, FiniteSets

CONSTANTS
    Procs, NBUF, Blocks, Values,
    Nested,      \* pairs <<k, l>>: a process that holds block k may get block l
    Unwritten,   \* whether a process may release what it changed without bwrite()
    Nobody       \* no process, no buffer, no block

Bufs == 1..NBUF

ASSUME CacheAssumption ==
    /\ NBUF \in Nat /\ Unwritten \in BOOLEAN /\ Values # {}
    /\ Nobody \notin Procs /\ Nobody \notin Blocks /\ Nobody \notin Bufs

VARIABLES
    key,                     \* b->dev and b->blockno
    busy, valid, dirty,      \* B_BUSY, B_VALID, B_DIRTY
    refcnt, pos, data,
    disk,                    \* the blocks on the card
    holder,                  \* the process that got the buffer from bread()
    pc, want, cur, chan,     \* the call a process is in, its block and buffer,
                             \* and the buffer it sleeps on
    panicked

flagVars == <<busy, valid, dirty>>
vars == <<key, flagVars, refcnt, pos, data, disk, holder, pc, want, cur, chan, panicked>>

(***************************************************************************)
(* binit(): no buffer has been used.                                       *)
(***************************************************************************)
Init ==
    /\ key = [b \in Bufs |-> Nobody]
    /\ busy = [b \in Bufs |-> FALSE] /\ valid = [b \in Bufs |-> FALSE]
    /\ dirty = [b \in Bufs |-> FALSE] /\ refcnt = [b \in Bufs |-> 0]
    /\ pos = [b \in Bufs |-> b]
    /\ data = [b \in Bufs |-> CHOOSE v \in Values : TRUE]
    /\ disk \in [Blocks -> Values]
    /\ holder = [b \in Bufs |-> Nobody]
    /\ pc = [p \in Procs |-> "run"]
    /\ want = [p \in Procs |-> Nobody] /\ cur = [p \in Procs |-> Nobody]
    /\ chan = [p \in Procs |-> Nobody]
    /\ panicked = FALSE

At(p, label) == pc[p] = label /\ chan[p] = Nobody /\ ~panicked
Goto(p, label) == pc' = [pc EXCEPT ![p] = label]
wakeup(b) == chan' = [p \in Procs |-> IF chan[p] = b THEN Nobody ELSE chan[p]]

-----------------------------------------------------------------------------
(* bread() *)

CallBread(p) ==
    /\ At(p, "run")
    /\ \E k \in Blocks :
         /\ \A b \in Bufs : holder[b] = p => <<key[b], k>> \in Nested
         /\ want' = [want EXCEPT ![p] = k]
    /\ Goto(p, "bget")
    /\ UNCHANGED <<key, flagVars, refcnt, pos, data, disk, holder, cur, chan, panicked>>

(***************************************************************************)
(* bget(): the first buffer of the list with the wanted block, if any.     *)
(***************************************************************************)
Match(p, b) == key[b] = want[p] /\ \A c \in Bufs : key[c] = want[p] => pos[b] <= pos[c]

BgetHitFree(p, b) == ~busy[b]

BgetHit(p) ==
    /\ At(p, "bget")
    /\ \E b \in Bufs :
         /\ Match(p, b) /\ BgetHitFree(p, b)
         /\ busy' = [busy EXCEPT ![b] = TRUE]
         /\ refcnt' = [refcnt EXCEPT ![b] = @ + 1]
         /\ holder' = [holder EXCEPT ![b] = p]
         /\ cur' = [cur EXCEPT ![p] = b]
    /\ Goto(p, "fill")
    /\ UNCHANGED <<key, valid, dirty, pos, data, disk, want, chan, panicked>>

BgetSleep(p) ==
    /\ At(p, "bget")
    /\ \E b \in Bufs :
         /\ Match(p, b) /\ ~BgetHitFree(p, b)
         /\ chan' = [chan EXCEPT ![p] = b]
    /\ UNCHANGED <<key, flagVars, refcnt, pos, data, disk, holder, pc, want, cur, panicked>>

\* A wrong version for comparison: a busy buffer is not a hit.
MissIdle(p) == \A b \in Bufs : key[b] = want[p] => busy[b]
Miss(p) == \A b \in Bufs : key[b] # want[p]

(***************************************************************************)
(* ... else the last buffer of the list that is neither busy nor dirty.    *)
(***************************************************************************)
Reusable(b) == ~busy[b] /\ ~dirty[b]
Victim(b) == Reusable(b) /\ \A c \in Bufs : Reusable(c) => pos[c] <= pos[b]

\* A wrong version for comparison: the old contents count as read.
RecycleValid(b) == valid
RecycledValid(b) == [valid EXCEPT ![b] = FALSE]

BgetRecycle(p) ==
    /\ At(p, "bget") /\ Miss(p)
    /\ \E b \in Bufs :
         /\ Victim(b)
         /\ key' = [key EXCEPT ![b] = want[p]]
         /\ busy' = [busy EXCEPT ![b] = TRUE]
         /\ valid' = RecycledValid(b)
         /\ dirty' = [dirty EXCEPT ![b] = FALSE]
         /\ refcnt' = [refcnt EXCEPT ![b] = 1]
         /\ holder' = [holder EXCEPT ![b] = p]
         /\ cur' = [cur EXCEPT ![p] = b]
    /\ Goto(p, "fill")
    /\ UNCHANGED <<pos, data, disk, want, chan, panicked>>

BgetPanic(p) ==
    /\ At(p, "bget") /\ Miss(p)
    /\ \A b \in Bufs : ~Reusable(b)
    /\ panicked' = TRUE
    /\ UNCHANGED <<key, flagVars, refcnt, pos, data, disk, holder, pc, want, cur, chan>>

(***************************************************************************)
(* sd_rw(b).  It runs under sdlock from end to end: the request is alone in*)
(* sdque, sd_start() serves it at once, and the wait loop does not sleep.  *)
(***************************************************************************)
sd_rw(b) ==
    /\ IF dirty[b]
       THEN disk' = [disk EXCEPT ![key[b]] = data[b]] /\ UNCHANGED data
       ELSE data' = [data EXCEPT ![b] = disk[key[b]]] /\ UNCHANGED disk
    /\ valid' = [valid EXCEPT ![b] = TRUE]
    /\ dirty' = [dirty EXCEPT ![b] = FALSE]
    /\ wakeup(b)

(***************************************************************************)
(* The end of bread(): a buffer that is not valid is read from the card.   *)
(***************************************************************************)
Fill(p) ==
    /\ At(p, "fill")
    /\ IF valid[cur[p]] THEN UNCHANGED <<data, disk, valid, dirty, chan>> ELSE sd_rw(cur[p])
    /\ Goto(p, "run")
    /\ UNCHANGED <<key, busy, refcnt, pos, holder, want, cur, panicked>>

-----------------------------------------------------------------------------
(* Users of a buffer, bwrite() and brelse() *)

(***************************************************************************)
(* The holder changes the contents and goes on to bwrite().                *)
(***************************************************************************)
Edit(p) ==
    /\ At(p, "run")
    /\ \E b \in Bufs, v \in Values :
         /\ holder[b] = p
         /\ data' = [data EXCEPT ![b] = v] /\ cur' = [cur EXCEPT ![p] = b]
    /\ Goto(p, "bwrite")
    /\ UNCHANGED <<key, flagVars, refcnt, pos, disk, holder, want, chan, panicked>>

(***************************************************************************)
(* writei() after a copyin() that failed half way, and itrunc(): the buffer*)
(* is changed and then released without bwrite().                          *)
(***************************************************************************)
EditOnly(p) ==
    /\ Unwritten /\ At(p, "run")
    /\ \E b \in Bufs, v \in Values : holder[b] = p /\ data' = [data EXCEPT ![b] = v]
    /\ UNCHANGED <<key, flagVars, refcnt, pos, disk, holder, pc, want, cur, chan, panicked>>

bwrite(p) ==
    /\ At(p, "bwrite")
    /\ dirty' = [dirty EXCEPT ![cur[p]] = TRUE]
    /\ Goto(p, "sd_rw")
    /\ UNCHANGED <<key, busy, valid, refcnt, pos, data, disk, holder, want, cur, chan, panicked>>

BwriteDisk(p) ==
    /\ At(p, "sd_rw")
    /\ sd_rw(cur[p])
    /\ Goto(p, "run")
    /\ UNCHANGED <<key, busy, refcnt, pos, holder, want, cur, panicked>>

(***************************************************************************)
(* brelse(b): list_drop(), then list_push_back().                          *)
(***************************************************************************)
MovedBack(b) ==
    [c \in Bufs |-> IF c = b THEN NBUF ELSE IF pos[c] > pos[b] THEN pos[c] - 1 ELSE pos[c]]

\* A wrong version for comparison: nobody is woken.
RelseSilent(b) == UNCHANGED chan
RelseWakes(b) == wakeup(b)

brelse(p) ==
    /\ At(p, "run")
    /\ \E b \in Bufs :
         /\ holder[b] = p
         /\ pos' = MovedBack(b)
         /\ refcnt' = [refcnt EXCEPT ![b] = @ - 1]
         /\ busy' = [busy EXCEPT ![b] = FALSE]
         /\ holder' = [holder EXCEPT ![b] = Nobody]
         /\ RelseWakes(b)
    /\ UNCHANGED <<key, valid, dirty, data, disk, pc, want, cur, panicked>>

Next ==
    \E p \in Procs :
        \/ CallBread(p) \/ BgetHit(p) \/ BgetSleep(p) \/ BgetRecycle(p) \/ BgetPanic(p) \/ Fill(p)
        \/ Edit(p) \/ EditOnly(p) \/ bwrite(p) \/ BwriteDisk(p) \/ brelse(p)

Spec == Init /\ [][Next]_vars

-----------------------------------------------------------------------------
(* Properties *)

(***************************************************************************)
(* Types; the cache list holds every buffer once.                          *)
(***************************************************************************)
TypeOK ==
    /\ key \in [Bufs -> Blocks \union {Nobody}]
    /\ busy \in [Bufs -> BOOLEAN] /\ valid \in [Bufs -> BOOLEAN] /\ dirty \in [Bufs -> BOOLEAN]
    /\ refcnt \in [Bufs -> Nat]
    /\ pos \in [Bufs -> Bufs] /\ \A b, c \in Bufs : pos[b] = pos[c] => b = c
    /\ data \in [Bufs -> Values] /\ disk \in [Blocks -> Values]
    /\ holder \in [Bufs -> Procs \union {Nobody}]
    /\ pc \in [Procs -> {"run", "bget", "fill", "bwrite", "sd_rw"}]
    /\ want \in [Procs -> Blocks \union {Nobody}]
    /\ cur \in [Procs -> Bufs \union {Nobody}] /\ chan \in [Procs -> Bufs \union {Nobody}]
    /\ panicked \in BOOLEAN

(***************************************************************************)
(* bget() never caches a block twice, although it lets go of bcache.lock   *)
(* while it sleeps and buffers are recycled in between.                    *)
(***************************************************************************)
OneBufferPerBlock == \A b, c \in Bufs : key[b] # Nobody /\ key[b] = key[c] => b = c

(***************************************************************************)
(* A buffer is B_BUSY exactly while one process uses it, and refcnt agrees.*)
(***************************************************************************)
BusyWhileHeld ==
    \A b \in Bufs :
        /\ busy[b] <=> holder[b] # Nobody
        /\ refcnt[b] = IF busy[b] THEN 1 ELSE 0

(***************************************************************************)
(* A buffer nobody uses can be dropped without loss: it is not dirty, and  *)
(* if it is valid the card has the same contents.                          *)
(***************************************************************************)
CleanMatchesDisk ==
    \A b \in Bufs : ~busy[b] => ~dirty[b] /\ (valid[b] => data[b] = disk[key[b]])

(***************************************************************************)
(* No wakeup is lost: a process asleep in bget() sleeps on the buffer that *)
(* has its block, and that buffer is in use, so its brelse() is to come.   *)
(***************************************************************************)
SleepersWait ==
    \A p \in Procs : chan[p] # Nobody => busy[chan[p]] /\ key[chan[p]] = want[p]

(***************************************************************************)
(* Nested bread()s do not lock up: when processes sleep on buffers, one    *)
(* that holds a buffer can run.                                            *)
(***************************************************************************)
SomeHolderRuns ==
    (\E p \in Procs : chan[p] # Nobody) =>
        \E b \in Bufs : holder[b] # Nobody /\ chan[holder[b]] = Nobody

(***************************************************************************)
(* The cache implements an array of blocks with one user each: contents    *)
(* change only by the hand of the user, never by reading, recycling or     *)
(* writing back.                                                           *)
(***************************************************************************)
Cached(k) == {b \in Bufs : key[b] = k}
Content == [k \in Blocks |-> IF \E b \in Cached(k) : valid[b]
                             THEN data[CHOOSE b \in Cached(k) : valid[b]] ELSE disk[k]]
User == [k \in Blocks |-> IF Cached(k) = {} THEN Nobody
                          ELSE holder[CHOOSE b \in Cached(k) : TRUE]]
store == INSTANCE BlockStore WITH content <- Content, user <- User
ImplementsStore == store!StoreSpec
=============================================================================
