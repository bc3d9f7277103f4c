-------------------------------- MODULE Pipe --------------------------------
(***************************************************************************)
(* One pipe of kernel/pipe.c and the two struct files at its ends          *)
(* (kernel/file.c): write, read, close, dup by fork(), and signals that hit*)
(* a blocked process.  A stretch of code under pi->lock or ftable.lock runs*)
(* with interrupts off on the only hart and is one step.                   *)
(*                                                                         *)
(* The counters nread and nwrite are unsigned: they wrap at 2^Width        *)
(* (uint32_t in the code), which PIPESIZE divides.                         *)
(***************************************************************************)
EXTENDS Naturals, Sequences, FiniteSets

CONSTANTS
    Procs,
    PIPESIZE,
    Width,      \* bits of nread and nwrite
    Bytes,
    MaxLen      \* bound of the model: the longest read or write

ASSUME PipeAssumption ==
    /\ PIPESIZE \in Nat \ {0} /\ Width \in Nat /\ MaxLen \in Nat
    /\ 2^Width > PIPESIZE /\ 2^Width % PIPESIZE = 0
    /\ IsFiniteSet(Procs) /\ Bytes # {}

Ends == {"r", "w"}

VARIABLES
    data, nread, nwrite, readopen, writeopen,   \* struct pipe
    freed,      \* kfree() has been called on the pipe
    ref,        \* f->ref of the two struct files
    fds,        \* fds[p]: the ends p has a descriptor for
    pc,         \* "user", or the call p is in; "closer", "closew": in pipeclose()
    chan,       \* what p sleeps on: "nread", "nwrite" or "none"
    todo,       \* pipewrite(): the bytes that copyin() can still read
    room,       \* piperead(): the bytes that copyout() can store
    fault,      \* whether the user buffer ends in an unmapped page
    killed,
    got         \* the bytes the step just taken put into a reader's buffer

pipeVars == <<data, nread, nwrite, readopen, writeopen, freed>>
vars == <<pipeVars, ref, fds, pc, chan, todo, room, fault, killed, got>>

(***************************************************************************)
(* pipealloc(): both files have one reference, from the process that called*)
(* pipe2().                                                                *)
(***************************************************************************)
Init ==
    /\ data = [k \in 0..(PIPESIZE - 1) |-> CHOOSE b \in Bytes : TRUE]
    /\ nread = 0 /\ nwrite = 0
    /\ readopen = TRUE /\ writeopen = TRUE /\ freed = FALSE
    /\ ref = [e \in Ends |-> 1]
    /\ \E p \in Procs : fds = [q \in Procs |-> IF q = p THEN Ends ELSE {}]
    /\ pc = [p \in Procs |-> "user"]
    /\ chan = [p \in Procs |-> "none"]
    /\ todo = [p \in Procs |-> <<>>] /\ room = [p \in Procs |-> 0]
    /\ fault = [p \in Procs |-> FALSE] /\ killed = [p \in Procs |-> FALSE]
    /\ got = <<>>

-----------------------------------------------------------------------------
(* Counters *)

inc(x, k) == (x + k) % 2^Width
Used == (nwrite + 2^Width - nread) % 2^Width
\* A wrong version for comparison: room for one byte more.
SpaceOver == PIPESIZE + 1 - Used
Space == PIPESIZE - Used
Empty == nread = nwrite

(***************************************************************************)
(* data[] after the bytes of s are stored from position nwrite on.         *)
(***************************************************************************)
Stored(s) ==
    [k \in 0..(PIPESIZE - 1) |->
        IF \E j \in 1..Len(s) : inc(nwrite, j - 1) % PIPESIZE = k
        THEN s[CHOOSE j \in 1..Len(s) :
                 /\ inc(nwrite, j - 1) % PIPESIZE = k
                 /\ \A i \in (j + 1)..Len(s) : inc(nwrite, i - 1) % PIPESIZE # k]
        ELSE data[k]]

Fetched(k) == [j \in 1..k |-> data[inc(nread, j - 1) % PIPESIZE]]

wakeup(c) == [q \in Procs |-> IF chan[q] = c THEN "none" ELSE chan[q]]

-----------------------------------------------------------------------------
(* The calls *)

Idle(p) == pc[p] = "user"
Awake(p, label) == pc[p] = label /\ chan[p] = "none"
Goto(p, label) == pc' = [pc EXCEPT ![p] = label]
Return(p) ==
    /\ Goto(p, "user") /\ todo' = [todo EXCEPT ![p] = <<>>]
    /\ room' = [room EXCEPT ![p] = 0] /\ fault' = [fault EXCEPT ![p] = FALSE]

(***************************************************************************)
(* write(fd, addr, n): the first Len(s) bytes are readable, and there are  *)
(* more behind them when the buffer faults.                                *)
(***************************************************************************)
CallWrite(p) ==
    /\ Idle(p) /\ "w" \in fds[p] /\ ~killed[p]
    /\ \E n \in 0..MaxLen : \E s \in [1..n -> Bytes] : todo' = [todo EXCEPT ![p] = s]
    /\ \E b \in BOOLEAN : fault' = [fault EXCEPT ![p] = b]
    /\ Goto(p, "write")
    /\ UNCHANGED <<pipeVars, ref, fds, chan, room, killed>>

CallRead(p) ==
    /\ Idle(p) /\ "r" \in fds[p] /\ ~killed[p]
    /\ \E n \in 0..MaxLen : room' = [room EXCEPT ![p] = n]
    /\ \E b \in BOOLEAN : fault' = [fault EXCEPT ![p] = b]
    /\ Goto(p, "read")
    /\ UNCHANGED <<pipeVars, ref, fds, chan, todo, killed>>

(***************************************************************************)
(* pipewrite() from taking pi->lock to releasing it in sleep() or at the   *)
(* end.  The reader's side and killed are looked at before each byte.      *)
(***************************************************************************)
More(p) == todo[p] # <<>> \/ fault[p]

WriteFail(p) ==
    /\ Awake(p, "write") /\ More(p)
    /\ ~readopen \/ killed[p]
    /\ Return(p)
    /\ UNCHANGED <<pipeVars, ref, fds, chan, killed>>

WriteBytes(p) ==
    /\ Awake(p, "write")
    /\ More(p) => readopen /\ ~killed[p]
    /\ LET s == todo[p]
           m == IF Len(s) <= Space THEN Len(s) ELSE Space
           sleeps == m < Len(s) \/ (fault[p] /\ m = Space)
           woken == wakeup("nread")
       IN /\ data' = Stored(SubSeq(s, 1, m))
          /\ nwrite' = inc(nwrite, m)
          /\ IF sleeps
             THEN /\ chan' = [woken EXCEPT ![p] = "nwrite"]
                  /\ todo' = [todo EXCEPT ![p] = SubSeq(s, m + 1, Len(s))]
                  /\ UNCHANGED <<pc, room, fault>>
             ELSE chan' = woken /\ Return(p)
    /\ UNCHANGED <<nread, readopen, writeopen, freed, ref, fds, killed>>

(***************************************************************************)
(* piperead(): waiting, then the copy loop.  A byte is taken out of the    *)
(* pipe before copyout() is tried on it.                                   *)
(***************************************************************************)
ReadWait(p) ==
    /\ Awake(p, "read") /\ Empty /\ writeopen
    /\ IF killed[p]
       THEN Return(p) /\ UNCHANGED chan
       ELSE chan' = [chan EXCEPT ![p] = "nread"] /\ UNCHANGED <<pc, todo, room, fault>>
    /\ UNCHANGED <<pipeVars, ref, fds, killed>>

ReadBytes(p) ==
    /\ Awake(p, "read") /\ ~(Empty /\ writeopen)
    /\ LET stored == IF room[p] <= Used THEN room[p] ELSE Used
           taken == IF fault[p] /\ stored < Used THEN stored + 1 ELSE stored
       IN /\ got' = Fetched(stored)
          /\ nread' = inc(nread, taken)
    /\ chan' = wakeup("nwrite")
    /\ Return(p)
    /\ UNCHANGED <<data, nwrite, readopen, writeopen, freed, ref, fds, killed>>

(***************************************************************************)
(* fileclose() of p's descriptor, under ftable.lock; the last reference    *)
(* goes on to pipeclose().  exit() does the same for every descriptor.     *)
(***************************************************************************)
CloseLabel == [r |-> "closer", w |-> "closew"]

fileclose(p) ==
    /\ Idle(p)
    /\ \E e \in fds[p] :
         /\ fds' = [fds EXCEPT ![p] = @ \ {e}]
         /\ ref' = [ref EXCEPT ![e] = @ - 1]
         /\ IF ref[e] > 1 THEN UNCHANGED pc ELSE Goto(p, CloseLabel[e])
    /\ UNCHANGED <<pipeVars, chan, todo, room, fault, killed>>

\* A wrong version for comparison: the closer's own side is woken.
CloseWakesOwn(w) == IF w THEN "nwrite" ELSE "nread"
CloseWakes(w) == IF w THEN "nread" ELSE "nwrite"

\* A wrong version for comparison: the first close frees the pipe.
LastCloseAny(r, w) == ~r \/ ~w
LastClose(r, w) == ~r /\ ~w

pipeclose(p) ==
    /\ pc[p] \in {"closer", "closew"}
    /\ LET w == pc[p] = "closew" IN
       /\ writeopen' = (writeopen /\ ~w)
       /\ readopen' = (readopen /\ w)
       /\ chan' = wakeup(CloseWakes(w))
       /\ freed' = (freed \/ LastClose(readopen', writeopen'))
    /\ Goto(p, "user")
    /\ UNCHANGED <<data, nread, nwrite, ref, fds, todo, room, fault, killed>>

(***************************************************************************)
(* fork(): filedup() of each descriptor of p for the new process q.        *)
(***************************************************************************)
DupRefs(p) == [e \in Ends |-> IF e \in fds[p] THEN ref[e] + 1 ELSE ref[e]]

ForkDup(p, q) ==
    /\ Idle(p) /\ ~killed[p] /\ fds[p] # {}
    /\ Idle(q) /\ fds[q] = {}
    /\ fds' = [fds EXCEPT ![q] = fds[p]]
    /\ ref' = DupRefs(p)
    /\ killed' = [killed EXCEPT ![q] = FALSE]
    /\ UNCHANGED <<pipeVars, pc, chan, todo, room, fault>>

(***************************************************************************)
(* A signal with the default action terminates p: term_handler() makes a   *)
(* sleeping p runnable, SIGKILL only sets killed (see module Proc).        *)
(***************************************************************************)
Signal(p) ==
    /\ ~killed[p] /\ fds[p] # {}
    /\ killed' = [killed EXCEPT ![p] = TRUE]
    /\ chan' \in {chan, [chan EXCEPT ![p] = "none"]}
    /\ UNCHANGED <<pipeVars, ref, fds, pc, todo, room, fault>>

PipeStep(p) ==
    \/ (WriteFail(p) \/ WriteBytes(p) \/ ReadWait(p) \/ pipeclose(p)) /\ got' = <<>>
    \/ ReadBytes(p)

Call(p) ==
    /\ CallWrite(p) \/ CallRead(p) \/ fileclose(p) \/ Signal(p) \/ \E q \in Procs \ {p} : ForkDup(p, q)
    /\ got' = <<>>

Next == \E p \in Procs : Call(p) \/ PipeStep(p)

Spec == Init /\ [][Next]_vars

(***************************************************************************)
(* A process that is not asleep keeps running in the kernel.               *)
(***************************************************************************)
FairSpec == Spec /\ \A p \in Procs : WF_vars(PipeStep(p))

-----------------------------------------------------------------------------
(* Properties *)

(***************************************************************************)
(* Types of the pipe, its files and the calls on it.                       *)
(***************************************************************************)
TypeOK ==
    /\ data \in [0..(PIPESIZE - 1) -> Bytes]
    /\ nread \in 0..(2^Width - 1) /\ nwrite \in 0..(2^Width - 1)
    /\ readopen \in BOOLEAN /\ writeopen \in BOOLEAN /\ freed \in BOOLEAN
    /\ ref \in [Ends -> 0..Cardinality(Procs)] /\ fds \in [Procs -> SUBSET Ends]
    /\ pc \in [Procs -> {"user", "write", "read", "closer", "closew"}]
    /\ chan \in [Procs -> {"none", "nread", "nwrite"}]
    /\ room \in [Procs -> 0..MaxLen] /\ \A p \in Procs : Len(todo[p]) <= MaxLen
    /\ fault \in [Procs -> BOOLEAN] /\ killed \in [Procs -> BOOLEAN]

(***************************************************************************)
(* The pipe implements a bounded queue across every interleaving of reads  *)
(* and writes and when its counters wrap: PipeFifo's specification holds   *)
(* of the bytes between nread and nwrite.                                  *)
(***************************************************************************)
fifo == INSTANCE PipeFifo WITH Capacity <- PIPESIZE, q <- Fetched(Used), live <- ~freed
ImplementsFifo == fifo!FifoSpec

(***************************************************************************)
(* No wakeup is lost: a reader asleep in piperead() finds the pipe empty   *)
(* with the write end open, a writer asleep in pipewrite() finds it full   *)
(* with the read end open.                                                 *)
(***************************************************************************)
NoLostWakeup ==
    \A p \in Procs :
        /\ chan[p] = "nread" => Empty /\ writeopen
        /\ chan[p] = "nwrite" => Space = 0 /\ readopen

(***************************************************************************)
(* kfree(pi) comes after the last use: while some process is in a call on  *)
(* the pipe, is about to close it or has a descriptor for it, pipeclose()  *)
(* has not freed it.                                                       *)
(***************************************************************************)
FreedUnused == freed => \A p \in Procs : pc[p] = "user" /\ fds[p] = {}

(***************************************************************************)
(* f->ref counts the descriptors, and an end is open to the other side     *)
(* until the last descriptor's close gets to pipeclose().                  *)
(***************************************************************************)
RefsMatch ==
    \A e \in Ends :
        /\ ref[e] = Cardinality({p \in Procs : e \in fds[p]})
        /\ (IF e = "r" THEN readopen ELSE writeopen) <=>
              (ref[e] > 0 \/ \E p \in Procs : pc[p] = CloseLabel[e])

(***************************************************************************)
(* The counts of the pipe's two files are those of its descriptors, it is  *)
(* freed once and after its last use, and no reader or writer misses its   *)
(* wakeup.                                                                 *)
(***************************************************************************)
PipeSound == TypeOK /\ RefsMatch /\ FreedUnused /\ NoLostWakeup

(***************************************************************************)
(* Nobody waits for a peer that is gone: once the write end is closed every*)
(* read returns, and once the read end is closed every write does.         *)
(***************************************************************************)
PeerGoneReturns ==
    \A p \in Procs :
        /\ (pc[p] = "read" /\ ~writeopen) ~> pc[p] # "read"
        /\ (pc[p] = "write" /\ ~readopen) ~> pc[p] # "write"
=============================================================================
