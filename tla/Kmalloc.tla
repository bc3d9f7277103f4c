------------------------------ MODULE Kmalloc -------------------------------
(***************************************************************************)
(* The kernel's byte allocator (kernel/kmalloc.c) and its one user,        *)
(* execve(): the argument strings of sys_execve() (kernel/sysfile.c) and   *)
(* the buffers of execve() (kernel/exec.c).                                *)
(*                                                                         *)
(* An address is in units of a Header; base is at address 0, below every   *)
(* page.  kmalloc() and kmfree() take no lock: here a call runs to its end *)
(* before another starts, and what overlapping calls do is not modelled.   *)
(***************************************************************************)
EXTENDS Integers, Sequences, FiniteSets

CONSTANTS
    Procs,
    PGSIZE, HeaderSize,   \* bytes of a page and of a Header
    NPAGES,               \* bound of the model: the pages kalloc() can give
    Lengths,              \* lengths of argument strings, with the 0 at the end
    Names,                \* sizes of the name of an interpreter
    Ends,                 \* page offsets of the end of an interpreter's data
    MaxArgs, MaxExecs     \* bounds of the model

VARIABLES
    ptr, size,   \* of the Header at every address
    freep,
    pages,       \* the pages obtained from kalloc()
    call,        \* the call in progress
    proc,        \* the execve() of every process
    execs, leaked, panic

vars == <<ptr, size, freep, pages, call, proc, execs, leaked, panic>>

UNITS == PGSIZE \div HeaderSize
NULL == -1
base == 0
Addrs == {base} \union UNITS..(UNITS * (NPAGES + 1) - 1)

NoBlock == <<0, 0>>
NoCall == [op |-> "none"]
Idle == [pc |-> "idle", args |-> <<>>, interp |-> NoBlock, pad |-> NoBlock, pads |-> 0]

Init ==
    /\ ptr = [a \in Addrs |-> 0] /\ size = [a \in Addrs |-> 0]
    /\ freep = NULL /\ pages = {} /\ call = NoCall
    /\ proc = [p \in Procs |-> Idle]
    /\ execs = 0 /\ leaked = {} /\ panic = ""

Heap == <<ptr, size, freep, pages>>

-----------------------------------------------------------------------------
(* kmfree() *)

(***************************************************************************)
(* The free blocks, in the circular list through base.                     *)
(***************************************************************************)
Onward[n \in 0..Cardinality(Addrs)] == IF n = 0 THEN base ELSE ptr[Onward[n - 1]]
Nodes == IF freep = NULL THEN {} ELSE {Onward[n] : n \in 0..Cardinality(Addrs)}

(***************************************************************************)
(* The block after which bp belongs: the loop of kmfree() stops at it.     *)
(***************************************************************************)
Before(bp) ==
    CHOOSE p \in Nodes : \/ bp > p /\ bp < ptr[p]
                         \/ p >= ptr[p] /\ (bp > p \/ bp < ptr[p])

(***************************************************************************)
(* bp of n units is linked behind p and joined with its neighbours.  What  *)
(* is left of a Header that became part of a block is not kept.            *)
(***************************************************************************)
\* A wrong version for comparison: it is joined with the block below only.
FreedBelow(p, bp, n) ==
    LET next == ptr[p]
        lower == p + size[p] = bp
    IN [ptr |-> IF lower THEN ptr ELSE [ptr EXCEPT ![bp] = next, ![p] = bp],
        size |-> IF lower THEN [size EXCEPT ![p] = @ + n] ELSE [size EXCEPT ![bp] = n]]
Freed(p, bp, n) ==
    LET next == ptr[p]
        upper == bp + n = next
        all == IF upper THEN n + size[next] ELSE n
        after == IF upper THEN ptr[next] ELSE next
        lower == p + size[p] = bp
        ptr1 == IF upper THEN [ptr EXCEPT ![next] = 0] ELSE ptr
        size1 == IF upper THEN [size EXCEPT ![next] = 0] ELSE size
    IN [ptr |-> IF lower THEN [ptr1 EXCEPT ![p] = after]
                ELSE [ptr1 EXCEPT ![bp] = after, ![p] = bp],
        size |-> IF lower THEN [size1 EXCEPT ![bp] = 0, ![p] = @ + all] ELSE [size1 EXCEPT ![bp] = all]]

kmfree(bp) ==
    LET p == Before(bp)
        f == Freed(p, bp, size[bp])
    IN ptr' = f.ptr /\ size' = f.size /\ freep' = p /\ UNCHANGED pages

-----------------------------------------------------------------------------
(* kmalloc() *)

Units(nbytes) == (nbytes + HeaderSize - 1) \div HeaderSize + 1

(***************************************************************************)
(* The call, up to the loop: base is made the list at the first one.       *)
(***************************************************************************)
kmalloc(p, nbytes) ==
    IF nbytes > PGSIZE - HeaderSize
    THEN panic' = "too big request" /\ UNCHANGED <<Heap, call>>
    ELSE /\ freep' = IF freep = NULL THEN base ELSE freep
         /\ ptr' = IF freep = NULL THEN [ptr EXCEPT ![base] = base] ELSE ptr
         /\ call' = [op |-> "scan", by |-> p, n |-> Units(nbytes), bytes |-> nbytes, prevp |-> freep',
                     at |-> ptr'[freep'], grown |-> 0]
         /\ UNCHANGED <<size, pages, panic>>

(***************************************************************************)
(* A large enough block: all of it, or the end of it.                      *)
(***************************************************************************)
Shrunk(a, n) == size[a] - n

(***************************************************************************)
(* Where the next search starts: before the block just taken.              *)
(***************************************************************************)
Resume(prevp, a) == prevp

Take ==
    LET a == call.at
        whole == size[a] = call.n
        rest == Shrunk(a, call.n)
        given == IF whole THEN a ELSE a + (size[a] - call.n)
    IN /\ call.op = "scan" /\ size[a] >= call.n
       /\ ptr' = IF whole THEN [ptr EXCEPT ![a] = 0, ![call.prevp] = ptr[a]] ELSE ptr
       /\ size' = IF whole THEN size ELSE [size EXCEPT ![a] = rest, ![given] = call.n]
       /\ freep' = Resume(call.prevp, a)
       /\ call' = [op |-> "done", by |-> call.by, a |-> given, bytes |-> call.bytes]
       /\ UNCHANGED <<pages, proc, execs, leaked, panic>>

Step ==
    /\ call.op = "scan" /\ size[call.at] < call.n /\ call.at # freep
    /\ call' = [call EXCEPT !.prevp = call.at, !.at = ptr[call.at]]
    /\ UNCHANGED <<Heap, proc, execs, leaked, panic>>

(***************************************************************************)
(* morecore(): the page of kalloc() is freed into the list; the loop goes  *)
(* on behind the block kmfree() left in freep.                             *)
(***************************************************************************)
morecore ==
    /\ call.op = "scan" /\ size[call.at] < call.n /\ call.at = freep
    /\ IF pages = 1..NPAGES
       THEN panic' = "no memory" /\ UNCHANGED <<Heap, call>>
       ELSE \E pg \in 1..NPAGES \ pages :
               LET bp == pg * UNITS
                   p == Before(bp)
                   f == Freed(p, bp, UNITS)
               IN /\ ptr' = f.ptr /\ size' = f.size /\ freep' = p
                  /\ pages' = pages \union {pg}
                  /\ call' = [call EXCEPT !.prevp = p, !.at = ptr'[p], !.grown = @ + 1]
                  /\ UNCHANGED panic
    /\ UNCHANGED <<proc, execs, leaked>>

-----------------------------------------------------------------------------
(* execve() *)

At(p, pc) == proc[p].pc = pc /\ call = NoCall
Now(p, r) == proc' = [proc EXCEPT ![p] = r]

(***************************************************************************)
(* Where the caller keeps the block that kmalloc() returns.                *)
(***************************************************************************)
Return ==
    LET p == call.by
        r == proc[p]
    IN /\ call.op = "done" /\ call' = NoCall
       /\ Now(p, CASE r.pc = "args" -> [r EXCEPT !.args = Append(@, <<call.a, call.bytes>>)]
                   [] r.pc = "exec" -> [r EXCEPT !.interp = <<call.a, call.bytes>>, !.pc = "interp"]
                   [] r.pc = "interp" -> [r EXCEPT !.pad = <<call.a, call.bytes>>, !.pc = "pad"])
       /\ UNCHANGED <<Heap, execs, leaked, panic>>

sys_execve(p) ==
    /\ At(p, "idle") /\ execs < MaxExecs
    /\ Now(p, [Idle EXCEPT !.pc = "args"])
    /\ execs' = execs + 1
    /\ UNCHANGED <<Heap, call, leaked, panic>>

(***************************************************************************)
(* The next string of argv or envp; a fault or too many end in "bad".      *)
(***************************************************************************)
Argument(p) ==
    /\ At(p, "args") /\ Len(proc[p].args) < MaxArgs
    /\ \E n \in Lengths : kmalloc(p, n)
    /\ UNCHANGED <<proc, execs, leaked>>

BadArgument(p) ==
    /\ At(p, "args")
    /\ Now(p, [proc[p] EXCEPT !.pc = "free"])
    /\ UNCHANGED <<Heap, call, execs, leaked, panic>>

execve(p) ==
    /\ At(p, "args")
    /\ Now(p, [proc[p] EXCEPT !.pc = "exec"])
    /\ UNCHANGED <<Heap, call, execs, leaked, panic>>

(***************************************************************************)
(* The name of the interpreter, PT_INTERP, of at most a page.              *)
(***************************************************************************)
Interpreter(p) ==
    /\ At(p, "exec")
    /\ \E n \in {m \in Names : m <= PGSIZE} : kmalloc(p, n)
    /\ UNCHANGED <<proc, execs, leaked>>

(***************************************************************************)
(* load_interpreter() calls padzero() for the rest of the last page, again *)
(* from mapping_bss().                                                     *)
(***************************************************************************)
padzero(p) ==
    /\ At(p, "interp") /\ proc[p].pads < 2
    /\ \E end \in Ends \ {0} : kmalloc(p, PGSIZE - end)
    /\ UNCHANGED <<proc, execs, leaked>>

PadDone(p) ==
    /\ At(p, "pad")
    /\ kmfree(proc[p].pad[1])
    /\ Now(p, [proc[p] EXCEPT !.pc = "interp", !.pad = NoBlock, !.pads = @ + 1])
    /\ UNCHANGED <<call, execs, leaked, panic>>

(***************************************************************************)
(* "bad" frees the name; a successful execve() keeps it for good.          *)
(***************************************************************************)
ExecBad(p) ==
    /\ At(p, "interp")
    /\ kmfree(proc[p].interp[1])
    /\ Now(p, [proc[p] EXCEPT !.pc = "free", !.interp = NoBlock])
    /\ UNCHANGED <<call, execs, leaked, panic>>

ExecDone(p) ==
    /\ At(p, "interp") \/ At(p, "exec")
    /\ Now(p, [proc[p] EXCEPT !.pc = "free", !.interp = NoBlock])
    /\ leaked' = leaked \union (IF proc[p].interp = NoBlock THEN {} ELSE {proc[p].interp})
    /\ UNCHANGED <<Heap, call, execs, panic>>

FreeArgs(p) ==
    /\ At(p, "free") /\ proc[p].args # <<>>
    /\ kmfree(Head(proc[p].args)[1])
    /\ Now(p, [proc[p] EXCEPT !.args = Tail(@)])
    /\ UNCHANGED <<call, execs, leaked, panic>>

ReturnExec(p) ==
    /\ At(p, "free") /\ proc[p].args = <<>>
    /\ Now(p, Idle)
    /\ UNCHANGED <<Heap, call, execs, leaked, panic>>

Next ==
    /\ panic = ""
    /\ \/ Take \/ Step \/ morecore \/ Return
       \/ \E p \in Procs : \/ sys_execve(p) \/ Argument(p) \/ BadArgument(p) \/ execve(p)
                           \/ Interpreter(p) \/ padzero(p) \/ PadDone(p)
                           \/ ExecBad(p) \/ ExecDone(p) \/ FreeArgs(p) \/ ReturnExec(p)

Spec == Init /\ [][Next]_vars

-----------------------------------------------------------------------------
(* Properties *)

(***************************************************************************)
(* The blocks callers have: <<address, bytes asked for>>.                  *)
(***************************************************************************)
Given ==
    UNION {{proc[p].args[i] : i \in DOMAIN proc[p].args} : p \in Procs}
    \union (({proc[p].interp : p \in Procs} \union {proc[p].pad : p \in Procs}) \ {NoBlock})
    \union leaked \union (IF call.op = "done" THEN {<<call.a, call.bytes>>} ELSE {})

Extent(a) == a..(a + size[a] - 1)

(***************************************************************************)
(* Types.                                                                  *)
(***************************************************************************)
TypeOK ==
    /\ ptr \in [Addrs -> Addrs] /\ size \in [Addrs -> 0..(UNITS * NPAGES)]
    /\ freep \in Addrs \union {NULL} /\ pages \subseteq 1..NPAGES
    /\ freep # NULL => freep \in Nodes
    /\ panic \in {"", "too big request", "no memory"}

(***************************************************************************)
(* Every block that kmalloc() returned has room for the bytes asked for    *)
(* behind its header, and the blocks in use and the free ones partition    *)
(* the pages obtained: none overlap, none is lost.                         *)
(***************************************************************************)
Partitioned ==
    LET blocks == (Nodes \ {base}) \union {g[1] : g \in Given} IN
    /\ \A g \in Given : (size[g[1]] - 1) * HeaderSize >= g[2]
    /\ UNION {Extent(a) : a \in blocks} = UNION {(pg * UNITS)..((pg + 1) * UNITS - 1) : pg \in pages}
    /\ \A a, b \in blocks : a # b => Extent(a) \intersect Extent(b) = {}
    /\ Cardinality({g[1] : g \in Given}) = Cardinality(Given)

(***************************************************************************)
(* kmfree() keeps the list sorted by address, once around through base,    *)
(* and joins neighbours: no free block ends where the next one starts.     *)
(***************************************************************************)
SortedAndJoined ==
    \A a \in Nodes :
        /\ ptr[a] = base \/ a < ptr[a]
        /\ a # base => a + size[a] # ptr[a]

(***************************************************************************)
(* The loop of kmalloc() asks for at most one page: after morecore() it    *)
(* finds a large enough block within one round, so it terminates.          *)
(***************************************************************************)
GrowsOnce == call.op = "scan" => call.grown <= 1
=============================================================================
