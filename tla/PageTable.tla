------------------------------ MODULE PageTable -----------------------------
(***************************************************************************)
(* The three-level page tables of vm.c, entry by entry, and the copies     *)
(* between kernel and user through them.  AddressSpace takes a page table  *)
(* for a map from pages to frames; this module shows that it is one.       *)
(*                                                                         *)
(* NP is the number of entries of a table (512), PGSIZE the bytes of a     *)
(* page (4096); the user half of the top table is used (MAXVA).  kalloc()  *)
(* gives the lowest free frame and panics when there is none; PTE_COW is   *)
(* never set.  A call is a list of turns of its loops, each a step.  Two   *)
(* processes share nothing but the frames, and any frame will do, so one   *)
(* call ends before the next begins.                                       *)
(***************************************************************************)
EXTENDS Integers, Sequences, FiniteSets, FiniteSetsExt, SequencesExt

CONSTANTS
    Spaces, NP, PGSIZE, NFRAMES,
    Regions,     \* the mmap()ed areas: first page, number of pages, MAP_SHARED, PROT_WRITE
    Texts,       \* sizes of programs, in bytes
    Sizes,       \* what brk() asks for, in bytes
    Stores,      \* what copyout() stores: address and bytes
    Asks,        \* what copyin() and copyinstr() are asked for: address, length
    MaxOps       \* bound on calls

MAXPAGE == (NP \div 2) * NP * NP
Pages == 0..(MAXPAGE - 1)
Frames == 1..NFRAMES
Entries == 0..(NP - 1)
TRAMPOLINE == MAXPAGE - 1
TRAPFRAME == MAXPAGE - 2
STACKPAGE == 2
STACKBASE == MAXPAGE - 3 - STACKPAGE

VARIABLES
    mem,     \* the frames as tables
    data,    \* the frames as bytes
    ref,     \* page_refcnt of the frames, 0 when free
    root,    \* p->pagetable, 0 for none
    sz,      \* p->sz
    todo,    \* the turns that are left of each process's call
    ops,
    panic

vars == <<mem, data, ref, root, sz, todo, ops, panic>>

-----------------------------------------------------------------------------
Zero == [i \in 0..(PGSIZE - 1) |-> 0]

\* A table entry: v is PTE_V, leaf one of PTE_R, PTE_W, PTE_X.
Pte(v, leaf, pa, u, w) == [v |-> v, leaf |-> leaf, pa |-> pa, u |-> u, w |-> w]
NoPte == Pte(FALSE, FALSE, 0, FALSE, FALSE)
EmptyTable == [i \in Entries |-> NoPte]

\* The numbers of a set from the lowest up.
Ascending(S) == [i \in 1..Cardinality(S) |-> CHOOSE x \in S : Cardinality({y \in S : y <= x}) = i]

\* The frames the next n calls of kalloc() give, fewer when they run out.
Free == {f \in Frames : ref[f] = 0}
kalloc(n) == SubSeq(Ascending(Free), 1, Min({n, Cardinality(Free)}))

\* kfree(): the last reference gives the frame back; what is in it is forgotten.
kfree(f) ==
    /\ ref' = [ref EXCEPT ![f] = @ - 1]
    /\ data' = IF ref[f] = 1 THEN [data EXCEPT ![f] = Zero] ELSE data

\* A wrong version for comparison: the middle table is indexed like the top one.
PXSame(level, v) == IF level = 0 THEN v % NP ELSE (v \div (NP * NP)) % NP

PX(level, v) == (v \div (NP^level)) % NP

\* walk() without alloc: the tables it reaches below the root.
Below(t, level, v) == IF mem[t][PX(level, v)].v THEN <<mem[t][PX(level, v)].pa>> ELSE <<>>
walk(pagetable, v) ==
    LET mid == Below(pagetable, 2, v)
    IN  IF mid = <<>> THEN <<>> ELSE mid \o Below(mid[1], 1, v)

\* The entry of page v, none when walk() returns 0.
PteOf(pagetable, v) ==
    LET path == walk(pagetable, v) IN IF Len(path) < 2 THEN NoPte ELSE mem[path[2]][PX(0, v)]

walkaddr(pagetable, v) ==
    IF v >= MAXPAGE THEN 0
    ELSE LET pte == PteOf(pagetable, v) IN IF pte.v /\ pte.u THEN pte.pa ELSE 0

\* mappages() of a page, since nobody asks for more at run time, with the
\* tables that walk() makes on the way from the frames new.
Linked(pagetable, v, new) ==
    LET path == walk(pagetable, v)
        mid == IF path = <<>> THEN new[1] ELSE path[1]
        low == IF Len(path) < 2 THEN new[2 - Len(path)] ELSE path[2]
        cleared == [f \in Frames |-> IF f \in Range(new) THEN EmptyTable ELSE mem[f]]
    IN  [m |-> [cleared EXCEPT ![pagetable][PX(2, v)] = Pte(TRUE, FALSE, mid, FALSE, FALSE),
                               ![mid][PX(1, v)] = Pte(TRUE, FALSE, low, FALSE, FALSE)],
         low |-> low]

mappages(pagetable, v, new, pte) ==
    LET l == Linked(pagetable, v, new) IN mem' = [l.m EXCEPT ![l.low][PX(0, v)] = pte]

Missing(pagetable, v) == 2 - Len(walk(pagetable, v))

PGROUNDUP(a) == ((a + PGSIZE - 1) \div PGSIZE) * PGSIZE
PagesOf(bytes) == PGROUNDUP(bytes) \div PGSIZE

-----------------------------------------------------------------------------
(* The turns of the loops. *)

Done(s) == todo' = [todo EXCEPT ![s] = Tail(@)]

Stop(why) ==
    /\ panic' = why
    /\ UNCHANGED <<mem, data, ref, root, sz, todo, ops>>

\* A page of the kernel in proc_pagetable(): a frame of the allocator's only for tables.
KernelPage(s, op) ==
    LET need == Missing(root[s], op.v)
        new == kalloc(need)
    IN  IF Len(new) < need THEN Stop("kalloc")
        ELSE IF PteOf(root[s], op.v).v THEN Stop("remap")
        ELSE /\ mappages(root[s], op.v, new, Pte(TRUE, TRUE, op.pa, FALSE, op.w))
             /\ ref' = [f \in Frames |-> IF f \in Range(new) THEN 1 ELSE ref[f]]
             /\ Done(s) /\ UNCHANGED <<data, root, sz, ops, panic>>

\* kalloc() and mappages() of uvmalloc(), alloc_mmap_page() and uvmcopy(): a new
\* page with rights w and content b.
NewPage(s, v, w, b) ==
    LET need == Missing(root[s], v) + 1
        new == kalloc(need)
    IN  IF Len(new) < need THEN Stop("kalloc")
        ELSE IF PteOf(root[s], v).v THEN Stop("remap")
        ELSE /\ mappages(root[s], v, Tail(new), Pte(TRUE, TRUE, new[1], TRUE, w))
             /\ ref' = [f \in Frames |-> IF f \in Range(new) THEN 1 ELSE ref[f]]
             /\ data' = [data EXCEPT ![new[1]] = b]
             /\ Done(s) /\ UNCHANGED <<root, sz, ops, panic>>

\* page_refcnt_inc(), and the frames that became tables.
ShareCount(f, new) ==
    [g \in Frames |-> IF g \in Range(new) THEN 1 ELSE IF g = f THEN ref[g] + 1 ELSE ref[g]]

IsShared(v) == \E r \in Regions : v \in r.first..(r.first + r.n - 1) /\ r.shared

\* The innermost turn of uvmcopy(), from op.from to s; its error path needs a
\* kalloc() that returns 0, and there is none.
CopyPage(s, op) ==
    LET pte == PteOf(root[op.from], op.v)
        need == Missing(root[s], op.v)
        new == kalloc(need)
    IN  IF ~IsShared(op.v) THEN NewPage(s, op.v, pte.w, data[pte.pa])
        ELSE IF Len(new) < need THEN Stop("kalloc")
        ELSE /\ mappages(root[s], op.v, new, pte)
             /\ ref' = ShareCount(pte.pa, new)
             /\ Done(s) /\ UNCHANGED <<data, root, sz, ops, panic>>

ClearPte(t, i) == [mem EXCEPT ![t][i] = NoPte]

\* A turn of uvmunmap(): what is not there is passed over.
UnmapPage(s, op) ==
    LET path == walk(root[s], op.v)
        pte == PteOf(root[s], op.v)
    IN  /\ Done(s) /\ UNCHANGED <<root, sz, ops, panic>>
        /\ IF ~pte.v THEN UNCHANGED <<mem, data, ref>>
           ELSE /\ mem' = ClearPte(path[2], PX(0, op.v))
                /\ IF op.free THEN kfree(pte.pa) ELSE UNCHANGED <<data, ref>>

Leaf(t) == \E i \in Entries : mem[t][i].v /\ mem[t][i].leaf

Children(t) == Ascending({mem[t][i].pa : i \in {j \in Entries : mem[t][j].v /\ ~mem[t][j].leaf}})

\* A wrong version for comparison: tables below the middle are forgotten.
FreewalkOrderFlat(t) == Children(t) \o <<t>>

\* The tables freewalk() frees, children first.
FreewalkOrder(t) ==
    FlattenSeq([i \in DOMAIN Children(t) |-> Children(Children(t)[i]) \o <<Children(t)[i]>>]) \o <<t>>

\* freewalk() down from the root, one table of it.
StartFreewalk(s) ==
    /\ todo' = [todo EXCEPT ![s] = [i \in DOMAIN FreewalkOrder(root[s]) |->
                                       [do |-> "table", t |-> FreewalkOrder(root[s])[i]]]]
    /\ UNCHANGED <<mem, data, ref, root, sz, ops, panic>>

FreeTable(s, op) ==
    IF Leaf(op.t) THEN Stop("leaf")
    ELSE /\ kfree(op.t)
         /\ mem' = [mem EXCEPT ![op.t] = EmptyTable]
         /\ root' = [root EXCEPT ![s] = IF op.t = @ THEN 0 ELSE @]
         /\ Done(s) /\ UNCHANGED <<sz, ops, panic>>

\* A wrong version for comparison: the place in the page is forgotten.
ChunkWhole(a, len) == Min({PGSIZE, len})

\* n: the bytes up to the end of the page, len at most.
Chunk(a, len) == Min({PGSIZE - (a % PGSIZE), len})

\* A turn of copyout(): alloc_cow_page() turns down a page that cannot be
\* written, walkaddr() one that is not there; then the bytes of the page.
PutBytes(s, op) ==
    LET v == op.a \div PGSIZE
        pa0 == walkaddr(root[s], v)
        n == Chunk(op.a, Len(op.b))
        at == op.a % PGSIZE
    IN  IF pa0 = 0 \/ (v < MAXPAGE => ~PteOf(root[s], v).w)
        THEN todo' = [todo EXCEPT ![s] = <<>>] /\ UNCHANGED <<mem, data, ref, root, sz, ops, panic>>
        ELSE /\ data' = [data EXCEPT ![pa0] = [i \in 0..(PGSIZE - 1) |->
                            IF i \in at..(at + n - 1) THEN op.b[i - at + 1] ELSE @[i]]]
             /\ todo' = [todo EXCEPT ![s] =
                            IF n = Len(op.b) THEN <<>>
                            ELSE <<[op EXCEPT !.a = @ - at + PGSIZE, !.b = SubSeq(@, n + 1, Len(@))]>>]
             /\ UNCHANGED <<mem, ref, root, sz, ops, panic>>

-----------------------------------------------------------------------------
(* copyin() and copyinstr() change nothing the user sees. *)

RECURSIVE copyin(_, _, _)
copyin(pagetable, a, len) ==
    LET pa0 == walkaddr(pagetable, a \div PGSIZE)
        n == Chunk(a, len)
        rest == copyin(pagetable, (a \div PGSIZE + 1) * PGSIZE, len - n)
    IN  IF len = 0 THEN [fail |-> FALSE, out |-> <<>>]
        ELSE IF pa0 = 0 THEN [fail |-> TRUE, out |-> <<>>]
        ELSE [rest EXCEPT !.out = [i \in 1..n |-> data[pa0][(a + i - 1) % PGSIZE]] \o @]

\* The loop of copyinstr(); its inner loop stops at the first null byte.
RECURSIVE CopyinstrLoop(_, _, _)
CopyinstrLoop(pagetable, a, max) ==
    LET pa0 == walkaddr(pagetable, a \div PGSIZE)
        n == Chunk(a, max)
        bytes == [i \in 1..n |-> data[pa0][(a + i - 1) % PGSIZE]]
        nulls == {i \in 1..n : bytes[i] = 0}
        rest == CopyinstrLoop(pagetable, (a \div PGSIZE + 1) * PGSIZE, max - n)
    IN  IF max = 0 \/ pa0 = 0 THEN [fail |-> TRUE, out |-> <<>>]
        ELSE IF nulls # {} THEN [fail |-> FALSE, out |-> SubSeq(bytes, 1, Min(nulls) - 1)]
        ELSE [rest EXCEPT !.out = bytes \o @]

copyinstr(pagetable, a, max) ==
    IF a = 0 THEN [fail |-> FALSE, out |-> <<>>] ELSE CopyinstrLoop(pagetable, a, max)

-----------------------------------------------------------------------------
(* The calls: what each has to do, in the order of its loops. *)

Alloc(first, last, w) == [i \in 1..(last - first + 1) |-> [do |-> "new", v |-> first + i - 1, w |-> w]]
Unmap(first, n, free) == [i \in 1..n |-> [do |-> "unmap", v |-> first + i - 1, free |-> free]]

uvmalloc(oldsz, newsz, w) == Alloc(PagesOf(oldsz), PagesOf(newsz) - 1, w)

uvmdealloc(oldsz, newsz) ==
    Unmap(PagesOf(newsz), IF PagesOf(newsz) < PagesOf(oldsz) THEN PagesOf(oldsz) - PagesOf(newsz) ELSE 0,
          TRUE)

proc_pagetable(s) ==
    <<[do |-> "kernel", v |-> TRAMPOLINE, pa |-> NFRAMES + 1, w |-> FALSE],
      [do |-> "kernel", v |-> TRAPFRAME, pa |-> NFRAMES + 1 + s, w |-> TRUE]>>

\* The pages whose entries the three loops of uvmcopy() find, in their order:
\* the last three pages are every process's own.
CopyOrder(old) ==
    LET found == {x \in (0..(NP \div 2 - 1)) \X Entries \X Entries :
                     /\ PteOf(old, x[1] * NP * NP + x[2] * NP + x[3]).v
                     /\ ~(x[1] = NP \div 2 - 1 /\ x[2] = NP - 1 /\ x[3] >= NP - 3)}
    IN  Ascending({x[1] * NP * NP + x[2] * NP + x[3] : x \in found})

uvmcopy(s) ==
    LET order == CopyOrder(root[s])
    IN  [i \in DOMAIN order |-> [do |-> "copy", v |-> order[i], from |-> s]]

\* free_mmap_list()
FreeRegions == FlattenSeq(SetToSeq({Unmap(r.first, r.n, TRUE) : r \in Regions}))

\* proc_freepagetable() with uvmfree().
proc_freepagetable(size) ==
    Unmap(TRAMPOLINE, 1, FALSE) \o Unmap(TRAPFRAME, 1, FALSE) \o Unmap(STACKBASE, STACKPAGE, TRUE)
    \o Unmap(0, PagesOf(size), TRUE) \o <<[do |-> "freewalk"]>>

\* The process of s makes a call.
Call(s, turns, size) ==
    /\ panic = "" /\ ops < MaxOps /\ ops' = ops + 1
    /\ \A t \in Spaces : todo[t] = <<>>
    /\ todo' = [todo EXCEPT ![s] = turns]
    /\ sz' = [sz EXCEPT ![s] = size]

Idle(s) == root[s] # 0 /\ UNCHANGED <<mem, data, ref, root, panic>>

\* uvmcreate()
Create(s) ==
    /\ root[s] = 0
    /\ IF Free = {} THEN panic' = "kalloc" /\ UNCHANGED <<mem, data, ref, root>>
       ELSE \E f \in {Min(Free)} : /\ root' = [root EXCEPT ![s] = f]
                                   /\ ref' = [ref EXCEPT ![f] = 1]
                                   /\ mem' = [mem EXCEPT ![f] = EmptyTable]
                                   /\ UNCHANGED <<data, panic>>

\* execve() of a program of n bytes into a new table: text, then the stack.
Exec(s) ==
    /\ \E n \in Texts :
          Call(s, proc_pagetable(s) \o uvmalloc(0, n, FALSE)
                  \o uvmalloc(STACKBASE * PGSIZE, (STACKBASE + STACKPAGE) * PGSIZE, TRUE), n)
    /\ Create(s)

\* fork(): s waits in it until the copy t is made.
Fork(s, t) ==
    /\ root[s] # 0
    /\ Call(t, proc_pagetable(t) \o uvmcopy(s), sz[s])
    /\ Create(t)

\* growproc(); the size is set at its end, when nobody else has seen it.
Grow(s) ==
    /\ Idle(s)
    /\ \E n \in Sizes \ {sz[s]} :
          Call(s, IF n > sz[s] THEN uvmalloc(sz[s], n, TRUE) ELSE uvmdealloc(sz[s], n), n)

\* alloc_mmap_page() for a page of a region that is not there.
Fault(s) ==
    /\ Idle(s)
    /\ \E r \in Regions : \E v \in r.first..(r.first + r.n - 1) :
          ~PteOf(root[s], v).v /\ Call(s, Alloc(v, v, r.w), sz[s])

\* munmap() of a region.
Munmap(s) == Idle(s) /\ \E r \in Regions : Call(s, Unmap(r.first, r.n, TRUE), sz[s])

\* copyout()
Write(s) == Idle(s) /\ \E x \in Stores : Call(s, <<[do |-> "put", a |-> x.a, b |-> x.b]>>, sz[s])

\* freeproc(): the regions, then the table.
Release(s) == Idle(s) /\ Call(s, FreeRegions \o proc_freepagetable(sz[s]), 0)

Turn(s) ==
    /\ panic = "" /\ todo[s] # <<>>
    /\ LET op == Head(todo[s])
       IN  \/ op.do = "kernel" /\ KernelPage(s, op)
           \/ op.do = "new" /\ NewPage(s, op.v, op.w, Zero)
           \/ op.do = "copy" /\ CopyPage(s, op)
           \/ op.do = "unmap" /\ UnmapPage(s, op)
           \/ op.do = "freewalk" /\ StartFreewalk(s)
           \/ op.do = "table" /\ FreeTable(s, op)
           \/ op.do = "put" /\ PutBytes(s, op)

Init ==
    /\ mem = [f \in Frames |-> EmptyTable] /\ data = [f \in Frames |-> Zero]
    /\ ref = [f \in Frames |-> 0]
    /\ root = [s \in Spaces |-> 0] /\ sz = [s \in Spaces |-> 0] /\ todo = [s \in Spaces |-> <<>>]
    /\ ops = 0 /\ panic = ""

Next ==
    \E s \in Spaces :
        \/ Exec(s) \/ Grow(s) \/ Fault(s) \/ Munmap(s) \/ Write(s) \/ Release(s) \/ Turn(s)
        \/ \E t \in Spaces : Fork(s, t)

Spec == Init /\ [][Next]_vars

-----------------------------------------------------------------------------
\* The entry of page v, found without walk(), for the properties.
Entry(s, v) ==
    LET top == mem[root[s]][v \div (NP * NP)]
        mid == mem[top.pa][(v \div NP) % NP]
    IN  IF root[s] = 0 THEN NoPte ELSE IF ~top.v THEN NoPte ELSE IF ~mid.v THEN NoPte
        ELSE mem[mid.pa][v % NP]

Flat == [s \in Spaces |-> [v \in Pages |-> LET e == Entry(s, v)
                                           IN  [pa |-> e.pa, u |-> e.u, w |-> e.w]]]

Memory == INSTANCE UserMemory WITH flat <- Flat

\* Types of reference counts and roots.
TypeOK ==
    /\ ref \in [Frames -> 0..Cardinality(Spaces)]
    /\ root \in [Spaces -> 0..NFRAMES] /\ ops \in 0..MaxOps

\* Whatever the tables look like, each turn of the loops of vm.c acts on a flat
\* map from pages to frames as its call asks: what mappages() enters is found at
\* that page and no other, with new bytes, the parent's or the parent's frame,
\* uvmunmap() takes away that page alone, copyout() stores these bytes, and
\* making or freeing tables changes nothing.
AsAsked ==
    \A s \in Spaces :
       (todo[s] # <<>> /\ todo'[s] # todo[s] /\ panic' = "") =>
       LET op == Head(todo[s])
           same == Flat' = Flat /\ Memory!OthersKept(0)
       IN  \/ op.do = "kernel" /\ Memory!AddKernelPage(s, op.v)
           \/ op.do = "new" /\ Memory!AddPage(s, op.v, Zero) /\ Flat'[s][op.v].w = op.w
           \/ op.do = "copy" /\ IsShared(op.v) /\ Memory!SharePage(op.from, s, op.v)
           \/ op.do = "copy" /\ ~IsShared(op.v) /\ Memory!CopyPage(op.from, s, op.v)
           \/ op.do = "unmap" /\ IF Flat[s][op.v] = Memory!None THEN same ELSE Memory!TakePage(s, op.v)
           \/ op.do \in {"freewalk", "table"} /\ same
           \/ /\ op.do = "put"
              /\ LET k == Len(op.b) - (IF todo'[s] = <<>> THEN 0 ELSE Len(todo'[s][1].b))
                 IN  IF op.a \div PGSIZE \notin Pages THEN same
                     ELSE LET e == Flat[s][op.a \div PGSIZE]
                          IN  IF e.u /\ e.w THEN Memory!Store(s, op.a, SubSeq(op.b, 1, k)) ELSE same

ImplementsUserMemory == [][AsAsked]_vars

\* Each frame in use is counted once for each entry or root that points to it,
\* and a frame nobody points to is free, but for tables that freewalk() is about
\* to free: neither uvmunmap() and freewalk() nor
\* tables made on the way leave a frame behind or give back one in use.
PagesCounted ==
    (\A s \in Spaces : \A i \in DOMAIN todo[s] : todo[s][i].do # "table") =>
    \A f \in Frames :
        ref[f] = Cardinality({s \in Spaces : root[s] = f})
                 + Cardinality({x \in Frames \X Entries : mem[x[1]][x[2]].v /\ mem[x[1]][x[2]].pa = f})

\* copyin() and copyinstr() return the bytes of the user's memory in order over
\* any boundary of pages and tables, and fail exactly when a byte they need is
\* not the user's (copyinstr: or no null byte is among the first max).
CopiesRight ==
    \A s \in {x \in Spaces : root[x] # 0 /\ todo[x] = <<>>} : \A q \in Asks :
        LET Ok(x) == x \div PGSIZE \in Pages /\ Entry(s, x \div PGSIZE).u
            Byte(x) == data[Entry(s, x \div PGSIZE).pa][x % PGSIZE]
            all == \A i \in 0..(q.len - 1) : Ok(q.a + i)
            ends == {i \in 0..(q.len - 1) : (\A j \in 0..i : Ok(q.a + j)) /\ Byte(q.a + i) = 0}
            c == copyin(root[s], q.a, q.len)
            z == copyinstr(root[s], q.a, q.len)
        IN  /\ c.fail = ~all
            /\ all => c.out = [i \in 1..q.len |-> Byte(q.a + i - 1)]
            /\ q.a # 0 => z.fail = (ends = {})
            /\ (q.a # 0 /\ ends # {}) => z.out = [i \in 1..Min(ends) |-> Byte(q.a + i - 1)]

\* The kernel stops only for want of frames: never because a page is mapped
\* twice or a leaf is left when the tables go.
OnlyOutOfFrames == panic \in {"", "kalloc"}
=============================================================================
