---------------------------- MODULE AddressSpace ----------------------------
(***************************************************************************)
(* User address spaces: the page tables and their pages (kernel/vm.c), the *)
(* mmap regions (kernel/mmap.c), the heap (growproc()), fork(), exit() and *)
(* wait() as far as they touch memory (kernel/proc.c), execve()            *)
(* (kernel/exec.c), page faults (usertrap()) and the copies of system call *)
(* arguments (kernel/syscall.c).                                           *)
(*                                                                         *)
(* An address is a page number; a file offset, a file size and p->sz are in*)
(* half pages, so that a last page may be partly used.  A page table is the*)
(* function from user pages to leaf entries; its own pages, the trampoline *)
(* and the trapframe are left out.  kalloc() panics rather than return 0,  *)
(* so the branches that handle its failure are never taken.                *)
(*                                                                         *)
(* An address space belongs to one process: only the frames, the objects of*)
(* the slab of regions and the open file are shared.  A step runs to the   *)
(* next point where another process can matter.                            *)
(***************************************************************************)
EXTENDS Integers, Sequences, FiniteSets

CONSTANTS
    Procs,
    DynBase, MmapBase, StackBase, UserTop,  \* pages, in this order
    NFRAMES,       \* bound of the model: physical pages
    Objects,       \* objects of the slab of mmap_regions: 1..n
    NFILES,        \* open files; descriptors are of file 1, interpreters get others
    FileSize,      \* half pages; every open file is of the same inode
    Scripts        \* the calls processes make: [proc -> sequence of sets of calls]

ASSUME SpaceAssumption ==
    /\ 0 < DynBase /\ DynBase <= MmapBase /\ MmapBase < StackBase /\ StackBase < UserTop
    /\ NFRAMES \in Nat /\ FileSize \in Nat /\ NFILES \in Nat \ {0}

VARIABLES
    pt,        \* p->pagetable: user page -> leaf entry
    size,      \* p->sz
    head,      \* p->regions
    obj,       \* the objects of the slab
    slab,      \* its free objects, the next one to be given out first
    ref, data, \* of every frame: refcnt and contents
    filedata,  \* the pages of the mapped file
    foff, fref,\* f->off and f->ref of the open files
    fds,       \* the processes with a descriptor of file 1
    state,     \* of a process: "none", "run", "zombie", "wild" (page table freed)
    call, script,
    maps,      \* history: how often a file was mapped
    tainted,   \* history: the known defects that were met
    panic

vars == <<pt, size, head, obj, slab, ref, data, filedata, foff, fref, fds, state, call,
          script, maps, tainted, panic>>

PG == 2
Pages == 0..(UserTop - 1)
Frames == 1..NFRAMES
FilePages == 0..((FileSize + 1) \div PG - 1)
Up(s) == (s + PG - 1) \div PG

None == [pa |-> 0, r |-> FALSE, w |-> FALSE, u |-> FALSE]
Valid(e) == e.pa # 0
Mapped(t) == {v \in Pages : Valid(t[v])}
EmptyTable == [v \in Pages |-> None]
Heap(s) == 0..(Up(s) - 1)
Stack == StackBase..(UserTop - 1)

Idle == [op |-> "idle"]
NoRegion == [addr |-> 0, len |-> 0, off |-> 0, prot |-> {}, shared |-> FALSE, anon |-> FALSE,
             f |-> 0, next |-> 0]

-----------------------------------------------------------------------------
(* Frames and page tables *)

(***************************************************************************)
(* kalloc(): the frame for the n-th of the pages allocated in one step.    *)
(***************************************************************************)
Frame(n) ==
    LET free == {f \in Frames : ref[f] = 0} IN
    CHOOSE f \in free : Cardinality({g \in free : g < f}) = n

Enough(n) == Cardinality({f \in Frames : ref[f] = 0}) >= n

Nth(S, v) == Cardinality({u \in S : u < v})

(***************************************************************************)
(* The new leaf entries for the pages S, each with a frame of its own.     *)
(* mappages() panics on a page that is mapped already.                     *)
(***************************************************************************)
WithPages(t, S, perm) ==
    [v \in Pages |-> IF v \in S THEN [perm EXCEPT !.pa = Frame(Nth(S, v))] ELSE t[v]]
FramesFor(S) == {Frame(n) : n \in 0..(Cardinality(S) - 1)}
Counted(S) == [f \in Frames |-> IF f \in FramesFor(S) THEN 1 ELSE ref[f]]

(***************************************************************************)
(* uvmunmap(t, S): the entries are cleared and their frames lose a         *)
(* reference; pages without an entry are skipped.                          *)
(***************************************************************************)
\* A wrong version for comparison: the last page stays.
UnmappedShort(t, S) == [v \in Pages |-> IF v \in S /\ v + 1 \in S THEN None ELSE t[v]]
Unmapped(t, S) == [v \in Pages |-> IF v \in S THEN None ELSE t[v]]
Dropped(t, S) ==
    [f \in Frames |-> ref[f] - Cardinality({v \in S \intersect Pages : t[v].pa = f})]

(***************************************************************************)
(* get_perm()                                                              *)
(***************************************************************************)
get_perm(prot) == [pa |-> 0, r |-> "r" \in prot, w |-> "w" \in prot, u |-> TRUE]

Readable(e) == Valid(e) /\ e.u /\ e.r
Writable(e) == Valid(e) /\ e.u /\ e.r /\ e.w

-----------------------------------------------------------------------------
(* The list of regions *)

(***************************************************************************)
(* The regions of a list in its order; a list that runs in a circle is cut.*)
(***************************************************************************)
ListFrom(h) ==
    LET walk[n \in 0..Cardinality(Objects)] ==
            IF n = 0 THEN IF h = 0 THEN <<>> ELSE <<h>>
            ELSE LET l == walk[n - 1] IN
                 IF l = <<>> \/ obj[l[Len(l)]].next = 0 \/ Len(l) < n THEN l
                 ELSE Append(l, obj[l[Len(l)]].next)
    IN walk[Cardinality(Objects) - 1]
List(p) == ListFrom(head[p])
Regions(p) == {List(p)[n] : n \in DOMAIN List(p)}

Limit(r) == obj[r].addr + obj[r].len
Extent(r) == obj[r].addr..(Limit(r) - 1)

\* A wrong version for comparison: every page shows the start.
FileOffsetStart(r, v) == obj[r].off
FileOffset(r, v) == obj[r].off + (v - obj[r].addr) * PG

find_mmap_region(p, a) ==
    LET hits == {n \in DOMAIN List(p) : a \in Extent(List(p)[n])} IN
    IF hits = {} THEN 0 ELSE List(p)[CHOOSE n \in hits : \A m \in hits : n <= m]

is_mmap_region(p, a, len) ==
    LET r == find_mmap_region(p, a) IN r # 0 /\ a + len <= Limit(r)

(***************************************************************************)
(* is_usable(): rule 2 of the code is applied to every region of the list, *)
(* rule 3 to every region and its successor.                               *)
(***************************************************************************)
is_usable(p, a, len) ==
    LET l == List(p)
        Stop(n) == \/ a = obj[l[n]].addr
                   \/ a + len <= obj[l[n]].addr
                   \/ Limit(l[n]) <= a /\ (obj[l[n]].next = 0 \/ a + len <= obj[obj[l[n]].next].addr)
        stops == {n \in DOMAIN l : Stop(n)}
    IN /\ a >= DynBase /\ a <= UserTop
       /\ \/ l = <<>>
          \/ stops # {} /\ a # obj[l[CHOOSE n \in stops : \A m \in stops : n <= m]].addr

(***************************************************************************)
(* select_addr: the candidate moves behind every region it does not fit    *)
(* before.                                                                 *)
(***************************************************************************)
SelectAddr(p, a0, len) ==
    LET l == List(p)
        Fits(a, n) ==
            \/ a + len <= obj[l[n]].addr
            \/ Limit(l[n]) <= a /\ (obj[l[n]].next = 0 \/ a + len <= obj[obj[l[n]].next].addr)
        at[n \in 0..Len(l)] ==
            IF n = 0 THEN [a |-> a0, done |-> FALSE]
            ELSE LET c == at[n - 1] IN
                 IF c.done THEN c
                 ELSE IF Fits(c.a, n) THEN [c EXCEPT !.done = TRUE]
                 ELSE [c EXCEPT !.a = IF @ <= Limit(l[n]) THEN Limit(l[n]) ELSE @]
    IN at[Len(l)].a

(***************************************************************************)
(* The list with region r, of address a, put in its place: obj' and head'. *)
(***************************************************************************)
Before(p, a) ==
    LET l == List(p)
        lower == {n \in DOMAIN l : obj[l[n]].addr <= a}
    IN IF lower = {} THEN 0 ELSE CHOOSE n \in lower : \A m \in lower : m <= n

Linked(p, r, new) ==
    LET n == Before(p, new.addr)
        l == List(p)
    IN IF n = 0 THEN [obj EXCEPT ![r] = [new EXCEPT !.next = head[p]]]
       ELSE [obj EXCEPT ![r] = [new EXCEPT !.next = obj[l[n]].next], ![l[n]].next = r]
LinkedHead(p, r, a) == IF Before(p, a) = 0 THEN r ELSE head[p]

(***************************************************************************)
(* delete_mmap_node(): the region is found by its address and unlinked.    *)
(***************************************************************************)
UnlinkedHead(p, r) ==
    IF head[p] # 0 /\ obj[head[p]].addr = obj[r].addr THEN obj[head[p]].next ELSE head[p]
Unlinked(p, r) ==
    LET l == List(p)
        hits == {n \in 2..Len(l) : obj[l[n]].addr = obj[r].addr}
    IN IF head[p] = 0 \/ obj[head[p]].addr = obj[r].addr \/ hits = {} THEN obj
       ELSE LET n == CHOOSE n \in hits : \A m \in hits : n <= m IN
            [obj EXCEPT ![l[n - 1]].next = obj[l[n]].next]

-----------------------------------------------------------------------------
(* Calls *)

At(p, op) == state[p] = "run" /\ call[p].op = op /\ panic = ""
Goto(p, c) == call' = [call EXCEPT ![p] = c]
Taint(S) == tainted' = tainted \union S

Vm == <<pt, size, ref, data>>
Lists == <<head, obj, slab>>
Files == <<filedata, foff, fref, fds, maps>>
Rest == <<state, script>>

Panic(msg) ==
    /\ panic' = msg
    /\ UNCHANGED <<Vm, Lists, Files, Rest, call>>

(* Not a panic of the code: the object of a region was read after it was   *)
(* freed and given out again, with other contents.  What a process does on *)
(* the list of another one is not modelled.                                *)
Reused == "freed object read"

(* "then" is what follows a mapping, an unmapping or a page load: the next *)
(* piece mprotect() or load_interpreter() maps, the next region of exit(), *)
(* or the return to the user.                                              *)

-----------------------------------------------------------------------------
(* mmap() *)

(***************************************************************************)
(* The regions and the stack the pages a..a+len-1 run into, as reasons of  *)
(* taint: a hint has no lower bound, the stack is not looked at, and       *)
(* is_usable() accepts a place that begins inside a region.                *)
(***************************************************************************)
Clash(p, a, len, fixed) ==
    (IF a < DynBase THEN {"low"} ELSE {})
    \union (IF a + len > StackBase THEN {"stack"} ELSE {})
    \union (IF fixed /\ \E r \in Regions(p) : Extent(r) \intersect (a..(a + len - 1)) # {}
            THEN {"overlap"} ELSE {})

Candidate(p, q) ==
    IF q.addr # 0 /\ q.fixed THEN q.addr
    ELSE SelectAddr(p, IF q.addr # 0 THEN q.addr
                       ELSE IF head[p] # 0 THEN obj[head[p]].addr ELSE MmapBase, q.len)

Refused(p, q) ==
    \/ q.addr # 0 /\ q.addr + q.len > UserTop
    \/ q.fixed /\ q.prot # {} /\ ~is_usable(p, q.addr, q.len)
    \/ Candidate(p, q) + q.len > UserTop

(***************************************************************************)
(* MAP_FIXED with PROT_NONE makes no region: it takes the pages from the   *)
(* user.                                                                   *)
(***************************************************************************)
Hidden(t, S) == [v \in Pages |-> IF v \in S /\ Valid(t[v]) THEN [t[v] EXCEPT !.u = FALSE] ELSE t[v]]

Load(p, a, len, off, r, then) ==
    [op |-> "pages", at |-> a, end |-> a + len, off |-> off, r |-> r, n |-> 0, then |-> then]

mmap(p, q, then, fail) ==
    LET a == Candidate(p, q)
        r == slab[1]
        new == [NoRegion EXCEPT !.addr = a, !.len = q.len, !.off = q.off, !.prot = q.prot,
                                !.shared = q.shared, !.anon = q.anon, !.f = q.f]
    IN IF q.addr + q.len <= UserTop /\ q.fixed /\ q.prot = {}
       THEN /\ pt' = [pt EXCEPT ![p] = Hidden(@, a..(a + q.len - 1))]
            /\ Goto(p, then) /\ Taint({"hidden"})
            /\ UNCHANGED <<size, ref, data, Lists, Files, panic>>
       ELSE IF Refused(p, q)
       THEN Goto(p, fail) /\ UNCHANGED <<Vm, Lists, Files, tainted, panic>>
       ELSE /\ slab # <<>>
            /\ slab' = Tail(slab)
            /\ obj' = Linked(p, r, new)
            /\ head' = [head EXCEPT ![p] = LinkedHead(p, r, a)]
            /\ IF q.f = 0 THEN UNCHANGED <<fref, maps>>
               ELSE /\ fref' = [fref EXCEPT ![q.f] = @ + 2]
                    /\ maps' = [maps EXCEPT ![q.f] = @ + 1]
            /\ Goto(p, Load(p, a, q.len, q.off, r, then))
            /\ Taint(Clash(p, a, q.len, q.fixed)
                     \union (IF "r" \in q.prot THEN {} ELSE {"unreadable"}))
            /\ UNCHANGED <<Vm, filedata, foff, fds, panic>>

(***************************************************************************)
(* mmap_load_pages() of an anonymous region, map_anon_pages(): zeroed pages*)
(* one after the other.                                                    *)
(***************************************************************************)
LoadAnon(p) ==
    LET c == call[p]
        S == c.at..(c.end - 1)
    IN /\ At(p, "pages") /\ obj[c.r].anon
       /\ IF S \intersect Mapped(pt[p]) # {} THEN Panic("mappages: remap") /\ UNCHANGED tainted
          ELSE /\ Enough(Cardinality(S))
               /\ pt' = [pt EXCEPT ![p] = WithPages(@, S, get_perm(obj[c.r].prot))]
               /\ ref' = Counted(S)
               /\ data' = [f \in Frames |-> IF f \in FramesFor(S) THEN 0 ELSE data[f]]
               /\ Goto(p, c.then)
               /\ UNCHANGED <<size, Lists, Files, Rest, tainted, panic>>

(***************************************************************************)
(* map_file_pages(): f->off is set, and the length of the page computed    *)
(* from it in unsigned arithmetic; at the end of the file nothing is       *)
(* mapped.                                                                 *)
(***************************************************************************)
PageLength(o) == IF FileSize - o > PG \/ FileSize < o THEN PG ELSE FileSize - o

LoadSeek(p) ==
    LET c == call[p]
        f == obj[c.r].f
    IN /\ At(p, "pages") /\ ~obj[c.r].anon /\ c.n = 0
       /\ foff' = IF c.at = c.end THEN foff ELSE [foff EXCEPT ![f] = c.off]
       /\ Goto(p, IF c.at = c.end \/ PageLength(c.off) = 0 THEN c.then
                  ELSE [c EXCEPT !.n = PageLength(c.off)])
       /\ UNCHANGED <<Vm, Lists, filedata, fref, fds, maps, Rest, tainted, panic>>

(***************************************************************************)
(* fileread() from f->off, which another process may have moved meanwhile; *)
(* then the page is mapped.                                                *)
(***************************************************************************)
ReadLength(o, n) == IF o > FileSize THEN 0 ELSE IF o + n > FileSize THEN FileSize - o ELSE n

LoadRead(p) ==
    LET c == call[p]
        f == obj[c.r].f
        o == foff[f]
        m == ReadLength(o, c.n)
    IN /\ At(p, "pages") /\ ~obj[c.r].anon /\ c.n # 0
       /\ IF Valid(pt[p][c.at]) THEN Panic("mappages: remap") /\ UNCHANGED tainted
          ELSE /\ Enough(1)
               /\ pt' = [pt EXCEPT ![p] = WithPages(@, {c.at}, get_perm(obj[c.r].prot))]
               /\ ref' = Counted({c.at})
               /\ data' = [data EXCEPT ![Frame(0)] = IF m = 0 THEN 0 ELSE filedata[o \div PG]]
               /\ foff' = [foff EXCEPT ![f] = @ + m]
               /\ Goto(p, [c EXCEPT !.at = @ + 1, !.off = @ + c.n, !.n = 0])
               /\ Taint(IF o = c.off THEN {} ELSE {"offset"})
               /\ UNCHANGED <<size, Lists, filedata, fref, fds, maps, Rest, panic>>

-----------------------------------------------------------------------------
(* munmap(), msync(), mprotect() *)

(***************************************************************************)
(* The end of munmap(r, a, len): the whole region goes, with its pages,    *)
(* its reference to the file and its object; or the pages go and the       *)
(* region becomes shorter, at its end unless a is its start.               *)
(***************************************************************************)
Cut(p) ==
    LET c == call[p]
        r == c.r
        whole == obj[r].len = c.len
        S == IF whole THEN Extent(r) ELSE c.a..(c.a + c.len - 1)
    IN /\ At(p, "cut")
       /\ pt' = [pt EXCEPT ![p] = Unmapped(@, S)]
       /\ ref' = Dropped(pt[p], S)
       /\ IF whole
          THEN /\ head' = [head EXCEPT ![p] = UnlinkedHead(p, r)]
               /\ obj' = Unlinked(p, r)
               /\ slab' = <<r>> \o slab
               /\ fref' = IF obj[r].f = 0 THEN fref ELSE [fref EXCEPT ![obj[r].f] = @ - 1]
          ELSE /\ obj' = [obj EXCEPT ![r].len = @ - c.len,
                                    ![r].addr = IF @ = c.a THEN @ + c.len ELSE @,
                                    ![r].off = IF obj[r].addr = c.a THEN @ + c.len * PG ELSE @]
               /\ UNCHANGED <<head, slab, fref>>
       /\ Goto(p, c.then)
       /\ Taint(IF c.a # obj[r].addr /\ c.a + c.len # Limit(r) THEN {"hole"} ELSE {})
       /\ UNCHANGED <<size, data, filedata, foff, fds, maps, Rest, panic>>

(***************************************************************************)
(* munmap() and msync() up to the pages they write back.  A length larger  *)
(* than the region's is cut to it, wherever a lies in the region.          *)
(***************************************************************************)
WritesBack(r) == ~obj[r].anon /\ obj[r].shared /\ "w" \in obj[r].prot

Unmap(r, a, len, then, fail) ==
    LET n == IF obj[r].len < len THEN obj[r].len ELSE len
        cut == [op |-> "cut", r |-> r, a |-> a, len |-> n, then |-> then]
    IN IF WritesBack(r)
       THEN [op |-> "back", r |-> r, at |-> a, end |-> a + n, then |-> cut, fail |-> fail]
       ELSE cut

munmap(p, a, len, then) ==
    LET r == find_mmap_region(p, a) IN
    /\ Goto(p, IF r = 0 THEN then ELSE Unmap(r, a, len, then, then))
    /\ UNCHANGED <<Vm, Lists, Files, tainted, panic>>

msync(p, a, len) ==
    LET r == find_mmap_region(p, a) IN
    /\ Goto(p, IF r = 0 \/ ~WritesBack(r) THEN Idle
               ELSE [op |-> "back", r |-> r, at |-> a, then |-> Idle, fail |-> Idle,
                     end |-> a + (IF obj[r].len < len THEN obj[r].len ELSE len)])
    /\ UNCHANGED <<Vm, Lists, Files, tainted, panic>>

(***************************************************************************)
(* One page is written back, as PTE_D is set from the start, up to the end *)
(* of the file; writeback() fails for a page hidden from the user and      *)
(* beyond the end.                                                         *)
(***************************************************************************)
WriteBack(p) ==
    LET c == call[p]
        e == pt[p][c.at]
        off == FileOffset(c.r, c.at)
        fails == Valid(e) /\ (~e.u \/ off > FileSize)
    IN /\ At(p, "back")
       /\ filedata' = IF Valid(e) /\ ~fails /\ off < FileSize
                      THEN [filedata EXCEPT ![off \div PG] = data[e.pa]] ELSE filedata
       /\ Goto(p, IF fails THEN c.fail
                  ELSE IF FileSize <= off + PG \/ c.at + 1 >= c.end THEN c.then
                  ELSE [c EXCEPT !.at = @ + 1])
       /\ Taint(IF fails THEN {"not written"} ELSE {})
       /\ UNCHANGED <<Vm, Lists, foff, fref, fds, maps, Rest, panic>>

(***************************************************************************)
(* mprotect() below p->sz only adds to the entries; elsewhere it changes   *)
(* the region, or maps it anew in two or three pieces after unmapping it.  *)
(* The flags and the file of a piece are read from the freed object.       *)
(***************************************************************************)
HeapProtected(t, S, prot) ==
    [v \in Pages |-> IF v \notin S \/ ~Valid(t[v]) THEN t[v]
                     ELSE IF prot = {} THEN [t[v] EXCEPT !.u = FALSE]
                     ELSE [t[v] EXCEPT !.u = TRUE, !.r = @ \/ prot = {"r"}]]

Piece(r, a, end, prot) ==
    [addr |-> a, len |-> end - a, prot |-> prot,
     off |-> IF obj[r].f = 0 /\ a # obj[r].addr THEN 0 ELSE FileOffset(r, a)]

Pieces(r, a, end, prot) ==
    (IF a = obj[r].addr THEN <<>> ELSE <<Piece(r, obj[r].addr, a, obj[r].prot)>>)
    \o <<Piece(r, a, end, prot)>>
    \o (IF end = Limit(r) THEN <<>> ELSE <<Piece(r, end, Limit(r), obj[r].prot)>>)

mprotect(p, a, len, prot) ==
    LET r == find_mmap_region(p, a) IN
    IF a * PG <= size[p]
    THEN /\ pt' = [pt EXCEPT ![p] =
                     IF prot = {"w"} THEN @ ELSE HeapProtected(@, a..(a + len - 1), prot)]
         /\ Goto(p, Idle)
         /\ Taint(IF a + len > Up(size[p]) /\ prot = {} THEN {"hidden"} ELSE {})
         /\ UNCHANGED <<size, ref, data, Lists, Files, panic>>
    ELSE IF \/ ~is_mmap_region(p, a, len)
            \/ obj[r].prot \intersect {"r", "w"} = {"r"} /\ "w" \in prot
    THEN Goto(p, Idle) /\ UNCHANGED <<Vm, Lists, Files, tainted, panic>>
    ELSE IF obj[r].addr = a /\ obj[r].len = len
    THEN /\ obj' = [obj EXCEPT ![r].prot = prot]
         /\ Goto(p, Idle) /\ Taint(IF prot = obj[r].prot THEN {} ELSE {"prot"})
         /\ UNCHANGED <<Vm, head, slab, Files, panic>>
    ELSE /\ Goto(p, Unmap(r, obj[r].addr, obj[r].len,
                      [op |-> "pieces", r |-> r, todo |-> Pieces(r, a, a + len, prot),
                       was |-> obj[r]], Idle))
         /\ UNCHANGED <<Vm, Lists, Files, tainted, panic>>

NextPiece(p) ==
    LET c == call[p]
        q == c.todo[1]
        more == IF Len(c.todo) = 1 THEN Idle ELSE [c EXCEPT !.todo = Tail(@)]
        o == obj[c.r]
        same == o.f = c.was.f /\ o.shared = c.was.shared /\ o.anon = c.was.anon
    IN /\ At(p, "pieces")
       /\ IF ~same THEN Panic(Reused) /\ UNCHANGED tainted
          ELSE /\ mmap(p, [addr |-> q.addr, len |-> q.len, prot |-> q.prot, off |-> q.off, fixed |-> TRUE,
                           shared |-> o.shared, anon |-> o.anon, f |-> o.f], more, more)
               /\ UNCHANGED Rest

-----------------------------------------------------------------------------
(* brk(), fork(), exit(), wait() *)

(***************************************************************************)
(* growproc(): uvmalloc() or uvmdealloc() of the whole pages in between.   *)
(***************************************************************************)
brk(p, new) ==
    LET S == Up(size[p])..(Up(new) - 1)
        D == Up(new)..(Up(size[p]) - 1)
    IN IF new > size[p] /\ S \intersect Mapped(pt[p]) # {}
       THEN /\ panic' = "mappages: remap"
            /\ Taint({"heap"})
            /\ UNCHANGED <<Vm, Lists, Files, call>>
       ELSE /\ Enough(Cardinality(S))
            /\ pt' = [pt EXCEPT ![p] =
                        Unmapped(WithPages(@, S, [None EXCEPT !.r = TRUE, !.w = TRUE, !.u = TRUE]), D)]
            /\ ref' = IF new > size[p] THEN Counted(S) ELSE Dropped(pt[p], D)
            /\ data' = [f \in Frames |-> IF f \in FramesFor(S) THEN 0 ELSE data[f]]
            /\ size' = [size EXCEPT ![p] = new]
            /\ Taint(IF Up(new) > DynBase THEN {"heap"} ELSE {})
            /\ UNCHANGED <<Lists, Files, call, panic>>

(***************************************************************************)
(* fork(), all of it under np->lock: the child q gets copies of the regions*)
(* in their order, the frames of the shared ones and copies of the others. *)
(***************************************************************************)
SharedAt(p, v) == LET r == find_mmap_region(p, v) IN r # 0 /\ obj[r].shared

uvmcopy(p) ==
    LET own == {v \in Mapped(pt[p]) : ~SharedAt(p, v)} IN
    [table |-> [v \in Pages |-> IF v \in own THEN [pt[p][v] EXCEPT !.pa = Frame(Nth(own, v))]
                                ELSE pt[p][v]],
     own |-> own]

copy_mmap_regions(p) ==
    LET l == List(p) IN
    [r \in Objects |->
        IF \E n \in DOMAIN l : slab[n] = r
        THEN LET n == CHOOSE n \in DOMAIN l : slab[n] = r IN
             [obj[l[n]] EXCEPT !.next = IF n = Len(l) THEN 0 ELSE slab[n + 1]]
        ELSE obj[r]]

Fork(p, q) ==
    LET l == List(p)
        copy == uvmcopy(p)
    IN /\ state[q] = "none"
       /\ Len(slab) >= Len(l) /\ Enough(Cardinality(copy.own))
       /\ obj' = copy_mmap_regions(p)
       /\ head' = [head EXCEPT ![q] = IF l = <<>> THEN 0 ELSE slab[1]]
       /\ slab' = SubSeq(slab, Len(l) + 1, Len(slab))
       /\ pt' = [pt EXCEPT ![q] = copy.table]
       /\ ref' = [f \in Frames |->
                    Counted(copy.own)[f]
                    + Cardinality({v \in Mapped(pt[p]) \ copy.own : pt[p][v].pa = f})]
       /\ data' = [f \in Frames |->
                     IF f \in FramesFor(copy.own)
                     THEN data[pt[p][CHOOSE v \in copy.own : Frame(Nth(copy.own, v)) = f].pa]
                     ELSE data[f]]
       /\ size' = [size EXCEPT ![q] = size[p]]
       /\ fref' = [f \in 1..NFILES |->
                     fref[f] + Cardinality({n \in DOMAIN l : obj[l[n]].f = f})
                     + (IF f = 1 /\ p \in fds THEN 1 ELSE 0)]
       /\ fds' = IF p \in fds THEN fds \union {q} ELSE fds
       /\ state' = [state EXCEPT ![q] = "run"]
       /\ UNCHANGED <<filedata, foff, maps, call, tainted, panic>>

(***************************************************************************)
(* exit(): munmap() of every region; the next one is read from the object  *)
(* that has just been freed.                                               *)
(***************************************************************************)
Exiting(r) == [op |-> "exit", r |-> r]
Freed(r) == [op |-> "freed", r |-> r, next |-> obj[r].next]

ExitRegion(p) ==
    LET r == call[p].r IN
    /\ At(p, "exit") /\ r # 0
    /\ munmap(p, obj[r].addr, obj[r].len, Freed(r))
    /\ UNCHANGED Rest

ExitNext(p) ==
    LET c == call[p] IN
    /\ At(p, "freed")
    /\ IF obj[c.r].next # c.next THEN Panic(Reused)
       ELSE Goto(p, Exiting(c.next)) /\ UNCHANGED <<Vm, Lists, Files, Rest, panic>>
    /\ UNCHANGED tainted

ExitDone(p) ==
    /\ At(p, "exit") /\ call[p].r = 0
    /\ head' = [head EXCEPT ![p] = 0]
    /\ fds' = fds \ {p}
    /\ fref' = IF p \in fds THEN [fref EXCEPT ![1] = @ - 1] ELSE fref
    /\ state' = [state EXCEPT ![p] = "zombie"]
    /\ Goto(p, Idle)
    /\ UNCHANGED <<Vm, obj, slab, filedata, foff, maps, script, tainted, panic>>

(***************************************************************************)
(* freeproc() in wait4(): proc_freepagetable() unmaps the stack and the    *)
(* heap, and freewalk() panics on a leaf entry that is left.               *)
(***************************************************************************)
OwnPages(s) == Heap(s) \union Stack
LeafLeft(t, s) == Mapped(t) \ OwnPages(s) # {}

Reap(p) ==
    /\ state[p] = "zombie" /\ panic = ""
    /\ IF LeafLeft(pt[p], size[p]) THEN Panic("Invalid leaf PTE")
       ELSE /\ ref' = Dropped(pt[p], OwnPages(size[p]))
            /\ pt' = [pt EXCEPT ![p] = EmptyTable]
            /\ size' = [size EXCEPT ![p] = 0]
            /\ state' = [state EXCEPT ![p] = "none"]
            /\ UNCHANGED <<data, Lists, Files, call, script, panic>>
    /\ UNCHANGED tainted

-----------------------------------------------------------------------------
(* execve() *)

(***************************************************************************)
(* A program has a size, the pieces its interpreter is mapped in and the   *)
(* point where loading fails: "header" is before anything is given up.     *)
(* flush_parent_data() empties the list of regions in the old page table;  *)
(* like exit() it reads the next region from the freed object.             *)
(***************************************************************************)
execve(p, prog) ==
    /\ Goto(p, IF prog.bad = "header" THEN Idle ELSE [op |-> "flush", r |-> head[p], prog |-> prog])
    /\ UNCHANGED <<Vm, Lists, Files, tainted, panic>>

FlushRegion(p) ==
    LET c == call[p]
        r == c.r
    IN /\ At(p, "flush") /\ r # 0
       /\ fref' = IF obj[r].f = 0 THEN fref ELSE [fref EXCEPT ![obj[r].f] = @ - 1]
       /\ head' = [head EXCEPT ![p] = UnlinkedHead(p, r)]
       /\ obj' = Unlinked(p, r)
       /\ slab' = <<r>> \o slab
       /\ pt' = [pt EXCEPT ![p] = Unmapped(@, Extent(r))]
       /\ ref' = Dropped(pt[p], Extent(r))
       /\ Goto(p, [op |-> "flushed", r |-> r, next |-> obj[r].next, prog |-> c.prog])
       /\ UNCHANGED <<size, data, filedata, foff, fds, maps, Rest, tainted, panic>>

FlushNext(p) ==
    LET c == call[p] IN
    /\ At(p, "flushed")
    /\ IF obj[c.r].next # c.next THEN Panic(Reused)
       ELSE /\ Goto(p, [op |-> "flush", r |-> c.next, prog |-> c.prog])
            /\ UNCHANGED <<Vm, Lists, Files, Rest, panic>>
    /\ UNCHANGED tainted

(***************************************************************************)
(* The new page table becomes p->pagetable before the segments are loaded. *)
(* When a later step fails it is freed all the same: the process goes back *)
(* to the user with a freed page table.  A segment whose contents cannot be*)
(* read is mapped but not yet in sz, and freewalk() finds it.              *)
(***************************************************************************)
Segments(prog) == Heap(prog.size)
Code == [None EXCEPT !.r = TRUE, !.u = TRUE]
NoFile == CHOOSE f \in 1..(NFILES + 1) : (f > NFILES \/ fref[f] = 0)
                                         /\ \A g \in 1..(f - 1) : fref[g] # 0

ExecLoad(p) ==
    LET prog == call[p].prog
        S == Segments(prog)
    IN /\ At(p, "flush") /\ call[p].r = 0
       /\ IF prog.bad = "loadseg" THEN Panic("Invalid leaf PTE") /\ Taint({"exec"})
          ELSE IF prog.bad # "none"
          THEN /\ state' = [state EXCEPT ![p] = "wild"]
               /\ Goto(p, [op |-> "old", old |-> pt[p], size |-> size[p]])
               /\ pt' = [pt EXCEPT ![p] = EmptyTable]
               /\ Taint({"exec"})
               /\ UNCHANGED <<size, ref, data, Lists, Files, script, panic>>
          ELSE /\ Enough(Cardinality(S)) /\ (prog.interp # <<>> => NoFile <= NFILES)
               /\ pt' = [pt EXCEPT ![p] = WithPages(EmptyTable, S, Code)]
               /\ ref' = Counted(S)
               /\ data' = [f \in Frames |-> IF f \in FramesFor(S) THEN 0 ELSE data[f]]
               /\ fref' = IF prog.interp = <<>> THEN fref ELSE [fref EXCEPT ![NoFile] = 1]
               /\ Goto(p, [op |-> "interp", todo |-> prog.interp, f |-> NoFile, prog |-> prog,
                           old |-> pt[p], size |-> size[p]])
               /\ UNCHANGED <<size, Lists, filedata, foff, fds, maps, Rest, tainted, panic>>

(***************************************************************************)
(* load_interpreter(): its segments and mapping_bss(), one after the other.*)
(***************************************************************************)
ExecPiece(p) ==
    LET c == call[p]
        q == c.todo[1]
        more == [c EXCEPT !.todo = Tail(@)]
    IN /\ At(p, "interp") /\ c.todo # <<>>
       /\ mmap(p, [q EXCEPT !.f = IF q.anon THEN 0 ELSE c.f], more, [c EXCEPT !.op = "bad"])
       /\ UNCHANGED Rest

ExecBad(p) ==
    LET c == call[p] IN
    /\ At(p, "bad")
    /\ fref' = [fref EXCEPT ![c.f] = @ - 1]
    /\ IF LeafLeft(pt[p], c.prog.size)
       THEN panic' = "Invalid leaf PTE" /\ UNCHANGED <<Vm, state, call>>
       ELSE /\ pt' = [pt EXCEPT ![p] = EmptyTable]
            /\ ref' = Dropped(pt[p], OwnPages(c.prog.size))
            /\ state' = [state EXCEPT ![p] = "wild"]
            /\ Goto(p, [op |-> "old", old |-> c.old, size |-> c.size])
            /\ UNCHANGED <<size, data, panic>>
    /\ Taint({"exec"})
    /\ UNCHANGED <<Lists, filedata, foff, fds, maps, script>>

(***************************************************************************)
(* The stack is mapped, and the old page table freed with the old size.    *)
(***************************************************************************)
ExecDone(p) ==
    LET c == call[p] IN
    /\ At(p, "interp") /\ c.todo = <<>>
    /\ fref' = IF c.prog.interp = <<>> THEN fref ELSE [fref EXCEPT ![c.f] = @ - 1]
    /\ IF Stack \intersect Mapped(pt[p]) # {}
       THEN panic' = "mappages: remap" /\ UNCHANGED <<Vm, call>>
       ELSE IF LeafLeft(c.old, c.size)
       THEN panic' = "Invalid leaf PTE" /\ UNCHANGED <<Vm, call>>
       ELSE /\ Enough(Cardinality(Stack))
            /\ pt' = [pt EXCEPT ![p] = WithPages(@, Stack, [Code EXCEPT !.w = TRUE])]
            /\ ref' = [f \in Frames |-> IF f \in FramesFor(Stack) THEN 1
                                         ELSE Dropped(c.old, OwnPages(c.size))[f]]
            /\ data' = [f \in Frames |-> IF f \in FramesFor(Stack) THEN 0 ELSE data[f]]
            /\ size' = [size EXCEPT ![p] = c.prog.size]
            /\ Goto(p, Idle) /\ UNCHANGED panic
    /\ UNCHANGED <<Lists, filedata, foff, fds, maps, Rest, tainted>>

-----------------------------------------------------------------------------
(* Accesses to memory *)

(***************************************************************************)
(* usertrap(): a load or a store that is not allowed is tried again after  *)
(* its page was loaded, for ever if the file ends where the page begins.   *)
(* alloc_mmap_page(): the region of the page loads it; without one the     *)
(* process is killed.  A page that is mapped but not open to the user is   *)
(* mapped again.                                                           *)
(***************************************************************************)
alloc_mmap_page(p, k) ==
    LET v == k.addr
        r == find_mmap_region(p, v)
    IN /\ Goto(p, IF r = 0 \/ (k.op = "store" /\ "w" \notin obj[r].prot) THEN Exiting(head[p])
                  ELSE Load(p, v, 1, IF obj[r].f = 0 THEN 0 ELSE FileOffset(r, v), r, k))
       /\ UNCHANGED <<Vm, Lists, Files, tainted, panic>>

load(p, k) ==
    IF Readable(pt[p][k.addr])
    THEN Goto(p, Idle) /\ UNCHANGED <<Vm, Lists, Files, tainted, panic>>
    ELSE alloc_mmap_page(p, k)

(***************************************************************************)
(* alloc_cow_page(): PTE_COW is set nowhere, so a page the user may see but*)
(* not write ends the process.                                             *)
(***************************************************************************)
ReadOnly(e) == Valid(e) /\ e.u /\ ~e.w

store(p, k) ==
    LET e == pt[p][k.addr] IN
    IF Writable(e)
    THEN /\ data' = [data EXCEPT ![e.pa] = k.x]
         /\ Goto(p, Idle)
         /\ UNCHANGED <<pt, size, ref, Lists, Files, tainted, panic>>
    ELSE IF ReadOnly(e)
    THEN Goto(p, Exiting(head[p])) /\ UNCHANGED <<Vm, Lists, Files, tainted, panic>>
    ELSE alloc_mmap_page(p, k)

Again(p) ==
    /\ \/ At(p, "load") /\ load(p, call[p])
       \/ At(p, "store") /\ store(p, call[p])
    /\ UNCHANGED Rest

(***************************************************************************)
(* A system call that fills a user buffer: copyout() fails where the page  *)
(* is not mapped, hidden or read-only, and loads nothing.                  *)
(***************************************************************************)
copyout(p, v, x) ==
    LET e == pt[p][v] IN
    /\ data' = IF Valid(e) /\ e.u /\ e.w THEN [data EXCEPT ![e.pa] = x] ELSE data
    /\ UNCHANGED <<pt, size, ref, Lists, Files, call, tainted, panic>>

(***************************************************************************)
(* read() and close() of the descriptor, sharing f->off with the loads.    *)
(***************************************************************************)
read(p) ==
    /\ foff' = IF p \in fds THEN [foff EXCEPT ![1] = @ + ReadLength(@, PG)] ELSE foff
    /\ UNCHANGED <<Vm, Lists, filedata, fref, fds, maps, call, tainted, panic>>

close(p) ==
    /\ fds' = fds \ {p}
    /\ fref' = IF p \in fds THEN [fref EXCEPT ![1] = @ - 1] ELSE fref
    /\ UNCHANGED <<Vm, Lists, filedata, foff, maps, call, tainted, panic>>

-----------------------------------------------------------------------------
(***************************************************************************)
(* One process, as exec leaves it: a page of code, a page of stack; it has *)
(* opened the file.                                                        *)
(***************************************************************************)
Init ==
    \E s \in Scripts, p \in Procs :
        /\ \A q \in Procs : p <= q
        /\ script = s
        /\ state = [q \in Procs |-> IF q = p THEN "run" ELSE "none"]
        /\ pt = [q \in Procs |->
                   IF q # p THEN EmptyTable
                   ELSE [EmptyTable EXCEPT ![0] = [Code EXCEPT !.pa = 1],
                                           ![StackBase] = [Code EXCEPT !.pa = 2, !.w = TRUE]]]
        /\ size = [q \in Procs |-> IF q = p THEN PG ELSE 0]
        /\ head = [q \in Procs |-> 0]
        /\ obj = [r \in Objects |-> NoRegion]
        /\ slab = [n \in 1..Cardinality(Objects) |-> n]
        /\ ref = [f \in Frames |-> IF f \in {1, 2} THEN 1 ELSE 0]
        /\ data = [f \in Frames |-> 0]
        /\ filedata = [k \in FilePages |-> k + 1]
        /\ foff = [f \in 1..NFILES |-> 0]
        /\ fref = [f \in 1..NFILES |-> IF f = 1 THEN 1 ELSE 0]
        /\ fds = {p}
        /\ call = [q \in Procs |-> Idle]
        /\ maps = [f \in 1..NFILES |-> 0]
        /\ tainted = {} /\ panic = ""

(***************************************************************************)
(* The system calls and accesses of a process, in the order of its script. *)
(* sys_mmap() wants the descriptor of a file mapping open.                 *)
(***************************************************************************)
sys_mmap(p, k) ==
    IF k.anon \/ p \in fds
    THEN mmap(p, [addr |-> k.addr, len |-> k.len, prot |-> k.prot, off |-> k.off, fixed |-> k.fixed,
                  shared |-> k.shared, anon |-> k.anon, f |-> IF k.anon THEN 0 ELSE 1], Idle, Idle)
    ELSE UNCHANGED <<Vm, Lists, Files, call, tainted, panic>>

Start(p) ==
    /\ At(p, "idle") /\ script[p] # <<>>
    /\ script' = [script EXCEPT ![p] = Tail(@)]
    /\ \E k \in Head(script[p]) :
         \/ k.op = "mmap" /\ sys_mmap(p, k) /\ UNCHANGED state
         \/ k.op = "munmap" /\ munmap(p, k.addr, k.len, Idle) /\ UNCHANGED state
         \/ k.op = "msync" /\ msync(p, k.addr, k.len) /\ UNCHANGED state
         \/ k.op = "mprotect" /\ mprotect(p, k.addr, k.len, k.prot) /\ UNCHANGED state
         \/ k.op = "brk" /\ brk(p, k.to) /\ UNCHANGED state
         \/ k.op = "fork" /\ \E q \in Procs : Fork(p, q)
         \/ k.op = "execve" /\ execve(p, k.prog) /\ UNCHANGED state
         \/ k.op = "load" /\ load(p, k) /\ UNCHANGED state
         \/ k.op = "store" /\ store(p, k) /\ UNCHANGED state
         \/ k.op = "copyout" /\ copyout(p, k.addr, k.x) /\ UNCHANGED state
         \/ k.op = "read" /\ read(p) /\ UNCHANGED state
         \/ k.op = "close" /\ close(p) /\ UNCHANGED state

Exit(p) ==
    /\ At(p, "idle") /\ script[p] = <<>>
    /\ Goto(p, Exiting(head[p]))
    /\ UNCHANGED <<Vm, Lists, Files, Rest, tainted, panic>>

Next ==
    \E p \in Procs :
        \/ Start(p) \/ LoadAnon(p) \/ LoadSeek(p) \/ LoadRead(p)
        \/ Cut(p) \/ WriteBack(p) \/ NextPiece(p)
        \/ Exit(p) \/ ExitRegion(p) \/ ExitNext(p) \/ ExitDone(p) \/ Reap(p)
        \/ FlushRegion(p) \/ FlushNext(p) \/ ExecLoad(p) \/ ExecPiece(p) \/ ExecBad(p) \/ ExecDone(p)
        \/ Again(p)

Spec == Init /\ [][Next]_vars

-----------------------------------------------------------------------------
(* Properties *)

(***************************************************************************)
(* Types.                                                                  *)
(***************************************************************************)
TypeOK ==
    /\ \A p \in Procs, v \in Pages : pt[p][v].pa \in 0..NFRAMES
    /\ size \in [Procs -> Nat]
    /\ head \in [Procs -> Objects \union {0}]
    /\ \A r \in Objects : obj[r].next \in Objects \union {0} /\ obj[r].f \in 0..NFILES
    /\ ref \in [Frames -> Nat] /\ fref \in [1..NFILES -> Nat]
    /\ foff \in [1..NFILES -> 0..FileSize + PG]
    /\ fds \subseteq Procs
    /\ state \in [Procs -> {"none", "run", "zombie", "wild"}]

InterpOf(p) ==
    IF call[p].op \in {"interp", "bad"} THEN {call[p]}
    ELSE IF call[p].op = "pages" /\ call[p].then.op = "interp" THEN {call[p].then} ELSE {}
SizeNow(p) == IF InterpOf(p) = {} THEN size[p] ELSE (CHOOSE c \in InterpOf(p) : TRUE).prog.size
OldTables ==
    {<<p, call[p].old>> : p \in {q \in Procs : call[q].op = "old"}}
    \union UNION {{<<p, c.old>> : c \in InterpOf(p)} : p \in Procs}

(***************************************************************************)
(* The reference count of a frame is the number of page table entries that *)
(* lead to it, through all of fork(), exec(), munmap() and exit(): no page *)
(* is freed while it is mapped, and none is kept that nobody maps.         *)
(***************************************************************************)
PageRefs ==
    \A f \in Frames :
        ref[f] = Cardinality({<<p, v>> \in Procs \X Pages : pt[p][v].pa = f})
                 + Cardinality({<<x, v>> \in OldTables \X Pages : x[2][v].pa = f})

(***************************************************************************)
(* The list of a process is in the order of its addresses, and its regions *)
(* do not overlap, unless is_usable() let one in.                          *)
(***************************************************************************)
RegionsApart ==
    \A p \in Procs : \A m, n \in DOMAIN List(p) :
        m < n => \/ Limit(List(p)[m]) <= obj[List(p)[n]].addr
                 \/ "overlap" \in tainted

(***************************************************************************)
(* An object of the slab is free or in one list, once.                     *)
(***************************************************************************)
ObjectsApart ==
    /\ \A n \in DOMAIN slab : \A p \in Procs : slab[n] \notin Regions(p)
    /\ \A p, q \in Procs : p # q => Regions(p) \intersect Regions(q) = {}
    /\ \A p \in Procs : Cardinality(Regions(p)) = Len(List(p))

(***************************************************************************)
(* Every page a process has mapped is of its heap, its stack or a region,  *)
(* so that somebody will unmap it.                                         *)
(***************************************************************************)
Covered ==
    \A p \in Procs :
        state[p] \in {"run", "zombie"} /\ tainted \intersect {"hole", "overlap", "not written"} = {}
        => Mapped(pt[p]) \subseteq
               OwnPages(SizeNow(p)) \union UNION {Extent(r) : r \in Regions(p)}

(***************************************************************************)
(* A frame two processes map is in a MAP_SHARED region of both: nobody sees*)
(* what another process keeps to itself.                                   *)
(***************************************************************************)
PrivateApart ==
    tainted \intersect {"hole", "overlap", "not written"} = {} =>
    \A p, q \in Procs : p # q =>
        \A v, u \in Pages : Valid(pt[p][v]) /\ pt[p][v].pa = pt[q][u].pa => SharedAt(p, v) /\ SharedAt(q, u)

FromInterp(f) == {p \in Procs : \E c \in InterpOf(p) : c.prog.interp # <<>> /\ c.f = f}

(***************************************************************************)
(* References of an open file: one for every descriptor and every region,  *)
(* and one for every mmap() there has ever been, which nobody gives back.  *)
(***************************************************************************)
FileRefs ==
    panic = "" /\ "not written" \notin tainted =>
    \A f \in 1..NFILES :
        fref[f] = (IF f = 1 THEN Cardinality(fds) ELSE 0) + maps[f] + Cardinality(FromInterp(f))
                  + Cardinality({r \in UNION {Regions(p) : p \in Procs} : obj[r].f = f})

FilePlace(p, v) ==
    LET r == find_mmap_region(p, v) IN (obj[r].off + (v - obj[r].addr) * PG) \div PG
ShowsPlace(p) ==
    \A v \in Mapped(pt[p]) :
        LET r == find_mmap_region(p, v) IN
        r # 0 /\ obj[r].f # 0 =>
            \A k \in FilePages : data[pt[p][v].pa] = k + 1 => k = FilePlace(p, v)

(***************************************************************************)
(* A page of a region shows its own place in the file, zeros or what was   *)
(* stored, never another place: map_file_pages() reads where mmap(),       *)
(* mprotect(), munmap() and page faults ask, and what munmap() and msync() *)
(* write back goes where it came from.  Loads of two processes through one *)
(* open file are told apart.                                               *)
(***************************************************************************)
FilePagesRight ==
    tainted \intersect {"offset", "overlap", "hole"} = {} => \A p \in Procs : ShowsPlace(p)

(***************************************************************************)
(* The same for two processes that load through one open file: the comment *)
(* of map_file_pages() promises the contents from the offset asked for.    *)
(***************************************************************************)
LoadsAsked ==
    tainted \intersect {"overlap", "hole"} = {} => \A p \in Procs : ShowsPlace(p)

KnownPanics ==
    {"mappages: remap"} \X {"low", "stack", "overlap", "hidden", "unreadable", "hole", "heap"}
    \union {"Invalid leaf PTE"} \X {"hole", "overlap", "exec", "not written"}

(***************************************************************************)
(* A panic is one of those that a known defect leads to.                   *)
(***************************************************************************)
OnlyKnownPanics == panic \in {"", Reused} \/ \E t \in tainted : <<panic, t>> \in KnownPanics

(***************************************************************************)
(* When all processes are gone nothing is left of them.                    *)
(***************************************************************************)
NothingLeft ==
    (\A p \in Procs : state[p] = "none") =>
    (\A f \in Frames : ref[f] = 0) /\ Len(slab) = Cardinality(Objects)

=============================================================================
