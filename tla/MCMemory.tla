------------------------------ MODULE MCMemory ------------------------------
(***************************************************************************)
(* The kernel's allocators and the page tables for TLC: an initial state   *)
(* chooses one of them, and the behaviour is that one's.                   *)
(***************************************************************************)
EXTENDS Buddy, TLC

VARIABLES
    which,
    cache, freeCaches, slab, slabUses, allocs, frees, slabPanic,           \* Slab
    ptr, size, freep, pages, call, proc, execs, leaked, kmPanic,           \* Kmalloc
    mem, data, ref, root, sz, todo, ops, ptPanic                           \* PageTable

(***************************************************************************)
(* <<444, 0>> gives 9 objects in a slab of a page: two slabs are filled.   *)
(* <<48, 0>> and <<4096, 64>> are the caches of the kernel; the others are *)
(* created for their layout.                                               *)
(***************************************************************************)
SlabSpec ==
    INSTANCE Slab WITH
        PageSize <- 4096, PageMaxDepth <- 11,
        Requests <- {444, 48, 447, 4096, 500000} \X {0, 8, 64}, Used <- {<<444, 0>>},
        CachesPerPage <- 2, MaxCaches <- 2, MaxAllocs <- 11, MaxFrees <- 2,
        uses <- slabUses, panic <- slabPanic

(***************************************************************************)
(* Pages of 5 headers.                                                     *)
(***************************************************************************)
KmallocSpec ==
    INSTANCE Kmalloc WITH
        Procs <- {1, 2}, PGSIZE <- 80, HeaderSize <- 16, NPAGES <- 3,
        Lengths <- {33}, Names <- {64, 70}, Ends <- {0, 8, 40},
        MaxArgs <- 2, MaxExecs <- 2, panic <- kmPanic

(***************************************************************************)
(* Tables of 4 entries and pages of 2 bytes, so 32 pages.  The heap, the   *)
(* second region and the stack cross from one table to the next; addresses *)
(* are asked for around each of these borders and the end of the space.    *)
(***************************************************************************)
Area(page, shared, w) == [first |-> page, n |-> 2, shared |-> shared, w |-> w]
Bytes(a, b) == [a |-> a, b |-> b]

PageTableSpec ==
    INSTANCE PageTable WITH
        Spaces <- {1, 2}, NP <- 4, PGSIZE <- 2, NFRAMES <- 22,
        Regions <- {Area(16, TRUE, TRUE), Area(19, FALSE, FALSE)},
        Texts <- {1, 4}, Sizes <- {3, 9}, MaxOps <- 4,
        Stores <- {Bytes(1, <<1, 2, 3>>), Bytes(6, <<1, 2, 3, 4>>), Bytes(33, <<3, 1>>),
                   Bytes(55, <<1, 2, 3, 4>>)},
        Asks <- {[a |-> a, len |-> n] : a \in {0, 3, 7, 33, 39, 55, 61, 64}, n \in {0, 1, 5}},
        panic <- ptPanic

slabVars == <<cache, freeCaches, slab, slabUses, allocs, frees, slabPanic>>
kmVars == <<ptr, size, freep, pages, call, proc, execs, leaked, kmPanic>>
ptVars == <<mem, data, ref, root, sz, todo, ops, ptPanic>>

MemInit ==
    /\ which \in {"buddy", "slab", "kmalloc", "tables"}
    /\ Init /\ SlabSpec!Init /\ KmallocSpec!Init
    /\ \/ which = "tables" /\ PageTableSpec!Init
       \/ /\ which # "tables" /\ mem = <<>> /\ data = <<>> /\ ref = <<>> /\ root = <<>>
          /\ sz = <<>> /\ todo = <<>> /\ ops = 0 /\ ptPanic = ""

MemNext ==
    \/ which = "buddy" /\ Next /\ UNCHANGED <<which, slabVars, kmVars, ptVars>>
    \/ which = "slab" /\ SlabSpec!Next /\ UNCHANGED <<which, vars, kmVars, ptVars>>
    \/ which = "kmalloc" /\ KmallocSpec!Next /\ UNCHANGED <<which, vars, slabVars, ptVars>>
    \/ which = "tables" /\ PageTableSpec!Next /\ UNCHANGED <<which, vars, slabVars, kmVars>>

MemSpec == MemInit /\ [][MemNext]_<<which, vars, slabVars, kmVars, ptVars>>

(***************************************************************************)
(* Every page is free or owned, once; flags match the free lists, the      *)
(* first page of a block is found from each of its pages, and free         *)
(* buddies are merged: Buddy!Conserved, FlagsMatchLists, HeadFound and     *)
(* BuddiesMerged.                                                          *)
(***************************************************************************)
PagesConserved ==
    which = "buddy" => TypeOK /\ Conserved /\ FlagsMatchLists /\ HeadFound /\ BuddiesMerged

(***************************************************************************)
(* A slab's layout fits, its free list is exactly its unused objects, no   *)
(* object has two owners, and a slab is on the list its use calls for:     *)
(* Slab!LayoutFits, ChainsExact, OneOwner, ListsMatchUse and NeverBroken.  *)
(***************************************************************************)
SlabsExact ==
    which = "slab" =>
        /\ SlabSpec!TypeOK /\ SlabSpec!LayoutFits /\ SlabSpec!ChainsExact
        /\ SlabSpec!OneOwner /\ SlabSpec!ListsMatchUse /\ SlabSpec!NeverBroken

(***************************************************************************)
(* Blocks in use and free blocks partition the pages, the free list is     *)
(* sorted and joined, and kmalloc() takes at most one new page:            *)
(* Kmalloc!Partitioned, SortedAndJoined and GrowsOnce.                     *)
(***************************************************************************)
HeapExact ==
    which = "kmalloc" =>
        /\ KmallocSpec!TypeOK /\ KmallocSpec!Partitioned
        /\ KmallocSpec!SortedAndJoined /\ KmallocSpec!GrowsOnce

(***************************************************************************)
(* Frames are counted once for each use, no page is mapped twice and none  *)
(* is left when tables are freed: PageTable!PagesCounted, OnlyOutOfFrames. *)
(***************************************************************************)
FramesCounted ==
    which = "tables" =>
        PageTableSpec!TypeOK /\ PageTableSpec!PagesCounted /\ PageTableSpec!OnlyOutOfFrames

(***************************************************************************)
(* copyin() and copyinstr() against their meaning: PageTable!CopiesRight.  *)
(***************************************************************************)
CopiesRight ==
    which = "tables" => PageTableSpec!CopiesRight

(***************************************************************************)
(* The tables are a flat map: PageTable!ImplementsUserMemory.              *)
(***************************************************************************)
ImplementsUserMemory ==
    [][which = "tables" => PageTableSpec!AsAsked]_ptVars

ProcSymmetry == Permutations(Procs)
=============================================================================
