------------------------------- MODULE Buddy -------------------------------
(***************************************************************************)
(* The page allocator: the buddy system of kernel/buddy.c with the         *)
(* reference counts and page_find_head() of kernel/page.c, as kalloc() and *)
(* kfree() (kernel/kalloc.c) and the slabs (kernel/slab.c) use it.  A      *)
(* critical section of buddy_lock or pages_ref.lock is one step.           *)
(*                                                                         *)
(* A free list is the set of its blocks: which of them is at the head is   *)
(* left open.  A page on no list has next = NULL.                          *)
(***************************************************************************)
EXTENDS Naturals, FiniteSetsExt

CONSTANTS
    Procs, MaxOrder,
    NBlocks,   \* PAGE_NUM / 2^PAGE_MAX_ORDER
    Sizes,     \* the block sizes asked for, in pages; the callers never ask for
               \* more than the largest block
    MaxUses    \* bound of the model: the blocks a process uses

Orders == 0..MaxOrder
Pages == 0..(NBlocks * 2^MaxOrder - 1)

ASSUME BuddyAssumption ==
    MaxOrder \in Nat /\ NBlocks \in Nat \ {0} /\ MaxUses \in Nat /\ Sizes \subseteq 1..2^MaxOrder

VARIABLES
    free,                   \* free[k]: the blocks on free_lists[k], by first page
    listed, first,          \* PF_FREE_LIST, PF_FIRST_PAGE
    order, refcnt,
    uses,                   \* uses[p]: the blocks process p has a reference to
    pc, blk,                \* the call p is in, and its page
    panicked

vars == <<free, listed, first, order, refcnt, uses, pc, blk, panicked>>

(***************************************************************************)
(* buddy_init(): all memory is on the list of the largest blocks.          *)
(***************************************************************************)
Init ==
    LET heads == {i \in Pages : i % 2^MaxOrder = 0} IN
    /\ free = [k \in Orders |-> IF k = MaxOrder THEN heads ELSE {}]
    /\ listed = [i \in Pages |-> i \in heads]
    /\ first = [i \in Pages |-> FALSE]
    /\ order = [i \in Pages |-> IF i \in heads THEN MaxOrder ELSE 0]
    /\ refcnt = [i \in Pages |-> 0]
    /\ uses = [p \in Procs |-> {}]
    /\ pc = [p \in Procs |-> "run"] /\ blk = [p \in Procs |-> 0]
    /\ panicked = FALSE

At(p, label) == pc[p] = label /\ ~panicked
Goto(p, label) == pc' = [pc EXCEPT ![p] = label]
Return(p) == Goto(p, "run") /\ blk' = [blk EXCEPT ![p] = 0]

-----------------------------------------------------------------------------
(* buddy_alloc() *)

OrderOf(n) == CHOOSE k \in Orders : 2^k >= n /\ \A j \in 0..(k - 1) : 2^j < n

(***************************************************************************)
(* The flags as buddy_list_pop() and buddy_list_remove() leave them.       *)
(***************************************************************************)
Unlisted(b) == [listed EXCEPT ![b] = FALSE]

(***************************************************************************)
(* buddy_list_pop() from the list of the order itself.                     *)
(***************************************************************************)
Pop(p, k) ==
    \E b \in free[k] :
        /\ free' = [free EXCEPT ![k] = @ \ {b}]
        /\ listed' = Unlisted(b)
        /\ blk' = [blk EXCEPT ![p] = b]
        /\ UNCHANGED order

(***************************************************************************)
(* buddy_pull_block(k): the smallest larger block b, of order j, is halved *)
(* down to order k.  The front half of each halving becomes the head of its*)
(* list, and with its NULL next the whole list; the rear of the last one is*)
(* the block returned.                                                     *)
(***************************************************************************)
FrontHalf(b, j, i) == b + 2^j - 2^(i + 1)

PullBlock(p, k) ==
    /\ free[k] = {}
    /\ \E j \in (k + 1)..MaxOrder :
         /\ free[j] # {} /\ \A i \in (k + 1)..(j - 1) : free[i] = {}
         /\ \E b \in free[j] :
              LET rear == b + 2^j - 2^k
                  fronts == {FrontHalf(b, j, i) : i \in k..(j - 1)}
              IN /\ free' = [i \in Orders |->
                               IF i \in k..(j - 1) THEN {FrontHalf(b, j, i)}
                               ELSE IF i = j THEN free[i] \ {b} ELSE free[i]]
                 /\ listed' = [i \in Pages |-> listed[i] \/ i \in fronts]
                 /\ order' = [n \in Pages |->
                                IF n = rear THEN k
                                ELSE IF n \in fronts
                                THEN CHOOSE i \in k..(j - 1) : n = FrontHalf(b, j, i)
                                ELSE order[n]]
                 /\ blk' = [blk EXCEPT ![p] = rear]

AllocTake(p) ==
    /\ At(p, "run") /\ Cardinality(uses[p]) < MaxUses
    /\ \E n \in Sizes : Pop(p, OrderOf(n)) \/ PullBlock(p, OrderOf(n))
    /\ Goto(p, "got")
    /\ UNCHANGED <<first, refcnt, uses, panicked>>

(***************************************************************************)
(* panic("out of memory") in buddy_pull_block().                           *)
(***************************************************************************)
AllocPanic(p) ==
    /\ At(p, "run") /\ Cardinality(uses[p]) < MaxUses
    /\ \E n \in Sizes : \A j \in OrderOf(n)..MaxOrder : free[j] = {}
    /\ panicked' = TRUE
    /\ UNCHANGED <<free, listed, first, order, refcnt, uses, pc, blk>>

(***************************************************************************)
(* buddy_alloc() after it has let go of buddy_lock.                        *)
(***************************************************************************)
AllocDone(p) ==
    /\ At(p, "got")
    /\ first' = [first EXCEPT ![blk[p]] = TRUE]
    /\ refcnt' = [refcnt EXCEPT ![blk[p]] = 1]
    /\ uses' = [uses EXCEPT ![p] = @ \union {blk[p]}]
    /\ Return(p)
    /\ UNCHANGED <<free, listed, order, panicked>>

(***************************************************************************)
(* fork() by p with child q: uvmcopy() calls page_refcnt_inc() for every   *)
(* page of a MAP_SHARED mapping, all under np->lock.  The pages the child  *)
(* gets copies of are allocations of the child here.                       *)
(***************************************************************************)
Fork(p, q) ==
    /\ At(p, "run") /\ At(q, "run") /\ uses[q] = {}
    /\ \E S \in SUBSET uses[p] \ {{}} :
         /\ refcnt' = [i \in Pages |-> IF i \in S THEN refcnt[i] + 1 ELSE refcnt[i]]
         /\ uses' = [uses EXCEPT ![q] = S]
    /\ UNCHANGED <<free, listed, first, order, pc, blk, panicked>>

-----------------------------------------------------------------------------
(* buddy_free() *)

(***************************************************************************)
(* The reference count decides, under pages_ref.lock, whether the block    *)
(* stays in use.                                                           *)
(***************************************************************************)
StillShared(b) == refcnt[b] > 1

DropRef(p, b) ==
    IF StillShared(b)
    THEN refcnt' = [refcnt EXCEPT ![b] = @ - 1] /\ Return(p)
    ELSE UNCHANGED refcnt /\ Goto(p, "merge") /\ blk' = [blk EXCEPT ![p] = b]

FreeRef(p) ==
    /\ At(p, "run")
    /\ \E b \in uses[p] : DropRef(p, b) /\ uses' = [uses EXCEPT ![p] = @ \ {b}]
    /\ UNCHANGED <<free, listed, first, order, panicked>>

(***************************************************************************)
(* The same for the merged block, in the recursive call.                   *)
(***************************************************************************)
FreeAgain(p) ==
    /\ At(p, "again")
    /\ DropRef(p, blk[p])
    /\ UNCHANGED <<free, listed, first, order, uses, panicked>>

(***************************************************************************)
(* One level of merging under buddy_lock: the block goes on its list, or   *)
(* is merged with its buddy, and then buddy_free() starts again with the   *)
(* merged block, lock released.                                            *)
(***************************************************************************)
buddy_find_buddy_index(i, k) == IF (i \div 2^k) % 2 = 1 THEN i - 2^k ELSE i + 2^k

buddy_is_free_buddy(b) ==
    LET c == buddy_find_buddy_index(b, order[b]) IN listed[c] /\ order[c] = order[b]

\* A wrong version for comparison: a block merges only with a buddy behind it.
MergeForward(b) ==
    order[b] # MaxOrder /\ buddy_is_free_buddy(b) /\ buddy_find_buddy_index(b, order[b]) > b
CanMerge(b) == order[b] # MaxOrder /\ buddy_is_free_buddy(b)

NotFirst(b) == [first EXCEPT ![b] = FALSE]

FreePush(p) ==
    LET b == blk[p] IN
    /\ At(p, "merge") /\ ~CanMerge(b)
    /\ first' = NotFirst(b)
    /\ free' = [free EXCEPT ![order[b]] = @ \union {b}]
    /\ listed' = [listed EXCEPT ![b] = TRUE]
    /\ Return(p)
    /\ UNCHANGED <<order, refcnt, uses, panicked>>

(***************************************************************************)
(* A buddy that carries PF_FREE_LIST but is not on the list is the panic   *)
(* "broken page".                                                          *)
(***************************************************************************)
MergedOrder(b, c, k) == [order EXCEPT ![b] = IF b < c THEN k + 1 ELSE 0,
                                      ![c] = IF c < b THEN k + 1 ELSE 0]
FreeMerge(p) ==
    LET b == blk[p]
        k == order[b]
        c == buddy_find_buddy_index(b, k)
    IN
    /\ At(p, "merge") /\ CanMerge(b)
    /\ first' = NotFirst(b)
    /\ listed' = [listed EXCEPT ![b] = FALSE, ![c] = c \notin free[k]]
    /\ free' = [free EXCEPT ![k] = @ \ {c}]
    /\ IF c \in free[k]
       THEN /\ order' = MergedOrder(b, c, k)
            /\ blk' = [blk EXCEPT ![p] = IF b < c THEN b ELSE c]
            /\ Goto(p, "again") /\ UNCHANGED panicked
       ELSE panicked' = TRUE /\ UNCHANGED <<order, blk, pc>>
    /\ UNCHANGED <<refcnt, uses>>

Next ==
    \E p \in Procs :
        \/ AllocTake(p) \/ AllocPanic(p) \/ AllocDone(p)
        \/ \E q \in Procs \ {p} : Fork(p, q)
        \/ FreeRef(p) \/ FreeAgain(p) \/ FreePush(p) \/ FreeMerge(p)

Spec == Init /\ [][Next]_vars

-----------------------------------------------------------------------------
(* Properties *)

(***************************************************************************)
(* Types; a block on list k starts at a multiple of its size.              *)
(***************************************************************************)
TypeOK ==
    /\ free \in [Orders -> SUBSET Pages]
    /\ \A k \in Orders : \A b \in free[k] : b % 2^k = 0
    /\ listed \in [Pages -> BOOLEAN] /\ first \in [Pages -> BOOLEAN]
    /\ order \in [Pages -> Orders] /\ refcnt \in [Pages -> 0..Cardinality(Procs)]
    /\ uses \in [Procs -> SUBSET Pages]
    /\ pc \in [Procs -> {"run", "got", "again", "merge"}] /\ blk \in [Procs -> Pages]
    /\ panicked \in BOOLEAN

Extent(b, k) == b..(b + 2^k - 1)
Used == UNION {uses[p] : p \in Procs}
FreeBlocks == UNION {{<<b, k>> : b \in free[k]} : k \in Orders}

(***************************************************************************)
(* The blocks that allocations and frees in progress have in their hands.  *)
(***************************************************************************)
InFlight == {p \in Procs : pc[p] # "run"}

(***************************************************************************)
(* No page is lost and none is given out twice: the blocks on the free     *)
(* lists, the ones in use and the ones being allocated or freed share out  *)
(* all pages, each to exactly one of them.  A block leaves use only with   *)
(* its last reference.                                                     *)
(***************************************************************************)
Conserved ==
    LET held == {<<b, order[b]>> : b \in Used \union {blk[p] : p \in InFlight}}
        all == FreeBlocks \union held
    IN /\ FreeBlocks \intersect held = {}
       /\ \A p, q \in InFlight : blk[p] = blk[q] => p = q
       /\ \A p \in InFlight : blk[p] \notin Used
       /\ \A i \in Pages : \E x \in all : /\ i \in Extent(x[1], x[2])
                                          /\ \A y \in all : i \in Extent(y[1], y[2]) => y = x

(***************************************************************************)
(* Memory does not stay split: two halves of a block are never both on a   *)
(* free list, although buddy_lock is released between two levels of a merge*)
(* and both halves may be on their way to the list at the same time.       *)
(***************************************************************************)
BuddiesMerged ==
    \A k \in 0..(MaxOrder - 1) : \A b \in free[k] : buddy_find_buddy_index(b, k) \notin free[k]

(***************************************************************************)
(* PF_FREE_LIST and page->order say where a page is listed, so that        *)
(* buddy_free() never meets a "broken page".                               *)
(***************************************************************************)
FlagsMatchLists ==
    \A i \in Pages, k \in Orders : i \in free[k] <=> (listed[i] /\ order[i] = k)

(***************************************************************************)
(* page_find_head(), by which slab_cache_free() finds the slab of an       *)
(* object, leads from every page of a block in use to its first page:      *)
(* no PF_FIRST_PAGE is left behind inside the block.                       *)
(***************************************************************************)
page_find_head(i) ==
    LET heads == {j \in 0..i : first[j]} IN IF heads = {} THEN NBlocks * 2^MaxOrder ELSE Max(heads)

HeadFound == \A b \in Used : \A i \in Extent(b, order[b]) : page_find_head(i) = b

=============================================================================
