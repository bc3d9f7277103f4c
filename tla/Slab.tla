-------------------------------- MODULE Slab --------------------------------
(***************************************************************************)
(* Slab caches (kernel/slab.c): caches of objects of one size, carved from *)
(* blocks of the page allocator.  Sizes and offsets are the code's bytes.  *)
(*                                                                         *)
(* A call holds the lock of its cache, or slab_lock, throughout, and so is *)
(* one step.  A cache and a slab are named by numbers in the order of their*)
(* creation; buddy_alloc() gives a slab a block of its own, or panics.     *)
(***************************************************************************)
EXTENDS Integers, Sequences, FiniteSets

CONSTANTS
    PageSize, PageMaxDepth,  \* PAGE_SIZE, PAGE_MAX_DEPTH
    Requests,                \* the <<size, alignment>> that caches are created with
    Used,                    \* those of them from which objects are taken
    CachesPerPage,           \* PAGE_SIZE / sizeof(struct slab_cache)
    MaxCaches, MaxAllocs, MaxFrees  \* bounds of the model

VARIABLES
    cache,       \* the caches in use: sequence of records
    freeCaches,  \* the length of the list free_cache_head
    slab,        \* the slabs, live or destroyed: sequence of records
    uses,        \* history: uses[s][i], how many callers have object i of slab s
    allocs, frees,
    panic

vars == <<cache, freeCaches, slab, uses, allocs, frees, panic>>

HeaderSize == 24            \* sizeof(struct slab_header)
SLAB_HEADER_SIZE == HeaderSize + 4
FREE_END == -1              \* SLAB_FREE_END, the largest 32-bit number: no entry

RoundUp(n, align) == ((n + align - 1) \div align) * align
Init ==
    /\ cache = <<>> /\ freeCaches = 0 /\ slab = <<>> /\ uses = <<>>
    /\ allocs = 0 /\ frees = 0 /\ panic = ""

-----------------------------------------------------------------------------
(* slab_cache_create(), slab_cache_destroy() *)

(***************************************************************************)
(* The largest object for a slab of 2^i pages, set by slab_cache_init().   *)
(***************************************************************************)
slab_size_limits(i) == (PageSize * 2^i) \div 9 - (SLAB_HEADER_SIZE \div 8 + 1) - 4

ObjectSize(size, alignment) == RoundUp(size, IF alignment = 0 THEN 4 ELSE alignment)

(***************************************************************************)
(* The slab size for the object size; 0 when no slab is large enough.      *)
(***************************************************************************)
SlabSize(objectSize) ==
    LET fits == {i \in 0..(PageMaxDepth - 1) : objectSize <= slab_size_limits(i)} IN
    IF fits = {} THEN 0
    ELSE PageSize * 2^(CHOOSE i \in fits : \A j \in fits : i <= j)

slab_max_object_num(c) == (c.slabSize - SLAB_HEADER_SIZE - c.alignment) \div (c.objectSize + 4)

(***************************************************************************)
(* The structures left on the free list, which gets a page of them when it *)
(* is empty, after one is taken; and after one is put back.                *)
(***************************************************************************)
slab_cache_new == (IF freeCaches = 0 THEN CachesPerPage ELSE freeCaches) - 1
slab_cache_delete == freeCaches + 1

(***************************************************************************)
(* A structure whose object is too large for every slab is not put back.   *)
(***************************************************************************)
slab_cache_create(size, alignment) ==
    LET objectSize == ObjectSize(size, alignment) IN
    /\ Len(cache) < MaxCaches
    /\ freeCaches' = slab_cache_new
    /\ cache' = IF SlabSize(objectSize) = 0 THEN cache
                ELSE Append(cache, [request |-> <<size, alignment>>, objectSize |-> objectSize,
                                    alignment |-> alignment, slabSize |-> SlabSize(objectSize),
                                    partial |-> <<>>, full |-> <<>>, live |-> TRUE])
    /\ UNCHANGED <<slab, uses, allocs, frees, panic>>

(***************************************************************************)
(* The blocks of all slabs are freed and the structure goes back to the    *)
(* free list.  The kernel has no caller; a caller has to be done with the  *)
(* objects.                                                                *)
(***************************************************************************)
slab_cache_destroy(k) ==
    LET c == cache[k]
        mine == {c.partial[i] : i \in DOMAIN c.partial} \union {c.full[i] : i \in DOMAIN c.full}
    IN /\ c.live
       /\ \A s \in mine : \A i \in DOMAIN uses[s] : uses[s][i] = 0
       /\ slab' = [s \in DOMAIN slab |-> [slab[s] EXCEPT !.block = @ /\ s \notin mine]]
       /\ cache' = [cache EXCEPT ![k].live = FALSE, ![k].partial = <<>>, ![k].full = <<>>]
       /\ freeCaches' = slab_cache_delete
       /\ UNCHANGED <<uses, allocs, frees, panic>>

-----------------------------------------------------------------------------
(* slab_cache_alloc() *)

(***************************************************************************)
(* Where the objects of a slab start: behind the header and the numbers of *)
(* the free list, aligned.                                                 *)
(***************************************************************************)
FreeEnd(c) == HeaderSize + 4 * (slab_max_object_num(c) + 1)
ObjectsAt(c) == IF c.alignment = 0 THEN FreeEnd(c) ELSE RoundUp(FreeEnd(c), c.alignment)

slab_new(k) ==
    LET n == slab_max_object_num(cache[k]) IN
    [cache |-> k, block |-> TRUE, free |-> 0,
     next |-> [i \in 0..n |-> IF i = n THEN FREE_END ELSE i + 1]]

(***************************************************************************)
(* Object h.free is taken from slab h; its entry gets the end mark.        *)
(***************************************************************************)
Taken(h) == [h EXCEPT !.next[h.free] = FREE_END, !.free = h.next[h.free]]

(***************************************************************************)
(* The slab whose last object is taken moves to the list of full slabs.    *)
(***************************************************************************)
Filled(c, s) == [c EXCEPT !.partial = Tail(@), !.full = <<s>> \o @]

slab_cache_alloc(k) ==
    LET c == cache[k]
        new == c.partial = <<>>
        s == IF new THEN Len(slab) + 1 ELSE Head(c.partial)
        h == IF new THEN slab_new(k) ELSE slab[s]
        t == Taken(h)
        owned == IF new THEN [c EXCEPT !.partial = <<s>>] ELSE c
        count == IF new THEN [i \in 0..(slab_max_object_num(c) - 1) |-> 0] ELSE uses[s]
        given == [count EXCEPT ![h.free] = @ + 1]
    IN /\ c.live /\ c.request \in Used /\ allocs < MaxAllocs
       /\ slab' = IF new THEN Append(slab, t) ELSE [slab EXCEPT ![s] = t]
       /\ uses' = IF new THEN Append(uses, given) ELSE [uses EXCEPT ![s] = given]
       /\ cache' = [cache EXCEPT ![k] = IF t.next[t.free] = FREE_END THEN Filled(owned, s) ELSE owned]
       /\ allocs' = allocs + 1
       /\ UNCHANGED <<freeCaches, frees, panic>>

-----------------------------------------------------------------------------
(* slab_cache_free() *)

(***************************************************************************)
(* Object i of slab h becomes the first free one.                          *)
(***************************************************************************)
\* A wrong version for comparison: the other free objects are forgotten.
PutBackLast(h, i) == [h EXCEPT !.next[i] = FREE_END, !.free = i]
PutBack(h, i) == [h EXCEPT !.next[i] = h.free, !.free = i]

Without(seq, s) == SelectSeq(seq, LAMBDA x : x # s)

(***************************************************************************)
(* page_find_head() finds the slab of the object.  The first object freed  *)
(* of a full slab moves the slab to the partly used ones; what is released *)
(* then is slab_lock, which is not held: release() panics.                 *)
(***************************************************************************)
slab_cache_free(s, i) ==
    LET k == slab[s].cache
        c == cache[k]
        h == PutBack(slab[s], i)
        wasFull == h.next[slab[s].free] = FREE_END
        listed == s \in {c.full[j] : j \in DOMAIN c.full}
    IN /\ uses[s][i] > 0 /\ frees < MaxFrees
       /\ slab' = [slab EXCEPT ![s] = h]
       /\ uses' = [uses EXCEPT ![s][i] = @ - 1]
       /\ cache' = IF wasFull /\ listed
                   THEN [cache EXCEPT ![k].full = Without(@, s), ![k].partial = <<s>> \o @]
                   ELSE cache
       /\ panic' = IF ~wasFull THEN "" ELSE IF listed THEN "release" ELSE "broken slab"
       /\ frees' = frees + 1
       /\ UNCHANGED <<freeCaches, allocs>>

Next ==
    /\ panic = ""
    /\ \/ \E r \in Requests : slab_cache_create(r[1], r[2])
       \/ \E k \in DOMAIN cache : slab_cache_destroy(k)
       \/ \E k \in DOMAIN cache : slab_cache_alloc(k)
       \/ \E s \in DOMAIN slab : \E i \in DOMAIN uses[s] : slab_cache_free(s, i)

Spec == Init /\ [][Next]_vars

-----------------------------------------------------------------------------
(* Properties *)

Full(s) == \A i \in DOMAIN uses[s] : uses[s][i] > 0
Partial(k) == {cache[k].partial[i] : i \in DOMAIN cache[k].partial}
FullOf(k) == {cache[k].full[i] : i \in DOMAIN cache[k].full}

(***************************************************************************)
(* Types: the free list of a slab holds numbers of its own entries or the  *)
(* end mark, and header->free points at one of them.                       *)
(***************************************************************************)
TypeOK ==
    /\ freeCaches \in Nat /\ panic \in {"", "release", "broken slab"}
    /\ \A k \in DOMAIN cache : slab_max_object_num(cache[k]) >= 8
    /\ \A s \in DOMAIN slab :
          LET n == slab_max_object_num(cache[slab[s].cache]) IN
          /\ slab[s].free \in 0..n
          /\ slab[s].next \in [0..n -> 0..n \union {FREE_END}]

(***************************************************************************)
(* The layout computed by slab_max_object_num() and slab_new(): in a slab  *)
(* the objects start behind the free list, the last one ends within the    *)
(* block, every object is aligned as asked, and the numbers leave no room  *)
(* for one more object unless the alignment took it.                       *)
(***************************************************************************)
LayoutFits ==
    \A k \in DOMAIN cache :
        LET c == cache[k]
            n == slab_max_object_num(c)
            size == c.request[1]
        IN /\ ObjectsAt(c) >= HeaderSize + 4 * (n + 1)
           /\ ObjectsAt(c) + n * c.objectSize <= c.slabSize
           /\ c.objectSize >= size
           /\ \A i \in {0, 1, n - 1} :
                 (ObjectsAt(c) + i * c.objectSize) % (IF c.alignment = 0 THEN 4 ELSE c.alignment) = 0
           /\ HeaderSize + 4 * (n + 2) + (n + 1) * c.objectSize + c.alignment > c.slabSize

(***************************************************************************)
(* The free list of a slab: following the numbers from header->free visits *)
(* exactly the objects no caller has, each once, and ends at entry n.      *)
(***************************************************************************)
ChainsExact ==
    \A s \in DOMAIN slab :
        LET h == slab[s]
            n == slab_max_object_num(cache[h.cache])
            unused == {i \in DOMAIN uses[s] : uses[s][i] = 0}
            after[m \in 0..n] == IF m = 0 THEN h.free
                                 ELSE IF after[m - 1] = FREE_END THEN FREE_END
                                 ELSE h.next[after[m - 1]]
            last == Cardinality(unused)
        IN /\ {after[m] : m \in 0..(last - 1)} = unused
           /\ after[last] = n /\ h.next[n] = FREE_END
           /\ \A i \in DOMAIN uses[s] \ unused : h.next[i] = FREE_END

(***************************************************************************)
(* slab_cache_alloc() never gives an object to two callers.                *)
(***************************************************************************)
OneOwner == \A s \in DOMAIN slab : \A i \in DOMAIN uses[s] : uses[s][i] <= 1

(***************************************************************************)
(* The two lists of a cache: a slab of the cache is on exactly one of them,*)
(* once; it is on slabs_full exactly when all its objects are in use.  The *)
(* blocks of a destroyed cache, and no others, have been freed.            *)
(***************************************************************************)
ListsMatchUse ==
    \A k \in {j \in DOMAIN cache : cache[j].live} :
        /\ {s \in DOMAIN slab : slab[s].cache = k} = Partial(k) \union FullOf(k)
        /\ Len(cache[k].partial) = Cardinality(Partial(k)) /\ Len(cache[k].full) = Cardinality(FullOf(k))
        /\ FullOf(k) = {s \in DOMAIN slab : slab[s].cache = k /\ Full(s)}
        /\ Partial(k) \intersect FullOf(k) = {}
        /\ \A s \in DOMAIN slab : slab[s].block <=> cache[slab[s].cache].live

(***************************************************************************)
(* panic("broken slab") is never reached: a slab whose header->free is at  *)
(* the end mark is on slabs_full.                                          *)
(***************************************************************************)
NeverBroken == panic # "broken slab"

(***************************************************************************)
(* slab_cache_free() releases the lock it acquired, as its comments say:   *)
(* "lock" is opened on both ways out, so that no call panics.              *)
(***************************************************************************)
LockReleased == panic # "release"
=============================================================================
