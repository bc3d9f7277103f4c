----------------------------- MODULE UserMemory -----------------------------
(***************************************************************************)
(* What vm.c promises its callers: a space is a map from virtual pages to  *)
(* frames with rights.  Pages are added and taken away one at a time and   *)
(* bytes are stored through the map.  The tables behind it do not show.    *)
(***************************************************************************)
EXTENDS Naturals, Sequences

CONSTANTS Spaces, Pages, Frames, PGSIZE

VARIABLES
    flat,   \* the map of each space; pa = 0 where nothing is mapped
    data    \* the bytes of the frames

None == [pa |-> 0, u |-> FALSE, w |-> FALSE]

Used == {flat[s][v].pa : s \in Spaces, v \in Pages} \intersect Frames

\* What is in frames that no space uses does not matter.
OthersKept(f) == \A g \in Used \ {f} : data'[g] = data[g]

Init == \A s \in Spaces, v \in Pages : flat[s][v] = None

\* A page of the kernel appears (trampoline, trapframe).
AddKernelPage(s, v) ==
    /\ flat[s][v] = None
    /\ \E e \in {flat'[s][v]} : /\ e.pa \notin Frames \union {0} /\ ~e.u
                                /\ flat' = [flat EXCEPT ![s][v] = e]
    /\ OthersKept(0)

\* A page of the user's appears in a frame of its own, with content b.
AddPage(s, v, b) ==
    /\ flat[s][v] = None
    /\ \E e \in {flat'[s][v]} : /\ e.pa \in Frames \ Used /\ e.u
                                /\ flat' = [flat EXCEPT ![s][v] = e]
                                /\ data'[e.pa] = b
    /\ OthersKept(0)

\* t gets the page of s: the same frame, or one of its own with the same bytes.
SharePage(s, t, v) ==
    /\ flat[t][v] = None /\ flat[s][v] # None
    /\ flat' = [flat EXCEPT ![t][v] = flat[s][v]]
    /\ OthersKept(0)

CopyPage(s, t, v) ==
    /\ AddPage(t, v, data[flat[s][v].pa])
    /\ flat'[t][v].w = flat[s][v].w

TakePage(s, v) ==
    /\ flat[s][v] # None
    /\ flat' = [flat EXCEPT ![s][v] = None]
    /\ \A g \in {flat'[t][x].pa : t \in Spaces, x \in Pages} \intersect Frames : data'[g] = data[g]

\* Bytes b are stored from address a on, in one page the user may write.
Store(s, a, b) ==
    LET e == flat[s][a \div PGSIZE]
    IN  /\ e.u /\ e.w
        /\ (a + Len(b) - 1) \div PGSIZE = a \div PGSIZE
        /\ flat' = flat
        /\ data'[e.pa] = [i \in 0..(PGSIZE - 1) |-> IF i - (a % PGSIZE) \in 0..(Len(b) - 1)
                                                    THEN b[i - (a % PGSIZE) + 1] ELSE data[e.pa][i]]
        /\ OthersKept(e.pa)
=============================================================================
