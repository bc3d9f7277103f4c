----------------------------- MODULE BlockStore -----------------------------
(***************************************************************************)
(* What the buffer cache promises the file system: an array of disk blocks,*)
(* each used by at most one process at a time, whose contents only the     *)
(* process that uses the block can change.                                 *)
(***************************************************************************)
CONSTANTS Procs, Blocks, Values, Nobody

VARIABLES
    content,   \* content[k]: what a process that gets block k finds in it
    user       \* user[k]: the process that uses block k

storeVars == <<content, user>>

StoreInit == content \in [Blocks -> Values] /\ user = [k \in Blocks |-> Nobody]

Get(p, k) == user[k] = Nobody /\ user' = [user EXCEPT ![k] = p] /\ UNCHANGED content

Change(p, k) ==
    /\ user[k] = p
    /\ \E v \in Values : content' = [content EXCEPT ![k] = v]
    /\ UNCHANGED user

Put(p, k) == user[k] = p /\ user' = [user EXCEPT ![k] = Nobody] /\ UNCHANGED content

StoreNext == \E p \in Procs, k \in Blocks : Get(p, k) \/ Change(p, k) \/ Put(p, k)

StoreSpec == StoreInit /\ [][StoreNext]_storeVars
=============================================================================
