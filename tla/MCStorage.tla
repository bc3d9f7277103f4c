------------------------------ MODULE MCStorage -----------------------------
(***************************************************************************)
(* Blocks and the buffers they are used in, for TLC.  An initial state     *)
(* chooses                                                                 *)
(*  - "nested": the buffer cache, used the way bmap() and itrunc() nest an *)
(*    indirect block, a bitmap block and a data block, every change written*)
(*    back;                                                                *)
(*  - "crowd": the buffer cache with more processes than buffers, and      *)
(*    changes left unwritten;                                              *)
(*  - "blocks": the blocks of files, in one of the scenarios of            *)
(*    MCFileBlocks.                                                        *)
(***************************************************************************)
EXTENDS BufferCache, TLC

CONSTANTS
    Crowd,               \* the processes of "crowd", Procs among them
    ind, bmp, blk,
    Layout, Scenarios    \* of "blocks"

FsBlocks == {ind, bmp, blk}
FsNested == {<<ind, bmp>>, <<ind, blk>>}

VARIABLES
    which,
    key3, busy3, valid3, dirty3, refcnt3, pos3, data3, disk3,              \* "crowd"
    holder3, pc3, want3, cur3, chan3, panicked3,
    card, bitmap, dinode, inode, lock, cache, lru, held, off, r, script,   \* "blocks"
    crashes, full, torn, append, wanted, panic

Three ==
    INSTANCE BufferCache WITH
        Procs <- Crowd, NBUF <- 2, Values <- {0}, Nested <- {}, Unwritten <- TRUE,
        key <- key3, busy <- busy3, valid <- valid3, dirty <- dirty3, refcnt <- refcnt3,
        pos <- pos3, data <- data3, disk <- disk3, holder <- holder3, pc <- pc3,
        want <- want3, cur <- cur3, chan <- chan3, panicked <- panicked3

FB ==
    INSTANCE MCFileBlocks WITH
        Procs <- {1, 2}, Inodes <- {1, 2}, NBLOCKS <- 9, NDIRECT <- 1, NINDIRECT <- 2,
        NBUF <- 9, MaxChunk <- 1, Values <- {3},
        disk <- card, busy <- held, want <- wanted, panicked <- panic

Given ==
    INSTANCE MCFileBlocks WITH
        Procs <- {}, Inodes <- {}, NBLOCKS <- 1, NDIRECT <- 1, NINDIRECT <- 1, NBUF <- 1,
        MaxChunk <- 1, Values <- {}, Layout <- <<>>, Scenarios <- {}, panicked <- panic
SomeLayout == Given!MCLayout
SomeScenarios == Given!MCScenarios

crowdVars == <<key3, busy3, valid3, dirty3, refcnt3, pos3, data3, disk3,
               holder3, pc3, want3, cur3, chan3, panicked3>>
blockVars == <<card, bitmap, dinode, inode, lock, cache, lru, held, off, r, script,
               crashes, full, torn, append, wanted, panic>>

(***************************************************************************)
(* What is not chosen rests in one initial state.                          *)
(***************************************************************************)
StorageInit ==
    /\ which \in {"nested", "crowd", "blocks"}
    /\ Init /\ (which # "nested" => disk = [k \in Blocks |-> 0])
    /\ Three!Init
    /\ FB!Init /\ (which # "blocks" => append)

StorageNext ==
    \/ which = "nested" /\ Next /\ UNCHANGED <<which, crowdVars, blockVars>>
    \/ which = "crowd" /\ Three!Next /\ UNCHANGED <<which, vars, blockVars>>
    \/ which = "blocks" /\ FB!Next /\ UNCHANGED <<which, vars, crowdVars>>

StorageSpec == StorageInit /\ [][StorageNext]_<<which, vars, crowdVars, blockVars>>

(***************************************************************************)
(* A block is in one buffer, a buffer is busy while its one user has it,   *)
(* who sleeps waits for a busy buffer, and what is clean equals the disk:  *)
(* BufferCache!OneBufferPerBlock, BusyWhileHeld, SleepersWait and          *)
(* CleanMatchesDisk.  Three processes that fight for two buffers, and may  *)
(* leave changes unwritten, keep all but the last.                         *)
(***************************************************************************)
BuffersOrderly ==
    /\ which = "nested" => OneBufferPerBlock /\ BusyWhileHeld /\ SleepersWait /\ CleanMatchesDisk
    /\ which = "crowd" => Three!OneBufferPerBlock /\ Three!BusyWhileHeld /\ Three!SleepersWait

(***************************************************************************)
(* No block belongs to two places, none is lost, and bfree() frees no free *)
(* block: FileBlocks!BlocksApart, NoneLost and NoPanic.                    *)
(***************************************************************************)
BlocksAccounted ==
    which = "blocks" => FB!TypeOK /\ FB!BlocksApart /\ FB!NoneLost /\ FB!NoPanic

(***************************************************************************)
(* A file reads as it was written, and no append overwrites another:       *)
(* FileBlocks!ContentKept and AppendsKept.                                 *)
(***************************************************************************)
WritesKept ==
    which = "blocks" => FB!ContentKept /\ FB!AppendsKept

(***************************************************************************)
(* A crash between two writes mixes up no files: FileBlocks!CrashSafe.     *)
(***************************************************************************)
CrashSafe ==
    which = "blocks" => FB!CrashSafe

(***************************************************************************)
(* Nobody waits for a buffer or an inode that is never released, neither   *)
(* in bread() (BufferCache!SomeHolderRuns) nor under the calls on files    *)
(* (FileBlocks!NoHang and BuffersReleased).                                *)
(***************************************************************************)
NoHang ==
    (which = "nested" => SomeHolderRuns) /\ (which = "blocks" => FB!NoHang /\ FB!BuffersReleased)

ProcSymmetry == Permutations(Procs)
=============================================================================
