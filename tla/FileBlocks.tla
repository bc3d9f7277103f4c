----------------------------- MODULE FileBlocks -----------------------------
(***************************************************************************)
(* The blocks of files: balloc(), bfree(), bmap(), itrunc(), readi() and   *)
(* writei() of kernel/fs.c under the reads and writes of kernel/file.c,    *)
(* with the buffers they go through and with crashes.                      *)
(*                                                                         *)
(* A block has NINDIRECT cells: block numbers in an indirect block, the    *)
(* value of a data block in its first cell.  Offsets and sizes count       *)
(* blocks.  A step is one stretch with a busy buffer or, in bmap() and     *)
(* itrunc(), one block in it; the bitmap and the inodes on disk change     *)
(* under their own buffers, and every bwrite() reaches the disk.           *)
(***************************************************************************)
EXTENDS Integers, Sequences, FiniteSets, FiniteSetsExt, SequencesExt

CONSTANTS Procs,        \* processes
          Inodes,       \* files on the disk, by inode
          NBLOCKS,      \* data blocks of the disk
          NDIRECT, NINDIRECT,
          NBUF,         \* buffers
          MaxChunk,     \* blocks that filewrite() hands to writei() at a time
          Values,       \* what a block of data can be
          Layout,       \* the files that mkfs makes: a sequence of values for each
          Scenarios     \* for each process a sequence of sets of calls, and whether the machine may crash

BlockNos == 1..NBLOCKS
Idx == 0..NINDIRECT-1
Zero == [j \in Idx |-> 0]
Roots == 0..NDIRECT+1
NoAddrs == [k \in Roots |-> 0]
MAXFILE == NDIRECT + NINDIRECT + NINDIRECT * NINDIRECT
Unknown == -1               \* a value that a failed copy left undefined

VARIABLES disk,         \* the cells of every block, on disk
          bitmap,       \* blocks marked in use, on disk
          dinode,       \* addrs and size of the inodes, on disk
          inode,        \* the same in the inode table
          lock,         \* who holds ip->lock
          cache,        \* the cells in the buffer of a block that has one
          lru,          \* blocks that have a buffer, the last released first
          busy,         \* who holds the buffer of a block
          off,          \* f->off of the one open file of each inode
          r,            \* what each process is doing
          script,       \* the calls to come
          crashes,      \* "may" the machine crash, "never", or "was" there a crash
          full,         \* balloc() has found no block
          torn,         \* a crash has interrupted a removal
          append,       \* the files were opened for appending, and are only written
          want,         \* the contents of the files, as their writers know them
          panicked

vars == <<disk, bitmap, dinode, inode, lock, cache, lru, busy, off, r, script, crashes, full, torn, append, want, panicked>>

-----------------------------------------------------------------------------
(* Buffers *)

Cells(b) == IF b \in DOMAIN cache THEN cache[b] ELSE disk[b]

(* With a buffer for every block the order of release is never used. *)
Ordered(s) == IF NBUF >= NBLOCKS THEN <<>> ELSE s

(***************************************************************************)
(* bread() of b, which then holds the cells c; hold tells whether it stays *)
(* busy or is released at once.  Without a buffer, b gets an unused one or *)
(* that of the block released first.  A pointer into a recycled buffer     *)
(* then points at b.                                                       *)
(***************************************************************************)
Victim(held) == CHOOSE v \in ToSet(lru) \ held :
                    \A i, j \in DOMAIN lru : lru[i] = v /\ lru[j] \notin held => j <= i
ToFront(s, b) == <<b>> \o SelectSeq(s, LAMBDA x : x # b)

Bread(p, b, c, hold, regs) ==
    LET held == DOMAIN busy
        evict == b \notin DOMAIN cache /\ Len(lru) = NBUF
        v == Victim(held)
        kept == IF evict THEN DOMAIN cache \ {v} ELSE DOMAIN cache
        place == IF b \in DOMAIN cache THEN lru
                 ELSE IF evict THEN [lru EXCEPT ![CHOOSE i \in DOMAIN lru : lru[i] = v] = b] ELSE Append(lru, b)
        moved(g) == IF evict /\ g.a = v THEN [g EXCEPT !.a = b] ELSE g IN
    /\ cache' = [x \in kept \cup {b} |-> IF x = b THEN c ELSE cache[x]]
    /\ lru' = Ordered(IF hold THEN place ELSE ToFront(place, b))
    /\ busy' = IF hold THEN [x \in held \cup {b} |-> IF x = b THEN p ELSE busy[x]]
               ELSE [x \in held \ {b} |-> busy[x]]
    /\ r' = [q \in Procs |-> moved(IF q = p THEN regs ELSE r[q])]

Regs(p, regs) == r' = [r EXCEPT ![p] = regs] /\ UNCHANGED <<cache, lru, busy>>
Wrote(b, c) == disk' = [disk EXCEPT ![b] = c]
Panic(why) ==
    panicked' = why /\ UNCHANGED <<disk, bitmap, dinode, inode, lock, cache, lru, busy, off, r, script, crashes, full, torn, append, want>>
At(p, pc) == panicked = "" /\ r[p].pc = pc

-----------------------------------------------------------------------------
(* bmap() *)

Root(bn) == IF bn < NDIRECT THEN bn ELSE IF bn < NDIRECT + NINDIRECT THEN NDIRECT ELSE NDIRECT + 1
Path(bn) ==
    LET n1 == bn - NDIRECT
        n2 == n1 - NINDIRECT IN
    IF n1 < 0 THEN <<>> ELSE IF n2 < 0 THEN <<n1>> ELSE <<n2 \div NINDIRECT, n2 % NINDIRECT>>

(***************************************************************************)
(* The top of the loops of readi() and writei(): bmap() takes its way from *)
(* the inode, which is locked.                                             *)
(***************************************************************************)
Onward(q) == IF q.path = <<>> THEN [q EXCEPT !.pc = "data"] ELSE [q EXCEPT !.pc = "walk"]
Loop(q) ==
    LET addr == inode[q.i].addrs[Root(q.off)]
        on == [q EXCEPT !.path = Path(q.off), !.addr = addr] IN
    IF q.n = 0 THEN [q EXCEPT !.pc = "end"] ELSE IF addr = 0 THEN [on EXCEPT !.pc = "balloc"] ELSE Onward(on)

(* One level of indirect blocks; a missing block is sought with the buffer held. *)
Walk(p) ==
    /\ At(p, "walk")
    /\ LET q == r[p]
           next == Cells(q.addr)[Head(q.path)] IN
       /\ q.addr \notin DOMAIN busy
       /\ IF next = 0 THEN Bread(p, q.addr, Cells(q.addr), TRUE, [q EXCEPT !.pc = "balloc"])
          ELSE Bread(p, q.addr, Cells(q.addr), FALSE, Onward([q EXCEPT !.addr = next, !.path = Tail(@)]))
    /\ UNCHANGED <<disk, bitmap, dinode, inode, lock, off, script, crashes, full, torn, append, want, panicked>>

(* balloc() marks the first free block.  Without one bmap() returns 0, and the buffer it holds stays busy. *)
FreeBlocks == BlockNos \ bitmap
Marked(b) == bitmap \cup {b}
Balloc(p) ==
    /\ At(p, "balloc")
    /\ IF FreeBlocks = {}
       THEN /\ Regs(p, [r[p] EXCEPT !.addr = 0, !.pc = "end"])
            /\ full' = TRUE
            /\ UNCHANGED bitmap
       ELSE /\ bitmap' = Marked(Min(FreeBlocks))
            /\ Regs(p, [r[p] EXCEPT !.new = Min(FreeBlocks), !.pc = "bzero"])
            /\ UNCHANGED full
    /\ UNCHANGED <<disk, dinode, inode, lock, off, script, crashes, torn, append, want, panicked>>

(* bzero(); then the block number goes into the inode, or into the indirect block. *)
Bzero(p) ==
    /\ At(p, "bzero")
    /\ r[p].new \notin DOMAIN busy
    /\ Wrote(r[p].new, Zero)
    /\ IF r[p].addr = 0
       THEN /\ inode' = [inode EXCEPT ![r[p].i].addrs[Root(r[p].off)] = r[p].new]
            /\ Bread(p, r[p].new, Zero, FALSE, Onward([r[p] EXCEPT !.addr = r[p].new]))
       ELSE Bread(p, r[p].new, Zero, FALSE, [r[p] EXCEPT !.pc = "link"]) /\ UNCHANGED inode
    /\ UNCHANGED <<bitmap, dinode, lock, off, script, crashes, full, torn, append, want, panicked>>

\* A wrong version for comparison: the link is not written.
LinkUnwritten(p) ==
    /\ At(p, "link")
    /\ LET q == r[p]
           c == [cache[q.addr] EXCEPT ![Head(q.path)] = q.new] IN
       /\ Bread(p, q.addr, c, FALSE, Onward([q EXCEPT !.addr = q.new, !.path = Tail(@)]))
    /\ UNCHANGED <<disk, bitmap, dinode, inode, lock, off, script, crashes, full, torn, append, want, panicked>>

Link(p) ==
    /\ At(p, "link")
    /\ LET q == r[p]
           c == [cache[q.addr] EXCEPT ![Head(q.path)] = q.new] IN
       /\ Wrote(q.addr, c)
       /\ Bread(p, q.addr, c, FALSE, Onward([q EXCEPT !.addr = q.new, !.path = Tail(@)]))
    /\ UNCHANGED <<bitmap, dinode, inode, lock, off, script, crashes, full, torn, append, want, panicked>>

-----------------------------------------------------------------------------
(* readi() and writei() under ip->lock *)

Put(s, k, v) == IF k = Len(s) THEN Append(s, v) ELSE IF k < Len(s) THEN [s EXCEPT ![k + 1] = v] ELSE s
Blur(s, k) == IF k < Len(s) THEN [s EXCEPT ![k + 1] = Unknown] ELSE s
Next1(q) == Loop([q EXCEPT !.off = @ + 1, !.n = @ - 1, !.tot = @ + 1])

(* A block is copied in and written, or the copy fails and the changed buffer is released. *)
WriteData(p) ==
    /\ At(p, "data") /\ r[p].op = "write"
    /\ r[p].addr \notin DOMAIN busy
    /\ LET q == r[p]
           c == [Cells(q.addr) EXCEPT ![0] = q.val] IN
       \/ /\ Wrote(q.addr, c)
          /\ Bread(p, q.addr, c, FALSE, Next1(q))
          /\ want' = [want EXCEPT ![q.i] = Put(@, q.off, q.val)]
       \/ /\ q.user
          /\ Bread(p, q.addr, c, FALSE, [q EXCEPT !.pc = "end"])
          /\ want' = [want EXCEPT ![q.i] = Blur(@, q.off)]
          /\ UNCHANGED disk
    /\ UNCHANGED <<bitmap, dinode, inode, lock, off, script, crashes, full, torn, append, panicked>>

ReadData(p) ==
    /\ At(p, "data") /\ r[p].op = "read"
    /\ r[p].addr \notin DOMAIN busy
    /\ LET q == r[p] IN
       \/ Bread(p, q.addr, Cells(q.addr), FALSE, [Next1(q) EXCEPT !.val = Cells(q.addr)[0]])
       \/ /\ q.user
          /\ Bread(p, q.addr, Cells(q.addr), FALSE, [q EXCEPT !.pc = "end", !.tot = -1])
    /\ UNCHANGED <<disk, bitmap, dinode, inode, lock, off, script, crashes, full, torn, append, want, panicked>>

-----------------------------------------------------------------------------
(* fileread(), filewrite(), writeback() and sendfile() *)

Idle == [pc |-> "idle", call |-> "", op |-> "", i |-> 0, off |-> 0, n |-> 0, n1 |-> 0, tot |-> 0, left |-> 0,
         val |-> 0, user |-> TRUE, addr |-> 0, path |-> <<>>, new |-> 0, a |-> 0, bp |-> 0, k |-> 0, m |-> 0]

Enter(p, regs) ==
    /\ panicked = "" /\ r[p].pc = "idle" /\ script[p] # <<>>
    /\ regs.call \in Head(script[p])
    /\ Regs(p, regs)
    /\ script' = [script EXCEPT ![p] = Tail(@)]
    /\ UNCHANGED <<disk, bitmap, dinode, inode, lock, crashes, full, torn, append, want, panicked>>

Write(p) ==
    \E i \in Inodes, v \in Values, n \in 1..MaxChunk + 1 :
        Enter(p, [Idle EXCEPT !.pc = "lock", !.call = "write", !.op = "write", !.i = i, !.left = n, !.val = v])
        /\ UNCHANGED off
Read(p) ==
    \E i \in Inodes, n \in 1..2 :
        Enter(p, [Idle EXCEPT !.pc = "lock", !.call = "read", !.op = "read", !.i = i, !.left = n]) /\ UNCHANGED off

(* writeback() computes the length from the size before it has the lock. *)
Writeback(p) ==
    \E i \in Inodes, o \in 0..1, v \in Values :
        Enter(p, [Idle EXCEPT !.pc = "lock", !.call = "writeback", !.op = "write", !.i = i, !.off = o,
                             !.left = IF o + 1 > inode[i].size THEN inode[i].size - o ELSE 1, !.val = v])
        /\ UNCHANGED off

(* sendfile() from i to the other file, with an offset of its own for the time of the call, or without. *)
Sendfile(p) ==
    \E i \in Inodes, n \in 1..2, o \in {Unknown, 0} :
        /\ Enter(p, [Idle EXCEPT !.pc = "lock", !.call = "sendfile", !.op = "read", !.i = i, !.left = n,
                                 !.user = FALSE, !.k = IF o = Unknown THEN Unknown ELSE off[i]])
        /\ off' = IF o = Unknown THEN off ELSE [off EXCEPT ![i] = o]

(* filelseek() takes no lock. *)
Lseek(p) ==
    \E i \in Inodes : \E to \in {0, off[i] + 1, inode[i].size} :      \* SEEK_SET, SEEK_CUR, SEEK_END
        /\ Enter(p, [Idle EXCEPT !.call = "lseek"])
        /\ off' = [off EXCEPT ![i] = to]

(* ilock(), and the tests at the head of readi() and writei(). *)
Start(p) ==
    /\ At(p, "lock") /\ lock[r[p].i] = 0 /\ r[p].op # "trunc"
    /\ lock' = [lock EXCEPT ![r[p].i] = p]
    /\ LET q == r[p]
           o == IF q.call = "writeback" THEN q.off ELSE off[q.i]
           size == inode[q.i].size
           n1 == IF q.call = "sendfile" THEN 1 ELSE IF q.op = "read" THEN q.left ELSE Min({q.left, MaxChunk})
           bad == o > size \/ n1 < 0 \/ (q.op = "write" /\ o + n1 > MAXFILE)
           n == IF q.op = "read" THEN Min({n1, size - o}) ELSE n1 IN
       Regs(p, IF bad THEN [q EXCEPT !.n1 = n1, !.tot = IF q.op = "write" THEN -1 ELSE 0, !.pc = "unlock"]
               ELSE Loop([q EXCEPT !.off = o, !.n1 = n1, !.n = n, !.tot = 0]))
    /\ UNCHANGED <<disk, bitmap, dinode, inode, off, script, crashes, full, torn, append, want, panicked>>

(* writei() ends with the size and iupdate(); a read does not write the inode. *)
End(p) ==
    /\ At(p, "end")
    /\ LET q == r[p]
           new == [inode[q.i] EXCEPT !.size = Max({@, q.off})] IN
       IF q.op = "write" THEN inode' = [inode EXCEPT ![q.i] = new] /\ dinode' = [dinode EXCEPT ![q.i] = new]
       ELSE UNCHANGED <<inode, dinode>>
    /\ Regs(p, [r[p] EXCEPT !.pc = "unlock"])
    /\ UNCHANGED <<disk, bitmap, lock, off, script, crashes, full, torn, append, want, panicked>>

(***************************************************************************)
(* The offset moves under ip->lock.  filewrite() goes on with the next     *)
(* chunk, sendfile() with the other file or the next block, unless less    *)
(* was done than asked for; only a complete sendfile() restores the offset.*)
(***************************************************************************)
Other(i) == CHOOSE j \in Inodes : j # i
After(q) ==
    LET short == q.tot # q.n1
        left == q.left - q.n1 IN
    CASE q.call = "sendfile" /\ ~short /\ q.op = "read" -> [q EXCEPT !.pc = "lock", !.op = "write", !.i = Other(@)]
      [] q.call = "sendfile" /\ ~short /\ q.op = "write" /\ left > 0 ->
           [q EXCEPT !.pc = "lock", !.op = "read", !.i = Other(@), !.left = left]
      [] q.call = "write" /\ ~short /\ left > 0 -> [q EXCEPT !.pc = "lock", !.left = left]
      [] OTHER -> Idle

\* A wrong version for comparison: the offset moves with the last chunk only.
MovedLast(q) == IF q.tot > 0 /\ q.left = q.n1 THEN [off EXCEPT ![q.i] = @ + q.tot] ELSE off
Moved(q) ==
    IF q.tot > 0 /\ q.call # "writeback" THEN [off EXCEPT ![q.i] = @ + q.tot] ELSE off

Unlock(p) ==
    /\ At(p, "unlock")
    /\ LET q == r[p]
           restore == q.call = "sendfile" /\ q.op = "write" /\ After(q) = Idle /\ q.tot = q.n1 /\ q.k # Unknown IN
       /\ lock' = [lock EXCEPT ![q.i] = 0]
       /\ off' = IF restore THEN [Moved(q) EXCEPT ![Other(q.i)] = q.k] ELSE Moved(q)
       /\ Regs(p, After(q))
    /\ UNCHANGED <<disk, bitmap, dinode, inode, script, crashes, full, torn, append, want, panicked>>

-----------------------------------------------------------------------------
(* itrunc(), when the last reference of a removed file is put *)

Unlinked(p) ==
    \E i \in Inodes :
        /\ \A q \in Procs : r[q].i # i        \* ref = 1: nobody else has the file
        /\ Enter(p, [Idle EXCEPT !.pc = "lock", !.call = "remove", !.op = "trunc", !.i = i]) /\ UNCHANGED off

RemoveLock(p) ==
    /\ At(p, "lock") /\ r[p].op = "trunc"
    /\ lock[r[p].i] = 0
    /\ lock' = [lock EXCEPT ![r[p].i] = p]
    /\ Regs(p, [r[p] EXCEPT !.pc = "trunc"])
    /\ UNCHANGED <<disk, bitmap, dinode, inode, off, script, crashes, full, torn, append, want, panicked>>

(* bfree() of block b, then the process goes on with regs. *)
Bfree(b) == IF b \in bitmap THEN bitmap' = bitmap \ {b} ELSE FALSE
NotMarked(b) == b \notin bitmap

(* The first block the inode still has: a direct one, an indirect one, the doubly indirect one. *)
Trunc(p) ==
    /\ At(p, "trunc")
    /\ LET q == r[p]
           ks == {k \in Roots : inode[q.i].addrs[k] # 0}
           k == Min(ks)
           b == inode[q.i].addrs[k] IN
       IF ks = {}
       THEN /\ inode' = [inode EXCEPT ![q.i] = [addrs |-> NoAddrs, size |-> 0]]
            /\ dinode' = [dinode EXCEPT ![q.i] = [addrs |-> NoAddrs, size |-> 0]]
            /\ lock' = [lock EXCEPT ![q.i] = 0]
            /\ want' = [want EXCEPT ![q.i] = <<>>]
            /\ off' = [off EXCEPT ![q.i] = 0]
            /\ Regs(p, Idle)
            /\ UNCHANGED <<disk, bitmap, script, crashes, full, torn, append, panicked>>
       ELSE IF k < NDIRECT
       THEN IF NotMarked(b) THEN Panic("freeing free block")
            ELSE /\ Bfree(b)
                 /\ inode' = [inode EXCEPT ![q.i].addrs[k] = 0]
                 /\ UNCHANGED <<disk, dinode, lock, cache, lru, busy, off, r, script, crashes, full, torn, append, want, panicked>>
       ELSE /\ b \notin DOMAIN busy
            /\ Bread(p, b, Cells(b), TRUE, [q EXCEPT !.a = b, !.bp = b, !.k = k, !.m = 0, !.pc = IF k = NDIRECT THEN "leaf" ELSE "outer"])
            /\ UNCHANGED <<disk, bitmap, dinode, inode, lock, off, script, crashes, full, torn, append, want, panicked>>

(* brelse() of the buffer of b, after which other processes may have it. *)
Brelse(p, b, regs) == Bread(p, b, cache[b], FALSE, regs)
Cleared(b, j) == [cache EXCEPT ![b] = [@ EXCEPT ![j] = 0]]

(* The data blocks of an indirect block; its cells are cleared in the buffer alone. *)
Leaf(p) ==
    /\ At(p, "leaf")
    /\ LET q == r[p]
           js == {j \in Idx : cache[q.bp][j] # 0}
           b == cache[q.bp][Min(js)] IN
       IF js # {}
       THEN IF NotMarked(b) THEN Panic("freeing free block")
            ELSE /\ Bfree(b)
                 /\ cache' = Cleared(q.bp, Min(js))
                 /\ UNCHANGED <<disk, dinode, inode, lock, lru, busy, off, r, script, crashes, full, torn, append, want, panicked>>
       ELSE IF q.k = NDIRECT
       THEN /\ Brelse(p, q.bp, [q EXCEPT !.pc = "root", !.a = 0])
            /\ UNCHANGED <<disk, bitmap, dinode, inode, lock, off, script, crashes, full, torn, append, want, panicked>>
       ELSE LET b2 == cache[q.a][q.m] IN
            IF NotMarked(b2) THEN Panic("freeing free block")
            ELSE /\ Bfree(b2)
                 /\ cache' = Cleared(q.a, q.m)
                 /\ r' = [r EXCEPT ![p] = [@ EXCEPT !.pc = "outer", !.m = @ + 1]]
                 /\ UNCHANGED <<disk, dinode, inode, lock, lru, busy, off, script, crashes, full, torn, append, want, panicked>>

(***************************************************************************)
(* The next indirect block of the doubly indirect one.  Its buffer was     *)
(* released for the first of them, and is read all the same.               *)
(***************************************************************************)
Outer(p) ==
    /\ At(p, "outer")
    /\ LET q == r[p]
           js == {j \in Idx : j >= q.m /\ cache[q.a][j] # 0} IN
       IF js = {} THEN Brelse(p, q.bp, [q EXCEPT !.pc = "root", !.a = 0])
       ELSE Brelse(p, q.bp, [q EXCEPT !.m = Min(js), !.pc = "inner"])
    /\ UNCHANGED <<disk, bitmap, dinode, inode, lock, off, script, crashes, full, torn, append, want, panicked>>

Inner(p) ==
    /\ At(p, "inner")
    /\ LET q == r[p]
           b == cache[q.a][q.m] IN
       IF b \notin BlockNos THEN Panic("no such block")
       ELSE /\ b \notin DOMAIN busy
            /\ Bread(p, b, Cells(b), TRUE, [q EXCEPT !.bp = b, !.pc = "leaf"])
            /\ UNCHANGED <<disk, bitmap, dinode, inode, lock, off, script, crashes, full, torn, append, want, panicked>>

\* A wrong version for comparison: the cell is cleared and the block stays marked.
FreeRootKept(p) ==
    /\ At(p, "root")
    /\ LET q == r[p]
           b == inode[q.i].addrs[q.k] IN
       IF NotMarked(b) THEN Panic("freeing free block")
       ELSE /\ UNCHANGED bitmap
            /\ inode' = [inode EXCEPT ![q.i].addrs[q.k] = 0]
            /\ r' = [r EXCEPT ![p].pc = "trunc"]
            /\ UNCHANGED <<disk, dinode, lock, cache, lru, busy, off, script, crashes, full, torn, append, want, panicked>>

FreeRoot(p) ==
    /\ At(p, "root")
    /\ LET q == r[p]
           b == inode[q.i].addrs[q.k] IN
       IF NotMarked(b) THEN Panic("freeing free block")
       ELSE /\ Bfree(b)
            /\ inode' = [inode EXCEPT ![q.i].addrs[q.k] = 0]
            /\ r' = [r EXCEPT ![p].pc = "trunc"]
            /\ UNCHANGED <<disk, dinode, lock, cache, lru, busy, off, script, crashes, full, torn, append, want, panicked>>

-----------------------------------------------------------------------------
(* What a tree of blocks holds: places <<k>>, <<k, j>> and <<k, j, l>> under an inode *)

Step(C(_), b, j) == IF b \in BlockNos THEN C(b)[j] ELSE 0
BlockAt(ad, C(_), place) == FoldLeft(LAMBDA b, j : Step(C, b, j), ad[Head(place)], Tail(place))
Places ==
    {<<k>> : k \in Roots} \cup {<<k, j>> : k \in {NDIRECT, NDIRECT + 1}, j \in Idx}
    \cup {<<NDIRECT + 1, j, l>> : j \in Idx, l \in Idx}
Place(bn) == <<Root(bn)>> \o Path(bn)
Taken(ino, C(_), I) == {<<i, x>> \in I \X Places : BlockAt(ino[i].addrs, C, x) # 0}
Distinct(ino, C(_), I) ==
    LET taken == Taken(ino, C, I) IN
    Cardinality({BlockAt(ino[x[1]].addrs, C, x[2]) : x \in taken}) = Cardinality(taken)
Reached(ino, C(_), I) == {BlockAt(ino[i].addrs, C, x) : i \in I, x \in Places} \ {0}
OnDisk(b) == disk[b]
DiskFile(i) ==
    [n \in 1..dinode[i].size |->
        LET b == BlockAt(dinode[i].addrs, OnDisk, Place(n - 1)) IN IF b \in BlockNos THEN disk[b][0] ELSE Unknown]

(* A crash: what was in memory is lost, and the disk is mounted again. *)
Crash ==
    /\ crashes = "may" /\ panicked = ""
    /\ crashes' = "was"
    /\ torn' = (torn \/ \E p \in Procs : r[p].op = "trunc")
    /\ inode' = dinode
    /\ lock' = [i \in Inodes |-> 0]
    /\ cache' = <<>> /\ lru' = <<>> /\ busy' = <<>>
    /\ off' = [i \in Inodes |-> 0]
    /\ append' = FALSE
    /\ r' = [p \in Procs |-> Idle]
    /\ want' = [i \in Inodes |-> DiskFile(i)]
    /\ UNCHANGED <<disk, bitmap, dinode, script, full, panicked>>

-----------------------------------------------------------------------------
(* mkfs: iappend() gives every new block, indirect or not, the next number. *)

Child(img, j) ==
    IF img.disk[img.b][j] # 0 THEN [img EXCEPT !.b = img.disk[img.b][j]]
    ELSE [img EXCEPT !.disk[img.b][j] = img.next, !.b = img.next, !.next = @ + 1]
iappend(img, i, v) ==
    LET k == Root(img.inode[i].size)
        top == IF img.inode[i].addrs[k] # 0 THEN [img EXCEPT !.b = img.inode[i].addrs[k]]
               ELSE [img EXCEPT !.inode[i].addrs[k] = img.next, !.b = img.next, !.next = @ + 1]
        at == FoldLeft(Child, top, Path(img.inode[i].size)) IN
    [at EXCEPT !.disk[at.b][0] = v, !.inode[i].size = @ + 1]
copy_file(img, i) == FoldLeft(LAMBDA m, v : iappend(m, i, v), img, Layout[i])
MkfsImage ==
    FoldLeft(copy_file, [disk |-> [b \in BlockNos |-> Zero], next |-> 1, b |-> 0,
                         inode |-> [i \in Inodes |-> [addrs |-> NoAddrs, size |-> 0]]],
             SetToSortSeq(Inodes, <))

Init ==
    /\ LET img == MkfsImage IN
       /\ disk = img.disk
       /\ bitmap = 1..img.next - 1
       /\ dinode = img.inode /\ inode = img.inode
    /\ lock = [i \in Inodes |-> 0]
    /\ cache = <<>> /\ lru = <<>> /\ busy = <<>>
    /\ r = [p \in Procs |-> Idle]
    /\ \E s \in Scenarios :
          /\ script = s.does /\ crashes = s.crash /\ append = s.append
          /\ off = [i \in Inodes |-> IF s.append THEN Len(Layout[i]) ELSE 0]
    /\ full = FALSE /\ torn = FALSE
    /\ want = Layout
    /\ panicked = ""

Next ==
    \/ \E p \in Procs :
          \/ Write(p) \/ Read(p) \/ Writeback(p) \/ Sendfile(p) \/ Lseek(p) \/ Unlinked(p)
          \/ Start(p) \/ Walk(p) \/ Balloc(p) \/ Bzero(p) \/ Link(p)
          \/ WriteData(p) \/ ReadData(p) \/ End(p) \/ Unlock(p)
          \/ RemoveLock(p) \/ Trunc(p) \/ Leaf(p) \/ Outer(p) \/ Inner(p) \/ FreeRoot(p)
    \/ Crash

Spec == Init /\ [][Next]_vars

-----------------------------------------------------------------------------
(* Properties *)

(* Types: addresses are blocks of the disk, the LRU list and the busy buffers are cached ones. *)
TypeOK ==
    /\ disk \in [BlockNos -> [Idx -> Nat]] /\ bitmap \subseteq BlockNos
    /\ \A i \in Inodes : inode[i].addrs \in [Roots -> 0..NBLOCKS] /\ inode[i].size \in 0..MAXFILE
    /\ lock \in [Inodes -> {0} \cup Procs]
    /\ ToSet(lru) \subseteq DOMAIN cache /\ DOMAIN busy \subseteq DOMAIN cache /\ Len(lru) <= NBUF
    /\ off \in [Inodes -> Nat]

Removing == {i \in Inodes : \E p \in Procs : r[p].op = "trunc" /\ r[p].pc # "lock" /\ r[p].i = i}

(***************************************************************************)
(* No block belongs to two places of files, and the bitmap marks every     *)
(* block of a file: balloc() of one process and bfree() of another never   *)
(* give a block to two files.                                              *)
(***************************************************************************)
BlocksApart ==
    ~torn /\ panicked = "" =>
        LET I == Inodes \ Removing IN
        Distinct(inode, Cells, I) /\ Reached(inode, Cells, I) \subseteq bitmap

(***************************************************************************)
(* A file that nobody is working on has the contents that were written,    *)
(* whatever was recycled, removed or refused meanwhile.                    *)
(***************************************************************************)
ContentKept ==
    ~torn /\ panicked = "" =>
        \A i \in Inodes : lock[i] = 0 =>
            /\ inode[i].size = Len(want[i])
            /\ \A n \in 1..Len(want[i]) :
                  want[i][n] # Unknown => Cells(BlockAt(inode[i].addrs, Cells, Place(n - 1)))[0] = want[i][n]

(***************************************************************************)
(* At every moment, the disk as a crash would leave it has no block in two *)
(* files, every block of a file marked and a block for every offset within *)
(* its size, unless a file is being removed: writei() writes the inode     *)
(* last.                                                                   *)
(***************************************************************************)
CrashSafe ==
    ~torn /\ panicked = "" =>
        LET I == Inodes \ Removing IN
        /\ Distinct(dinode, OnDisk, I)
        /\ Reached(dinode, OnDisk, I) \subseteq bitmap
        /\ \A i \in I : \A n \in 1..dinode[i].size : BlockAt(dinode[i].addrs, OnDisk, Place(n - 1)) # 0

Calm == panicked = "" /\ \A p \in Procs : r[p].pc = "idle"
Waits(p) ==
    \/ r[p].pc = "lock" /\ lock[r[p].i] # 0
    \/ r[p].pc \in {"walk", "data"} /\ r[p].addr \in DOMAIN busy
    \/ r[p].pc = "bzero" /\ r[p].new \in DOMAIN busy

(***************************************************************************)
(* Without a crash no block is lost: when all calls are done, the blocks   *)
(* balloc() has marked are those bmap() reaches from the inodes.           *)
(***************************************************************************)
NoneLost == Calm /\ crashes # "was" => bitmap = Reached(inode, Cells, Inodes)

(***************************************************************************)
(* itrunc() frees every block once: bfree() never panics with "freeing     *)
(* free block".                                                            *)
(***************************************************************************)
NoPanic == torn \/ panicked = ""

(***************************************************************************)
(* Until the disk has been full once, a call that returns has released     *)
(* every buffer it took with bread().                                      *)
(***************************************************************************)
BuffersReleased == ~full => \A b \in DOMAIN busy : r[busy[b]].pc # "idle"

(***************************************************************************)
(* Nobody waits for ever for an inode's lock or for a buffer: of the calls *)
(* under way, one can go on.                                               *)
(***************************************************************************)
NoHang ==
    ~full /\ panicked = "" /\ ~Calm => \E p \in Procs : r[p].pc # "idle" /\ ~Waits(p)

(***************************************************************************)
(* Two writers that share an open file write one after the other: none is  *)
(* overwritten by the other, and f->off ends where the file does.          *)
(***************************************************************************)
AppendsKept == append /\ Calm => \A i \in Inodes : off[i] = inode[i].size
=============================================================================
