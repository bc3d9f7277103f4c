-------------------------------- MODULE Inode --------------------------------
(***************************************************************************)
(* The inode layer of kernel/fs.c with the sleep locks of                  *)
(* kernel/sleeplock.c: the table of in-memory inodes, the inodes on disk,  *)
(* the contents of directories, and the walk along a path name.            *)
(*                                                                         *)
(* A process in the kernel has a list of things to do, todo[p].  An item is*)
(* a tuple: an operation of this layer with the register that holds its    *)
(* inode, or a place in a system call (module Files).  A step takes the    *)
(* first item and may put others before the rest; it is one section under  *)
(* itable.lock, under a sleep lock's spin lock or under a busy buffer.     *)
(* What a process changes in an inode or directory whose lock it holds is  *)
(* part of the step that makes it visible to others.                       *)
(***************************************************************************)
EXTENDS Integers, Sequences, FiniteSets, FiniteSetsExt, SequencesExt

CONSTANTS Procs,        \* processes
          NINODE,       \* entries of the inode table
          NInum,        \* inodes on the disk
          Names         \* file names besides "." and ".."

ROOTINO == 1
Entries == 1..NINODE
Inums == 1..NInum
DirNames == Names \cup {".", ".."}
Types == {"FREE", "DIR", "FILE", "DEV", "LNK"}
Counted == {"ip", "dp", "ip2", "dp2", "old", "tmp"}
Registers == Counted \cup {"fip"}       \* fip: f->ip or a pointer already put, without a reference
BadPtr == -1            \* an errno that create() returns as a pointer

VARIABLES itable,       \* inum, ref, valid, lock (the holder) and the cached type and nlink
          dinode,       \* type and nlink of the inodes on disk
          ents,         \* the entries <<name, inum>> of each directory
          cwd,          \* p->cwd, 0 for a process that is gone
          todo,         \* what a process is to do in its system call
          reg,          \* its inode pointers
          asleep,       \* the entry whose sleep lock it sleeps on, or 0
          panicked      \* the first panic, or <<>>

inodeVars == <<itable, dinode, ents, cwd, todo, reg, asleep, panicked>>

Running(p) == panicked = <<>> /\ asleep[p] = 0 /\ todo[p] # <<>>
Item(p) == Head(todo[p])
At(p, op) == Item(p)[1] = op            \* of a process that is Running
Arg(p) == Item(p)[2]
Entry(p) == reg[p][Arg(p)]
Then(p, items) == todo' = [todo EXCEPT ![p] = items \o Tail(@)]
Panic(p, why) == panicked' = <<why, p>>
UnlockPut(r) == << <<"iunlock", r>>, <<"iput", r>> >>

-----------------------------------------------------------------------------
(* Sleep locks *)

Sleeping(e) == {q \in Procs : asleep[q] = e}
\* A wrong version for comparison: nobody is woken.
RelseWakesNone(e) == {}
RelseWakes(e) == Sleeping(e)
Woken(e) == asleep' = [q \in Procs |-> IF q \in RelseWakes(e) THEN 0 ELSE asleep[q]]

-----------------------------------------------------------------------------
(* The inode table *)

Cached(i) == {e \in Entries : itable[e].ref > 0 /\ itable[e].inum = i}
Empty == {e \in Entries : itable[e].ref = 0}
CanGet(i) == Cached(i) \cup Empty # {}
Slot(i) == IF Cached(i) # {} THEN Min(Cached(i)) ELSE Min(Empty)

(* The table after iget() of inode i. *)
GotTable(i) ==
    [itable EXCEPT ![Slot(i)] =
        IF Cached(i) # {} THEN [@ EXCEPT !.ref = @ + 1]
        ELSE [@ EXCEPT !.inum = i, !.ref = 1, !.valid = FALSE]]

(* iget() into register r, after which the process goes on with items. *)
iget(p, r, i, items) ==
    /\ IF CanGet(i)
       THEN /\ itable' = GotTable(i)
            /\ reg' = [reg EXCEPT ![p][r] = Slot(i)]
            /\ Then(p, items)
            /\ UNCHANGED panicked
       ELSE Panic(p, "iget: no inodes") /\ UNCHANGED <<itable, reg, todo>>
    /\ UNCHANGED <<dinode, ents, cwd, asleep>>

Iget(p) == At(p, "iget") /\ iget(p, Arg(p), Item(p)[3], <<>>)

Idup(p) ==
    /\ At(p, "idup")
    /\ itable' = [itable EXCEPT ![reg[p][Item(p)[3]]].ref = @ + 1]
    /\ reg' = [reg EXCEPT ![p][Arg(p)] = reg[p][Item(p)[3]]]
    /\ Then(p, <<>>)
    /\ UNCHANGED <<dinode, ents, cwd, asleep, panicked>>

BadInode(e) == e \notin Entries \/ itable[e].ref < 1

(* acquiresleep() in ilock(): sleep while the lock is held, or take it. *)
Ilock(p) ==
    /\ At(p, "ilock")
    /\ LET e == Entry(p) IN
       CASE BadInode(e) ->
              Panic(p, "ilock") /\ UNCHANGED <<itable, asleep, todo>>
         [] ~BadInode(e) /\ itable[e].lock # 0 ->
              asleep' = [asleep EXCEPT ![p] = e] /\ UNCHANGED <<itable, todo, panicked>>
         [] OTHER ->
              /\ itable' = [itable EXCEPT ![e].lock = p]
              /\ Then(p, IF itable[e].valid THEN <<>> ELSE << <<"iload", Arg(p)>> >>)
              /\ UNCHANGED <<asleep, panicked>>
    /\ UNCHANGED <<dinode, ents, cwd, reg>>

(* ilock() reads an entry that is not valid from the disk. *)
Iload(p) ==
    /\ At(p, "iload")
    /\ LET e == Entry(p)
           d == dinode[itable[e].inum] IN
       /\ itable' = [itable EXCEPT ![e] = [@ EXCEPT !.valid = TRUE, !.type = d.type, !.nlink = d.nlink]]
       /\ IF d.type = "FREE" THEN Panic(p, "ilock: no type") /\ UNCHANGED todo
          ELSE Then(p, <<>>) /\ UNCHANGED panicked
    /\ UNCHANGED <<dinode, ents, cwd, reg, asleep>>

Iunlock(p) ==
    /\ At(p, "iunlock")
    /\ LET e == Entry(p) IN
       IF BadInode(e) \/ itable[e].lock # p
       THEN Panic(p, "iunlock") /\ UNCHANGED <<itable, asleep, todo>>
       ELSE /\ itable' = [itable EXCEPT ![e].lock = 0]
            /\ Woken(e)
            /\ Then(p, <<>>)
            /\ UNCHANGED panicked
    /\ UNCHANGED <<dinode, ents, cwd, reg>>

(* iput() frees an inode without links at its last reference. *)
\* A wrong version for comparison: any reference is taken for the last.
LastRefAny(e) == itable[e].valid /\ itable[e].nlink = 0
LastRef(e) == itable[e].ref = 1 /\ itable[e].valid /\ itable[e].nlink = 0

Deref(p, e) ==
    /\ itable' = [itable EXCEPT ![e].ref = @ - 1]
    /\ reg' = [reg EXCEPT ![p][Arg(p)] = 0]
    /\ Then(p, <<>>)

Iput(p) ==
    /\ At(p, "iput")
    /\ LET e == Entry(p) IN
       CASE e \notin Entries ->
              Panic(p, "iput") /\ UNCHANGED <<itable, todo, reg>>
         [] e \in Entries /\ LastRef(e) /\ itable[e].lock # 0 ->
              Panic(p, "sched locks") /\ UNCHANGED <<itable, todo, reg>>
         [] e \in Entries /\ LastRef(e) /\ itable[e].lock = 0 ->
              /\ itable' = [itable EXCEPT ![e].lock = p]
              /\ Then(p, << <<"ifree", Arg(p)>>, <<"ifreed", Arg(p)>>, <<"ideref", Arg(p)>> >>)
              /\ UNCHANGED <<reg, panicked>>
         [] OTHER -> Deref(p, e) /\ UNCHANGED panicked
    /\ UNCHANGED <<dinode, ents, cwd, asleep>>

(* itrunc(), type 0 and iupdate(): the inode is free on disk. *)
Ifree(p) ==
    /\ At(p, "ifree")
    /\ LET e == Entry(p)
           i == itable[e].inum IN
       /\ itable' = [itable EXCEPT ![e].type = "FREE"]
       /\ dinode' = [dinode EXCEPT ![i] = [type |-> "FREE", nlink |-> 0]]
       /\ ents' = [ents EXCEPT ![i] = {}]
    /\ Then(p, <<>>)
    /\ UNCHANGED <<cwd, reg, asleep, panicked>>

(* iput() gives up validity and lock, in this order; the reference is next. *)
FreedEntry(c) == [c EXCEPT !.valid = FALSE, !.lock = 0]

Ifreed(p) ==
    /\ At(p, "ifreed")
    /\ LET e == Entry(p) IN itable' = [itable EXCEPT ![e] = FreedEntry(@)] /\ Woken(e)
    /\ Then(p, <<>>)
    /\ UNCHANGED <<dinode, ents, cwd, reg, panicked>>

Ideref(p) ==
    /\ At(p, "ideref")
    /\ Deref(p, Entry(p))
    /\ UNCHANGED <<dinode, ents, cwd, asleep, panicked>>

(* ialloc(): the first free inode of the scan.  Nothing depends on the number. *)
Ialloc(p) ==
    /\ At(p, "ialloc")
    /\ LET free == {i \in Inums : dinode[i].type = "FREE"} IN
       IF free # {}
       THEN /\ dinode' = [dinode EXCEPT ![Min(free)] = [type |-> Item(p)[3], nlink |-> 0]]
            /\ Then(p, << <<"iget", Arg(p), Min(free)>> >>)
            /\ UNCHANGED reg
       ELSE /\ reg' = [reg EXCEPT ![p][Arg(p)] = 0]
            /\ Then(p, <<>>)
            /\ UNCHANGED dinode
    /\ UNCHANGED <<itable, ents, cwd, asleep, panicked>>

(* A change of type and link count under ip->lock, and iupdate(). *)
Updated(e, type, nlink) == [itable EXCEPT ![e] = [@ EXCEPT !.type = type, !.nlink = nlink]]
UpdatedDisk(e, type, nlink) == [dinode EXCEPT ![itable[e].inum] = [type |-> type, nlink |-> nlink]]

-----------------------------------------------------------------------------
(* Directories and path names *)

Found(e, name) == {x \in ents[itable[e].inum] : x[1] = name}

(* What namex() does with the rest of the path; register r is its ip. *)
Walk(r, parent, rest) ==
    IF rest # <<>> THEN << <<"ilock", r>>, <<"lookup", r, parent, rest>> >>
    ELSE IF parent THEN << <<"iput", r>> >> ELSE <<>>

namei(r, path) == << <<"namex", r, path, FALSE>> >>
nameiparent(r, path) == << <<"namex", r, path, TRUE>> >>

(* namex() starts at the root or at the working directory. *)
Namex(p) ==
    /\ At(p, "namex")
    /\ LET path == Item(p)[3]
           items == Walk(Arg(p), Item(p)[4], path.el) IN
       IF path.abs THEN iget(p, Arg(p), ROOTINO, items)
       ELSE /\ itable' = [itable EXCEPT ![cwd[p]].ref = @ + 1]
            /\ reg' = [reg EXCEPT ![p][Arg(p)] = cwd[p]]
            /\ Then(p, items)
            /\ UNCHANGED <<dinode, ents, cwd, asleep, panicked>>

(* One path element: ip is locked. *)
Lookup(p) ==
    /\ At(p, "lookup")
    /\ LET e == Entry(p)
           r == Arg(p)
           parent == Item(p)[3]
           rest == Tail(Item(p)[4])
           found == Found(e, Head(Item(p)[4])) IN
       \/ /\ itable[e].type # "DIR" \/ (found = {} /\ ~(parent /\ rest = <<>>))
          /\ Then(p, UnlockPut(r))
          /\ UNCHANGED <<itable, dinode, ents, cwd, reg, asleep, panicked>>
       \/ /\ itable[e].type = "DIR" /\ parent /\ rest = <<>>
          /\ Then(p, << <<"iunlock", r>> >>)
          /\ UNCHANGED <<itable, dinode, ents, cwd, reg, asleep, panicked>>
       \/ /\ itable[e].type = "DIR" /\ ~(parent /\ rest = <<>>)
          /\ \E x \in found :
                IF CanGet(x[2])
                THEN /\ itable' = GotTable(x[2])
                     /\ reg' = [reg EXCEPT ![p] = [@ EXCEPT !.old = e, ![r] = Slot(x[2])]]
                     /\ Then(p, UnlockPut("old") \o Walk(r, parent, rest))
                     /\ UNCHANGED panicked
                ELSE Panic(p, "iget: no inodes") /\ UNCHANGED <<itable, reg, todo>>
          /\ UNCHANGED <<dinode, ents, cwd, asleep>>

InodeStep(p) ==
    \/ Iget(p) \/ Idup(p) \/ Ilock(p) \/ Iload(p) \/ Iunlock(p) \/ Iput(p) \/ Ifree(p)
    \/ Ifreed(p) \/ Ideref(p) \/ Ialloc(p) \/ Namex(p) \/ Lookup(p)
=============================================================================
