-------------------------------- MODULE Files --------------------------------
(***************************************************************************)
(* The system calls on files of kernel/sysfile.c and kernel/file.c, over   *)
(* the inode layer of module Inode: the table of open files, the           *)
(* descriptors of the processes, and what each call does, in the order it  *)
(* does it, with its error returns.                                        *)
(*                                                                         *)
(* A call puts its work on todo[p]; an item that is not an operation of    *)
(* module Inode is a place in the call where it decides how to go on.      *)
(* Data are left out: modes, owners, times and contents, except the target *)
(* of a symbolic link.  What permission() and a full disk decide is either *)
(* outcome.  Names are one letter long, "." and ".." are not link targets. *)
(***************************************************************************)
EXTENDS Inode

CONSTANTS NFILE,        \* entries of the file table
          NOFILE,       \* descriptors of a process
          Targets,      \* the targets of symbolic links
          Tree,         \* what mkfs is told to make: kind, parent, name, link target
          Scripts       \* who is there, and what each does: a sequence of choices of calls and paths

Fds == 0..NOFILE-1
FileIds == 1..NFILE

VARIABLES ftable,       \* ref, type and ip of the open files
          ofile,        \* p->ofile, 0 for a free descriptor
          fdflag,       \* p->fdflag: descriptors to close on exec
          text,         \* the targets of symbolic links
          call,         \* the call a process is in, or ""
          script,       \* the calls it has yet to make
          tainted       \* calls that left behind what nobody can release or put right, and why

fileVars == <<ftable, ofile, fdflag, text, call, script, tainted>>
vars == <<inodeVars, fileVars>>

NoRegs == [r \in Registers |-> 0]
NoText == [abs |-> FALSE, el |-> <<>>]

(* The places of calls where a process touches nothing that others see. *)
LocalPlaces ==
    {"open1", "open2", "creat1", "create", "create1", "create3", "create4", "create5", "mkdir1",
     "mknod1", "link1", "link3", "symlink1", "symlink2", "readlink1", "readlink2", "unlink1", "chdir1",
     "chdir2", "chdir3", "getcwd3", "rename1", "rename2", "rename3", "stat1", "stat2", "utimens1",
     "exec1", "exec3", "taint", "ret"}

(* Such a step belongs to the step before it: it is taken at once. *)
Turn(p) ==
    LET local == {q \in Procs : Running(q) /\ Item(q)[1] \in LocalPlaces} IN
    IF local = {} THEN TRUE ELSE p = Min(local)

Type(p, r) == itable[reg[p][r]].type
Nlink(p, r) == itable[reg[p][r]].nlink
Inum(p, r) == itable[reg[p][r]].inum

Goto(p, items) ==
    Then(p, items) /\ UNCHANGED <<itable, dinode, ents, cwd, reg, asleep, panicked, fileVars>>
SetReg(p, f, items) ==
    /\ reg' = [reg EXCEPT ![p] = f]
    /\ Then(p, items)
    /\ UNCHANGED <<itable, dinode, ents, cwd, asleep, panicked, fileVars>>
Crash(p, why) ==
    Panic(p, why) /\ UNCHANGED <<itable, dinode, ents, cwd, todo, reg, asleep, fileVars>>
GetInto(p, r, i, items) == iget(p, r, i, items) /\ UNCHANGED fileVars

(* Calls stop after the first panic or defect: what follows is no use. *)
Idle(p) ==
    panicked = <<>> /\ tainted = {} /\ cwd[p] # 0 /\ todo[p] = <<>> /\ script[p] # <<>> /\ Turn(p)
Calls(p, c) == c \in Head(script[p]).calls     \* of a process that is Idle
Paths(p) == Head(script[p]).paths
Enter(p, c, items) ==
    /\ call' = [call EXCEPT ![p] = c]
    /\ script' = [script EXCEPT ![p] = Tail(@)]
    /\ todo' = [todo EXCEPT ![p] = Append(items, <<"ret">>)]
Start(p, c, items) ==
    /\ Calls(p, c)
    /\ Enter(p, c, items)
    /\ UNCHANGED <<itable, dinode, ents, cwd, reg, asleep, panicked, ftable, ofile, fdflag, text, tainted>>

(* The call returns.  A pointer it still holds is one it never put. *)
Ret(p) ==
    /\ At(p, "ret")
    /\ tainted' = IF \E r \in Counted : reg[p][r] \in Entries THEN tainted \cup {<<call[p], "inode kept">>} ELSE tainted
    /\ reg' = [reg EXCEPT ![p] = NoRegs]
    /\ call' = [call EXCEPT ![p] = ""]
    /\ Then(p, <<>>)
    /\ UNCHANGED <<itable, dinode, ents, cwd, asleep, panicked, ftable, ofile, fdflag, text, script>>

-----------------------------------------------------------------------------
(* The file table *)

FreeFiles == {f \in FileIds : ftable[f].ref = 0}
FreeFds(p, from) == {fd \in Fds : fd >= from /\ ofile[p][fd] = 0}
NewFile(f, type, e) == [ftable EXCEPT ![f] = [ref |-> 1, type |-> type, ip |-> e]]

(* fileclose(): the last reference puts the inode.  pipeclose() is in module Pipe. *)
ClosedFile(f) ==
    [ftable EXCEPT ![f] = IF @.ref > 1 THEN [@ EXCEPT !.ref = @ - 1] ELSE [@ EXCEPT !.ref = 0, !.type = "NONE"]]

FileClose(p) ==
    /\ At(p, "fileclose")
    /\ LET f == Arg(p)
           last == ftable[f].ref = 1 /\ ftable[f].type \in {"INODE", "DEVICE"} IN
       IF ftable[f].ref < 1 THEN Crash(p, "fileclose")
       ELSE /\ ftable' = ClosedFile(f)
            /\ reg' = IF last THEN [reg EXCEPT ![p].tmp = ftable[f].ip] ELSE reg
            /\ Then(p, IF last THEN << <<"iput", "tmp">> >> ELSE <<>>)
            /\ UNCHANGED <<itable, dinode, ents, cwd, asleep, panicked, ofile, fdflag, text, call,
                           script, tainted>>

(* sys_close() *)
Close(p) ==
    \E fd \in Fds :
        /\ Calls(p, "close") /\ ofile[p][fd] # 0
        /\ Enter(p, "close", << <<"fileclose", ofile[p][fd]>> >>)
        /\ ofile' = [ofile EXCEPT ![p][fd] = 0]
        /\ fdflag' = [fdflag EXCEPT ![p] = @ \ {fd}]
        /\ UNCHANGED <<itable, dinode, ents, cwd, reg, asleep, panicked, ftable, text, tainted>>

(* dupfd(): the reference is taken before a descriptor is sought. *)
Dup(p) ==
    \E fd \in Fds, from \in Fds :
        /\ Calls(p, "dup") /\ ofile[p][fd] # 0
        /\ Enter(p, "dup", <<>>)
        /\ ftable' = [ftable EXCEPT ![ofile[p][fd]].ref = @ + 1]
        /\ LET free == FreeFds(p, from) IN
           IF free = {} THEN tainted' = tainted \cup {<<"dup", "file kept">>} /\ UNCHANGED ofile
           ELSE ofile' = [ofile EXCEPT ![p][Min(free)] = ofile[p][fd]] /\ UNCHANGED tainted
        /\ UNCHANGED <<itable, dinode, ents, cwd, reg, asleep, panicked, fdflag, text>>

(* sys_dup3(): fd2 is closed first, then fd1's file is duplicated. *)
Dup3(p) ==
    \E fd1 \in Fds, fd2 \in Fds, cloexec \in BOOLEAN :
        /\ Calls(p, "dup3") /\ fd1 # fd2
        /\ Enter(p, "dup3", (IF ofile[p][fd2] = 0 THEN <<>> ELSE << <<"fileclose", ofile[p][fd2]>> >>)
                            \o << <<"filedup", fd1, fd2, cloexec>> >>)
        /\ ofile' = [ofile EXCEPT ![p][fd2] = 0]
        /\ UNCHANGED <<itable, dinode, ents, cwd, reg, asleep, panicked, ftable, fdflag, text, tainted>>

FileDup(p) ==
    /\ At(p, "filedup")
    /\ LET f == ofile[p][Arg(p)] IN
       IF f = 0 THEN Crash(p, "filedup")
       ELSE /\ ftable' = [ftable EXCEPT ![f].ref = @ + 1]
            /\ ofile' = [ofile EXCEPT ![p][Item(p)[3]] = f]
            /\ fdflag' = [fdflag EXCEPT ![p] = IF Item(p)[4] THEN @ \cup {Item(p)[3]} ELSE @]
            /\ Then(p, <<>>)
            /\ UNCHANGED <<itable, dinode, ents, cwd, reg, asleep, panicked, text, call, script, tainted>>

(* sys_fcntl(), F_SETFD *)
SetFd(p) ==
    \E fd \in Fds, cloexec \in BOOLEAN :
        /\ Calls(p, "fcntl") /\ ofile[p][fd] # 0
        /\ Enter(p, "fcntl", <<>>)
        /\ fdflag' = [fdflag EXCEPT ![p] = IF cloexec THEN @ \cup {fd} ELSE @ \ {fd}]
        /\ UNCHANGED <<itable, dinode, ents, cwd, reg, asleep, panicked, ftable, ofile, text, tainted>>

(* sys_pipe2(): unknown flags are refused after pipealloc() made two files. *)
Pipe2(p) ==
    \E badflags \in BOOLEAN, fault \in BOOLEAN, cloexec \in BOOLEAN :
        /\ Calls(p, "pipe2")
        /\ Enter(p, "pipe2", <<>>)
        /\ LET rf == Min(FreeFiles)
               wf == Min(FreeFiles \ {rf})
               fd0 == Min(FreeFds(p, 0))
               fd1 == Min(FreeFds(p, 0) \ {fd0})
               made == [ftable EXCEPT ![rf].ref = 1, ![rf].type = "PIPE", ![wf].ref = 1, ![wf].type = "PIPE"] IN
           CASE Cardinality(FreeFiles) < 2 -> UNCHANGED <<ftable, ofile, fdflag, tainted>>
             [] Cardinality(FreeFiles) >= 2 /\ badflags ->
                  ftable' = made /\ tainted' = tainted \cup {<<"pipe2", "file kept">>} /\ UNCHANGED <<ofile, fdflag>>
             [] Cardinality(FreeFiles) >= 2 /\ ~badflags /\ (Cardinality(FreeFds(p, 0)) < 2 \/ fault) ->
                  UNCHANGED <<ftable, ofile, fdflag, tainted>>
             [] OTHER ->
                  /\ ftable' = made
                  /\ ofile' = [ofile EXCEPT ![p][fd0] = rf, ![p][fd1] = wf]
                  /\ fdflag' = [fdflag EXCEPT ![p] = IF cloexec THEN @ \cup {fd0, fd1} ELSE @]
                  /\ UNCHANGED tainted
        /\ UNCHANGED <<itable, dinode, ents, cwd, reg, asleep, panicked, text>>

-----------------------------------------------------------------------------
(* create(), and the calls that make a name *)

Create(p) ==
    /\ At(p, "create")
    /\ Goto(p, nameiparent("dp", Item(p)[3]) \o << <<"create1", Arg(p), Item(p)[3], Item(p)[4]>> >>)

Create1(p) ==
    /\ At(p, "create1")
    /\ IF reg[p].dp = 0 THEN SetReg(p, [reg[p] EXCEPT ![Arg(p)] = BadPtr], <<>>)
       ELSE Goto(p, << <<"ilock", "dp">>, <<"create2", Arg(p), Last(Item(p)[3].el), Item(p)[4]>> >>)

(* The parent is locked: no permission, the name exists, or a new inode. *)
Create2(p) ==
    /\ At(p, "create2")
    /\ LET r == Arg(p)
           found == Found(reg[p].dp, Item(p)[3]) IN
       \/ Goto(p, UnlockPut("dp") \o << <<"create5", r>> >>)
       \/ /\ found # {}
          /\ \E x \in found :
                GetInto(p, r, x[2], UnlockPut("dp") \o << <<"ilock", r>>, <<"create3", r, Item(p)[4]>> >>)
       \/ /\ found = {}
          /\ Goto(p, << <<"ialloc", r, Item(p)[4]>>, <<"create4", r, Item(p)[3], Item(p)[4]>> >>)

Create3(p) ==
    /\ At(p, "create3")
    /\ IF Item(p)[3] = "FILE" /\ Type(p, Arg(p)) \in {"FILE", "DEV"} THEN Goto(p, <<>>)
       ELSE Goto(p, UnlockPut(Arg(p)) \o << <<"create5", Arg(p)>> >>)

Create5(p) == At(p, "create5") /\ SetReg(p, [reg[p] EXCEPT ![Arg(p)] = BadPtr], <<>>)

Create4(p) ==
    /\ At(p, "create4")
    /\ IF reg[p][Arg(p)] = 0 THEN Goto(p, UnlockPut("dp") \o << <<"create5", Arg(p)>> >>)
       ELSE Goto(p, << <<"ilock", Arg(p)>>, <<"create6", Arg(p), Item(p)[3], Item(p)[4]>> >>)

(***************************************************************************)
(* The new inode is locked: "." and "..", then the entry in the parent and *)
(* its link count.  On a full disk the inode has no link and is put.  That *)
(* the parent has been removed meanwhile is not noticed: what is made in   *)
(* it has no path, and is never freed.                                     *)
(***************************************************************************)
Removed(p) == IF Nlink(p, "dp") = 0 THEN << <<"taint", "directory removed">> >> ELSE <<>>
Linked(dp, name, ip) == [ents EXCEPT ![dp] = @ \cup {<<name, ip>>}]
NewDir(dp, ip) == {<<".", ip>>, <<"..", dp>>}

Create6(p) ==
    /\ At(p, "create6")
    /\ LET r == Arg(p)
           type == Item(p)[4]
           d == reg[p].dp
           e == reg[p][r]
           dn == itable[d].nlink + (IF type = "DIR" THEN 1 ELSE 0) IN
       \/ /\ itable' = [Updated(e, type, 1) EXCEPT ![d].nlink = dn]
          /\ dinode' = [UpdatedDisk(e, type, 1) EXCEPT ![Inum(p, "dp")].nlink = dn]
          /\ ents' = [Linked(Inum(p, "dp"), Item(p)[3], Inum(p, r)) EXCEPT ![Inum(p, r)] =
                         IF type = "DIR" THEN NewDir(Inum(p, "dp"), Inum(p, r)) ELSE {}]
          /\ text' = [text EXCEPT ![Inum(p, r)] = NoText]
          /\ Then(p, Removed(p) \o UnlockPut("dp"))
       \/ /\ itable' = Updated(e, type, 0)
          /\ dinode' = UpdatedDisk(e, type, 0)
          /\ Then(p, UnlockPut(r) \o UnlockPut("dp"))
          /\ UNCHANGED <<ents, text>>
    /\ UNCHANGED <<cwd, reg, asleep, panicked, ftable, ofile, fdflag, call, script, tainted>>

(* sys_mkdirat(): only a null result of create() is an error. *)
Mkdir(p) ==
    \E path \in Paths(p) :
        Start(p, "mkdir", << <<"create", "ip", path, "DIR">>, <<"mkdir1">> >>)

Mkdir1(p) ==
    /\ At(p, "mkdir1")
    /\ Goto(p, IF reg[p].ip = 0 THEN <<>> ELSE UnlockPut("ip"))

(* sys_mknodat(): only a negative result of create() is an error. *)
Mknod(p) ==
    \E path \in Paths(p), type \in {"DIR", "FILE", "DEV", "LNK"} :
        Start(p, "mknod", << <<"create", "ip", path, type>>, <<"mknod1">> >>)

Mknod1(p) ==
    /\ At(p, "mknod1")
    /\ Goto(p, IF reg[p].ip = BadPtr THEN <<>> ELSE UnlockPut("ip"))

-----------------------------------------------------------------------------
(* Opening files *)

(* fileopen() without O_CREAT, again for every symbolic link it meets. *)
Opening(path, write, cloexec) ==
    namei("ip", path) \o << <<"open1", path, write, cloexec, FALSE>> >>

Open(p) ==
    \E path \in Paths(p), write \in BOOLEAN, cloexec \in BOOLEAN :
        Start(p, "open", Opening(path, write, cloexec))

(* fileopen() with O_CREAT, and with O_EXCL. *)
OpenCreate(p) ==
    \E path \in Paths(p), excl \in BOOLEAN :
        Start(p, "creat", namei("ip", path) \o << <<"creat1", path, excl>> >>)

Creat1(p) ==
    /\ At(p, "creat1")
    /\ CASE reg[p].ip # 0 /\ Item(p)[3] -> Goto(p, << <<"iput", "ip">> >>)
         [] reg[p].ip # 0 /\ ~Item(p)[3] -> Goto(p, << <<"ilock", "ip">>, <<"open3", FALSE>> >>)
         [] OTHER -> Goto(p, << <<"create", "ip", Arg(p), "FILE">>, <<"open1", Arg(p), TRUE, FALSE, TRUE>> >>)

(* The result of namei() or of create(), which returns a locked inode. *)
Open1(p) ==
    /\ At(p, "open1")
    /\ LET e == reg[p].ip
           created == Item(p)[5] IN
       CASE e = 0 -> Goto(p, <<>>)
         [] e = BadPtr -> Crash(p, "permission")
         [] e \in Entries /\ created -> Goto(p, << <<"open3", FALSE>> >>)
         [] OTHER -> Goto(p, << <<"ilock", "ip">>, <<"open2", Arg(p), Item(p)[3], Item(p)[4]>> >>)

Open2(p) ==
    /\ At(p, "open2")
    /\ LET target == text[Inum(p, "ip")] IN
       CASE Type(p, "ip") = "DIR" /\ Item(p)[3] -> Goto(p, UnlockPut("ip"))
         [] Type(p, "ip") = "LNK" /\ target = NoText -> Goto(p, UnlockPut("ip"))
         [] Type(p, "ip") = "LNK" /\ target # NoText ->
              Goto(p, UnlockPut("ip") \o Opening(target, Item(p)[3], Item(p)[4]))
         [] OTHER -> Goto(p, << <<"open3", Item(p)[4]>> >>)

(***************************************************************************)
(* The inode is locked: permission, a file and a descriptor.  Without one  *)
(* of the two the inode is unlocked and never put; with both, the          *)
(* reference of ip belongs to the file.                                    *)
(***************************************************************************)
FileType(type) == IF type = "DEV" THEN "DEVICE" ELSE "INODE"

Open3(p) ==
    /\ At(p, "open3")
    /\ LET free == FreeFds(p, 0)
           f == Min(FreeFiles) IN
       \/ Goto(p, UnlockPut("ip"))
       \/ /\ FreeFiles = {} \/ free = {}
          /\ Goto(p, << <<"iunlock", "ip">> >>)
       \/ /\ FreeFiles # {} /\ free # {}
          /\ ftable' = NewFile(f, FileType(Type(p, "ip")), reg[p].ip)
          /\ ofile' = [ofile EXCEPT ![p][Min(free)] = f]
          /\ fdflag' = [fdflag EXCEPT ![p] = IF Arg(p) THEN @ \cup {Min(free)} ELSE @]
          /\ reg' = [reg EXCEPT ![p] = [@ EXCEPT !.ip = 0, !.fip = reg[p].ip]]
          /\ Then(p, << <<"iunlock", "fip">> >>)
          /\ UNCHANGED <<itable, dinode, ents, cwd, asleep, panicked, text, call, script, tainted>>

(***************************************************************************)
(* execve() with fileget(): the interpreter or program is opened without a *)
(* descriptor, read, and closed; the descriptors marked close-on-exec are  *)
(* closed.  The file allocated before permission() fails is kept.          *)
(***************************************************************************)
Getting(path) == namei("ip2", path) \o << <<"exec3", path>> >>

Exec(p) ==
    \E path \in Paths(p) : Start(p, "exec", namei("ip", path) \o << <<"exec1">> >>)

Exec1(p) ==
    /\ At(p, "exec1")
    /\ Goto(p, IF reg[p].ip = 0 THEN <<>> ELSE << <<"ilock", "ip">>, <<"exec2">> >>)

(* Not a program, or the files marked close-on-exec are closed. *)
Exec2(p) ==
    /\ At(p, "exec2")
    /\ LET marked == {fd \in fdflag[p] : ofile[p][fd] # 0}
           order == SetToSeq(marked)
           closes == [i \in DOMAIN order |-> <<"fileclose", ofile[p][order[i]]>>] IN
       \/ Goto(p, UnlockPut("ip"))
       \/ /\ Type(p, "ip") = "FILE"
          /\ ofile' = [ofile EXCEPT ![p] = [fd \in Fds |-> IF fd \in marked THEN 0 ELSE @[fd]]]
          /\ fdflag' = [fdflag EXCEPT ![p] = @ \ marked]
          /\ \E interp \in {<<>>} \cup {Getting(path) : path \in Targets} :
                Then(p, closes \o UnlockPut("ip") \o interp)
          /\ UNCHANGED <<itable, dinode, ents, cwd, reg, asleep, panicked, ftable, text, call,
                         script, tainted>>

Exec3(p) ==
    /\ At(p, "exec3")
    /\ Goto(p, IF reg[p].ip2 = 0 THEN <<>> ELSE << <<"ilock", "ip2">>, <<"exec4">> >>)

Exec4(p) ==
    /\ At(p, "exec4")
    /\ LET target == text[Inum(p, "ip2")]
           f == Min(FreeFiles)
           bad == Type(p, "ip2") \notin {"FILE", "LNK"} \/ (Type(p, "ip2") = "LNK" /\ target = NoText) IN
       \/ /\ bad \/ FreeFiles = {}
          /\ Goto(p, UnlockPut("ip2"))
       \/ /\ ~bad /\ Type(p, "ip2") = "LNK"
          /\ Goto(p, UnlockPut("ip2") \o Getting(target))
       \/ /\ ~bad /\ Type(p, "ip2") = "FILE" /\ FreeFiles # {}
          /\ \/ /\ ftable' = [ftable EXCEPT ![f].ref = 1]
                /\ tainted' = tainted \cup {<<"exec", "file kept">>}
                /\ Then(p, UnlockPut("ip2"))
                /\ UNCHANGED reg
             \/ /\ ftable' = NewFile(f, "INODE", reg[p].ip2)
                /\ reg' = [reg EXCEPT ![p] = [@ EXCEPT !.ip2 = 0, !.fip = reg[p].ip2]]
                /\ Then(p, << <<"iunlock", "fip">>, <<"fileclose", f>> >>)
                /\ UNCHANGED tainted
          /\ UNCHANGED <<itable, dinode, ents, cwd, asleep, panicked, ofile, fdflag, text, call, script>>

-----------------------------------------------------------------------------
(* Links *)

(* What readi(ip, path, sizeof(MAXPATH) - 1) leaves of a target: three bytes. *)
ShortTarget(t) == [t EXCEPT !.el = SubSeq(@, 1, Min({Len(@), IF t.abs THEN 1 ELSE 2}))]

(* sys_linkat(), with AT_SYMLINK_FOLLOW or not, and filelink(). *)
Linking(old, new) == namei("ip", old) \o << <<"link1", new>> >>

Link(p) ==
    \E old \in Paths(p), new \in Paths(p), follow \in BOOLEAN :
        Start(p, "link", IF follow THEN namei("ip", old) \o << <<"stat1", "link", old, new>> >>
                         ELSE Linking(old, new))

Link1(p) ==
    /\ At(p, "link1")
    /\ Goto(p, IF reg[p].ip = 0 THEN <<>> ELSE << <<"ilock", "ip">>, <<"link2", Arg(p)>> >>)

(* The link count goes up before the name exists. *)
\* A wrong version for comparison: the count goes up in memory only.
AddLinkMem(p, n) ==
    itable' = Updated(reg[p].ip, Type(p, "ip"), Nlink(p, "ip") + n) /\ UNCHANGED dinode
AddLink(p, n) ==
    /\ itable' = Updated(reg[p].ip, Type(p, "ip"), Nlink(p, "ip") + n)
    /\ dinode' = UpdatedDisk(reg[p].ip, Type(p, "ip"), Nlink(p, "ip") + n)

Link2(p) ==
    /\ At(p, "link2")
    /\ IF Type(p, "ip") = "DIR" THEN Goto(p, UnlockPut("ip"))
       ELSE /\ AddLink(p, 1)
            /\ Then(p, << <<"iunlock", "ip">> >> \o nameiparent("dp", Arg(p)) \o << <<"link3", Arg(p)>> >>)
            /\ UNCHANGED <<ents, cwd, reg, asleep, panicked, fileVars>>

LinkUndo == << <<"ilock", "ip">>, <<"link5">> >>

Link3(p) ==
    /\ At(p, "link3")
    /\ Goto(p, IF reg[p].dp = 0 THEN LinkUndo ELSE << <<"ilock", "dp">>, <<"link4", Last(Arg(p).el)>> >>)

(* dirlink() finds the name, or writes the entry, or meets a full disk. *)
Link4(p) ==
    /\ At(p, "link4")
    /\ LET found == Found(reg[p].dp, Arg(p)) IN
       \/ \E x \in found : GetInto(p, "tmp", x[2], << <<"iput", "tmp">> >> \o UnlockPut("dp") \o LinkUndo)
       \/ found = {} /\ Goto(p, UnlockPut("dp") \o LinkUndo)
       \/ /\ found = {}
          /\ ents' = Linked(Inum(p, "dp"), Arg(p), Inum(p, "ip"))
          /\ Then(p, Removed(p) \o UnlockPut("dp") \o << <<"iput", "ip">> >>)
          /\ UNCHANGED <<itable, dinode, cwd, reg, asleep, panicked, fileVars>>

Link5(p) ==
    /\ At(p, "link5")
    /\ AddLink(p, -1)
    /\ Then(p, UnlockPut("ip"))
    /\ UNCHANGED <<ents, cwd, reg, asleep, panicked, fileVars>>

(* filesymlink(): an inode made for a name that exists keeps its link. *)
Symlink(p) ==
    \E path \in Paths(p), target \in Targets :
        Start(p, "symlink", nameiparent("dp", path) \o << <<"symlink1", path, target>> >>)

Symlink1(p) ==
    /\ At(p, "symlink1")
    /\ Goto(p, IF reg[p].dp = 0 THEN <<>>
               ELSE << <<"ilock", "dp">>, <<"ialloc", "ip", "LNK">>, <<"symlink2", Last(Arg(p).el), Item(p)[3]>> >>)

Symlink2(p) ==
    /\ At(p, "symlink2")
    /\ Goto(p, IF reg[p].ip = 0 THEN UnlockPut("dp")
               ELSE << <<"ilock", "ip">>, <<"symlink3", Arg(p), Item(p)[3]>> >>)

Symlink3(p) ==
    /\ At(p, "symlink3")
    /\ AddLink(p, 1)
    /\ Then(p, << <<"symlink4", Arg(p), Item(p)[3]>> >>)
    /\ UNCHANGED <<ents, cwd, reg, asleep, panicked, fileVars>>

Symlink4(p) ==
    /\ At(p, "symlink4")
    /\ LET found == Found(reg[p].dp, Arg(p))
           failed == UnlockPut("dp") \o UnlockPut("ip") \o << <<"taint", "inode kept">> >> IN
       \/ \E x \in found : GetInto(p, "tmp", x[2], << <<"iput", "tmp">> >> \o failed)
       \/ found = {} /\ Goto(p, failed)
       \/ /\ found = {}
          /\ ents' = Linked(Inum(p, "dp"), Arg(p), Inum(p, "ip"))
          /\ text' = [text EXCEPT ![Inum(p, "ip")] = Item(p)[3]]
          /\ Then(p, Removed(p) \o UnlockPut("dp") \o UnlockPut("ip"))
          /\ UNCHANGED <<itable, dinode, cwd, reg, asleep, panicked, ftable, ofile, fdflag, call,
                         script, tainted>>

(* The call leaves behind something nobody can release. *)
Taint(p) ==
    /\ At(p, "taint")
    /\ tainted' = tainted \cup {<<call[p], Arg(p)>>}
    /\ Then(p, <<>>)
    /\ UNCHANGED <<itable, dinode, ents, cwd, reg, asleep, panicked, ftable, ofile, fdflag, text,
                   call, script>>

(* filereadlink() looks the path up twice. *)
Readlink(p) ==
    \E path \in Paths(p) : Start(p, "readlink", nameiparent("dp", path) \o << <<"readlink1", path>> >>)

Readlink1(p) ==
    /\ At(p, "readlink1")
    /\ Goto(p, IF reg[p].dp = 0 THEN <<>>
               ELSE << <<"iput", "dp">> >> \o namei("ip", Arg(p)) \o << <<"readlink2">> >>)

Readlink2(p) ==
    /\ At(p, "readlink2")
    /\ Goto(p, IF reg[p].ip = 0 THEN <<>> ELSE << <<"ilock", "ip">> >> \o UnlockPut("ip"))

(* fileunlink(): parent, then child; the entry goes before the link count. *)
Unlinking(path, rmdir) == nameiparent("dp", path) \o << <<"unlink1", path, rmdir>> >>

Unlink(p) ==
    \E path \in Paths(p), rmdir \in BOOLEAN : Start(p, "unlink", Unlinking(path, rmdir))

Unlink1(p) ==
    /\ At(p, "unlink1")
    /\ Goto(p, IF reg[p].dp = 0 THEN <<>>
               ELSE << <<"ilock", "dp">>, <<"unlink2", Last(Arg(p).el), Item(p)[3]>> >>)

Unlink2(p) ==
    /\ At(p, "unlink2")
    /\ LET found == Found(reg[p].dp, Arg(p)) IN
       IF Arg(p) \in {".", ".."} \/ found = {} THEN Goto(p, UnlockPut("dp"))
       ELSE \E x \in found : GetInto(p, "ip", x[2], << <<"ilock", "ip">>, <<"unlink3", x, Item(p)[3]>> >>)

(* What fileunlink() asks of the inode before it clears the entry. *)
DirEmpty(i) == \A x \in ents[i] : x[1] \in {".", ".."}
MayUnlink(p, rmdir) ==
    /\ Nlink(p, "ip") >= 1
    /\ IF rmdir THEN Type(p, "ip") = "DIR" /\ DirEmpty(Inum(p, "ip")) ELSE Type(p, "ip") # "DIR"

Unlink3(p) ==
    /\ At(p, "unlink3")
    /\ IF ~MayUnlink(p, Item(p)[3]) THEN Goto(p, UnlockPut("ip") \o UnlockPut("dp"))
       ELSE LET n == Nlink(p, "dp") - (IF Item(p)[3] THEN 1 ELSE 0) IN
            /\ ents' = [ents EXCEPT ![Inum(p, "dp")] = @ \ {Arg(p)}]
            /\ itable' = Updated(reg[p].dp, Type(p, "dp"), n)
            /\ dinode' = UpdatedDisk(reg[p].dp, Type(p, "dp"), n)
            /\ Then(p, UnlockPut("dp") \o << <<"unlink4">> >>)
            /\ UNCHANGED <<cwd, reg, asleep, panicked, fileVars>>

Unlink4(p) ==
    /\ At(p, "unlink4")
    /\ AddLink(p, -1)
    /\ Then(p, UnlockPut("ip"))
    /\ UNCHANGED <<ents, cwd, reg, asleep, panicked, fileVars>>

-----------------------------------------------------------------------------
(* Working directories, attributes and directory listings *)

Chdir(p) == \E path \in Paths(p) : Start(p, "chdir", namei("ip", path) \o << <<"chdir1">> >>)

Chdir1(p) ==
    /\ At(p, "chdir1")
    /\ Goto(p, IF reg[p].ip = 0 THEN <<>> ELSE << <<"ilock", "ip">>, <<"chdir2">> >>)

Chdir2(p) ==
    /\ At(p, "chdir2")
    /\ Goto(p, IF Type(p, "ip") # "DIR" THEN UnlockPut("ip") ELSE << <<"iunlock", "ip">>, <<"chdir3">> >>)

Chdir3(p) ==
    /\ At(p, "chdir3")
    /\ cwd' = [cwd EXCEPT ![p] = reg[p].ip]
    /\ reg' = [reg EXCEPT ![p] = [@ EXCEPT !.ip = 0, !.tmp = cwd[p]]]
    /\ Then(p, << <<"iput", "tmp">> >>)
    /\ UNCHANGED <<itable, dinode, ents, asleep, panicked, fileVars>>

(***************************************************************************)
(* sys_getcwd() climbs to the root.  It looks ".." up without a lock, and  *)
(* at the root it keeps the reference it took.                             *)
(***************************************************************************)
Getcwd(p) ==
    /\ Calls(p, "getcwd")
    /\ Enter(p, "getcwd", IF itable[cwd[p]].inum = ROOTINO THEN <<>> ELSE << <<"getcwd1">> >>)
    /\ itable' = [itable EXCEPT ![cwd[p]].ref = @ + 1]
    /\ reg' = [reg EXCEPT ![p].ip = cwd[p]]
    /\ UNCHANGED <<dinode, ents, cwd, asleep, panicked, ftable, ofile, fdflag, text, tainted>>

Getcwd1(p) ==
    /\ At(p, "getcwd1")
    /\ LET found == Found(reg[p].ip, "..") IN
       CASE Type(p, "ip") # "DIR" -> Crash(p, "dirlookup not DIR")
         [] Type(p, "ip") = "DIR" /\ found = {} -> Crash(p, "ilock")
         [] OTHER -> \E x \in found : GetInto(p, "dp", x[2], << <<"ilock", "dp">>, <<"getcwd2">> >>)

(* The name of the child in its parent, or a buffer that is too small. *)
Getcwd2(p) ==
    /\ At(p, "getcwd2")
    /\ \/ Goto(p, << <<"iput", "ip">> >> \o UnlockPut("dp"))
       \/ /\ \E x \in ents[Inum(p, "dp")] : x[2] = Inum(p, "ip")
          /\ Goto(p, << <<"iput", "ip">>, <<"iunlock", "dp">>, <<"getcwd3">> >>)

Getcwd3(p) ==
    /\ At(p, "getcwd3")
    /\ Goto(p, IF Inum(p, "dp") = ROOTINO THEN << <<"iput", "dp">> >>
               ELSE << <<"idup", "ip", "dp">>, <<"iput", "dp">>, <<"getcwd1">> >>)

(* Calls that look a path up, lock the inode, read or change attributes, and put it. *)
Following(what, path) == namei("ip", path) \o << <<"stat1", what, path>> >>

Attr(p, c, nofollow) ==
    \E path \in Paths(p) : Start(p, c, Following(IF nofollow THEN "nofollow" ELSE "follow", path))

Fstatat(p) == \E nofollow \in BOOLEAN : Attr(p, "fstatat", nofollow)
Faccess(p) == \E nofollow \in BOOLEAN : Attr(p, "faccess", nofollow)
Fchownat(p) == \E nofollow \in BOOLEAN : Attr(p, "fchownat", nofollow)
Fchmodat(p) == Attr(p, "fchmodat", TRUE)

Stat1(p) ==
    /\ At(p, "stat1")
    /\ Goto(p, IF reg[p].ip = 0 THEN <<>> ELSE << <<"ilock", "ip">>, <<"stat2">> \o Tail(Item(p)) >>)

(* A symbolic link is followed by the first three bytes of its target. *)
Stat2(p) ==
    /\ At(p, "stat2")
    /\ LET target == text[Inum(p, "ip")]
           link == Type(p, "ip") = "LNK" /\ Arg(p) # "nofollow" IN
       Goto(p, UnlockPut("ip") \o
               CASE link /\ target = NoText -> <<>>
                 [] link /\ target # NoText /\ Arg(p) = "link" -> Linking(ShortTarget(target), Item(p)[4])
                 [] link /\ target # NoText /\ Arg(p) = "follow" -> Following("follow", ShortTarget(target))
                 [] ~link /\ Arg(p) = "link" -> Linking(Item(p)[3], Item(p)[4])
                 [] OTHER -> <<>>)

(* sys_utimensat() on a path: the parent is locked for the lookup. *)
Utimens(p) ==
    \E path \in Paths(p) : Start(p, "utimens", nameiparent("dp", path) \o << <<"utimens1", path>> >>)

Utimens1(p) ==
    /\ At(p, "utimens1")
    /\ Goto(p, IF reg[p].dp = 0 THEN <<>> ELSE << <<"ilock", "dp">>, <<"utimens2", Last(Arg(p).el)>> >>)

Utimens2(p) ==
    /\ At(p, "utimens2")
    /\ LET found == Found(reg[p].dp, Arg(p)) IN
       \/ found = {} /\ Goto(p, UnlockPut("dp"))
       \/ \E x \in found :
             GetInto(p, "ip", x[2], UnlockPut("dp") \o << <<"ilock", "ip">> >> \o UnlockPut("ip"))

(***************************************************************************)
(* Calls on the inode of a descriptor.  fstat() locks and unlocks it.      *)
(* fchown() unlocks what it did not lock.  utimensat() of an empty path    *)
(* puts the reference of the open file.                                    *)
(***************************************************************************)
OnFile(p, c, items) ==
    \E fd \in Fds :
        /\ Calls(p, c)
        /\ ofile[p][fd] # 0 /\ ftable[ofile[p][fd]].type # "PIPE"
        /\ c = "getdents" => itable[ftable[ofile[p][fd]].ip].type = "DIR"
        /\ Enter(p, c, items)
        /\ reg' = [reg EXCEPT ![p].fip = ftable[ofile[p][fd]].ip]
        /\ UNCHANGED <<itable, dinode, ents, cwd, asleep, panicked, ftable, ofile, fdflag, text, tainted>>

Fstat(p) == OnFile(p, "fstat", << <<"ilock", "fip">>, <<"iunlock", "fip">> >>)
Fchown(p) == OnFile(p, "fchown", UnlockPut("fip"))
FUtimens(p) == OnFile(p, "futimens", << <<"taint", "inode put">>, <<"ilock", "fip">> >> \o UnlockPut("fip"))

(* getdents64(): the inode of an entry is locked after the directory was unlocked. *)
Getdents(p) == OnFile(p, "getdents", << <<"ilock", "fip">>, <<"getdents1", {}>> >>)

Getdents1(p) ==
    /\ At(p, "getdents1")
    /\ \/ Goto(p, << <<"iunlock", "fip">> >>)
       \/ \E x \in ents[Inum(p, "fip")] \ Arg(p) :
             Goto(p, << <<"iunlock", "fip">>, <<"iget", "ip", x[2]>>, <<"ilock", "ip">> >> \o UnlockPut("ip")
                     \o << <<"ilock", "fip">>, <<"getdents1", Arg(p) \cup {x}>> >>)

-----------------------------------------------------------------------------
(* Renaming *)

PathPrefix(old, new) == old.abs = new.abs /\ IsPrefix(old.el, new.el)
RenameLookups(old, new) ==
    namei("ip", old) \o << <<"rename2", old, new>> >>

(* sys_renameat2(): nothing is done when the old path is a prefix of the new. *)
Rename(p) ==
    \E old \in Paths(p), new \in Paths(p), noreplace \in BOOLEAN :
        Start(p, "rename",
              CASE PathPrefix(old, new) -> <<>>
                [] ~PathPrefix(old, new) /\ noreplace -> namei("ip2", new) \o << <<"rename1", old, new>> >>
                [] OTHER -> RenameLookups(old, new))

(* RENAME_NOREPLACE unlocks an inode that is not locked. *)
Rename1(p) ==
    /\ At(p, "rename1")
    /\ Goto(p, IF reg[p].ip2 # 0 THEN << <<"iunlock", "ip2">> >> ELSE RenameLookups(Arg(p), Item(p)[3]))

Rename2(p) ==
    /\ At(p, "rename2")
    /\ Goto(p, IF reg[p].ip = 0 THEN <<>>
               ELSE nameiparent("dp", Arg(p)) \o namei("ip2", Item(p)[3]) \o nameiparent("dp2", Item(p)[3])
                    \o << <<"rename3", Arg(p), Item(p)[3]>> >>)

(* filerename() on two inodes, two parents, and whether the new name exists. *)
Rename3(p) ==
    /\ At(p, "rename3")
    /\ LET g == reg[p]
           old == Arg(p)
           new == Item(p)[3] IN
       Goto(p, CASE g.ip = g.ip2 -> << <<"iput", "ip">>, <<"iput", "ip2">>, <<"iput", "dp">>, <<"iput", "dp2">> >>
                 [] g.ip # g.ip2 /\ g.dp = g.dp2 /\ g.ip2 = 0 ->
                      << <<"ilock", "dp">>, <<"rename4", Last(old.el), Last(new.el)>> >>
                 [] g.ip # g.ip2 /\ g.dp # g.dp2 /\ g.ip2 = 0 -> << <<"rename5", old, new>> >>
                 [] OTHER -> << <<"ilock", "dp2">>, <<"ilock", "ip2">>, <<"ilock", "ip">>, <<"rename7", new>> >>)

(***************************************************************************)
(* rename(): the entry gets the new name, which somebody may have made     *)
(* since it was looked up.  An error returns with dp locked.               *)
(***************************************************************************)
Rename4(p) ==
    /\ At(p, "rename4")
    /\ LET found == Found(reg[p].dp, Arg(p)) IN
       \/ found = {} /\ Goto(p, << <<"taint", "lock kept">> >>)
       \/ \E x \in found :
             GetInto(p, "tmp", x[2], << <<"ilock", "tmp">>, <<"rename4b", x, <<Item(p)[3], x[2]>> >> >>)

Rename4b(p) ==
    /\ At(p, "rename4b")
    /\ ents' = [ents EXCEPT ![Inum(p, "dp")] = (@ \ {Arg(p)}) \cup {Item(p)[3]}]
    /\ tainted' = IF Found(reg[p].dp, Item(p)[3][1]) = {} THEN tainted ELSE tainted \cup {<<"rename", "name twice">>}
    /\ Then(p, Removed(p) \o UnlockPut("tmp") \o UnlockPut("dp") \o << <<"iput", "ip">>, <<"iput", "dp2">> >>)
    /\ UNCHANGED <<itable, dinode, cwd, reg, asleep, panicked, ftable, ofile, fdflag, text, call, script>>

(* A move into another directory: dirlink() without its lock, in two steps. *)
Rename5(p) ==
    /\ At(p, "rename5")
    /\ LET name == Last(Item(p)[3].el) IN
       IF reg[p].dp2 = 0 THEN Crash(p, "dirlookup")
       ELSE LET found == Found(reg[p].dp2, name) IN
            \/ \E x \in found : GetInto(p, "tmp", x[2], << <<"iput", "tmp">>, <<"taint", "inode kept">> >>)
            \/ /\ found = {}
               /\ Goto(p, << <<"rename6", Arg(p), name, ents[Inum(p, "dp2")]>> >>)

(***************************************************************************)
(* An entry written since the scan may be in the slot that is overwritten. *)
(* The old name is then unlinked, with the link count that stood for it:   *)
(* the file is left without a link, and dp2 is never put.                  *)
(***************************************************************************)
Rename6(p) ==
    /\ At(p, "rename6")
    /\ LET d == Inum(p, "dp2")
           since == ents[d] \ Item(p)[4] IN
       \/ Goto(p, << <<"taint", "inode kept">> >>)
       \/ /\ \E lost \in {{}} \cup {{x} : x \in since} :
                ents' = [ents EXCEPT ![d] = (@ \ lost) \cup {<<Item(p)[3], Inum(p, "ip")>>}]
          /\ Then(p, << <<"iput", "dp">>, <<"iput", "ip">> >> \o Unlinking(Arg(p), Type(p, "ip") = "DIR"))
          /\ tainted' = tainted \cup {<<"rename", "link lost">>}
          /\ UNCHANGED <<itable, dinode, cwd, reg, asleep, panicked, ftable, ofile, fdflag, text,
                         call, script>>

(***************************************************************************)
(* reinode(): the entry of the old inode is given the new one.  Then the   *)
(* new path is unlinked, as the kind of file that ip2 is found to be after *)
(* it was put; the file that was to be moved loses its link.  Across       *)
(* directories ip2 is put once more.                                       *)
(***************************************************************************)
Rename7(p) ==
    /\ At(p, "rename7")
    /\ LET d == Inum(p, "dp2")
           there == {x \in ents[d] : x[2] = Inum(p, "ip2")} IN
       IF there = {} THEN Goto(p, << <<"taint", "lock kept">> >>)
       ELSE /\ \E x \in there : ents' = [ents EXCEPT ![d] = (@ \ {x}) \cup {<<x[1], Inum(p, "ip")>>}]
            /\ reg' = [reg EXCEPT ![p].fip = reg[p].ip2]
            /\ Then(p, UnlockPut("ip2") \o UnlockPut("ip") \o UnlockPut("dp2") \o
                       IF reg[p].dp = reg[p].dp2 THEN << <<"iput", "dp">>, <<"rename8", Arg(p), FALSE>> >>
                       ELSE << <<"rename8", Arg(p), TRUE>> >>)
            /\ tainted' = tainted \cup {<<"rename", "link lost">>}
            /\ UNCHANGED <<itable, dinode, cwd, asleep, panicked, ftable, ofile, fdflag, text, call, script>>

Rename8(p) ==
    /\ At(p, "rename8")
    /\ LET dir == itable[reg[p].fip].type = "DIR" IN
       Goto(p, (IF Item(p)[3] THEN << <<"iput", "dp">>, <<"iput", "fip">> >> ELSE <<>>) \o Unlinking(Arg(p), dir))

-----------------------------------------------------------------------------
(* fork() and exit(), as far as files go *)

\* A wrong version for comparison: a file with two descriptors is counted once.
ForkedFileOnce(p, f) == IF \E fd \in Fds : ofile[p][fd] = f THEN 1 ELSE 0
ForkedFile(p, f) == Cardinality({fd \in Fds : ofile[p][fd] = f})

Fork(p) ==
    \E q \in Procs :
        /\ Calls(p, "fork") /\ cwd[q] = 0
        /\ Enter(p, "fork", <<>>)
        /\ ftable' = [f \in FileIds |-> [ftable[f] EXCEPT !.ref = @ + ForkedFile(p, f)]]
        /\ ofile' = [ofile EXCEPT ![q] = ofile[p]]
        /\ fdflag' = [fdflag EXCEPT ![q] = fdflag[p]]
        /\ itable' = [itable EXCEPT ![cwd[p]].ref = @ + 1]
        /\ cwd' = [cwd EXCEPT ![q] = cwd[p]]
        /\ UNCHANGED <<dinode, ents, reg, asleep, panicked, text, tainted>>

Exit(p) ==
    /\ Calls(p, "exit")
    /\ LET order == SetToSeq({fd \in Fds : ofile[p][fd] # 0}) IN
       Enter(p, "exit", [i \in DOMAIN order |-> <<"fileclose", ofile[p][order[i]]>>] \o << <<"exit1">> >>)
    /\ ofile' = [ofile EXCEPT ![p] = [fd \in Fds |-> 0]]
    /\ fdflag' = [fdflag EXCEPT ![p] = {}]
    /\ UNCHANGED <<itable, dinode, ents, cwd, reg, asleep, panicked, ftable, text, tainted>>

Exit1(p) ==
    /\ At(p, "exit1")
    /\ reg' = [reg EXCEPT ![p].tmp = cwd[p]]
    /\ cwd' = [cwd EXCEPT ![p] = 0]
    /\ Then(p, << <<"iput", "tmp">> >>)
    /\ UNCHANGED <<itable, dinode, ents, asleep, panicked, fileVars>>

-----------------------------------------------------------------------------

(***************************************************************************)
(* The file system of mkfs/mkfs.c: every inode has one link, and make_dir()*)
(* does not count "..".  mkfs makes no symbolic link; those of Tree stand  *)
(* for what filesymlink() made earlier.                                    *)
(***************************************************************************)
MkfsRoot == <<[inode |-> [type |-> "DIR", nlink |-> 1], ents |-> NewDir(ROOTINO, ROOTINO), text |-> NoText]>>
MkfsMade(image, n) ==
    LET i == Len(image) + 1 IN
    Append([image EXCEPT ![n.parent].ents = @ \cup {<<n.name, i>>}],
           [inode |-> [type |-> n.kind, nlink |-> 1],
            ents |-> IF n.kind = "DIR" THEN NewDir(n.parent, i) ELSE {},
            text |-> n.target])
MkfsImage == FoldLeft(MkfsMade, MkfsRoot, Tree)
FreeInode == [inode |-> [type |-> "FREE", nlink |-> 0], ents |-> {}, text |-> NoText]
Disk(i) == IF i <= Len(MkfsImage) THEN MkfsImage[i] ELSE FreeInode

(* The processes, and the init process that makes no calls here, are at the root. *)
InitWith(alive) ==
    /\ dinode = [i \in Inums |-> Disk(i).inode]
    /\ ents = [i \in Inums |-> Disk(i).ents]
    /\ text = [i \in Inums |-> Disk(i).text]
    /\ itable = [e \in Entries |->
                   [inum |-> IF e = 1 THEN ROOTINO ELSE 0, ref |-> IF e = 1 THEN Cardinality(alive) + 1 ELSE 0,
                    valid |-> FALSE, type |-> "FREE", nlink |-> 0, lock |-> 0]]
    /\ cwd = [p \in Procs |-> IF p \in alive THEN 1 ELSE 0]
    /\ todo = [p \in Procs |-> <<>>]
    /\ reg = [p \in Procs |-> NoRegs]
    /\ asleep = [p \in Procs |-> 0]
    /\ panicked = <<>>
    /\ ftable = [f \in FileIds |-> [ref |-> 0, type |-> "NONE", ip |-> 0]]
    /\ ofile = [p \in Procs |-> [fd \in Fds |-> 0]]
    /\ fdflag = [p \in Procs |-> {}]
    /\ call = [p \in Procs |-> ""]
    /\ tainted = {}

Init == \E s \in Scripts : InitWith(s.alive) /\ script = s.does

CallStep(p) ==
    \/ Open(p) \/ OpenCreate(p) \/ Mkdir(p) \/ Mknod(p) \/ Link(p) \/ Symlink(p) \/ Readlink(p)
    \/ Unlink(p) \/ Chdir(p) \/ Getcwd(p) \/ Fstatat(p) \/ Faccess(p) \/ Fchownat(p) \/ Fchmodat(p)
    \/ Utimens(p) \/ Fstat(p) \/ Fchown(p)
    \/ FUtimens(p) \/ Getdents(p) \/ Rename(p) \/ Exec(p) \/ Close(p) \/ Dup(p) \/ Dup3(p)
    \/ SetFd(p) \/ Pipe2(p) \/ Fork(p) \/ Exit(p)

PlaceStep(p) ==
    \/ Ret(p) \/ Taint(p) \/ FileClose(p) \/ FileDup(p) \/ Creat1(p) \/ Create(p) \/ Create1(p) \/ Create2(p)
    \/ Create3(p) \/ Create4(p) \/ Create5(p) \/ Create6(p) \/ Mkdir1(p) \/ Mknod1(p) \/ Open1(p)
    \/ Open2(p) \/ Open3(p) \/ Exec1(p) \/ Exec2(p) \/ Exec3(p) \/ Exec4(p)
    \/ Link1(p) \/ Link2(p) \/ Link3(p) \/ Link4(p) \/ Link5(p) \/ Symlink1(p) \/ Symlink2(p)
    \/ Symlink3(p) \/ Symlink4(p) \/ Readlink1(p) \/ Readlink2(p) \/ Unlink1(p) \/ Unlink2(p)
    \/ Unlink3(p) \/ Unlink4(p) \/ Chdir1(p) \/ Chdir2(p) \/ Chdir3(p) \/ Getcwd1(p) \/ Getcwd2(p)
    \/ Getcwd3(p) \/ Stat1(p) \/ Stat2(p) \/ Utimens1(p) \/ Utimens2(p) \/ Getdents1(p)
    \/ Rename1(p) \/ Rename2(p) \/ Rename3(p) \/ Rename4(p) \/ Rename4b(p) \/ Rename5(p) \/ Rename6(p)
    \/ Rename7(p) \/ Rename8(p) \/ Exit1(p)

Next ==
    \E p \in Procs :
        \/ Idle(p) /\ CallStep(p)
        \/ Running(p) /\ Turn(p) /\ InodeStep(p) /\ UNCHANGED fileVars
        \/ Running(p) /\ Turn(p) /\ PlaceStep(p)

Spec == Init /\ [][Next]_vars

-----------------------------------------------------------------------------
(* Properties *)

Sound == panicked = <<>> /\ tainted = {}

(* Types of the state. *)
TypeOK ==
    /\ itable \in [Entries -> [inum : 0..NInum, ref : Int, valid : BOOLEAN, type : Types, nlink : Int,
                              lock : {0} \cup Procs]]
    /\ dinode \in [Inums -> [type : Types, nlink : Int]]
    /\ \A i \in Inums : ents[i] \subseteq DirNames \X Inums
    /\ cwd \in [Procs -> {0} \cup Entries]
    /\ reg \in [Procs -> [Registers -> {0, BadPtr} \cup Entries]]
    /\ asleep \in [Procs -> {0} \cup Entries]
    /\ ftable \in [FileIds -> [ref : Int, type : {"NONE", "PIPE", "INODE", "DEVICE"}, ip : {0} \cup Entries]]
    /\ ofile \in [Procs -> [Fds -> {0} \cup FileIds]]
    /\ fdflag \in [Procs -> SUBSET Fds]

Holders(e) ==
    Cardinality({p \in Procs : cwd[p] = e})
    + Cardinality({f \in FileIds : ftable[f].ref > 0 /\ ftable[f].type \in {"INODE", "DEVICE"} /\ ftable[f].ip = e})
    + Cardinality({<<p, r>> \in Procs \X Counted : reg[p][r] = e})
    + (IF e = 1 THEN 1 ELSE 0)

(***************************************************************************)
(* The reference count of an inode entry is the number of pointers to it:  *)
(* working directories, open files and the pointers calls are working      *)
(* with; so iput() frees an inode exactly when nobody has it.              *)
(***************************************************************************)
RefsCount == Sound => \A e \in Entries : itable[e].ref = Holders(e)

Closing(p, f) == Cardinality({i \in DOMAIN todo[p] : todo[p][i] = <<"fileclose", f>>})

(***************************************************************************)
(* The reference count of an open file is the number of descriptors that   *)
(* stand for it, with the closes that are under way.                       *)
(***************************************************************************)
FileRefsCount ==
    Sound => \A f \in FileIds :
        ftable[f].ref = Cardinality({<<p, fd>> \in Procs \X Fds : ofile[p][fd] = f})
                        + FoldSet(LAMBDA p, n : n + Closing(p, f), 0, Procs)

Named(i) == \E d \in Inums : \E x \in ents[d] : x[2] = i /\ x[1] \notin {".", ".."}
Live(d) == d = ROOTINO \/ Named(d)

(***************************************************************************)
(* A directory entry leads to an allocated inode: create(), link() and     *)
(* unlink() never leave a name behind whose inode iput() freed. The ".."   *)
(* of a removed directory is no such name.                                 *)
(***************************************************************************)
NoDangling == tainted = {} => \A d \in Inums : Live(d) => \A x \in ents[d] : dinode[x[2]].type # "FREE"

LinksTo(i) ==
    {<<d, x>> \in Inums \X UNION {ents[d] : d \in Inums} :
        x \in ents[d] /\ x[2] = i /\ x[1] # "." /\ (x[1] = ".." => Live(d))}

(***************************************************************************)
(* The link count of an inode on disk covers the entries that name it,     *)
(* the ".." of the directories in it included, at every moment: a crash    *)
(* between two writes leaves a count that is too large, never too small.   *)
(***************************************************************************)
LinksCovered ==
    tainted = {} => \A i \in Inums \ {ROOTINO} : dinode[i].nlink >= Cardinality(LinksTo(i))

Quiet == \A p \in Procs : todo[p] = <<>>

(***************************************************************************)
(* When no call is under way the link counts are exact: every undo of a    *)
(* failed call, such as the one of filelink(), has put nlink back.         *)
(***************************************************************************)
LinksExact ==
    Sound /\ Quiet => \A i \in Inums \ {ROOTINO} : dinode[i].nlink = Cardinality(LinksTo(i))

(***************************************************************************)
(* When no call is under way, an inode that nobody names and nobody has    *)
(* open is free: the iput() that drops the last reference frees it.        *)
(***************************************************************************)
FreedWhenUnused ==
    Sound /\ Quiet => \A i \in Inums \ {ROOTINO} :
        dinode[i].type # "FREE" => dinode[i].nlink > 0 \/ Cached(i) # {}

(***************************************************************************)
(* iget() gives an inode one entry in the table, and an entry that is      *)
(* valid and not locked is what the disk has: who changed it called        *)
(* iupdate() before iunlock().                                             *)
(***************************************************************************)
OneEntry ==
    Sound => \A e \in Entries :
        itable[e].ref > 0 =>
            /\ Cached(itable[e].inum) = {e}
            /\ itable[e].valid /\ itable[e].lock = 0 =>
                  [type |-> itable[e].type, nlink |-> itable[e].nlink] = dinode[itable[e].inum]

(***************************************************************************)
(* Two calls do not lock each other out with the sleep locks of inodes:    *)
(* unless a rename is under way, someone who is not asleep has work.       *)
(***************************************************************************)
NoLockCycle ==
    Sound /\ (\E p \in Procs : asleep[p] # 0) /\ (\A p \in Procs : call[p] # "rename") =>
        \E p \in Procs : asleep[p] = 0 /\ todo[p] # <<>>

(***************************************************************************)
(* A directory has a name once, whichever calls add it at the same time:   *)
(* dirlink() looks the name up under the lock it adds it under.            *)
(***************************************************************************)
NamesUnique ==
    Sound => \A d \in Inums : \A x, y \in ents[d] : x[1] = y[1] => x = y

KnownDefects ==
    {<<"dup", "file kept">>, <<"pipe2", "file kept">>, <<"exec", "file kept">>}
    \cup ({"open", "creat", "symlink", "getcwd", "rename"} \X {"inode kept"})
    \cup ({"creat", "mkdir", "mknod", "link", "symlink", "rename"} \X {"directory removed"})
    \cup ({"rename"} \X {"lock kept", "link lost", "name twice"})
    \cup {<<"futimens", "inode put">>}

(***************************************************************************)
(* The calls that keep or lose a reference are these, and no others.       *)
(***************************************************************************)
OnlyKnownDefects == tainted \subseteq KnownDefects

KnownPanics ==
    {<<"creat", "permission">>, <<"dup3", "filedup">>, <<"rename", "dirlookup">>}
    \cup ({"mkdir", "mknod", "fchown", "rename"} \X {"iunlock"})
    \cup ({"open", "getcwd", "getdents"} \X {"ilock: no type"})

(***************************************************************************)
(* The assertions of fs.c and file.c fail in the calls listed, and in no   *)
(* others.                                                                 *)
(***************************************************************************)
OnlyKnownPanics == panicked # <<>> => <<call[panicked[2]], panicked[1]>> \in KnownPanics
=============================================================================
