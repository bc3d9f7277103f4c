------------------------------ MODULE MCFilesVm -----------------------------
(***************************************************************************)
(* Files, and the memory they are mapped to: an initial state chooses the  *)
(* file system calls (Files) or the address spaces (AddressSpace), and one *)
(* of its scripts.                                                         *)
(***************************************************************************)
EXTENDS MCAddressSpace

CONSTANTS NINODE, NInum, Names, NFILE, NOFILE, Targets, Tree, FileScripts

VARIABLES
    which,
    itable, dinode, ents, cwd, todo, reg, asleep, panicked,
    ftable, ofile, fdflag, text, fileCall, fileScript, fileTainted

F == INSTANCE MCFiles WITH
        Scripts <- FileScripts, call <- fileCall, script <- fileScript, tainted <- fileTainted

Given == INSTANCE MCFiles WITH Scripts <- {}, Targets <- {}, Tree <- <<>>
SomeTargets == Given!MCTargets
SomeTree == Given!MCTree
SomeScripts == Given!MCScripts

filesVars == <<itable, dinode, ents, cwd, todo, reg, asleep, panicked,
               ftable, ofile, fdflag, text, fileCall, fileScript, fileTainted>>

(***************************************************************************)
(* What is not chosen rests in one initial state.                          *)
(***************************************************************************)
FvInit ==
    /\ which \in {"files", "vm"}
    /\ Init /\ (which # "vm" => script = Offsets)
    /\ F!Init /\ (which # "files" => fileScript = F!Reads.does)

FvNext ==
    \/ which = "vm" /\ Next /\ UNCHANGED <<which, filesVars>>
    \/ which = "files" /\ F!Next /\ UNCHANGED <<which, vars>>

FvSpec == FvInit /\ [][FvNext]_<<which, vars, filesVars>>

-----------------------------------------------------------------------------
(* Properties *)

(***************************************************************************)
(* A frame is counted once for each page that maps it, private pages are   *)
(* one process's, and nothing is left when all are gone:                   *)
(* AddressSpace!PageRefs, PrivateApart and NothingLeft.                    *)
(***************************************************************************)
PagesExact ==
    which = "vm" => TypeOK /\ PageRefs /\ PrivateApart /\ NothingLeft

(***************************************************************************)
(* Regions and their objects are apart, cover what is mapped, count their  *)
(* file, and show the pages of it asked for: AddressSpace!RegionsApart,    *)
(* ObjectsApart, Covered, FileRefs and FilePagesRight.                     *)
(***************************************************************************)
RegionsExact ==
    which = "vm" => RegionsApart /\ ObjectsApart /\ Covered /\ FileRefs /\ FilePagesRight

(***************************************************************************)
(* The counts of inodes and open files are those of their users:           *)
(* Files!RefsCount and FileRefsCount.                                      *)
(***************************************************************************)
CountsExact ==
    which = "files" => F!TypeOK /\ F!RefsCount /\ F!FileRefsCount

(***************************************************************************)
(* A name leads to a live inode and is there once, nlink on disk is never  *)
(* too small and in the end exact, and an inode has one entry, true to the *)
(* disk: Files!NoDangling, NamesUnique, LinksCovered, LinksExact, OneEntry.*)
(***************************************************************************)
NamesExact ==
    which = "files" =>
        F!NoDangling /\ F!NamesUnique /\ F!LinksCovered /\ F!LinksExact /\ F!OneEntry

(***************************************************************************)
(* Calls do not lock each other out of inodes: Files!NoLockCycle.          *)
(***************************************************************************)
NoLockCycle ==
    which = "files" => F!NoLockCycle

(***************************************************************************)
(* References are kept or lost, and the kernel panics, in known calls only:*)
(* Files!OnlyKnownDefects and OnlyKnownPanics,                             *)
(* AddressSpace!OnlyKnownPanics.                                           *)
(***************************************************************************)
OnlyKnown ==
    (which = "vm" => OnlyKnownPanics) /\ (which = "files" => F!OnlyKnownDefects /\ F!OnlyKnownPanics)
=============================================================================
