------------------------------- MODULE MCFiles -------------------------------
(***************************************************************************)
(* Instances of Files for TLC. The disk starts with /a, /a/b and a         *)
(* symbolic link; an initial state chooses a script, which gives each      *)
(* process the calls it may make next and the paths it may name.           *)
(***************************************************************************)
EXTENDS Files

Abs(s) == [abs |-> TRUE, el |-> s]
Rel(s) == [abs |-> FALSE, el |-> s]
A == Abs(<<"a">>)
AB == Abs(<<"a", "b">>)
AN == Abs(<<"a", "n">>)
L == Abs(<<"l">>)
N == Rel(<<"n">>)
Up == Rel(<<"..">>)
MCTargets == {AB}
Node(kind, parent, name) == [kind |-> kind, parent |-> parent, name |-> name, target |-> NoText]

(* /a, /a/b and the symbolic link /l to /a/b. *)
MCTree == << Node("DIR", 1, "a"), Node("FILE", 2, "b"), [Node("LNK", 1, "l") EXCEPT !.target = AB] >>

Do(calls, paths) == << [calls |-> calls, paths |-> paths] >>
Script(alive, one, two) == [alive |-> alive, does |-> <<one, two>>]

(* Two calls at a time on the same few names. *)
Names2 == Script({1, 2}, Do({"creat", "mkdir", "mknod", "link", "symlink", "unlink", "chdir", "open"}, {A, AB, N}),
                 Do({"unlink"}, {AB, N}))
Created == Script({1, 2}, Do({"creat", "mkdir", "link", "symlink", "unlink"}, {A, N}), Do({"creat"}, {A, N}))
(* A name is moved or followed while another call removes or makes one. *)
Moves == Script({1, 2}, Do({"rename"}, {AB, AN, N}), Do({"unlink", "creat"}, {AB, AN}))
Follows == Script({1, 2}, Do({"open", "link", "fstatat", "faccess", "fchownat", "fchmodat", "readlink", "exec",
                              "utimens"}, {L}), Do({"unlink"}, {L, AB}))
(* A directory is read, or is somebody's working directory, while it is emptied and removed. *)
Reads == Script({1, 2}, Do({"open"}, {A}) \o Do({"getdents", "fstat"}, {}), Do({"unlink"}, {AB}))
Removed2 == Script({1, 2}, Do({"chdir"}, {A}) \o Do({"getcwd", "creat", "mkdir", "open", "symlink"}, {N, Up}),
                   Do({"unlink"}, {AB}) \o Do({"unlink"}, {A}))
Nested == Script({1}, Do({"mkdir"}, {AN}) \o Do({"chdir"}, {AN}) \o Do({"getcwd", "unlink"}, {AN})
                      \o Do({"unlink"}, {AB}) \o Do({"unlink"}, {A}) \o Do({"getcwd", "open"}, {Up}), <<>>)
(* Descriptors: two processes, one of which the other makes. *)
OnFds == {"dup", "dup3", "fcntl", "pipe2", "close", "fork", "fstat", "fchown", "futimens", "open"}
Descriptors == Script({1}, Do({"open", "pipe2"}, {A, AB}) \o Do(OnFds, {AB}) \o Do(OnFds \cup {"exec", "exit"}, {AB}),
                      Do({"close", "exit", "dup3"}, {AB}))
(* A file is removed while creat() of a name looks at the same directory. *)
OrphanScripts == {Script({1, 2}, Do({"creat"}, {AN, AB}), Do({"unlink"}, {AB}))}
MCScripts == {Names2, Created, Moves, Follows, Reads, Removed2, Nested, Descriptors}
=============================================================================
