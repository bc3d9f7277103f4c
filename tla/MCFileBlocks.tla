---------------------------- MODULE MCFileBlocks ----------------------------
(***************************************************************************)
(* Instances of FileBlocks for TLC. An initial state chooses a scene: what *)
(* each of two processes does next to the files, whether the power may     *)
(* fail, and whether writes append.                                        *)
(***************************************************************************)
EXTENDS FileBlocks

MCLayout == << <<1, 2, 1>>, <<>> >>
Scene(one, two, crash, app) == [does |-> <<one, two>>, crash |-> crash, append |-> app]
Remove2 == Scene(<<{"write"}, {"write"}>>, <<{"remove"}>>, "never", FALSE)
Crash1 == Scene(<<{"write"}, {"write"}>>, <<>>, "may", FALSE)
Crash2 == Scene(<<{"write"}>>, <<{"write"}>>, "may", FALSE)
Append2 == Scene(<<{"write"}>>, <<{"write"}>>, "never", TRUE)
Mixed == Scene(<<{"read", "lseek", "writeback", "sendfile"}>>, <<{"write"}>>, "never", FALSE)
Torn1 == Scene(<<>>, <<{"remove"}, {"write"}>>, "may", FALSE)
Torn2 == Scene(<<{"write"}>>, <<{"remove"}>>, "may", FALSE)
MCScenarios == {Remove2, Crash1, Crash2, Append2, Mixed, Torn1, Torn2}

(* A file with a doubly indirect block is removed while another process reads. *)
BigLayout == << <<1, 2, 1, 2, 1, 2>>, <<1, 2, 1>> >>
BigScenarios == {Scene(<<{"remove"}>>, <<{"read"}, {"read"}>>, "never", FALSE)}
=============================================================================
