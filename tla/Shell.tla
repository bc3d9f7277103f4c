------------------------------- MODULE Shell -------------------------------
(***************************************************************************)
(* The shell, usr/src/mysh/main.c: the parser and runcmd, which turns a    *)
(* command into processes joined by pipes, with one system call per step;  *)
(* and the loop of usr/src/init/main.c that reaps what the shell leaves.   *)
(*                                                                         *)
(* A line is its sequence of tokens ("a" is a word): what gettoken and     *)
(* peek do to characters is left out.  A program started by execve reads   *)
(* its standard input to the end and exits; fork, wait, pipe, dup and exit *)
(* are the kernel's, seen from the processes that call them.               *)
(***************************************************************************)
EXTENDS Integers, Sequences, FiniteSets, FiniteSetsExt

CONSTANTS
    Cases,     \* what is typed (a sequence of commands) and which calls may fail
    Pids,      \* process slots left by init and the shell, 1..n
    MAXARGS,
    NOFILE     \* descriptors of a process

VARIABLES
    script,    \* commands not typed yet
    command,   \* the line being run, parsed
    shell,     \* the shell: "prompt", "fork", "wait" or "gone"
    typed,     \* the command the line was written from
    procs,     \* slot -> process
    fails      \* "never", "may" (one call will), "did", or "full": every fork

vars == <<script, command, shell, typed, procs, fails>>

-----------------------------------------------------------------------------
(* Commands.                                                               *)
Exec(n) == [type |-> "EXEC", argc |-> n]
Redir(c, op) == [type |-> "REDIR", cmd |-> c, op |-> op]
Pipe(l, r) == [type |-> "PIPE", left |-> l, right |-> r]
List(l, r) == [type |-> "LIST", left |-> l, right |-> r]
Back(c) == [type |-> "BACK", cmd |-> c]
Cd == [type |-> "CD"]                            \* done by the shell itself
Wrong(ts) == [type |-> "WRONG", tokens |-> ts]   \* a line that is no command
Syntax == [type |-> "SYNTAX"]

Tok(ts) == IF ts = <<>> THEN "end" ELSE Head(ts)
Result(c, ts) == [cmd |-> c, rest |-> ts]
Panic == Result(Syntax, <<>>)
Failed(r) == r.cmd = Syntax

RECURSIVE parseline(_), parsepipe(_), parseargs(_, _, _), parseredirs(_, _), parseback(_, _)

(* Each redirection wraps what came before it.                             *)
parseredirs(c, ts) ==
    IF Tok(ts) \notin {"<", ">", ">>"} THEN Result(c, ts)
    ELSE IF Tok(Tail(ts)) # "a" THEN Panic
    ELSE parseredirs(Redir(c, Tok(ts)), Tail(Tail(ts)))

(* "( line )" and its redirections.                                        *)
parseblock(ts) ==
    LET r == parseline(Tail(ts))
    IN  IF Failed(r) \/ Tok(r.rest) # ")" THEN Panic
        ELSE parseredirs(r.cmd, Tail(r.rest))

(* The redirections met among the words wrap the command in their order;   *)
(* the words are counted in the innermost.                                 *)
RECURSIVE Counted(_, _)
Counted(c, n) == IF c.type = "REDIR" THEN [c EXCEPT !.cmd = Counted(@, n)] ELSE Exec(n)

parseargs(c, argc, ts) ==
    IF Tok(ts) \in {"|", ")", "&", ";", "end"} THEN Result(Counted(c, argc), ts)
    ELSE IF Tok(ts) # "a" \/ argc + 1 >= MAXARGS THEN Panic
    ELSE LET r == parseredirs(c, Tail(ts))
         IN  IF Failed(r) THEN Panic ELSE parseargs(r.cmd, argc + 1, r.rest)

parseexec(ts) ==
    IF Tok(ts) = "(" THEN parseblock(ts)
    ELSE LET r == parseredirs(Exec(0), ts)
         IN  IF Failed(r) THEN Panic ELSE parseargs(r.cmd, 0, r.rest)

(* A pipe's right side is all that follows it.                             *)
parsepipe(ts) ==
    LET l == parseexec(ts)
    IN  IF Failed(l) \/ Tok(l.rest) # "|" THEN l
        ELSE LET r == parsepipe(Tail(l.rest))
             IN  IF Failed(r) THEN Panic ELSE Result(Pipe(l.cmd, r.cmd), r.rest)

parseback(c, ts) == IF Tok(ts) = "&" THEN parseback(Back(c), Tail(ts)) ELSE Result(c, ts)

(* "; line" after a pipe and its "&"s makes a list.                        *)
LineOf(l) ==
    IF Tok(l.rest) # ";" THEN l
    ELSE LET r == parseline(Tail(l.rest))
         IN  IF Failed(r) THEN Panic ELSE Result(List(l.cmd, r.cmd), r.rest)

parseline(ts) ==
    LET p == parsepipe(ts)
    IN  IF Failed(p) THEN Panic ELSE LineOf(parseback(p.cmd, p.rest))

(* What is left over is a syntax error.                                    *)
parsecmd(ts) == LET r == parseline(ts) IN IF r.rest # <<>> THEN Syntax ELSE r.cmd

-----------------------------------------------------------------------------
(* How a user writes a command down, with parentheses where a part binds   *)
(* less tightly than its place: the reference for the parser.              *)
Level(c) == CASE c.type = "EXEC" -> 3 [] c.type = "REDIR" -> 3
              [] c.type = "PIPE" -> 2 [] c.type = "BACK" -> 1 [] OTHER -> 0

RECURSIVE Written(_)
At(level, c) == IF Level(c) >= level THEN Written(c) ELSE <<"(">> \o Written(c) \o <<")">>
Written(c) ==
    CASE c.type = "EXEC" -> [i \in 1..c.argc |-> "a"]
      [] c.type = "CD" -> <<"cd", "a">>
      [] c.type = "WRONG" -> c.tokens
      [] c.type = "REDIR" -> At(3, c.cmd) \o <<c.op, "a">>
      [] c.type = "PIPE" -> At(3, c.left) \o <<"|">> \o At(2, c.right)
      [] c.type = "BACK" -> At(1, c.cmd) \o <<"&">>
      [] OTHER -> At(1, c.left) \o <<";">> \o At(0, c.right)

-----------------------------------------------------------------------------
(* Processes.  A descriptor is closed, the terminal, a file, or an end of  *)
(* a pipe.                                                                 *)
Closed == [kind |-> "closed"]
Tty == [kind |-> "tty"]
File == [kind |-> "file"]
End(side, k) == [kind |-> side, pipe |-> k]

Fds == 0..(NOFILE - 1)
FreeFds(fds) == {d \in Fds : fds[d] = Closed}
Opened(fds, e) == [fds EXCEPT ![Min(FreeFds(fds))] = e]
close(fds, ds) == [d \in Fds |-> IF d \in ds THEN Closed ELSE fds[d]]
dup(fds, d) == Opened(fds, fds[d])

NoProc == [st |-> "free"]
Proc(pc, c, parent, fds, p, bg) ==
    [st |-> "run", pc |-> pc, cmd |-> c, parent |-> parent, fds |-> fds, p |-> p, bg |-> bg]

Live == {q \in Pids : procs[q].st = "run"}
Running(q, pc) == procs[q].st = "run" /\ procs[q].pc = pc
FreePids == {q \in Pids : procs[q].st = "free"}
Children(parent) == {q \in Pids : procs[q].st # "free" /\ procs[q].parent = parent}
Zombies(parent) == {q \in Children(parent) : procs[q].st = "zombie"}
Init0 == 0       \* the parent of a parentless process
Shell0 == -1

(* The pipes some process has an end of, and a number for a new one.       *)
Ends == UNION {{procs[q].fds[d] : d \in Fds} : q \in Live}
PipesInUse == {e.pipe : e \in {f \in Ends : f.kind \in {"r", "w"}}}
NewPipe == Min((1..Cardinality(Pids)) \ PipesInUse)

(* exit closes every descriptor and hands the children to init.            *)
Exited(ps, q) ==
    [x \in Pids |->
        IF x = q THEN [st |-> "zombie", parent |-> ps[q].parent, bg |-> ps[q].bg]
        ELSE IF ps[x].st # "free" /\ ps[x].parent = q THEN [ps[x] EXCEPT !.parent = Init0]
        ELSE ps[x]]

Exit(q) == procs' = Exited(procs, q) /\ UNCHANGED fails
Goto(q, pc) == procs' = [procs EXCEPT ![q].pc = pc] /\ UNCHANGED fails

(* A call of process q fails, which ends the process: panic, or exit(1).   *)
Fails(q) == fails = "may" /\ fails' = "did" /\ procs' = Exited(procs, q)

(* fork1: the child has its parent's descriptors and its own place in the  *)
(* command; a fork that fails is a panic.                                  *)
fork1(q, there, pc, c, bg) ==
    \/ /\ FreePids # {} /\ fails # "full"
       /\ procs' = [procs EXCEPT
              ![Min(FreePids)] = Proc(pc, c, q, procs[q].fds, procs[q].p, procs[q].bg \/ bg),
              ![q] = there]
       /\ UNCHANGED fails
    \/ Fails(q)

-----------------------------------------------------------------------------
(* The shell.                                                              *)

(* A line is typed, or the input ends.  The child parses the line; what it *)
(* finds depends on the line alone and is computed here.                   *)
getcmd ==
    /\ shell = "prompt"
    /\ IF script = <<>> THEN shell' = "gone" /\ UNCHANGED <<script, typed, command>>
       ELSE LET line == Written(Head(script))
            IN  /\ typed' = Head(script) /\ script' = Tail(script)
                /\ command' = parsecmd(line)
                /\ shell' = CASE line = <<>> -> "gone"          \* an empty line ends it
                              [] Tok(line) = "cd" -> "prompt"
                              [] OTHER -> "fork"
    /\ UNCHANGED <<procs, fails>>

Stdio == [d \in Fds |-> IF d <= 2 THEN Tty ELSE Closed]

ShellFork ==
    /\ shell = "fork"
    /\ \/ /\ FreePids # {} /\ fails # "full"
          /\ procs' = [procs EXCEPT
                 ![Min(FreePids)] = Proc("parse", Syntax, Shell0, Stdio, <<>>, FALSE)]
          /\ shell' = "wait" /\ UNCHANGED fails
       \/ /\ fails \in {"may", "full"} /\ shell' = "gone"
          /\ fails' = (IF fails = "may" THEN "did" ELSE fails) /\ UNCHANGED procs
    /\ UNCHANGED <<script, command, typed>>

ShellWait ==
    /\ shell = "wait"
    /\ \E z \in Zombies(Shell0) : procs' = [procs EXCEPT ![z] = NoProc]
    /\ shell' = "prompt"
    /\ UNCHANGED <<script, command, typed, fails>>

(* init reaps a parentless process.                                        *)
InitReap ==
    /\ \E z \in Zombies(Init0) : procs' = [procs EXCEPT ![z] = NoProc]
    /\ UNCHANGED <<script, command, shell, typed, fails>>

-----------------------------------------------------------------------------
(* runcmd, in the shell's child and below.                                 *)

Parse(q) ==
    /\ Running(q, "parse")
    /\ IF command = Syntax THEN Exit(q)
       ELSE procs' = [procs EXCEPT ![q].pc = "run", ![q].cmd = command] /\ UNCHANGED fails

Runs(q, type) == Running(q, "run") /\ procs[q].cmd.type = type

(* execve: the program starts; a failure is reported and the process exits.*)
RunExec(q) ==
    /\ Runs(q, "EXEC")
    /\ \/ procs[q].cmd.argc = 0 /\ Exit(q)
       \/ procs[q].cmd.argc > 0 /\ Goto(q, "program")
       \/ procs[q].cmd.argc > 0 /\ Fails(q)

Target(op) == IF op = "<" THEN 0 ELSE 1

RunRedir(q) ==
    /\ Runs(q, "REDIR")
    /\ LET c == procs[q].cmd
       IN  \/ /\ procs' = [procs EXCEPT ![q].cmd = c.cmd,
                     ![q].fds = Opened(close(@, {Target(c.op)}), File)]
              /\ UNCHANGED fails
           \/ Fails(q)

RunList(q) ==
    /\ Runs(q, "LIST")
    /\ LET c == procs[q].cmd
       IN  fork1(q, [procs[q] EXCEPT !.pc = "wait", !.cmd = c.right], "run", c.left, FALSE)

RunBack(q) ==
    /\ Runs(q, "BACK")
    /\ fork1(q, [procs[q] EXCEPT !.pc = "exit"], "run", procs[q].cmd.cmd, TRUE)

RunPipe(q) ==
    /\ Runs(q, "PIPE")
    /\ LET fds == procs[q].fds
           r == Min(FreeFds(fds))
           w == Min(FreeFds(fds) \ {r})
       IN  \/ /\ procs' = [procs EXCEPT ![q].pc = "left", ![q].p = <<r, w>>,
                     ![q].fds = [fds EXCEPT ![r] = End("r", NewPipe), ![w] = End("w", NewPipe)]]
              /\ UNCHANGED fails
           \/ Fails(q)

ForkLeft(q) ==
    /\ Running(q, "left")
    /\ fork1(q, [procs[q] EXCEPT !.pc = "right"], "plumbleft", procs[q].cmd.left, FALSE)

ForkRight(q) ==
    /\ Running(q, "right")
    /\ fork1(q, [procs[q] EXCEPT !.pc = "close"], "plumbright", procs[q].cmd.right, FALSE)

\* A wrong version for comparison: both ends stay open in the waiting process.
CloseBothNot(q) == Running(q, "close") /\ Goto(q, "wait1")

(* The child of a pipe: its end of the pipe becomes descriptor d.          *)
Plumbed(fds, d, from, p) == close(dup(close(fds, {d}), from), {p[1], p[2]})

Plumb(q) ==
    /\ procs[q].st = "run"
    /\ LET p == procs[q].p
           fds == procs[q].fds
       IN  \/ /\ procs[q].pc = "plumbleft"
              /\ procs' = [procs EXCEPT ![q].fds = Plumbed(fds, 1, p[2], p), ![q].pc = "run"]
           \/ /\ procs[q].pc = "plumbright"
              /\ procs' = [procs EXCEPT ![q].fds = Plumbed(fds, 0, p[1], p), ![q].pc = "run"]
    /\ UNCHANGED fails

CloseBoth(q) ==
    /\ Running(q, "close")
    /\ procs' = [procs EXCEPT ![q].fds = close(@, {procs[q].p[1], procs[q].p[2]}), ![q].pc = "wait1"]
    /\ UNCHANGED fails

\* A wrong version for comparison: one wait for the two children of a pipe.
AfterOneWait(pc) == IF pc = "wait" THEN "run" ELSE "exit"

(* What follows a wait: the right side of a list; the second wait, then    *)
(* the exit, of a pipe.                                                    *)
AfterWait(pc) == CASE pc = "wait" -> "run" [] pc = "wait1" -> "wait2" [] OTHER -> "exit"

Wait(q) ==
    /\ procs[q].st = "run" /\ procs[q].pc \in {"wait", "wait1", "wait2"}
    /\ LET there == [procs EXCEPT ![q].pc = AfterWait(@)]
       IN  IF Children(q) = {} THEN procs' = there
           ELSE \E z \in Zombies(q) : procs' = [there EXCEPT ![z] = NoProc]
    /\ UNCHANGED fails

RunExit(q) == Running(q, "exit") /\ Exit(q)

(* A program ends when it has read its input to the end: that of a pipe    *)
(* comes when no process holds the end that is written.                    *)
AtEof(q) ==
    LET e == procs[q].fds[0] IN e.kind = "r" => End("w", e.pipe) \notin Ends

Program(q) == Running(q, "program") /\ AtEof(q) /\ Exit(q)

runcmd(q) ==
    /\ \/ Parse(q) \/ RunExec(q) \/ RunRedir(q) \/ RunList(q) \/ RunBack(q) \/ RunPipe(q)
       \/ ForkLeft(q) \/ ForkRight(q) \/ Plumb(q) \/ CloseBoth(q) \/ Wait(q) \/ RunExit(q)
       \/ Program(q)
    /\ UNCHANGED <<script, command, shell, typed>>

Init ==
    /\ \E c \in Cases : script = c.script /\ fails = c.fails
    /\ command = Syntax /\ shell = "prompt" /\ typed = Syntax
    /\ procs = [q \in Pids |-> NoProc]

Next == getcmd \/ ShellFork \/ ShellWait \/ InitReap \/ \E q \in Pids : runcmd(q)

Spec == Init /\ [][Next]_vars

(* Every process that can run is scheduled; nobody has to type.            *)
FairSpec ==
    /\ Spec
    /\ WF_vars(ShellFork) /\ WF_vars(ShellWait) /\ WF_vars(InitReap) /\ \A q \in Pids : WF_vars(runcmd(q))

-----------------------------------------------------------------------------
(* The types.  The parent of a process is the shell, init or a process     *)
(* that still runs (exit hands its children on).                           *)
TypeOK ==
    /\ shell \in {"prompt", "fork", "wait", "gone"}
    /\ fails \in {"never", "may", "did", "full"}
    /\ \A q \in Pids :
          \/ procs[q] = NoProc
          \/ procs[q].st = "zombie" /\ procs[q].parent \in Live \cup {Init0, Shell0}
          \/ /\ procs[q].st = "run" /\ procs[q].parent \in Live \cup {Init0, Shell0}
             /\ \A d \in Fds : procs[q].fds[d] \in
                   {Closed, Tty, File} \cup {End(s, k) : s \in {"r", "w"}, k \in 1..Cardinality(Pids)}

(* The parser reads a command back from the way it is written: "|" binds   *)
(* before "&" and that before ";", pipes and lists group to the right,     *)
(* parentheses override, a redirection belongs to the command before it;   *)
(* and what is no command is refused (parsecmd).                           *)
ParsesBack ==
    shell = "fork" => command = IF typed.type = "WRONG" THEN Syntax ELSE typed

(* A program that starts holds descriptors 0, 1 and 2 and nothing else,    *)
(* however deep in pipes, lists and redirections it stands: in a pipe, its *)
(* output goes into one and its input comes from one (runcmd's PIPE case). *)
StdioOnly ==
    \A q \in Live : Running(q, "program") =>
        /\ {d \in Fds : procs[q].fds[d] # Closed} = 0..2
        /\ procs[q].fds[0].kind # "w" /\ procs[q].fds[1].kind # "r"

(* The shell prompts again only when every process of the line is gone     *)
(* that is not in the background, as long as no call failed: each runcmd   *)
(* waits for the children it made, and for no other's.                     *)
PromptAfterLine ==
    (shell = "prompt" /\ fails = "never") =>
        \A q \in Pids : procs[q].st # "free" => procs[q].bg

(* A line that was typed ends, the prompt (or the end of the shell) comes  *)
(* back, whichever call fails on the way: every writer's end of every pipe *)
(* is closed, so every reader meets the end of its input, and no wait is   *)
(* for a child that nobody ends.                                           *)
LineEnds == (shell = "wait") ~> (shell # "wait")

(* Nothing stays behind when the typed lines have run: every process that *)
(* was made, in the background or orphaned by a failure too, is reaped, by *)
(* the runcmd that made it or by init (main of init).                      *)
AllReaped == []<>(\A q \in Pids : procs[q].st = "free")
=============================================================================
