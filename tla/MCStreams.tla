------------------------------ MODULE MCStreams -----------------------------
(***************************************************************************)
(* What reads and writes streams of bytes: pipes, the console and the      *)
(* shell that plumbs them.  An initial state chooses one of the three, and *)
(* the behaviour is that component's, with its fairness.                   *)
(***************************************************************************)
EXTENDS Pipe

VARIABLES
    which,
    cons, tx, thr, thri, rx, hart, proc, queue, left,                  \* Console
    script, command, shell, typed, procs, fails                        \* Shell

(***************************************************************************)
(* Each budget bounds characters typed, reads, writes, printf()s and       *)
(* kills: editing a line against readers, then writers against printf().   *)
(***************************************************************************)
Budget(t, r, w, p, k) == [typed |-> t, reads |-> r, writes |-> w, prints |-> p, kills |-> k]

Con ==
    INSTANCE Console WITH
        Procs <- {"p1", "p2"}, Size <- 2, TxSize <- 2, Wrap <- 4,
        Typed <- {"x", "cr", "eof", "erase", "kill"}, Reads <- {1, 3}, MaxHeld <- 1,
        Budgets <- {Budget(4, 1, 0, 0, 0), Budget(2, 2, 0, 0, 0), Budget(2, 1, 0, 0, 1),
                    Budget(1, 0, 1, 1, 0), Budget(0, 0, 2, 0, 0), Budget(0, 0, 1, 1, 1)}

CONSTANT ShellCases

Sh == INSTANCE Shell WITH Cases <- ShellCases, Pids <- 1..6, MAXARGS <- 3, NOFILE <- 5

(***************************************************************************)
(* What is typed: every command of three nodes with no process to be had,  *)
(* lines that are no commands, and longer ones that run, where at most one *)
(* call fails.                                                             *)
(***************************************************************************)
Text == INSTANCE Shell WITH Cases <- {}, Pids <- {}, MAXARGS <- 3, NOFILE <- 5
Exec1 == Text!Exec(1)
Small == {Exec1, Text!Exec(0), Text!Exec(2), Text!Redir(Exec1, "<"), Text!Redir(Exec1, ">>"),
          Text!Pipe(Exec1, Exec1), Text!List(Exec1, Exec1), Text!Back(Exec1)}
Larger == Small \cup {Text!Redir(c, o) : c \in Small, o \in {"<", ">"}} \cup {Text!Back(c) : c \in Small}
          \cup {Text!Pipe(a, b) : a, b \in Small} \cup {Text!List(a, b) : a, b \in Small}
NoCommands == {Text!Wrong(ts) : ts \in {<<"a", "(", "a", ")">>, <<"a", "&", "a">>, <<"(", "a">>,
                                      <<"a", "<">>, <<"a", "a", "a">>}}
Case(s, f) == [script |-> s, fails |-> f]
MCCases ==
    {Case(<<c>>, "full") : c \in Larger \cup NoCommands}
    \cup {Case(<<c>>, "may") : c \in Small \ {Text!Exec(0)}}
    \cup {Case(<<Text!Pipe(Exec1, Text!Pipe(Exec1, Exec1)), Exec1>>, f) : f \in {"never", "may"}}
    \cup {Case(<<Text!Pipe(Text!List(Exec1, Exec1), Text!Redir(Exec1, ">"))>>, f) : f \in {"never", "may"}}
    \cup {Case(<<Text!List(Text!Back(Text!Pipe(Exec1, Exec1)), Exec1), Text!Cd, Exec1>>, "never"),
          Case(<<Text!Wrong(<<"a", "<">>), Text!Back(Exec1), Text!Pipe(Text!Redir(Exec1, "<"), Text!Exec(0))>>, "may")}

conVars == <<cons, tx, thr, thri, rx, hart, proc, queue, left>>
shVars == <<script, command, shell, typed, procs, fails>>

(***************************************************************************)
(* A component that is not chosen rests in one initial state.              *)
(***************************************************************************)
StreamInit ==
    /\ which \in {"pipe", "console", "shell"}
    /\ Init /\ (which # "pipe" => fds[CHOOSE p \in Procs : TRUE] # {})
    /\ Con!Init /\ (which # "console" => left = Budget(0, 0, 1, 1, 1))
    /\ Sh!Init /\ (which # "shell" => script = <<Exec1>> /\ fails = "full")

StreamNext ==
    \/ which = "pipe" /\ Next /\ UNCHANGED <<which, conVars, shVars>>
    \/ which = "console" /\ Con!Next /\ UNCHANGED <<which, vars, shVars>>
    \/ which = "shell" /\ Sh!Next /\ UNCHANGED <<which, vars, conVars>>

StreamSpec ==
    /\ StreamInit /\ [][StreamNext]_<<which, vars, conVars, shVars>>
    /\ \A p \in Procs : WF_vars(which = "pipe" /\ PipeStep(p))
    /\ WF_conVars(which = "console" /\ Con!Sent) /\ WF_conVars(which = "console" /\ Con!Handler)
    /\ \A p \in {"p1", "p2"} : WF_conVars(which = "console" /\ Con!Runs(p))
    /\ WF_shVars(which = "shell" /\ Sh!ShellFork) /\ WF_shVars(which = "shell" /\ Sh!ShellWait)
    /\ WF_shVars(which = "shell" /\ Sh!InitReap)
    /\ \A q \in 1..6 : WF_shVars(which = "shell" /\ Sh!runcmd(q))

-----------------------------------------------------------------------------
(* Properties *)

(***************************************************************************)
(* uart_tx_buf holds what was accepted, in order, and never stalls with    *)
(* the transmitter idle; nobody at the console misses a wakeup:            *)
(* Console!OutputInOrder, OutputMoves and NoLostWakeup.                    *)
(***************************************************************************)
OutputRight ==
    which = "console" => Con!TypeOK /\ Con!OutputInOrder /\ Con!OutputMoves /\ Con!NoLostWakeup

(***************************************************************************)
(* The input buffer implements a line editor: Console!ImplementsLines.     *)
(***************************************************************************)
ImplementsLines ==
    Con!ImplementsLines

(***************************************************************************)
(* parsecmd reads a command back from its text, a program starts with its  *)
(* standard descriptors only, and the prompt comes after the line's        *)
(* processes: Shell!ParsesBack, StdioOnly and PromptAfterLine.             *)
(***************************************************************************)
ShellRight ==
    which = "shell" => Sh!TypeOK /\ Sh!ParsesBack /\ Sh!StdioOnly /\ Sh!PromptAfterLine

(***************************************************************************)
(* Who reads or writes a pipe returns when the peer is gone, a write to    *)
(* the console returns, and a line handed over is read:                    *)
(* Pipe!PeerGoneReturns, Console!WriteReturns and LineIsRead.              *)
(***************************************************************************)
CallsReturn ==
    PeerGoneReturns /\ Con!WriteReturns /\ Con!LineIsRead

(***************************************************************************)
(* A line that was typed ends, and every process of the shell is reaped in *)
(* the end: Shell!LineEnds and AllReaped.                                  *)
(***************************************************************************)
LinesDone ==
    Sh!LineEnds /\ Sh!AllReaped
=============================================================================
