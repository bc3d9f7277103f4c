------------------------------ MODULE Console -------------------------------
(***************************************************************************)
(* The console (kernel/console.c) on its UART (kernel/uart.c): processes in*)
(* consoleread() and consolewrite(), kernel messages through               *)
(* uartputc_sync(), and the interrupt handler uartintr().                  *)
(*                                                                         *)
(* With a spinlock held, in uartputc_sync() and in the handler, interrupts *)
(* are off: on the one hart nothing else runs but the device.  Variable    *)
(* hart says who is in such a section and where.  The characters of output *)
(* are abstract; consputc() counts the bytes it sends.                     *)
(***************************************************************************)
EXTENDS Integers, Sequences, FiniteSets

CONSTANTS
    Procs,
    Size,        \* INPUT_BUF_SIZE
    TxSize,      \* UART_TX_BUF_SIZE
    Wrap,        \* the indices count modulo this: 2^32 in the code, a multiple of both sizes
    Typed,       \* the characters that may arrive
    MaxHeld,     \* bound of the model: characters the receiver holds
    Reads,       \* the lengths asked of consoleread()
    Budgets      \* bounds of the model: how often each event may happen, one chosen at the start

VARIABLES
    cons,        \* buf and the indices r, w, e
    tx,          \* uart_tx_buf, uart_tx_r, uart_tx_w
    thr, thri,   \* the transmitter: holding register in use, "empty" interrupt raised
    rx,          \* characters the receiver holds
    hart, proc,
    queue,       \* history: bytes accepted by uartputc() and not yet sent
    left         \* how often each event of the budget may still happen

vars == <<cons, tx, thr, thri, rx, hart, proc, queue, left>>

Chars == {"x", "nl", "eof"}
Free == [by |-> "none"]
Idle == [op |-> "idle", st |-> "run", killed |-> FALSE]

Plus(i, n) == (i + n) % Wrap
Minus(i, n) == (i + Wrap - n) % Wrap

Init ==
    /\ cons = [buf |-> [i \in 0..(Size - 1) |-> "x"], r |-> 0, w |-> 0, e |-> 0]
    /\ tx = [buf |-> [i \in 0..(TxSize - 1) |-> 0], r |-> 0, w |-> 0]
    /\ thr = FALSE /\ thri = FALSE /\ rx = <<>>
    /\ hart = Free /\ proc = [p \in Procs |-> Idle]
    /\ queue = <<>> /\ left \in Budgets

Device == <<thr, thri, rx>>
Woken(ps, st) == [p \in Procs |-> IF ps[p].st = st THEN [ps[p] EXCEPT !.st = "run"] ELSE ps[p]]
Spend(f) == left[f] > 0 /\ left' = [left EXCEPT ![f] = @ - 1]

-----------------------------------------------------------------------------
(* The device: a 16550.  An interrupt is pending while characters are held *)
(* or the transmitter's interrupt is raised; the first hides the second.   *)

Arrive ==
    /\ Len(rx) < MaxHeld /\ Spend("typed")
    /\ \E c \in Typed : rx' = Append(rx, c)
    /\ UNCHANGED <<cons, tx, thr, thri, hart, proc, queue>>

Sent ==
    /\ thr /\ thr' = FALSE /\ thri' = TRUE
    /\ UNCHANGED <<cons, tx, rx, hart, proc, queue, left>>

Pending == rx # <<>> \/ thri
ReadISR == thri' = (thri /\ rx # <<>>)
WriteTHR == thr' = TRUE /\ thri' = FALSE

-----------------------------------------------------------------------------
(* uartintr() and consoleintr() *)

uartintr ==
    /\ hart = Free /\ Pending
    /\ hart' = [by |-> "intr", at |-> IF rx # <<>> THEN "rx" ELSE "tx"]
    /\ ReadISR
    /\ UNCHANGED <<cons, tx, thr, rx, proc, queue, left>>

(***************************************************************************)
(* One character for consoleintr(): the new buffer, how many bytes are     *)
(* echoed, and whether readers are woken.                                  *)
(***************************************************************************)
Used(c) == Minus(c.e, c.r)
Edited(c) == Minus(c.e, c.w)

KillTo[n \in 0..Size] ==
    IF n = Edited(cons) \/ cons.buf[Minus(cons.e, n + 1) % Size] = "nl" THEN n ELSE KillTo[n + 1]

Handed(c, ch) == ch \in {"nl", "eof"} \/ Used(c) = Size

Stored(ch) ==
    LET c == [cons EXCEPT !.buf[cons.e % Size] = ch, !.e = Plus(@, 1)]
    IN IF Used(cons) >= Size THEN [cons |-> cons, echo |-> 0, wake |-> FALSE]
       ELSE [cons |-> IF Handed(c, ch) THEN [c EXCEPT !.w = c.e] ELSE c,
             echo |-> IF ch = "nl" THEN 2 ELSE 1, wake |-> Handed(c, ch)]

Erased(n) == [cons |-> [cons EXCEPT !.e = Minus(@, n)], echo |-> 3 * n, wake |-> FALSE]
\* A wrong version for comparison: lines already handed over can be erased.
MayEraseAll == Used(cons) # 0
MayErase == Edited(cons) # 0

Input(ch) ==
    CASE ch = "kill" -> Erased(KillTo[0])
      [] ch = "erase" -> Erased(IF MayErase THEN 1 ELSE 0)
      [] ch \in {"nul", "dump"} -> Erased(0)
      [] ch = "cr" -> Stored("nl")
      [] OTHER -> Stored(ch)

consoleintr ==
    LET i == Input(Head(rx)) IN
    /\ hart.by = "intr" /\ hart.at = "rx" /\ rx # <<>>
    /\ rx' = Tail(rx) /\ cons' = i.cons
    /\ proc' = IF i.wake THEN Woken(proc, "read") ELSE proc
    /\ hart' = IF i.echo = 0 THEN hart ELSE [by |-> "intr", at |-> "echo", todo |-> i.echo]
    /\ UNCHANGED <<tx, thr, thri, queue, left>>

NoMore ==
    /\ hart.by = "intr" /\ hart.at = "rx" /\ rx = <<>>
    /\ hart' = [hart EXCEPT !.at = "tx"]
    /\ UNCHANGED <<cons, tx, Device, proc, queue, left>>

(***************************************************************************)
(* uartputc_sync() waits for the holding register: in the handler for an   *)
(* echo, in a process for printf().                                        *)
(***************************************************************************)
uartputc_sync ==
    /\ hart.by # "none" /\ hart.at = "echo" /\ ~thr
    /\ WriteTHR
    /\ hart' = IF hart.todo > 1 THEN [hart EXCEPT !.todo = @ - 1]
               ELSE IF hart.by = "intr" THEN [by |-> "intr", at |-> "rx"] ELSE Free
    /\ UNCHANGED <<cons, tx, rx, proc, queue, left>>

printf(p) ==
    /\ hart = Free /\ proc[p].st = "run"
    /\ Spend("prints")
    /\ hart' = [by |-> p, at |-> "echo", todo |-> 1]
    /\ UNCHANGED <<cons, tx, Device, proc, queue>>

-----------------------------------------------------------------------------
(* uartstart(), uartputc() and consolewrite() *)

(***************************************************************************)
(* One round of uartstart(), for the handler or for a writer, who goes on  *)
(* to the next byte when it is over.                                       *)
(***************************************************************************)
Empty == tx.w = tx.r
Full == tx.w = Plus(tx.r, TxSize)

StartDone ==
    /\ hart.by # "none" /\ hart.at = "tx" /\ (Empty \/ thr)
    /\ IF Empty THEN ReadISR ELSE UNCHANGED thri
    /\ hart' = Free
    /\ UNCHANGED <<cons, tx, thr, rx, proc, queue, left>>

SendWakes == Woken(proc, "write")

StartSend ==
    /\ hart.by # "none" /\ hart.at = "tx" /\ ~Empty /\ ~thr
    /\ tx' = [tx EXCEPT !.r = Plus(@, 1)]
    /\ queue' = Tail(queue)
    /\ proc' = SendWakes
    /\ WriteTHR
    /\ UNCHANGED <<cons, rx, hart, left>>

consolewrite(p) ==
    /\ hart = Free /\ proc[p].op = "idle"
    /\ Spend("writes")
    /\ \E n \in 1..(TxSize + 1) :
          proc' = [proc EXCEPT ![p] = [op |-> "write", st |-> "run", killed |-> FALSE, n |-> n, got |-> FALSE]]
    /\ UNCHANGED <<cons, tx, Device, hart, queue>>

(***************************************************************************)
(* The byte is put into the buffer once there is room, which a writer that *)
(* got it with copyin() may have to wait for; a byte names its writer and  *)
(* its place in the write.                                                 *)
(***************************************************************************)
MustWait == Full

\* A wrong version for comparison: the transmitter is not started.
StartedLater(p) == Free
Started(p) == [by |-> p, at |-> "tx"]

uartputc(p) ==
    LET byte == <<p, proc[p].n>> IN
    /\ hart = Free /\ proc[p].op = "write" /\ proc[p].st = "run" /\ proc[p].n > 0
    /\ IF MustWait
       THEN proc' = [proc EXCEPT ![p].st = "write", ![p].got = TRUE] /\ UNCHANGED <<tx, hart, queue>>
       ELSE /\ tx' = [tx EXCEPT !.buf[tx.w % TxSize] = byte, !.w = Plus(@, 1)]
            /\ queue' = Append(queue, byte)
            /\ proc' = [proc EXCEPT ![p].n = @ - 1, ![p].got = FALSE]
            /\ hart' = Started(p)
    /\ UNCHANGED <<cons, Device, left>>

(***************************************************************************)
(* After the last byte, or at an address copyin() refuses.                 *)
(***************************************************************************)
WriteDone(p) ==
    /\ hart = Free /\ proc[p].op = "write" /\ proc[p].st = "run" /\ ~proc[p].got
    /\ proc' = [proc EXCEPT ![p] = Idle]
    /\ UNCHANGED <<cons, tx, Device, hart, queue, left>>

-----------------------------------------------------------------------------
(* consoleread() *)

consoleread(p) ==
    /\ hart = Free /\ proc[p].op = "idle"
    /\ Spend("reads")
    /\ \E n \in Reads : proc' = [proc EXCEPT ![p] = [op |-> "read", st |-> "run", killed |-> FALSE,
                                                     n |-> n, target |-> n]]
    /\ hart' = [by |-> p, at |-> "read"]
    /\ UNCHANGED <<cons, tx, Device, queue>>

(***************************************************************************)
(* sleep() returns with cons.lock held again.                              *)
(***************************************************************************)
ReadAgain(p) ==
    /\ hart = Free /\ proc[p].op = "read" /\ proc[p].st = "run"
    /\ hart' = [by |-> p, at |-> "read"]
    /\ UNCHANGED <<cons, tx, Device, proc, queue, left>>

Reading(p) == hart.by = p /\ hart.at = "read"
Leave(p) == proc' = [proc EXCEPT ![p] = Idle] /\ hart' = Free

ReadWait(p) ==
    /\ Reading(p) /\ proc[p].n > 0 /\ cons.r = cons.w
    /\ IF proc[p].killed THEN Leave(p)
       ELSE proc' = [proc EXCEPT ![p].st = "read"] /\ hart' = Free
    /\ UNCHANGED <<cons, tx, Device, queue, left>>

(***************************************************************************)
(* A saved end-of-file is read again; a byte that cannot be copied out is  *)
(* gone.                                                                   *)
(***************************************************************************)
Saved(p, c) == c = "eof" /\ proc[p].n < proc[p].target

ReadChar(p) ==
    LET c == cons.buf[cons.r % Size]
        r == proc[p]
    IN /\ Reading(p) /\ r.n > 0 /\ cons.r # cons.w
       /\ cons' = IF Saved(p, c) THEN cons ELSE [cons EXCEPT !.r = Plus(@, 1)]
       /\ IF c = "eof" THEN Leave(p)
          ELSE \/ Leave(p)
               \/ /\ c # "nl" /\ r.n > 1
                  /\ proc' = [proc EXCEPT ![p].n = @ - 1] /\ UNCHANGED hart
       /\ UNCHANGED <<tx, Device, queue, left>>

ReadNothing(p) ==
    /\ Reading(p) /\ proc[p].n = 0
    /\ Leave(p)
    /\ UNCHANGED <<cons, tx, Device, queue, left>>

(***************************************************************************)
(* SIGKILL only marks its target; SIGTERM of a process that sleeps runs    *)
(* term_handler(), which marks and wakes it.                               *)
(***************************************************************************)
send_signal(p) ==
    /\ hart = Free /\ proc[p].op # "idle" /\ ~proc[p].killed
    /\ Spend("kills")
    /\ \/ proc' = [proc EXCEPT ![p].killed = TRUE]
       \/ proc[p].st # "run" /\ proc' = [proc EXCEPT ![p].killed = TRUE, ![p].st = "run"]
    /\ UNCHANGED <<cons, tx, Device, hart, queue>>

Handler == uartintr \/ consoleintr \/ NoMore \/ uartputc_sync \/ StartDone \/ StartSend
Runs(p) == uartputc(p) \/ WriteDone(p) \/ ReadAgain(p) \/ ReadWait(p) \/ ReadChar(p) \/ ReadNothing(p)

Next ==
    \/ Arrive \/ Sent \/ Handler
    \/ \E p \in Procs : Runs(p) \/ printf(p) \/ consolewrite(p) \/ consoleread(p) \/ send_signal(p)

Spec == Init /\ [][Next]_vars

(***************************************************************************)
(* The transmitter empties, interrupts are taken, and the scheduler runs   *)
(* every runnable process.                                                 *)
(***************************************************************************)
Fairness == WF_vars(Sent) /\ WF_vars(Handler) /\ \A p \in Procs : WF_vars(Runs(p))
FairSpec == Spec /\ Fairness

-----------------------------------------------------------------------------
(* Properties *)

Between(from, to) == [i \in 1..Minus(to, from) |-> cons.buf[Plus(from, i - 1) % Size]]

(***************************************************************************)
(* Types: the indices of cons are in the order r, w, e and at most         *)
(* INPUT_BUF_SIZE apart, also when they have wrapped around.               *)
(***************************************************************************)
TypeOK ==
    /\ cons.buf \in [0..(Size - 1) -> Chars]
    /\ Minus(cons.w, cons.r) <= Minus(cons.e, cons.r) /\ Minus(cons.e, cons.r) <= Size
    /\ Minus(tx.w, tx.r) <= TxSize
    /\ thr \in BOOLEAN /\ thri \in BOOLEAN

L == INSTANCE Lines WITH line <- Between(cons.w, cons.e), ready <- Between(cons.r, cons.w)

(***************************************************************************)
(* The input buffer implements the line editor of module Lines: what is    *)
(* being edited is buf[w..e), what readers may take is buf[r..w).          *)
(***************************************************************************)
ImplementsLines == L!LinesSpec

(***************************************************************************)
(* uart_tx_buf holds the bytes that uartputc() accepted and uartstart() has*)
(* not sent, in the order of the writes, across both indices' wrap.        *)
(***************************************************************************)
OutputInOrder == queue = [i \in 1..Minus(tx.w, tx.r) |-> tx.buf[Plus(tx.r, i - 1) % TxSize]]

(***************************************************************************)
(* No wakeup is lost: a process sleeps in consoleread() only while nothing *)
(* is handed over, and in uartputc() only while the buffer is full.        *)
(***************************************************************************)
NoLostWakeup ==
    \A p \in Procs : /\ proc[p].st = "read" => cons.r = cons.w
                     /\ proc[p].st = "write" => Full

(***************************************************************************)
(* Output never stalls: while bytes wait in uart_tx_buf, the transmitter is*)
(* busy or its interrupt is raised, or someone is still in a section that  *)
(* ends in uartstart() or in a write to the transmitter.                   *)
(***************************************************************************)
OutputMoves == Empty \/ thr \/ thri \/ (hart.by # "none" /\ hart.at \in {"rx", "echo", "tx"})

(***************************************************************************)
(* Every write to the console returns.                                     *)
(***************************************************************************)
WriteReturns == \A p \in Procs : (proc[p].op = "write") ~> (proc[p].op = "idle")

(***************************************************************************)
(* A reader returns once a line was handed over that no other reader takes.*)
(***************************************************************************)
LineIsRead == \A p \in Procs : (proc[p].op = "read" /\ cons.r # cons.w) ~>
                                   (proc[p].op = "idle" \/ cons.r = cons.w)
=============================================================================
