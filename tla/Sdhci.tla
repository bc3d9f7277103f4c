------------------------------- MODULE Sdhci -------------------------------
(***************************************************************************)
(* sdhci_send_command, sdhci_transfer_data and sdhci_reset of              *)
(* kernel/sdhci.c: how the SD host driver sends a command and moves its    *)
(* data while the controller works on its own.  The driver polls; it is    *)
(* called with sdlock held, so there is one command at a time and what     *)
(* interleaves is the driver's register accesses and the controller.       *)
(*                                                                         *)
(* A step of the driver is one access to a register the controller also    *)
(* writes.  Time is counted in turns of the polling loops.                 *)
(*                                                                         *)
(* The controller is not part of the repository.  It is modelled from what *)
(* the driver expects of it: it answers, fails or stays silent at any      *)
(* moment, raises a status bit for what it did, and reports a line busy    *)
(* until the work on that line is over or the line is reset.  Each bit of  *)
(* the status register carries the number of the command that raised it.   *)
(***************************************************************************)
EXTENDS Integers, Sequences

CONSTANTS
    Commands,        \* what callers ask: [kind, blocks, at] records
    Boundary,        \* SDHCI_DEFAULT_BOUNDARY_SIZE, in blocks
    DefaultTimeout,  \* SDHCI_CMD_DEFAULT_TIMEOUT
    MaxTimeout,      \* SDHCI_CMD_MAX_TIMEOUT
    ReadTimeout,     \* SDHCI_READ_STATUS_TIMEOUT
    DataTimeout,     \* the 1000000 turns of sdhci_transfer_data
    MaxCommands      \* bound: commands sent in a behaviour

ASSUME SdhciAssumption ==
    /\ Commands \subseteq [kind : {"plain", "busy", "stop", "tuning", "data"}, blocks : Nat, at : Nat]
    /\ Boundary \in Nat \ {0} /\ DefaultTimeout \in Nat \ {0} /\ MaxTimeout \in Nat
    /\ DefaultTimeout <= MaxTimeout
    /\ ReadTimeout \in Nat /\ DataTimeout \in Nat /\ MaxCommands \in Nat

VARIABLES
    dma,          \* host->flags & USE_DMA
    pc,           \* where the driver is
    cmd,          \* the command being sent
    count,        \* commands begun so far; the current one's number
    time,         \* turns waited for the lines
    cmd_timeout,  \* the static cmd_timeout
    tick,         \* turns of the status or of the transfer loop
    stat,         \* the driver's copy of the status register
    block,        \* blocks copied through the buffer register
    start_addr,   \* the address the next piece of a DMA starts at
    ret,          \* what the command returned
    stuck,        \* the driver left the controller at work behind it
    status,       \* SDHCI_INT_STATUS: bit -> command that raised it, or 0
    inhibit,      \* the busy lines of SDHCI_PRESENT_STATE
    dev,          \* the controller: its command, what it does and how far it is
    late,         \* an earlier command still on the data line, or 0
    moved         \* <<address, card block>> copied for the current command

driver == <<pc, cmd, count, time, cmd_timeout, tick, stat, block, start_addr, ret, stuck>>
vars == <<dma, driver, status, inhibit, dev, late, moved>>

Bits == {"RESPONSE", "DATA_END", "DMA_END", "AVAIL", "ERROR", "TIMEOUT"}
NoBits == [b \in Bits |-> 0]
Idle == [id |-> 0, kind |-> "none", blocks |-> 0, phase |-> "idle", n |-> 0, addr |-> 0]

HasData == cmd.kind = "data"

(* The lines a command waits for: a stop or a tuning command goes out even *)
(* while the data line is busy.                                            *)
Lines == IF cmd.kind \in {"stop", "tuning"} THEN {"cmd"} ELSE {"cmd", "dat"}

(* The status bits that say the command is over.                           *)
Mask == CASE cmd.kind = "tuning" -> {"AVAIL"}
          [] cmd.kind \in {"busy", "stop"} -> {"RESPONSE", "DATA_END"}
          [] OTHER -> {"RESPONSE"}

(* The types: waiting for the lines never takes longer than the maximum,   *)
(* and no more blocks are moved than the command asks for.                 *)
TypeOK ==
    /\ dma \in BOOLEAN
    /\ pc \in {"idle", "wait", "clear", "send", "poll", "done", "turn", "ready",
               "pio", "boundary", "status", "ack", "resetcmd", "resetdata"}
    /\ cmd \in Commands /\ count \in 0..MaxCommands
    /\ cmd_timeout \in DefaultTimeout..MaxTimeout
    /\ time \in 0..MaxTimeout
    /\ tick \in 0..(ReadTimeout + DataTimeout)
    /\ stat \in [Bits -> 0..count] /\ status \in [Bits -> 0..count]
    /\ block \in 0..cmd.blocks
    /\ inhibit \subseteq {"cmd", "dat"}
    /\ dev.id \in 0..count /\ late \in 0..count /\ dev.n \in Nat
    /\ ret \in {"none", "0", "failed", "EIO", "ETIMEDOUT", "ECOMM"}
    /\ stuck \in BOOLEAN

Init ==
    /\ dma \in BOOLEAN
    /\ pc = "idle" /\ cmd \in {c \in Commands : c.kind = "plain"} /\ count = 0
    /\ time = 0 /\ cmd_timeout = DefaultTimeout /\ tick = 0
    /\ stat = NoBits /\ block = 0 /\ start_addr = 0 /\ ret = "none" /\ stuck = FALSE
    /\ status = NoBits /\ inhibit = {} /\ dev = Idle /\ late = 0 /\ moved = <<>>

-----------------------------------------------------------------------------
(* The driver.                                                             *)

(* A caller sends a command.  A stop follows a multiple-block transfer     *)
(* that succeeded.                                                         *)
Begin(c) ==
    /\ pc = "idle" /\ count < MaxCommands
    /\ c.kind = "stop" => ret = "0" /\ HasData /\ cmd.blocks > 1
    /\ cmd' = c /\ count' = count + 1 /\ pc' = "wait"
    /\ time' = 0 /\ start_addr' = 0 /\ ret' = "none" /\ moved' = <<>>
    /\ stat' = NoBits /\ block' = 0 /\ tick' = 0
    /\ UNCHANGED <<dma, cmd_timeout, stuck, status, inhibit, dev, late>>

(* "2 * cmd_timeout <= SDHCI_CMD_MAX_TIMEOUT".                             *)
MayDouble == 2 * cmd_timeout <= MaxTimeout

\* A wrong version for comparison: no command waits for the data line.
LineFreeCmd == "cmd" \notin inhibit

LineFree == inhibit \cap Lines = {}

(* One turn of the loop that waits for the lines.  Waiting longer than     *)
(* cmd_timeout doubles it, for this and every later command, until the     *)
(* maximum; then the command fails.                                        *)
WaitLine ==
    /\ pc = "wait"
    /\ IF LineFree
       THEN /\ pc' = "clear"
            /\ UNCHANGED <<time, cmd_timeout, ret>>
       ELSE IF time >= cmd_timeout /\ ~MayDouble
       THEN /\ pc' = "idle" /\ ret' = "ECOMM"
            /\ UNCHANGED <<time, cmd_timeout>>
       ELSE /\ cmd_timeout' = IF time >= cmd_timeout THEN 2 * cmd_timeout ELSE cmd_timeout
            /\ time' = time + 1
            /\ UNCHANGED <<pc, ret>>
    /\ UNCHANGED <<dma, cmd, count, tick, stat, block, start_addr, stuck,
                   status, inhibit, dev, moved, late>>

(* Every status bit is cleared before the command goes out.                *)
ClearStatus ==
    /\ pc = "clear" /\ pc' = "send"
    /\ status' = NoBits
    /\ UNCHANGED <<dma, cmd, count, time, cmd_timeout, tick, stat, block, start_addr,
                   ret, stuck, inhibit, dev, moved, late>>

(* The address of the buffer; 0 for the buffer register.                   *)
sdhci_prepare_dma == IF HasData /\ dma THEN cmd.at ELSE 0

(* The transfer registers, sdhci_prepare_dma's address among them, then    *)
(* the argument and the command register: the controller starts.           *)
SendCommand ==
    /\ pc = "send" /\ pc' = "poll"
    /\ start_addr' = sdhci_prepare_dma
    /\ dev' = [id |-> count, kind |-> cmd.kind, blocks |-> cmd.blocks,
               phase |-> "cmd", n |-> 0, addr |-> start_addr']
    /\ inhibit' = IF cmd.kind = "plain" THEN {"cmd"} ELSE {"cmd", "dat"}
    /\ stuck' = (inhibit # {} \/ status # NoBits)
    /\ late' = IF dev.phase = "idle" THEN late ELSE dev.id
    /\ UNCHANGED <<dma, cmd, count, time, cmd_timeout, tick, stat, block, ret,
                   status, moved>>

Raised(s) == {b \in Bits : s[b] # 0}
Cleared(s, bs) == [b \in Bits |-> IF b \in bs THEN 0 ELSE s[b]]

(* One turn of the status loop: an error ends it, then the time, then the  *)
(* bits of the mask.  On a timeout nothing is reset.                       *)
PollStatus ==
    /\ pc = "poll"
    /\ stat' = status
    /\ IF "ERROR" \in Raised(status)
       THEN /\ pc' = "status" /\ ret' = "failed" /\ UNCHANGED <<tick, stuck>>
       ELSE IF tick >= ReadTimeout
       THEN /\ pc' = "idle" /\ ret' = "ETIMEDOUT" /\ stuck' = TRUE /\ UNCHANGED tick
       ELSE IF Mask \subseteq Raised(status)
       THEN /\ pc' = "done" /\ UNCHANGED <<tick, ret, stuck>>
       ELSE /\ tick' = tick + 1 /\ UNCHANGED <<pc, ret, stuck>>
    /\ UNCHANGED <<dma, cmd, count, time, cmd_timeout, block, start_addr,
                   status, inhibit, dev, moved, late>>

(* The bits cleared once the response has been read: only the mask's.      *)
DoneBits == Mask

(* sdhci_cmd_done reads the response and the mask's bits are cleared; then *)
(* the data, if the command has any.                                       *)
CommandDone ==
    /\ pc = "done"
    /\ status' = Cleared(status, DoneBits)
    /\ pc' = IF HasData THEN "turn" ELSE "status"
    /\ tick' = 0
    /\ ret' = IF HasData THEN ret ELSE "0"
    /\ UNCHANGED <<dma, cmd, count, time, cmd_timeout, stat, block, start_addr, stuck,
                   inhibit, dev, moved, late>>

(* The end of a turn of the transfer loop: "continue" skips the clock, and *)
(* DATA_END in the status read at its start ends the transfer.             *)
LoopTest(s) == IF "DATA_END" \in Raised(s)
               THEN pc' = "status" /\ ret' = "0"
               ELSE pc' = "turn" /\ UNCHANGED ret

\* A wrong version for comparison: the turns of the transfer loop are not counted.
TurnOverUncounted(s) == LoopTest(s) /\ UNCHANGED tick

TurnOver(s) == IF tick < DataTimeout
               THEN /\ tick' = tick + 1 /\ LoopTest(s)
               ELSE /\ pc' = "status" /\ ret' = "ETIMEDOUT" /\ UNCHANGED tick

TransferDone == block >= cmd.blocks

(* A turn of the transfer loop begins by reading the status.               *)
Turn ==
    /\ pc = "turn"
    /\ stat' = status
    /\ LET up == Raised(status)
       IN  IF "ERROR" \in up
           THEN pc' = "status" /\ ret' = "EIO" /\ UNCHANGED tick
           ELSE IF ~TransferDone /\ "AVAIL" \in up
           THEN IF dev.phase = "buffer"
                THEN pc' = "ready" /\ UNCHANGED <<ret, tick>>
                ELSE LoopTest(status) /\ UNCHANGED tick
           ELSE IF dma /\ ~TransferDone /\ "DMA_END" \in up
           THEN pc' = "boundary" /\ UNCHANGED <<ret, tick>>
           ELSE TurnOver(status)
    /\ UNCHANGED <<dma, cmd, count, time, cmd_timeout, block, start_addr, stuck,
                   status, inhibit, dev, moved, late>>

(* sdhci_transfer_pio: one block through the buffer register.  With the    *)
(* block taken the controller goes on with the next.                       *)
CopyBlock ==
    /\ dev' = [dev EXCEPT !.phase = "data", !.n = @ + 1]
    /\ moved' = Append(moved, <<cmd.at + block, dev.n + 1>>)
    /\ block' = block + 1

(* The ready bit is cleared, and only then the block is copied.            *)
Ready ==
    /\ pc = "ready" /\ pc' = "pio"
    /\ status' = Cleared(status, {"AVAIL"})
    /\ UNCHANGED <<dma, cmd, count, time, cmd_timeout, tick, stat, block, start_addr, ret, stuck,
                   inhibit, dev, moved, late>>

(* The block; the last one skips the clock, like every "continue".         *)
Pio ==
    /\ pc = "pio"
    /\ CopyBlock
    /\ IF block' >= cmd.blocks
       THEN LoopTest(stat) /\ UNCHANGED tick
       ELSE TurnOver(stat)
    /\ UNCHANGED <<dma, cmd, count, time, cmd_timeout, stat, start_addr, stuck,
                   status, inhibit, late>>

(* The address after the boundary that stopped the DMA.                    *)
NextPiece(a) == (a - (a % Boundary)) + Boundary

(* The DMA stopped at a boundary: the bit is cleared and the next address  *)
(* written, which starts the controller again.                             *)
CrossBoundary ==
    /\ pc = "boundary"
    /\ status' = Cleared(status, {"DMA_END"})
    /\ start_addr' = NextPiece(start_addr)
    /\ dev' = [dev EXCEPT !.phase = IF @ = "paused" THEN "data" ELSE @,
                          !.addr = start_addr']
    /\ TurnOver(stat)
    /\ UNCHANGED <<dma, cmd, count, time, cmd_timeout, stat, block, stuck, inhibit, moved, late>>

(* The status is read once more, and what was read is cleared.             *)
LastStatus ==
    /\ pc = "status" /\ pc' = "ack"
    /\ stat' = status
    /\ UNCHANGED <<dma, cmd, count, time, cmd_timeout, tick, block, start_addr, ret, stuck,
                   status, inhibit, dev, moved, late>>

Acknowledge ==
    /\ pc = "ack" /\ pc' = IF ret = "0" THEN "idle" ELSE "resetcmd"
    /\ status' = Cleared(status, Raised(stat))
    /\ UNCHANGED <<dma, cmd, count, time, cmd_timeout, tick, stat, block, start_addr, ret, stuck,
                   inhibit, dev, moved, late>>

(* sdhci_reset of one line: the controller drops its work on it, or the    *)
(* reset never completes and the driver goes on after 100 turns.           *)
ResetLine(line) ==
    \/ /\ inhibit' = inhibit \ {line}
       /\ dev' = IF inhibit' = {} THEN Idle ELSE [dev EXCEPT !.phase = "failed"]
       /\ late' = IF line = "dat" THEN 0 ELSE late
       /\ UNCHANGED stuck
    \/ /\ stuck' = TRUE
       /\ UNCHANGED <<inhibit, dev, late>>

ResetCmd ==
    /\ pc = "resetcmd" /\ pc' = "resetdata"
    /\ ResetLine("cmd")
    /\ UNCHANGED <<dma, cmd, count, time, cmd_timeout, tick, stat, block, start_addr, ret,
                   status, moved>>

(* The last reset, and the error the caller sees.                          *)
ResetData ==
    /\ pc = "resetdata" /\ pc' = "idle"
    /\ ResetLine("dat")
    /\ ret' = IF "TIMEOUT" \in Raised(stat) THEN "ETIMEDOUT"
              ELSE IF ret = "failed" THEN "ECOMM" ELSE ret
    /\ UNCHANGED <<dma, cmd, count, time, cmd_timeout, tick, stat, block, start_addr,
                   status, moved>>

Driver == \/ WaitLine \/ ClearStatus \/ SendCommand \/ PollStatus \/ CommandDone
          \/ Turn \/ Ready \/ Pio \/ CrossBoundary
          \/ LastStatus \/ Acknowledge \/ ResetCmd \/ ResetData

-----------------------------------------------------------------------------
(* The controller.  It works for command dev.id, which is the driver's     *)
(* current one unless the driver gave up on an earlier one.                *)

Raise(bs) == status' = [b \in Bits |-> IF b \in bs THEN dev.id ELSE status[b]]

(* The response, after which the command line is free; so is the data line *)
(* when the command has no more work.                                      *)
Respond ==
    /\ dev.phase = "cmd"
    /\ Raise({"RESPONSE"})
    /\ dev' = IF dev.kind = "plain" THEN Idle ELSE [dev EXCEPT !.phase = "data"]
    /\ inhibit' = inhibit \ {"cmd"}
    /\ UNCHANGED <<dma, driver, moved, late>>

(* A tuning block arrived; it stays in the controller.                     *)
TuningBlock ==
    /\ dev.phase = "data" /\ dev.kind = "tuning"
    /\ Raise({"AVAIL"})
    /\ dev' = Idle /\ inhibit' = IF late = 0 THEN {} ELSE inhibit
    /\ UNCHANGED <<dma, driver, late, moved>>

(* The buffer is full, or empty for a write: the driver's turn.            *)
BufferReady ==
    /\ ~dma /\ dev.phase = "data" /\ dev.kind = "data" /\ dev.n < dev.blocks
    /\ Raise({"AVAIL"})
    /\ dev' = [dev EXCEPT !.phase = "buffer"]
    /\ UNCHANGED <<dma, driver, inhibit, moved, late>>

(* A block by DMA.  At a boundary the controller stops.                    *)
DmaBlock ==
    /\ dma /\ dev.phase = "data" /\ dev.kind = "data" /\ dev.n < dev.blocks
    /\ LET stop == (dev.addr + 1) % Boundary = 0 /\ dev.n + 1 < dev.blocks
       IN  /\ Raise(IF stop THEN {"DMA_END"} ELSE {})
           /\ dev' = [dev EXCEPT !.n = @ + 1, !.addr = @ + 1,
                                 !.phase = IF stop THEN "paused" ELSE "data"]
    /\ moved' = IF dev.id = count THEN Append(moved, <<dev.addr, dev.n + 1>>) ELSE moved
    /\ UNCHANGED <<dma, driver, inhibit, late>>

(* The transfer or the card's busy time is over.                           *)
DataEnd ==
    /\ dev.phase = "data"
    /\ dev.kind \in {"busy", "stop"} \/ (dev.kind = "data" /\ dev.n = dev.blocks)
    /\ Raise({"DATA_END"})
    /\ dev' = Idle /\ inhibit' = IF late = 0 THEN {} ELSE inhibit
    /\ UNCHANGED <<dma, driver, late, moved>>

(* What an earlier command still did on the data line comes to its end.    *)
LateEnd ==
    /\ late # 0
    /\ \E b \in {"AVAIL", "DATA_END"} : status' = [status EXCEPT ![b] = late]
    /\ late' = 0 /\ inhibit' = IF dev.phase = "idle" THEN {} ELSE inhibit
    /\ UNCHANGED <<dma, driver, dev, moved>>

(* The controller reports an error and stops; the lines stay busy.         *)
Fail ==
    /\ dev.phase \in {"cmd", "data", "buffer"}
    /\ \E more \in {{}, {"TIMEOUT"}} : Raise({"ERROR"} \cup more)
    /\ dev' = [dev EXCEPT !.phase = "failed"]
    /\ UNCHANGED <<dma, driver, inhibit, moved, late>>

Controller == Respond \/ TuningBlock \/ BufferReady \/ DmaBlock \/ DataEnd \/ LateEnd \/ Fail

Next == Driver \/ Controller \/ \E c \in Commands : Begin(c)

Spec == Init /\ [][Next]_vars

(* The driver polls for as long as it is in sdhci_send_command.  Nothing   *)
(* is asked of the controller: it may stay silent for ever.                *)
FairSpec == Spec /\ WF_vars(Driver)

-----------------------------------------------------------------------------
Sending == pc \notin {"idle", "wait", "clear"}

(* A late answer is never taken for another command's: from the moment a   *)
(* command is written to the controller until sdhci_send_command returns,  *)
(* every bit of the status register was raised by that command, though an  *)
(* earlier one may have been given up with ETIMEDOUT while the controller  *)
(* was still at work on it.  The wait for the busy lines and the clearing  *)
(* of the register, in this order, see to it.  A tuning command does not   *)
(* wait for the data line and is not covered.                              *)
StatusIsOwn ==
    Sending /\ cmd.kind # "tuning" =>
        \A b \in Bits : status[b] \in {0, count}

(* A transfer that sdhci_send_command reports as done copied every block   *)
(* of the command once, in order, to or from consecutive places, whether   *)
(* through the buffer register or by DMA across boundaries.                *)
DataRight ==
    pc = "idle" /\ ret = "0" /\ HasData =>
        moved = [i \in 1..cmd.blocks |-> <<cmd.at + i - 1, i>>]

(* Driver and controller never wait for each other: when the controller    *)
(* has a block in the buffer or stopped at a DMA boundary, the bit that    *)
(* tells sdhci_transfer_data so is still in the status register, or the    *)
(* driver is about to serve it.                                            *)
NoStandoff ==
    pc \in {"poll", "done", "turn", "ready", "pio", "boundary"} /\ dev.id = count =>
        /\ dev.phase = "buffer" => status["AVAIL"] # 0 \/ pc = "pio"
        /\ dev.phase = "paused" => status["DMA_END"] # 0

(* A command that has returned left nothing running that could still touch *)
(* its caller's memory or block the lines: unless the status never came    *)
(* (sdhci_send_command returns ETIMEDOUT without a reset) or a reset never *)
(* completed, the controller is idle and both lines are free.              *)
QuietAfterReturn ==
    pc = "idle" /\ ~stuck => dev.phase = "idle" /\ inhibit = {}

(* The driver takes only its own command's status, moves the data asked    *)
(* for, never stands off with the controller, and leaves it quiet.         *)
AnswersOwn == TypeOK /\ StatusIsOwn /\ DataRight /\ NoStandoff /\ QuietAfterReturn

(* sdhci_send_command returns, whatever the controller does: each of its   *)
(* loops counts its turns.                                                 *)
CommandReturns == (pc # "idle") ~> (pc = "idle")
=============================================================================
