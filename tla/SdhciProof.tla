----------------------------- MODULE SdhciProof -----------------------------
(***************************************************************************)
(* What the SD host driver promises its callers, for any commands, any DMA *)
(* boundary and any timeouts, against a controller that may answer, fail,  *)
(* stay silent or answer late.                                             *)
(*                                                                         *)
(* LineInv ties the controller's work to the busy lines, which is all the  *)
(* driver can see of it.  WaitInv says that a command goes out only when   *)
(* nothing is left of an earlier one, except a tuning command, which does  *)
(* not wait for the data line (Clean).  ActiveInv is about the command     *)
(* under way: the controller works on it alone, and the bit that ends it   *)
(* is raised after the work.  DataInv says how far the transfer is.        *)
(***************************************************************************)
EXTENDS Sdhci, SequenceTheorems, TLAPS

Loop == pc \in {"poll", "done", "turn", "ready", "pio", "boundary"}
Active == Loop \/ pc \in {"status", "ack", "resetcmd", "resetdata"}
Clean == cmd.kind # "tuning" \/ ~stuck

(* The first k blocks of a command, where they belong from address a on. *)
Prefix(a, k) == [i \in 1..k |-> <<a + i - 1, i>>]

(* The controller, when m commands have been sent. *)
States(m) ==
    [id : 0..m, kind : {"none", "plain", "busy", "stop", "tuning", "data"}, blocks : Nat,
     phase : {"idle", "cmd", "data", "buffer", "paused", "failed"}, n : Nat, addr : Nat]

DevOK ==
    /\ dev \in States(count)
    /\ start_addr \in Nat /\ time <= cmd_timeout
    /\ pc # "idle" => count > 0
    /\ pc \in {"wait", "clear", "send"} => dev.id < count
    /\ pc \in {"ready", "pio"} => block < cmd.blocks

LineInv ==
    /\ dev.phase = "idle" => dev = Idle /\ inhibit = IF late = 0 THEN {} ELSE {"dat"}
    /\ dev.phase = "cmd" => inhibit = IF dev.kind = "plain" THEN {"cmd"} ELSE {"cmd", "dat"}
    /\ dev.phase \in {"data", "buffer", "paused"} => inhibit = {"dat"} /\ dev.kind # "plain"
    /\ dev.phase \in {"buffer", "paused"} => dev.kind = "data"
    /\ dev.phase = "failed" => inhibit # {}
    /\ late # 0 => "dat" \in inhibit

WaitInv ==
    /\ pc \in {"idle", "wait", "clear", "send"} /\ ~stuck => dev = Idle /\ late = 0
    /\ pc \in {"wait", "clear", "send"} /\ cmd.kind = "stop" => dev = Idle /\ late = 0
    /\ pc \in {"clear", "send"} /\ cmd.kind # "tuning" => dev = Idle /\ late = 0
    /\ pc = "send" /\ cmd.kind # "tuning" => status = NoBits
    /\ pc \in {"wait", "clear", "send"} => stat = NoBits /\ block = 0 /\ moved = <<>> /\ ret = "none"
    /\ pc = "idle" /\ ret = "0" /\ HasData => dev = Idle /\ late = 0 /\ moved = Prefix(cmd.at, cmd.blocks)

ActiveInv ==
    /\ Active /\ dev.id = count => dev.kind = cmd.kind /\ dev.blocks = cmd.blocks
    /\ pc \in {"turn", "ready", "pio", "boundary"} => HasData
    /\ pc \in {"resetcmd", "resetdata"} => ret # "0"
    /\ pc = "resetdata" /\ ~stuck => "cmd" \notin inhibit
    /\ Active /\ Clean =>
          /\ late = 0
          /\ dev # Idle => dev.id = count
          /\ \A b \in Bits : status[b] \in {0, count}
          /\ status["DATA_END"] # 0 \/ stat["DATA_END"] # 0 => dev = Idle
          /\ cmd.kind = "plain" /\ status["RESPONSE"] # 0 => dev = Idle
          /\ cmd.kind = "tuning" /\ status["AVAIL"] # 0 => dev = Idle
          /\ pc = "done" /\ ~HasData => dev = Idle
          /\ pc \in {"status", "ack"} /\ ret = "0" => dev = Idle

DataInv ==
    Active /\ HasData =>
        /\ ~dma => /\ moved = Prefix(cmd.at, block) /\ dev.phase # "paused"
                   /\ dev # Idle => dev.n = block
        /\ dma => /\ block = 0 /\ dev.phase # "buffer"
                  /\ dev # Idle => moved = Prefix(cmd.at, dev.n) /\ dev.n <= cmd.blocks
                  /\ dev.phase \in {"cmd", "data", "paused"} => dev.addr = cmd.at + dev.n
                  /\ dev.phase \in {"cmd", "data"} /\ dev.n < cmd.blocks =>
                        start_addr <= dev.addr /\ dev.addr < NextPiece(start_addr)
                  /\ dev.phase = "paused" => dev.addr = NextPiece(start_addr) /\ dev.n < cmd.blocks
        /\ status["DATA_END"] # 0 \/ stat["DATA_END"] # 0 => moved = Prefix(cmd.at, cmd.blocks)
        /\ pc \in {"status", "ack"} /\ ret = "0" => moved = Prefix(cmd.at, cmd.blocks)
        /\ pc \in {"ready", "pio"} => ~dma /\ dev.phase \in {"buffer", "failed"} /\ inhibit = {"dat"}
        /\ pc = "boundary" => dma
        /\ Loop /\ status["DMA_END"] # 0 => dev.phase = "paused"
        /\ pc = "boundary" => dev.phase = "paused"

SdInv == TypeOK /\ DevOK /\ LineInv /\ WaitInv /\ ActiveInv /\ DataInv /\ NoStandoff

-----------------------------------------------------------------------------
(* Commands *)

(***************************************************************************)
(* What a caller can ask.                                                  *)
(***************************************************************************)
LEMMA Asked ==
    ASSUME TypeOK
    PROVE  /\ count \in Nat /\ 0 \in 0..count
           /\ cmd.kind \in {"plain", "busy", "stop", "tuning", "data"} /\ cmd.blocks \in Nat /\ cmd.at \in Nat
  BY SdhciAssumption DEF TypeOK

(***************************************************************************)
(* Status bits stay numbers of commands.                                   *)
(***************************************************************************)
LEMMA BitsOK ==
    ASSUME NEW s \in [Bits -> Nat], NEW bs
    PROVE  /\ Cleared(s, bs) \in [Bits -> Nat]
           /\ \A b \in Bits : Cleared(s, bs)[b] = IF b \in bs THEN 0 ELSE s[b]
           /\ NoBits \in [Bits -> Nat] /\ \A b \in Bits : NoBits[b] = 0
           /\ Raised(s) = {b \in Bits : s[b] # 0}
  BY DEF Cleared, NoBits, Raised

(***************************************************************************)
(* The controller at rest.                                                 *)
(***************************************************************************)
LEMMA IdleIs ==
    /\ Idle.phase = "idle" /\ Idle.id = 0 /\ Idle.n = 0
    /\ \A m \in Nat : Idle \in States(m)
  BY DEF Idle, States

(***************************************************************************)
(* A transfer in order, block by block.                                    *)
(***************************************************************************)
LEMMA PrefixIs ==
    ASSUME NEW a \in Nat
    PROVE  /\ Prefix(a, 0) = <<>>
           /\ \A k \in Nat : Append(Prefix(a, k), <<a + k, k + 1>>) = Prefix(a, k + 1)
  <1> DEFINE P(k) == [i \in 1..k |-> <<a + i - 1, i>>]
             S == Int \X Int
  <1>1. \A k \in Nat : P(k) \in Seq(S) /\ Len(P(k)) = k /\ \A i \in 1..k : P(k)[i] = <<a + i - 1, i>>
    <2> SUFFICES ASSUME NEW k \in Nat
                 PROVE  P(k) \in Seq(S) /\ Len(P(k)) = k /\ \A i \in 1..k : P(k)[i] = <<a + i - 1, i>>
      OBVIOUS
    <2>1. \A i \in 1..k : <<a + i - 1, i>> \in S
      OBVIOUS
    <2>2. P(k) \in [1..k -> S]
      BY <2>1
    <2> QED BY <2>2
  <1>2. P(0) = <<>>
    BY <1>1
  <1>3. ASSUME NEW k \in Nat PROVE Append(P(k), <<a + k, k + 1>>) = P(k + 1)
    <2> DEFINE e == <<a + k, k + 1>>
               A == Append(P(k), e)
    <2>1. e \in S /\ k + 1 \in Nat /\ P(k) \in Seq(S) /\ Len(P(k)) = k /\ P(k + 1) \in Seq(S) /\ Len(P(k + 1)) = k + 1
      BY <1>1
    <2>2. A \in Seq(S) /\ Len(A) = k + 1 /\ (\A i \in 1..k : A[i] = P(k)[i]) /\ A[k + 1] = e
      <3> HIDE DEF P, S, e
      <3> QED BY <2>1, AppendProperties
    <2>3. \A i \in 1..(k + 1) : A[i] = P(k + 1)[i]
      <3> SUFFICES ASSUME NEW i \in 1..(k + 1) PROVE A[i] = P(k + 1)[i]
        OBVIOUS
      <3>1. P(k + 1)[i] = <<a + i - 1, i>>
        BY <1>1, <2>1
      <3>2. CASE i \in 1..k
        BY <1>1, <2>2, <3>1, <3>2
      <3>3. CASE i = k + 1
        BY <2>2, <3>1, <3>3
      <3> QED BY <3>2, <3>3
    <2> HIDE DEF P, S, A
    <2>4. A = P(k + 1)
      BY <2>1, <2>2, <2>3, SeqEqual
    <2> QED BY <2>4 DEF A
  <1> QED BY <1>2, <1>3 DEF Prefix

(***************************************************************************)
(* A remainder is unique.                                                  *)
(***************************************************************************)
LEMMA ModUnique ==
    ASSUME NEW a \in Int, NEW c \in Int, NEW d \in Nat \ {0}, NEW r \in 0..(d - 1), a = c * d + r
    PROVE  a % d = r
  OBVIOUS

(***************************************************************************)
(* The next boundary lies ahead, and a DMA from a reaches it where an      *)
(* address is a multiple of the boundary and not before.                   *)
(***************************************************************************)
LEMMA PieceIs ==
    ASSUME NEW a \in Nat
    PROVE  /\ NextPiece(a) \in Nat /\ a < NextPiece(a)
           /\ \A x \in Nat : a <= x /\ x < NextPiece(a) =>
                 /\ (x + 1) % Boundary = 0 => x + 1 = NextPiece(a)
                 /\ (x + 1) % Boundary # 0 => x + 1 < NextPiece(a)
  <1> DEFINE q == a \div Boundary
             r == a % Boundary
  <1>1. Boundary \in Nat \ {0}
    BY SdhciAssumption
  <1>2. a = q * Boundary + r /\ r \in 0..(Boundary - 1) /\ q \in Nat
    BY <1>1
  <1>3. NextPiece(a) = (a - r) + Boundary
    BY DEF NextPiece
  <1> HIDE DEF q, r
  <1>4. NextPiece(a) = q * Boundary + Boundary /\ q * Boundary \in Nat
    BY <1>1, <1>2, <1>3
  <1>5. ASSUME NEW x \in Nat, a <= x, x < NextPiece(a)
        PROVE  /\ (x + 1) % Boundary = 0 => x + 1 = NextPiece(a)
               /\ (x + 1) % Boundary # 0 => x + 1 < NextPiece(a)
    <2> DEFINE d == x + 1 - q * Boundary
    <2>1. d \in 1..Boundary /\ x + 1 = q * Boundary + d
      BY <1>1, <1>2, <1>4, <1>5
    <2>2. CASE d = Boundary
      <3>1. x + 1 = (q + 1) * Boundary + 0
        BY <1>1, <1>2, <2>1, <2>2
      <3>2. (x + 1) % Boundary = 0
        <4>1. x + 1 \in Int /\ q + 1 \in Int /\ 0 \in 0..(Boundary - 1)
          BY <1>1, <1>2
        <4> QED BY <1>1, <3>1, <4>1, ModUnique
      <3> QED BY <1>4, <2>1, <2>2, <3>2
    <2>3. CASE d # Boundary
      <3> HIDE DEF d
      <3>1. d \in 1..(Boundary - 1)
        BY <1>1, <2>1, <2>3
      <3>2. (x + 1) % Boundary = d
        <4>1. x + 1 \in Int /\ q \in Int /\ d \in 0..(Boundary - 1)
          BY <1>1, <1>2, <3>1
        <4> QED BY <1>1, <2>1, <3>1, <4>1, ModUnique
      <3> QED BY <1>1, <1>4, <2>1, <3>1, <3>2
    <2> QED BY <2>2, <2>3
  <1> QED BY <1>1, <1>2, <1>4, <1>5

(***************************************************************************)
(* Before a command goes out the controller is at work only on what the    *)
(* driver gave up.                                                         *)
(***************************************************************************)
LEMMA ControllerWaits ==
    ASSUME SdInv, dev # Idle \/ late # 0, UNCHANGED <<dma, driver>>, dev.id # count => moved' = moved
    PROVE  WaitInv'
  BY DEF SdInv, DevOK, States, WaitInv, HasData, driver

(***************************************************************************)
(* The status register after the controller raised some bits.              *)
(***************************************************************************)
LEMMA RaiseIs ==
    ASSUME SdInv, NEW bs, Raise(bs)
    PROVE  /\ status' \in [Bits -> 0..count]
           /\ \A b \in Bits : status'[b] = IF b \in bs THEN dev.id ELSE status[b]
  BY DEF SdInv, TypeOK, DevOK, States, Raise

(***************************************************************************)
(* A command that finds its lines free, or gives up, does so with nothing  *)
(* left of an earlier one that it waited for.                              *)
(***************************************************************************)
LEMMA WaitLineKeeps ==
    ASSUME SdInv, WaitLine
    PROVE  SdInv'
  <1> USE DEF WaitLine, MayDouble
  <1>asked. cmd.kind \in {"plain", "busy", "stop", "tuning", "data"} /\ cmd.blocks \in Nat /\ cmd.at \in Nat
    BY Asked DEF SdInv
  <1>1. TypeOK'
    BY <1>asked, SdhciAssumption DEF SdInv, TypeOK, DevOK, States, Cleared, NoBits
  <1>2. DevOK'
    BY <1>asked, SdhciAssumption DEF SdInv, TypeOK, DevOK, States
  <1>3. LineInv'
    BY <1>asked DEF SdInv, LineInv
  <1>4. WaitInv'
    <2>1. inhibit = {} => dev = Idle /\ late = 0
      BY IdleIs DEF SdInv, DevOK, States, LineInv
    <2>2. dev = Idle /\ late = 0 => inhibit = {}
      BY IdleIs DEF SdInv, LineInv
    <2>3. LineFree /\ cmd.kind # "tuning" => dev = Idle /\ late = 0
      BY <1>asked, <2>1 DEF SdInv, TypeOK, WaitInv, LineFree, Lines
    <2>4. ~stuck => dev = Idle /\ late = 0 /\ LineFree
      BY <2>2 DEF SdInv, WaitInv, LineFree
    <2> QED BY <2>3, <2>4 DEF SdInv, TypeOK, WaitInv, HasData
  <1>5. ActiveInv'
    BY <1>asked
       DEF SdInv, TypeOK, DevOK, States, WaitInv, ActiveInv, Active, Loop, Clean,
           HasData, Raised, Cleared, Bits
  <1>6. DataInv'
    BY <1>asked DEF SdInv, TypeOK, WaitInv, DataInv, Active, Loop, HasData, Raised, Cleared, Bits
  <1>7. NoStandoff'
    BY <1>asked DEF SdInv, TypeOK, NoStandoff, Cleared, Bits
  <1> QED BY <1>1, <1>2, <1>3, <1>4, <1>5, <1>6, <1>7 DEF SdInv

(***************************************************************************)
(* The status register is cleared.                                         *)
(***************************************************************************)
LEMMA ClearStatusKeeps ==
    ASSUME SdInv, ClearStatus
    PROVE  SdInv'
  <1> USE DEF ClearStatus
  <1>asked. cmd.kind \in {"plain", "busy", "stop", "tuning", "data"} /\ cmd.blocks \in Nat /\ cmd.at \in Nat
    BY Asked DEF SdInv
  <1>1. TypeOK'
    BY <1>asked, SdhciAssumption DEF SdInv, TypeOK, DevOK, States, Cleared, NoBits
  <1>2. DevOK'
    BY <1>asked, SdhciAssumption DEF SdInv, TypeOK, DevOK, States
  <1>3. LineInv'
    BY <1>asked DEF SdInv, LineInv
  <1>4. WaitInv'
    BY <1>asked DEF SdInv, TypeOK, WaitInv, HasData
  <1>5. ActiveInv'
    BY <1>asked
       DEF SdInv, TypeOK, DevOK, States, WaitInv, ActiveInv, Active, Loop, Clean,
           HasData, Raised, Cleared, Bits
  <1>6. DataInv'
    BY <1>asked DEF SdInv, TypeOK, WaitInv, DataInv, Active, Loop, HasData, Raised, Cleared, Bits
  <1>7. NoStandoff'
    BY <1>asked DEF SdInv, TypeOK, NoStandoff, Cleared, Bits
  <1> QED BY <1>1, <1>2, <1>3, <1>4, <1>5, <1>6, <1>7 DEF SdInv

(***************************************************************************)
(* A turn of the status loop; the driver leaves it done only when the bits *)
(* that end the command are up.                                            *)
(***************************************************************************)
LEMMA PollStatusKeeps ==
    ASSUME SdInv, PollStatus
    PROVE  SdInv'
  <1> USE DEF PollStatus
  <1>asked. cmd.kind \in {"plain", "busy", "stop", "tuning", "data"} /\ cmd.blocks \in Nat /\ cmd.at \in Nat
    BY Asked DEF SdInv
  <1>1. TypeOK'
    <2>1. tick' \in 0..(ReadTimeout + DataTimeout)
      BY SdhciAssumption DEF SdInv, TypeOK
    <2> QED BY <2>1 DEF SdInv, TypeOK
  <1>2. DevOK'
    BY <1>asked, SdhciAssumption DEF SdInv, TypeOK, DevOK, States
  <1>3. LineInv'
    BY <1>asked DEF SdInv, LineInv
  <1>4. WaitInv'
    BY <1>asked DEF SdInv, TypeOK, WaitInv, HasData
  <1>5. ActiveInv'
    BY <1>asked
       DEF SdInv, TypeOK, DevOK, States, WaitInv, ActiveInv, Active, Loop, Clean,
           HasData, Mask, Raised, Cleared, Bits
  <1>6. DataInv'
    BY <1>asked DEF SdInv, TypeOK, WaitInv, DataInv, Active, Loop, HasData, Raised, Cleared, Bits
  <1>7. NoStandoff'
    BY <1>asked DEF SdInv, TypeOK, NoStandoff, Cleared, Bits
  <1> QED BY <1>1, <1>2, <1>3, <1>4, <1>5, <1>6, <1>7 DEF SdInv

(***************************************************************************)
(* The last reading of the status.                                         *)
(***************************************************************************)
LEMMA LastStatusKeeps ==
    ASSUME SdInv, LastStatus
    PROVE  SdInv'
  <1> USE DEF LastStatus
  <1>asked. cmd.kind \in {"plain", "busy", "stop", "tuning", "data"} /\ cmd.blocks \in Nat /\ cmd.at \in Nat
    BY Asked DEF SdInv
  <1>1. TypeOK'
    BY <1>asked, SdhciAssumption DEF SdInv, TypeOK, DevOK, States, Cleared, NoBits
  <1>2. DevOK'
    BY <1>asked, SdhciAssumption DEF SdInv, TypeOK, DevOK, States
  <1>3. LineInv'
    BY <1>asked DEF SdInv, LineInv
  <1>4. WaitInv'
    BY <1>asked DEF SdInv, TypeOK, WaitInv, HasData
  <1>5. ActiveInv'
    BY <1>asked
       DEF SdInv, TypeOK, DevOK, States, WaitInv, ActiveInv, Active, Loop, Clean,
           HasData, Raised, Cleared, Bits
  <1>6. DataInv'
    BY <1>asked DEF SdInv, TypeOK, WaitInv, DataInv, Active, Loop, HasData, Raised, Cleared, Bits
  <1>7. NoStandoff'
    BY <1>asked DEF SdInv, TypeOK, NoStandoff, Cleared, Bits
  <1> QED BY <1>1, <1>2, <1>3, <1>4, <1>5, <1>6, <1>7 DEF SdInv

(***************************************************************************)
(* A command that succeeded returns with the controller idle.              *)
(***************************************************************************)
LEMMA AcknowledgeKeeps ==
    ASSUME SdInv, Acknowledge
    PROVE  SdInv'
  <1> USE DEF Acknowledge
  <1>asked. cmd.kind \in {"plain", "busy", "stop", "tuning", "data"} /\ cmd.blocks \in Nat /\ cmd.at \in Nat
    BY Asked DEF SdInv
  <1>1. TypeOK'
    BY <1>asked, SdhciAssumption DEF SdInv, TypeOK, DevOK, States, Cleared, NoBits
  <1>2. DevOK'
    BY <1>asked, SdhciAssumption DEF SdInv, TypeOK, DevOK, States
  <1>3. LineInv'
    BY <1>asked DEF SdInv, LineInv
  <1>4. WaitInv'
    BY <1>asked DEF SdInv, TypeOK, LineInv, WaitInv, ActiveInv, DataInv, HasData, Active, Loop, Clean
  <1>5. ActiveInv'
    BY <1>asked
       DEF SdInv, TypeOK, DevOK, States, WaitInv, ActiveInv, Active, Loop, Clean,
           HasData, Raised, Cleared, Bits
  <1>6. DataInv'
    BY <1>asked DEF SdInv, TypeOK, WaitInv, DataInv, Active, Loop, HasData, Raised, Cleared, Bits
  <1>7. NoStandoff'
    BY <1>asked DEF SdInv, TypeOK, NoStandoff, Cleared, Bits
  <1> QED BY <1>1, <1>2, <1>3, <1>4, <1>5, <1>6, <1>7 DEF SdInv

(***************************************************************************)
(* The response frees the command line, and a command without data is over.*)
(***************************************************************************)
LEMMA RespondKeeps ==
    ASSUME SdInv, Respond
    PROVE  SdInv'
  <1> USE DEF Respond, driver
  <1>asked. cmd.kind \in {"plain", "busy", "stop", "tuning", "data"} /\ cmd.blocks \in Nat /\ cmd.at \in Nat
    BY Asked DEF SdInv
  <1>bits. /\ status' \in [Bits -> 0..count]
           /\ \A b \in Bits : status'[b] = IF b \in {"RESPONSE"} THEN dev.id ELSE status[b]
    BY RaiseIs
  <1>work. dev # Idle /\ dev.phase = "cmd"
    BY IdleIs
  <1>effect. /\ dev.kind = "plain" => dev' = Idle /\ inhibit' = {}
             /\ dev.kind # "plain" => /\ dev' = [dev EXCEPT !.phase = "data"] /\ inhibit' = {"dat"}
                                      /\ dev'.phase = "data" /\ dev'.id = dev.id /\ dev'.kind = dev.kind /\ dev'.blocks = dev.blocks
                                      /\ dev'.n = dev.n /\ dev'.addr = dev.addr /\ dev' # Idle
    BY <1>work, IdleIs DEF SdInv, DevOK, States, LineInv, ActiveInv, Active, Clean
  <1>1. TypeOK'
    BY <1>bits, <1>work, <1>effect, IdleIs DEF SdInv, TypeOK, DevOK, States
  <1>2. DevOK'
    BY <1>work, <1>effect, IdleIs, SdhciAssumption DEF SdInv, TypeOK, DevOK, States
  <1>3. LineInv'
    BY <1>work, <1>effect, IdleIs DEF SdInv, LineInv
  <1>4. WaitInv'
    BY <1>work, ControllerWaits
  <1>5. ActiveInv'
    BY <1>asked, <1>bits, <1>work, <1>effect, IdleIs
       DEF SdInv, DevOK, States, ActiveInv, Active, Loop, Clean, HasData, Bits
  <1>6. DataInv'
    BY <1>asked, <1>bits, <1>work, <1>effect, IdleIs
       DEF SdInv, DevOK, States, ActiveInv, DataInv, Active, Loop, Clean, HasData, Bits
  <1>7. NoStandoff'
    BY <1>bits, <1>work, <1>effect, IdleIs DEF SdInv, DevOK, States, NoStandoff, Bits
  <1> QED BY <1>1, <1>2, <1>3, <1>4, <1>5, <1>6, <1>7 DEF SdInv

(***************************************************************************)
(* The bit for a tuning block comes with the end of the work.              *)
(***************************************************************************)
LEMMA TuningBlockKeeps ==
    ASSUME SdInv, TuningBlock
    PROVE  SdInv'
  <1> USE DEF TuningBlock, driver
  <1>asked. cmd.kind \in {"plain", "busy", "stop", "tuning", "data"} /\ cmd.blocks \in Nat /\ cmd.at \in Nat
    BY Asked DEF SdInv
  <1>bits. /\ status' \in [Bits -> 0..count]
           /\ \A b \in Bits : status'[b] = IF b \in {"AVAIL"} THEN dev.id ELSE status[b]
    BY RaiseIs
  <1>work. dev # Idle /\ dev.phase = "data" /\ dev.kind = "tuning"
    BY IdleIs
  <1>effect. dev' = Idle /\ inhibit' = IF late = 0 THEN {} ELSE {"dat"}
    BY <1>work, IdleIs DEF SdInv, DevOK, States, LineInv, ActiveInv, Active, Clean
  <1>1. TypeOK'
    BY <1>bits, <1>work, <1>effect, IdleIs DEF SdInv, TypeOK, DevOK, States
  <1>2. DevOK'
    BY <1>work, <1>effect, IdleIs, SdhciAssumption DEF SdInv, TypeOK, DevOK, States
  <1>3. LineInv'
    BY <1>work, <1>effect, IdleIs DEF SdInv, LineInv
  <1>4. WaitInv'
    BY <1>work, ControllerWaits
  <1>5. ActiveInv'
    BY <1>asked, <1>bits, <1>work, <1>effect, IdleIs
       DEF SdInv, DevOK, States, ActiveInv, Active, Loop, Clean, HasData, Bits
  <1>6. DataInv'
    BY <1>asked, <1>bits, <1>work, <1>effect, IdleIs
       DEF SdInv, DevOK, States, ActiveInv, DataInv, Active, Loop, Clean, HasData, Bits
  <1>7. NoStandoff'
    BY <1>bits, <1>work, <1>effect, IdleIs DEF SdInv, DevOK, States, NoStandoff, Bits
  <1> QED BY <1>1, <1>2, <1>3, <1>4, <1>5, <1>6, <1>7 DEF SdInv

(***************************************************************************)
(* A full or empty buffer is announced.                                    *)
(***************************************************************************)
LEMMA BufferReadyKeeps ==
    ASSUME SdInv, BufferReady
    PROVE  SdInv'
  <1> USE DEF BufferReady, driver
  <1>asked. cmd.kind \in {"plain", "busy", "stop", "tuning", "data"} /\ cmd.blocks \in Nat /\ cmd.at \in Nat
    BY Asked DEF SdInv
  <1>bits. /\ status' \in [Bits -> 0..count]
           /\ \A b \in Bits : status'[b] = IF b \in {"AVAIL"} THEN dev.id ELSE status[b]
    BY RaiseIs
  <1>work. dev # Idle /\ dev.phase = "data" /\ dev.kind = "data"
    BY IdleIs
  <1>effect. /\ dev'.phase = "buffer" /\ dev'.id = dev.id /\ dev'.kind = dev.kind /\ dev'.blocks = dev.blocks
             /\ dev'.n = dev.n /\ dev'.addr = dev.addr /\ dev' # Idle
    BY <1>work, IdleIs DEF SdInv, DevOK, States, LineInv, ActiveInv, Active, Clean
  <1>1. TypeOK'
    BY <1>bits, <1>work, <1>effect, IdleIs DEF SdInv, TypeOK, DevOK, States
  <1>2. DevOK'
    BY <1>work, <1>effect, IdleIs, SdhciAssumption DEF SdInv, TypeOK, DevOK, States
  <1>3. LineInv'
    BY <1>work, <1>effect, IdleIs DEF SdInv, LineInv
  <1>4. WaitInv'
    BY <1>work, ControllerWaits
  <1>5. ActiveInv'
    BY <1>asked, <1>bits, <1>work, <1>effect, IdleIs
       DEF SdInv, DevOK, States, ActiveInv, Active, Loop, Clean, HasData, Bits
  <1>6. DataInv'
    BY <1>asked, <1>bits, <1>work, <1>effect, IdleIs
       DEF SdInv, DevOK, States, ActiveInv, DataInv, Active, Loop, Clean, HasData, Bits
  <1>7. NoStandoff'
    BY <1>bits, <1>work, <1>effect, IdleIs DEF SdInv, DevOK, States, NoStandoff, Bits
  <1> QED BY <1>1, <1>2, <1>3, <1>4, <1>5, <1>6, <1>7 DEF SdInv

(***************************************************************************)
(* The bit for the end of the data comes after the last block.             *)
(***************************************************************************)
LEMMA DataEndKeeps ==
    ASSUME SdInv, DataEnd
    PROVE  SdInv'
  <1> USE DEF DataEnd, driver
  <1>asked. cmd.kind \in {"plain", "busy", "stop", "tuning", "data"} /\ cmd.blocks \in Nat /\ cmd.at \in Nat
    BY Asked DEF SdInv
  <1>bits. /\ status' \in [Bits -> 0..count]
           /\ \A b \in Bits : status'[b] = IF b \in {"DATA_END"} THEN dev.id ELSE status[b]
    BY RaiseIs
  <1>work. dev # Idle /\ dev.phase = "data"
    BY IdleIs
  <1>effect. dev' = Idle /\ inhibit' = IF late = 0 THEN {} ELSE {"dat"}
    BY <1>work, IdleIs DEF SdInv, DevOK, States, LineInv, ActiveInv, Active, Clean
  <1>1. TypeOK'
    BY <1>bits, <1>work, <1>effect, IdleIs DEF SdInv, TypeOK, DevOK, States
  <1>2. DevOK'
    BY <1>work, <1>effect, IdleIs, SdhciAssumption DEF SdInv, TypeOK, DevOK, States
  <1>3. LineInv'
    BY <1>work, <1>effect, IdleIs DEF SdInv, LineInv
  <1>4. WaitInv'
    BY <1>work, ControllerWaits
  <1>5. ActiveInv'
    BY <1>asked, <1>bits, <1>work, <1>effect, IdleIs
       DEF SdInv, DevOK, States, ActiveInv, Active, Loop, Clean, HasData, Bits
  <1>6. DataInv'
    BY <1>asked, <1>bits, <1>work, <1>effect, IdleIs
       DEF SdInv, DevOK, States, ActiveInv, DataInv, Active, Loop, Clean, HasData, Bits
  <1>7. NoStandoff'
    BY <1>bits, <1>work, <1>effect, IdleIs DEF SdInv, DevOK, States, NoStandoff, Bits
  <1> QED BY <1>1, <1>2, <1>3, <1>4, <1>5, <1>6, <1>7 DEF SdInv

(***************************************************************************)
(* An earlier command's work on the data line ends; only a tuning command  *)
(* may be under way then.                                                  *)
(***************************************************************************)
LEMMA LateEndKeeps ==
    ASSUME SdInv, LateEnd
    PROVE  SdInv'
  <1> USE DEF LateEnd, driver
  <1>asked. cmd.kind \in {"plain", "busy", "stop", "tuning", "data"} /\ cmd.blocks \in Nat /\ cmd.at \in Nat
    BY Asked DEF SdInv
  <1>bits. /\ status' \in [Bits -> 0..count] /\ late \in Nat
           /\ \A b \in Bits : status'[b] = status[b] \/ (b \in {"AVAIL", "DATA_END"} /\ status'[b] = late)
    BY DEF SdInv, TypeOK, Bits
  <1>work. Active => ~Clean
    BY DEF SdInv, ActiveInv
  <1>1. TypeOK'
    <2>1. late' \in 0..count /\ inhibit' \subseteq {"cmd", "dat"}
      BY Asked DEF SdInv, TypeOK
    <2> QED BY <1>bits, <2>1 DEF SdInv, TypeOK
  <1>2. DevOK'
    BY SdhciAssumption DEF SdInv, TypeOK, DevOK, States
  <1>3. LineInv'
    BY IdleIs DEF SdInv, LineInv
  <1>4. WaitInv'
    BY ControllerWaits
  <1>5. ActiveInv'
    BY <1>work DEF SdInv, ActiveInv, Active, Loop, Clean, HasData
  <1>6. DataInv'
    BY <1>work DEF Active, Clean, HasData, Loop, DataInv
  <1>7. NoStandoff'
    BY <1>asked, <1>bits DEF SdInv, NoStandoff, Bits
  <1> QED BY <1>1, <1>2, <1>3, <1>4, <1>5, <1>6, <1>7 DEF SdInv

(***************************************************************************)
(* A controller that fails stays on its command.                           *)
(***************************************************************************)
LEMMA FailKeeps ==
    ASSUME SdInv, Fail
    PROVE  SdInv'
  <1> USE DEF Fail, driver
  <1>asked. cmd.kind \in {"plain", "busy", "stop", "tuning", "data"} /\ cmd.blocks \in Nat /\ cmd.at \in Nat
    BY Asked DEF SdInv
  <1>bits. /\ status' \in [Bits -> 0..count]
           /\ \A b \in Bits : status'[b] = status[b] \/ (b \in {"ERROR", "TIMEOUT"} /\ status'[b] = dev.id)
           /\ dev.id \in Nat
    <2>1. PICK more \in {{}, {"TIMEOUT"}} : Raise({"ERROR"} \cup more)
      OBVIOUS
    <2> QED BY <2>1, RaiseIs DEF SdInv, DevOK, States, TypeOK
  <1>work. dev # Idle /\ dev.phase \in {"cmd", "data", "buffer"}
    BY IdleIs
  <1>effect. /\ dev'.phase = "failed" /\ dev'.id = dev.id /\ dev'.kind = dev.kind /\ dev'.blocks = dev.blocks
             /\ dev'.n = dev.n /\ dev'.addr = dev.addr /\ dev' # Idle
    BY <1>work, IdleIs DEF SdInv, DevOK, States
  <1>1. TypeOK'
    BY <1>bits, <1>effect DEF SdInv, TypeOK, DevOK, States
  <1>2. DevOK'
    BY <1>asked, SdhciAssumption DEF SdInv, TypeOK, DevOK, States
  <1>3. LineInv'
    BY <1>work, <1>effect, IdleIs DEF SdInv, LineInv
  <1>4. WaitInv'
    BY <1>work, ControllerWaits
  <1>5. ActiveInv'
    BY <1>asked, <1>bits, <1>work, <1>effect, IdleIs
       DEF SdInv, DevOK, States, ActiveInv, Active, Loop, Clean, HasData, Bits
  <1>6. DataInv'
    BY <1>asked, <1>bits, <1>work, <1>effect, IdleIs
       DEF SdInv, DevOK, States, ActiveInv, DataInv, Active, Loop, Clean, HasData, Bits
  <1>7. NoStandoff'
    BY <1>bits, <1>work, <1>effect, IdleIs DEF SdInv, DevOK, States, NoStandoff, Bits
  <1> QED BY <1>1, <1>2, <1>3, <1>4, <1>5, <1>6, <1>7 DEF SdInv

(***************************************************************************)
(* The command goes out to a controller at rest, unless it is for tuning.  *)
(***************************************************************************)
LEMMA SendCommandKeeps ==
    ASSUME SdInv, SendCommand
    PROVE  SdInv'
  <1> USE DEF SendCommand, sdhci_prepare_dma
  <1>asked. cmd.kind \in {"plain", "busy", "stop", "tuning", "data"} /\ cmd.blocks \in Nat /\ cmd.at \in Nat
    BY Asked DEF SdInv
  <1>effect. /\ dev'.id = count /\ dev'.kind = cmd.kind /\ dev'.blocks = cmd.blocks /\ dev'.phase = "cmd"
             /\ dev'.n = 0 /\ dev'.addr = start_addr' /\ dev' # Idle /\ start_addr' \in Nat /\ count \in Nat
    BY <1>asked, IdleIs, SdhciAssumption DEF SdInv, TypeOK
  <1>rest. Clean' => dev = Idle /\ late = 0 /\ late' = 0 /\ status = NoBits
    <2>1. inhibit = {} => dev = Idle /\ late = 0
      BY IdleIs DEF SdInv, DevOK, States, LineInv
    <2>2. cmd.kind # "tuning" => dev = Idle /\ late = 0 /\ status = NoBits
      BY DEF SdInv, WaitInv
    <2>3. ~stuck' => dev = Idle /\ late = 0 /\ status = NoBits
      BY <2>1
    <2> QED BY <2>2, <2>3, IdleIs DEF Clean
  <1>1. TypeOK'
    BY <1>asked, <1>effect, SdhciAssumption DEF SdInv, TypeOK, DevOK, States
  <1>2. DevOK'
    BY <1>asked, <1>effect, SdhciAssumption DEF SdInv, TypeOK, DevOK, States
  <1>3. LineInv'
    <2>1. late' # 0 => cmd.kind # "plain"
      BY <1>rest DEF Clean
    <2> QED BY <1>asked, <1>effect, <2>1 DEF LineInv
  <1>4. WaitInv'
    BY DEF WaitInv
  <1>5. ActiveInv'
    <2>1. Clean' => late' = 0 /\ \A b \in Bits : status'[b] = 0 /\ stat'[b] = 0
      BY <1>rest DEF SdInv, WaitInv, NoBits
    <2> QED BY <1>asked, <1>effect, <2>1 DEF ActiveInv, Active, Loop, HasData, Bits
  <1>6. DataInv'
    <2>1. HasData => /\ status = NoBits /\ stat = NoBits /\ block = 0 /\ moved = <<>>
                     /\ (dma => start_addr' = cmd.at)
      BY <1>rest DEF SdInv, WaitInv, Clean, HasData
    <2>2. Prefix(cmd.at, 0) = <<>>
      BY PrefixIs, <1>asked
    <2>3. NoBits["DATA_END"] = 0 /\ NoBits["DMA_END"] = 0
      BY DEF NoBits, Bits
    <2>4. cmd.at < NextPiece(cmd.at)
      BY <1>asked, PieceIs
    <2> SUFFICES ASSUME HasData PROVE DataInv'
      BY DEF DataInv, HasData
    <2>5. CASE dma
      <3>1. /\ start_addr' = cmd.at /\ dev'.addr = cmd.at /\ cmd.at = cmd.at + 0
            /\ start_addr' <= dev'.addr /\ dev'.addr < NextPiece(start_addr')
        BY <1>asked, <1>effect, <2>1, <2>4, <2>5
      <3>2. moved' = Prefix(cmd.at, 0) /\ 0 <= cmd.blocks
        BY <1>asked, <2>1, <2>2
      <3> QED BY <1>effect, <2>1, <2>3, <2>5, <3>1, <3>2 DEF DataInv
    <2>6. CASE ~dma
      BY <1>asked, <1>effect, <2>1, <2>2, <2>3, <2>6 DEF DataInv
    <2> QED BY <2>5, <2>6
  <1>7. NoStandoff'
    BY <1>effect DEF NoStandoff
  <1> QED BY <1>1, <1>2, <1>3, <1>4, <1>5, <1>6, <1>7 DEF SdInv

(***************************************************************************)
(* The response is read, and the bits that ended the command cleared.      *)
(***************************************************************************)
LEMMA CommandDoneKeeps ==
    ASSUME SdInv, CommandDone
    PROVE  SdInv'
  <1> USE DEF CommandDone, DoneBits
  <1>asked. cmd.kind \in {"plain", "busy", "stop", "tuning", "data"} /\ cmd.blocks \in Nat /\ cmd.at \in Nat
    BY Asked DEF SdInv
  <1>bits. \A b \in Bits : status'[b] = IF b \in Mask THEN 0 ELSE status[b]
    BY DEF SdInv, TypeOK, Cleared
  <1>1. TypeOK'
    BY <1>asked, SdhciAssumption DEF SdInv, TypeOK, DevOK, States, Cleared, NoBits
  <1>2. DevOK'
    BY <1>asked, SdhciAssumption DEF SdInv, TypeOK, DevOK, States
  <1>3. LineInv'
    BY <1>asked DEF SdInv, LineInv
  <1>4. WaitInv'
    BY <1>asked DEF SdInv, TypeOK, WaitInv, HasData
  <1>5. ActiveInv'
    BY <1>asked, <1>bits DEF SdInv, TypeOK, DevOK, States, ActiveInv, Active, Loop, Clean, HasData, Bits
  <1>6. DataInv'
    BY <1>asked, <1>bits DEF SdInv, TypeOK, DataInv, Active, Loop, HasData, Bits
  <1>7. NoStandoff'
    <2>1. cmd.kind = "data" => "AVAIL" \notin Mask /\ "DMA_END" \notin Mask
      BY DEF Mask
    <2>2. dev.phase \in {"buffer", "paused"} /\ dev.id = count => cmd.kind = "data"
      BY DEF SdInv, LineInv, ActiveInv, Active, Loop
    <2> QED BY <1>bits, <2>1, <2>2 DEF SdInv, NoStandoff, Bits
  <1> QED BY <1>1, <1>2, <1>3, <1>4, <1>5, <1>6, <1>7 DEF SdInv

(***************************************************************************)
(* A turn of the transfer loop.                                            *)
(***************************************************************************)
LEMMA TurnKeeps ==
    ASSUME SdInv, Turn
    PROVE  SdInv'
  <1> USE DEF Turn, TurnOver, LoopTest, TransferDone
  <1>asked. cmd.kind \in {"plain", "busy", "stop", "tuning", "data"} /\ cmd.blocks \in Nat /\ cmd.at \in Nat
    BY Asked DEF SdInv
  <1>effect. /\ pc' \in {"status", "turn", "ready", "boundary"} /\ (pc' = "ready" => ~(block >= cmd.blocks))
             /\ ret' \in {ret, "0", "EIO", "ETIMEDOUT"}
             /\ tick' = tick \/ (tick' = tick + 1 /\ tick < DataTimeout)
    OBVIOUS
  <1>1. TypeOK'
    <2>1. tick' \in 0..(ReadTimeout + DataTimeout)
      BY <1>effect, SdhciAssumption DEF SdInv, TypeOK
    <2> QED BY <1>effect, <2>1 DEF SdInv, TypeOK
  <1>2. DevOK'
    <2>1. pc' = "ready" => block < cmd.blocks
      BY <1>asked, <1>effect DEF SdInv, TypeOK
    <2> QED BY <1>effect, <2>1 DEF SdInv, DevOK, States
  <1>3. LineInv'
    BY <1>asked DEF SdInv, LineInv
  <1>4. WaitInv'
    BY <1>asked DEF SdInv, TypeOK, WaitInv, HasData
  <1>5. ActiveInv'
    BY <1>asked
       DEF SdInv, TypeOK, DevOK, States, WaitInv, ActiveInv, Active, Loop, Clean,
           HasData, Raised, Cleared, Bits
  <1>6. DataInv'
    BY <1>asked DEF SdInv, TypeOK, LineInv, DataInv, Active, Loop, HasData, Raised, Bits
  <1>7. NoStandoff'
    BY <1>asked DEF SdInv, TypeOK, NoStandoff, Cleared, Bits
  <1> QED BY <1>1, <1>2, <1>3, <1>4, <1>5, <1>6, <1>7 DEF SdInv

(***************************************************************************)
(* The buffer's bit is cleared before its block is copied.                 *)
(***************************************************************************)
LEMMA ReadyKeeps ==
    ASSUME SdInv, Ready
    PROVE  SdInv'
  <1> USE DEF Ready
  <1>asked. cmd.kind \in {"plain", "busy", "stop", "tuning", "data"} /\ cmd.blocks \in Nat /\ cmd.at \in Nat
    BY Asked DEF SdInv
  <1>1. TypeOK'
    BY <1>asked, SdhciAssumption DEF SdInv, TypeOK, DevOK, States, Cleared, NoBits
  <1>2. DevOK'
    BY <1>asked, SdhciAssumption DEF SdInv, TypeOK, DevOK, States
  <1>3. LineInv'
    BY <1>asked DEF SdInv, LineInv
  <1>4. WaitInv'
    BY <1>asked DEF SdInv, TypeOK, WaitInv, HasData
  <1>5. ActiveInv'
    BY <1>asked
       DEF SdInv, TypeOK, DevOK, States, WaitInv, ActiveInv, Active, Loop, Clean,
           HasData, Raised, Cleared, Bits
  <1>6. DataInv'
    BY <1>asked DEF SdInv, TypeOK, WaitInv, DataInv, Active, Loop, HasData, Raised, Cleared, Bits
  <1>7. NoStandoff'
    BY <1>asked DEF SdInv, TypeOK, NoStandoff, Cleared, Bits
  <1> QED BY <1>1, <1>2, <1>3, <1>4, <1>5, <1>6, <1>7 DEF SdInv

(***************************************************************************)
(* A block through the buffer register.                                    *)
(***************************************************************************)
LEMMA PioKeeps ==
    ASSUME SdInv, Pio
    PROVE  SdInv'
  <1> USE DEF Pio, CopyBlock, TurnOver, LoopTest
  <1>asked. cmd.kind \in {"plain", "busy", "stop", "tuning", "data"} /\ cmd.blocks \in Nat /\ cmd.at \in Nat
    BY Asked DEF SdInv
  <1>work. /\ HasData /\ ~dma /\ dev.phase \in {"buffer", "failed"} /\ dev # Idle /\ block < cmd.blocks
           /\ dev.id = count /\ dev.kind = "data" /\ dev.blocks = cmd.blocks /\ dev.n = block
           /\ moved = Prefix(cmd.at, block) /\ late = 0 /\ block \in Nat
           /\ status["DATA_END"] = 0 /\ stat["DATA_END"] = 0 /\ inhibit = {"dat"}
    BY <1>asked, IdleIs
       DEF SdInv, TypeOK, DevOK, States, ActiveInv, DataInv, Active, Loop, Clean, HasData
  <1>effect. /\ dev'.phase = "data" /\ dev'.id = dev.id /\ dev'.kind = dev.kind /\ dev'.blocks = dev.blocks
             /\ dev'.n = block' /\ block' = block + 1 /\ dev' # Idle
             /\ moved' = Prefix(cmd.at, block')
             /\ dev' \in States(count)
    <2>1. moved' = Append(Prefix(cmd.at, block), <<cmd.at + block, block + 1>>)
      BY <1>work
    <2>2. moved' = Prefix(cmd.at, block + 1)
      BY <1>asked, <1>work, <2>1, PrefixIs
    <2>3. dev' = [dev EXCEPT !.phase = "data", !.n = block + 1]
      BY <1>work
    <2>4. block + 1 \in Nat
      BY <1>work
    <2> QED BY <1>work, <2>2, <2>3, <2>4, IdleIs DEF SdInv, DevOK, States
  <1>next. \/ pc' = "turn" /\ ret' = ret /\ tick' \in {tick, tick + 1} /\ (tick' # tick => tick < DataTimeout)
           \/ pc' = "status" /\ ret' = "ETIMEDOUT" /\ tick' = tick
    BY <1>work, <1>effect DEF Raised, Bits
  <1>1. TypeOK'
    <2>1. tick' \in 0..(ReadTimeout + DataTimeout)
      <3> HIDE DEF Pio
      <3>1. tick \in 0..(ReadTimeout + DataTimeout) /\ ReadTimeout \in Nat /\ DataTimeout \in Nat
        BY SdhciAssumption DEF SdInv, TypeOK
      <3> QED BY <1>next, <3>1
    <2>2. block' \in 0..cmd'.blocks /\ cmd' = cmd
      <3>1. cmd' = cmd
        OBVIOUS
      <3> HIDE DEF Pio
      <3> QED BY <1>asked, <1>work, <1>effect, <3>1
    <2> QED BY <1>work, <1>effect, <1>next, <2>1, <2>2 DEF SdInv, TypeOK, DevOK, States
  <1>2. DevOK'
    BY <1>effect, <1>next DEF SdInv, DevOK, States
  <1>3. LineInv'
    BY <1>work, <1>effect DEF SdInv, LineInv
  <1>4. WaitInv'
    BY <1>next DEF WaitInv
  <1>5. ActiveInv'
    BY <1>work, <1>effect, <1>next DEF SdInv, ActiveInv, Active, Loop, Clean, HasData
  <1>6. DataInv'
    BY <1>work, <1>effect, <1>next DEF SdInv, DataInv, Active, Loop, HasData
  <1>7. NoStandoff'
    BY <1>effect DEF NoStandoff
  <1> QED BY <1>1, <1>2, <1>3, <1>4, <1>5, <1>6, <1>7 DEF SdInv

(***************************************************************************)
(* The DMA goes on where it stopped.                                       *)
(***************************************************************************)
LEMMA CrossBoundaryKeeps ==
    ASSUME SdInv, CrossBoundary
    PROVE  SdInv'
  <1> USE DEF CrossBoundary, TurnOver, LoopTest
  <1>asked. cmd.kind \in {"plain", "busy", "stop", "tuning", "data"} /\ cmd.blocks \in Nat /\ cmd.at \in Nat
    BY Asked DEF SdInv
  <1>work. /\ HasData /\ dma /\ dev.phase = "paused" /\ dev # Idle
           /\ dev.id = count /\ dev.kind = "data" /\ dev.blocks = cmd.blocks
           /\ status["DATA_END"] = 0 /\ stat["DATA_END"] = 0 /\ late = 0
           /\ dev.addr = NextPiece(start_addr)
    BY <1>asked, IdleIs
       DEF SdInv, TypeOK, DevOK, States, ActiveInv, DataInv, Active, Loop, Clean, HasData
  <1>effect. /\ dev'.phase = "data" /\ dev'.id = dev.id /\ dev'.kind = dev.kind /\ dev'.blocks = dev.blocks
             /\ dev'.n = dev.n /\ dev' # Idle /\ dev'.addr = dev.addr /\ start_addr' = dev.addr
             /\ dev' \in States(count)
             /\ dev.addr \in Nat
    BY <1>asked, <1>work, IdleIs DEF SdInv, DevOK, States
  <1>bits. /\ status' \in [Bits -> 0..count]
           /\ \A b \in Bits : status'[b] = IF b = "DMA_END" THEN 0 ELSE status[b]
    BY SdhciAssumption DEF SdInv, TypeOK, Cleared
  <1>next. \/ pc' = "turn" /\ ret' = ret /\ tick' = tick + 1 /\ tick < DataTimeout
           \/ pc' = "status" /\ ret' = "ETIMEDOUT" /\ tick' = tick
    BY <1>work DEF Raised, Bits
  <1>1. TypeOK'
    <2>1. tick' \in 0..(ReadTimeout + DataTimeout)
      BY <1>next, SdhciAssumption DEF SdInv, TypeOK
    <2> QED BY <1>bits, <1>effect, <1>next, <2>1 DEF SdInv, TypeOK, DevOK, States
  <1>2. DevOK'
    BY <1>effect, <1>next DEF SdInv, DevOK, States
  <1>3. LineInv'
    BY <1>work, <1>effect DEF SdInv, LineInv
  <1>4. WaitInv'
    BY <1>next DEF WaitInv
  <1>5. ActiveInv'
    BY <1>work, <1>bits, <1>effect, <1>next DEF SdInv, ActiveInv, Active, Loop, Clean, HasData, Bits
  <1>6. DataInv'
    BY <1>work, <1>bits, <1>effect, <1>next, PieceIs DEF SdInv, DataInv, Active, Loop, HasData, Bits
  <1>7. NoStandoff'
    BY <1>effect DEF NoStandoff
  <1> QED BY <1>1, <1>2, <1>3, <1>4, <1>5, <1>6, <1>7 DEF SdInv

(***************************************************************************)
(* The command line is reset, or stays as it is.                           *)
(***************************************************************************)
LEMMA ResetCmdKeeps ==
    ASSUME SdInv, ResetCmd
    PROVE  SdInv'
  <1> USE DEF ResetCmd, ResetLine
  <1>asked. cmd.kind \in {"plain", "busy", "stop", "tuning", "data"} /\ cmd.blocks \in Nat /\ cmd.at \in Nat
    BY Asked DEF SdInv
  <1>effect. \/ inhibit' = {} /\ dev' = Idle /\ inhibit' = inhibit \ {"cmd"} /\ stuck' = stuck
             \/ /\ inhibit' # {} /\ inhibit' = inhibit \ {"cmd"} /\ stuck' = stuck
                /\ dev'.phase = "failed" /\ dev'.id = dev.id /\ dev'.kind = dev.kind /\ dev'.blocks = dev.blocks
                /\ dev'.n = dev.n /\ dev'.addr = dev.addr /\ dev' # Idle
             \/ inhibit' = inhibit /\ dev' = dev /\ late' = late /\ stuck'
    BY IdleIs DEF SdInv, DevOK, States
  <1>type. dev' \in States(count)
    BY IdleIs, SdhciAssumption DEF SdInv, DevOK, States, TypeOK
  <1>rest. dev = Idle /\ late = 0 => inhibit = {} /\ dev' = Idle
    BY IdleIs DEF SdInv, LineInv
  <1>1. TypeOK'
    <2>1. late' \in 0..count /\ inhibit' \subseteq {"cmd", "dat"} /\ stuck' \in BOOLEAN
      BY Asked DEF SdInv, TypeOK
    <2> QED BY <1>type, <2>1 DEF SdInv, TypeOK, States
  <1>2. DevOK'
    BY <1>type, SdhciAssumption DEF SdInv, TypeOK, DevOK, States
  <1>3. LineInv'
    BY <1>effect, <1>type, IdleIs DEF SdInv, LineInv, TypeOK
  <1>4. WaitInv'
    BY DEF WaitInv
  <1>5. ActiveInv'
    BY <1>asked, <1>effect, <1>rest, IdleIs
       DEF SdInv, DevOK, States, ActiveInv, Active, Loop, Clean, HasData
  <1>6. DataInv'
    BY <1>asked, <1>effect, <1>rest, IdleIs DEF SdInv, ActiveInv, DataInv, Active, Loop, Clean, HasData
  <1>7. NoStandoff'
    BY DEF NoStandoff
  <1> QED BY <1>1, <1>2, <1>3, <1>4, <1>5, <1>6, <1>7 DEF SdInv

(***************************************************************************)
(* The data line is reset, or stays as it is; then the command returns,    *)
(* and with both lines reset it leaves the controller idle.                *)
(***************************************************************************)
LEMMA ResetDataKeeps ==
    ASSUME SdInv, ResetData
    PROVE  SdInv'
  <1> USE DEF ResetData, ResetLine
  <1>asked. cmd.kind \in {"plain", "busy", "stop", "tuning", "data"} /\ cmd.blocks \in Nat /\ cmd.at \in Nat
    BY Asked DEF SdInv
  <1>effect. \/ inhibit' = {} /\ dev' = Idle /\ inhibit' = inhibit \ {"dat"} /\ stuck' = stuck
             \/ /\ inhibit' # {} /\ inhibit' = inhibit \ {"dat"} /\ stuck' = stuck
                /\ dev'.phase = "failed" /\ dev'.id = dev.id /\ dev'.kind = dev.kind /\ dev'.blocks = dev.blocks
                /\ dev'.n = dev.n /\ dev'.addr = dev.addr /\ dev' # Idle
             \/ inhibit' = inhibit /\ dev' = dev /\ late' = late /\ stuck'
    BY IdleIs DEF SdInv, DevOK, States
  <1>type. dev' \in States(count)
    BY IdleIs, SdhciAssumption DEF SdInv, DevOK, States, TypeOK
  <1>rest. dev = Idle /\ late = 0 => inhibit = {} /\ dev' = Idle
    BY IdleIs DEF SdInv, LineInv
  <1>1. TypeOK'
    <2>1. late' \in 0..count /\ inhibit' \subseteq {"cmd", "dat"} /\ stuck' \in BOOLEAN
      BY Asked DEF SdInv, TypeOK
    <2> QED BY <1>type, <2>1 DEF SdInv, TypeOK, States
  <1>2. DevOK'
    BY <1>type, SdhciAssumption DEF SdInv, TypeOK, DevOK, States
  <1>3. LineInv'
    BY <1>effect, <1>type, IdleIs DEF SdInv, LineInv, TypeOK
  <1>4. WaitInv'
    <2>1. ~stuck' => dev' = Idle /\ late' = 0
      BY <1>effect, IdleIs DEF SdInv, TypeOK, ActiveInv
    <2> QED BY <2>1 DEF SdInv, ActiveInv, WaitInv
  <1>5. ActiveInv'
    BY DEF ActiveInv, Active, Loop
  <1>6. DataInv'
    BY DEF DataInv, Active, Loop
  <1>7. NoStandoff'
    BY DEF NoStandoff
  <1> QED BY <1>1, <1>2, <1>3, <1>4, <1>5, <1>6, <1>7 DEF SdInv

(***************************************************************************)
(* A caller comes.                                                         *)
(***************************************************************************)
LEMMA BeginKeeps ==
    ASSUME SdInv, NEW c \in Commands, Begin(c)
    PROVE  SdInv'
  <1> USE DEF Begin
  <1>asked. cmd.kind \in {"plain", "busy", "stop", "tuning", "data"} /\ cmd.blocks \in Nat /\ cmd.at \in Nat
    BY Asked DEF SdInv
  <1>more. count \in Nat /\ count' = count + 1 /\ count' \in 0..MaxCommands /\ 0..count \subseteq 0..count'
    BY SdhciAssumption DEF SdInv, TypeOK
  <1>dev. dev \in States(count') /\ dev.id < count'
    <2>1. dev \in States(count) /\ dev.id \in 0..count
      BY DEF SdInv, DevOK, States
    <2> QED BY <1>more, <2>1 DEF States
  <1>1. TypeOK'
    <2>1. stat' \in [Bits -> 0..count'] /\ status' \in [Bits -> 0..count']
      BY <1>more DEF SdInv, TypeOK, NoBits
    <2>2. dev'.id \in 0..count' /\ late' \in 0..count' /\ dev'.n \in Nat
      BY <1>more, <1>dev DEF SdInv, TypeOK, States
    <2>3. time' \in 0..MaxTimeout /\ tick' \in 0..(ReadTimeout + DataTimeout) /\ block' \in 0..cmd'.blocks
      BY SdhciAssumption
    <2> QED BY <1>more, <2>1, <2>2, <2>3 DEF SdInv, TypeOK
  <1>2. DevOK'
    BY <1>more, <1>dev, SdhciAssumption DEF SdInv, TypeOK, DevOK
  <1>3. LineInv'
    BY <1>asked DEF SdInv, LineInv
  <1>4. WaitInv'
    BY <1>asked DEF SdInv, TypeOK, WaitInv, HasData
  <1>5. ActiveInv'
    BY <1>asked
       DEF SdInv, TypeOK, DevOK, States, WaitInv, ActiveInv, Active, Loop, Clean,
           HasData, Raised, Cleared, Bits
  <1>6. DataInv'
    BY <1>asked DEF SdInv, TypeOK, WaitInv, DataInv, Active, Loop, HasData, Raised, Cleared, Bits
  <1>7. NoStandoff'
    BY <1>asked DEF SdInv, TypeOK, NoStandoff, Cleared, Bits
  <1> QED BY <1>1, <1>2, <1>3, <1>4, <1>5, <1>6, <1>7 DEF SdInv

(***************************************************************************)
(* A block by DMA, after which the controller stops at a boundary.         *)
(***************************************************************************)
LEMMA DmaBlockKeeps ==
    ASSUME SdInv, DmaBlock
    PROVE  SdInv'
  <1> USE DEF DmaBlock, driver
  <1>asked. cmd.kind \in {"plain", "busy", "stop", "tuning", "data"} /\ cmd.blocks \in Nat /\ cmd.at \in Nat
    BY Asked DEF SdInv
  <1>work. dev # Idle /\ dev.phase = "data" /\ dev.kind = "data" /\ dev.n < dev.blocks /\ dma
    BY IdleIs
  <1> DEFINE stop == (dev.addr + 1) % Boundary = 0 /\ dev.n + 1 < dev.blocks
  <1>bits. /\ status' \in [Bits -> 0..count]
           /\ \A b \in Bits : status'[b] = IF b = "DMA_END" /\ stop THEN dev.id ELSE status[b]
    <2>1. Raise(IF stop THEN {"DMA_END"} ELSE {})
      OBVIOUS
    <2> HIDE DEF stop
    <2> QED BY <2>1, RaiseIs
  <1>effect. /\ dev'.phase = (IF stop THEN "paused" ELSE "data") /\ dev'.id = dev.id /\ dev'.kind = dev.kind
             /\ dev'.blocks = dev.blocks /\ dev'.n = dev.n + 1 /\ dev'.addr = dev.addr + 1 /\ dev' # Idle
             /\ dev' \in States(count)
             /\ dev.n \in Nat /\ dev.addr \in Nat /\ dev.blocks \in Nat /\ dev.id \in Nat
    <2> HIDE DEF stop
    <2>1. dev' = [dev EXCEPT !.n = @ + 1, !.addr = @ + 1, !.phase = IF stop THEN "paused" ELSE "data"]
      BY DEF stop
    <2>2. dev.n \in Nat /\ dev.addr \in Nat /\ dev.blocks \in Nat /\ dev.id \in Nat
      BY Asked DEF SdInv, DevOK, States
    <2>3. dev.n + 1 \in Nat /\ dev.addr + 1 \in Nat
      BY <2>2
    <2> QED BY <1>work, <2>1, <2>2, <2>3, IdleIs DEF SdInv, DevOK, States
  <1>same. UNCHANGED <<dma, pc, cmd, count, stat, block, start_addr, ret, stuck, inhibit, late>>
    OBVIOUS
  <1>own. Active /\ HasData =>
            /\ dev.id = count /\ dev.blocks = cmd.blocks /\ dev.addr = cmd.at + dev.n
            /\ status["DATA_END"] = 0 /\ stat["DATA_END"] = 0 /\ late = 0
            /\ pc \notin {"ready", "pio", "boundary"} /\ ~(pc \in {"status", "ack"} /\ ret = "0")
            /\ moved' = Prefix(cmd.at, dev.n + 1) /\ block = 0
            /\ start_addr \in Nat /\ start_addr <= dev.addr /\ dev.addr < NextPiece(start_addr)
    <2> SUFFICES ASSUME Active, HasData
                 PROVE  /\ dev.id = count /\ dev.blocks = cmd.blocks /\ dev.addr = cmd.at + dev.n
                        /\ status["DATA_END"] = 0 /\ stat["DATA_END"] = 0 /\ late = 0
                        /\ pc \notin {"ready", "pio", "boundary"} /\ ~(pc \in {"status", "ack"} /\ ret = "0")
                        /\ moved' = Prefix(cmd.at, dev.n + 1) /\ block = 0
                        /\ start_addr \in Nat /\ start_addr <= dev.addr /\ dev.addr < NextPiece(start_addr)
      OBVIOUS
    <2>1. dev.id = count /\ late = 0 /\ status["DATA_END"] = 0 /\ stat["DATA_END"] = 0 /\ dev.blocks = cmd.blocks
      BY <1>work DEF SdInv, ActiveInv, Clean, HasData
    <2>2. /\ dev.addr = cmd.at + dev.n /\ moved = Prefix(cmd.at, dev.n) /\ block = 0
          /\ start_addr <= dev.addr /\ dev.addr < NextPiece(start_addr) /\ start_addr \in Nat
      BY <1>work, <2>1 DEF SdInv, DataInv, DevOK, States
    <2>3. moved' = Append(moved, <<dev.addr, dev.n + 1>>)
      BY <2>1
    <2>4. moved' = Prefix(cmd.at, dev.n + 1)
      <3>1. moved' = Append(Prefix(cmd.at, dev.n), <<cmd.at + dev.n, dev.n + 1>>)
        BY <2>2, <2>3
      <3> QED BY <1>asked, <1>effect, <3>1, PrefixIs
    <2>5. pc \notin {"ready", "pio", "boundary"}
      BY <1>work DEF SdInv, DataInv
    <2>6. ~(pc \in {"status", "ack"} /\ ret = "0")
      BY <1>work DEF SdInv, ActiveInv, Clean, HasData
    <2> QED BY <2>1, <2>2, <2>4, <2>5, <2>6
  <1>1. TypeOK'
    <2> HIDE DEF stop
    <2>1. status' \in [Bits -> 0..count] /\ dev'.id \in 0..count /\ dev'.n \in Nat
      BY <1>bits, <1>effect DEF States
    <2> QED BY <2>1 DEF SdInv, TypeOK
  <1>2. DevOK'
    BY <1>effect DEF SdInv, DevOK, States
  <1>3. LineInv'
    BY <1>work, <1>effect DEF SdInv, LineInv
  <1>4. WaitInv'
    BY <1>work, ControllerWaits
  <1>5. ActiveInv'
    <2> HIDE DEF stop, DmaBlock
    <2> QED BY <1>asked, <1>same, <1>bits, <1>work, <1>effect, IdleIs
               DEF SdInv, ActiveInv, Active, Loop, Clean, HasData, Bits
  <1>6. DataInv'
    <2> SUFFICES ASSUME Active, HasData PROVE DataInv'
      BY DEF DataInv, Active, Loop, HasData
    <2>1. /\ stop => dev.addr + 1 = NextPiece(start_addr)
          /\ ~stop /\ dev.n + 1 < cmd.blocks => dev.addr + 1 < NextPiece(start_addr)
      BY <1>effect, <1>own, PieceIs
    <2>2. stop => dev.n + 1 < cmd.blocks
      BY <1>own
    <2> HIDE DEF stop, DmaBlock
    <2>3. status'["DATA_END"] = 0 /\ (status'["DMA_END"] # 0 => stop \/ status["DMA_END"] # 0)
      BY <1>bits, <1>own DEF Bits
    <2>4. Loop => status["DMA_END"] = 0
      BY <1>work DEF SdInv, DataInv
    <2>5. /\ dev'.addr = cmd.at + dev'.n /\ dev'.n <= cmd.blocks /\ moved' = Prefix(cmd.at, dev'.n)
          /\ start_addr <= dev'.addr
      BY <1>asked, <1>work, <1>effect, <1>own
    <2>6. /\ dev'.phase = "paused" => dev'.addr = NextPiece(start_addr) /\ dev'.n < cmd.blocks
          /\ dev'.phase = "data" /\ dev'.n < cmd.blocks => dev'.addr < NextPiece(start_addr)
          /\ dev'.phase = IF stop THEN "paused" ELSE "data"
      BY <1>effect, <2>1, <2>2
    <2> QED BY <1>same, <1>work, <1>own, <2>3, <2>4, <2>5, <2>6 DEF DataInv, Loop
  <1>7. NoStandoff'
    <2> HIDE DEF stop
    <2>1. Loop /\ dev.id = count => count # 0
      BY DEF SdInv, DevOK, States, Loop
    <2> QED BY <1>bits, <1>effect, <2>1 DEF NoStandoff, Loop, Bits
  <1> QED BY <1>1, <1>2, <1>3, <1>4, <1>5, <1>6, <1>7 DEF SdInv

-----------------------------------------------------------------------------
(* The theorem *)

(***************************************************************************)
(* Nothing is under way before the first command.                          *)
(***************************************************************************)
LEMMA SdInit == Init => SdInv
  <1> SUFFICES ASSUME Init PROVE SdInv
    OBVIOUS
  <1>1. cmd \in Commands /\ cmd.kind = "plain" /\ cmd.blocks \in Nat
    BY SdhciAssumption DEF Init
  <1>2. TypeOK
    <2>1. stat \in [Bits -> 0..count] /\ status \in [Bits -> 0..count]
      BY DEF Init, NoBits
    <2>2. /\ time \in 0..MaxTimeout /\ cmd_timeout \in DefaultTimeout..MaxTimeout
          /\ tick \in 0..(ReadTimeout + DataTimeout) /\ count \in 0..MaxCommands /\ block \in 0..cmd.blocks
      BY <1>1, SdhciAssumption DEF Init
    <2>3. dev.id \in 0..count /\ late \in 0..count /\ dev.n \in Nat
      BY IdleIs DEF Init
    <2> QED BY <1>1, <2>1, <2>2, <2>3 DEF Init, TypeOK
  <1>3. DevOK /\ LineInv /\ WaitInv
    <2>1. DevOK
      BY SdhciAssumption, IdleIs DEF Init, DevOK
    <2>2. LineInv
      BY IdleIs DEF Init, LineInv
    <2>3. WaitInv
      BY <1>1 DEF Init, WaitInv, HasData
    <2> QED BY <2>1, <2>2, <2>3
  <1>4. ActiveInv /\ DataInv /\ NoStandoff
    BY DEF Init, ActiveInv, DataInv, NoStandoff, Active, Loop
  <1> QED BY <1>2, <1>3, <1>4 DEF SdInv

(***************************************************************************)
(* Every step of the driver, of the controller and of a caller keeps it.   *)
(***************************************************************************)
LEMMA SdStep == SdInv /\ [Next]_vars => SdInv'
  <1> SUFFICES ASSUME SdInv, [Next]_vars PROVE SdInv'
    OBVIOUS
  <1>1. CASE UNCHANGED vars
    <2> USE <1>1 DEF vars, driver
    <2>0. TypeOK'
      BY DEF SdInv, TypeOK
    <2>1. DevOK' /\ LineInv'
      BY DEF SdInv, DevOK, States, LineInv
    <2>2. WaitInv'
      BY DEF SdInv, WaitInv, HasData
    <2>4. ActiveInv'
      BY DEF SdInv, ActiveInv, Active, Loop, Clean, HasData
    <2>3. DataInv' /\ NoStandoff'
      BY DEF SdInv, DataInv, NoStandoff, Active, Loop, HasData
    <2> QED BY <2>0, <2>1, <2>2, <2>3, <2>4 DEF SdInv
  <1>2. CASE Driver
    BY <1>2, WaitLineKeeps, ClearStatusKeeps, SendCommandKeeps, PollStatusKeeps, CommandDoneKeeps,
       TurnKeeps, ReadyKeeps, PioKeeps, CrossBoundaryKeeps, LastStatusKeeps, AcknowledgeKeeps,
       ResetCmdKeeps, ResetDataKeeps DEF Driver
  <1>3. CASE Controller
    BY <1>3, RespondKeeps, TuningBlockKeeps, BufferReadyKeeps, DmaBlockKeeps, DataEndKeeps,
       LateEndKeeps, FailKeeps DEF Controller
  <1>4. CASE \E c \in Commands : Begin(c)
    BY <1>4, BeginKeeps
  <1> QED BY <1>1, <1>2, <1>3, <1>4 DEF Next

(***************************************************************************)
(* For any commands, DMA boundary and timeouts, and whatever the           *)
(* controller does: a command that is not for tuning sees no status but    *)
(* its own, a transfer reported as done moved every block once and in      *)
(* order, driver and controller never wait for each other, and a command   *)
(* that could reset the controller leaves it idle.                         *)
(***************************************************************************)
THEOREM AnswersOwnHolds == Spec => []AnswersOwn
  <1>1. SdInv => AnswersOwn
    <2> SUFFICES ASSUME SdInv PROVE AnswersOwn
      OBVIOUS
    <2>1. StatusIsOwn
      <3> SUFFICES ASSUME Sending, cmd.kind # "tuning", NEW b \in Bits PROVE status[b] \in {0, count}
        BY DEF StatusIsOwn
      <3>1. CASE pc = "send"
        BY <3>1 DEF SdInv, WaitInv, NoBits
      <3>2. CASE pc # "send"
        BY <3>2 DEF SdInv, TypeOK, ActiveInv, Active, Loop, Clean, Sending
      <3> QED BY <3>1, <3>2, Zenon
    <2>2. DataRight
      BY DEF SdInv, WaitInv, DataRight, Prefix
    <2>3. QuietAfterReturn
      BY IdleIs DEF SdInv, LineInv, WaitInv, QuietAfterReturn
    <2> QED BY <2>1, <2>2, <2>3 DEF SdInv, AnswersOwn
  <1> QED BY <1>1, SdInit, SdStep, PTL DEF Spec
=============================================================================
