------------------------------- MODULE SdHost -------------------------------
(***************************************************************************)
(* The configuration half of the SD host driver: sdhci_set_clock,          *)
(* sdhci_set_power, sdhci_set_voltage, sdhci_set_uhs_timing, sdhci_set_ios,*)
(* sdhci_init and sdhci_setup_cfg of kernel/sdhci.c, and cvi_sdhci_probe,  *)
(* cvi_general_reset and cvi_general_execute_tuning of                     *)
(* kernel/sdhci-cv180x.c.  All run with sdlock held, one at a time, and    *)
(* nothing here runs beside them: a handler is one step, and tuning is one *)
(* step per tap.  What the hardware answers (a capability, a line that     *)
(* stays busy, a clock that does not settle, a tuning block that does not  *)
(* come) is chosen freely.                                                 *)
(***************************************************************************)
EXTENDS Integers, FiniteSets, SequencesExt, FiniteSetsExt

CONSTANTS
    max_clk,        \* host->max_clk
    f_min, f_max,   \* mmc_fmin_freq, mmc_fmax_freq of the board
    MAX_DIV_300,    \* SDHCI_MAX_DIV_SPEC_300
    MAX_DIV_200,    \* SDHCI_MAX_DIV_SPEC_200
    MAX_DIV_PROG,   \* the 1024 of the programmable clock mode
    Clocks,         \* clocks asked for, none below f_min; 0 stops the clock
    Modes, Widths,  \* bus modes and widths asked for
    Hosts,          \* controllers and boards: [caps, version, present, no18, given]
    TUNE_MAX_PHCODE, TAP_WINDOW_THLD, MAX_TUNING_CMD_RETRY_COUNT,
    MaxSteps        \* bound: handlers called in a behaviour

VARIABLES
    hw,       \* what the hardware is: capabilities, version, card present
    cfg,      \* struct mmc_config: host_caps, voltages
    reg,      \* the registers the handlers write
    tuning,   \* the tuning in progress: [on, min, result]
    asked,    \* the clock of the last sdhci_set_clock that succeeded
    tuned,    \* the taps whose tuning blocks came, of the last tuning; <<>> before
    kept,     \* no line was reset since the last tuning
    steps

vars == <<hw, cfg, reg, tuning, asked, tuned, kept, steps>>

Uhs == {"SDR12", "SDR25", "SDR50", "SDR104", "DDR50"}
NoTuning == [on |-> FALSE, min |-> 0, result |-> {}]

-----------------------------------------------------------------------------
(* include/bitops.h: the number of the highest bit set, from 1; an int is  *)
(* the set of its bits, shifted left by halves of the word.                *)
ShiftLeft(x, n) == {b + n : b \in {c \in x : c + n < 32}}

FlsHalf(a, h) == IF a.x \cap (32 - h)..31 = {}
                 THEN [x |-> ShiftLeft(a.x, h), r |-> a.r - h]
                 ELSE a

generic_fls(x) == IF x = {} THEN 0
                  ELSE FoldLeft(FlsHalf, [x |-> x, r |-> 32], <<16, 8, 4, 2, 1>>).r

(* The bits of mmc->cfg->voltages, and the level a bit selects.            *)
VoltageBits(c) == (IF "v330" \in c THEN {20, 21} ELSE {})
                  \cup (IF "v300" \in c THEN {17, 18} ELSE {})
                  \cup (IF "v180" \in c THEN {7} ELSE {})

(* sdhci_set_power: an unknown bit, and -1, turn the bus off.              *)
sdhci_set_power(power) == CASE power = 7 -> "v180"
                            [] power \in {17, 18} -> "v300"
                            [] power \in {20, 21} -> "v330"
                            [] OTHER -> "off"

-----------------------------------------------------------------------------
(* sdhci_set_clock.                                                        *)

(* The first divisor of a search that is slow enough, or the one the loop  *)
(* ends with.                                                              *)
FirstDivisor(ds, end, clock) ==
    LET slow == {d \in ds : max_clk \div d <= clock}
    IN  IF slow = {} THEN end ELSE Min(slow)

Divisor(clock) ==
    CASE hw.version = "prog" -> FirstDivisor(1..MAX_DIV_PROG, MAX_DIV_PROG + 1, clock) - 1
      [] hw.version = "v3" ->
            (IF max_clk <= clock THEN 1
             ELSE FirstDivisor({2 * n : n \in 1..((MAX_DIV_300 \div 2) - 1)}, MAX_DIV_300, clock))
            \div 2
      [] OTHER -> FirstDivisor({2 ^ n : n \in {m \in 0..10 : 2 ^ m < MAX_DIV_200}},
                               MAX_DIV_200, clock) \div 2

(* The divisor field of SDHCI_CLOCK_CONTROL: 8 low bits and 2 high bits.   *)
Encoded(div) == (div % 256) + 256 * ((div \div 256) % 4)

(* The clock is stopped; the lines must be free for that.  A clock of 0    *)
(* leaves it so.  Otherwise the divisor is written, and the card gets the  *)
(* clock once it is stable.                                                *)
sdhci_set_clock(r, clock) ==
    IF clock = 0
    THEN {[r EXCEPT !.on = FALSE, !.div = 0]}
    ELSE {[r EXCEPT !.on = stable, !.div = Encoded(Divisor(clock))] : stable \in BOOLEAN}

-----------------------------------------------------------------------------
(* sdhci_set_uhs_timing: the timing of a bus mode.                         *)
sdhci_set_uhs_timing(mode) ==
    CASE mode \in {"SDR50", "HS_52"} -> "SDR50"
      [] mode \in {"DDR50", "DDR_52"} -> "DDR50"
      [] mode \in {"SDR104", "HS_200"} -> "SDR104"
      [] mode = "HS_400" -> "HS400"
      [] OTHER -> "SDR12"

(* The modes sdhci_set_ios sets SDHCI_CTRL_HISPD for.                      *)
HighSpeed == {"HS", "SD_HS", "DDR_52", "HS_200", "HS_400", "SDR25", "SDR50", "SDR104", "DDR50"}

(* cvi_general_reset: the PHY is set up for the timing in effect, always   *)
(* with tap 0.                                                             *)
cvi_general_reset(r) == [r EXCEPT !.pipe = (r.uhs = "SDR104"), !.tap = 0]

(* What SDHCI_RESET_ALL leaves of the registers modelled here.             *)
AllReset(r) == [r EXCEPT !.power = "off", !.uhs = "SDR12", !.v18 = FALSE,
                         !.on = FALSE, !.div = 0, !.hispd = FALSE, !.width = 1]

-----------------------------------------------------------------------------
(* cvi_ofdata_to_platdata and sdhci_setup_cfg: what the host can do.       *)

(* A board without 1.8 V takes the modes that need it away.                *)
BoardCaps(given) == IF hw.no18 THEN given \ (Uhs \cup {"HS_200", "HS_400"}) ELSE given

(* The modes the controller reports, unless 1.8 V is missing.              *)
FastCaps == IF "v180" \in hw.caps /\ ~hw.no18
            THEN hw.caps \cap {"SDR104", "SDR50", "DDR50"} ELSE {}

sdhci_setup_cfg ==
    LET board == BoardCaps(hw.given)
        basic == ((board \cup (IF "hispd" \in hw.caps THEN {"HS", "SD_HS", "HS_52"} ELSE {})
                         \cup {"4BIT"})
                  \ (IF hw.version # "v2" /\ "8bit" \notin hw.caps THEN {"8BIT"} ELSE {}))
        fast  == (IF FastCaps # {} THEN {"SDR12", "SDR25"} ELSE {})
                 \cup (IF "SDR104" \in FastCaps THEN {"SDR104", "SDR50", "HS_200"} ELSE {})
                 \cup (IF "SDR50" \in FastCaps THEN {"SDR50"} ELSE {})
                 \cup (IF "DDR50" \in FastCaps THEN {"DDR50"} ELSE {})
    IN  [host_caps |-> basic \cup fast \cup board,
         voltages |-> VoltageBits(hw.caps),
         f_max |-> IF f_max < max_clk THEN f_max ELSE max_clk,
         f_min |-> f_min]

NoConfig == [host_caps |-> {}, voltages |-> {}, f_max |-> 0, f_min |-> 0]
Probed == cfg # NoConfig

(* sdhci_init powers the bus with the highest voltage offered.             *)
BusPower(vs) == sdhci_set_power(generic_fls(vs) - 1)

(* sdhci_init: the reset, which may not complete, and the power.           *)
sdhci_init(r, vs) ==
    {[s EXCEPT !.power = IF hw.present THEN BusPower(vs) ELSE "off"] : s \in {AllReset(r), r}}

(* The pads of the bus: what they are connected to, and their pulls.       *)
cvi_sdio0_pad_function(unplug) == IF unplug THEN "XGPIO" ELSE "SDIO0"
cvi_sdio0_pad_setting(reset) == IF reset THEN "reset" ELSE "value"

(* cvi_sdhci_probe: configuration, the regulator and the pads, sdhci_init; *)
(* the PHY gets its default.                                               *)
cvi_sdhci_probe ==
    /\ ~Probed
    /\ cfg' = sdhci_setup_cfg
    /\ \E r \in sdhci_init(reg, cfg'.voltages) :
        reg' = [r EXCEPT !.regulator = IF hw.present THEN "v330" ELSE "off",
                         !.pads = <<cvi_sdio0_pad_function(~hw.present),
                                    cvi_sdio0_pad_setting(~hw.present)>>,
                         !.pipe = FALSE, !.tap = 0]
    /\ kept' = FALSE
    /\ UNCHANGED <<hw, tuning, asked, tuned>>

-----------------------------------------------------------------------------
(* The handlers the MMC layer calls.                                       *)

(* The mode a caller of the MMC layer may have selected.                   *)
Selectable == (cfg.host_caps \cap Modes) \cup {"LEGACY"}

(* The bus width and the high-speed bit of SDHCI_HOST_CONTROL.             *)
OtherIos(r, mode, width) == [r EXCEPT !.width = width, !.hispd = (mode \in HighSpeed)]

(* sdhci_set_ios.  When the lines are busy sdhci_set_clock returns -EBUSY  *)
(* with the clock as it was, when the clock does not settle it returns it  *)
(* with the clock off; sdhci_set_ios takes no notice of either.            *)
sdhci_set_ios(clock) ==
    /\ \/ \E mode \in Selectable, width \in Widths :
            /\ reg' = OtherIos(reg, mode, width)
            /\ UNCHANGED asked
       \/ \E r \in sdhci_set_clock(reg, clock) :
            /\ asked' = IF r.on \/ clock = 0 THEN clock ELSE asked
            /\ \E mode \in Selectable, width \in Widths : reg' = OtherIos(r, mode, width)
    /\ UNCHANGED <<hw, cfg, tuning, tuned, kept>>

(* sdhci_set_voltage and, unless the 1.8 V did not come up, the timing.    *)
(* Only the way to 1.8 V switches the regulator.                           *)
sdhci_set_voltage(volt, mode) ==
    /\ IF volt = "v330"
       THEN reg' = [reg EXCEPT !.v18 = FALSE, !.uhs = sdhci_set_uhs_timing(mode)]
       ELSE \E up \in BOOLEAN :
               reg' = [reg EXCEPT !.v18 = up, !.regulator = "v180",
                                  !.uhs = IF up THEN sdhci_set_uhs_timing(mode) ELSE @]
    /\ UNCHANGED <<hw, cfg, tuning, asked, tuned, kept>>

(* sdhci_reset of a line after a command failed.                           *)
LineReset ==
    /\ reg' = cvi_general_reset(reg)
    /\ kept' = FALSE
    /\ UNCHANGED <<hw, cfg, tuning, asked, tuned>>

-----------------------------------------------------------------------------
(* cvi_general_execute_tuning.                                             *)

(* cvi_mmc_set_tap: the tap goes into 16 bits, and the card clock is on    *)
(* afterwards.                                                             *)
cvi_mmc_set_tap(r, tap) == [r EXCEPT !.on = TRUE, !.pipe = TRUE, !.tap = tap % 65536]

StartTuning ==
    /\ reg.uhs = "SDR104" /\ reg.on
    /\ tuning' = [NoTuning EXCEPT !.on = TRUE]
    /\ UNCHANGED <<hw, cfg, reg, asked, tuned, kept>>

(* The command is sent until one fails, at most                            *)
(* 1 + MAX_TUNING_CMD_RETRY_COUNT times; the tap is bad if one failed.     *)
TapBad(came) == came <= MAX_TUNING_CMD_RETRY_COUNT

(* One tap: the bit SET_MASK_BIT sets for a bad one.                       *)
TuneTap ==
    /\ tuning.min < TUNE_MAX_PHCODE
    /\ \E came \in 0..(MAX_TUNING_CMD_RETRY_COUNT + 1) :
        /\ tuning' = [tuning EXCEPT !.min = @ + 1,
                                    !.result = IF TapBad(came) THEN @ \cup {tuning.min} ELSE @]
        /\ tuned' = IF tuning.min = 0 THEN <<came>> ELSE Append(tuned, came)
    /\ reg' = cvi_mmc_set_tap(reg, tuning.min)
    /\ UNCHANGED <<hw, cfg, asked, kept>>

\* A wrong version for comparison: a window of the same size replaces the one found before it.
LongerOrSame(size, max) == size >= max

Longer(size, max) == size > max

(* The scan for the longest window of good taps; its middle is the tap.    *)
ScanTap(a, k) ==
    IF k \in tuning.result
    THEN [a EXCEPT !.cur = -1, !.size = 0]
    ELSE LET first == IF a.cur = -1 THEN k ELSE a.cur
             size == a.size + 1
         IN  IF Longer(size, a.max)
             THEN [cur |-> first, size |-> size, max |-> size,
                   tap |-> IF size >= TAP_WINDOW_THLD THEN first + (size \div 2) ELSE a.tap]
             ELSE [a EXCEPT !.cur = first, !.size = size]

FinalTap == FoldLeft(ScanTap, [cur |-> -1, size |-> 0, max |-> 0, tap |-> -1],
                     [k \in 1..TUNE_MAX_PHCODE |-> k - 1]).tap

(* The tap found is set and one more tuning command is sent; when that     *)
(* fails its lines are reset.                                              *)
EndTuning ==
    /\ tuning.min = TUNE_MAX_PHCODE
    /\ \E fine \in BOOLEAN :
        /\ kept' = fine
        /\ LET r == cvi_mmc_set_tap(reg, FinalTap)
           IN  reg' = IF fine THEN r ELSE cvi_general_reset(r)
    /\ tuning' = NoTuning
    /\ UNCHANGED <<hw, cfg, asked, tuned>>

-----------------------------------------------------------------------------
(* The types: the divisor fits its ten bits, the tap its register.         *)
TypeOK ==
    /\ Probed => /\ cfg.host_caps # {} /\ cfg.voltages \subseteq 0..31
                 /\ cfg.f_min <= cfg.f_max
    /\ reg.power \in {"off", "v180", "v300", "v330"}
    /\ reg.div \in 0..1023 /\ reg.tap \in 0..65535
    /\ reg.uhs \in Uhs \cup {"HS400"} /\ reg.on \in BOOLEAN
    /\ tuning.min \in 0..TUNE_MAX_PHCODE /\ tuning.result \subseteq 0..(tuning.min - 1)
    /\ asked \in Clocks

(* The MMC layer: probe first, then any handler.                           *)
Called(A) == steps < MaxSteps /\ ~tuning.on /\ steps' = steps + 1 /\ A

Next ==
    \/ Called(cvi_sdhci_probe)
    \/ Called(Probed /\ \E clock \in Clocks : sdhci_set_ios(clock))
    \/ Called(Probed /\ \E volt \in {"v330", "v180"}, mode \in Selectable :
                            sdhci_set_voltage(volt, mode))
    \/ Called(Probed /\ LineReset)
    \/ Called(Probed /\ StartTuning)
    \/ tuning.on /\ TuneTap /\ UNCHANGED steps
    \/ tuning.on /\ EndTuning /\ UNCHANGED steps

Init ==
    /\ hw \in Hosts
    /\ cfg = NoConfig
    /\ reg = [power |-> "off", regulator |-> "off", uhs |-> "SDR12", v18 |-> FALSE,
              on |-> FALSE, div |-> 0, hispd |-> FALSE, width |-> 1, pipe |-> FALSE, tap |-> 0,
              pads |-> <<"XGPIO", "reset">>]
    /\ tuning = NoTuning /\ asked = 0 /\ tuned = <<>> /\ kept = FALSE /\ steps = 0

Spec == Init /\ [][Next]_vars

-----------------------------------------------------------------------------
(* The frequency the controller makes of a divisor field, the field of the *)
(* next faster one, and the fields a clock mode knows.                     *)
Freq(div) == IF hw.version = "prog" THEN max_clk \div (div + 1)
             ELSE IF div = 0 THEN max_clk ELSE max_clk \div (2 * div)
Faster(div) == IF hw.version = "v2" THEN div \div 2 ELSE div - 1
Slowest == IF hw.version = "v2" THEN 128 ELSE 1023
Known(div) == hw.version = "v2" => div \in {0, 1, 2, 4, 8, 16, 32, 64, 128}

(* The card never runs faster than asked when the controller can do as     *)
(* asked, and no slower than needed: the clock sdhci_set_clock programs is *)
(* the fastest the controller can make that is not above the one asked     *)
(* for, in each of the three clock modes, or else the slowest it can make. *)
ClockBest ==
    reg.on => /\ Known(reg.div)
              /\ Freq(reg.div) <= asked \/ reg.div = Slowest
              /\ reg.div = 0 \/ Freq(Faster(reg.div)) > asked

(* A host offers the bus modes that need 1.8 V only when its controller    *)
(* has 1.8 V and the board does not rule it out (no-1-8-v), whatever modes *)
(* the configuration named before cvi_sdhci_probe.                         *)
UhsNeeds18 ==
    Probed /\ cfg.host_caps \cap {"SDR50", "SDR104", "DDR50", "HS_200"} # {} =>
        "v180" \in hw.caps /\ ~hw.no18

(* The bus is powered after cvi_sdhci_probe exactly when a card is present *)
(* and the controller offers a voltage, and with the highest it offers;    *)
(* the pads are the controller's and pulled up exactly when a card is      *)
(* present.                                                                *)
PowerHighest ==
    Probed =>
       /\ reg.pads = IF hw.present THEN <<"SDIO0", "value">> ELSE <<"XGPIO", "reset">>
       /\ reg.power = IF ~hw.present THEN "off"
                          ELSE IF "v330" \in hw.caps THEN "v330"
                          ELSE IF "v300" \in hw.caps THEN "v300"
                          ELSE IF "v180" \in hw.caps THEN "v180" ELSE "off"

(* The windows of taps at which every tuning block came.                   *)
Good == {k \in 0..(TUNE_MAX_PHCODE - 1) : tuned[k + 1] = MAX_TUNING_CMD_RETRY_COUNT + 1}
Windows == {w \in (0..(TUNE_MAX_PHCODE - 1)) \X (TAP_WINDOW_THLD..TUNE_MAX_PHCODE) :
              w[1]..(w[1] + w[2] - 1) \subseteq Good}
Longest == {w \in Windows : \A v \in Windows : v[2] <= w[2]}

(* "Find a final tap as median of maximum window" (sdhci-cv180x.c:317):    *)
(* after a tuning whose last command succeeded, and until a line is reset, *)
(* the PHY samples at the middle of the first of the longest windows of    *)
(* taps at which all tuning blocks came; without a window of the least     *)
(* size the tap is -1 in 16 bits.                                          *)
TapInWindow ==
    kept /\ ~tuning.on =>
        IF Windows = {} THEN reg.tap = 65535
        ELSE LET first == Min({w[1] : w \in Longest})
             IN  \E w \in Longest : w[1] = first /\ reg.tap = first + (w[2] \div 2)
=============================================================================
