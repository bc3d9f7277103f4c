------------------------------ MODULE MCDevices -----------------------------
(***************************************************************************)
(* The devices of the board for TLC: the commands and the set-up of the SD *)
(* host controller, the wall clock and the real time clock.  An initial    *)
(* state chooses one of them, and the behaviour is that component's.       *)
(***************************************************************************)
EXTENDS Sdhci

VARIABLES
    which,
    hw, cfg, reg, tuning, asked, tuned, kept, steps,                        \* SdHost
    jiffies, wall_jiffies, tv_sec, tv_nsec, rtc, trig,                      \* Clock
    place, arg, tp, from, clean, set,
    part, day, date, ftune, offset, try, lo, hi                             \* Rtc

Command(k, n, a) == [kind |-> k, blocks |-> n, at |-> a]
MCCommands ==
    {Command(k, 0, 0) : k \in {"plain", "busy", "stop", "tuning"}}
    \cup {Command("data", 1, 3), Command("data", 4, 1)}

(***************************************************************************)
(* Controllers: the board's, with each set of voltages; some without the   *)
(* 1.8 V quirk or a card; and older and programmable-clock ones.           *)
(***************************************************************************)
Board(c, v, p, n, g) == [caps |-> c, version |-> v, present |-> p, no18 |-> n, given |-> g]
Fast == {"SDR50", "SDR104", "DDR50"}
Boards ==
    {Board(c \cup {"hispd"} \cup Fast, "v3", TRUE, TRUE, g) :
        c \in SUBSET {"v330", "v300", "v180"}, g \in {{"SDR104", "8BIT"}}}
    \cup {Board(c \cup Fast, "v3", p, FALSE, {}) : c \in {{"v330"}, {"v180"}}, p \in BOOLEAN}
    \cup {Board({"v180", "v330"} \cup f, v, TRUE, FALSE, {"8BIT"}) :
             v \in {"v2", "prog"}, f \in {{"SDR104"}, {"DDR50", "hispd"}}}

Host ==
    INSTANCE SdHost WITH
        max_clk <- 375000000, f_min <- 400000, f_max <- 200000000,
        MAX_DIV_300 <- 2046, MAX_DIV_200 <- 256, MAX_DIV_PROG <- 1024,
        Clocks <- {0, 400000, 25000000, 200000000}, Modes <- {"SD_HS", "SDR104", "DDR50"},
        Widths <- {4}, Hosts <- Boards,
        TUNE_MAX_PHCODE <- 6, TAP_WINDOW_THLD <- 2, MAX_TUNING_CMD_RETRY_COUNT <- 1, MaxSteps <- 4

Wall ==
    INSTANCE Clock WITH
        Procs <- {1, 2}, HZ <- 2, Times <- {0, 3}, MaxJiffies <- 3, MaxRtc <- 3, MaxSec <- 5,
        pc <- place

(***************************************************************************)
(* Every day from 1970 until 32 bits of seconds are used up in 2106.       *)
(***************************************************************************)
Calendar ==
    INSTANCE Rtc WITH LastDay <- 49710, Seconds <- {0, 86399, 43261}, Lows <- 1..506, Widths <- {0, 5}

ASSUME WallAssumption == Wall!ClockAssumption

hostVars == <<hw, cfg, reg, tuning, asked, tuned, kept, steps>>
wallVars == <<jiffies, wall_jiffies, tv_sec, tv_nsec, rtc, trig, place, arg, tp, from, clean, set>>
rtcVars == <<part, day, date, ftune, offset, try, lo, hi>>

(***************************************************************************)
(* A component that is not chosen rests in one initial state.              *)
(***************************************************************************)
DeviceInit ==
    /\ which \in {"sdhci", "host", "clock", "rtc"}
    /\ Init /\ (which # "sdhci" => dma)
    /\ Host!Init /\ (which # "host" => hw = CHOOSE h \in Boards : TRUE)
    /\ Wall!Init
    /\ Calendar!Init /\ (which # "rtc" => part = "calendar")

DeviceNext ==
    \/ which = "sdhci" /\ Next /\ UNCHANGED <<which, hostVars, wallVars, rtcVars>>
    \/ which = "host" /\ Host!Next /\ UNCHANGED <<which, vars, wallVars, rtcVars>>
    \/ which = "clock" /\ Wall!Next /\ UNCHANGED <<which, vars, hostVars, rtcVars>>
    \/ which = "rtc" /\ Calendar!Next /\ UNCHANGED <<which, vars, hostVars, wallVars>>

DeviceSpec ==
    /\ DeviceInit /\ [][DeviceNext]_<<which, vars, hostVars, wallVars, rtcVars>>
    /\ WF_vars(which = "sdhci" /\ Driver)

-----------------------------------------------------------------------------
(* Properties *)

(***************************************************************************)
(* The clock is the fastest not above the one asked for, modes that need   *)
(* 1.8 V have it, power is the highest common voltage, and the tap lies in *)
(* a window that worked: SdHost!ClockBest, UhsNeeds18, PowerHighest and    *)
(* TapInWindow.                                                            *)
(***************************************************************************)
SetUpRight ==
    which = "host" =>
        /\ Host!TypeOK /\ Host!ClockBest /\ Host!UhsNeeds18
        /\ Host!PowerHighest /\ Host!TapInWindow

(***************************************************************************)
(* clock_gettime is less than a second off, and the time goes on from where*)
(* clock_settime put it: Clock!ReadNear and SetNear.                       *)
(***************************************************************************)
TimeNear ==
    which = "clock" => Wall!TimeNear

(***************************************************************************)
(* Seconds become the date they are, and calibration ends at a tuning that *)
(* is right: Rtc!CalendarRight and TuningFound.                            *)
(***************************************************************************)
CalendarRight ==
    which = "rtc" => Calendar!TypeOK /\ Calendar!CalendarRight /\ Calendar!TuningFound
=============================================================================
