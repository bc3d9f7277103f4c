------------------------------- MODULE Clock -------------------------------
(***************************************************************************)
(* The clock: the timer interrupt of clock.c, which adds a tick to xtime   *)
(* under clocklock, and the system calls that read and set xtime without   *)
(* the lock, one word at a time (clock_gettime, set_second_clock of rtc.c).*)
(*                                                                         *)
(* tv_nsec is counted in ticks: a second has HZ of them.  The seconds      *)
(* counter of the RTC is a device: it loads what it was triggered to load  *)
(* after a while, and counts on its own.                                   *)
(***************************************************************************)
EXTENDS Integers, FiniteSets

CONSTANTS
    Procs,
    HZ,          \* ticks of a second
    Times,       \* seconds that clock_settime is called with
    MaxJiffies, MaxRtc, MaxSec     \* bounds of the model

(***************************************************************************)
(* What is asked of the constants: some processes, ticks, and times that   *)
(* the bounds admit.                                                       *)
(***************************************************************************)
ClockAssumption ==
    /\ IsFiniteSet(Procs) /\ Procs # {}
    /\ HZ \in Nat \ {0}
    /\ MaxJiffies \in Nat /\ MaxRtc \in Nat /\ MaxSec \in Nat
    /\ Times \subseteq 0..MaxSec /\ Times \subseteq 0..MaxRtc

VARIABLES
    jiffies, wall_jiffies,
    tv_sec, tv_nsec,      \* xtime
    rtc, trig,            \* RTC_SEC_CNTR_VALUE; RTC_SET_SEC_CNTR_VALUE once triggered, or None
    pc, arg, tp,          \* per process: its place in the call, its argument, its local timespec
    from, clean,          \* the time when a read began, and whether nobody has set it since
    set                   \* the last setting of tv_sec: its value and the jiffies then

clock == <<jiffies, wall_jiffies, tv_sec, tv_nsec>>
device == <<rtc, trig>>
local == <<pc, arg, tp, from, clean>>
vars == <<clock, device, local, set>>

None == -1
Now == tv_sec * HZ + tv_nsec
At(t) == t.sec * HZ + t.nsec
Zero == [sec |-> 0, nsec |-> 0]

Init ==
    /\ jiffies = 0 /\ wall_jiffies = 0
    /\ rtc = 0 /\ trig = None
    /\ tv_sec = rtc /\ tv_nsec = 0                 \* clockinit
    /\ pc = [p \in Procs |-> "idle"] /\ arg = [p \in Procs |-> 0]
    /\ tp = [p \in Procs |-> Zero] /\ from = [p \in Procs |-> 0]
    /\ clean = [p \in Procs |-> FALSE]
    /\ set = [to |-> 0, at |-> 0]

(* The loop adds a tick at a time and carries each full second.            *)
update_wall_time(ticks) ==
    LET n == tv_nsec + ticks
    IN  tv_sec' = tv_sec + n \div HZ /\ tv_nsec' = n % HZ

WallAfter(ticks) == wall_jiffies + ticks

update_times ==
    LET ticks == jiffies' - wall_jiffies
    IN  /\ wall_jiffies' = WallAfter(ticks)
        /\ IF ticks # 0 THEN update_wall_time(ticks) ELSE UNCHANGED <<tv_sec, tv_nsec>>

clockintr ==
    /\ jiffies < MaxJiffies /\ tv_sec < MaxSec
    /\ jiffies' = jiffies + 1
    /\ update_times
    /\ UNCHANGED <<device, local, set>>

-----------------------------------------------------------------------------
(* clock_gettime: tv_nsec, then tv_sec.                                    *)

Begin(p) ==
    /\ pc[p] = "idle"
    /\ from' = [from EXCEPT ![p] = Now] /\ clean' = [clean EXCEPT ![p] = TRUE]

\* A wrong version for comparison: the seconds first.
FirstWordSec(p) == tp' = [tp EXCEPT ![p] = [sec |-> tv_sec, nsec |-> None]]

FirstWord(p) == tp' = [tp EXCEPT ![p] = [sec |-> None, nsec |-> tv_nsec]]

GetNsec(p) ==
    /\ Begin(p) /\ FirstWord(p)
    /\ pc' = [pc EXCEPT ![p] = "get"]
    /\ UNCHANGED <<clock, device, arg, set>>

(* The word that is not there yet.                                         *)
SecondWord(t) == IF t.sec = None THEN [t EXCEPT !.sec = tv_sec] ELSE [t EXCEPT !.nsec = tv_nsec]

GetSec(p) ==
    /\ pc[p] = "get"
    /\ tp' = [tp EXCEPT ![p] = SecondWord(@)]
    /\ pc' = [pc EXCEPT ![p] = "got"]
    /\ UNCHANGED <<clock, device, arg, from, clean, set>>

Return(p) ==
    /\ pc[p] = "got" /\ pc' = [pc EXCEPT ![p] = "idle"]
    /\ tp' = [tp EXCEPT ![p] = Zero]
    /\ from' = [from EXCEPT ![p] = 0] /\ clean' = [clean EXCEPT ![p] = FALSE]
    /\ UNCHANGED <<clock, device, arg, set>>

-----------------------------------------------------------------------------
(* clock_settime: set_second_clock loads the RTC, waits for it and writes  *)
(* the two words of xtime.                                                 *)

SetTrigger(p, t) ==
    /\ pc[p] = "idle" /\ pc' = [pc EXCEPT ![p] = "trig"]
    /\ arg' = [arg EXCEPT ![p] = t] /\ trig' = t
    /\ UNCHANGED <<clock, rtc, tp, from, clean, set>>

Spoil == clean' = [p \in Procs |-> FALSE]

SetSec(p) ==
    /\ pc[p] = "trig" /\ rtc >= arg[p]
    /\ pc' = [pc EXCEPT ![p] = "sec"]
    /\ tv_sec' = arg[p] /\ Spoil
    /\ set' = [to |-> arg[p], at |-> jiffies]
    /\ UNCHANGED <<jiffies, wall_jiffies, tv_nsec, device, arg, tp, from>>

SetNsec(p) ==
    /\ pc[p] = "sec" /\ pc' = [pc EXCEPT ![p] = "idle"]
    /\ arg' = [arg EXCEPT ![p] = 0]
    /\ tv_nsec' = 0 /\ Spoil
    /\ UNCHANGED <<jiffies, wall_jiffies, tv_sec, device, tp, from, set>>

(* The device.                                                             *)
RtcLoad == trig # None /\ rtc' = trig /\ trig' = None /\ UNCHANGED <<clock, local, set>>
RtcCount == rtc < MaxRtc /\ rtc' = rtc + 1 /\ UNCHANGED <<clock, trig, local, set>>

Next ==
    \/ clockintr \/ RtcLoad \/ RtcCount
    \/ \E p \in Procs :
          GetNsec(p) \/ GetSec(p) \/ Return(p) \/ SetSec(p) \/ SetNsec(p)
    \/ \E p \in Procs, t \in Times : SetTrigger(p, t)

Spec == Init /\ [][Next]_vars

-----------------------------------------------------------------------------
(* The types: tv_nsec is always less than a second (the carry of           *)
(* update_wall_time), and every tick is added to xtime when it comes.      *)
TypeOK ==
    /\ jiffies \in 0..MaxJiffies /\ wall_jiffies = jiffies
    /\ tv_sec \in 0..MaxSec /\ tv_nsec \in 0..(HZ - 1)
    /\ rtc \in 0..MaxRtc /\ trig \in Times \cup {None}
    /\ pc \in [Procs -> {"idle", "get", "got", "trig", "sec"}]
    /\ arg \in [Procs -> Times \cup {0}]

(* A time that clock_gettime returns is never before the call and less     *)
(* than a second after it, if nobody sets the clock meanwhile: the words   *)
(* are read without clocklock, and a tick between the two may carry, but   *)
(* in this order it can only make the time too late.                       *)
ReadNear ==
    \A p \in Procs : (pc[p] = "got" /\ clean[p]) =>
        from[p] <= At(tp[p]) /\ At(tp[p]) < Now + HZ

(* The clock runs on from what it was set to: once the settings that run   *)
(* are over, xtime is the last value written plus the ticks since, give or *)
(* take less than a second for each process that sets it, because ticks    *)
(* carry between the two words of set_second_clock.                        *)
SetNear ==
    (\A p \in Procs : pc[p] # "sec") =>
        LET ahead == Now - (set.to * HZ + jiffies - set.at)
        IN  -HZ * Cardinality(Procs) < ahead /\ ahead < HZ

(* Reading and setting the clock, with the types.                          *)
TimeNear == TypeOK /\ ReadNear /\ SetNear
=============================================================================
