----------------------------- MODULE ClockProof -----------------------------
(***************************************************************************)
(* The wall clock's promises for any number of processes, any HZ and any   *)
(* bounds.                                                                 *)
(*                                                                         *)
(* ReadNear needs what the first word of a read is worth before the second *)
(* is read: ReadInv.  SetNear speaks of states in which no setting runs;   *)
(* SetInv carries the error through the states in between, a second at     *)
(* most for each process that is not between its two words.                *)
(***************************************************************************)
EXTENDS Clock, FiniteSetTheorems, TLAPS

Setting == {p \in Procs : pc[p] = "sec"}
Ahead == Now - (set.to * HZ + jiffies - set.at)

LocalOK ==
    /\ tp \in [Procs -> [sec : Int, nsec : Int]]
    /\ from \in [Procs -> Nat] /\ clean \in [Procs -> BOOLEAN]
    /\ set \in [to : Nat, at : Nat]

ReadInv ==
    \A p \in Procs : pc[p] = "get" =>
        /\ tp[p].sec = None /\ tp[p].nsec \in 0..(HZ - 1)
        /\ clean[p] => from[p] <= tv_sec * HZ + tp[p].nsec

SetInv ==
    /\ -((HZ - 1) * (Cardinality(Procs) - Cardinality(Setting))) <= Ahead
    /\ Ahead < HZ

Inv == TypeOK /\ LocalOK /\ ReadInv /\ ReadNear /\ SetInv

(***************************************************************************)
(* A tick carries at the end of a second (update_wall_time).               *)
(***************************************************************************)
LEMMA Carry ==
    ASSUME HZ \in Nat \ {0}, NEW n \in 0..(HZ - 1)
    PROVE  /\ n + 1 < HZ => (n + 1) \div HZ = 0 /\ (n + 1) % HZ = n + 1
           /\ n + 1 = HZ => (n + 1) \div HZ = 1 /\ (n + 1) % HZ = 0
  OBVIOUS

(***************************************************************************)
(* How many processes are between the two words of set_second_clock.       *)
(***************************************************************************)
LEMMA SettingCount ==
    ASSUME ClockAssumption
    PROVE  /\ Cardinality(Procs) \in Nat \ {0}
           /\ Cardinality(Setting) \in Nat /\ Cardinality(Setting) <= Cardinality(Procs)
           /\ Cardinality(Setting') \in Nat /\ Cardinality(Setting') <= Cardinality(Procs)
  <1>1. IsFiniteSet(Procs) /\ Setting \subseteq Procs /\ Setting' \subseteq Procs
    BY DEF ClockAssumption, Setting
  <1>2. Cardinality(Procs) # 0
    BY <1>1, FS_EmptySet DEF ClockAssumption
  <1> QED
    BY <1>1, <1>2, FS_Subset, FS_CardinalityType

(***************************************************************************)
(* The clock starts with nothing set and nobody reading.                   *)
(***************************************************************************)
LEMMA ClockInit == ASSUME ClockAssumption PROVE Init => Inv
  <1> SUFFICES ASSUME Init PROVE Inv
    OBVIOUS
  <1>1. TypeOK /\ LocalOK
    BY DEF ClockAssumption, Init, TypeOK, LocalOK, None, Zero
  <1>2. ReadInv /\ ReadNear
    BY DEF Init, ReadInv, ReadNear
  <1>3. Ahead = 0 /\ Setting = {}
    BY DEF ClockAssumption, Init, Ahead, Now, Setting
  <1>4. SetInv
    BY <1>3, SettingCount, FS_EmptySet DEF SetInv, ClockAssumption
  <1> QED
    BY <1>1, <1>2, <1>4 DEF Inv

(***************************************************************************)
(* A tick adds one to xtime and to jiffies.                                *)
(***************************************************************************)
LEMMA TickStep ==
    ASSUME ClockAssumption, TypeOK, clockintr
    PROVE  /\ TypeOK' /\ Now' = Now + 1 /\ tv_sec' \in {tv_sec, tv_sec + 1}
           /\ UNCHANGED <<device, local, set>> /\ jiffies' = jiffies + 1
  <1> USE DEF ClockAssumption
  <1>1. /\ jiffies' = jiffies + 1 /\ wall_jiffies' = jiffies + 1
        /\ tv_sec' = tv_sec + (tv_nsec + 1) \div HZ /\ tv_nsec' = (tv_nsec + 1) % HZ
        /\ UNCHANGED <<device, local, set>>
    BY DEF TypeOK, clockintr, update_times, WallAfter, update_wall_time
  <1>2. \/ tv_nsec + 1 < HZ /\ tv_sec' = tv_sec /\ tv_nsec' = tv_nsec + 1
        \/ tv_nsec + 1 = HZ /\ tv_sec' = tv_sec + 1 /\ tv_nsec' = 0
    BY <1>1, Carry DEF TypeOK
  <1>3. Now' = Now + 1 /\ tv_sec' \in {tv_sec, tv_sec + 1}
    BY <1>2 DEF TypeOK, Now
  <1>4. TypeOK'
    BY <1>1, <1>2 DEF TypeOK, clockintr, device, local
  <1> QED
    BY <1>1, <1>3, <1>4

(***************************************************************************)
(* Only the steps between the two words of a setting, and ticks, touch     *)
(* what SetInv speaks of.                                                  *)
(***************************************************************************)
LEMMA SetKept ==
    ASSUME SetInv, Ahead' = Ahead, Setting' = Setting
    PROVE  SetInv'
  BY DEF SetInv

(***************************************************************************)
(* Ticks, readings and settings keep the invariant.                        *)
(***************************************************************************)
LEMMA ClockStep == ASSUME ClockAssumption PROVE Inv /\ [Next]_vars => Inv'
  <1> SUFFICES ASSUME Inv, [Next]_vars PROVE Inv'
    OBVIOUS
  <1> USE DEF ClockAssumption
  <1>0. TypeOK /\ LocalOK /\ ReadInv /\ ReadNear /\ SetInv
    BY DEF Inv
  <1>n. Now \in Nat
    BY <1>0 DEF Now, TypeOK
  <1>a. CASE clockintr
    <2>1. /\ TypeOK' /\ Now' = Now + 1 /\ tv_sec' \in {tv_sec, tv_sec + 1}
          /\ UNCHANGED <<device, local, set>> /\ jiffies' = jiffies + 1
      BY <1>0, <1>a, TickStep
    <2>2. LocalOK'
      BY <1>0, <2>1 DEF LocalOK, local
    <2>3. ReadInv'
      <3>1. tv_sec' * HZ = tv_sec * HZ \/ tv_sec' * HZ = tv_sec * HZ + HZ
        <4>1. tv_sec \in Int /\ HZ \in Int /\ (tv_sec' = tv_sec \/ tv_sec' = tv_sec + 1)
          BY <1>0, <2>1 DEF TypeOK
        <4>2. (tv_sec + 1) * HZ = tv_sec * HZ + HZ
          BY <4>1
        <4> QED
          BY <4>1, <4>2
      <3>2. tv_sec * HZ \in Nat
        BY <1>0 DEF TypeOK
      <3> QED
        BY <1>0, <2>1, <3>1, <3>2 DEF ReadInv, LocalOK, local
    <2>4. ReadNear'
      BY <1>0, <1>n, <2>1 DEF ReadNear, LocalOK, local, At
    <2>5. Ahead' = Ahead /\ Setting' = Setting
      <3>1. set.to * HZ \in Int /\ set.at \in Int /\ jiffies \in Int
        BY <1>0 DEF TypeOK, LocalOK
      <3>2. set' = set /\ pc' = pc
        BY <2>1 DEF local
      <3> QED
        BY <1>n, <2>1, <3>1, <3>2 DEF Ahead, Setting
    <2> QED
      BY <1>0, <2>1, <2>2, <2>3, <2>4, <2>5, SetKept DEF Inv
  <1>b. CASE RtcLoad \/ RtcCount \/ UNCHANGED vars
    <2>1. UNCHANGED <<clock, local, set>>
      BY <1>b DEF RtcLoad, RtcCount, vars
    <2>2. TypeOK'
      BY <1>0, <1>b DEF TypeOK, RtcLoad, RtcCount, vars, clock, local, device, None
    <2>3. LocalOK' /\ ReadInv' /\ ReadNear'
      BY <1>0, <2>1 DEF LocalOK, ReadInv, ReadNear, clock, local, At, Now
    <2>4. Ahead' = Ahead /\ Setting' = Setting
      BY <2>1 DEF Ahead, Setting, Now, clock, local
    <2> QED
      BY <1>0, <2>2, <2>3, <2>4, SetKept DEF Inv
  <1>c. ASSUME NEW p \in Procs, GetNsec(p) PROVE Inv'
    <2> USE <1>0, <1>c DEF GetNsec, Begin, FirstWord
    <2>1. TypeOK' /\ LocalOK'
      BY <1>n DEF TypeOK, LocalOK, clock, device, None
    <2>2. ReadInv' /\ ReadNear'
      BY DEF TypeOK, LocalOK, ReadInv, ReadNear, clock, None, Now, At
    <2>3. Ahead' = Ahead /\ Setting' = Setting
      BY DEF Ahead, Setting, TypeOK, clock, Now
    <2> QED
      BY <2>1, <2>2, <2>3, SetKept DEF Inv
  <1>d. ASSUME NEW p \in Procs, GetSec(p) PROVE Inv'
    <2> USE <1>0, <1>d DEF GetSec
    <2>1. tp'[p] = [sec |-> tv_sec, nsec |-> tp[p].nsec] /\ tp[p].nsec \in 0..(HZ - 1)
      BY DEF ReadInv, LocalOK, SecondWord
    <2>2. TypeOK' /\ LocalOK'
      BY <2>1 DEF TypeOK, LocalOK, clock, device
    <2>3. ReadInv'
      BY DEF TypeOK, LocalOK, ReadInv, clock
    <2>4. ReadNear'
      BY <2>1 DEF TypeOK, LocalOK, ReadInv, ReadNear, clock, Now, At
    <2>5. Ahead' = Ahead /\ Setting' = Setting
      BY DEF Ahead, Setting, TypeOK, clock, Now
    <2> QED
      BY <2>2, <2>3, <2>4, <2>5, SetKept DEF Inv
  <1>e. ASSUME NEW p \in Procs, Return(p) PROVE Inv'
    <2> USE <1>0, <1>e DEF Return
    <2>1. TypeOK' /\ LocalOK'
      BY DEF TypeOK, LocalOK, clock, device, Zero
    <2>2. ReadInv' /\ ReadNear'
      BY DEF TypeOK, LocalOK, ReadInv, ReadNear, clock, Now, At
    <2>3. Ahead' = Ahead /\ Setting' = Setting
      BY DEF Ahead, Setting, TypeOK, clock, Now
    <2> QED
      BY <2>1, <2>2, <2>3, SetKept DEF Inv
  <1>f. ASSUME NEW p \in Procs, NEW t \in Times, SetTrigger(p, t) PROVE Inv'
    <2> USE <1>0, <1>f DEF SetTrigger
    <2>1. TypeOK' /\ LocalOK'
      BY DEF TypeOK, LocalOK, clock
    <2>2. ReadInv' /\ ReadNear'
      BY DEF TypeOK, LocalOK, ReadInv, ReadNear, clock, Now, At
    <2>3. Ahead' = Ahead /\ Setting' = Setting
      BY DEF Ahead, Setting, TypeOK, clock, Now
    <2> QED
      BY <2>1, <2>2, <2>3, SetKept DEF Inv
  <1>g. ASSUME NEW p \in Procs, SetSec(p) PROVE Inv'
    <2> USE <1>0, <1>g DEF SetSec
    <2>1. TypeOK' /\ LocalOK'
      BY DEF TypeOK, LocalOK, device, Spoil
    <2>2. ReadInv' /\ ReadNear'
      BY DEF TypeOK, LocalOK, ReadInv, ReadNear, Spoil
    <2>3. Ahead' = tv_nsec
      BY DEF Ahead, Now, TypeOK
    <2>4. SetInv'
      BY <2>3, SettingCount DEF SetInv, TypeOK
    <2> QED
      BY <2>1, <2>2, <2>4 DEF Inv
  <1>h. ASSUME NEW p \in Procs, SetNsec(p) PROVE Inv'
    <2> USE <1>0, <1>h DEF SetNsec
    <2>1. TypeOK' /\ LocalOK'
      BY DEF TypeOK, LocalOK, device, Spoil
    <2>2. ReadInv' /\ ReadNear'
      BY DEF TypeOK, LocalOK, ReadInv, ReadNear, Spoil
    <2>3. Ahead' = Ahead - tv_nsec
      BY DEF Ahead, Now, TypeOK, LocalOK
    <2>4. p \in Setting /\ Setting' = Setting \ {p} /\ IsFiniteSet(Setting)
      BY FS_Subset DEF Setting, TypeOK
    <2>5. Cardinality(Setting') = Cardinality(Setting) - 1
      BY <2>4, FS_RemoveElement
    <2>6. SetInv'
      BY <2>3, <2>5, SettingCount DEF SetInv, TypeOK, LocalOK, Ahead, Now
    <2> QED
      BY <2>1, <2>2, <2>6 DEF Inv
  <1> QED
    BY <1>a, <1>b, <1>c, <1>d, <1>e, <1>f, <1>g, <1>h DEF Next

(***************************************************************************)
(* clock_gettime is never early and less than a second late, and the clock *)
(* runs on from what clock_settime made it, less than a second off for     *)
(* each process: for any HZ, any processes and any bounds.                 *)
(***************************************************************************)
THEOREM TimeNearHolds == ASSUME ClockAssumption PROVE Spec => []TimeNear
  <1>1. Inv => TimeNear
    <2> SUFFICES ASSUME Inv, \A p \in Procs : pc[p] # "sec"
                 PROVE  SetNear
      BY DEF Inv, TimeNear, SetNear
    <2>1. Cardinality(Setting) = 0
      BY FS_EmptySet DEF Setting
    <2>2. Ahead \in Int
      BY DEF Inv, TypeOK, LocalOK, Ahead, Now, ClockAssumption
    <2> QED
      BY <2>1, <2>2, SettingCount DEF Inv, SetInv, SetNear, Ahead, ClockAssumption
  <1>2. Init => Inv
    BY ClockInit
  <1>3. Inv /\ [Next]_vars => Inv'
    BY ClockStep
  <1> QED
    BY <1>1, <1>2, <1>3, PTL DEF Spec
=============================================================================
