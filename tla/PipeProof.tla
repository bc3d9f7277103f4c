----------------------------- MODULE PipeProof ------------------------------
(***************************************************************************)
(* The pipe's promises for any number of processes, any PIPESIZE, counters *)
(* of any width that PIPESIZE divides, and buffers of any length.          *)
(*                                                                         *)
(* PipeInv adds to PipeSound what the code relies on between its critical  *)
(* sections: nread and nwrite are at most PIPESIZE apart (RingInv), who is *)
(* in read() or write() has a descriptor for that end, who sleeps does so  *)
(* in the call that slept, and at most one process is on its way to close  *)
(* an end, which nobody has a descriptor for any more (CallInv).  That the *)
(* pipe is freed after its last use follows (FreedFollows).                *)
(***************************************************************************)
EXTENDS Pipe, FiniteSetTheorems, SequenceTheorems, TLAPS

M == 2^Width
Users(e) == {p \in Procs : e \in fds[p]}
Open(e) == IF e = "r" THEN readopen ELSE writeopen

RingInv == Used <= PIPESIZE

InCall ==
    \A p \in Procs :
        /\ pc[p] = "write" => "w" \in fds[p]
        /\ pc[p] = "read" => "r" \in fds[p]
        /\ chan[p] = "nwrite" => pc[p] = "write"
        /\ chan[p] = "nread" => pc[p] = "read"

Closing ==
    \A p \in Procs, e \in Ends :
        pc[p] = CloseLabel[e] => ref[e] = 0 /\ \A q \in Procs : pc[q] = CloseLabel[e] => q = p

CallInv ==
    /\ todo \in [Procs -> Seq(Bytes)]
    /\ freed <=> ~readopen /\ ~writeopen
    /\ InCall /\ Closing

PipeInv == TypeOK /\ RefsMatch /\ NoLostWakeup /\ RingInv /\ CallInv

-----------------------------------------------------------------------------
(* The counters *)

(***************************************************************************)
(* The counters have room for a full pipe.                                 *)
(***************************************************************************)
LEMMA MFact == M \in Nat /\ M > PIPESIZE /\ M % PIPESIZE = 0 /\ PIPESIZE \in Nat \ {0}
  <1>1. 2^Width \in Nat
    BY PipeAssumption
  <1> QED BY <1>1, PipeAssumption DEF M

(***************************************************************************)
(* One subtraction brings a sum of two values below M back below M.        *)
(***************************************************************************)
LEMMA Wrapped ==
    ASSUME NEW x \in 0..(2 * M - 1)
    PROVE  x % M = IF x < M THEN x ELSE x - M
  BY MFact

(***************************************************************************)
(* What the unsigned difference nwrite - nread says of the two counters.   *)
(***************************************************************************)
LEMMA UsedIs ==
    ASSUME TypeOK
    PROVE  /\ Used \in 0..(M - 1)
           /\ Used = IF nread <= nwrite THEN nwrite - nread ELSE nwrite + M - nread
           /\ Used = 0 <=> Empty
           /\ nwrite = inc(nread, Used)
  <1>1. nread \in 0..(M - 1) /\ nwrite \in 0..(M - 1)
    BY DEF TypeOK, M
  <1>2. nwrite + M - nread \in 0..(2 * M - 1)
    BY <1>1, MFact
  <1>3. Used = IF nwrite + M - nread < M THEN nwrite + M - nread ELSE nwrite + M - nread - M
    <2>1. Used = (nwrite + M - nread) % M
      BY DEF Used, M
    <2> QED BY <1>1, <1>2, <2>1, Wrapped, MFact
  <1>4. Used = IF nread <= nwrite THEN nwrite - nread ELSE nwrite + M - nread
    BY <1>1, <1>3, MFact
  <1>5. Used \in 0..(M - 1)
    BY <1>1, <1>4, MFact
  <1>6. Used = 0 <=> Empty
    BY <1>1, <1>4, MFact DEF Empty
  <1>7. nread + Used \in 0..(2 * M - 1)
    BY <1>1, <1>5, MFact
  <1>8. inc(nread, Used) = IF nread + Used < M THEN nread + Used ELSE nread + Used - M
    <2>1. inc(nread, Used) = (nread + Used) % M
      BY DEF inc, M
    <2> QED BY <1>1, <1>5, <1>7, <2>1, Wrapped, MFact
  <1>9. nwrite = inc(nread, Used)
    BY <1>1, <1>4, <1>8, MFact
  <1> QED BY <1>4, <1>5, <1>6, <1>9

(***************************************************************************)
(* Advancing a counter by less than M gives a counter.                     *)
(***************************************************************************)
LEMMA IncIs ==
    ASSUME NEW x \in 0..(M - 1), NEW k \in 0..(M - 1)
    PROVE  /\ inc(x, k) \in 0..(M - 1)
           /\ inc(x, k) = IF x + k < M THEN x + k ELSE x + k - M
  <1>1. x + k \in 0..(2 * M - 1)
    BY MFact
  <1>2. inc(x, k) = IF x + k < M THEN x + k ELSE x + k - M
    <2>1. inc(x, k) = (x + k) % M
      BY DEF inc, M
    <2> QED BY <1>1, <2>1, MFact
  <1> QED BY <1>2, MFact

(***************************************************************************)
(* Storing m bytes raises Used by m as long as it stays below M.           *)
(***************************************************************************)
LEMMA UsedWrite ==
    ASSUME TypeOK, NEW m \in Nat, Used + m < M, nread' = nread, nwrite' = inc(nwrite, m)
    PROVE  Used' = Used + m /\ nwrite' \in 0..(M - 1)
  <1>1. nread \in 0..(M - 1) /\ nwrite \in 0..(M - 1) /\ M \in Nat
    BY MFact DEF TypeOK, M
  <1>2. Used \in 0..(M - 1) /\ Used = IF nread <= nwrite THEN nwrite - nread ELSE nwrite + M - nread
    BY UsedIs
  <1>3. m \in 0..(M - 1)
    BY <1>1, <1>2
  <1>4. nwrite' \in 0..(M - 1) /\ nwrite' = IF nwrite + m < M THEN nwrite + m ELSE nwrite + m - M
    BY <1>1, <1>3, IncIs
  <1>5. nwrite' + M - nread \in 0..(2 * M - 1)
    BY <1>1, <1>4
  <1>6. Used' = IF nwrite' + M - nread < M THEN nwrite' + M - nread ELSE nwrite' + M - nread - M
    <2>1. Used' = (nwrite' + M - nread) % M
      BY DEF Used, M
    <2> QED BY <1>1, <1>4, <1>5, <2>1, MFact
  <1> QED BY <1>1, <1>2, <1>4, <1>6

(***************************************************************************)
(* Taking k of the stored bytes lowers Used by k.                          *)
(***************************************************************************)
LEMMA UsedRead ==
    ASSUME TypeOK, NEW k \in Nat, k <= Used, nread' = inc(nread, k), nwrite' = nwrite
    PROVE  Used' = Used - k /\ nread' \in 0..(M - 1)
  <1>1. nread \in 0..(M - 1) /\ nwrite \in 0..(M - 1) /\ M \in Nat
    BY MFact DEF TypeOK, M
  <1>2. Used \in 0..(M - 1) /\ Used = IF nread <= nwrite THEN nwrite - nread ELSE nwrite + M - nread
    BY UsedIs
  <1>3. k \in 0..(M - 1)
    BY <1>1, <1>2
  <1>4. nread' \in 0..(M - 1) /\ nread' = IF nread + k < M THEN nread + k ELSE nread + k - M
    BY <1>1, <1>3, IncIs
  <1>5. nwrite + M - nread' \in 0..(2 * M - 1)
    BY <1>1, <1>4
  <1>6. Used' = IF nwrite + M - nread' < M THEN nwrite + M - nread' ELSE nwrite + M - nread' - M
    <2>1. Used' = (nwrite + M - nread') % M
      BY DEF Used, M
    <2> QED BY <1>1, <1>4, <1>5, <2>1, Wrapped
  <1> QED BY <1>1, <1>2, <1>4, <1>6

-----------------------------------------------------------------------------
(* Descriptors and references *)

(***************************************************************************)
(* CloseLabel names the two ends apart.                                    *)
(***************************************************************************)
LEMMA Labels ==
    /\ CloseLabel["r"] = "closer" /\ CloseLabel["w"] = "closew"
    /\ \A e \in Ends : CloseLabel[e] \in {"closer", "closew"}
  BY DEF CloseLabel, Ends

(***************************************************************************)
(* The processes with a descriptor for an end are finitely many.           *)
(***************************************************************************)
LEMMA UsersFinite ==
    ASSUME NEW S \in SUBSET Procs
    PROVE  /\ IsFiniteSet(S) /\ Cardinality(S) \in Nat /\ Cardinality(Procs) \in Nat
           /\ Cardinality(S) <= Cardinality(Procs)
           /\ Cardinality(S) = 0 <=> S = {}
  BY PipeAssumption, FS_Subset, FS_EmptySet, FS_CardinalityType

(***************************************************************************)
(* An end that someone has a descriptor for is open, has a positive count  *)
(* and nobody is closing it.                                               *)
(***************************************************************************)
LEMMA Held ==
    ASSUME PipeInv, NEW p \in Procs, NEW e \in fds[p]
    PROVE  /\ e \in Ends /\ ref[e] \in Nat /\ ref[e] >= 1 /\ Open(e)
           /\ \A q \in Procs : pc[q] # CloseLabel[e]
  <1>1. e \in Ends
    BY DEF PipeInv, TypeOK
  <1>2. Users(e) # {} /\ Users(e) \in SUBSET Procs
    BY DEF Users
  <1>3. ref[e] = Cardinality(Users(e))
    BY <1>1 DEF PipeInv, RefsMatch, Users
  <1>4. ref[e] \in Nat /\ ref[e] >= 1
    BY <1>2, <1>3, UsersFinite
  <1>5. Open(e)
    <2>1. ref[e] > 0
      BY <1>4
    <2>2. (IF e = "r" THEN readopen ELSE writeopen) <=> (ref[e] > 0 \/ \E q \in Procs : pc[q] = CloseLabel[e])
      BY <1>1, Zenon DEF PipeInv, RefsMatch
    <2> QED BY <2>1, <2>2, Zenon DEF Open
  <1>6. \A q \in Procs : pc[q] # CloseLabel[e]
    BY <1>1, <1>4 DEF PipeInv, CallInv, Closing
  <1> QED BY <1>1, <1>4, <1>5, <1>6

(***************************************************************************)
(* kfree(pi) comes last because both ends must be closed for it.           *)
(***************************************************************************)
LEMMA FreedFollows ==
    TypeOK /\ RefsMatch /\ CallInv => FreedUnused
  <1> SUFFICES ASSUME TypeOK, RefsMatch, CallInv, freed, NEW p \in Procs
               PROVE  pc[p] = "user" /\ fds[p] = {}
    BY DEF FreedUnused
  <1>1. ~readopen /\ ~writeopen
    BY DEF CallInv
  <1>2. \A e \in Ends : ~(ref[e] > 0) /\ \A q \in Procs : pc[q] # CloseLabel[e]
    BY <1>1 DEF RefsMatch, Ends
  <1>3. \A e \in Ends : Users(e) = {}
    <2> SUFFICES ASSUME NEW e \in Ends PROVE Users(e) = {}
      OBVIOUS
    <2>1. ref[e] = Cardinality(Users(e)) /\ Users(e) \in SUBSET Procs
      BY DEF RefsMatch, Users
    <2> QED BY <1>2, <2>1, UsersFinite
  <1>4. fds[p] = {}
    BY <1>3 DEF TypeOK, Users
  <1>5. pc[p] \notin {"closer", "closew", "read", "write"}
    BY <1>2, <1>4, Labels DEF CallInv, InCall, Ends
  <1> QED BY <1>4, <1>5 DEF TypeOK

(***************************************************************************)
(* RefsMatch and Closing depend on a process only through its descriptors  *)
(* and whether it is closing an end.                                       *)
(***************************************************************************)
LEMMA RefsKept ==
    ASSUME RefsMatch, Closing, UNCHANGED <<ref, fds, readopen, writeopen>>,
           \A q \in Procs : pc[q] \in {"closer", "closew"} \/ pc'[q] \in {"closer", "closew"} => pc'[q] = pc[q]
    PROVE  RefsMatch' /\ Closing'
  <1>1. \A e \in Ends, q \in Procs : pc'[q] = CloseLabel[e] <=> pc[q] = CloseLabel[e]
    BY Labels
  <1>2. Closing'
    BY <1>1 DEF Closing, CloseLabel
  <1> SUFFICES ASSUME NEW e \in Ends
               PROVE  /\ ref'[e] = Cardinality({p \in Procs : e \in fds'[p]})
                      /\ (IF e = "r" THEN readopen' ELSE writeopen') <=>
                            (ref'[e] > 0 \/ \E p \in Procs : pc'[p] = CloseLabel[e])
    BY <1>2 DEF RefsMatch, CloseLabel
  <1> QED BY <1>1 DEF RefsMatch

-----------------------------------------------------------------------------
(* The invariant, action by action *)

(***************************************************************************)
(* pipealloc() establishes it.                                             *)
(***************************************************************************)
LEMMA PipeInit == Init => PipeInv
  <1> SUFFICES ASSUME Init PROVE PipeInv
    OBVIOUS
  <1>1. PICK p \in Procs : fds = [q \in Procs |-> IF q = p THEN Ends ELSE {}]
    BY DEF Init
  <1>2. Cardinality({p}) = 1 /\ Cardinality(Procs) \in Nat /\ 1 <= Cardinality(Procs)
    BY UsersFinite, FS_Singleton
  <1>3. TypeOK
    <2>1. data \in [0..(PIPESIZE - 1) -> Bytes]
      BY PipeAssumption DEF Init
    <2>2. nread \in 0..(2^Width - 1) /\ nwrite \in 0..(2^Width - 1)
      BY MFact DEF Init, M
    <2>3. ref \in [Ends -> 0..Cardinality(Procs)]
      BY <1>2 DEF Init
    <2>4. room \in [Procs -> 0..MaxLen] /\ \A q \in Procs : Len(todo[q]) <= MaxLen
      BY PipeAssumption DEF Init
    <2> QED BY <1>1, <2>1, <2>2, <2>3, <2>4 DEF Init, TypeOK
  <1>4. RefsMatch
    <2> SUFFICES ASSUME NEW e \in Ends
                 PROVE  /\ ref[e] = Cardinality({q \in Procs : e \in fds[q]})
                        /\ (IF e = "r" THEN readopen ELSE writeopen) <=>
                              (ref[e] > 0 \/ \E q \in Procs : pc[q] = CloseLabel[e])
      BY DEF RefsMatch
    <2>1. {q \in Procs : e \in fds[q]} = {p}
      BY <1>1
    <2>2. ref[e] = 1 /\ ref[e] > 0 /\ readopen /\ writeopen
      BY DEF Init
    <2> QED BY <1>2, <2>1, <2>2, Zenon
  <1>5. Used = 0
    BY <1>3, UsedIs DEF Init, Empty
  <1>6. NoLostWakeup /\ RingInv
    BY <1>5, PipeAssumption DEF Init, NoLostWakeup, RingInv
  <1>7. CallInv
    <2>1. InCall /\ Closing
      BY Labels DEF Init, InCall, Closing
    <2> QED BY <2>1 DEF Init, CallInv
  <1> QED BY <1>3, <1>4, <1>6, <1>7 DEF PipeInv

(***************************************************************************)
(* What an action keeps that leaves the pipe, its files and the waiting    *)
(* processes alone, except for waking some.                                *)
(***************************************************************************)
LEMMA RingKept ==
    ASSUME NoLostWakeup, RingInv, UNCHANGED <<nread, nwrite, readopen, writeopen>>,
           \A q \in Procs : chan'[q] = "none" \/ chan'[q] = chan[q]
    PROVE  NoLostWakeup' /\ RingInv'
  <1>1. Used' = Used /\ Space' = Space /\ Empty' = Empty
    BY DEF Used, Space, Empty
  <1> QED BY <1>1 DEF NoLostWakeup, RingInv

(***************************************************************************)
(* A call enters the kernel with a descriptor for its end.                 *)
(***************************************************************************)
LEMMA CallStep ==
    ASSUME PipeInv, NEW p \in Procs, CallWrite(p) \/ CallRead(p)
    PROVE  PipeInv'
  <1> USE DEF CallWrite, CallRead, Idle, Goto, pipeVars
  <1>1. PICK l \in {"write", "read"} :
          /\ pc' = [pc EXCEPT ![p] = l] /\ pc[p] = "user"
          /\ l = "write" => "w" \in fds[p]
          /\ l = "read" => "r" \in fds[p]
    OBVIOUS
  <1>2. todo' \in [Procs -> Seq(Bytes)] /\ \A q \in Procs : Len(todo'[q]) <= MaxLen
    <2>1. CASE CallWrite(p)
      <3>1. PICK n \in 0..MaxLen : \E s \in [1..n -> Bytes] : todo' = [todo EXCEPT ![p] = s]
        BY <2>1
      <3>2. PICK s \in [1..n -> Bytes] : todo' = [todo EXCEPT ![p] = s]
        BY <3>1
      <3>3. s \in Seq(Bytes) /\ Len(s) = n
        BY <3>2, PipeAssumption
      <3> QED BY <3>1, <3>2, <3>3 DEF PipeInv, TypeOK, CallInv
    <2>2. CASE CallRead(p)
      BY <2>2 DEF PipeInv, TypeOK, CallInv
    <2> QED BY <2>1, <2>2
  <1>3. TypeOK'
    <2>1. room' \in [Procs -> 0..MaxLen]
      BY DEF PipeInv, TypeOK
    <2>2. fault' \in [Procs -> BOOLEAN]
      BY DEF PipeInv, TypeOK
    <2> QED BY <1>1, <1>2, <2>1, <2>2 DEF PipeInv, TypeOK
  <1>4. RefsMatch' /\ Closing'
    BY <1>1, RefsKept DEF PipeInv, TypeOK, CallInv
  <1>5. NoLostWakeup' /\ RingInv'
    BY RingKept DEF PipeInv
  <1>6. CallInv'
    <2>1. InCall'
      BY <1>1 DEF PipeInv, TypeOK, CallInv, InCall
    <2> QED BY <1>2, <1>4, <2>1 DEF PipeInv, CallInv
  <1> QED BY <1>3, <1>4, <1>5, <1>6 DEF PipeInv

(***************************************************************************)
(* A call that returns leaves nothing behind.                              *)
(***************************************************************************)
LEMMA ReturnTypes ==
    ASSUME PipeInv, NEW p \in Procs, Return(p)
    PROVE  /\ pc' \in [Procs -> {"user", "write", "read", "closer", "closew"}]
           /\ todo' \in [Procs -> Seq(Bytes)] /\ \A q \in Procs : Len(todo'[q]) <= MaxLen
           /\ room' \in [Procs -> 0..MaxLen] /\ fault' \in [Procs -> BOOLEAN]
  <1>1. <<>> \in Seq(Bytes) /\ Len(<<>>) = 0 /\ 0 \in 0..MaxLen
    BY PipeAssumption
  <1> QED BY <1>1, PipeAssumption DEF PipeInv, TypeOK, CallInv, Return, Goto

(***************************************************************************)
(* A write to a pipe without readers, or of a killed process, fails.       *)
(***************************************************************************)
LEMMA WriteFailStep ==
    ASSUME PipeInv, NEW p \in Procs, WriteFail(p)
    PROVE  PipeInv'
  <1> USE DEF WriteFail, Awake, pipeVars
  <1>1. pc' = [pc EXCEPT ![p] = "user"] /\ pc[p] = "write" /\ chan[p] = "none"
    BY DEF Return, Goto
  <1>2. TypeOK' /\ todo' \in [Procs -> Seq(Bytes)]
    BY ReturnTypes DEF PipeInv, TypeOK
  <1>3. RefsMatch' /\ Closing'
    BY <1>1, RefsKept DEF PipeInv, TypeOK, CallInv
  <1>4. NoLostWakeup' /\ RingInv'
    BY RingKept DEF PipeInv
  <1>5. InCall'
    BY <1>1 DEF PipeInv, TypeOK, CallInv, InCall
  <1> QED BY <1>2, <1>3, <1>4, <1>5 DEF PipeInv, CallInv

(***************************************************************************)
(* A reader goes to sleep on an empty pipe with the write end open.        *)
(***************************************************************************)
LEMMA ReadWaitStep ==
    ASSUME PipeInv, NEW p \in Procs, ReadWait(p)
    PROVE  PipeInv'
  <1> USE DEF ReadWait, Awake, pipeVars
  <1>1. CASE killed[p]
    <2>1. pc' = [pc EXCEPT ![p] = "user"] /\ pc[p] = "read" /\ chan[p] = "none" /\ chan' = chan /\ Return(p)
      BY <1>1 DEF Return, Goto
    <2>2. TypeOK' /\ todo' \in [Procs -> Seq(Bytes)]
      BY <2>1, ReturnTypes DEF PipeInv, TypeOK
    <2>3. RefsMatch' /\ Closing'
      BY <2>1, RefsKept DEF PipeInv, TypeOK, CallInv
    <2>4. NoLostWakeup' /\ RingInv'
      BY <2>1, RingKept DEF PipeInv
    <2>5. InCall'
      BY <2>1 DEF PipeInv, TypeOK, CallInv, InCall
    <2> QED BY <2>2, <2>3, <2>4, <2>5 DEF PipeInv, CallInv
  <1>2. CASE ~killed[p]
    <2>1. chan' = [chan EXCEPT ![p] = "nread"] /\ UNCHANGED <<pc, todo, room, fault>>
      BY <1>2
    <2>2. TypeOK' /\ todo' \in [Procs -> Seq(Bytes)]
      BY <2>1 DEF PipeInv, TypeOK, CallInv
    <2>3. RefsMatch' /\ Closing'
      BY <2>1, RefsKept DEF PipeInv, CallInv
    <2>4. RingInv' /\ Empty' = Empty /\ Space' = Space
      BY DEF PipeInv, RingInv, Used, Space, Empty
    <2>5. NoLostWakeup'
      BY <2>1, <2>4 DEF PipeInv, TypeOK, NoLostWakeup
    <2>6. InCall'
      BY <2>1 DEF PipeInv, TypeOK, CallInv, InCall
    <2> QED BY <2>2, <2>3, <2>4, <2>5, <2>6 DEF PipeInv, CallInv
  <1> QED BY <1>1, <1>2

(***************************************************************************)
(* A signal may wake its process, which then looks at the pipe again.      *)
(***************************************************************************)
LEMMA SignalStep ==
    ASSUME PipeInv, NEW p \in Procs, Signal(p)
    PROVE  PipeInv'
  <1> USE DEF Signal, pipeVars
  <1>1. \A q \in Procs : chan'[q] = "none" \/ chan'[q] = chan[q]
    BY DEF PipeInv, TypeOK
  <1>2. TypeOK' /\ todo' \in [Procs -> Seq(Bytes)]
    BY DEF PipeInv, TypeOK, CallInv
  <1>3. RefsMatch' /\ Closing'
    BY RefsKept DEF PipeInv, CallInv
  <1>4. NoLostWakeup' /\ RingInv'
    BY <1>1, RingKept DEF PipeInv
  <1>5. InCall'
    BY <1>1 DEF PipeInv, CallInv, InCall
  <1> QED BY <1>2, <1>3, <1>4, <1>5 DEF PipeInv, CallInv

(***************************************************************************)
(* pipeclose() wakes the side that waits for the one that closes.          *)
(***************************************************************************)
LEMMA CloseStep ==
    ASSUME PipeInv, NEW p \in Procs, pipeclose(p)
    PROVE  PipeInv'
  <1> DEFINE w == pc[p] = "closew"
  <1>1. /\ pc[p] \in {"closer", "closew"} /\ pc' = [pc EXCEPT ![p] = "user"]
        /\ UNCHANGED <<data, nread, nwrite, ref, fds, todo, room, fault, killed>>
    BY DEF pipeclose, Goto
  <1>2. /\ writeopen' = (writeopen /\ ~w) /\ readopen' = (readopen /\ w)
        /\ freed' = (freed \/ (~readopen' /\ ~writeopen'))
    BY DEF pipeclose, LastClose
  <1>3. chan' = [q \in Procs |-> IF chan[q] = (IF w THEN "nread" ELSE "nwrite") THEN "none" ELSE chan[q]]
    BY DEF pipeclose, wakeup, CloseWakes
  <1>4. TypeOK' /\ todo' \in [Procs -> Seq(Bytes)]
    <2>1. writeopen' \in BOOLEAN /\ readopen' \in BOOLEAN /\ freed' \in BOOLEAN
      BY <1>2
    <2>2. chan' \in [Procs -> {"none", "nread", "nwrite"}]
      BY <1>3 DEF PipeInv, TypeOK
    <2> QED BY <1>1, <2>1, <2>2 DEF PipeInv, TypeOK, CallInv
  <1>5. PICK e \in Ends : pc[p] = CloseLabel[e] /\ (w <=> e = "w")
    BY <1>1, Labels DEF Ends
  <1>6. /\ ref[e] = 0
        /\ \A q \in Procs : pc'[q] # CloseLabel[e]
        /\ \A d \in Ends : d # e => \A q \in Procs : pc'[q] = CloseLabel[d] <=> pc[q] = CloseLabel[d]
    BY <1>1, <1>5, Labels DEF PipeInv, TypeOK, CallInv, Closing, Ends
  <1>7. RefsMatch'
    <2> SUFFICES ASSUME NEW d \in Ends
                 PROVE  /\ ref'[d] = Cardinality({q \in Procs : d \in fds'[q]})
                        /\ (IF d = "r" THEN readopen' ELSE writeopen') <=>
                              (ref'[d] > 0 \/ \E q \in Procs : pc'[q] = CloseLabel[d])
      BY DEF RefsMatch, CloseLabel
    <2>1. ref'[d] = Cardinality({q \in Procs : d \in fds'[q]})
      BY <1>1 DEF PipeInv, RefsMatch
    <2>2. CASE d = e
      <3>1. ~(IF d = "r" THEN readopen' ELSE writeopen')
        BY <1>2, <1>5, <2>2 DEF Ends
      <3>2. ~(ref'[d] > 0)
        BY <1>1, <1>6, <2>2
      <3> QED BY <1>6, <2>1, <2>2, <3>1, <3>2
    <2>3. CASE d # e
      <3>1. (IF d = "r" THEN readopen' ELSE writeopen') <=> (IF d = "r" THEN readopen ELSE writeopen)
        BY <1>2, <1>5, <2>3 DEF Ends, PipeInv, TypeOK
      <3>2. (IF d = "r" THEN readopen ELSE writeopen) <=> (ref[d] > 0 \/ \E q \in Procs : pc[q] = CloseLabel[d])
        BY Zenon DEF PipeInv, RefsMatch
      <3>3. ref'[d] = ref[d]
        BY <1>1
      <3>4. (\E q \in Procs : pc'[q] = CloseLabel[d]) <=> (\E q \in Procs : pc[q] = CloseLabel[d])
        BY <1>6, <2>3
      <3> QED BY <2>1, <3>1, <3>2, <3>3, <3>4
    <2> QED BY <2>2, <2>3
  <1>8. Closing'
    BY <1>1, <1>6 DEF PipeInv, CallInv, Closing, CloseLabel
  <1>9. InCall'
    BY <1>1, <1>3 DEF PipeInv, TypeOK, CallInv, InCall
  <1>10. NoLostWakeup' /\ RingInv'
    <2>1. RingInv' /\ Empty' = Empty /\ Space' = Space
      BY <1>1 DEF PipeInv, RingInv, Used, Space, Empty
    <2>2. CASE w
      BY <1>2, <1>3, <2>1, <2>2 DEF PipeInv, TypeOK, NoLostWakeup
    <2>3. CASE ~w
      BY <1>2, <1>3, <2>1, <2>3 DEF PipeInv, TypeOK, NoLostWakeup
    <2> QED BY <2>1, <2>2, <2>3
  <1>11. freed' <=> ~readopen' /\ ~writeopen'
    BY <1>2 DEF PipeInv, CallInv
  <1> QED BY <1>4, <1>7, <1>8, <1>9, <1>10, <1>11 DEF PipeInv, CallInv

(***************************************************************************)
(* fileclose() of the last descriptor for an end makes its process the one *)
(* that closes the end.                                                    *)
(***************************************************************************)
LEMMA FileCloseStep ==
    ASSUME PipeInv, NEW p \in Procs, fileclose(p)
    PROVE  PipeInv'
  <1>1. PICK e \in fds[p] :
          /\ fds' = [fds EXCEPT ![p] = @ \ {e}] /\ ref' = [ref EXCEPT ![e] = @ - 1]
          /\ IF ref[e] > 1 THEN UNCHANGED pc ELSE Goto(p, CloseLabel[e])
    BY DEF fileclose
  <1>2. pc[p] = "user" /\ UNCHANGED <<data, nread, nwrite, readopen, writeopen, freed, chan, todo, room, fault, killed>>
    BY DEF fileclose, Idle, pipeVars
  <1>3. e \in Ends /\ ref[e] \in Nat /\ ref[e] >= 1 /\ Open(e) /\ \A q \in Procs : pc[q] # CloseLabel[e]
    BY Held
  <1>4. \A d \in Ends : ref'[d] = Cardinality({q \in Procs : d \in fds'[q]})
    <2> SUFFICES ASSUME NEW d \in Ends PROVE ref'[d] = Cardinality(Users(d)')
      BY DEF Users
    <2>1. ref[d] = Cardinality(Users(d)) /\ Users(d) \in SUBSET Procs
      BY DEF PipeInv, RefsMatch, Users
    <2>2. CASE d = e
      <3>1. Users(d)' = Users(d) \ {p} /\ p \in Users(d)
        BY <1>1, <2>2 DEF PipeInv, TypeOK, Users
      <3>2. Cardinality(Users(d) \ {p}) = Cardinality(Users(d)) - 1
        BY <2>1, <3>1, UsersFinite, FS_RemoveElement
      <3> QED BY <1>1, <2>1, <2>2, <3>1, <3>2 DEF PipeInv, TypeOK
    <2>3. CASE d # e
      <3>1. Users(d)' = Users(d)
        BY <1>1, <2>3 DEF PipeInv, TypeOK, Users
      <3> QED BY <1>1, <2>1, <2>3, <3>1 DEF PipeInv, TypeOK
    <2> QED BY <2>2, <2>3
  <1>5. pc' \in [Procs -> {"user", "write", "read", "closer", "closew"}]
    <2>1. pc' = pc \/ pc' = [pc EXCEPT ![p] = CloseLabel[e]]
      BY <1>1 DEF Goto
    <2>2. CloseLabel[e] \in {"closer", "closew"}
      BY <1>3, Labels
    <2> QED BY <2>1, <2>2 DEF PipeInv, TypeOK
  <1>6. TypeOK'
    <2>1. ref' \in [Ends -> 0..Cardinality(Procs)]
      <3>1. ref[e] \in 0..Cardinality(Procs) /\ Cardinality(Procs) \in Nat
        BY <1>3, UsersFinite DEF PipeInv, TypeOK
      <3> QED BY <1>1, <1>3, <3>1 DEF PipeInv, TypeOK
    <2>2. fds' \in [Procs -> SUBSET Ends]
      BY <1>1 DEF PipeInv, TypeOK
    <2> QED BY <1>2, <1>5, <2>1, <2>2 DEF PipeInv, TypeOK
  <1>7. /\ ref'[e] = ref[e] - 1
        /\ \A d \in Ends : d # e => /\ ref'[d] = ref[d]
                                    /\ \A q \in Procs : pc'[q] = CloseLabel[d] <=> pc[q] = CloseLabel[d]
    BY <1>1, <1>2, <1>3, Labels DEF PipeInv, TypeOK, Goto, Ends
  <1>8. \A q \in Procs : pc'[q] = CloseLabel[e] <=> q = p /\ ref[e] = 1
    BY <1>1, <1>2, <1>3, Labels DEF PipeInv, TypeOK, Goto
  <1>last. /\ ref'[e] > 0 \/ pc'[p] = CloseLabel[e]
           /\ \A q \in Procs : pc'[q] = CloseLabel[e] => q = p /\ ref'[e] = 0
    <2>1. ref[e] \in Nat /\ ref[e] >= 1 /\ ref'[e] = ref[e] - 1
      BY <1>3, <1>7
    <2> QED BY <1>8, <2>1
  <1>9. RefsMatch'
    <2> SUFFICES ASSUME NEW d \in Ends
                 PROVE  (IF d = "r" THEN readopen' ELSE writeopen') <=>
                              (ref'[d] > 0 \/ \E q \in Procs : pc'[q] = CloseLabel[d])
      BY <1>4 DEF RefsMatch, CloseLabel
    <2>1. CASE d = e
      <3>1. ref'[d] > 0 \/ \E q \in Procs : pc'[q] = CloseLabel[d]
        BY <1>last, <2>1, Zenon
      <3>2. IF d = "r" THEN readopen' ELSE writeopen'
        BY <1>2, <1>3, <2>1 DEF Open
      <3> QED BY <3>1, <3>2, Zenon
    <2>2. CASE d # e
      <3>1. (IF d = "r" THEN readopen ELSE writeopen) <=> (ref[d] > 0 \/ \E q \in Procs : pc[q] = CloseLabel[d])
        BY Zenon DEF PipeInv, RefsMatch
      <3>2. (\E q \in Procs : pc'[q] = CloseLabel[d]) <=> (\E q \in Procs : pc[q] = CloseLabel[d])
        BY <1>7, <2>2
      <3> QED BY <1>2, <1>7, <2>2, <3>1, <3>2
    <2> QED BY <2>1, <2>2
  <1>10. Closing'
    <2> SUFFICES ASSUME NEW r \in Procs, NEW d \in Ends, pc'[r] = CloseLabel[d]
                 PROVE  ref'[d] = 0 /\ \A q \in Procs : pc'[q] = CloseLabel[d] => q = r
      BY DEF Closing, CloseLabel
    <2>1. CASE d = e
      BY <1>last, <2>1, Zenon
    <2>2. CASE d # e
      <3>1. pc[r] = CloseLabel[d] /\ ref'[d] = ref[d]
        BY <1>7, <2>2
      <3>2. ref[d] = 0 /\ \A q \in Procs : pc[q] = CloseLabel[d] => q = r
        BY <3>1 DEF PipeInv, CallInv, Closing
      <3> QED BY <1>7, <2>2, <3>1, <3>2
    <2> QED BY <2>1, <2>2
  <1>11. InCall'
    <2>1. \A q \in Procs : q # p => pc'[q] = pc[q] /\ fds'[q] = fds[q]
      BY <1>1 DEF PipeInv, TypeOK, Goto
    <2>2. pc'[p] \notin {"read", "write"} /\ chan'[p] = chan[p]
      BY <1>1, <1>2, <1>3, Labels DEF PipeInv, TypeOK, Goto
    <2> QED BY <1>2, <2>1, <2>2 DEF PipeInv, TypeOK, CallInv, InCall
  <1>12. NoLostWakeup' /\ RingInv'
    BY <1>2, RingKept DEF PipeInv
  <1> QED BY <1>2, <1>6, <1>9, <1>10, <1>11, <1>12 DEF PipeInv, CallInv

(***************************************************************************)
(* fork() adds a reference for each descriptor of the parent.              *)
(***************************************************************************)
LEMMA ForkStep ==
    ASSUME PipeInv, NEW p \in Procs, NEW c \in Procs \ {p}, ForkDup(p, c)
    PROVE  PipeInv'
  <1>1. /\ fds' = [fds EXCEPT ![c] = fds[p]] /\ ref' = DupRefs(p) /\ fds[c] = {}
        /\ pc[p] = "user" /\ pc[c] = "user" /\ killed' = [killed EXCEPT ![c] = FALSE]
        /\ UNCHANGED <<data, nread, nwrite, readopen, writeopen, freed, pc, chan, todo, room, fault>>
    BY DEF ForkDup, Idle, pipeVars
  <1>2. \A d \in Ends : ref'[d] = Cardinality({q \in Procs : d \in fds'[q]}) /\ ref'[d] \in 0..Cardinality(Procs)
    <2> SUFFICES ASSUME NEW d \in Ends
                 PROVE  ref'[d] = Cardinality(Users(d)') /\ ref'[d] \in 0..Cardinality(Procs)
      BY DEF Users
    <2>1. ref[d] = Cardinality(Users(d)) /\ Users(d) \in SUBSET Procs
      BY DEF PipeInv, RefsMatch, Users
    <2>2. ref'[d] = IF d \in fds[p] THEN ref[d] + 1 ELSE ref[d]
      BY <1>1 DEF DupRefs
    <2>3. ref'[d] = Cardinality(Users(d)')
      <3>1. CASE d \in fds[p]
        <4>1. Users(d)' = Users(d) \cup {c} /\ c \notin Users(d)
          BY <1>1, <3>1 DEF PipeInv, TypeOK, Users
        <4>2. Cardinality(Users(d) \cup {c}) = Cardinality(Users(d)) + 1
          BY <2>1, <4>1, UsersFinite, FS_AddElement
        <4> QED BY <2>1, <2>2, <3>1, <4>1, <4>2
      <3>2. CASE d \notin fds[p]
        <4>1. Users(d)' = Users(d)
          BY <1>1, <3>2 DEF PipeInv, TypeOK, Users
        <4> QED BY <2>1, <2>2, <3>2, <4>1
      <3> QED BY <3>1, <3>2
    <2>4. Users(d)' \in SUBSET Procs
      BY DEF Users
    <2> QED BY <2>3, <2>4, UsersFinite
  <1>3. TypeOK'
    <2>1. ref' \in [Ends -> 0..Cardinality(Procs)]
      BY <1>1, <1>2 DEF DupRefs
    <2>2. fds' \in [Procs -> SUBSET Ends]
      BY <1>1 DEF PipeInv, TypeOK
    <2> QED BY <1>1, <2>1, <2>2 DEF PipeInv, TypeOK
  <1>4. \A d \in Ends : ref'[d] # ref[d] =>
          ref'[d] > 0 /\ ref[d] > 0 /\ \A q \in Procs : pc[q] # CloseLabel[d]
    <2> SUFFICES ASSUME NEW d \in Ends, d \in fds[p]
                 PROVE  ref'[d] > 0 /\ ref[d] > 0 /\ \A q \in Procs : pc[q] # CloseLabel[d]
      BY <1>1 DEF DupRefs
    <2>1. ref[d] \in Nat /\ ref[d] >= 1 /\ \A q \in Procs : pc[q] # CloseLabel[d]
      BY Held
    <2> QED BY <1>1, <2>1 DEF DupRefs
  <1>5. RefsMatch'
    <2> SUFFICES ASSUME NEW d \in Ends
                 PROVE  (IF d = "r" THEN readopen' ELSE writeopen') <=>
                              (ref'[d] > 0 \/ \E q \in Procs : pc'[q] = CloseLabel[d])
      BY <1>2 DEF RefsMatch, CloseLabel
    <2>1. (IF d = "r" THEN readopen ELSE writeopen) <=> (ref[d] > 0 \/ \E q \in Procs : pc[q] = CloseLabel[d])
      BY Zenon DEF PipeInv, RefsMatch
    <2> QED BY <1>1, <1>4, <2>1
  <1>6. Closing'
    BY <1>1, <1>4 DEF PipeInv, CallInv, Closing, CloseLabel
  <1>7. InCall'
    BY <1>1 DEF PipeInv, TypeOK, CallInv, InCall
  <1>8. NoLostWakeup' /\ RingInv'
    BY <1>1, RingKept DEF PipeInv
  <1> QED BY <1>1, <1>3, <1>5, <1>6, <1>7, <1>8 DEF PipeInv, CallInv

-----------------------------------------------------------------------------
(* The ring: slot(x, k) is the index of data[] for the k-th byte after x *)

slot(x, k) == inc(x, k) % PIPESIZE

(***************************************************************************)
(* Quotient and remainder.                                                 *)
(***************************************************************************)
LEMMA DivMod ==
    ASSUME NEW a \in Int, NEW d \in Nat \ {0}
    PROVE  a = (a \div d) * d + (a % d) /\ a % d \in 0..(d - 1) /\ a \div d \in Int
  OBVIOUS

(***************************************************************************)
(* They are the only ones.                                                 *)
(***************************************************************************)
LEMMA DivModUnique ==
    ASSUME NEW a \in Int, NEW c \in Int, NEW d \in Nat \ {0}, NEW r \in 0..(d - 1), a = c * d + r
    PROVE  a % d = r
  OBVIOUS

(***************************************************************************)
(* A counter that wraps still names the slot it would name if it did not.  *)
(***************************************************************************)
LEMMA WrapKeepsSlot ==
    ASSUME NEW x \in Nat
    PROVE  (x % M) % PIPESIZE = x % PIPESIZE
  <1> DEFINE k == M \div PIPESIZE
             i == x \div M
             y == x % M
             j == y \div PIPESIZE
             r == y % PIPESIZE
  <1>1. M = k * PIPESIZE /\ k \in Int
    BY MFact, DivMod
  <1>2. x = i * M + y /\ i \in Int /\ y \in Int
    BY MFact, DivMod
  <1>3. y = j * PIPESIZE + r /\ j \in Int /\ r \in 0..(PIPESIZE - 1)
    BY <1>2, MFact, DivMod
  <1> HIDE DEF k, i, y, j, r
  <1>4. x = (i * k + j) * PIPESIZE + r
    BY <1>1, <1>2, <1>3, MFact
  <1>5. x % PIPESIZE = r
    BY <1>4, <1>1, <1>2, <1>3, MFact, DivModUnique
  <1> QED BY <1>5 DEF r, y

(***************************************************************************)
(* A slot is an index of data[], and the wrap of the counter does not      *)
(* change it.                                                              *)
(***************************************************************************)
LEMMA SlotIs ==
    ASSUME NEW x \in Nat, NEW k \in Nat
    PROVE  slot(x, k) = (x + k) % PIPESIZE /\ slot(x, k) \in 0..(PIPESIZE - 1)
  <1>1. slot(x, k) = ((x + k) % M) % PIPESIZE
    BY DEF slot, inc, M
  <1>2. x + k \in Nat /\ PIPESIZE \in Nat \ {0}
    BY MFact
  <1>3. slot(x, k) = (x + k) % PIPESIZE
    BY <1>1, <1>2, WrapKeepsSlot
  <1> HIDE DEF slot
  <1> QED BY <1>2, <1>3, DivMod

(***************************************************************************)
(* PIPESIZE bytes in a row are in different slots.                         *)
(***************************************************************************)
LEMMA SlotsApart ==
    ASSUME NEW x \in Nat, NEW a \in Nat, NEW b \in Nat, a < b, b < a + PIPESIZE
    PROVE  slot(x, a) # slot(x, b)
  <1> SUFFICES ASSUME slot(x, a) = slot(x, b) PROVE FALSE
    OBVIOUS
  <1> DEFINE u == x + a
             v == x + b
  <1>1. u \in Int /\ v \in Int /\ PIPESIZE \in Nat \ {0}
    BY MFact
  <1>2. v % PIPESIZE = u % PIPESIZE
    BY SlotIs
  <1>3. v - u = b - a
    OBVIOUS
  <1> HIDE DEF u, v
  <1> DEFINE i == u \div PIPESIZE
             j == v \div PIPESIZE
             r == u % PIPESIZE
  <1>4. u = i * PIPESIZE + r /\ i \in Int /\ r \in 0..(PIPESIZE - 1)
    BY <1>1, DivMod
  <1>5. v = j * PIPESIZE + r /\ j \in Int
    BY <1>1, <1>2, DivMod
  <1> HIDE DEF i, j, r
  <1>6. b - a = (j - i) * PIPESIZE
    BY <1>1, <1>3, <1>4, <1>5
  <1> QED BY <1>1, <1>4, <1>5, <1>6

(***************************************************************************)
(* pipewrite()'s loop: the bytes of s are in the slots from nwrite on, in  *)
(* order, and the others are as they were.                                 *)
(***************************************************************************)
LEMMA StoredAt ==
    ASSUME TypeOK, NEW s \in Seq(Bytes), Len(s) <= PIPESIZE
    PROVE  /\ Stored(s) \in [0..(PIPESIZE - 1) -> Bytes]
           /\ \A j \in 1..Len(s) : Stored(s)[slot(nwrite, j - 1)] = s[j]
           /\ \A k \in 0..(PIPESIZE - 1) :
                 (\A j \in 1..Len(s) : slot(nwrite, j - 1) # k) => Stored(s)[k] = data[k]
  <1> DEFINE Hit(j, k) == slot(nwrite, j - 1) = k
             Last(j, k) == Hit(j, k) /\ \A i \in (j + 1)..Len(s) : ~Hit(i, k)
  <1>1. nwrite \in Nat /\ Len(s) \in Nat /\ PIPESIZE \in Nat
    BY MFact DEF TypeOK, M
  <1>2. Stored(s) = [k \in 0..(PIPESIZE - 1) |->
                       IF \E j \in 1..Len(s) : Hit(j, k)
                       THEN s[CHOOSE j \in 1..Len(s) : Last(j, k)] ELSE data[k]]
    BY Zenon DEF Stored, slot
  <1>3. ASSUME NEW i \in 1..Len(s), NEW j \in 1..Len(s), i # j
        PROVE  slot(nwrite, i - 1) # slot(nwrite, j - 1)
    <2>1. i - 1 \in Nat /\ j - 1 \in Nat
      BY <1>1
    <2>2. CASE i < j
      <3>1. i - 1 < j - 1 /\ j - 1 < (i - 1) + PIPESIZE
        BY <1>1, <2>2
      <3> QED BY <1>1, <2>1, <3>1, SlotsApart
    <2>3. CASE j < i
      <3>1. j - 1 < i - 1 /\ i - 1 < (j - 1) + PIPESIZE
        BY <1>1, <2>3
      <3> QED BY <1>1, <2>1, <3>1, SlotsApart
    <2> QED BY <1>1, <1>3, <2>2, <2>3
  <1>4. ASSUME NEW j \in 1..Len(s), NEW k, Hit(j, k)
        PROVE  (CHOOSE i \in 1..Len(s) : Last(i, k)) = j
    <2>1. \A i \in 1..Len(s) : Hit(i, k) => i = j
      BY <1>3, <1>4
    <2>2. \A i \in (j + 1)..Len(s) : i \in 1..Len(s) /\ i # j
      BY <1>1
    <2>3. Last(j, k)
      BY <1>4, <2>1, <2>2
    <2> HIDE DEF Hit
    <2> QED BY <2>1, <2>3
  <1>5. ASSUME NEW j \in 1..Len(s)
        PROVE  Stored(s)[slot(nwrite, j - 1)] = s[j] /\ slot(nwrite, j - 1) \in 0..(PIPESIZE - 1)
    <2> DEFINE k == slot(nwrite, j - 1)
    <2>1. k \in 0..(PIPESIZE - 1)
      <3>1. j - 1 \in Nat
        BY <1>1
      <3> QED BY <1>1, <3>1, SlotIs
    <2>2. Hit(j, k)
      OBVIOUS
    <2>3. (CHOOSE i \in 1..Len(s) : Last(i, k)) = j
      BY <1>4, <2>2
    <2> HIDE DEF k, Hit, Last
    <2>4. Stored(s)[k] = s[j]
      BY <1>2, <2>1, <2>2, <2>3
    <2> QED BY <2>1, <2>4 DEF k
  <1>6. ASSUME NEW k \in 0..(PIPESIZE - 1), \A j \in 1..Len(s) : slot(nwrite, j - 1) # k
        PROVE  Stored(s)[k] = data[k]
    <2>1. ~\E j \in 1..Len(s) : Hit(j, k)
      BY <1>6
    <2> HIDE DEF Hit, Last
    <2> QED BY <1>2, <2>1
  <1>7. Stored(s) \in [0..(PIPESIZE - 1) -> Bytes]
    <2>1. ASSUME NEW k \in 0..(PIPESIZE - 1) PROVE Stored(s)[k] \in Bytes
      <3>1. CASE \E j \in 1..Len(s) : slot(nwrite, j - 1) = k
        BY <1>1, <1>5, <3>1, LenProperties
      <3>2. CASE \A j \in 1..Len(s) : slot(nwrite, j - 1) # k
        BY <1>6, <3>2 DEF TypeOK
      <3> QED BY <3>1, <3>2
    <2> HIDE DEF Hit, Last
    <2> QED BY <1>2, <2>1
  <1> QED BY <1>5, <1>6, <1>7

-----------------------------------------------------------------------------
(* The two loops *)

(***************************************************************************)
(* The first and the last bytes of a buffer.                               *)
(***************************************************************************)
LEMMA Split ==
    ASSUME NEW s \in Seq(Bytes), NEW m \in 0..Len(s)
    PROVE  /\ SubSeq(s, 1, m) \in Seq(Bytes) /\ Len(SubSeq(s, 1, m)) = m
           /\ \A i \in 1..m : SubSeq(s, 1, m)[i] = s[i]
           /\ SubSeq(s, m + 1, Len(s)) \in Seq(Bytes) /\ Len(SubSeq(s, m + 1, Len(s))) = Len(s) - m
           /\ \A i \in 1..(Len(s) - m) : SubSeq(s, m + 1, Len(s))[i] = s[m + i]
  OBVIOUS

(***************************************************************************)
(* What a run of pipewrite()'s loop does: s is what is left to write, m    *)
(* what fits.                                                              *)
(***************************************************************************)
LEMMA WriteIs ==
    ASSUME PipeInv, NEW p \in Procs, WriteBytes(p)
    PROVE  \E s \in Seq(Bytes), m \in Nat :
             /\ s = todo[p] /\ m <= Len(s) /\ m <= Space /\ (m < Len(s) => m = Space)
             /\ data' = Stored(SubSeq(s, 1, m)) /\ nwrite' = inc(nwrite, m)
             /\ Used' = Used + m /\ nwrite' \in 0..(M - 1)
             /\ \/ /\ m = Space /\ readopen
                   /\ chan' = [wakeup("nread") EXCEPT ![p] = "nwrite"]
                   /\ todo' = [todo EXCEPT ![p] = SubSeq(s, m + 1, Len(s))]
                   /\ UNCHANGED <<pc, room, fault>>
                \/ chan' = wakeup("nread") /\ Return(p)
             /\ pc[p] = "write" /\ chan[p] = "none"
             /\ UNCHANGED <<nread, readopen, writeopen, freed, ref, fds, killed>>
  <1> DEFINE s == todo[p]
             m == IF Len(s) <= Space THEN Len(s) ELSE Space
             sleeps == m < Len(s) \/ (fault[p] /\ m = Space)
  <1>1. s \in Seq(Bytes) /\ Len(s) \in Nat
    BY DEF PipeInv, CallInv
  <1>2. Used \in Nat /\ Used <= PIPESIZE /\ PIPESIZE \in Nat /\ M \in Nat /\ PIPESIZE < M
    BY UsedIs, MFact DEF PipeInv, RingInv
  <1>3. Space \in Nat /\ Space = PIPESIZE - Used
    BY <1>2 DEF Space
  <1>4. m \in Nat /\ m <= Len(s) /\ m <= Space /\ (m < Len(s) => m = Space)
    BY <1>1, <1>3
  <1>5. /\ data' = Stored(SubSeq(s, 1, m)) /\ nwrite' = inc(nwrite, m)
        /\ IF sleeps
           THEN /\ chan' = [wakeup("nread") EXCEPT ![p] = "nwrite"]
                /\ todo' = [todo EXCEPT ![p] = SubSeq(s, m + 1, Len(s))]
                /\ UNCHANGED <<pc, room, fault>>
           ELSE chan' = wakeup("nread") /\ Return(p)
        /\ UNCHANGED <<nread, readopen, writeopen, freed, ref, fds, killed>>
        /\ pc[p] = "write" /\ chan[p] = "none"
        /\ More(p) => readopen
    BY DEF WriteBytes, Awake
  <1>6. sleeps => readopen /\ m = Space
    <2>1. m < Len(s) => s # <<>>
      BY <1>1, <1>4
    <2> HIDE DEF m
    <2> QED BY <1>4, <1>5, <2>1 DEF More
  <1>7. Used' = Used + m /\ nwrite' \in 0..(M - 1)
    <2> HIDE DEF m
    <2>1. Used + m < M
      BY <1>2, <1>3, <1>4
    <2> QED BY <1>4, <1>5, <2>1, UsedWrite DEF PipeInv
  <1> USE <1>1, <1>4
  <1> WITNESS s \in Seq(Bytes), m \in Nat
  <1> QED BY <1>5, <1>6, <1>7

(***************************************************************************)
(* pipewrite() keeps the invariant: who it leaves asleep finds a full      *)
(* pipe, and every reader is awake.                                        *)
(***************************************************************************)
LEMMA WriteStep ==
    ASSUME PipeInv, NEW p \in Procs, WriteBytes(p)
    PROVE  PipeInv'
  <1>1. PICK s \in Seq(Bytes), m \in Nat :
             /\ s = todo[p] /\ m <= Len(s) /\ m <= Space /\ (m < Len(s) => m = Space)
             /\ data' = Stored(SubSeq(s, 1, m)) /\ nwrite' = inc(nwrite, m)
             /\ Used' = Used + m /\ nwrite' \in 0..(M - 1)
             /\ \/ /\ m = Space /\ readopen
                   /\ chan' = [wakeup("nread") EXCEPT ![p] = "nwrite"]
                   /\ todo' = [todo EXCEPT ![p] = SubSeq(s, m + 1, Len(s))]
                   /\ UNCHANGED <<pc, room, fault>>
                \/ chan' = wakeup("nread") /\ Return(p)
             /\ pc[p] = "write" /\ chan[p] = "none"
             /\ UNCHANGED <<nread, readopen, writeopen, freed, ref, fds, killed>>
    BY WriteIs
  <1>most. m <= Len(s) /\ m <= Space /\ Used' = Used + m /\ nwrite' \in 0..(M - 1)
    BY <1>1, Zenon
  <1>2. m \in 0..Len(s) /\ Len(s) \in Nat
    <2>1. Len(s) \in Nat
      OBVIOUS
    <2> QED BY <1>most, <2>1
  <1>3. Used \in Nat /\ Used <= PIPESIZE /\ PIPESIZE \in Nat /\ M \in Nat /\ PIPESIZE < M /\ Space = PIPESIZE - Used
    BY UsedIs, MFact DEF PipeInv, RingInv, Space
  <1>4. data' \in [0..(PIPESIZE - 1) -> Bytes]
    <2>1. SubSeq(s, 1, m) \in Seq(Bytes) /\ Len(SubSeq(s, 1, m)) = m
      BY <1>2, Split
    <2>2. m <= PIPESIZE
      BY <1>most, <1>3
    <2> QED BY <1>1, <2>1, <2>2, StoredAt DEF PipeInv
  <1>5. \/ /\ m = Space /\ readopen
           /\ chan' = [wakeup("nread") EXCEPT ![p] = "nwrite"]
           /\ todo' = [todo EXCEPT ![p] = SubSeq(s, m + 1, Len(s))]
           /\ UNCHANGED <<pc, room, fault>>
        \/ chan' = wakeup("nread") /\ Return(p)
    BY <1>1
  <1>6. /\ pc' \in [Procs -> {"user", "write", "read", "closer", "closew"}]
        /\ todo' \in [Procs -> Seq(Bytes)] /\ \A q \in Procs : Len(todo'[q]) <= MaxLen
        /\ room' \in [Procs -> 0..MaxLen] /\ fault' \in [Procs -> BOOLEAN]
    <2>1. CASE Return(p)
      BY <2>1, ReturnTypes
    <2>2. CASE todo' = [todo EXCEPT ![p] = SubSeq(s, m + 1, Len(s))] /\ UNCHANGED <<pc, room, fault>>
      <3>1. SubSeq(s, m + 1, Len(s)) \in Seq(Bytes) /\ Len(SubSeq(s, m + 1, Len(s))) = Len(s) - m
        BY <1>2, Split
      <3>2. Len(s) <= MaxLen /\ MaxLen \in Nat
        BY <1>1, PipeAssumption DEF PipeInv, TypeOK
      <3> QED BY <1>2, <2>2, <3>1, <3>2 DEF PipeInv, TypeOK, CallInv
    <2> QED BY <1>5, <2>1, <2>2
  <1>7. /\ chan' \in [Procs -> {"none", "nread", "nwrite"}]
        /\ \A q \in Procs : chan'[q] # "nread"
        /\ \A q \in Procs : chan'[q] = "nwrite" => chan[q] = "nwrite" \/ (q = p /\ m = Space /\ readopen /\ UNCHANGED pc)
    BY <1>5 DEF PipeInv, TypeOK, wakeup
  <1>8. TypeOK'
    <2>1. nwrite' \in 0..(2^Width - 1)
      BY <1>1 DEF M
    <2> QED BY <1>1, <1>4, <1>6, <1>7, <2>1 DEF PipeInv, TypeOK
  <1>9. \A q \in Procs : pc'[q] = pc[q] \/ (q = p /\ pc'[q] = "user")
    BY <1>5 DEF PipeInv, TypeOK, Return, Goto
  <1>10. RefsMatch' /\ Closing'
    BY <1>1, <1>9, RefsKept DEF PipeInv, CallInv
  <1>11. InCall'
    <2>1. \A q \in Procs : chan'[q] = "nwrite" => pc'[q] = "write"
      BY <1>1, <1>7, <1>9 DEF PipeInv, CallInv, InCall
    <2> QED BY <1>1, <1>7, <1>9, <2>1 DEF PipeInv, CallInv, InCall
  <1>12. RingInv' /\ Space' = Space - m
    BY <1>most, <1>3 DEF RingInv, Space
  <1>13. NoLostWakeup'
    <2> SUFFICES ASSUME NEW q \in Procs, chan'[q] = "nwrite" PROVE Space' = 0 /\ readopen'
      BY <1>7 DEF NoLostWakeup
    <2>1. m <= Space /\ Space \in Int
      BY <1>most, <1>3
    <2>open. readopen' = readopen
      BY <1>1
    <2>2. Space' = Space - m
      BY <1>12
    <2>3. CASE chan[q] = "nwrite"
      <3>1. Space = 0 /\ readopen
        BY <2>3 DEF PipeInv, NoLostWakeup
      <3> QED BY <2>1, <2>2, <2>open, <3>1
    <2>4. CASE m = Space /\ readopen
      BY <2>1, <2>2, <2>open, <2>4
    <2> QED BY <1>7, <2>3, <2>4
  <1> QED BY <1>1, <1>6, <1>8, <1>10, <1>11, <1>12, <1>13 DEF PipeInv, CallInv

(***************************************************************************)
(* What a run of piperead()'s loop does: k bytes are delivered, and one    *)
(* more may be taken and lost.                                             *)
(***************************************************************************)
LEMMA ReadIs ==
    ASSUME PipeInv, NEW p \in Procs, ReadBytes(p)
    PROVE  \E k \in Nat, lost \in {0, 1} :
             /\ k + lost <= Used /\ got' = Fetched(k) /\ nread' = inc(nread, k + lost)
             /\ Used' = Used - (k + lost) /\ nread' \in 0..(M - 1)
             /\ chan' = wakeup("nwrite") /\ Return(p)
             /\ pc[p] = "read" /\ chan[p] = "none" /\ ~(Empty /\ writeopen)
             /\ UNCHANGED <<data, nwrite, readopen, writeopen, freed, ref, fds, killed>>
  <1> DEFINE k == IF room[p] <= Used THEN room[p] ELSE Used
             lost == IF fault[p] /\ k < Used THEN 1 ELSE 0
  <1>1. Used \in Nat /\ room[p] \in Nat
    BY UsedIs, PipeAssumption, MFact DEF PipeInv, TypeOK
  <1>2. k \in Nat /\ k <= Used
    BY <1>1
  <1>3. lost \in {0, 1} /\ k + lost <= Used /\ k + lost \in Nat
    <2> HIDE DEF k
    <2> QED BY <1>1, <1>2
  <1>4. /\ got' = Fetched(k) /\ nread' = inc(nread, IF fault[p] /\ k < Used THEN k + 1 ELSE k)
        /\ chan' = wakeup("nwrite") /\ Return(p)
        /\ pc[p] = "read" /\ chan[p] = "none" /\ ~(Empty /\ writeopen)
        /\ UNCHANGED <<data, nwrite, readopen, writeopen, freed, ref, fds, killed>>
    BY DEF ReadBytes, Awake
  <1>5. (IF fault[p] /\ k < Used THEN k + 1 ELSE k) = k + lost
    <2> HIDE DEF k
    <2> QED BY <1>2
  <1> HIDE DEF k, lost
  <1>6. Used' = Used - (k + lost) /\ nread' \in 0..(M - 1)
    BY <1>3, <1>4, <1>5, UsedRead DEF PipeInv
  <1> USE <1>2, <1>3
  <1> WITNESS k \in Nat, lost \in {0, 1}
  <1> QED BY <1>4, <1>5, <1>6

(***************************************************************************)
(* piperead() keeps the invariant: every writer is awake, and no reader    *)
(* was asleep on a pipe with bytes.                                        *)
(***************************************************************************)
LEMMA ReadStep ==
    ASSUME PipeInv, NEW p \in Procs, ReadBytes(p)
    PROVE  PipeInv'
  <1>1. PICK k \in Nat, lost \in {0, 1} :
             /\ k + lost <= Used /\ got' = Fetched(k) /\ nread' = inc(nread, k + lost)
             /\ Used' = Used - (k + lost) /\ nread' \in 0..(M - 1)
             /\ chan' = wakeup("nwrite") /\ Return(p)
             /\ pc[p] = "read" /\ chan[p] = "none" /\ ~(Empty /\ writeopen)
             /\ UNCHANGED <<data, nwrite, readopen, writeopen, freed, ref, fds, killed>>
    BY ReadIs
  <1>2. Used \in Nat /\ Used <= PIPESIZE /\ PIPESIZE \in Nat
    BY UsedIs, MFact DEF PipeInv, RingInv
  <1>3. /\ chan' \in [Procs -> {"none", "nread", "nwrite"}]
        /\ \A q \in Procs : chan'[q] # "nwrite" /\ (chan'[q] = "nread" => chan[q] = "nread")
    BY <1>1 DEF PipeInv, TypeOK, wakeup
  <1>4. TypeOK' /\ todo' \in [Procs -> Seq(Bytes)]
    <2>1. nread' \in 0..(2^Width - 1)
      BY <1>1 DEF M
    <2> QED BY <1>1, <1>3, <2>1, ReturnTypes DEF PipeInv, TypeOK
  <1>5. \A q \in Procs : pc'[q] = pc[q] \/ (q = p /\ pc'[q] = "user")
    BY <1>1 DEF PipeInv, TypeOK, Return, Goto
  <1>6. RefsMatch' /\ Closing'
    BY <1>1, <1>5, RefsKept DEF PipeInv, CallInv
  <1>7. InCall'
    BY <1>1, <1>3, <1>5 DEF PipeInv, CallInv, InCall
  <1>8. RingInv'
    <2>1. k + lost <= Used /\ Used' = Used - (k + lost)
      BY <1>1, Zenon
    <2>2. k + lost \in Nat
      OBVIOUS
    <2> QED BY <1>2, <2>1, <2>2 DEF RingInv
  <1>9. NoLostWakeup'
    BY <1>1, <1>3 DEF PipeInv, NoLostWakeup
  <1> QED BY <1>1, <1>4, <1>6, <1>7, <1>8, <1>9 DEF PipeInv, CallInv

(***************************************************************************)
(* Every step keeps the invariant.                                         *)
(***************************************************************************)
LEMMA PipeStepKeeps == PipeInv /\ [Next]_vars => PipeInv'
  <1> SUFFICES ASSUME PipeInv, [Next]_vars PROVE PipeInv'
    OBVIOUS
  <1>1. CASE UNCHANGED vars
    <2>1. UNCHANGED <<data, nread, nwrite, readopen, writeopen, freed, ref, fds, pc, chan, todo, room, fault, killed>>
      BY <1>1 DEF vars, pipeVars
    <2>2. TypeOK'
      BY <2>1 DEF PipeInv, TypeOK
    <2>3. RefsMatch' /\ Closing'
      BY <2>1, RefsKept DEF PipeInv, CallInv
    <2>4. NoLostWakeup' /\ RingInv'
      BY <2>1, RingKept DEF PipeInv
    <2>5. InCall'
      BY <2>1 DEF PipeInv, CallInv, InCall
    <2> QED BY <2>1, <2>2, <2>3, <2>4, <2>5 DEF PipeInv, CallInv
  <1>2. CASE \E p \in Procs : Call(p)
    <2>1. PICK p \in Procs : Call(p)
      BY <1>2
    <2>2. \/ CallWrite(p) \/ CallRead(p)
          \/ fileclose(p)
          \/ Signal(p)
          \/ \E q \in Procs \ {p} : ForkDup(p, q)
      BY <2>1 DEF Call
    <2> QED BY <2>2, CallStep, FileCloseStep, SignalStep, ForkStep
  <1>3. CASE \E p \in Procs : PipeStep(p)
    <2>1. PICK p \in Procs : PipeStep(p)
      BY <1>3
    <2>2. WriteFail(p) \/ WriteBytes(p) \/ ReadWait(p) \/ pipeclose(p) \/ ReadBytes(p)
      BY <2>1 DEF PipeStep
    <2> QED BY <2>2, WriteFailStep, WriteStep, ReadWaitStep, CloseStep, ReadStep
  <1> QED BY <1>1, <1>2, <1>3 DEF Next

(***************************************************************************)
(* For any number of processes, any PIPESIZE and counters of any width     *)
(* that PIPESIZE divides: f->ref counts the descriptors of an end, the     *)
(* pipe is freed by the last close and never while someone can use it, and *)
(* no reader or writer sleeps through its wakeup, whatever the order of    *)
(* reads, writes, closes, forks and signals.                               *)
(***************************************************************************)
THEOREM PipeSoundHolds == Spec => []PipeSound
  <1>1. PipeInv => PipeSound
    BY FreedFollows DEF PipeInv, PipeSound
  <1> QED BY <1>1, PipeInit, PipeStepKeeps, PTL DEF Spec

-----------------------------------------------------------------------------
(* The refinement: Content is the abstract queue *)

Content == Fetched(Used)

Ring(d, x, k) == [j \in 1..k |-> d[slot(x, j - 1)]]

(***************************************************************************)
(* The k bytes from a counter on are a sequence.                           *)
(***************************************************************************)
LEMMA RingIs ==
    ASSUME NEW d \in [0..(PIPESIZE - 1) -> Bytes], NEW x \in Nat, NEW k \in Nat
    PROVE  /\ Ring(d, x, k) \in Seq(Bytes) /\ Len(Ring(d, x, k)) = k
           /\ \A j \in 1..k : Ring(d, x, k)[j] = d[slot(x, j - 1)]
  <1>1. ASSUME NEW j \in 1..k PROVE d[slot(x, j - 1)] \in Bytes
    <2>1. j - 1 \in Nat
      OBVIOUS
    <2>2. slot(x, j - 1) \in 0..(PIPESIZE - 1)
      BY <2>1, SlotIs
    <2> QED BY <2>2
  <1>2. Ring(d, x, k) \in [1..k -> Bytes]
    BY <1>1 DEF Ring
  <1>3. Ring(d, x, k) \in Seq(Bytes) /\ Len(Ring(d, x, k)) = k
    BY <1>2
  <1> QED BY <1>3 DEF Ring

(***************************************************************************)
(* Content in the terms of Ring, before and after a step.                  *)
(***************************************************************************)
LEMMA FetchedIs ==
    /\ \A k : Fetched(k) = Ring(data, nread, k)
    /\ Content = Ring(data, nread, Used)
    /\ Content' = Ring(data', nread', Used')
  <1>1. \A k : Fetched(k) = Ring(data, nread, k)
    BY Zenon DEF Fetched, Ring, slot
  <1>2. Content' = Ring(data', nread', Used')
    BY Zenon DEF Content, Fetched, Ring, slot, inc
  <1> QED BY <1>1, <1>2 DEF Content

(***************************************************************************)
(* A position counted from an advanced counter.                            *)
(***************************************************************************)
LEMMA SlotShift ==
    ASSUME NEW x \in 0..(M - 1), NEW k \in 0..(M - 1), NEW i \in Nat
    PROVE  slot(inc(x, k), i) = slot(x, k + i)
  <1>1. M \in Nat /\ PIPESIZE \in Nat \ {0} /\ x \in Nat /\ k + i \in Nat
    BY MFact
  <1>2. inc(x, k) \in Nat /\ inc(x, k) = IF x + k < M THEN x + k ELSE x + k - M
    BY <1>1, IncIs
  <1>3. slot(inc(x, k), i) = (inc(x, k) + i) % PIPESIZE /\ slot(x, k + i) = (x + (k + i)) % PIPESIZE
    BY <1>1, <1>2, SlotIs
  <1>4. CASE x + k < M
    <2>1. inc(x, k) + i = x + (k + i)
      BY <1>1, <1>2, <1>4
    <2> QED BY <1>3, <2>1
  <1>5. CASE x + k >= M
    <2> DEFINE z == inc(x, k) + i
               c == M \div PIPESIZE
               j == z \div PIPESIZE
               r == z % PIPESIZE
    <2>1. z \in Int /\ z + M = x + (k + i)
      BY <1>1, <1>2, <1>5
    <2> HIDE DEF z
    <2>2. z = j * PIPESIZE + r /\ j \in Int /\ r \in 0..(PIPESIZE - 1)
      BY <1>1, <2>1, DivMod
    <2>3. M = c * PIPESIZE /\ c \in Int
      BY MFact, DivMod
    <2> HIDE DEF c, j, r
    <2>4. z + M = (j + c) * PIPESIZE + r
      BY <1>1, <2>2, <2>3
    <2>5. (z + M) % PIPESIZE = r
      <3>1. z + M \in Int /\ j + c \in Int
        BY <1>1, <2>1, <2>2, <2>3
      <3> QED BY <1>1, <2>2, <2>4, <3>1, DivModUnique
    <2> QED BY <1>3, <2>1, <2>5 DEF r, z
  <1> QED BY <1>1, <1>4, <1>5

(***************************************************************************)
(* The loop of pipewrite() appends to the queue.                           *)
(***************************************************************************)
LEMMA Appends ==
    ASSUME PipeInv, PipeInv', NEW s \in Seq(Bytes), Used + Len(s) <= PIPESIZE,
           data' = Stored(s), nread' = nread, Used' = Used + Len(s)
    PROVE  Content' = Content \o s
  <1>1. M \in Nat /\ PIPESIZE \in Nat /\ PIPESIZE < M
    BY MFact
  <1>2. nread \in 0..(M - 1) /\ nread \in Nat
    <2>1. nread \in 0..(M - 1)
      BY DEF PipeInv, TypeOK, M
    <2> QED BY <1>1, <2>1
  <1>3. Used \in 0..(M - 1) /\ Used \in Nat /\ nwrite = inc(nread, Used)
    BY <1>1, UsedIs DEF PipeInv
  <1>4. Len(s) \in Nat /\ Used' \in Nat /\ Len(s) <= PIPESIZE
    BY <1>1, <1>3
  <1>5. /\ data' \in [0..(PIPESIZE - 1) -> Bytes]
        /\ \A i \in 1..Len(s) : data'[slot(nwrite, i - 1)] = s[i]
        /\ \A k \in 0..(PIPESIZE - 1) :
              (\A i \in 1..Len(s) : slot(nwrite, i - 1) # k) => data'[k] = data[k]
    BY <1>4, StoredAt DEF PipeInv
  <1>6. /\ Content \in Seq(Bytes) /\ Len(Content) = Used
        /\ \A j \in 1..Used : Content[j] = data[slot(nread, j - 1)]
    BY <1>2, <1>3, RingIs, FetchedIs DEF PipeInv, TypeOK
  <1>7. /\ Content' \in Seq(Bytes) /\ Len(Content') = Used + Len(s)
        /\ \A j \in 1..(Used + Len(s)) : Content'[j] = data'[slot(nread, j - 1)]
    BY <1>2, <1>4, <1>5, RingIs, FetchedIs
  <1>8. \A i \in 1..Len(s) : slot(nwrite, i - 1) = slot(nread, Used + (i - 1))
    BY <1>2, <1>3, <1>4, SlotShift
  <1>9. ASSUME NEW j \in 1..(Used + Len(s))
        PROVE  Content'[j] = IF j <= Used THEN Content[j] ELSE s[j - Used]
    <2>1. CASE j <= Used
      <3>1. j - 1 \in Nat /\ j \in 1..Used
        BY <1>3, <1>4, <2>1
      <3>2. ASSUME NEW i \in 1..Len(s) PROVE slot(nwrite, i - 1) # slot(nread, j - 1)
        <4>1. /\ Used + (i - 1) \in Nat
              /\ j - 1 < Used + (i - 1) /\ Used + (i - 1) < (j - 1) + PIPESIZE
          BY <1>1, <1>3, <1>4, <2>1, <3>1
        <4> QED BY <1>2, <1>8, <3>1, <4>1, SlotsApart
      <3>3. slot(nread, j - 1) \in 0..(PIPESIZE - 1)
        BY <1>2, <3>1, SlotIs
      <3>4. data'[slot(nread, j - 1)] = data[slot(nread, j - 1)]
        BY <1>5, <3>2, <3>3
      <3> QED BY <1>6, <1>7, <2>1, <3>1, <3>4
    <2>2. CASE ~(j <= Used)
      <3>1. j - Used \in 1..Len(s) /\ Used + ((j - Used) - 1) = j - 1
        BY <1>3, <1>4, <2>2
      <3>2. slot(nwrite, (j - Used) - 1) = slot(nread, j - 1)
        BY <1>8, <3>1
      <3> QED BY <1>5, <1>7, <2>2, <3>1, <3>2
    <2> QED BY <2>1, <2>2
  <1>10. /\ Content \o s \in Seq(Bytes) /\ Len(Content \o s) = Used + Len(s)
         /\ \A j \in 1..(Used + Len(s)) : (Content \o s)[j] = IF j <= Used THEN Content[j] ELSE s[j - Used]
    BY <1>6, ConcatProperties
  <1> HIDE DEF Content
  <1> QED BY <1>7, <1>9, <1>10, SeqEqual

(***************************************************************************)
(* What is in the pipe: as many bytes as the counters say, from nread on.  *)
(***************************************************************************)
LEMMA ContentIs ==
    ASSUME PipeInv
    PROVE  /\ Content \in Seq(Bytes) /\ Len(Content) = Used
           /\ \A j \in 1..Used : Content[j] = data[slot(nread, j - 1)]
  <1>1. M \in Nat /\ data \in [0..(PIPESIZE - 1) -> Bytes]
    BY MFact DEF PipeInv, TypeOK
  <1>2. nread \in Nat
    BY <1>1 DEF PipeInv, TypeOK, M
  <1>3. Used \in Nat
    BY <1>1, UsedIs DEF PipeInv
  <1>4. /\ Ring(data, nread, Used) \in Seq(Bytes) /\ Len(Ring(data, nread, Used)) = Used
        /\ \A j \in 1..Used : Ring(data, nread, Used)[j] = data[slot(nread, j - 1)]
    BY <1>1, <1>2, <1>3, RingIs
  <1>5. Content = Ring(data, nread, Used)
    BY FetchedIs, Zenon
  <1> QED BY <1>4, <1>5, Zenon

(***************************************************************************)
(* The loop of piperead() delivers from the front of the queue.            *)
(***************************************************************************)
LEMMA Takes ==
    ASSUME PipeInv, NEW k \in Nat, NEW t \in Nat, k <= t, t <= Used,
           data' = data, nread' = inc(nread, t), nread' \in 0..(M - 1), Used' = Used - t
    PROVE  /\ Fetched(k) = SubSeq(Content, 1, k)
           /\ Content' = SubSeq(Content, t + 1, Len(Content))
           /\ Content \in Seq(Bytes) /\ Len(Content) = Used
  <1>1. M \in Nat /\ data \in [0..(PIPESIZE - 1) -> Bytes]
    BY MFact DEF PipeInv, TypeOK
  <1>2. nread \in 0..(M - 1) /\ nread \in Nat /\ nread' \in Nat
    BY <1>1 DEF PipeInv, TypeOK, M
  <1>3. Used \in 0..(M - 1) /\ Used \in Nat
    BY <1>1, UsedIs DEF PipeInv
  <1>4. t \in 0..(M - 1) /\ Used - t \in Nat /\ k <= Used /\ k \in 0..Used /\ t \in 0..Used
    BY <1>1, <1>3
  <1>5. /\ Content \in Seq(Bytes) /\ Len(Content) = Used
        /\ \A j \in 1..Used : Content[j] = data[slot(nread, j - 1)]
    BY ContentIs
  <1>6. /\ Fetched(k) \in Seq(Bytes) /\ Len(Fetched(k)) = k
        /\ \A j \in 1..k : Fetched(k)[j] = data[slot(nread, j - 1)]
    BY <1>1, <1>2, RingIs, FetchedIs
  <1>7. /\ Content' \in Seq(Bytes) /\ Len(Content') = Used - t
        /\ \A j \in 1..(Used - t) : Content'[j] = data[slot(nread', j - 1)]
    <2>1. /\ Ring(data, nread', Used - t) \in Seq(Bytes) /\ Len(Ring(data, nread', Used - t)) = Used - t
          /\ \A j \in 1..(Used - t) : Ring(data, nread', Used - t)[j] = data[slot(nread', j - 1)]
      BY <1>1, <1>2, <1>4, RingIs
    <2>2. Content' = Ring(data, nread', Used - t)
      BY FetchedIs, Zenon
    <2> QED BY <2>1, <2>2, Zenon
  <1> HIDE DEF Content
  <1>8. Fetched(k) = SubSeq(Content, 1, k)
    <2>1. /\ SubSeq(Content, 1, k) \in Seq(Bytes) /\ Len(SubSeq(Content, 1, k)) = k
          /\ \A j \in 1..k : SubSeq(Content, 1, k)[j] = Content[j]
      BY <1>4, <1>5, Split
    <2>2. ASSUME NEW j \in 1..k PROVE Fetched(k)[j] = SubSeq(Content, 1, k)[j]
      <3>1. j \in 1..Used
        BY <1>3, <1>4
      <3> QED BY <1>5, <1>6, <2>1, <3>1, Zenon
    <2> QED BY <1>6, <2>1, <2>2, SeqEqual
  <1>9. Content' = SubSeq(Content, t + 1, Len(Content))
    <2> DEFINE rest == SubSeq(Content, t + 1, Len(Content))
    <2>1. /\ rest \in Seq(Bytes) /\ Len(rest) = Used - t
          /\ \A j \in 1..(Used - t) : rest[j] = Content[t + j]
      BY <1>4, <1>5, Split
    <2>2. ASSUME NEW j \in 1..(Used - t) PROVE Content'[j] = rest[j]
      <3>1. j - 1 \in Nat /\ t + j \in 1..Used /\ t + (j - 1) = (t + j) - 1
        BY <1>3, <1>4
      <3>2. slot(nread', j - 1) = slot(nread, t + (j - 1))
        BY <1>2, <1>4, <3>1, SlotShift
      <3> HIDE DEF rest
      <3> QED BY <1>5, <1>7, <2>1, <3>1, <3>2
    <2> HIDE DEF rest
    <2>3. Content' = rest
      BY <1>7, <2>1, <2>2, SeqEqual
    <2> QED BY <2>3 DEF rest
  <1> QED BY <1>5, <1>8, <1>9

(***************************************************************************)
(* Every step of the pipe is a step of the queue.                          *)
(***************************************************************************)
LEMMA FifoStep ==
    PipeInv /\ PipeInv' /\ FreedUnused /\ [Next]_vars => [fifo!FifoNext]_(fifo!fifoVars)
  <1> SUFFICES ASSUME PipeInv, PipeInv', FreedUnused, [Next]_vars
               PROVE  fifo!FifoNext \/ UNCHANGED <<Content, got, freed>>
    BY DEF fifo!fifoVars, Content
  <1>1. ASSUME UNCHANGED <<data, nread, nwrite>> PROVE Content' = Content
    BY <1>1 DEF Content, Fetched, Used, inc
  <1>2. ASSUME got' = <<>>, UNCHANGED <<data, nread, nwrite, freed>> PROVE fifo!FifoNext
    <2>1. Content' = Content
      BY <1>1, <1>2
    <2> QED BY <1>2, <2>1 DEF fifo!FifoNext, fifo!Quiet, Content
  <1>3. CASE UNCHANGED vars
    BY <1>1, <1>3 DEF vars, pipeVars
  <1>4. ASSUME NEW p \in Procs, Call(p) PROVE fifo!FifoNext
    <2>1. got' = <<>> /\ UNCHANGED <<data, nread, nwrite, freed>>
      BY <1>4 DEF Call, CallWrite, CallRead, fileclose, Signal, ForkDup, pipeVars
    <2> QED BY <1>2, <2>1
  <1>5. ASSUME NEW p \in Procs, WriteFail(p) \/ ReadWait(p), got' = <<>> PROVE fifo!FifoNext
    <2>1. UNCHANGED <<data, nread, nwrite, freed>>
      BY <1>5 DEF WriteFail, ReadWait, pipeVars
    <2> QED BY <1>2, <1>5, <2>1
  <1>6. ASSUME NEW p \in Procs, pipeclose(p), got' = <<>> PROVE fifo!FifoNext
    <2>1. pc[p] # "user" /\ UNCHANGED <<data, nread, nwrite>>
      BY <1>6 DEF pipeclose
    <2>2. ~freed
      BY <2>1 DEF FreedUnused
    <2>3. CASE freed' = freed
      BY <1>2, <1>6, <2>1, <2>3
    <2>4. CASE freed' = TRUE
      BY <1>1, <1>6, <2>1, <2>2, <2>4 DEF fifo!FifoNext, fifo!Free, Content
    <2> QED BY <2>2, <2>3, <2>4 DEF PipeInv, TypeOK
  <1>7. ASSUME NEW p \in Procs, WriteBytes(p), got' = <<>> PROVE fifo!FifoNext
    <2>1. PICK s \in Seq(Bytes), m \in Nat :
             /\ m <= Len(s) /\ m <= Space
             /\ data' = Stored(SubSeq(s, 1, m)) /\ Used' = Used + m
             /\ pc[p] = "write" /\ UNCHANGED <<nread, freed>>
      BY <1>7, WriteIs
    <2> DEFINE u == SubSeq(s, 1, m)
    <2>2. u \in Seq(Bytes) /\ Len(u) = m
      BY <2>1, Split
    <2>3. Used \in Nat /\ PIPESIZE \in Nat /\ Used + m <= PIPESIZE /\ m <= PIPESIZE - Used
      BY <2>1, UsedIs, MFact DEF PipeInv, RingInv, Space
    <2>4. /\ data' = Stored(u) /\ Used' = Used + Len(u) /\ nread' = nread /\ freed' = freed /\ ~freed
          /\ Used + Len(u) <= PIPESIZE
      BY <2>1, <2>2, <2>3 DEF FreedUnused
    <2> HIDE DEF u
    <2>5. Content' = Content \o u
      BY <2>2, <2>4, Appends
    <2>6. Content \in Seq(Bytes) /\ Len(Content) = Used
      BY ContentIs
    <2>7. CASE m = 0
      <3>1. u = <<>>
        BY <2>2, <2>7
      <3>2. Content' = Content
        BY <2>5, <2>6, <3>1, ConcatEmptySeq
      <3> QED BY <1>7, <2>4, <3>2 DEF fifo!FifoNext, fifo!Quiet, Content
    <2>8. CASE m # 0
      <3>1. m \in 1..(PIPESIZE - Len(Content)) /\ u \in [1..m -> Bytes]
        BY <2>2, <2>3, <2>6, <2>8, LenProperties
      <3> QED BY <1>7, <2>4, <2>5, <3>1 DEF fifo!FifoNext, fifo!Put, Content
    <2> QED BY <2>7, <2>8
  <1>8. ASSUME NEW p \in Procs, ReadBytes(p) PROVE fifo!FifoNext
    <2>1. PICK k \in Nat, lost \in {0, 1} :
             /\ k + lost <= Used /\ got' = Fetched(k) /\ nread' = inc(nread, k + lost)
             /\ Used' = Used - (k + lost) /\ nread' \in 0..(M - 1)
             /\ pc[p] = "read" /\ UNCHANGED <<data, freed>>
      BY <1>8, ReadIs
    <2>2. k + lost \in Nat /\ k <= k + lost
      OBVIOUS
    <2>3. /\ got' = SubSeq(Content, 1, k)
          /\ Content' = SubSeq(Content, k + lost + 1, Len(Content))
          /\ Content \in Seq(Bytes) /\ Len(Content) = Used
      BY <2>1, <2>2, Takes
    <2>4. ~freed
      BY <2>1 DEF FreedUnused
    <2>5. k \in 0..Len(Content) /\ k + lost <= Len(Content)
      BY <2>1, <2>3
    <2> QED BY <2>1, <2>3, <2>4, <2>5 DEF fifo!FifoNext, fifo!Take, Content
  <1>9. CASE \E p \in Procs : Call(p) \/ PipeStep(p)
    BY <1>4, <1>5, <1>6, <1>7, <1>8, <1>9 DEF PipeStep
  <1> QED BY <1>3, <1>9 DEF Next

(***************************************************************************)
(* For every PIPESIZE, counter width and number of processes the pipe      *)
(* implements a queue of at most PIPESIZE bytes: reads deliver what writes *)
(* put in, in order and once, also when nread and nwrite wrap.             *)
(***************************************************************************)
THEOREM ImplementsFifoHolds == Spec => ImplementsFifo
  <1>1. Init => fifo!FifoInit
    <2> SUFFICES ASSUME Init PROVE fifo!FifoInit
      OBVIOUS
    <2>1. Used = 0 /\ data \in [0..(PIPESIZE - 1) -> Bytes] /\ nread \in Nat
      BY PipeInit, UsedIs DEF Init, Empty, PipeInv, TypeOK
    <2>2. Content \in Seq(Bytes) /\ Len(Content) = 0
      BY <2>1, RingIs, FetchedIs
    <2>3. Content = <<>>
      BY <2>2
    <2> QED BY <2>3 DEF Init, fifo!FifoInit, Content
  <1>2. Spec => []PipeInv
    BY PipeInit, PipeStepKeeps, PTL DEF Spec
  <1>3. PipeSound => FreedUnused
    BY DEF PipeSound
  <1> QED BY <1>1, <1>2, <1>3, FifoStep, PipeSoundHolds, PTL DEF Spec, ImplementsFifo, fifo!FifoSpec
=============================================================================
