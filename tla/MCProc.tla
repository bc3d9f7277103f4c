------------------------------- MODULE MCProc -------------------------------
(***************************************************************************)
(* Instances of Proc for TLC: two to four slots, pids up to MaxPid.        *)
(***************************************************************************)
EXTENDS Proc

AnyChild == {-1}
AnyOrOne == {-1, 2}
AnyOrGroup == {-1, -2}
PlainWait == {{}, {"EFAULT"}}
SomeWaits == {{}, {"WNOHANG"}, {"EFAULT"}}
NotInit == 2..MaxPid
NotInitOrGroup == {-1, -2} \union (2..MaxPid)
=============================================================================
