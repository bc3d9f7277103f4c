------------------------------- MODULE MCPipe -------------------------------
(***************************************************************************)
(* Instances of Pipe: processes are interchangeable.                       *)
(***************************************************************************)
EXTENDS Pipe, TLC

ProcSymmetry == Permutations(Procs)
=============================================================================
