----------------------------- MODULE MCStartUp -----------------------------
(***************************************************************************)
(* Instances of StartUp for TLC: two slaves on their way from SAFE_OP to   *)
(* OP, which can refuse it or stop answering.                              *)
(***************************************************************************)
EXTENDS StartUp

CONSTANT main

MCStatuses == [i \in Slaves |-> {SafeOp, Op, SafeOp \cup {ErrorBit}, {}}]
MCRequests == {SafeOp, Op}
=============================================================================
