----------------------------- MODULE MCExchange -----------------------------
(***************************************************************************)
(* Instances of Exchange for TLC: two slaves in OP, one of which can fall  *)
(* back to SAFE_OP with an error indication and the other stop answering,  *)
(* and the two handles of examples/read_sdo.rs.                            *)
(***************************************************************************)
EXTENDS Exchange, TLC

CONSTANTS main, rt

MCStatuses == <<{Op, SafeOp \cup {ErrorBit}}, {Op, {}}>>
MCRequests == {Op}

\* Nothing distinguishes the two handles.
Symmetry == Permutations(Handles)
=============================================================================
