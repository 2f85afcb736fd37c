---------------------------- MODULE MCPdoAssign ----------------------------
(***************************************************************************)
(* Instances of PdoAssign for TLC.  Sync managers 0 and 1 carry the mailbox *)
(* and are not visited; 2 to 4 carry process data, in either direction, or *)
(* have another type.                                                      *)
(***************************************************************************)
EXTENDS PdoAssign

\* Two sync managers of one direction around one of the other, and a slave whose
\* inputs come first and that has one of another type between the two.
ThreeSms ==
  {[s \in 2..4 |-> IF s = 3 THEN "Inputs" ELSE "Outputs"],
   [s \in 2..4 |-> IF s = 3 THEN "Outputs" ELSE "Inputs"],
   [s \in 2..4 |-> CASE s = 2 -> "Inputs" [] s = 3 -> "Unknown" [] s = 4 -> "Outputs"]}
============================================================================
