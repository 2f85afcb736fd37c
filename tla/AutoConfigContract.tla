------------------------ MODULE AutoConfigContract ------------------------
(***************************************************************************)
(* What Master::auto_config promises about the table of PDO layouts that   *)
(* set_pdo_value and pdo_values later index by slave position: a call      *)
(* either replaces the whole table by the layouts of the slaves it has     *)
(* just detected, or leaves the table as it was and reports an error.      *)
(* Nobody sees a table that is half old and half new.                      *)
(***************************************************************************)
EXTENDS Naturals, Sequences

CONSTANTS
  Devices,      \* the kinds of EtherCAT device a bus can be built from
  Mapped,       \* those of them whose PDO layout auto_config reads
  Errors        \* what a failed call may report

VARIABLES
  slaves,       \* the devices the last detection found, in bus order
  table,        \* the published layouts: [pos, dev] of each, in vector order
  busy,         \* is a call in progress?
  outcome       \* what the last finished call returned

contractVars == <<slaves, table, busy, outcome>>

\* t lists the layouts of exactly the mapped slaves of s, in bus order, each
\* read from the slave it is listed for.
IsTableOf(t, s) ==
  /\ \A k \in DOMAIN t : t[k].pos \in DOMAIN s /\ t[k].dev = s[t[k].pos]
  /\ \A j, k \in DOMAIN t : j < k => t[j].pos < t[k].pos
  /\ \A i \in DOMAIN s : s[i] \in Mapped <=> \E k \in DOMAIN t : t[k].pos = i

Init ==
  /\ slaves = <<>> /\ table = <<>>
  /\ busy = FALSE /\ outcome = "none"

Begin ==
  /\ ~busy /\ busy' = TRUE /\ outcome' = "none"
  /\ UNCHANGED <<slaves, table>>

\* Detection rewrites the slave list, or empties it when it fails.
Detect ==
  /\ busy /\ busy' = TRUE
  /\ slaves' \in Seq(Devices)
  /\ UNCHANGED <<table, outcome>>

Commit ==
  /\ busy /\ busy' = FALSE /\ outcome' = "Ok"
  /\ IsTableOf(table', slaves)
  /\ UNCHANGED slaves

Abort ==
  /\ busy /\ busy' = FALSE /\ outcome' \in Errors
  /\ slaves' = <<>> \/ UNCHANGED slaves
  /\ UNCHANGED table

Next == Begin \/ Detect \/ Commit \/ Abort

Safety == Init /\ [][Next]_contractVars

\* Every call returns.
Returns == busy ~> ~busy
============================================================================
