--------------------------- MODULE MCAutoConfig ---------------------------
(***************************************************************************)
(* Instances of AutoConfig for TLC.  The device kinds cover every branch   *)
(* of coe_pdo_info's loop: a drive and a sensor with the usual four sync   *)
(* managers (0x1C00:0 = 4, SM2 and SM3 carry process data) and different   *)
(* entry lengths, a coupler without process data, and a gateway that       *)
(* announces more sync managers than the wrapper's array holds.            *)
(***************************************************************************)
EXTENDS AutoConfig

CONSTANTS drive, sensor, coupler, gateway

MCObjCnt ==
  [d \in Devices |-> CASE d = coupler -> 2 [] d = gateway -> 10 [] OTHER -> 4]

\* MbxWr, MbxRd, Outputs, Inputs, then unused.
MCSmTypeId ==
  [d \in Devices |-> [sm \in 0..7 |-> IF sm \in 0..3 THEN sm + 1 ELSE 0]]

MCBitLen == [d \in Devices |-> IF d = sensor THEN 8 ELSE 16]
============================================================================
