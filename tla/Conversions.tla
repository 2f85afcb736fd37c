---------------------------- MODULE Conversions ----------------------------
(***************************************************************************)
(* The conversions of src/util.rs between values and bytes, as the process *)
(* image and the SDO access use them.  A byte is the set of its set bits,  *)
(* so no weight of a bit matters.                                          *)
(***************************************************************************)
EXTENDS Naturals, Sequences

CONSTANT ByteBits   \* bits of a byte: 8 in the code

ASSUME ByteAssumption == ByteBits \in Nat \ {0}

Bits == 0..(ByteBits - 1)
Byte == SUBSET Bits

(* Data types with a Rust value: U8 and U16 stand for all those of one and *)
(* of several bytes, Raw for byte arrays and entries without description,  *)
(* Bit4 for the types util.rs has no conversion for.                       *)
Types == {"Bool", "U8", "U16", "Raw", "Bit4"}

Width == [t \in {"Bool", "U8", "U16"} |-> IF t = "U16" THEN 2 ELSE 1]

\* A value with the bytes value_to_bytes makes of it; ec::Value keeps a Bool in
\* one byte that is 0 or 1.
ValueType ==
  {v \in [type : Types, bytes : Seq(Byte)] :
     /\ v.type \in DOMAIN Width => Len(v.bytes) = Width[v.type]
     /\ v.type = "Bool" => v.bytes[1] \in {{}, {0}}}

byte_cnt(bits) ==
  IF bits % ByteBits = 0 THEN bits \div ByteBits ELSE bits \div ByteBits + 1

\* value_to_bytes refuses the types it has no case for.
Convertible(v) == v.type # "Bit4"

\* Mutant: a number is made of as many bytes as there are.
ValueFromSlice_AnyLength(type, raw, bit) ==
  IF raw = <<>> \/ type = "Bit4" THEN {}
  ELSE IF type = "Bool"
  THEN {[type |-> type, bytes |-> <<IF bit \in raw[1] THEN {0} ELSE {}>>]}
  ELSE {[type |-> type, bytes |-> IF type = "U8" THEN <<raw[1]>> ELSE raw]}

\* value_from_slice on raw: the value, or nothing after a warning.
ValueFromSlice(type, raw, bit) ==
  CASE raw = <<>> -> {}
    [] type = "Bool" /\ raw # <<>> ->
         {[type |-> type, bytes |-> <<IF bit \in raw[1] THEN {0} ELSE {}>>]}
    [] type = "U8" /\ raw # <<>> -> {[type |-> type, bytes |-> <<raw[1]>>]}
    [] type = "U16" /\ raw # <<>> ->
         IF Len(raw) = Width[type] THEN {[type |-> type, bytes |-> raw]} ELSE {}
    [] type = "Raw" /\ raw # <<>> -> {[type |-> type, bytes |-> raw]}
    [] type = "Bit4" /\ raw # <<>> -> {}
=============================================================================
