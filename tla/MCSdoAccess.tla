---------------------------- MODULE MCSdoAccess ----------------------------
(***************************************************************************)
(* Instances of SdoAccess for TLC, with bytes of one bit: two buses of two *)
(* slaves, and the two Masters of examples/read_sdo.rs.                    *)
(***************************************************************************)
EXTENDS SdoAccess

CONSTANTS main, rt

Entry(type, bits, first) ==
  [type |-> type, bits |-> bits, first |-> first, writable |-> TRUE]
Object(idx, entries) == [idx |-> idx, entries |-> entries]

\* Subindex 0, the number of the entries behind it.
Number == [Entry("U8", 1, <<{0}>>) EXCEPT !.writable = FALSE]

\* The same index with different entries at two slaves: a dictionary that is at
\* the wrong position decodes what is not there.
SameIndex ==
  <<<<Object(1, <<Number, Entry("U16", 2, <<{0}, {}>>)>>)>>,
    <<Object(1, <<Number, Entry("Raw", 2, <<{0}>>)>>)>>>>

\* An entry of an unknown type between two others, and an object with a single
\* entry, of a type that has no conversion.
Gaps ==
  <<<<Object(1, <<Number, Entry("unknown", 1, <<>>), Entry("Bool", 1, <<{0}>>)>>)>>,
    <<Object(2, <<Entry("Bit4", 1, <<{0}>>)>>)>>>>

MCOds == {SameIndex, Gaps}

MCPayloads == {<<>>, <<{}>>, <<{0}>>, <<{0}, {}>>, <<{}, {0}>>}

V(type, bytes) == [type |-> type, bytes |-> bytes]
MCValues ==
  {V("Bool", <<{0}>>), V("U8", <<{0}>>), V("U16", <<{0}, {}>>), V("U16", <<{}, {0}>>),
   V("Raw", <<>>), V("Raw", <<{0}>>), V("Raw", <<{}, {0}>>), V("Bit4", <<{0}>>)}
=============================================================================
