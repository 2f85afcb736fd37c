--------------------------- MODULE MCProcessImage ---------------------------
(***************************************************************************)
(* Instances of ProcessImage for TLC, with bytes of two bits.  The tables  *)
(* are laid out the way si_pdo_assign does it: Layout turns the lengths of *)
(* a sync manager's entries into offsets by a running sum.                 *)
(***************************************************************************)
EXTENDS ProcessImage

\* The entry of this type, at this number of bits.
At(sm, type, bits, len) ==
  [sm |-> sm, type |-> type, byte |-> bits \div 2, bit |-> bits % 2, len |-> len]

Pdo(idx, entries) == [idx |-> idx, entries |-> entries]

NoArea == [base |-> 0, bits |-> 0, bytes |-> 0, start |-> 0]
Bytes(base, n) == [base |-> base, bits |-> 2 * n, bytes |-> n, start |-> 0]
OneBit(base, start) == [base |-> base, bits |-> 1, bytes |-> 0, start |-> start]

(* A digital output module with two bits and a word behind them, mapped by *)
(* two PDOs, and an input; behind it one with a byte, a bit and padding.   *)
drive ==
  <<Pdo(1, <<At("Outputs", "Bool", 0, 1), At("Outputs", "Bool", 1, 1)>>),
    Pdo(2, <<At("Outputs", "U16", 2, 4)>>),
    Pdo(9, <<At("Inputs", "U8", 0, 2)>>)>>
valve ==
  <<Pdo(1, <<At("Outputs", "U8", 0, 2), At("Outputs", "Bool", 2, 1),
             At("Outputs", "Raw", 3, 1)>>)>>

TwoModules ==
  [slaves |-> <<[outputs |-> Bytes(0, 3), inputs |-> Bytes(5, 1)],
                [outputs |-> Bytes(3, 2), inputs |-> NoArea]>>,
   pdos |-> <<drive, valve>>]

\* A coupler has no process data, so its successor's layout is stored in its
\* place (module AutoConfig, LayoutsFoundAtTheirSlave).
Shifted ==
  [slaves |-> <<[outputs |-> NoArea, inputs |-> NoArea],
                [outputs |-> Bytes(3, 2), inputs |-> NoArea]>>,
   pdos |-> <<valve>>]

\* The table of an earlier, longer bus.
Stale ==
  [slaves |-> <<[outputs |-> Bytes(0, 2), inputs |-> NoArea]>>,
   pdos |-> <<valve, valve>>]

\* Two slaves with one bit each, which SOEM maps into one byte.
bit == <<Pdo(1, <<At("Outputs", "Bool", 0, 1)>>)>>
SharedByte ==
  [slaves |-> <<[outputs |-> OneBit(0, 0), inputs |-> NoArea],
                [outputs |-> OneBit(0, 1), inputs |-> NoArea]>>,
   pdos |-> <<bit, bit>>]

\* One slave with a bit of outputs: SOEM counts no byte for it.
SingleBit ==
  [slaves |-> <<[outputs |-> OneBit(2, 0), inputs |-> NoArea]>>, pdos |-> <<bit>>]

\* One slave with two sync managers for outputs: si_pdo_assign begins at bit 0 in
\* each, so the entry of the second lies on that of the first.
TwoSms ==
  [slaves |-> <<[outputs |-> Bytes(0, 2), inputs |-> NoArea]>>,
   pdos |-> <<<<Pdo(1, <<At("Outputs", "U8", 0, 2)>>),
                Pdo(2, <<At("Outputs", "U8", 0, 2)>>)>>>>]

Modules == {TwoModules, Shifted, Stale, SingleBit, TwoSms}
BitSlaves == {SharedByte}

V(type, bytes) == [type |-> type, bytes |-> bytes]

MCValues ==
  {V("Bool", <<{0}>>), V("Bool", <<{}>>), V("U8", <<{0, 1}>>), V("U8", <<{1}>>),
   V("U16", <<{1}, {0, 1}>>), V("U16", <<{0}, {}>>),
   V("Raw", <<{0}, {0}, {0}>>), V("Raw", <<>>), V("Bit4", <<{0}>>)}
=============================================================================
