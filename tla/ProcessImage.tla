---------------------------- MODULE ProcessImage ----------------------------
(***************************************************************************)
(* Master::set_pdo_value and Master::pdo_values of src/lib.rs on the I/O   *)
(* map of the context, with the conversions of src/util.rs and the slices  *)
(* of ethercat-soem-ctx/src/slave.rs between them.                         *)
(*                                                                         *)
(* A byte is the set of its set bits, so the I/O map is a function from    *)
(* byte addresses to sets of bits and no weight of a bit matters.  What    *)
(* auto_config left behind (slave list, PDO table, areas of the I/O map)   *)
(* does not change any more: it is chosen once from Buses.                 *)
(***************************************************************************)
EXTENDS Conversions

CONSTANTS
  Checked,    \* a build with debug assertions
  Size,       \* bytes of the I/O map: 4096 in the code
  Buses,      \* what auto_config can have left behind, see BusType
  Values,     \* the values the application sets, see ValueType
  PdoIdxs,    \* the PDO indices and
  Subs,       \*   the subindices it sets them at
  MaxForeign, \* bound: the application stops after so many unsuitable values
  Unset       \* no value was set yet

Address == 0..(Size - 1)

\* ec_slave: where SOEM mapped a direction of a slave.  A slave with less than a
\* byte shares its byte with its neighbours, beginning at bit `start`.
Area == [base : Address, bits : Nat, bytes : Nat, start : Bits]
SlaveType == [outputs : Area, inputs : Area]

EntryType == [sm : {"Outputs", "Inputs"}, type : Types,
              byte : Nat, bit : Bits, len : Nat]
PdoType == [idx : Nat, entries : Seq(EntryType)]
BusType == [slaves : Seq(SlaveType), pdos : Seq(Seq(PdoType))]

ASSUME SizeAssumption == Size \in Nat \ {0}
ASSUME BusesAssumption ==
  \A b \in Buses :
    /\ \A s \in DOMAIN b.slaves : b.slaves[s] \in SlaveType
    /\ \A s \in DOMAIN b.pdos : \A p \in DOMAIN b.pdos[s] :
         /\ b.pdos[s][p].idx \in Nat
         /\ \A k \in DOMAIN b.pdos[s][p].entries :
              b.pdos[s][p].entries[k] \in EntryType
ASSUME ValuesAssumption == Values \subseteq ValueType /\ Unset \notin Values
ASSUME BuildAssumption == Checked \in BOOLEAN

VARIABLES
  bus,        \* slave list and PDO table
  image,      \* Ctx.io_map
  result,     \* of the last call, "none" before the first
  last,       \* history: the value each entry was last set to
  foreign     \* history: writes so far whose value did not suit the entry

vars == <<bus, image, result, last, foreign>>

tidy == foreign = 0

----------------------------------------------------------------------------
(* Slices and conversions.                                                 *)

\* Mutant: less than a byte is no byte.
SliceLen_BytesOnly(a) == a.bytes

\* Slave::outputs and Slave::inputs: SOEM counts no byte for less than 8 bits.
SliceLen(a) == IF a.bytes = 0 /\ a.bits > 0 THEN 1 ELSE a.bytes
Slice(a) == {i \in Address : a.base <= i /\ i < a.base + SliceLen(a)}

AreaOf(s, e) ==
  IF e.sm = "Outputs" THEN bus.slaves[s].outputs ELSE bus.slaves[s].inputs

\* pdo_values, one entry: the bytes the slice is indexed with, and their value.
RawBytes(s, e) ==
  [i \in 1..byte_cnt(e.len) |-> image[AreaOf(s, e).base + e.byte + i - 1]]

ValueOf(s, e) == ValueFromSlice(e.type, RawBytes(s, e), e.bit)

\* The positions of the PDO and of the entry that set_pdo_value finds for the
\* index pdo:sub.  si_pdo_assign indexes the entries of a PDO by their rank.
Lookup(s, pdo, sub) ==
  {at \in (DOMAIN bus.pdos[s]) \X {sub} :
     /\ bus.pdos[s][at[1]].idx = pdo
     /\ \A q \in DOMAIN bus.pdos[s] : q < at[1] => bus.pdos[s][q].idx # pdo
     /\ at[2] \in DOMAIN bus.pdos[s][at[1]].entries}

Entry(s, at) == bus.pdos[s][at[1]].entries[at[2]]

Keys(b) ==
  UNION {{<<s, at>> : at \in UNION {{<<p, k>> : k \in DOMAIN b.pdos[s][p].entries} :
                                     p \in DOMAIN b.pdos[s]}} :
         s \in DOMAIN b.pdos}

\* An entry that covers exactly the bytes, or the bit, of its type.
Whole(e) ==
  \/ e.type = "Bool" /\ e.len = 1
  \/ e.type \in {"U8", "U16"} /\ e.bit = 0 /\ e.len = ByteBits * Width[e.type]

Suits(v, e) == v.type = e.type /\ Whole(e)

----------------------------------------------------------------------------
Init ==
  /\ bus \in Buses
  /\ image = [i \in Address |-> {}]
  /\ result = "none"
  /\ last = [key \in Keys(bus) |-> Unset] /\ foreign = 0

Refuse(err) ==
  /\ result' = err
  /\ UNCHANGED <<bus, image, last, foreign>>

\* The write is complete.
Done(s, at, v) ==
  /\ result' = "Ok"
  /\ last' = [last EXCEPT ![<<s, at>>] = v]
  /\ UNCHANGED bus

\* An index beyond the slice; the bytes before it have been written.
Panic ==
  /\ result' = "panic"
  /\ UNCHANGED <<bus, last>>

\* Mutants: the mask is assigned; it is shifted by the offset within the slave.
WithBit_Assigns(old, e, b) == IF b = {0} THEN {e.bit} ELSE {}
WithBit_Absolute(old, e, b) ==
  IF b = {0} THEN old \cup {e.byte * ByteBits + e.bit} ELSE old \ {e.bit}

\* outputs_mut()[offset.byte] |= mask, or &= !mask.  Any first byte but 1 clears.
WithBit(old, e, b) == IF b = {0} THEN old \cup {e.bit} ELSE old \ {e.bit}

\* The branch of an entry of type Bool: one bit is written, as the first byte of
\* whatever value was given says.
WriteBit(s, at, v) ==
  LET e == Entry(s, at)
      out == bus.slaves[s].outputs
      possible == /\ e.byte < SliceLen(out) /\ Len(v.bytes) > 0
                  /\ Checked => Len(v.bytes) = 1
  IN  /\ e.type = "Bool"
      /\ \/ /\ possible
            /\ image' = [image EXCEPT ![out.base + e.byte] = WithBit(@, e, v.bytes[1])]
            /\ Done(s, at, v)
         \/ ~possible /\ Panic /\ UNCHANGED image

\* Mutant: a raw pointer, whose index nobody checks.
Reached_Unchecked(out, first, n) == {i \in Address : first <= i /\ i < first + n}

\* The bytes that n bytes written from `first` on reach before the panic.
Reached(out, first, n) == {i \in Slice(out) : first <= i /\ i < first + n}

\* The branch of every other type: the bytes of the value, from offset.byte on.
\* No index is taken for an empty value.
WriteBytes(s, at, v) ==
  LET e == Entry(s, at)
      out == bus.slaves[s].outputs
      first == out.base + e.byte
      overruns == Len(v.bytes) > 0 /\ e.byte + Len(v.bytes) > SliceLen(out)
  IN  /\ e.type # "Bool"
      /\ image' = [i \in Address |-> IF i \in Reached(out, first, Len(v.bytes))
                                     THEN v.bytes[i - first + 1]
                                     ELSE image[i]]
      /\ \/ ~overruns /\ Done(s, at, v)
         \/ overruns /\ Panic

\* set_pdo_value(slave, idx, v), from the lookup to the write.
SetPdoValue(s, pdo, sub, v) ==
  \/ s \notin DOMAIN bus.pdos /\ Refuse("SlaveNotFound")
  \/ /\ s \in DOMAIN bus.pdos /\ Lookup(s, pdo, sub) = {}
     /\ Refuse("PdoEntryNotFound")
  \/ /\ s \in DOMAIN bus.pdos
     /\ \E at \in Lookup(s, pdo, sub) :
          \/ Entry(s, at).sm # "Outputs" /\ Refuse("InvalidSmType")
          \/ /\ Entry(s, at).sm = "Outputs"
             /\ \/ s \notin DOMAIN bus.slaves /\ Refuse("SlaveNotFound")
                \/ /\ s \in DOMAIN bus.slaves /\ ~Convertible(v)
                   /\ Refuse("UnsuportedValue")
                \/ /\ s \in DOMAIN bus.slaves /\ Convertible(v)
                   /\ WriteBit(s, at, v) \/ WriteBytes(s, at, v)
                   /\ foreign' = IF Suits(v, Entry(s, at)) THEN foreign ELSE foreign + 1

\* Any slave position and any PDO entry index may be asked for.
Set ==
  /\ foreign < MaxForeign
  /\ \E s \in 1..(Len(bus.slaves) + 1), pdo \in PdoIdxs, sub \in Subs, v \in Values :
       SetPdoValue(s, pdo, sub, v)

InputBytes == UNION {Slice(bus.slaves[s].inputs) : s \in DOMAIN bus.slaves}

\* receive_processdata: SOEM copies what the slaves delivered into their inputs.
Receive ==
  /\ \E i \in InputBytes, b \in Byte : image' = [image EXCEPT ![i] = b]
  /\ UNCHANGED <<bus, result, last, foreign>>

\* pdo_values as far as it can fail: every entry of the table is sliced out of
\* the area of the slave at its position, and value_from_slice asserts that
\* there is something to convert.
Sliceable(s, e) ==
  /\ e.byte + byte_cnt(e.len) <= SliceLen(AreaOf(s, e))
  /\ Checked => e.len > 0

AllSliceable ==
  \A s \in DOMAIN bus.pdos \cap DOMAIN bus.slaves : \A p \in DOMAIN bus.pdos[s] :
    \A k \in DOMAIN bus.pdos[s][p].entries : Sliceable(s, Entry(s, <<p, k>>))

PdoValues ==
  /\ \/ result' = "values" /\ AllSliceable
     \/ result' = "panic" /\ ~AllSliceable
  /\ UNCHANGED <<bus, image, last, foreign>>

Next == Set \/ PdoValues \/ Receive

Spec == Init /\ [][Next]_vars
----------------------------------------------------------------------------
(* Properties                                                              *)

\* Type invariant of the image and of what is known about it.
TypeOK ==
  /\ bus \in Buses
  /\ image \in [Address -> Byte]
  /\ result \in {"none", "Ok", "values", "panic", "SlaveNotFound",
                 "PdoEntryNotFound", "InvalidSmType", "UnsuportedValue"}
  /\ last \in [Keys(bus) -> Values \cup {Unset}]
  /\ foreign \in Nat

\* The bits of the I/O map that are entry e of slave s, if it is Whole.
Cells(s, e) ==
  IF e.type = "Bool"
  THEN {<<AreaOf(s, e).base + e.byte, e.bit>>}
  ELSE {<<AreaOf(s, e).base + e.byte + i - 1, x>> : i \in 1..Width[e.type], x \in Bits}

\* The bytes SOEM reserves for an area, and the number of bytes n bits fill.
Reserved(a) == IF a.bits < ByteBits THEN (IF a.bits = 0 THEN 0 ELSE 1) ELSE a.bytes
Fills(len, n) == len <= n * ByteBits /\ (n > 0 => (n - 1) * ByteBits < len)

\* Areas as ec_slave describes them, and entries that end within their area.
SoundArea(a) ==
  /\ a.bits < ByteBits <=> a.bytes = 0
  /\ a.base + Reserved(a) <= Size

FitsArea(e, a) ==
  /\ Checked => e.len > 0
  /\ \E n \in 0..Reserved(a) : Fills(e.len, n) /\ e.byte + n <= Reserved(a)

\* Entries of different keys share no bit, outputs share no byte with inputs.
Separate ==
  /\ \A j, k \in Keys(bus) :
       LET ej == Entry(j[1], j[2])
           ek == Entry(k[1], k[2])
       IN  j # k /\ Whole(ej) /\ Whole(ek) =>
             Cells(j[1], ej) \cap Cells(k[1], ek) = {}
  /\ \A key \in Keys(bus) :
       LET e == Entry(key[1], key[2])
       IN  e.sm = "Outputs" /\ Whole(e) =>
             \A c \in Cells(key[1], e) : c[1] \notin InputBytes

\* What has to be true of the bus for set_pdo_value and pdo_values to be safe:
\* the table is that of the slaves, and its layouts are those SOEM has mapped.
SoundBus ==
  /\ DOMAIN bus.pdos \subseteq DOMAIN bus.slaves
  /\ \A s \in DOMAIN bus.slaves :
       SoundArea(bus.slaves[s].outputs) /\ SoundArea(bus.slaves[s].inputs)
  /\ \A key \in Keys(bus) :
       FitsArea(Entry(key[1], key[2]), AreaOf(key[1], Entry(key[1], key[2])))
  /\ Separate

\* On a sound bus, pdo_values returns for every output what set_pdo_value last
\* put there, however many entries of the same byte, of other slaves and of
\* inputs were written in between.
ReadBack ==
  SoundBus /\ tidy =>
    \A key \in Keys(bus) :
      last[key] # Unset => ValueOf(key[1], Entry(key[1], key[2])) = {last[key]}

\* On a sound bus, neither a write of an entry's own type nor a read panics.
NoPanic == SoundBus /\ tidy => result # "panic"

\* Whatever type and length the value has and whatever the PDO table says: a
\* call that fails changes nothing, and one that writes, even if it panics half
\* way, changes only bytes of the outputs of one slave.
WritesStayInSlave ==
  [][LET changed == {i \in Address : image'[i] # image[i]}
     IN  \/ changed \subseteq InputBytes /\ result' = result
         \/ changed = {}
         \/ /\ result' \in {"Ok", "panic"}
            /\ \E s \in DOMAIN bus.slaves : changed \subseteq Slice(bus.slaves[s].outputs)
    ]_vars

----------------------------------------------------------------------------
(* What the repository says of the process image, and the code does not keep. *)

\* ctx/slave.rs:84: Ostartbit is the bit of the first output byte a slave's
\* outputs start at.  A Bool that was set on a slave with less than a byte of
\* outputs is the bit that lies e.bit behind it.
BitsBeginAtStartBit ==
  tidy => \A key \in Keys(bus) :
    LET e == Entry(key[1], key[2])
        out == bus.slaves[key[1]].outputs
    IN  e.type = "Bool" /\ e.sm = "Outputs" /\ last[key] # Unset /\ out.bytes = 0 =>
          (out.start + e.bit \in image[out.base]) = (last[key].bytes[1] = {0})
============================================================================
