------------------------- MODULE ProcessImage_proofs -------------------------
(***************************************************************************)
(* Theorems about ProcessImage, for images, slave lists and PDO tables of  *)
(* any size and bytes of any number of bits.                               *)
(***************************************************************************)
EXTENDS ProcessImage, SequenceTheorems, TLAPS

----------------------------------------------------------------------------
(* Types                                                                   *)

\* What a lookup finds is an entry of the table.
LEMMA LookupType ==
  ASSUME bus \in Buses, NEW s \in DOMAIN bus.pdos, NEW pdo, NEW sub,
         NEW at \in Lookup(s, pdo, sub)
  PROVE  Entry(s, at) \in EntryType /\ <<s, at>> \in Keys(bus)
<1>1. /\ at[1] \in DOMAIN bus.pdos[s] /\ at = <<at[1], at[2]>>
      /\ at[2] \in DOMAIN bus.pdos[s][at[1]].entries
  BY DEF Lookup
<1>2. Entry(s, at) \in EntryType
  BY <1>1, BusesAssumption DEF Entry
<1>3. <<s, at>> \in Keys(bus)
  <2>1. at \in {<<at[1], k>> : k \in DOMAIN bus.pdos[s][at[1]].entries}
    BY <1>1
  <2>2. at \in UNION {{<<p, k>> : k \in DOMAIN bus.pdos[s][p].entries} :
                        p \in DOMAIN bus.pdos[s]}
    BY <1>1, <2>1
  <2>3. QED
    BY <2>2 DEF Keys
<1>4. QED
  BY <1>2, <1>3

LEMMA AreaType ==
  ASSUME bus \in Buses, NEW s \in DOMAIN bus.slaves
  PROVE  bus.slaves[s].outputs \in Area /\ bus.slaves[s].inputs \in Area
  BY BusesAssumption DEF SlaveType

LEMMA ValueBytes ==
  ASSUME NEW v \in Values
  PROVE  /\ v.bytes \in Seq(Byte) /\ Len(v.bytes) \in Nat
         /\ \A i \in 1..Len(v.bytes) : v.bytes[i] \in Byte
<1>1. v.bytes \in Seq(Byte)
  BY ValuesAssumption DEF ValueType
<1>2. QED
  BY <1>1

LEMMA WriteBitType ==
  ASSUME TypeOK, NEW s \in DOMAIN bus.slaves, NEW at, NEW v \in Values,
         Entry(s, at) \in EntryType, WriteBit(s, at, v)
  PROVE  image' \in [Address -> Byte]
<1> DEFINE e == Entry(s, at)
           i == bus.slaves[s].outputs.base + e.byte
<1>1. CASE image' = [image EXCEPT ![i] = WithBit(@, e, v.bytes[1])]
  <2>1. e.bit \in Bits
    BY DEF EntryType
  <2>2. \A old \in Byte : WithBit(old, e, v.bytes[1]) \in Byte
    BY <2>1 DEF WithBit, Byte
  <2>3. QED
    BY <1>1, <2>2 DEF TypeOK
<1>2. CASE UNCHANGED image
  BY <1>2 DEF TypeOK
<1>3. QED
  BY <1>1, <1>2 DEF WriteBit

LEMMA WriteBytesType ==
  ASSUME TypeOK, NEW s \in DOMAIN bus.slaves, NEW at, NEW v \in Values,
         Entry(s, at) \in EntryType, WriteBytes(s, at, v)
  PROVE  image' \in [Address -> Byte]
<1> DEFINE out == bus.slaves[s].outputs
           first == out.base + Entry(s, at).byte
<1>1. first \in Nat
  BY AreaType DEF TypeOK, Area, EntryType, Address
<1>2. ASSUME NEW i \in Reached(out, first, Len(v.bytes))
      PROVE  v.bytes[i - first + 1] \in Byte
  <2>1. i \in Nat /\ first <= i /\ i < first + Len(v.bytes)
    BY DEF Reached, Slice, Address
  <2>2. i - first + 1 \in 1..Len(v.bytes)
    BY <1>1, <2>1, ValueBytes
  <2>3. QED
    BY <2>2, ValueBytes
<1>3. image' = [i \in Address |-> IF i \in Reached(out, first, Len(v.bytes))
                                  THEN v.bytes[i - first + 1] ELSE image[i]]
  BY DEF WriteBytes
<1> HIDE DEF out, first
<1>4. QED
  BY <1>2, <1>3 DEF TypeOK

LEMMA TypeOKInit == Init => TypeOK
  BY DEF Init, TypeOK, Byte

\* A call of set_pdo_value is refused, or it goes through one of the two branches.
LEMMA SetCases ==
  ASSUME TypeOK, NEW s, NEW pdo, NEW sub, NEW v \in Values, SetPdoValue(s, pdo, sub, v)
  PROVE  \/ /\ UNCHANGED <<bus, image, last, foreign>>
            /\ result' \in {"SlaveNotFound", "PdoEntryNotFound", "InvalidSmType",
                            "UnsuportedValue"}
         \/ /\ s \in DOMAIN bus.pdos /\ s \in DOMAIN bus.slaves /\ Convertible(v)
            /\ \E at \in Lookup(s, pdo, sub) :
                 /\ Entry(s, at).sm = "Outputs"
                 /\ WriteBit(s, at, v) \/ WriteBytes(s, at, v)
                 /\ foreign' = IF Suits(v, Entry(s, at)) THEN foreign ELSE foreign + 1
  BY DEF SetPdoValue, Refuse

LEMMA TypeOKNext == TypeOK /\ [Next]_vars => TypeOK'
<1> SUFFICES ASSUME TypeOK, [Next]_vars PROVE TypeOK'
  OBVIOUS
<1>1. ASSUME NEW s, NEW pdo, NEW sub, NEW v \in Values, SetPdoValue(s, pdo, sub, v)
      PROVE  TypeOK'
  <2>1. CASE /\ UNCHANGED <<bus, image, last, foreign>>
             /\ result' \in {"SlaveNotFound", "PdoEntryNotFound", "InvalidSmType",
                             "UnsuportedValue"}
    BY <2>1 DEF TypeOK
  <2>2. ASSUME s \in DOMAIN bus.pdos, s \in DOMAIN bus.slaves,
               NEW at \in Lookup(s, pdo, sub),
               WriteBit(s, at, v) \/ WriteBytes(s, at, v),
               foreign' = IF Suits(v, Entry(s, at)) THEN foreign ELSE foreign + 1
        PROVE  TypeOK'
    <3>1. Entry(s, at) \in EntryType
      BY <2>2, LookupType DEF TypeOK
    <3>2. image' \in [Address -> Byte]
      BY <2>2, <3>1, WriteBitType, WriteBytesType
    <3>3. (Done(s, at, v) \/ Panic) /\ foreign' \in Nat
      BY <2>2 DEF WriteBit, WriteBytes, TypeOK
    <3>4. CASE Done(s, at, v)
      <4>1. last' \in [Keys(bus) -> Values \cup {Unset}] /\ result' = "Ok" /\ bus' = bus
        BY <3>4 DEF Done, TypeOK
      <4>2. QED
        BY <3>2, <3>3, <4>1 DEF TypeOK
    <3>5. CASE Panic
      BY <3>2, <3>3, <3>5 DEF Panic, TypeOK
    <3>6. QED
      BY <3>3, <3>4, <3>5
  <2>3. QED
    BY <1>1, <2>1, <2>2, SetCases
<1>2. CASE PdoValues
  BY <1>2 DEF PdoValues, TypeOK
<1>3. CASE Receive
  BY <1>3 DEF Receive, TypeOK
<1>4. CASE UNCHANGED vars
  BY <1>4 DEF vars, TypeOK
<1>5. QED
  BY <1>1, <1>2, <1>3, <1>4 DEF Next, Set

\* The image and what is known about it keep their types, whatever is set.
THEOREM TypeCorrect == Spec => []TypeOK
  BY TypeOKInit, TypeOKNext, PTL DEF Spec

----------------------------------------------------------------------------
(* Where writes go                                                         *)

Changed == {i \in Address : image'[i] # image[i]}

LEMMA WriteBitStays ==
  ASSUME TypeOK, NEW s \in DOMAIN bus.slaves, NEW at, NEW v \in Values,
         Entry(s, at) \in EntryType, WriteBit(s, at, v)
  PROVE  Changed \subseteq Slice(bus.slaves[s].outputs)
<1> DEFINE out == bus.slaves[s].outputs
           e == Entry(s, at)
<1>1. CASE UNCHANGED image
  BY <1>1 DEF Changed
<1>2. CASE /\ e.byte < SliceLen(out)
           /\ image' = [image EXCEPT ![out.base + e.byte] = WithBit(@, e, v.bytes[1])]
  <2>1. Changed \subseteq Address \cap {out.base + e.byte}
    BY <1>2 DEF Changed, TypeOK
  <2>2. out.base \in Nat /\ e.byte \in Nat /\ SliceLen(out) \in Nat
    BY AreaType DEF TypeOK, Area, EntryType, Address, SliceLen
  <2> HIDE DEF out, e
  <2>3. out.base <= out.base + e.byte /\ out.base + e.byte < out.base + SliceLen(out)
    BY <1>2, <2>2
  <2>4. QED
    BY <2>1, <2>3 DEF Slice, out
<1>3. QED
  BY <1>1, <1>2 DEF WriteBit

LEMMA WriteBytesStays ==
  ASSUME NEW s, NEW at, NEW v, WriteBytes(s, at, v)
  PROVE  Changed \subseteq Slice(bus.slaves[s].outputs)
  BY DEF WriteBytes, Changed, Reached

\* A call that fails changes nothing. A write, of a value of any type and length
\* and even by a call that panics, stays in the outputs of one slave.
THEOREM WritesContained == Spec => WritesStayInSlave
<1> DEFINE Stays ==
             \/ Changed \subseteq InputBytes /\ result' = result
             \/ Changed = {}
             \/ /\ result' \in {"Ok", "panic"}
                /\ \E s \in DOMAIN bus.slaves : Changed \subseteq Slice(bus.slaves[s].outputs)
<1>1. ASSUME TypeOK, Next PROVE Stays
  <2>1. ASSUME NEW s, NEW pdo, NEW sub, NEW v \in Values, SetPdoValue(s, pdo, sub, v)
        PROVE  Stays
    <3>1. CASE UNCHANGED image
      BY <3>1 DEF Changed
    <3>2. ASSUME s \in DOMAIN bus.pdos, s \in DOMAIN bus.slaves,
                 NEW at \in Lookup(s, pdo, sub),
                 WriteBit(s, at, v) \/ WriteBytes(s, at, v)
          PROVE  Stays
      <4>1. Entry(s, at) \in EntryType
        BY <1>1, <3>2, LookupType DEF TypeOK
      <4>2. Changed \subseteq Slice(bus.slaves[s].outputs)
        BY <1>1, <3>2, <4>1, WriteBitStays, WriteBytesStays
      <4>3. result' \in {"Ok", "panic"}
        BY <3>2 DEF WriteBit, WriteBytes, Done, Panic
      <4>4. QED
        BY <3>2, <4>2, <4>3
    <3>3. QED
      BY <1>1, <2>1, <3>1, <3>2, SetCases
  <2>2. CASE PdoValues
    BY <2>2 DEF PdoValues, Changed
  <2>3. CASE Receive
    <3>1. PICK i \in InputBytes, b \in Byte : image' = [image EXCEPT ![i] = b]
      BY <2>3 DEF Receive
    <3>2. Changed \subseteq {i} /\ result' = result
      BY <1>1, <2>3, <3>1 DEF Changed, TypeOK, Receive
    <3>3. QED
      BY <3>1, <3>2
  <2>4. QED
    BY <1>1, <2>1, <2>2, <2>3 DEF Next, Set
<1>2. TypeOK /\ [Next]_vars => [Stays]_vars
  BY <1>1
<1>3. [Stays]_vars <=> [LET changed == {i \in Address : image'[i] # image[i]}
     IN  \/ changed \subseteq InputBytes /\ result' = result
         \/ changed = {}
         \/ /\ result' \in {"Ok", "panic"}
            /\ \E s \in DOMAIN bus.slaves : changed \subseteq Slice(bus.slaves[s].outputs)
    ]_vars
  BY DEF Changed
<1>4. QED
  BY <1>2, <1>3, TypeCorrect, PTL DEF Spec, WritesStayInSlave

----------------------------------------------------------------------------
(* Numbers of bytes                                                        *)

LEMMA Division ==
  ASSUME NEW a \in Nat, NEW b \in Nat \ {0}
  PROVE  /\ a \div b \in Nat /\ a % b \in Nat /\ a % b < b
         /\ a = b * (a \div b) + (a % b)
  OBVIOUS

LEMMA Product ==
  ASSUME NEW m \in Nat, NEW n \in Nat, NEW b \in Nat \ {0}, m < n
  PROVE  m * b \in Nat /\ n * b \in Nat /\ m * b + b <= n * b
  OBVIOUS

\* byte_cnt rounds up: it is the number of bytes the bits fill.
LEMMA ByteCount ==
  ASSUME NEW len \in Nat, NEW n \in Nat, Fills(len, n)
  PROVE  byte_cnt(len) = n
<1> DEFINE q == len \div ByteBits
           r == len % ByteBits
<1>1. ByteBits \in Nat \ {0}
  BY ByteAssumption, SizeAssumption
<1>2. /\ q \in Nat /\ r \in Nat /\ r < ByteBits
      /\ len = ByteBits * q + r
  BY <1>1, Division
<1>3. len <= n * ByteBits /\ (n > 0 => (n - 1) * ByteBits < len)
  BY DEF Fills
<1>4. byte_cnt(len) = IF r = 0 THEN q ELSE q + 1
  BY DEF byte_cnt
<1> HIDE DEF q, r
<1>5. ByteBits * q = q * ByteBits /\ q * ByteBits \in Nat /\ n * ByteBits \in Nat
  BY <1>1, <1>2
<1>6. q <= n
  <2>1. CASE n < q
    <3>1. n * ByteBits + ByteBits <= q * ByteBits
      BY <1>1, <1>2, <2>1, Product
    <3>2. QED
      BY <1>1, <1>2, <1>3, <1>5, <3>1
  <2>2. QED
    BY <1>2, <2>1
<1>7. CASE n = 0
  <2>0. n * ByteBits = 0
    BY <1>1, <1>7
  <2>1. len = 0 /\ q = 0
    BY <1>2, <1>3, <1>6, <1>7, <2>0
  <2>2. r = 0
    BY <1>2, <1>5, <2>1
  <2>3. QED
    BY <1>4, <1>7, <2>1, <2>2
<1>8. CASE n > 0
  <2>1. n - 1 \in Nat /\ (n - 1) * ByteBits \in Nat /\ (n - 1) * ByteBits < len
    BY <1>1, <1>3, <1>8
  <2>2. ~(q < n - 1)
    <3>1. CASE q < n - 1
      <4>1. q * ByteBits + ByteBits <= (n - 1) * ByteBits
        BY <1>1, <1>2, <2>1, <3>1, Product
      <4>2. QED
        BY <1>1, <1>2, <1>5, <2>1, <4>1
    <3>2. QED
      BY <3>1
  <2>3. q = n - 1 \/ q = n
    BY <1>2, <1>6, <1>8, <2>2
  <2>4. CASE q = n - 1
    <3>1. r # 0
      BY <1>2, <1>5, <2>1, <2>4
    <3>2. QED
      BY <1>4, <1>8, <2>4, <3>1
  <2>5. CASE q = n
    BY <1>2, <1>3, <1>4, <1>5, <2>5
  <2>6. QED
    BY <2>3, <2>4, <2>5
<1>9. QED
  BY <1>7, <1>8

LEMMA SoundLength ==
  ASSUME NEW a \in Area, SoundArea(a)
  PROVE  SliceLen(a) = Reserved(a) /\ SliceLen(a) \in Nat
  BY ByteAssumption, SizeAssumption DEF Area, SoundArea, SliceLen, Reserved, Bits

\* The bytes of a whole entry.
Bytes(e) == IF e.type = "Bool" THEN 1 ELSE Width[e.type]

LEMMA WholeFills ==
  ASSUME NEW e \in EntryType, Whole(e), NEW n \in Nat, Fills(e.len, n)
  PROVE  n = Bytes(e) /\ byte_cnt(e.len) = n /\ n \in {1, 2}
<1>1. e.len \in Nat /\ e.type \in Types
  BY DEF EntryType
<1>2. byte_cnt(e.len) = n
  BY <1>1, ByteCount
<1>3. ByteBits \in Nat \ {0}
  BY ByteAssumption, SizeAssumption
<1>4. CASE e.type = "Bool" /\ e.len = 1
  <2>1. byte_cnt(1) = 1
    <3>1. CASE ByteBits = 1
      BY <3>1 DEF byte_cnt
    <3>2. CASE ByteBits > 1
      <4>1. 1 % ByteBits = 1 /\ 1 \div ByteBits = 0
        BY <1>3, <3>2
      <4>2. QED
        BY <4>1 DEF byte_cnt
    <3>3. QED
      BY <1>3, <3>1, <3>2
  <2>2. QED
    BY <1>2, <1>4, <2>1 DEF Bytes
<1>5. ASSUME NEW w \in {1, 2}, e.len = ByteBits * w
      PROVE  byte_cnt(e.len) = w
  <2>1. (ByteBits * w) % ByteBits = 0 /\ (ByteBits * w) \div ByteBits = w
    BY <1>3
  <2>2. QED
    BY <1>5, <2>1 DEF byte_cnt
<1>6. CASE e.type \in {"U8", "U16"} /\ e.len = ByteBits * Width[e.type]
  <2>1. Width[e.type] \in {1, 2} /\ Bytes(e) = Width[e.type]
    BY <1>6 DEF Width, Bytes
  <2>2. QED
    BY <1>2, <1>5, <1>6, <2>1
<1>7. QED
  BY <1>4, <1>6 DEF Whole

----------------------------------------------------------------------------
(* Panics                                                                  *)

\* Whether the bus is sound depends on the bus only.
LEMMA SoundBusKept ==
  ASSUME bus' = bus PROVE SoundBus' <=> SoundBus
<1>1. \A s, e : AreaOf(s, e)' = AreaOf(s, e)
  BY DEF AreaOf
<1>2. \A s, at : Entry(s, at)' = Entry(s, at)
  BY DEF Entry
<1>3. InputBytes' = InputBytes
  BY DEF InputBytes
<1>4. \A s, e : Cells(s, e)' = Cells(s, e)
  BY DEF Cells, AreaOf
<1>5. Separate' <=> Separate
  BY <1>2, <1>3, <1>4 DEF Separate
<1>6. \A key : FitsArea(Entry(key[1], key[2]), AreaOf(key[1], Entry(key[1], key[2])))'
          = FitsArea(Entry(key[1], key[2]), AreaOf(key[1], Entry(key[1], key[2])))
  BY <1>1, <1>2
<1>7. QED
  BY <1>5, <1>6 DEF SoundBus

\* On a sound bus every entry of the table is inside the area of its slave.
LEMMA SoundEntry ==
  ASSUME TypeOK, SoundBus, NEW s, NEW at, <<s, at>> \in Keys(bus),
         Entry(s, at) \in EntryType
  PROVE  /\ s \in DOMAIN bus.slaves
         /\ AreaOf(s, Entry(s, at)) \in Area
         /\ SoundArea(AreaOf(s, Entry(s, at)))
         /\ \E n \in Nat : /\ Fills(Entry(s, at).len, n)
                           /\ Entry(s, at).byte + n <= SliceLen(AreaOf(s, Entry(s, at)))
         /\ Checked => Entry(s, at).len > 0
<1> DEFINE a == AreaOf(s, Entry(s, at))
<1>1. s \in DOMAIN bus.slaves
  BY DEF Keys, SoundBus
<1>2. a \in Area /\ SoundArea(a)
  BY <1>1, AreaType DEF TypeOK, AreaOf, SoundBus
<1>3. FitsArea(Entry(s, at), a)
  BY DEF SoundBus
<1> HIDE DEF a
<1>4. SliceLen(a) = Reserved(a) /\ SliceLen(a) \in Nat
  BY <1>2, SoundLength
<1>5. QED
  BY <1>1, <1>2, <1>3, <1>4 DEF FitsArea, a

LEMMA SoundReads ==
  ASSUME TypeOK, SoundBus PROVE AllSliceable
<1> SUFFICES ASSUME NEW s \in DOMAIN bus.pdos \cap DOMAIN bus.slaves,
                    NEW p \in DOMAIN bus.pdos[s],
                    NEW k \in DOMAIN bus.pdos[s][p].entries
             PROVE  Sliceable(s, Entry(s, <<p, k>>))
  BY DEF AllSliceable
<1> DEFINE e == Entry(s, <<p, k>>)
<1>1. e \in EntryType /\ <<s, <<p, k>>>> \in Keys(bus)
  <2>1. e = bus.pdos[s][p].entries[k]
    BY DEF Entry
  <2>2. e \in EntryType
    BY <2>1, BusesAssumption DEF TypeOK
  <2>3. <<p, k>> \in UNION {{<<q, j>> : j \in DOMAIN bus.pdos[s][q].entries} :
                              q \in DOMAIN bus.pdos[s]}
    OBVIOUS
  <2>4. QED
    BY <2>2, <2>3 DEF Keys
<1>2. PICK n \in Nat : Fills(e.len, n) /\ e.byte + n <= SliceLen(AreaOf(s, e))
  BY <1>1, SoundEntry
<1>3. byte_cnt(e.len) = n
  BY <1>1, <1>2, ByteCount DEF EntryType
<1>4. Checked => e.len > 0
  BY <1>1, SoundEntry
<1>5. QED
  BY <1>2, <1>3, <1>4 DEF Sliceable

\* On a sound bus a suitable value is written without a panic.
LEMMA SoundWrites ==
  ASSUME TypeOK, SoundBus, NEW s \in DOMAIN bus.slaves, NEW at, <<s, at>> \in Keys(bus),
         Entry(s, at) \in EntryType, Entry(s, at).sm = "Outputs",
         NEW v \in Values, Suits(v, Entry(s, at)),
         WriteBit(s, at, v) \/ WriteBytes(s, at, v)
  PROVE  Done(s, at, v)
<1> DEFINE e == Entry(s, at)
           out == bus.slaves[s].outputs
<1>1. PICK n \in Nat : Fills(e.len, n) /\ e.byte + n <= SliceLen(out)
  BY SoundEntry DEF AreaOf
<1>2. n = Bytes(e) /\ v.type = e.type
  BY <1>1, WholeFills DEF Suits
<1>3. v.type \in {"Bool", "U8", "U16"}
  BY DEF Suits, Whole
<1>4. Len(v.bytes) = Width[v.type]
  BY <1>3, ValuesAssumption DEF ValueType, Width
<1>5. Len(v.bytes) = n /\ (e.type = "Bool" => n = 1)
  BY <1>2, <1>3, <1>4 DEF Bytes, Width
<1>6. e.byte \in Nat /\ SliceLen(out) \in Nat
  BY AreaType DEF TypeOK, EntryType, Area, SliceLen
<1>7. CASE WriteBit(s, at, v)
  <2>1. e.type = "Bool"
    BY <1>7 DEF WriteBit
  <2>2. e.byte < SliceLen(out) /\ Len(v.bytes) = 1
    BY <1>1, <1>5, <1>6, <2>1
  <2>3. QED
    BY <1>7, <2>2 DEF WriteBit
<1>8. CASE WriteBytes(s, at, v)
  <2>1. e.byte + Len(v.bytes) <= SliceLen(out)
    BY <1>1, <1>5
  <2>2. ~(e.byte + Len(v.bytes) > SliceLen(out))
    BY <1>1, <1>5, <1>6, <2>1
  <2>3. QED
    BY <1>8, <2>2 DEF WriteBytes
<1>9. QED
  BY <1>7, <1>8

\* On a sound bus nothing panics: neither pdo_values, nor set_pdo_value with values
\* that suit their entries.
THEOREM NeverPanics == Spec => []NoPanic
<1>1. Init => NoPanic
  BY DEF Init, NoPanic
<1>2. ASSUME TypeOK, NoPanic, [Next]_vars PROVE NoPanic'
  <2>1. ASSUME NEW s, NEW pdo, NEW sub, NEW v \in Values, SetPdoValue(s, pdo, sub, v)
        PROVE  NoPanic'
    <3>1. CASE result' \in {"SlaveNotFound", "PdoEntryNotFound", "InvalidSmType",
                            "UnsuportedValue"}
      BY <3>1 DEF NoPanic
    <3>2. ASSUME s \in DOMAIN bus.pdos, s \in DOMAIN bus.slaves,
                 NEW at \in Lookup(s, pdo, sub), Entry(s, at).sm = "Outputs",
                 WriteBit(s, at, v) \/ WriteBytes(s, at, v),
                 foreign' = IF Suits(v, Entry(s, at)) THEN foreign ELSE foreign + 1
          PROVE  NoPanic'
      <4>1. Entry(s, at) \in EntryType /\ <<s, at>> \in Keys(bus)
        BY <1>2, <3>2, LookupType DEF TypeOK
      <4>2. bus' = bus
        BY <3>2 DEF WriteBit, WriteBytes, Done, Panic
      <4>3. SoundBus' => SoundBus
        BY <4>2, SoundBusKept
      <4>4. tidy' => Suits(v, Entry(s, at))
        BY <1>2, <3>2 DEF tidy, TypeOK
      <4>5. SoundBus /\ Suits(v, Entry(s, at)) => Done(s, at, v)
        BY <1>2, <3>2, <4>1, SoundWrites
      <4>6. QED
        BY <4>3, <4>4, <4>5 DEF NoPanic, Done
    <3>3. QED
      BY <1>2, <2>1, <3>1, <3>2, SetCases
  <2>2. CASE PdoValues
    <3>1. SoundBus' => SoundBus
      BY <2>2, SoundBusKept DEF PdoValues
    <3>2. SoundBus => result' # "panic"
      BY <1>2, <2>2, SoundReads DEF PdoValues
    <3>3. QED
      BY <3>1, <3>2 DEF NoPanic
  <2>3. CASE Receive \/ UNCHANGED vars
    <3>1. (SoundBus' => SoundBus) /\ (tidy' => tidy) /\ result' = result
      BY <2>3, SoundBusKept DEF Receive, vars, tidy
    <3>2. QED
      BY <1>2, <3>1 DEF NoPanic
  <2>4. QED
    BY <1>2, <2>1, <2>2, <2>3 DEF Next, Set
<1>3. QED
  BY <1>1, <1>2, TypeCorrect, PTL DEF Spec

----------------------------------------------------------------------------
(* Reading back                                                            *)

\* The image im holds the value v in the entry e, in the area a.
Holds(im, a, e, v) ==
  IF e.type = "Bool"
  THEN (e.bit \in im[a.base + e.byte]) <=> (v.bytes[1] = {0})
  ELSE \A i \in 1..Width[e.type] : im[a.base + e.byte + i - 1] = v.bytes[i]

\* What was last set at an entry is suitable, and is still there.
Stored(s, at) ==
  LET e == Entry(s, at)
      v == last[<<s, at>>]
  IN  v # Unset =>
        /\ Suits(v, e) /\ e.sm = "Outputs"
        /\ Holds(image, AreaOf(s, e), e, v)

ReadInv == SoundBus /\ tidy => \A key \in Keys(bus) : Stored(key[1], key[2])

LEMMA KeyType ==
  ASSUME bus \in Buses, NEW key \in Keys(bus)
  PROVE  key = <<key[1], key[2]>> /\ Entry(key[1], key[2]) \in EntryType
<1>1. PICK s \in DOMAIN bus.pdos :
        key \in {<<s, at>> : at \in UNION {{<<p, k>> : k \in DOMAIN bus.pdos[s][p].entries} :
                                             p \in DOMAIN bus.pdos[s]}}
  BY DEF Keys
<1>2. PICK p \in DOMAIN bus.pdos[s] :
        \E k \in DOMAIN bus.pdos[s][p].entries : key = <<s, <<p, k>>>>
  BY <1>1
<1>3. PICK k \in DOMAIN bus.pdos[s][p].entries : key = <<s, <<p, k>>>>
  BY <1>2
<1>4. Entry(key[1], key[2]) = bus.pdos[s][p].entries[k]
  BY <1>3 DEF Entry
<1>5. Entry(key[1], key[2]) \in EntryType
  BY <1>4, BusesAssumption
<1>6. QED
  BY <1>3, <1>5

LEMMA SuitableValue ==
  ASSUME NEW v \in Values, NEW e, Suits(v, e)
  PROVE  /\ v = [type |-> e.type, bytes |-> v.bytes]
         /\ e.type \in {"Bool", "U8", "U16"}
         /\ Len(v.bytes) = Width[e.type] /\ v.bytes \in Seq(Byte)
         /\ e.type = "Bool" => v.bytes[1] \in {{}, {0}}
<1>1. v.type = e.type /\ e.type \in {"Bool", "U8", "U16"}
  BY DEF Suits, Whole
<1>2. v \in [type : Types, bytes : Seq(Byte)]
  BY ValuesAssumption DEF ValueType
<1>3. v = [type |-> v.type, bytes |-> v.bytes]
  BY <1>2
<1>4. /\ Len(v.bytes) = Width[v.type]
      /\ v.type = "Bool" => v.bytes[1] \in {{}, {0}}
  BY <1>1, ValuesAssumption DEF ValueType, Width
<1>5. QED
  BY <1>1, <1>2, <1>3, <1>4

\* pdo_values reads what the image holds.
LEMMA HeldIsRead ==
  ASSUME TypeOK, SoundBus, NEW s, NEW at, <<s, at>> \in Keys(bus),
         Entry(s, at) \in EntryType, NEW v \in Values, Suits(v, Entry(s, at)),
         Holds(image, AreaOf(s, Entry(s, at)), Entry(s, at), v)
  PROVE  ValueOf(s, Entry(s, at)) = {v}
<1> DEFINE e == Entry(s, at)
           raw == RawBytes(s, e)
<1>1. PICK n \in Nat : Fills(e.len, n)
  BY SoundEntry
<1>2. n = Bytes(e) /\ byte_cnt(e.len) = n
  BY <1>1, WholeFills DEF Suits
<1>3. /\ v = [type |-> e.type, bytes |-> v.bytes]
      /\ e.type \in {"Bool", "U8", "U16"}
      /\ Len(v.bytes) = Width[e.type] /\ v.bytes \in Seq(Byte)
      /\ e.type = "Bool" => v.bytes[1] \in {{}, {0}}
  BY SuitableValue
<1>4. n = Width[e.type] /\ n \in {1, 2}
  BY <1>2, <1>3 DEF Bytes, Width
<1>5. raw = [i \in 1..n |-> image[AreaOf(s, e).base + e.byte + i - 1]]
  BY <1>2 DEF RawBytes
<1>6. AreaOf(s, e).base \in Nat /\ e.byte \in Nat
  BY SoundEntry DEF Area, Address, EntryType
<1>7. raw[1] = image[AreaOf(s, e).base + e.byte]
  <2>1. raw[1] = image[AreaOf(s, e).base + e.byte + 1 - 1]
    BY <1>4, <1>5
  <2>2. AreaOf(s, e).base + e.byte + 1 - 1 = AreaOf(s, e).base + e.byte
    BY <1>6
  <2>3. QED
    BY <2>1, <2>2
<1>8. raw # <<>> /\ Len(raw) = n
  BY <1>4, <1>5
<1>9. ValueOf(s, e) = ValueFromSlice(e.type, raw, e.bit)
  BY DEF ValueOf
<1>10. CASE e.type = "Bool"
  <2>1. (e.bit \in raw[1]) <=> (v.bytes[1] = {0})
    BY <1>7, <1>10 DEF Holds
  <2>2. v.bytes = <<v.bytes[1]>>
    BY <1>3, <1>10 DEF Width
  <2>3. v.bytes[1] = IF e.bit \in raw[1] THEN {0} ELSE {}
    BY <1>3, <1>10, <2>1
  <2>4. ValueFromSlice("Bool", raw, e.bit)
          = {[type |-> "Bool", bytes |-> <<IF e.bit \in raw[1] THEN {0} ELSE {}>>]}
    BY <1>8 DEF ValueFromSlice
  <2> HIDE DEF e, raw
  <2>5. QED
    BY <1>3, <1>9, <1>10, <2>2, <2>3, <2>4 DEF e
<1>11. CASE e.type # "Bool"
  <2>1. \A i \in 1..n : raw[i] = v.bytes[i]
    BY <1>4, <1>5, <1>11 DEF Holds
  <2>2. raw = v.bytes
    <3>1. v.bytes = [i \in 1..n |-> v.bytes[i]]
      BY <1>3, <1>4
    <3>2. raw = [i \in 1..n |-> raw[i]]
      BY <1>5
    <3> HIDE DEF raw
    <3>3. [i \in 1..n |-> raw[i]] = [i \in 1..n |-> v.bytes[i]]
      BY <2>1
    <3>4. QED
      BY <3>1, <3>2, <3>3
  <2>3. CASE e.type = "U8"
    <3>1. v.bytes = <<raw[1]>>
      BY <1>3, <2>2, <2>3 DEF Width
    <3>2. ValueFromSlice("U8", raw, e.bit) = {[type |-> "U8", bytes |-> <<raw[1]>>]}
      BY <1>8 DEF ValueFromSlice
    <3> HIDE DEF e, raw
    <3>3. QED
      BY <1>3, <1>9, <2>3, <3>1, <3>2 DEF e
  <2>4. CASE e.type = "U16"
    <3>1. Len(raw) = Width["U16"]
      BY <1>4, <1>8, <2>4
    <3>2. ValueFromSlice("U16", raw, e.bit) = {[type |-> "U16", bytes |-> raw]}
      BY <1>8, <3>1 DEF ValueFromSlice
    <3> HIDE DEF e, raw
    <3>3. QED
      BY <1>3, <1>9, <2>2, <2>4, <3>2 DEF e
  <2>5. QED
    BY <1>3, <1>11, <2>3, <2>4
<1>12. QED
  BY <1>10, <1>11

\* The cells of an entry on a sound bus are in its area, and in the image.
LEMMA CellsInside ==
  ASSUME TypeOK, SoundBus, NEW s, NEW at, <<s, at>> \in Keys(bus),
         Entry(s, at) \in EntryType, Whole(Entry(s, at)),
         NEW i \in 1..Bytes(Entry(s, at))
  PROVE  LET a == AreaOf(s, Entry(s, at))
         IN  a.base + Entry(s, at).byte + i - 1 \in Slice(a)
<1> DEFINE e == Entry(s, at)
           a == AreaOf(s, e)
<1>1. PICK n \in Nat : Fills(e.len, n) /\ e.byte + n <= SliceLen(a)
  BY SoundEntry
<1>2. n = Bytes(e)
  BY <1>1, WholeFills
<1>3. a \in Area /\ SoundArea(a) /\ e.byte \in Nat
  BY SoundEntry DEF EntryType
<1>4. a.base \in Nat /\ SliceLen(a) \in Nat /\ a.base + SliceLen(a) <= Size
  BY <1>3, SoundLength DEF Area, Address, SoundArea
<1> DEFINE addr == a.base + e.byte + i - 1
<1>5. addr \in Nat /\ a.base <= addr /\ addr < a.base + SliceLen(a)
  BY <1>1, <1>2, <1>3, <1>4
<1>6. addr \in Address
  BY <1>4, <1>5, ByteAssumption, SizeAssumption DEF Address
<1>7. QED
  BY <1>5, <1>6 DEF Slice

\* A whole write makes the image hold the value, and touches its own cells only.
LEMMA BitWritten ==
  ASSUME TypeOK, SoundBus, NEW s, NEW at, <<s, at>> \in Keys(bus),
         Entry(s, at) \in EntryType, Entry(s, at).sm = "Outputs",
         NEW v \in Values, Suits(v, Entry(s, at)),
         WriteBit(s, at, v), Done(s, at, v)
  PROVE  /\ Holds(image', AreaOf(s, Entry(s, at)), Entry(s, at), v)
         /\ \A a \in Address, x \in Bits :
              <<a, x>> \notin Cells(s, Entry(s, at)) => (x \in image'[a] <=> x \in image[a])
<1> DEFINE e == Entry(s, at)
           out == bus.slaves[s].outputs
           i == out.base + e.byte
<1>1. /\ e.type = "Bool"
      /\ image' = [image EXCEPT ![i] = WithBit(image[i], e, v.bytes[1])]
  BY DEF WriteBit, Done, Panic
<1>2. AreaOf(s, e) = out
  BY DEF AreaOf
<1>3. i \in Address
  <2>1. Whole(e) /\ 1 \in 1..Bytes(e)
    BY <1>1 DEF Suits, Bytes
  <2>2. out.base + e.byte + 1 - 1 \in Slice(out)
    BY <1>2, <2>1, CellsInside
  <2>3. out.base \in Nat /\ e.byte \in Nat
    BY <1>2, SoundEntry DEF Area, Address, EntryType
  <2>4. out.base + e.byte + 1 - 1 = i
    BY <2>3
  <2>5. QED
    BY <2>2, <2>4 DEF Slice
<1>4. Cells(s, e) = {<<i, e.bit>>}
  BY <1>1, <1>2 DEF Cells
<1>5. image'[i] = WithBit(image[i], e, v.bytes[1])
  BY <1>1, <1>3 DEF TypeOK
<1>6. \A a \in Address : a # i => image'[a] = image[a]
  BY <1>1 DEF TypeOK
<1>7. Holds(image', out, e, v)
  BY <1>1, <1>5 DEF Holds, WithBit
<1>8. ASSUME NEW a \in Address, NEW x \in Bits, <<a, x>> \notin Cells(s, e)
      PROVE  x \in image'[a] <=> x \in image[a]
  <2>1. a # i \/ x # e.bit
    BY <1>4, <1>8
  <2>2. CASE a # i
    BY <1>6, <2>2
  <2>3. CASE a = i /\ x # e.bit
    BY <1>5, <2>3 DEF WithBit
  <2>4. QED
    BY <2>1, <2>2, <2>3
<1>9. QED
  BY <1>2, <1>7, <1>8

LEMMA BytesWritten ==
  ASSUME TypeOK, SoundBus, NEW s, NEW at, <<s, at>> \in Keys(bus),
         Entry(s, at) \in EntryType, Entry(s, at).sm = "Outputs",
         NEW v \in Values, Suits(v, Entry(s, at)),
         WriteBytes(s, at, v)
  PROVE  /\ Holds(image', AreaOf(s, Entry(s, at)), Entry(s, at), v)
         /\ \A a \in Address, x \in Bits :
              <<a, x>> \notin Cells(s, Entry(s, at)) => (x \in image'[a] <=> x \in image[a])
<1> DEFINE e == Entry(s, at)
           out == bus.slaves[s].outputs
           first == out.base + e.byte
           w == Width[e.type]
<1>1. /\ e.type # "Bool"
      /\ image' = [i \in Address |-> IF i \in Reached(out, first, Len(v.bytes))
                                     THEN v.bytes[i - first + 1] ELSE image[i]]
  BY DEF WriteBytes
<1>2. AreaOf(s, e) = out
  BY DEF AreaOf
<1>3. Len(v.bytes) = w /\ e.type \in {"U8", "U16"} /\ w \in {1, 2} /\ Bytes(e) = w
  BY <1>1, SuitableValue DEF Bytes, Width
<1>4. first \in Nat
  BY <1>2, SoundEntry DEF Area, Address, EntryType
<1>5. ASSUME NEW i \in 1..w PROVE first + i - 1 \in Slice(out)
  BY <1>2, <1>3, CellsInside DEF Suits
<1>6. Cells(s, e) = {<<first + i - 1, x>> : i \in 1..w, x \in Bits}
  BY <1>1, <1>2 DEF Cells
<1> HIDE DEF first, w
<1>7. ASSUME NEW i \in 1..w PROVE image'[first + i - 1] = v.bytes[i]
  <2> DEFINE j == first + i - 1
  <2>1. first <= j /\ j < first + w
    BY <1>3, <1>4
  <2>2. j - first + 1 = i
    BY <1>3, <1>4
  <2>3. j \in Slice(out)
    BY <1>5
  <2> HIDE DEF j
  <2>4. j \in Reached(out, first, Len(v.bytes)) /\ j \in Address
    BY <1>3, <2>1, <2>3 DEF Reached, Slice
  <2>5. image'[j] = v.bytes[j - first + 1]
    BY <1>1, <2>4
  <2>6. QED
    BY <2>2, <2>5 DEF j
<1>8. Holds(image', out, e, v)
  BY <1>1, <1>7 DEF Holds, first, w
<1>9. ASSUME NEW a \in Address, NEW x \in Bits, <<a, x>> \notin Cells(s, e)
      PROVE  image'[a] = image[a]
  <2>1. CASE a \in Reached(out, first, Len(v.bytes))
    <3>1. a \in Nat /\ first <= a /\ a < first + w
      BY <1>3, <2>1 DEF Reached, Address
    <3> DEFINE i == a - first + 1
    <3>2. i \in 1..w /\ first + i - 1 = a
      BY <1>3, <1>4, <3>1
    <3> HIDE DEF i
    <3>3. <<first + i - 1, x>> \in Cells(s, e)
      BY <1>6, <3>2
    <3>4. QED
      BY <1>9, <3>2, <3>3
  <2>2. CASE a \notin Reached(out, first, Len(v.bytes))
    BY <1>1, <2>2
  <2>3. QED
    BY <2>1, <2>2
<1>10. QED
  BY <1>2, <1>8, <1>9

\* What an entry holds depends on its cells only.
LEMMA HoldsKept ==
  ASSUME TypeOK, image' \in [Address -> Byte], SoundBus,
         NEW s, NEW at, <<s, at>> \in Keys(bus), Entry(s, at) \in EntryType,
         NEW v \in Values, Suits(v, Entry(s, at)),
         \A a \in Address, x \in Bits :
           <<a, x>> \in Cells(s, Entry(s, at)) => (x \in image'[a] <=> x \in image[a]),
         Holds(image, AreaOf(s, Entry(s, at)), Entry(s, at), v)
  PROVE  Holds(image', AreaOf(s, Entry(s, at)), Entry(s, at), v)
<1> DEFINE e == Entry(s, at)
           a == AreaOf(s, e)
           first == a.base + e.byte
<1>1. Whole(e) /\ e.type \in {"Bool", "U8", "U16"} /\ e.bit \in Bits
  BY SuitableValue DEF Suits, EntryType
<1>2. first \in Nat
  BY SoundEntry DEF Area, Address, EntryType
<1>3. ASSUME NEW i \in 1..Bytes(e) PROVE first + i - 1 \in Address
  BY <1>1, CellsInside DEF Slice
<1>4. CASE e.type = "Bool"
  <2>1. first \in Address
    <3>1. 1 \in 1..Bytes(e) /\ first + 1 - 1 = first
      BY <1>2, <1>4 DEF Bytes
    <3>2. QED
      BY <1>3, <3>1
  <2>2. <<first, e.bit>> \in Cells(s, e)
    BY <1>4 DEF Cells
  <2>3. e.bit \in image'[first] <=> e.bit \in image[first]
    BY <1>1, <2>1, <2>2
  <2>4. QED
    BY <1>4, <2>3 DEF Holds
<1>5. CASE e.type # "Bool"
  <2>1. Bytes(e) = Width[e.type]
    BY <1>5 DEF Bytes
  <2>2. ASSUME NEW i \in 1..Width[e.type]
        PROVE  image'[first + i - 1] = image[first + i - 1]
    <3>1. first + i - 1 \in Address
      BY <1>3, <2>1
    <3>2. \A x \in Bits : <<first + i - 1, x>> \in Cells(s, e)
      BY <1>5 DEF Cells
    <3>3. \A x \in Bits : x \in image'[first + i - 1] <=> x \in image[first + i - 1]
      BY <3>1, <3>2
    <3>4. image'[first + i - 1] \in Byte /\ image[first + i - 1] \in Byte
      BY <3>1 DEF TypeOK
    <3> HIDE DEF first
    <3>5. QED
      BY <3>3, <3>4 DEF Byte
  <2>3. QED
    BY <1>5, <2>2 DEF Holds
<1>6. QED
  BY <1>4, <1>5

\* An entry that stays as it is while the image changes outside its cells.
LEMMA StoredKept ==
  ASSUME TypeOK, image' \in [Address -> Byte], SoundBus, bus' = bus,
         NEW s, NEW at, <<s, at>> \in Keys(bus), Entry(s, at) \in EntryType,
         Stored(s, at), last'[<<s, at>>] = last[<<s, at>>],
         \A a \in Address, x \in Bits :
           last[<<s, at>>] # Unset /\ Whole(Entry(s, at)) /\ Entry(s, at).sm = "Outputs"
             /\ <<a, x>> \in Cells(s, Entry(s, at)) => (x \in image'[a] <=> x \in image[a])
  PROVE  Stored(s, at)'
<1> DEFINE e == Entry(s, at)
           v == last[<<s, at>>]
<1>1. SUFFICES ASSUME v # Unset PROVE Stored(s, at)'
  BY DEF Stored
<1>2. Suits(v, e) /\ e.sm = "Outputs" /\ Holds(image, AreaOf(s, e), e, v)
  BY <1>1 DEF Stored
<1>3. v \in Values /\ Whole(e)
  BY <1>1, <1>2 DEF TypeOK, Suits
<1>4. Holds(image', AreaOf(s, e), e, v)
  BY <1>1, <1>2, <1>3, HoldsKept
<1>5. Entry(s, at)' = e /\ AreaOf(s, e)' = AreaOf(s, e)
  BY DEF Entry, AreaOf
<1> HIDE DEF e, v
<1>6. /\ Suits(last'[<<s, at>>], Entry(s, at)') /\ Entry(s, at)'.sm = "Outputs"
      /\ Holds(image', AreaOf(s, Entry(s, at))', Entry(s, at)', last'[<<s, at>>])
  BY <1>2, <1>4, <1>5 DEF e, v, Entry, AreaOf
<1>7. QED
  BY <1>6 DEF Stored

\* A successful write of a suitable value.
LEMMA StoredByWrite ==
  ASSUME TypeOK, TypeOK', SoundBus, NEW s, NEW at, <<s, at>> \in Keys(bus),
         Entry(s, at) \in EntryType, Entry(s, at).sm = "Outputs",
         NEW v \in Values, Suits(v, Entry(s, at)), Done(s, at, v),
         WriteBit(s, at, v) \/ WriteBytes(s, at, v),
         \A key \in Keys(bus) : Stored(key[1], key[2]),
         NEW key \in Keys(bus)
  PROVE  Stored(key[1], key[2])'
<1> DEFINE e == Entry(s, at)
<1>1. /\ Holds(image', AreaOf(s, e), e, v)
      /\ \A a \in Address, x \in Bits :
           <<a, x>> \notin Cells(s, e) => (x \in image'[a] <=> x \in image[a])
  BY BitWritten, BytesWritten
<1>2. bus' = bus /\ last' = [last EXCEPT ![<<s, at>>] = v] /\ image' \in [Address -> Byte]
  BY DEF Done, TypeOK
<1>3. key = <<key[1], key[2]>> /\ Entry(key[1], key[2]) \in EntryType
  BY KeyType DEF TypeOK
<1>4. CASE key = <<s, at>>
  <2>1. last'[<<s, at>>] = v
    BY <1>2 DEF TypeOK
  <2>2. Entry(s, at)' = e /\ AreaOf(s, e)' = AreaOf(s, e)
    BY <1>2 DEF Entry, AreaOf
  <2>3. key[1] = s /\ key[2] = at
    BY <1>4
  <2> HIDE DEF e
  <2>4. /\ Suits(last'[<<s, at>>], Entry(s, at)') /\ Entry(s, at)'.sm = "Outputs"
        /\ Holds(image', AreaOf(s, Entry(s, at))', Entry(s, at)', last'[<<s, at>>])
    BY <1>1, <1>2, <2>1, <2>2 DEF e, Entry, AreaOf
  <2>5. Stored(s, at)'
    BY <2>4 DEF Stored
  <2>6. QED
    BY <2>3, <2>5
<1>5. CASE key # <<s, at>>
  <2> DEFINE k == Entry(key[1], key[2])
  <2>1. last'[key] = last[key]
    BY <1>2, <1>5 DEF TypeOK
  <2>2. Whole(k) => Cells(key[1], k) \cap Cells(s, e) = {}
    <3>1. Whole(e)
      BY DEF Suits
    <3>2. Separate
      BY DEF SoundBus
    <3>3. <<s, at>>[1] = s /\ <<s, at>>[2] = at
      OBVIOUS
    <3>4. QED
      BY <1>5, <3>1, <3>2, <3>3 DEF Separate
  <2>3. \A a \in Address, x \in Bits :
          Whole(k) /\ <<a, x>> \in Cells(key[1], k) => (x \in image'[a] <=> x \in image[a])
    BY <1>1, <2>2
  <2>4. Stored(key[1], key[2]) /\ <<key[1], key[2]>> \in Keys(bus)
    BY <1>3
  <2>5. last'[<<key[1], key[2]>>] = last[<<key[1], key[2]>>]
    BY <1>3, <2>1
  <2>6. QED
    BY <1>2, <1>3, <2>3, <2>4, <2>5, StoredKept
<1>6. QED
  BY <1>4, <1>5

LEMMA ReadInvInit == Init => ReadInv
<1> SUFFICES ASSUME Init, NEW key \in Keys(bus) PROVE last[<<key[1], key[2]>>] = Unset
  BY DEF ReadInv, Stored
<1>1. key = <<key[1], key[2]>>
  BY KeyType DEF Init
<1>2. QED
  BY <1>1 DEF Init

LEMMA ReadInvNext == TypeOK /\ ReadInv /\ [Next]_vars => ReadInv'
<1> SUFFICES ASSUME TypeOK, ReadInv, [Next]_vars PROVE ReadInv'
  OBVIOUS
<1>t. TypeOK' /\ image' \in [Address -> Byte]
  BY TypeOKNext DEF TypeOK
\* The steps that set nothing.
<1>k. ASSUME UNCHANGED <<bus, last, foreign>>,
             \A a \in Address : image'[a] = image[a] \/ a \in InputBytes
      PROVE  ReadInv'
  <2>1. SUFFICES ASSUME SoundBus', tidy', NEW key \in Keys(bus)
                 PROVE  Stored(key[1], key[2])'
    BY <1>k DEF ReadInv
  <2>2. SoundBus /\ tidy
    BY <1>k, <2>1, SoundBusKept DEF tidy
  <2> DEFINE e == Entry(key[1], key[2])
  <2>3. key = <<key[1], key[2]>> /\ e \in EntryType
    BY KeyType DEF TypeOK
  <2>4. Stored(key[1], key[2]) /\ <<key[1], key[2]>> \in Keys(bus)
    BY <2>2, <2>3 DEF ReadInv
  <2>5. ASSUME NEW a \in Address, NEW x \in Bits,
               Whole(e), e.sm = "Outputs", <<a, x>> \in Cells(key[1], e)
        PROVE  image'[a] = image[a]
    <3>1. <<a, x>>[1] \notin InputBytes
      BY <2>2, <2>5 DEF SoundBus, Separate
    <3>2. QED
      BY <1>k, <3>1
  <2>6. QED
    BY <1>k, <1>t, <2>2, <2>3, <2>4, <2>5, StoredKept
<1>1. ASSUME NEW s, NEW pdo, NEW sub, NEW v \in Values, SetPdoValue(s, pdo, sub, v)
      PROVE  ReadInv'
  <2>1. CASE UNCHANGED <<bus, image, last, foreign>>
    BY <1>k, <2>1
  <2>2. ASSUME s \in DOMAIN bus.pdos, s \in DOMAIN bus.slaves,
               NEW at \in Lookup(s, pdo, sub), Entry(s, at).sm = "Outputs",
               WriteBit(s, at, v) \/ WriteBytes(s, at, v),
               foreign' = IF Suits(v, Entry(s, at)) THEN foreign ELSE foreign + 1
        PROVE  ReadInv'
    <3>1. Entry(s, at) \in EntryType /\ <<s, at>> \in Keys(bus)
      BY <2>2, LookupType DEF TypeOK
    <3>2. bus' = bus
      BY <2>2 DEF WriteBit, WriteBytes, Done, Panic
    <3>3. SUFFICES ASSUME SoundBus', tidy', NEW key \in Keys(bus)
                   PROVE  Stored(key[1], key[2])'
      BY <3>2 DEF ReadInv
    <3>4. SoundBus /\ tidy /\ Suits(v, Entry(s, at))
      BY <2>2, <3>2, <3>3, SoundBusKept DEF tidy, TypeOK
    <3>5. Done(s, at, v)
      BY <2>2, <3>1, <3>4, SoundWrites
    <3>6. \A k \in Keys(bus) : Stored(k[1], k[2])
      BY <3>4 DEF ReadInv
    <3>7. QED
      BY <1>t, <2>2, <3>1, <3>4, <3>5, <3>6, StoredByWrite
  <2>3. QED
    BY <1>1, <2>1, <2>2, SetCases
<1>2. CASE PdoValues
  BY <1>2, <1>k DEF PdoValues
<1>3. CASE Receive
  <2>1. PICK i \in InputBytes, b \in Byte : image' = [image EXCEPT ![i] = b]
    BY <1>3 DEF Receive
  <2>2. \A a \in Address : image'[a] = image[a] \/ a \in InputBytes
    BY <2>1 DEF TypeOK
  <2>3. QED
    BY <1>3, <1>k, <2>2 DEF Receive
<1>4. CASE UNCHANGED vars
  BY <1>4, <1>k DEF vars
<1>5. QED
  BY <1>1, <1>2, <1>3, <1>4 DEF Next, Set

\* On a sound bus every output reads back as it was last set, whatever was
\* written to its neighbours, to other slaves and by the inputs since.
THEOREM ReadsBack == Spec => []ReadBack
<1>1. TypeOK /\ ReadInv => ReadBack
  <2> SUFFICES ASSUME TypeOK, ReadInv, SoundBus, tidy, NEW key \in Keys(bus),
                      last[key] # Unset
               PROVE  ValueOf(key[1], Entry(key[1], key[2])) = {last[key]}
    BY DEF ReadBack
  <2>1. key = <<key[1], key[2]>> /\ Entry(key[1], key[2]) \in EntryType
    BY KeyType DEF TypeOK
  <2>2. last[key] \in Values
    BY DEF TypeOK
  <2>3. /\ Suits(last[key], Entry(key[1], key[2]))
        /\ Holds(image, AreaOf(key[1], Entry(key[1], key[2])), Entry(key[1], key[2]),
                 last[key])
    BY <2>1 DEF ReadInv, Stored
  <2>4. QED
    BY <2>1, <2>2, <2>3, HeldIsRead
<1>2. QED
  BY <1>1, ReadInvInit, ReadInvNext, TypeCorrect, PTL DEF Spec

==============================================================================
