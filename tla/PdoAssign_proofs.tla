-------------------------- MODULE PdoAssign_proofs --------------------------
(***************************************************************************)
(* Proofs about PdoAssign, for every width of the counters, every set of   *)
(* sync managers and whatever counts and lengths the slave answers: type   *)
(* correctness, entries that do not overlap and keep their order,          *)
(* positions that identify PDOs and entries, and what it takes to make a   *)
(* checked build overflow.                                                 *)
(***************************************************************************)
EXTENDS PdoAssign, TLAPS

\* Inside si_pdo_assign: entered, and past its first read.
InSm == {"pdo_cnt", "pdo", "entry"}
InLoops == {"pdo", "entry"}

----------------------------------------------------------------------------
(* Arithmetic of the u8 counters                                           *)

LEMMA WrapType == ASSUME NEW n \in Nat PROVE Wrap(n) \in U8
  BY WidthAssumption DEF Wrap, U8

LEMMA WrapExact == ASSUME NEW n \in U8 PROVE Wrap(n) = n
  BY WidthAssumption DEF Wrap, U8

LEMMA U8IsNat == U8 \subseteq Nat /\ 0 \in U8
  BY WidthAssumption DEF U8

LEMMA CapType == ASSUME NEW n \in Nat PROVE Cap(n) \in 0..W
  BY WidthAssumption DEF Cap

\* What % and \div are.
LEMMA Division ==
  ASSUME NEW n \in Nat, NEW w \in Nat \ {0}
  PROVE  n % w \in 0..(w - 1) /\ n \div w \in Nat /\ n = w * (n \div w) + (n % w)
  OBVIOUS

\* A remainder is determined by its number.
LEMMA Remainder ==
  ASSUME NEW n \in Nat, NEW w \in Nat \ {0}, NEW q \in Nat, NEW r \in 0..(w - 1),
         n = w * q + r
  PROVE  n % w = r
<1> DEFINE p == n \div w
           s == n % w
<1>1. s \in 0..(w - 1) /\ p \in Nat /\ n = w * p + s
  BY Division
<1> HIDE DEF p, s
<1>2. w * (q - p) = s - r
  BY <1>1
<1>3. CASE q - p >= 1
  <2>1. w * (q - p) >= w
    BY <1>1, <1>3
  <2> QED
    BY <1>1, <1>2, <2>1
<1>4. CASE q - p <= 0 - 1
  <2>1. w * (q - p) <= 0 - w
    BY <1>1, <1>4
  <2> QED
    BY <1>1, <1>2, <2>1
<1>5. CASE q = p
  BY <1>1, <1>2, <1>5
<1>6. s = r
  BY <1>1, <1>3, <1>4, <1>5
<1> QED
  BY <1>6 DEF s

\* Nothing is lost by taking the remainder of a summand first.
LEMMA RemainderOfSum ==
  ASSUME NEW a \in Nat, NEW b \in Nat, NEW w \in Nat \ {0}
  PROVE  ((a % w) + b) % w = (a + b) % w
<1> DEFINE m == a % w
           q == a \div w
<1>1. m \in Nat /\ q \in Nat /\ a = w * q + m
  BY Division
<1> HIDE DEF m, q
<1> DEFINE r == (m + b) % w
           p == (m + b) \div w
<1>a. m + b \in Nat /\ a + b \in Nat
  BY <1>1
<1>2. r \in 0..(w - 1) /\ p \in Nat /\ m + b = w * p + r
  BY <1>a, Division
<1> HIDE DEF r, p
<1>3. q + p \in Nat /\ a + b = w * (q + p) + r
  BY <1>1, <1>2
<1>4. (a + b) % w = r
  BY <1>a, <1>2, <1>3, Remainder
<1> QED
  BY <1>4 DEF r, m

LEMMA WrapSum ==
  ASSUME NEW a \in Nat, NEW b \in Nat
  PROVE  /\ Wrap(Wrap(a) + b) = Wrap(a + b)
         /\ Wrap(Wrap(a) + Wrap(b)) = Wrap(a + b)
<1>1. W \in Nat \ {0} /\ Wrap(a) \in Nat /\ Wrap(b) \in Nat
  BY WidthAssumption, WrapType, U8IsNat
<1>2. Wrap(Wrap(a) + b) = Wrap(a + b)
  BY <1>1, RemainderOfSum DEF Wrap
<1>3. Wrap(Wrap(a) + Wrap(b)) = Wrap(a + Wrap(b))
  BY <1>1, RemainderOfSum DEF Wrap
<1>4. Wrap(Wrap(b) + a) = Wrap(b + a)
  BY <1>1, RemainderOfSum DEF Wrap
<1>5. a + b = b + a /\ Wrap(b) + a = a + Wrap(b)
  BY <1>1
<1>6. QED
  BY <1>2, <1>3, <1>4, <1>5

----------------------------------------------------------------------------
(* Type correctness                                                        *)

LEMMA TypeOKInit == Init => TypeOK
  BY U8IsNat, WidthAssumption DEF Init, TypeOK

LEMMA StopTypeOK ==
  ASSUME TypeOK, NEW how \in {"ReadSdo", "overflow", "assertion"}, Stop(how),
         UNCHANGED history
  PROVE  TypeOK'
  BY DEF Stop, TypeOK, smLoop, pdoLoop, entryLoop, offsets, marks, history

LEMMA TypeOKNext == TypeOK /\ [Next]_vars => TypeOK'
<1> SUFFICES ASSUME TypeOK, [Next]_vars PROVE TypeOK'
  OBVIOUS
<1> USE DEF smLoop, pdoLoop, entryLoop, offsets, marks, history
<1>1. CASE NextSm
  BY <1>1, SmTypesAssumption DEF NextSm, Waiting, TypeOK
<1>2. CASE NextType
  BY <1>2 DEF NextType, TypeOK
<1>3. CASE SlaveDone
  BY <1>3 DEF SlaveDone, TypeOK
<1>4. CASE ReadPdoCnt
  BY <1>4, U8IsNat, CapType DEF ReadPdoCnt, TypeOK
<1>5. CASE ReadPdo
  <2>1. pdoCntOffset + pdoSub - 1 \in Nat
    BY U8IsNat DEF TypeOK
  <2>2. pdoPos' \in U8
    BY <1>5, <2>1, WrapType DEF ReadPdo
  <2>3. QED
    BY <1>5, <2>2, U8IsNat, CapType DEF ReadPdo, TypeOK
<1>6. CASE PdoPosOverflows
  BY <1>6, StopTypeOK DEF PdoPosOverflows
<1>7. CASE ReadEntry
  <2>1. PICK l \in BitLens :
          /\ entries' = Append(entries,
               [sm |-> sm, type |-> type, pos |-> entryPos,
                byte |-> bitOffset \div 8, bit |-> bitOffset % 8, len |-> l])
          /\ bitOffset' = bitOffset + l
    BY <1>7 DEF ReadEntry
  <2> DEFINE e == [sm |-> sm, type |-> type, pos |-> entryPos,
                   byte |-> bitOffset \div 8, bit |-> bitOffset % 8, len |-> l]
  <2>2. bitOffset \div 8 \in Nat /\ bitOffset % 8 \in 0..7
    BY DEF TypeOK
  <2>3. e \in EntryType
    BY <2>2 DEF TypeOK, EntryType
  <2>4. entryPos' \in U8 /\ bitOffset' \in Nat
    <3>1. entryPos + 1 \in Nat /\ l \in Nat /\ bitOffset \in Nat
      BY U8IsNat, BitLensAssumption DEF TypeOK
    <3>2. entryPos' = Wrap(entryPos + 1)
      BY <1>7 DEF ReadEntry
    <3>3. entryPos' \in U8
      BY <3>1, <3>2, WrapType
    <3>4. QED
      BY <2>1, <3>1, <3>3
  <2>5. entries' = Append(entries, e)
    BY <2>1
  <2> HIDE DEF e
  <2>6. entries' \in Seq(EntryType) /\ Len(entries') = Len(entries) + 1
    BY <2>3, <2>5 DEF TypeOK
  <2>7. entryMark' \in 0..Len(entries')
    BY <1>7, <2>6 DEF ReadEntry, TypeOK
  <2>8. /\ entrySub' = entrySub + 1
        /\ UNCHANGED <<build, smTypes, type, sm, pc, pdoCnt, pdoSub, pdoPos, entryCnt,
                       pdoCntOffset, entryCntOffset, pdos, pdoMark, outcome,
                       announcedPdos, announcedEntries, skipped>>
    BY <1>7 DEF ReadEntry
  <2>9. QED
    BY <2>4, <2>6, <2>7, <2>8 DEF TypeOK
<1>8. CASE EntryPosOverflows
  BY <1>8, StopTypeOK DEF EntryPosOverflows
<1>9. CASE LengthAssertionFails
  BY <1>9, StopTypeOK DEF LengthAssertionFails
<1>10. CASE FinishPdo
  <2> DEFINE p == [sm |-> sm, pos |-> pdoPos]
  <2>a. p \in PdoType
    BY DEF TypeOK, PdoType
  <2>b. pdos' = Append(pdos, p) \/ UNCHANGED pdos
    BY <1>10 DEF FinishPdo
  <2> HIDE DEF p
  <2>1. pdos' \in Seq(PdoType) /\ Len(pdos) <= Len(pdos')
    BY <2>a, <2>b DEF TypeOK
  <2>2. pdoMark' \in 0..Len(pdos') /\ skipped' \in {0, 1}
    BY <1>10, <2>1 DEF FinishPdo, TypeOK
  <2>3. /\ pdoSub' = pdoSub + 1 /\ pc' = "pdo"
        /\ UNCHANGED <<build, smTypes, type, sm, pdoCnt, pdoPos, entryCnt, entrySub,
                       entryPos, bitOffset, pdoCntOffset, entryCntOffset,
                       entries, entryMark, outcome, announcedPdos,
                       announcedEntries>>
    BY <1>10 DEF FinishPdo
  <2>4. QED
    BY <2>1, <2>2, <2>3 DEF TypeOK
<1>11. CASE FinishSm
  <2>1. SmPdos \in Nat /\ SmEntries \in Nat
    BY DEF SmPdos, SmEntries, TypeOK
  <2>2. pdoCntOffset + Wrap(SmPdos) \in Nat
          /\ entryCntOffset + Wrap(SmEntries) \in Nat
    <3>1. Wrap(SmPdos) \in Nat /\ Wrap(SmEntries) \in Nat
      BY <2>1, WrapType, U8IsNat
    <3>2. pdoCntOffset \in Nat /\ entryCntOffset \in Nat
      BY U8IsNat DEF TypeOK
    <3>3. QED
      BY <3>1, <3>2
  <2>3. pdoCntOffset' \in U8 /\ entryCntOffset' \in U8
    BY <1>11, <2>2, WrapType DEF FinishSm
  <2>4. QED
    BY <1>11, <2>3 DEF FinishSm, TypeOK
<1>12. CASE ReadFails
  BY <1>12, StopTypeOK DEF ReadFails
<1>13. CASE UNCHANGED vars
  BY <1>13 DEF vars, TypeOK
<1>14. QED
  BY <1>1, <1>2, <1>3, <1>4, <1>5, <1>6, <1>7, <1>8, <1>9, <1>10, <1>11, <1>12,
     <1>13 DEF Next

\* The loops keep the types of their variables; no u8 is ever out of range.
THEOREM TypeCorrect == Spec => []TypeOK
  BY TypeOKInit, TypeOKNext, PTL DEF Spec

----------------------------------------------------------------------------
(* Entries do not overlap                                                  *)

\* s is a sync manager the two loops have reached already.
Behind(s) ==
  /\ s \in DOMAIN smTypes
  /\ smTypes[s] = type => s <= sm
  /\ type = "Outputs" => smTypes[s] = "Outputs"

\* The loops visit no sync manager twice.
VisitInv ==
  /\ \A k \in DOMAIN entries : Behind(entries[k].sm)
  /\ \A k \in DOMAIN pdos : Behind(pdos[k].sm)
  /\ pc \in InSm => Behind(sm)
  /\ pc = "pdo_cnt" =>
       /\ \A k \in DOMAIN entries : entries[k].sm # sm
       /\ \A k \in DOMAIN pdos : pdos[k].sm # sm

\* The running sum lies behind everything already placed in the sync manager.
OffsetInv ==
  pc \in InLoops =>
    \A k \in DOMAIN entries :
      entries[k].sm = sm => Ends(entries[k]) <= bitOffset

\* What ReadEntry appends, and where it lies.
LEMMA EntryAppended ==
  ASSUME TypeOK, ReadEntry
  PROVE  /\ pc = "entry" /\ UNCHANGED <<smTypes, type, sm, pc, pdos>>
         /\ Len(entries') = Len(entries) + 1
         /\ DOMAIN entries' = 1..(Len(entries) + 1)
         /\ \A k \in DOMAIN entries : entries'[k] = entries[k]
         /\ entries'[Len(entries) + 1].sm = sm
         /\ entries'[Len(entries) + 1].type = type
         /\ entries'[Len(entries) + 1].pos = entryPos
         /\ Begins(entries'[Len(entries) + 1]) = bitOffset
         /\ Ends(entries'[Len(entries) + 1]) = bitOffset'
         /\ bitOffset <= bitOffset'
<1>1. PICK l \in BitLens :
        /\ entries' = Append(entries,
             [sm |-> sm, type |-> type, pos |-> entryPos,
              byte |-> bitOffset \div 8, bit |-> bitOffset % 8, len |-> l])
        /\ bitOffset' = bitOffset + l
  BY DEF ReadEntry
<1> DEFINE e == [sm |-> sm, type |-> type, pos |-> entryPos,
                 byte |-> bitOffset \div 8, bit |-> bitOffset % 8, len |-> l]
<1>2. bitOffset \in Nat /\ l \in Nat
  BY BitLensAssumption DEF TypeOK
<1>3. e.sm = sm /\ e.type = type /\ e.pos = entryPos
  OBVIOUS
<1>4. Begins(e) = 8 * (bitOffset \div 8) + (bitOffset % 8) /\ e.len = l
  BY DEF Begins
<1>5. 8 * (bitOffset \div 8) + (bitOffset % 8) = bitOffset
  BY <1>2
<1>6. Begins(e) = bitOffset /\ Ends(e) = bitOffset' /\ bitOffset <= bitOffset'
  BY <1>1, <1>2, <1>4, <1>5 DEF Ends
<1>7. entries' = Append(entries, e)
  BY <1>1
<1> HIDE DEF e
<1>8. /\ Len(entries') = Len(entries) + 1
      /\ DOMAIN entries' = 1..(Len(entries) + 1)
      /\ \A k \in DOMAIN entries : entries'[k] = entries[k]
      /\ entries'[Len(entries) + 1] = e
  BY <1>7 DEF TypeOK
<1>9. pc = "entry" /\ UNCHANGED <<smTypes, type, sm, pc, pdos>>
  BY DEF ReadEntry, smLoop
<1>10. QED
  BY <1>3, <1>6, <1>8, <1>9

\* What FinishPdo appends, if the PDO has entries.
LEMMA PdoAppended ==
  ASSUME TypeOK, FinishPdo
  PROVE  \/ UNCHANGED pdos /\ skipped' = 1
         \/ /\ Len(pdos') = Len(pdos) + 1
            /\ DOMAIN pdos' = 1..(Len(pdos) + 1)
            /\ \A k \in DOMAIN pdos : pdos'[k] = pdos[k]
            /\ pdos'[Len(pdos) + 1].sm = sm
            /\ pdos'[Len(pdos) + 1].pos = pdoPos
            /\ UNCHANGED skipped
<1> DEFINE p == [sm |-> sm, pos |-> pdoPos]
<1>1. CASE UNCHANGED pdos /\ skipped' = 1
  BY <1>1
<1>2. CASE pdos' = Append(pdos, p) /\ UNCHANGED skipped
  <2>1. p.sm = sm /\ p.pos = pdoPos
    OBVIOUS
  <2> HIDE DEF p
  <2>2. QED
    BY <1>2, <2>1 DEF TypeOK
<1>3. QED
  BY <1>1, <1>2 DEF FinishPdo

LEMMA VisitInvNext == TypeOK /\ VisitInv /\ [Next]_vars => VisitInv'
<1> SUFFICES ASSUME TypeOK, VisitInv, [Next]_vars PROVE VisitInv'
  OBVIOUS
<1> USE DEF VisitInv, Behind, InSm
<1>1. CASE NextSm
  <2>1. /\ sm' \in DOMAIN smTypes /\ smTypes[sm'] = type /\ sm' > sm
        /\ UNCHANGED <<smTypes, type, pdos, entries>>
    BY <1>1 DEF NextSm, Waiting, smLoop
  <2>2. sm \in Nat /\ sm' \in Nat
    BY <2>1, SmTypesAssumption DEF TypeOK
  <2>3. ASSUME NEW s, Behind(s) PROVE Behind(s)' /\ s # sm'
    <3>1. CASE smTypes[s] = type
      <4>1. s \in Nat
        BY <2>3, SmTypesAssumption DEF TypeOK
      <4>2. QED
        BY <2>1, <2>2, <2>3, <3>1, <4>1
    <3>2. CASE smTypes[s] # type
      BY <2>1, <2>3, <3>2
    <3>3. QED
      BY <3>1, <3>2
  <2>4. Behind(sm)'
    BY <2>1, <2>2 DEF TypeOK
  <2>5. QED
    BY <2>1, <2>3, <2>4
<1>2. CASE NextType
  BY <1>2 DEF NextType, TypeOK
<1>3. CASE SlaveDone
  BY <1>3 DEF SlaveDone, smLoop
<1>4. CASE ReadPdoCnt
  BY <1>4 DEF ReadPdoCnt, smLoop
<1>5. CASE ReadPdo
  BY <1>5 DEF ReadPdo, smLoop
<1>6. CASE ReadEntry
  <2>1. /\ pc = "entry" /\ UNCHANGED <<smTypes, type, sm, pc, pdos>>
        /\ Len(entries') = Len(entries) + 1
        /\ DOMAIN entries' = 1..(Len(entries) + 1)
        /\ \A k \in DOMAIN entries : entries'[k] = entries[k]
        /\ entries'[Len(entries) + 1].sm = sm
    BY <1>6, EntryAppended
  <2>2. \A k \in DOMAIN entries' : k \in DOMAIN entries \/ k = Len(entries) + 1
    BY <2>1 DEF TypeOK
  <2>3. QED
    BY <2>1, <2>2
<1>7. CASE FinishPdo
  <2>1. /\ pc = "entry" /\ pc' = "pdo" /\ UNCHANGED <<smTypes, type, sm, entries>>
    BY <1>7 DEF FinishPdo, smLoop
  <2>2. ASSUME NEW k \in DOMAIN pdos'
        PROVE  pdos'[k].sm = sm \/ (k \in DOMAIN pdos /\ pdos'[k] = pdos[k])
    <3>1. CASE UNCHANGED pdos
      BY <2>2, <3>1
    <3>2. CASE ~UNCHANGED pdos
      <4>1. /\ DOMAIN pdos' = 1..(Len(pdos) + 1)
            /\ \A i \in DOMAIN pdos : pdos'[i] = pdos[i]
            /\ pdos'[Len(pdos) + 1].sm = sm
        BY <1>7, <3>2, PdoAppended
      <4>2. DOMAIN pdos = 1..Len(pdos) /\ Len(pdos) \in Nat
        BY DEF TypeOK
      <4>3. QED
        BY <2>2, <4>1, <4>2
    <3>3. QED
      BY <3>1, <3>2
  <2>3. QED
    BY <2>1, <2>2
<1>8. CASE FinishSm
  BY <1>8 DEF FinishSm, smLoop
<1>9. ASSUME NEW how, Stop(how) PROVE VisitInv'
  BY <1>9 DEF Stop, smLoop
<1>10. CASE UNCHANGED vars
  BY <1>10 DEF vars, smLoop
<1>11. QED
  BY <1>1, <1>2, <1>3, <1>4, <1>5, <1>6, <1>7, <1>8, <1>9, <1>10
     DEF Next, PdoPosOverflows, EntryPosOverflows, LengthAssertionFails, ReadFails

LEMMA DisjointNext ==
  TypeOK /\ VisitInv /\ OffsetInv /\ EntriesDisjoint /\ [Next]_vars
    => OffsetInv' /\ EntriesDisjoint'
<1> SUFFICES ASSUME TypeOK, VisitInv, OffsetInv, EntriesDisjoint, [Next]_vars
             PROVE  OffsetInv' /\ EntriesDisjoint'
  OBVIOUS
<1> USE DEF OffsetInv, EntriesDisjoint, InLoops
<1>1. CASE UNCHANGED entries /\ pc' \notin InLoops
  BY <1>1
<1>2. CASE UNCHANGED <<sm, entries, bitOffset>> /\ pc \in InLoops
  BY <1>2
<1>3. CASE ReadPdoCnt
  BY <1>3 DEF ReadPdoCnt, VisitInv, smLoop
<1>4. CASE ReadEntry
  <2>1. /\ pc = "entry" /\ UNCHANGED <<smTypes, type, sm, pc, pdos>>
        /\ Len(entries') = Len(entries) + 1
        /\ DOMAIN entries' = 1..(Len(entries) + 1)
        /\ \A k \in DOMAIN entries : entries'[k] = entries[k]
        /\ entries'[Len(entries) + 1].sm = sm
        /\ Begins(entries'[Len(entries) + 1]) = bitOffset
        /\ Ends(entries'[Len(entries) + 1]) = bitOffset'
        /\ bitOffset <= bitOffset'
    BY <1>4, EntryAppended
  <2>2. DOMAIN entries = 1..Len(entries) /\ Len(entries) \in Nat
          /\ bitOffset \in Nat /\ bitOffset' \in Nat
    BY TypeOKNext DEF TypeOK
  <2>3. ASSUME NEW k \in DOMAIN entries PROVE Ends(entries[k]) \in Nat
    <3>1. entries[k] \in EntryType
      BY DEF TypeOK
    <3>2. /\ entries[k].byte \in Nat /\ entries[k].bit \in 0..7
          /\ entries[k].len \in Nat
      BY <3>1, BitLensAssumption DEF EntryType
    <3>3. QED
      BY <3>2 DEF Ends, Begins
  <2>4. ASSUME NEW k \in DOMAIN entries', entries'[k].sm = sm'
        PROVE  Ends(entries'[k]) <= bitOffset'
    <3>1. CASE k \in DOMAIN entries
      <4>1. Ends(entries[k]) <= bitOffset
        BY <2>1, <2>4, <3>1
      <4>2. QED
        BY <2>1, <2>2, <2>3, <3>1, <4>1
    <3>2. CASE k = Len(entries) + 1
      BY <2>1, <2>2, <3>2
    <3>3. QED
      BY <2>1, <2>2, <3>1, <3>2
  <2>5. ASSUME NEW j \in DOMAIN entries', NEW k \in DOMAIN entries',
               j < k, entries'[j].sm = entries'[k].sm
        PROVE  Ends(entries'[j]) <= Begins(entries'[k])
    <3>1. j \in DOMAIN entries
      BY <2>1, <2>2, <2>5
    <3>2. CASE k \in DOMAIN entries
      BY <2>1, <2>5, <3>1, <3>2
    <3>3. CASE k = Len(entries) + 1
      <4>1. entries[j].sm = sm
        BY <2>1, <2>5, <3>1, <3>3
      <4>2. Ends(entries[j]) <= bitOffset
        BY <2>1, <3>1, <4>1
      <4>3. QED
        BY <2>1, <3>1, <3>3, <4>2
    <3>4. QED
      BY <2>1, <2>2, <3>2, <3>3
  <2>6. QED
    BY <2>4, <2>5
<1>5. ASSUME NEW how, Stop(how) PROVE UNCHANGED entries /\ pc' \notin InLoops
  BY <1>5 DEF Stop
<1>6. CASE NextSm \/ NextType \/ SlaveDone \/ FinishSm
  BY <1>6, <1>1 DEF NextSm, NextType, SlaveDone, FinishSm
<1>7. CASE ReadPdo \/ FinishPdo
  BY <1>7, <1>2 DEF ReadPdo, FinishPdo, smLoop
<1>8. CASE UNCHANGED vars
  <2>1. UNCHANGED <<sm, entries, bitOffset, pc>>
    BY <1>8 DEF vars, smLoop
  <2>2. QED
    BY <1>1, <1>2, <2>1
<1>9. QED
  BY <1>1, <1>3, <1>4, <1>5, <1>6, <1>7, <1>8
     DEF Next, PdoPosOverflows, EntryPosOverflows, LengthAssertionFails, ReadFails

\* No two entries of a sync manager share a bit of the image, however many
\* PDOs they are spread over and whatever their lengths (EntriesDisjoint).
THEOREM NoOverlap == Spec => []EntriesDisjoint
<1>1. Init => VisitInv /\ OffsetInv /\ EntriesDisjoint
  BY DEF Init, VisitInv, OffsetInv, EntriesDisjoint, InSm, InLoops
<1>2. QED
  BY <1>1, TypeOKInit, TypeOKNext, VisitInvNext, DisjointNext, PTL DEF Spec

----------------------------------------------------------------------------
(* Positions in a checked build                                            *)

\* The counters are the numbers of entries and of kept PDOs.
EntryPosInv ==
  Checked =>
    /\ \A k \in DOMAIN entries : entries[k].pos = k - 1
    /\ pc \in {"next_sm", "pdo_cnt"} => entryCntOffset = Len(entries)
    /\ pc \in InSm => entryCntOffset = entryMark
    /\ pc \in InLoops => entryPos = Len(entries)

PdoPosInv ==
  Checked =>
    /\ pc \in {"next_sm", "pdo_cnt"} => pdoCntOffset = Len(pdos)
    /\ pc \in InSm => pdoCntOffset = pdoMark
    /\ pc \in InLoops =>
         /\ pdoSub <= pdoCnt + 1
         /\ pdoCntOffset + pdoSub <= W
         /\ Len(pdos) < pdoMark + pdoSub
         /\ skipped = 0 => Len(pdos) + 1 = pdoMark + pdoSub
         /\ \A k \in DOMAIN pdos :
              pdos[k].sm = sm => pdos[k].pos + 1 < pdoCntOffset + pdoSub
    /\ pc = "entry" =>
         /\ pdoPos + 1 = pdoCntOffset + pdoSub
         /\ pdoCntOffset + pdoSub < W /\ pdoSub <= pdoCnt
    /\ PdoPosExact /\ PdoPosOrdered

\* What is counted was announced.
AnnouncedInv ==
  /\ \/ announcedPdos = W
     \/ Len(pdos) <= announcedPdos
          /\ (pc \in InLoops => pdoMark + pdoCnt <= announcedPdos)
  /\ \/ announcedEntries = W
     \/ Len(entries) <= announcedEntries
          /\ (pc = "entry" =>
                Len(entries) + entryCnt < announcedEntries + entrySub)

\* A build stays what it is.
LEMMA BuildKept ==
  ASSUME [Next]_vars
  PROVE  build' = build /\ (Checked' <=> Checked)
<1>1. build' = build
  BY DEF Next, vars, smLoop, NextSm, NextType, SlaveDone, ReadPdoCnt, ReadPdo,
         PdoPosOverflows, ReadEntry, EntryPosOverflows, LengthAssertionFails,
         FinishPdo, FinishSm, ReadFails, Stop
<1>2. QED
  BY <1>1 DEF Checked

LEMMA EntryPosNext ==
  TypeOK /\ EntryPosInv /\ [Next]_vars => EntryPosInv'
<1> SUFFICES ASSUME TypeOK, EntryPosInv, [Next]_vars, Checked
             PROVE  EntryPosInv'
  BY BuildKept DEF EntryPosInv
<1> USE DEF EntryPosInv, InSm, InLoops
<1>1. CASE UNCHANGED <<entries, entryPos, entryCntOffset, entryMark>>
             /\ pc \in InLoops /\ pc' \in InLoops
  BY <1>1
<1>2. CASE NextSm
  BY <1>2 DEF NextSm, offsets
<1>3. CASE NextType \/ SlaveDone
  BY <1>3 DEF NextType, SlaveDone, offsets, marks
<1>4. CASE ReadPdoCnt
  BY <1>4 DEF ReadPdoCnt, offsets, marks
<1>5. CASE ReadPdo \/ FinishPdo
  BY <1>5, <1>1 DEF ReadPdo, FinishPdo, offsets, marks
<1>6. CASE ReadEntry
  <2>1. /\ pc = "entry" /\ UNCHANGED pc
        /\ Len(entries') = Len(entries) + 1
        /\ DOMAIN entries' = 1..(Len(entries) + 1)
        /\ \A k \in DOMAIN entries : entries'[k] = entries[k]
        /\ entries'[Len(entries) + 1].pos = entryPos
    BY <1>6, EntryAppended
  <2>2. DOMAIN entries = 1..Len(entries) /\ Len(entries) \in Nat
    BY DEF TypeOK
  <2>3. /\ UNCHANGED <<entryCntOffset, entryMark>>
        /\ entryPos + 1 < W /\ entryPos' = Wrap(entryPos + 1)
        /\ entryPos \in Nat
    BY <1>6, U8IsNat, WidthAssumption
       DEF ReadEntry, Overflows, offsets, marks, TypeOK, U8
  <2>4. entryPos' = entryPos + 1
    <3>1. entryPos + 1 \in U8
      BY <2>3, WidthAssumption DEF U8
    <3>2. QED
      BY <2>3, <3>1, WrapExact
  <2>5. ASSUME NEW k \in DOMAIN entries' PROVE entries'[k].pos = k - 1
    BY <2>1, <2>2, <2>5
  <2>6. QED
    BY <2>1, <2>2, <2>3, <2>4, <2>5
<1>7. CASE FinishSm
  <2>1. /\ entryCntOffset = entryMark /\ entryPos = Len(entries)
        /\ entryCntOffset' = Wrap(entryCntOffset + Wrap(SmEntries))
        /\ pc' = "next_sm" /\ UNCHANGED entries
    BY <1>7 DEF FinishSm
  <2>2. Len(entries) \in U8 /\ entryMark \in 0..Len(entries)
    BY <2>1 DEF TypeOK
  <2>3. SmEntries \in U8
    BY <2>2, WidthAssumption DEF SmEntries, U8
  <2>4. entryCntOffset + Wrap(SmEntries) = Len(entries)
    <3>1. Wrap(SmEntries) = SmEntries
      BY <2>3, WrapExact
    <3>2. QED
      BY <2>1, <2>2, <3>1, U8IsNat DEF SmEntries
  <2>5. entryCntOffset' = Len(entries)
    BY <2>1, <2>2, <2>4, WrapExact
  <2>6. QED
    BY <2>1, <2>5
<1>8. ASSUME NEW how, Stop(how) PROVE EntryPosInv'
  BY <1>8 DEF Stop
<1>9. CASE UNCHANGED vars
  BY <1>9 DEF vars, offsets, marks
<1>10. QED
  BY <1>2, <1>3, <1>4, <1>5, <1>6, <1>7, <1>8, <1>9
     DEF Next, PdoPosOverflows, EntryPosOverflows, LengthAssertionFails, ReadFails

\* In a checked build an entry's position is its exact rank in the slave's
\* image, across all sync managers (EntryPosExact).
THEOREM EntryPositionsExact == Spec => []EntryPosExact
<1>1. Init => EntryPosInv
  BY DEF Init, EntryPosInv, InSm, InLoops
<1>2. EntryPosInv => EntryPosExact
  BY DEF EntryPosInv, EntryPosExact
<1>3. QED
  BY <1>1, <1>2, TypeOKInit, TypeOKNext, EntryPosNext, PTL DEF Spec

LEMMA OneMore == ASSUME NEW n \in Nat PROVE 1 <= n + 1
OBVIOUS

LEMMA PdoPosNext ==
  TypeOK /\ VisitInv /\ PdoPosInv /\ [Next]_vars => PdoPosInv'
<1> SUFFICES ASSUME TypeOK, VisitInv, PdoPosInv, [Next]_vars, Checked
             PROVE  PdoPosInv'
  BY BuildKept DEF PdoPosInv
<1> USE DEF InSm, InLoops
<1>a. /\ DOMAIN pdos = 1..Len(pdos) /\ Len(pdos) \in Nat /\ pdoCnt \in Nat
      /\ pdoSub \in Nat \ {0} /\ pdoPos \in Nat /\ pdoCntOffset \in Nat
      /\ pdoCntOffset < W /\ W \in Nat /\ pdoMark \in Nat
      /\ pdoCnt < W /\ pdoPos < W
      /\ \A k \in DOMAIN pdos : pdos[k].pos \in Nat
  <2>1. ASSUME NEW k \in DOMAIN pdos PROVE pdos[k].pos \in Nat
    <3>1. pdos[k] \in PdoType
      BY DEF TypeOK
    <3>2. QED
      BY <3>1, U8IsNat DEF PdoType
  <2>2. DOMAIN pdos = 1..Len(pdos) /\ Len(pdos) \in Nat /\ pdoMark \in Nat
    BY DEF TypeOK
  <2>3. pdoCnt \in U8 /\ pdoPos \in U8 /\ pdoCntOffset \in U8 /\ pdoSub \in Nat \ {0}
    BY DEF TypeOK
  <2>4. QED
    BY <2>1, <2>2, <2>3, WidthAssumption DEF U8
<1>b. ASSUME UNCHANGED <<sm, pdos, pdoCnt, pdoSub, pdoPos, pdoCntOffset, pdoMark,
                         skipped>>,
             pc' = pc \/ pc' \notin {"next_sm", "pdo_cnt", "pdo", "entry"}
      PROVE  PdoPosInv'
  BY <1>b DEF PdoPosInv, PdoPosExact, PdoPosOrdered
<1>1. CASE NextSm
  BY <1>1 DEF NextSm, offsets, history, PdoPosInv, PdoPosExact, PdoPosOrdered
<1>2. CASE NextType \/ SlaveDone
  BY <1>2 DEF NextType, SlaveDone, offsets, marks, history, PdoPosInv,
              PdoPosExact, PdoPosOrdered
<1>3. CASE ReadPdoCnt
  <2>1. /\ pc = "pdo_cnt" /\ pc' = "pdo" /\ pdoSub' = 1 /\ pdoCnt' \in U8
        /\ UNCHANGED <<sm, pdos, pdoCntOffset, pdoMark, skipped>>
    BY <1>3 DEF ReadPdoCnt, offsets, marks, smLoop
  <2>2. \A k \in DOMAIN pdos : pdos[k].sm # sm
    BY <2>1 DEF VisitInv
  <2>3. pdoCnt' \in Nat
    BY <2>1, U8IsNat
  <2>4. pdoCntOffset = Len(pdos) /\ pdoMark = Len(pdos)
    BY <2>1 DEF PdoPosInv
  <2>5. PdoPosExact' /\ PdoPosOrdered'
    BY <2>1, BuildKept DEF PdoPosInv, PdoPosExact, PdoPosOrdered
  <2>6. /\ pdoSub' <= pdoCnt' + 1 /\ pdoCntOffset' + pdoSub' <= W
        /\ Len(pdos') < pdoMark' + pdoSub'
        /\ Len(pdos') + 1 = pdoMark' + pdoSub'
    <3>1. 1 <= pdoCnt' + 1
      BY <2>3, OneMore
    <3>2. pdoCntOffset + 1 <= W
      BY <1>a
    <3>3. Len(pdos) < pdoMark + 1
      BY <2>4, <1>a
    <3>4. QED
      BY <3>1, <3>2, <3>3, <2>1, <2>4
  <2>7. \A k \in DOMAIN pdos' : pdos'[k].sm # sm'
    BY <2>1, <2>2
  <2>8. pdoCntOffset' = pdoMark'
    BY <2>1, <2>4
  <2>9. QED
    BY <2>1, <2>5, <2>6, <2>7, <2>8 DEF PdoPosInv
<1>4. CASE ReadPdo
  <2>1. /\ pc = "pdo" /\ pc' = "entry" /\ pdoSub <= pdoCnt
        /\ pdoCntOffset + pdoSub < W
        /\ pdoPos' = Wrap(pdoCntOffset + pdoSub - 1)
        /\ UNCHANGED <<sm, pdos, pdoCnt, pdoSub, pdoCntOffset, pdoMark, skipped>>
    BY <1>4, <1>a DEF ReadPdo, Overflows, offsets, marks, smLoop
  <2>2. pdoCntOffset + pdoSub - 1 \in U8
    BY <2>1, <1>a DEF U8
  <2>3. pdoPos' + 1 = pdoCntOffset + pdoSub
    BY <2>1, <2>2, <1>a, WrapExact
  <2>4. QED
    BY <2>1, <2>3, <1>a DEF PdoPosInv, PdoPosExact, PdoPosOrdered
<1>5. CASE ReadEntry
  BY <1>5, <1>b DEF ReadEntry, pdoLoop, offsets, marks, smLoop, history
<1>6. CASE FinishPdo
  <2>1. /\ pc = "entry" /\ pc' = "pdo" /\ pdoSub' = pdoSub + 1
        /\ UNCHANGED <<sm, pdoCnt, pdoPos, pdoCntOffset, pdoMark>>
        /\ pdoPos + 1 = pdoCntOffset + pdoSub /\ pdoSub <= pdoCnt
        /\ pdoCntOffset + pdoSub < W /\ pdoCntOffset = pdoMark
    BY <1>6 DEF FinishPdo, offsets, marks, smLoop, PdoPosInv
  <2>a. /\ Len(pdos) < pdoMark + pdoSub
        /\ skipped = 0 => Len(pdos) + 1 = pdoMark + pdoSub
        /\ \A k \in DOMAIN pdos :
             pdos[k].sm = sm => pdos[k].pos + 1 < pdoCntOffset + pdoSub
    BY <2>1 DEF PdoPosInv
  <2>b. PdoPosExact /\ PdoPosOrdered
    BY DEF PdoPosInv
  <2>2. pdoCnt < W /\ pdoCntOffset + pdoSub < W
    BY <2>1, <1>a
  <2>3. CASE UNCHANGED pdos /\ skipped' = 1
    BY <2>1, <2>2, <2>3, <2>a, <2>b, <1>a
       DEF PdoPosInv, PdoPosExact, PdoPosOrdered
  <2>4. CASE /\ Len(pdos') = Len(pdos) + 1
             /\ DOMAIN pdos' = 1..(Len(pdos) + 1)
             /\ \A k \in DOMAIN pdos : pdos'[k] = pdos[k]
             /\ pdos'[Len(pdos) + 1].sm = sm
             /\ pdos'[Len(pdos) + 1].pos = pdoPos
             /\ UNCHANGED skipped
    <3>1. \A k \in DOMAIN pdos' : k \in DOMAIN pdos \/ k = Len(pdos) + 1
      BY <2>4, <1>a
    <3>2. Len(pdos') < pdoMark' + pdoSub' /\ pdoCntOffset' + pdoSub' <= W
            /\ pdoSub' <= pdoCnt' + 1
      BY <2>1, <2>2, <2>4, <2>a, <1>a
    <3>3. ASSUME skipped' = 0
          PROVE  Len(pdos') + 1 = pdoMark' + pdoSub'
      <4>1. Len(pdos) + 1 = pdoMark + pdoSub
        BY <2>4, <2>a, <3>3
      <4>2. Len(pdos') = Len(pdos) + 1 /\ pdoMark' = pdoMark /\ pdoSub' = pdoSub + 1
        BY <2>1, <2>4
      <4>3. Len(pdos) \in Nat /\ pdoMark \in Nat /\ pdoSub \in Nat
        BY <1>a
      <4>4. QED
        BY <4>1, <4>2, <4>3
    <3>4. ASSUME NEW k \in DOMAIN pdos', pdos'[k].sm = sm'
          PROVE  pdos'[k].pos + 1 < pdoCntOffset' + pdoSub'
      <4>1. CASE k \in DOMAIN pdos
        <5>1. pdos[k].pos + 1 < pdoCntOffset + pdoSub
          BY <2>1, <2>4, <2>a, <3>4, <4>1
        <5>2. QED
          BY <2>1, <2>4, <4>1, <5>1, <1>a
      <4>2. CASE k = Len(pdos) + 1
        BY <2>1, <2>4, <4>2, <1>a
      <4>3. QED
        BY <3>1, <4>1, <4>2
    <3>5. PdoPosExact'
      <4>1. ASSUME skipped' = 0, NEW k \in DOMAIN pdos'
            PROVE  pdos'[k].pos = k - 1
        <5>1. CASE k \in DOMAIN pdos
          BY <2>4, <2>b, <4>1, <5>1 DEF PdoPosExact
        <5>2. CASE k = Len(pdos) + 1
          BY <2>1, <2>4, <2>a, <4>1, <5>2, <1>a
        <5>3. QED
          BY <3>1, <5>1, <5>2
      <4>2. QED
        BY <4>1 DEF PdoPosExact
    <3>6. PdoPosOrdered'
      <4>1. ASSUME NEW j \in DOMAIN pdos', NEW k \in DOMAIN pdos', j < k,
                   pdos'[j].sm = pdos'[k].sm
            PROVE  pdos'[j].pos < pdos'[k].pos
        <5>1. j \in DOMAIN pdos
          BY <2>4, <4>1, <1>a
        <5>2. CASE k \in DOMAIN pdos
          BY <2>4, <2>b, <4>1, <5>1, <5>2 DEF PdoPosOrdered
        <5>3. CASE k = Len(pdos) + 1
          <6>1. pdos[j].sm = sm
            BY <2>4, <4>1, <5>1, <5>3
          <6>2. pdos[j].pos + 1 < pdoCntOffset + pdoSub
            BY <2>a, <5>1, <6>1
          <6>3. QED
            BY <2>1, <2>4, <5>1, <5>3, <6>2, <1>a
        <5>4. QED
          BY <3>1, <5>2, <5>3
      <4>2. QED
        BY <4>1 DEF PdoPosOrdered
    <3>7. QED
      BY <2>1, <3>2, <3>3, <3>4, <3>5, <3>6 DEF PdoPosInv
  <2>5. QED
    BY <1>6, <2>3, <2>4, PdoAppended
<1>7. CASE FinishSm
  <2>1. /\ pc = "pdo" /\ pc' = "next_sm"
        /\ pdoCntOffset' = Wrap(pdoCntOffset + Wrap(SmPdos))
        /\ pdoCntOffset = pdoMark /\ UNCHANGED <<pdos, skipped>>
        /\ Len(pdos) < pdoMark + pdoSub /\ pdoCntOffset + pdoSub <= W
    BY <1>7 DEF FinishSm, history, PdoPosInv
  <2>2. Len(pdos) \in U8 /\ pdoMark <= Len(pdos)
    BY <2>1, <1>a DEF TypeOK, U8
  <2>3. SmPdos \in U8 /\ pdoCntOffset + SmPdos = Len(pdos)
    BY <2>1, <2>2, <1>a DEF SmPdos, U8
  <2>4. pdoCntOffset' = Len(pdos)
    BY <2>1, <2>2, <2>3, WrapExact
  <2>5. QED
    BY <2>1, <2>4 DEF PdoPosInv, PdoPosExact, PdoPosOrdered
<1>8. ASSUME NEW how, Stop(how), UNCHANGED history PROVE PdoPosInv'
  BY <1>8, <1>b DEF Stop, pdoLoop, offsets, marks, smLoop, history
<1>9. CASE UNCHANGED vars
  BY <1>9, <1>b DEF vars, pdoLoop, offsets, marks, smLoop, history
<1>10. QED
  BY <1>1, <1>2, <1>3, <1>4, <1>5, <1>6, <1>7, <1>8, <1>9
     DEF Next, PdoPosOverflows, EntryPosOverflows, LengthAssertionFails, ReadFails

LEMMA PosInvsCorrect == Spec => [](TypeOK /\ EntryPosInv /\ PdoPosInv)
<1>1. Init => VisitInv /\ EntryPosInv /\ PdoPosInv
  BY DEF Init, VisitInv, EntryPosInv, PdoPosInv, PdoPosExact, PdoPosOrdered,
     InSm, InLoops
<1>2. QED
  BY <1>1, TypeOKInit, TypeOKNext, VisitInvNext, EntryPosNext, PdoPosNext, PTL
     DEF Spec

\* In a checked build, and as long as no PDO is empty, a PDO's position is its
\* exact rank (PdoPosExact).
THEOREM PdoPositionsExact == Spec => []PdoPosExact
<1>1. PdoPosInv => PdoPosExact
  BY DEF PdoPosInv, PdoPosExact
<1>2. QED
  BY <1>1, PosInvsCorrect, PTL

\* With or without empty PDOs, the positions of a sync manager's PDOs follow
\* the order in which the slave lists them (PdoPosOrdered).
THEOREM PdoPositionsOrdered == Spec => []PdoPosOrdered
<1>1. PdoPosInv => PdoPosOrdered
  BY DEF PdoPosInv, PdoPosOrdered
<1>2. QED
  BY <1>1, PosInvsCorrect, PTL

\* The caller's `+=` and `as u8` are exact in a checked build (OffsetsFit).
THEOREM CallerOffsetsFit == Spec => []OffsetsFit
<1>1. TypeOK /\ EntryPosInv /\ PdoPosInv => OffsetsFit
  <2> SUFFICES ASSUME TypeOK, EntryPosInv, PdoPosInv,
                      Checked, pc = "pdo", pdoSub > pdoCnt
               PROVE  pdoCntOffset + SmPdos < W /\ entryCntOffset + SmEntries < W
    BY DEF OffsetsFit
  <2>1. /\ pdoCntOffset = pdoMark /\ pdoCntOffset + pdoSub <= W
        /\ Len(pdos) < pdoMark + pdoSub
        /\ entryCntOffset = entryMark /\ entryPos = Len(entries)
    BY DEF PdoPosInv, EntryPosInv, InSm, InLoops
  <2>2. /\ Len(pdos) \in Nat /\ pdoMark \in 0..Len(pdos)
        /\ Len(entries) \in Nat /\ entryMark \in 0..Len(entries)
        /\ pdoSub \in Nat /\ W \in Nat /\ entryPos < W
    BY WidthAssumption DEF TypeOK, U8
  <2>3. QED
    BY <2>1, <2>2 DEF SmPdos, SmEntries
<1>2. QED
  BY <1>1, PosInvsCorrect, PTL

----------------------------------------------------------------------------
(* Positions in a build without checks                                     *)

\* The counters are the numbers of entries, modulo their width.  In a checked
\* build EntryPosInv is the stronger one; this one needs no build.
RankInv ==
  /\ EntryPosIsRank
  /\ pc \in {"next_sm", "pdo_cnt"} => entryCntOffset = Wrap(Len(entries))
  /\ pc \in InSm => entryCntOffset = Wrap(entryMark)
  /\ pc \in InLoops => entryPos = Wrap(Len(entries))

LEMMA RankNext ==
  TypeOK /\ RankInv /\ [Next]_vars => RankInv'
<1> SUFFICES ASSUME TypeOK, RankInv, [Next]_vars PROVE RankInv'
  OBVIOUS
<1> USE DEF RankInv, EntryPosIsRank, InSm, InLoops
<1>1. CASE UNCHANGED <<entries, entryPos, entryCntOffset, entryMark>>
             /\ pc \in InLoops /\ pc' \in InLoops
  BY <1>1
<1>2. CASE NextSm
  BY <1>2 DEF NextSm, offsets
<1>3. CASE NextType \/ SlaveDone
  BY <1>3 DEF NextType, SlaveDone, offsets, marks
<1>4. CASE ReadPdoCnt
  BY <1>4 DEF ReadPdoCnt, offsets, marks
<1>5. CASE ReadPdo \/ FinishPdo
  BY <1>5, <1>1 DEF ReadPdo, FinishPdo, offsets, marks
<1>6. CASE ReadEntry
  <2>1. /\ pc = "entry" /\ UNCHANGED pc
        /\ Len(entries') = Len(entries) + 1
        /\ DOMAIN entries' = 1..(Len(entries) + 1)
        /\ \A k \in DOMAIN entries : entries'[k] = entries[k]
        /\ entries'[Len(entries) + 1].pos = entryPos
    BY <1>6, EntryAppended
  <2>2. DOMAIN entries = 1..Len(entries) /\ Len(entries) \in Nat
    BY DEF TypeOK
  <2>3. /\ UNCHANGED <<entryCntOffset, entryMark>>
        /\ entryPos' = Wrap(entryPos + 1)
    BY <1>6 DEF ReadEntry, offsets, marks
  <2>4. entryPos = Wrap(Len(entries))
    BY <2>1
  <2>5. entryPos' = Wrap(Len(entries'))
    <3>1. Wrap(Wrap(Len(entries)) + 1) = Wrap(Len(entries) + 1)
      BY <2>2, WrapSum
    <3>2. QED
      BY <2>1, <2>3, <2>4, <3>1
  <2>6. ASSUME NEW k \in DOMAIN entries' PROVE entries'[k].pos = (k - 1) % W
    <3>1. CASE k \in DOMAIN entries
      BY <2>1, <3>1
    <3>2. CASE k = Len(entries) + 1
      <4>1. k - 1 = Len(entries)
        BY <2>2, <3>2
      <4>2. QED
        BY <2>1, <2>4, <3>2, <4>1 DEF Wrap
    <3>3. QED
      BY <2>1, <2>2, <3>1, <3>2
  <2>7. QED
    BY <2>1, <2>3, <2>5, <2>6
<1>7. CASE FinishSm
  <2>1. /\ pc = "pdo" /\ pc' = "next_sm" /\ UNCHANGED entries
        /\ entryCntOffset' = Wrap(Wrap(entryMark) + Wrap(SmEntries))
    BY <1>7 DEF FinishSm
  <2>2. entryMark \in Nat /\ SmEntries \in Nat
          /\ entryMark + SmEntries = Len(entries)
    BY DEF TypeOK, SmEntries
  <2>3. entryCntOffset' = Wrap(Len(entries))
    <3>1. Wrap(Wrap(entryMark) + Wrap(SmEntries)) = Wrap(entryMark + SmEntries)
      BY <2>2, WrapSum
    <3>2. QED
      BY <2>1, <2>2, <3>1
  <2>4. QED
    BY <2>1, <2>3
<1>8. ASSUME NEW how, Stop(how) PROVE RankInv'
  BY <1>8 DEF Stop
<1>9. CASE UNCHANGED vars
  BY <1>9 DEF vars, offsets, marks
<1>10. QED
  BY <1>1, <1>2, <1>3, <1>4, <1>5, <1>6, <1>7, <1>8, <1>9
     DEF Next, PdoPosOverflows, EntryPosOverflows, LengthAssertionFails, ReadFails

\* With or without overflow checks, an entry's position is its rank in the
\* slave's image modulo the width of the counter: neither the truncation of
\* SmEntries nor that of the sum loses more (EntryPosIsRank).
THEOREM EntryPositionsAreRanks == Spec => []EntryPosIsRank
<1>1. Wrap(0) = 0
  BY WrapExact, U8IsNat
<1>2. Init => RankInv
  BY <1>1 DEF Init, RankInv, EntryPosIsRank, InSm, InLoops
<1>3. RankInv => EntryPosIsRank
  BY DEF RankInv
<1>4. QED
  BY <1>2, <1>3, TypeOKInit, TypeOKNext, RankNext, PTL DEF Spec

----------------------------------------------------------------------------
(* The order of the entries                                                *)

\* Everything placed so far is of a type the outer loop has reached, and of
\* the current type only up to the current sync manager.
OrderInv ==
  /\ OutputsFirst
  /\ \A k \in DOMAIN entries :
       /\ entries[k].type = "Inputs" => type = "Inputs"
       /\ entries[k].type = type => entries[k].sm <= sm

LEMMA OrderNext ==
  TypeOK /\ OrderInv /\ [Next]_vars => OrderInv'
<1> SUFFICES ASSUME TypeOK, OrderInv, [Next]_vars PROVE OrderInv'
  OBVIOUS
<1> USE DEF OrderInv, OutputsFirst
<1>a. ASSUME NEW k \in DOMAIN entries PROVE entries[k].sm \in Nat
  <2>1. entries[k] \in EntryType
    BY DEF TypeOK
  <2>2. QED
    BY <2>1 DEF EntryType
<1>1. CASE UNCHANGED <<entries, type, sm>>
  BY <1>1
<1>2. CASE NextSm
  <2>1. sm' > sm /\ sm \in Nat /\ sm' \in Nat /\ UNCHANGED <<entries, type>>
    BY <1>2, SmTypesAssumption DEF NextSm, Waiting, TypeOK
  <2>2. ASSUME NEW k \in DOMAIN entries, entries[k].type = type
        PROVE  entries[k].sm <= sm'
    <3>1. entries[k].sm <= sm
      BY <2>2
    <3>2. QED
      BY <2>1, <2>2, <3>1, <1>a
  <2>3. QED
    BY <2>1, <2>2
<1>3. CASE NextType
  <2>1. type = "Outputs" /\ type' = "Inputs" /\ UNCHANGED entries
    BY <1>3 DEF NextType
  <2>2. QED
    BY <2>1
<1>4. CASE ReadEntry
  <2>1. /\ UNCHANGED <<type, sm>>
        /\ Len(entries') = Len(entries) + 1
        /\ DOMAIN entries' = 1..(Len(entries) + 1)
        /\ \A k \in DOMAIN entries : entries'[k] = entries[k]
        /\ entries'[Len(entries) + 1].sm = sm
        /\ entries'[Len(entries) + 1].type = type
    BY <1>4, EntryAppended
  <2>2. DOMAIN entries = 1..Len(entries) /\ Len(entries) \in Nat /\ sm \in Nat
    BY DEF TypeOK
  <2>3. \A k \in DOMAIN entries' : k \in DOMAIN entries \/ k = Len(entries) + 1
    BY <2>1, <2>2
  <2>4. ASSUME NEW k \in DOMAIN entries'
        PROVE  /\ entries'[k].type = "Inputs" => type' = "Inputs"
               /\ entries'[k].type = type' => entries'[k].sm <= sm'
    <3>1. CASE k \in DOMAIN entries
      BY <2>1, <3>1
    <3>2. CASE k = Len(entries) + 1
      BY <2>1, <2>2, <3>2
    <3>3. QED
      BY <2>3, <2>4, <3>1, <3>2
  <2>5. ASSUME NEW j \in DOMAIN entries', NEW k \in DOMAIN entries', j < k
        PROVE  /\ entries'[j].type = "Inputs" => entries'[k].type = "Inputs"
               /\ entries'[j].type = entries'[k].type
                    => entries'[j].sm <= entries'[k].sm
    <3>1. j \in DOMAIN entries
      BY <2>1, <2>2, <2>5
    <3>2. CASE k \in DOMAIN entries
      BY <2>1, <2>5, <3>1, <3>2
    <3>3. CASE k = Len(entries) + 1
      BY <2>1, <3>1, <3>3
    <3>4. QED
      BY <2>3, <2>5, <3>2, <3>3
  <2>6. QED
    BY <2>4, <2>5
<1>5. ASSUME NEW how, Stop(how) PROVE UNCHANGED <<entries, type, sm>>
  BY <1>5 DEF Stop, smLoop
<1>6. CASE SlaveDone \/ ReadPdoCnt \/ ReadPdo \/ FinishPdo \/ FinishSm
  BY <1>6, <1>1 DEF SlaveDone, ReadPdoCnt, ReadPdo, FinishPdo, FinishSm, smLoop
<1>7. CASE UNCHANGED vars
  BY <1>7, <1>1 DEF vars, smLoop
<1>8. QED
  BY <1>1, <1>2, <1>3, <1>4, <1>5, <1>6, <1>7
     DEF Next, PdoPosOverflows, EntryPosOverflows, LengthAssertionFails, ReadFails

\* The caller of pdo_values sees all outputs before all inputs, and within a
\* type the sync managers in ascending order (OutputsFirst).
THEOREM OutputsComeFirst == Spec => []OutputsFirst
<1>1. Init => OrderInv
  BY DEF Init, OrderInv, OutputsFirst
<1>2. OrderInv => OutputsFirst
  BY DEF OrderInv
<1>3. QED
  BY <1>1, <1>2, TypeOKInit, TypeOKNext, OrderNext, PTL DEF Spec

----------------------------------------------------------------------------
(* What it takes to overflow                                               *)

LEMMA AnnouncedPdosNext ==
  ASSUME TypeOK, PdoPosInv, AnnouncedInv, Checked, [Next]_vars
  PROVE  announcedPdos' = W
           \/ (/\ Len(pdos') <= announcedPdos'
               /\ pc' \in InLoops => pdoMark' + pdoCnt' <= announcedPdos')
<1> USE DEF InSm, InLoops
<1>a. /\ Len(pdos) \in Nat /\ pdoCnt \in Nat /\ pdoSub \in Nat \ {0}
      /\ pdoMark \in Nat /\ announcedPdos \in Nat /\ W \in Nat
  BY U8IsNat, WidthAssumption DEF TypeOK
<1>b. ASSUME UNCHANGED <<announcedPdos, pdos>>,
             \/ UNCHANGED <<pdoMark, pdoCnt>> /\ pc \in InLoops
             \/ pc' \notin InLoops
      PROVE  announcedPdos' = W
               \/ (/\ Len(pdos') <= announcedPdos'
                   /\ pc' \in InLoops => pdoMark' + pdoCnt' <= announcedPdos')
  BY <1>b DEF AnnouncedInv
<1>1. CASE NextSm \/ NextType \/ SlaveDone \/ FinishSm
  BY <1>1, <1>b DEF NextSm, NextType, SlaveDone, FinishSm, history
<1>2. CASE ReadPdoCnt
  <2>1. PICK n \in U8 : pdoCnt' = n /\ announcedPdos' = Cap(announcedPdos + n)
    BY <1>2 DEF ReadPdoCnt
  <2>2. pc = "pdo_cnt" /\ UNCHANGED <<pdos, pdoMark>>
    BY <1>2 DEF ReadPdoCnt, marks
  <2>3. pdoMark = Len(pdos)
    BY <2>2 DEF PdoPosInv
  <2>4. n \in Nat
    BY U8IsNat
  <2>5. announcedPdos = W \/ Len(pdos) <= announcedPdos
    BY DEF AnnouncedInv
  <2>6. announcedPdos' = W \/ pdoMark + n <= announcedPdos'
    <3>1. CASE announcedPdos + n < W
      <4>1. announcedPdos' = announcedPdos + n /\ announcedPdos # W
        BY <2>1, <2>4, <3>1, <1>a DEF Cap
      <4>2. QED
        BY <2>3, <2>4, <2>5, <4>1, <1>a
    <3>2. CASE ~(announcedPdos + n < W)
      BY <2>1, <3>2 DEF Cap
    <3>3. QED
      BY <3>1, <3>2
  <2>7. announcedPdos' \in Nat
    BY <2>1, <2>4, <1>a DEF Cap
  <2>8. QED
    BY <2>1, <2>2, <2>3, <2>4, <2>6, <2>7, <1>a
<1>3. CASE ReadPdo \/ ReadEntry
  BY <1>3, <1>b DEF ReadPdo, ReadEntry, pdoLoop, marks, history
<1>4. CASE FinishPdo
  <2>1. /\ pc = "entry" /\ UNCHANGED <<pdoCnt, pdoMark, announcedPdos>>
    BY <1>4 DEF FinishPdo, marks
  <2>2. Len(pdos) < pdoMark + pdoSub /\ pdoSub <= pdoCnt
    BY <2>1 DEF PdoPosInv
  <2>3. Len(pdos') <= Len(pdos) + 1
    <3>1. CASE UNCHANGED pdos
      BY <3>1, <1>a
    <3>2. CASE Len(pdos') = Len(pdos) + 1
      BY <3>2, <1>a
    <3>3. QED
      BY <1>4, <3>1, <3>2, PdoAppended
  <2>4. Len(pdos') <= pdoMark + pdoCnt
    <3>1. Len(pdos') \in Nat
      BY <1>4, TypeOKNext DEF TypeOK, Next
    <3>2. QED
      BY <2>2, <2>3, <3>1, <1>a
  <2>5. announcedPdos = W \/ pdoMark + pdoCnt <= announcedPdos
    BY <2>1 DEF AnnouncedInv
  <2>6. Len(pdos') \in Nat
    BY <1>4, TypeOKNext DEF TypeOK, Next
  <2>7. QED
    BY <2>1, <2>4, <2>5, <2>6, <1>a
<1>5. ASSUME NEW how, Stop(how), UNCHANGED history
      PROVE  UNCHANGED <<announcedPdos, pdos>> /\ pc' \notin InLoops
  BY <1>5 DEF Stop, history
<1>6. CASE UNCHANGED vars
  <2>1. UNCHANGED <<announcedPdos, pdos, pdoMark, pdoCnt, pc>>
    BY <1>6 DEF vars, pdoLoop, marks, history
  <2>2. QED
    BY <2>1, <1>b
<1>7. QED
  BY <1>1, <1>2, <1>3, <1>4, <1>5, <1>6, <1>b
     DEF Next, PdoPosOverflows, EntryPosOverflows, LengthAssertionFails, ReadFails

LEMMA AnnouncedEntriesNext ==
  ASSUME TypeOK, AnnouncedInv, [Next]_vars
  PROVE  announcedEntries' = W
           \/ (/\ Len(entries') <= announcedEntries'
               /\ pc' = "entry" =>
                    Len(entries') + entryCnt' < announcedEntries' + entrySub')
<1>a. /\ Len(entries) \in Nat /\ entryCnt \in Nat /\ entrySub \in Nat \ {0}
      /\ announcedEntries \in Nat /\ W \in Nat
  BY U8IsNat, WidthAssumption DEF TypeOK
<1>b. ASSUME UNCHANGED <<announcedEntries, entries>>,
             UNCHANGED <<entryCnt, entrySub, pc>> \/ pc' # "entry"
      PROVE  announcedEntries' = W
               \/ (/\ Len(entries') <= announcedEntries'
                   /\ pc' = "entry" =>
                        Len(entries') + entryCnt' < announcedEntries' + entrySub')
  BY <1>b DEF AnnouncedInv
<1>1. CASE NextSm \/ NextType \/ SlaveDone \/ FinishSm \/ ReadPdoCnt \/ FinishPdo
  BY <1>1, <1>b DEF NextSm, NextType, SlaveDone, FinishSm, ReadPdoCnt, FinishPdo,
                    history
<1>2. CASE ReadPdo
  <2>1. PICK n \in U8 :
          entryCnt' = n /\ announcedEntries' = Cap(announcedEntries + n)
    BY <1>2 DEF ReadPdo
  <2>2. entrySub' = 1 /\ UNCHANGED entries
    BY <1>2 DEF ReadPdo
  <2>3. n \in Nat
    BY U8IsNat
  <2>4. announcedEntries = W \/ Len(entries) <= announcedEntries
    BY DEF AnnouncedInv
  <2>5. announcedEntries' = W \/ Len(entries) + n <= announcedEntries'
    BY <2>1, <2>3, <2>4, <1>a DEF Cap
  <2>6. announcedEntries' \in Nat
    BY <2>1, <2>3, <1>a DEF Cap
  <2>7. QED
    BY <2>1, <2>2, <2>3, <2>5, <2>6, <1>a
<1>3. CASE ReadEntry
  <2>1. /\ pc = "entry" /\ entrySub <= entryCnt /\ entrySub' = entrySub + 1
        /\ UNCHANGED <<entryCnt, announcedEntries>>
    BY <1>3 DEF ReadEntry, history
  <2>2. Len(entries') = Len(entries) + 1
    BY <1>3, EntryAppended
  <2>3. announcedEntries = W
          \/ Len(entries) + entryCnt < announcedEntries + entrySub
    BY <2>1 DEF AnnouncedInv
  <2>4. announcedEntries = W
          \/ (/\ Len(entries) + 1 <= announcedEntries
              /\ Len(entries) + 1 + entryCnt < announcedEntries + (entrySub + 1))
    BY <2>1, <2>3, <1>a
  <2>5. QED
    BY <2>1, <2>2, <2>4
<1>4. ASSUME NEW how, Stop(how), UNCHANGED history
      PROVE  UNCHANGED <<announcedEntries, entries>> /\ pc' # "entry"
  BY <1>4 DEF Stop, history
<1>5. CASE UNCHANGED vars
  BY <1>5, <1>b DEF vars, entryLoop, history
<1>6. QED
  BY <1>1, <1>2, <1>3, <1>4, <1>5, <1>b
     DEF Next, PdoPosOverflows, EntryPosOverflows, LengthAssertionFails, ReadFails

\* The pass runs until it has an outcome.
OutcomeInv == pc \notin {"done", "stopped"} => outcome = "running"

\* A build without checks never overflows; AnnouncedInv is needed of the other.
OverflowIInv ==
  /\ TypeOK /\ VisitInv /\ EntryPosInv /\ PdoPosInv /\ OutcomeInv
  /\ Checked => AnnouncedInv
  /\ OverflowNeedsManyPdos

LEMMA OverflowNext ==
  ASSUME OverflowIInv, [Next]_vars
  PROVE  OverflowNeedsManyPdos'
<1> USE DEF InSm, InLoops
<1>a. /\ pdoCnt \in Nat /\ pdoSub \in Nat \ {0} /\ pdoMark \in Nat
      /\ entryCnt \in Nat /\ entrySub \in Nat \ {0} /\ Len(entries) \in Nat
      /\ announcedPdos \in Nat /\ announcedEntries \in Nat /\ W \in Nat
  BY U8IsNat, WidthAssumption DEF OverflowIInv, TypeOK
<1>1. CASE PdoPosOverflows
  <2>1. /\ Checked /\ pc = "pdo" /\ pdoSub <= pdoCnt
        /\ pdoCntOffset + pdoSub >= W /\ UNCHANGED announcedPdos
    BY <1>1 DEF PdoPosOverflows, Overflows, history
  <2>2. pdoCntOffset = pdoMark
    BY <2>1 DEF OverflowIInv, PdoPosInv
  <2>3. announcedPdos = W \/ pdoMark + pdoCnt <= announcedPdos
    BY <2>1 DEF OverflowIInv, AnnouncedInv
  <2>4. announcedPdos >= W
    BY <2>1, <2>2, <2>3, <1>a
  <2>5. QED
    BY <2>1, <2>4 DEF OverflowNeedsManyPdos
<1>2. CASE EntryPosOverflows
  <2>1. /\ Checked /\ pc = "entry" /\ entrySub <= entryCnt
        /\ entryPos + 1 >= W /\ UNCHANGED announcedEntries
    BY <1>2 DEF EntryPosOverflows, Overflows, history
  <2>2. entryPos = Len(entries)
    BY <2>1 DEF OverflowIInv, EntryPosInv
  <2>3. announcedEntries = W
          \/ Len(entries) + entryCnt < announcedEntries + entrySub
    BY <2>1 DEF OverflowIInv, AnnouncedInv
  <2>4. announcedEntries >= W
    BY <2>1, <2>2, <2>3, <1>a
  <2>5. QED
    BY <2>1, <2>4 DEF OverflowNeedsManyPdos
<1>3. CASE outcome' # "overflow"
  BY <1>3 DEF OverflowNeedsManyPdos
<1>4. CASE UNCHANGED <<outcome, history>>
  BY <1>4 DEF OverflowIInv, OverflowNeedsManyPdos, history
<1>5. CASE NextSm \/ NextType \/ SlaveDone \/ ReadEntry \/ FinishSm
  BY <1>5, <1>3, <1>4 DEF NextSm, NextType, SlaveDone, ReadEntry, FinishSm
<1>6. CASE ReadPdoCnt \/ ReadPdo \/ FinishPdo
  <2>1. UNCHANGED outcome /\ pc \in InSm
    BY <1>6 DEF ReadPdoCnt, ReadPdo, FinishPdo
  <2>2. outcome # "overflow"
    BY <2>1 DEF OverflowIInv, OutcomeInv
  <2>3. QED
    BY <1>3, <2>1, <2>2
<1>7. CASE LengthAssertionFails \/ ReadFails
  BY <1>7, <1>3 DEF LengthAssertionFails, ReadFails, Stop
<1>8. CASE UNCHANGED vars
  BY <1>8, <1>4 DEF vars
<1>9. QED
  BY <1>1, <1>2, <1>5, <1>6, <1>7, <1>8 DEF Next

LEMMA OutcomeInvNext == OutcomeInv /\ [Next]_vars => OutcomeInv'
  BY DEF OutcomeInv, Next, vars, NextSm, NextType, SlaveDone, ReadPdoCnt, ReadPdo,
         PdoPosOverflows, ReadEntry, EntryPosOverflows, LengthAssertionFails,
         FinishPdo, FinishSm, ReadFails, Stop

\* A checked build overflows only on a slave that announces at least as many
\* PDOs or entries as a u8 has values (OverflowNeedsManyPdos).
THEOREM OverflowsOnlyAtTheLimit == Spec => []OverflowNeedsManyPdos
<1>1. Init => OverflowIInv
  BY TypeOKInit DEF Init, OverflowIInv, VisitInv, EntryPosInv, PdoPosInv,
     PdoPosExact, PdoPosOrdered, AnnouncedInv, OutcomeInv, OverflowNeedsManyPdos,
     InSm, InLoops
<1>2. OverflowIInv /\ [Next]_vars => OverflowIInv'
  <2> SUFFICES ASSUME OverflowIInv, [Next]_vars PROVE OverflowIInv'
    OBVIOUS
  <2>1. TypeOK' /\ VisitInv' /\ EntryPosInv' /\ PdoPosInv' /\ OutcomeInv'
    BY TypeOKNext, VisitInvNext, EntryPosNext, PdoPosNext, OutcomeInvNext
       DEF OverflowIInv
  <2>2. Checked => AnnouncedInv'
    BY AnnouncedPdosNext, AnnouncedEntriesNext DEF OverflowIInv, AnnouncedInv
  <2>3. QED
    BY <2>1, <2>2, BuildKept, OverflowNext DEF OverflowIInv
<1>3. OverflowIInv => OverflowNeedsManyPdos
  BY DEF OverflowIInv
<1>4. QED
  BY <1>1, <1>2, <1>3, PTL DEF Spec
============================================================================
