----------------------------- MODULE PdoAssign -----------------------------
(***************************************************************************)
(* How coe_pdo_info and si_pdo_assign of src/lib.rs read the PDO           *)
(* assignment of ONE slave and compute, from the counts and lengths it     *)
(* answers, where every PDO entry lies in the process image and which      *)
(* position it gets.  One step per read; module AutoConfig has the pass    *)
(* over all slaves as the single step ReadPdoAssign.                       *)
(*                                                                         *)
(* The code nests PDOs in sync managers and entries in PDOs.  Here both    *)
(* are flat sequences in the order of pdo_info, cut into the parts that    *)
(* belong to one call of si_pdo_assign by pdoMark and entryMark.           *)
(***************************************************************************)
EXTENDS Naturals, Sequences

CONSTANTS
  W,         \* 2^8 in the code: the number of values of its u8 counters
  SmTypes,   \* what sm_types can hold: functions from sync managers to types
  BitLens    \* lengths a mapping entry can have

ASSUME WidthAssumption == W \in Nat \ {0}
ASSUME SmTypesAssumption ==
  \A t \in SmTypes : DOMAIN t \subseteq Nat \ {0}
ASSUME BitLensAssumption == BitLens \subseteq Nat

U8 == 0..(W - 1)

VARIABLES
  build,            \* "checked": with overflow checks and debug assertions
  smTypes,          \* sm_types: the sync managers with their types
  type, sm,         \* the two loops over the sync managers
  pc,               \* the read that comes next
  pdoCnt, pdoSub,   \* 1..=pdo_cnt: PDOs assigned to sm, and the current one
  pdoPos,           \* pdo_pos of the current PDO
  entryCnt, entrySub,            \* 1..=pdo_entry_cnt, likewise
  entryPos,                      \* pdo_entry_pos
  bitOffset,                     \* bit_offset
  pdoCntOffset, entryCntOffset,  \* pdo_cnt_offset, pdo_entry_cnt_offset
  pdos, entries,                 \* pdo_info so far, flat
  pdoMark, entryMark,            \* their lengths when sm was entered
  outcome,                       \* "running", "Ok", an error or a panic
  announcedPdos, announcedEntries, skipped   \* history: totals of the counts
                                 \* the slave answered, capped at W, and
                                 \* whether some PDO was empty (0 or 1)

smLoop == <<build, smTypes, type, sm>>
pdoLoop == <<pdoCnt, pdoSub, pdoPos>>
entryLoop == <<entryCnt, entrySub>>
offsets == <<pdoCntOffset, entryCntOffset>>
marks == <<pdoMark, entryMark>>
history == <<announcedPdos, announcedEntries, skipped>>
vars == <<smLoop, pc, pdoLoop, entryLoop, entryPos, bitOffset, offsets,
          pdos, entries, marks, outcome, history>>

Checked == build = "checked"

PdoType == [sm : Nat, pos : U8]
EntryType == [sm : Nat, type : {"Outputs", "Inputs"}, pos : U8,
              byte : Nat, bit : 0..7, len : BitLens]

\* Mutants: the arithmetic is exact, as in a u16; it saturates.
Wrap_Exact(n) == n
Wrap_Saturates(n) == IF n < W THEN n ELSE W - 1

\* `a as u8`, and the value an unchecked u8 operation leaves.
Wrap(n) == n % W

\* The totals of the history need to be known no further than W.
Cap(n) == IF n < W THEN n ELSE W

\* Mutants: the largest value is off by one, either way; nothing is checked.
Overflows_Late(n) == Checked /\ n > W
Overflows_Early(n) == Checked /\ n >= W - 1
Overflows_Never(n) == FALSE

\* An operation whose exact result is n: it panics in a checked build.
Overflows(n) == Checked /\ n >= W

----------------------------------------------------------------------------
Init ==
  /\ build \in {"checked", "release"}
  /\ smTypes \in SmTypes
  /\ type = "Outputs" /\ sm = 0 /\ pc = "next_sm"
  /\ pdoCnt = 0 /\ pdoSub = 1 /\ pdoPos = 0
  /\ entryCnt = 0 /\ entrySub = 1 /\ entryPos = 0 /\ bitOffset = 0
  /\ pdoCntOffset = 0 /\ entryCntOffset = 0
  /\ pdos = <<>> /\ entries = <<>> /\ pdoMark = 0 /\ entryMark = 0
  /\ outcome = "running"
  /\ announcedPdos = 0 /\ announcedEntries = 0 /\ skipped = 0

\* A panic, or `?` on a failed read.  The locals go with the frame; they keep
\* their values here so that properties can say what led to it.
Stop(how) ==
  /\ pc' = "stopped" /\ outcome' = how
  /\ UNCHANGED <<smLoop, pdoLoop, entryLoop, entryPos, bitOffset, offsets,
                 pdos, entries, marks>>

\* Mutant: the loop takes the sync managers of its type again and again.
Waiting_Again == {s \in DOMAIN smTypes : smTypes[s] = type}

\* Sync managers of the current type that the inner loop has not visited.
Waiting == {s \in DOMAIN smTypes : smTypes[s] = type /\ s > sm}

\* The loop over the sync managers of one type takes the next of them.
NextSm ==
  /\ pc = "next_sm"
  /\ \E s \in Waiting :
       /\ \A r \in Waiting : s <= r
       /\ sm' = s
  /\ pc' = "pdo_cnt"
  /\ pdoMark' = Len(pdos) /\ entryMark' = Len(entries)
  /\ UNCHANGED <<build, smTypes, type, pdoLoop, entryLoop, entryPos, bitOffset,
                 offsets, pdos, entries, outcome, history>>

\* for t in &[Outputs, Inputs]
NextType ==
  /\ pc = "next_sm" /\ Waiting = {} /\ type = "Outputs"
  /\ type' = "Inputs" /\ sm' = 0
  /\ UNCHANGED <<build, smTypes, pc, pdoLoop, entryLoop, entryPos, bitOffset,
                 offsets, pdos, entries, marks, outcome, history>>

\* res.push(pdo_info)
SlaveDone ==
  /\ pc = "next_sm" /\ Waiting = {} /\ type = "Inputs"
  /\ pc' = "done" /\ outcome' = "Ok"
  /\ UNCHANGED <<smLoop, pdoLoop, entryLoop, entryPos, bitOffset, offsets,
                 pdos, entries, marks, history>>

\* si_pdo_assign is entered and reads 0x1C10+sm:0.
ReadPdoCnt ==
  /\ pc = "pdo_cnt"
  /\ \E n \in U8 :
       /\ pdoCnt' = n
       /\ announcedPdos' = Cap(announcedPdos + n)
  /\ pdoSub' = 1 /\ bitOffset' = 0 /\ entryPos' = entryCntOffset
  /\ pc' = "pdo"
  /\ UNCHANGED <<smLoop, pdoPos, entryLoop, offsets, pdos, entries, marks,
                 outcome, announcedEntries, skipped>>

\* The head of the loop over the PDOs: pdo_pos is computed, then the index of
\* the PDO and its number of entries are read.
ReadPdo ==
  /\ pc = "pdo" /\ pdoSub <= pdoCnt
  /\ ~Overflows(pdoCntOffset + pdoSub)
  /\ pdoPos' = Wrap(pdoCntOffset + pdoSub - 1)
  /\ \E n \in U8 :
       /\ entryCnt' = n
       /\ announcedEntries' = Cap(announcedEntries + n)
  /\ entrySub' = 1
  /\ pc' = "entry"
  /\ UNCHANGED <<smLoop, pdoCnt, pdoSub, entryPos, bitOffset, offsets, pdos,
                 entries, marks, outcome, announcedPdos, skipped>>

PdoPosOverflows ==
  /\ pc = "pdo" /\ pdoSub <= pdoCnt
  /\ Overflows(pdoCntOffset + pdoSub)
  /\ Stop("overflow") /\ UNCHANGED history

\* Mutants: lengths are counted in whole bytes; entries are put in front.
ReadEntry_WholeBytes ==
  /\ pc = "entry" /\ entrySub <= entryCnt
  /\ ~Overflows(entryPos + 1)
  /\ \E l \in BitLens :
       /\ entries' = Append(entries,
            [sm |-> sm, type |-> type, pos |-> entryPos,
             byte |-> bitOffset \div 8, bit |-> bitOffset % 8, len |-> l])
       /\ bitOffset' = bitOffset + 8 * (l \div 8)
  /\ entryPos' = Wrap(entryPos + 1)
  /\ entrySub' = entrySub + 1
  /\ UNCHANGED <<smLoop, pc, pdoLoop, entryCnt, offsets, pdos, marks,
                 outcome, history>>

ReadEntry_InFront ==
  /\ pc = "entry" /\ entrySub <= entryCnt
  /\ ~Overflows(entryPos + 1)
  /\ \E l \in BitLens :
       /\ entries' = <<[sm |-> sm, type |-> type, pos |-> entryPos,
                        byte |-> bitOffset \div 8, bit |-> bitOffset % 8,
                        len |-> l]>> \o entries
       /\ bitOffset' = bitOffset + l
  /\ entryPos' = Wrap(entryPos + 1)
  /\ entrySub' = entrySub + 1
  /\ UNCHANGED <<smLoop, pc, pdoLoop, entryCnt, offsets, pdos, marks,
                 outcome, history>>

\* One mapping entry is read and pushed; the cached dictionary either agrees
\* with its length or does not know it.
ReadEntry ==
  /\ pc = "entry" /\ entrySub <= entryCnt
  /\ ~Overflows(entryPos + 1)
  /\ \E l \in BitLens :
       /\ entries' = Append(entries,
            [sm |-> sm, type |-> type, pos |-> entryPos,
             byte |-> bitOffset \div 8, bit |-> bitOffset % 8, len |-> l])
       /\ bitOffset' = bitOffset + l
  /\ entryPos' = Wrap(entryPos + 1)
  /\ entrySub' = entrySub + 1
  /\ UNCHANGED <<smLoop, pc, pdoLoop, entryCnt, offsets, pdos, marks,
                 outcome, history>>

\* The entry is read, but pdo_entry_pos cannot be advanced past it.
EntryPosOverflows ==
  /\ pc = "entry" /\ entrySub <= entryCnt
  /\ Overflows(entryPos + 1)
  /\ Stop("overflow") /\ UNCHANGED history

\* debug_assert_eq!(bit_len, e.bit_len)
LengthAssertionFails ==
  /\ pc = "entry" /\ entrySub <= entryCnt
  /\ Checked
  /\ Stop("assertion") /\ UNCHANGED history

\* Behind its entries the PDO is pushed, if it has any.
FinishPdo ==
  /\ pc = "entry" /\ entrySub > entryCnt
  /\ \/ entryCnt > 0 /\ pdos' = Append(pdos, [sm |-> sm, pos |-> pdoPos])
                     /\ UNCHANGED skipped
     \/ entryCnt = 0 /\ skipped' = 1 /\ UNCHANGED pdos
  /\ pdoSub' = pdoSub + 1 /\ pc' = "pdo"
  /\ UNCHANGED <<smLoop, pdoCnt, pdoPos, entryLoop, entryPos, bitOffset,
                 offsets, entries, marks, outcome, announcedPdos,
                 announcedEntries>>

\* Mutants: the offset of the PDOs is not advanced; PDOs are taken for entries.
SmPdos_None == 0
SmEntries_Pdos == Len(pdos) - pdoMark

\* What the call of si_pdo_assign for sm has returned, as counted by its caller.
SmPdos == Len(pdos) - pdoMark
SmEntries == Len(entries) - entryMark

\* si_pdo_assign returns and the caller advances its two offsets.  These
\* additions are checked like the others, but do not overflow: OffsetsFit.
FinishSm ==
  /\ pc = "pdo" /\ pdoSub > pdoCnt
  /\ pdoCntOffset' = Wrap(pdoCntOffset + Wrap(SmPdos))
  /\ entryCntOffset' = Wrap(entryCntOffset + Wrap(SmEntries))
  /\ pc' = "next_sm"
  /\ UNCHANGED <<smLoop, pdoLoop, entryLoop, entryPos, bitOffset, pdos,
                 entries, marks, outcome, history>>

\* Any of the reads fails.
ReadFails ==
  /\ \/ pc = "pdo_cnt"
     \/ pc = "pdo" /\ pdoSub <= pdoCnt /\ ~Overflows(pdoCntOffset + pdoSub)
     \/ pc = "entry" /\ entrySub <= entryCnt
  /\ Stop("ReadSdo") /\ UNCHANGED history

Next ==
  \/ NextSm \/ NextType \/ SlaveDone
  \/ ReadPdoCnt \/ ReadPdo \/ PdoPosOverflows
  \/ ReadEntry \/ EntryPosOverflows \/ LengthAssertionFails
  \/ FinishPdo \/ FinishSm
  \/ ReadFails

Spec == Init /\ [][Next]_vars

\* Every read ends within its timeout, and the loops are sequential code.
FairSpec == Spec /\ WF_vars(Next)

----------------------------------------------------------------------------
(* Properties                                                              *)

\* Type invariant of the loops and of what they have collected.
TypeOK ==
  /\ build \in {"checked", "release"}
  /\ smTypes \in SmTypes /\ type \in {"Outputs", "Inputs"} /\ sm \in Nat
  /\ pc \in {"next_sm", "pdo_cnt", "pdo", "entry", "done", "stopped"}
  /\ pdoCnt \in U8 /\ pdoSub \in Nat \ {0} /\ pdoPos \in U8
  /\ entryCnt \in U8 /\ entrySub \in Nat \ {0} /\ entryPos \in U8
  /\ bitOffset \in Nat
  /\ pdoCntOffset \in U8 /\ entryCntOffset \in U8
  /\ pdos \in Seq(PdoType) /\ entries \in Seq(EntryType)
  /\ pdoMark \in 0..Len(pdos) /\ entryMark \in 0..Len(entries)
  /\ outcome \in {"running", "Ok", "ReadSdo", "overflow", "assertion"}
  /\ announcedPdos \in 0..W /\ announcedEntries \in 0..W /\ skipped \in {0, 1}

Begins(e) == 8 * e.byte + e.bit
Ends(e) == Begins(e) + e.len

\* Two entries of one sync manager never share a bit, whichever PDOs they are
\* mapped into: Offset is computed by splitting a running sum into byte and
\* bit, and set_pdo_value writes wherever it points.  Entries of two sync
\* managers may: each begins at bit 0, and set_pdo_value does not tell them apart.
EntriesDisjoint ==
  \A j, k \in DOMAIN entries :
    j < k /\ entries[j].sm = entries[k].sm => Ends(entries[j]) <= Begins(entries[k])

\* In a build without overflow checks a PdoEntryPos is the entry's rank in the
\* slave's image modulo the width of the counter, although it is carried
\* across sync managers through a truncated sum.
EntryPosIsRank ==
  \A k \in DOMAIN entries : entries[k].pos = (k - 1) % W

\* In a checked build it is the exact rank, so it identifies the entry.
EntryPosExact ==
  Checked => \A k \in DOMAIN entries : entries[k].pos = k - 1

\* In a checked build a PdoPos identifies the PDO, unless an empty one was
\* dropped: the loop numbers PDOs by subindex, its caller continues behind the
\* number of PDOs that were kept.
PdoPosExact ==
  Checked /\ skipped = 0 => \A k \in DOMAIN pdos : pdos[k].pos = k - 1

\* Dropped PDOs or not, positions within a sync manager follow bus order.
PdoPosOrdered ==
  Checked => \A j, k \in DOMAIN pdos :
               j < k /\ pdos[j].sm = pdos[k].sm => pdos[j].pos < pdos[k].pos

\* When si_pdo_assign returns in a checked build, its caller neither overflows
\* in `+=` nor loses anything in `as u8`: the loops would have panicked before.
OffsetsFit ==
  Checked /\ pc = "pdo" /\ pdoSub > pdoCnt =>
    pdoCntOffset + SmPdos < W /\ entryCntOffset + SmEntries < W

\* A checked build panics with an overflow only on a slave that announces at
\* least W PDOs or at least W entries, in however many sync managers.
OverflowNeedsManyPdos ==
  outcome = "overflow" => announcedPdos >= W \/ announcedEntries >= W

\* All outputs precede all inputs, and each sync manager's entries stay
\* together: the order the caller of pdo_values sees.
OutputsFirst ==
  \A j, k \in DOMAIN entries : j < k =>
    /\ entries[j].type = "Inputs" => entries[k].type = "Inputs"
    /\ entries[j].type = entries[k].type => entries[j].sm <= entries[k].sm

\* The pass over a slave comes to an end, also when a count has the largest
\* value of its type.
PassEnds == <>(outcome # "running")
============================================================================
