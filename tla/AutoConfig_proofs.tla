------------------------- MODULE AutoConfig_proofs -------------------------
(***************************************************************************)
(* Proofs about AutoConfig, for every set of devices, every bus and any    *)
(* number of calls: type correctness, alignment of the dictionary cache,   *)
(* correctness of the committed PDO table, and refinement of the contract. *)
(***************************************************************************)
EXTENDS AutoConfig, TLAPS

----------------------------------------------------------------------------
(* Type correctness                                                        *)

LEMMA BusesAreSequences == Buses \subseteq Seq(Devices)
  BY ConstantsAssumption DEF Buses

LEMMA TypeOKInit == Init => TypeOK
<1> SUFFICES ASSUME Init PROVE TypeOK
  OBVIOUS
<1>1. torn \in BOOLEAN /\ moved \in BOOLEAN
  BY Zenon DEF Init
<1>2. QED
  BY <1>1, BusesAreSequences DEF Init, TypeOK

\* An early return keeps the types.
LEMMA ReturnErrTypeOK ==
  ASSUME TypeOK, NEW err \in Errors, ReturnErr(err),
         slaves' = <<>> \/ UNCHANGED slaves, torn' \in BOOLEAN
  PROVE  TypeOK'
<1>1. torn' \in BOOLEAN /\ moved' \in BOOLEAN
  BY Zenon DEF ReturnErr, TypeOK
<1>2. slaves' \in Seq(Devices)
  <2>1. CASE slaves' = <<>>
    BY <2>1
  <2>2. CASE UNCHANGED slaves
    BY <2>2 DEF TypeOK
  <2>3. QED
    BY <2>1, <2>2
<1>3. found' \in Seq(Layout)
  BY DEF ReturnErr
<1>4. QED
  BY <1>1, <1>2, <1>3 DEF ReturnErr, TypeOK, cache

LEMMA TypeOKNext == TypeOK /\ [Next]_vars => TypeOK'
<1> SUFFICES ASSUME TypeOK, [Next]_vars PROVE TypeOK'
  OBVIOUS
<1> USE ConstantsAssumption DEF TypeOK, PassOverSlaves
<1>2. CASE Call
  BY <1>2 DEF Call, cache
<1>3. CASE ConfigInit
  BY ReturnErrTypeOK, <1>3 DEF ConfigInit, cache, history, Errors
<1>4. CASE ConfigDc
  BY ReturnErrTypeOK, <1>4 DEF ConfigDc, cache, history, Errors
<1>5. CASE ConfigMapGroup
  BY ReturnErrTypeOK, <1>5 DEF ConfigMapGroup, cache, history, Errors
<1>6. CASE ScanSlave
  BY <1>6 DEF ScanSlave, Present, cache, history
<1>7. CASE ScanFails
  BY ReturnErrTypeOK, <1>7 DEF ScanFails, Errors
<1>8. CASE ScanDone
  BY <1>8 DEF ScanDone, cache, history
<1>9. CASE ReadSmCommType
  BY ReturnErrTypeOK, <1>9 DEF ReadSmCommType, cache, history, Errors
<1>10. CASE ReadPdoAssign
  <2>1. CASE ReturnErr("ReadSdo") /\ UNCHANGED <<slaves, torn>>
    BY ReturnErrTypeOK, <2>1 DEF Errors
  <2>2. CASE ~(ReturnErr("ReadSdo") /\ UNCHANGED <<slaves, torn>>)
    <3> DEFINE l == [pos  |-> next, dev |-> slaves[next],
                     dict |-> CachedDictionary(next)]
    <3>1. next \in DOMAIN slaves
      BY <1>10, <2>2 DEF ReadPdoAssign, Present
    <3>2. CachedDictionary(next) \in Devices \cup {NoDictionary}
      BY DEF CachedDictionary
    <3>3. l \in Layout
      BY <3>1, <3>2 DEF Layout
    <3>4. found' = Append(found, l)
      BY <1>10, <2>2 DEF ReadPdoAssign
    <3> HIDE DEF l
    <3>5. QED
      BY <1>10, <2>2, <3>3, <3>4 DEF ReadPdoAssign, cache, history
  <2>3. QED BY <2>1, <2>2
<1>11. CASE Finish
  BY <1>11 DEF Finish, history
<1>12. CASE Rewire
  BY <1>12, BusesAreSequences DEF Rewire, cache
<1>13. CASE UNCHANGED vars
  BY <1>13 DEF vars, cache, history
<1>14. QED
  BY <1>2, <1>3, <1>4, <1>5, <1>6, <1>7, <1>8, <1>9, <1>10, <1>11, <1>12, <1>13
     DEF Next, Step

\* The variables of the pipeline keep their types.
THEOREM TypeCorrect == Spec => []TypeOK
  BY TypeOKInit, TypeOKNext, PTL DEF Spec

----------------------------------------------------------------------------
(* Alignment of the dictionary cache                                       *)

Clean == ~torn /\ ~moved
PdoPass == {"comm_type", "assign"}

\* Where the passes stand: they run over a detected bus, the scan has pushed
\* at least one dictionary per slave it has visited, and the PDO pass finds
\* a dictionary for every slave.
PassInv ==
  /\ pc \in {"config_dc", "config_map"} \cup PassOverSlaves => slaves # <<>>
  /\ pc \in PassOverSlaves => next <= Len(slaves) + 1
  /\ pc = "scan" => next - 1 <= Len(sdos)
  /\ pc \in PdoPass => Len(slaves) <= Len(sdos)
  /\ pc = "assign" => next \in DOMAIN slaves

\* On an undisturbed bus the cache is empty, in its first fill, or complete:
\* what a later scan pushes lies behind the last slave.
CacheInv ==
  /\ ~moved /\ slaves # <<>> => slaves = wired
  /\ Clean => \A i \in DOMAIN sdos \cap DOMAIN wired : sdos[i] = wired[i]
  /\ Clean => \/ Len(wired) <= Len(sdos)
              \/ Len(sdos) = IF pc = "scan" THEN next - 1 ELSE 0

\* Every layout was described by a cached dictionary, on an undisturbed bus
\* by the slave's own.
FoundInv ==
  /\ pc \notin PdoPass => found = <<>>
  /\ \A k \in DOMAIN found :
       /\ found[k].dict # NoDictionary
       /\ Clean => found[k].dict = found[k].dev

CacheIInv == TypeOK /\ PassInv /\ CacheInv /\ FoundInv

LEMMA CacheIInvInit == Init => CacheIInv
<1> SUFFICES ASSUME Init PROVE CacheIInv
  OBVIOUS
<1>1. PassInv /\ FoundInv
  BY DEF Init, PassInv, PassOverSlaves, PdoPass, FoundInv
<1>2. CacheInv
  BY DEF Init, CacheInv
<1>3. QED
  BY <1>1, <1>2, TypeOKInit DEF CacheIInv

\* Where the passes stand, after each step.
LEMMA PassInvNext == TypeOK /\ PassInv /\ [Next]_vars => PassInv'
<1> SUFFICES ASSUME TypeOK, PassInv, [Next]_vars PROVE PassInv'
  OBVIOUS
<1> USE DEF TypeOK, PassInv, PassOverSlaves, PdoPass
<1>1. ASSUME NEW err, ReturnErr(err) PROVE PassInv'
  BY <1>1 DEF ReturnErr
<1>2. CASE Call
  BY <1>2 DEF Call
<1>3. CASE ConfigInit
  BY <1>1, <1>3 DEF ConfigInit
<1>4. CASE ConfigDc
  BY <1>1, <1>4 DEF ConfigDc
<1>5. CASE ConfigMapGroup
  BY <1>1, <1>5 DEF ConfigMapGroup, cache
<1>6. CASE ScanSlave
  BY <1>6 DEF ScanSlave, Present
<1>7. CASE ScanFails
  BY <1>1, <1>7 DEF ScanFails
<1>8. CASE ScanDone
  BY <1>8 DEF ScanDone, cache
<1>9. CASE ReadSmCommType
  BY <1>1, <1>9 DEF ReadSmCommType, cache
<1>10. CASE ReadPdoAssign
  BY <1>1, <1>10 DEF ReadPdoAssign, cache
<1>11. CASE Finish
  BY <1>11 DEF Finish
<1>12. CASE Rewire
  BY <1>12 DEF Rewire, cache
<1>13. CASE UNCHANGED vars
  BY <1>13 DEF vars, cache
<1>14. QED
  BY <1>2, <1>3, <1>4, <1>5, <1>6, <1>7, <1>8, <1>9, <1>10, <1>11, <1>12, <1>13
     DEF Next, Step

\* How far the cache is filled, after each step.  Only ScanSlave pushes; only
\* a failure of the scan can leave the first fill incomplete, and then it
\* sets torn.
LEMMA CacheInvNext == TypeOK /\ PassInv /\ CacheInv /\ [Next]_vars => CacheInv'
<1> SUFFICES ASSUME TypeOK, PassInv, CacheInv, [Next]_vars PROVE CacheInv'
  OBVIOUS
<1> USE DEF CacheInv, Clean, PassOverSlaves
<1>1. ASSUME NEW err, ReturnErr(err), pc # "scan", UNCHANGED torn,
             slaves' = <<>> \/ UNCHANGED slaves
      PROVE  CacheInv'
  BY <1>1 DEF ReturnErr, cache
<1>2. CASE Call
  BY <1>2 DEF Call, cache
<1>3. CASE ConfigInit
  BY <1>1, <1>3 DEF ConfigInit, cache, history
<1>4. CASE ConfigDc
  BY <1>1, <1>4 DEF ConfigDc, cache, history
<1>5. CASE ConfigMapGroup
  BY <1>1, <1>5 DEF ConfigMapGroup, cache, history
<1>6. CASE ScanSlave
  <2>1. /\ sdos' = Append(sdos, slaves[next]) /\ next' = next + 1
        /\ pc = "scan" /\ pc' = "scan" /\ next \in DOMAIN slaves
        /\ UNCHANGED <<wired, slaves, torn, moved>>
    BY <1>6 DEF ScanSlave, Present, history
  <2>2. Len(sdos') = Len(sdos) + 1 /\ DOMAIN sdos' = 1..(Len(sdos) + 1)
    BY <2>1 DEF TypeOK
  <2>3. ASSUME Clean PROVE slaves = wired
    BY <2>1, <2>3 DEF TypeOK
  <2>4. ASSUME Clean, NEW i \in DOMAIN sdos' \cap DOMAIN wired
        PROVE  sdos'[i] = wired[i]
    <3>1. CASE i = Len(sdos) + 1
      <4>1. i = next
        BY <2>1, <2>4, <3>1 DEF TypeOK
      <4>2. QED
        BY <2>1, <2>3, <2>4, <3>1, <4>1 DEF TypeOK
    <3>2. CASE i # Len(sdos) + 1
      <4>1. i \in DOMAIN sdos /\ sdos'[i] = sdos[i]
        BY <2>1, <2>2, <2>4, <3>2 DEF TypeOK
      <4>2. QED
        BY <2>4, <4>1
    <3>3. QED
      BY <3>1, <3>2
  <2>5. Clean => Len(wired) <= Len(sdos') \/ Len(sdos') = next' - 1
    BY <2>1, <2>2 DEF TypeOK
  <2>6. QED
    BY <2>1, <2>4, <2>5
<1>7. CASE ScanFails
  <2>1. /\ UNCHANGED <<wired, slaves, sdos, moved>>
        /\ pc' = "idle" /\ slaves # <<>>
        /\ torn' = (torn \/ Len(sdos) \in 1..(Len(slaves) - 1))
    BY <1>7 DEF ScanFails, ReturnErr, cache
  <2>2. ASSUME Clean' PROVE Clean /\ Len(sdos) \notin 1..(Len(slaves) - 1)
    BY <2>1, <2>2, Zenon
  <2>3. ASSUME Clean' PROVE Len(wired) <= Len(sdos) \/ Len(sdos) = 0
    BY <2>1, <2>2, <2>3 DEF TypeOK
  <2>4. QED
    BY <2>1, <2>2, <2>3
<1>8. CASE ScanDone
  <2>1. /\ UNCHANGED <<wired, slaves, sdos, torn, moved>>
        /\ pc = "scan" /\ pc' = "comm_type" /\ next = Len(slaves) + 1
    BY <1>8 DEF ScanDone, PassInv, TypeOK, cache, history
  <2>2. Clean => Len(wired) <= Len(sdos)
    BY <2>1 DEF PassInv, TypeOK
  <2>3. QED
    BY <2>1, <2>2
<1>9. CASE ReadSmCommType
  BY <1>1, <1>9 DEF ReadSmCommType, cache, history
<1>10. CASE ReadPdoAssign
  BY <1>1, <1>10 DEF ReadPdoAssign, cache, history
<1>11. CASE Finish
  BY <1>11 DEF Finish, history
<1>12. CASE Rewire
  <2>1. /\ UNCHANGED <<slaves, sdos, pc, torn>>
        /\ moved' = (moved \/ slaves # <<>> \/ sdos # <<>>)
    BY <1>12 DEF Rewire, cache
  <2>2. ASSUME ~moved' PROVE slaves = <<>> /\ sdos = <<>> /\ pc # "scan"
    BY <2>1, <2>2 DEF PassInv
  <2>3. QED
    BY <2>1, <2>2
<1>13. CASE UNCHANGED vars
  BY <1>13 DEF vars, cache, history
<1>14. QED
  BY <1>2, <1>3, <1>4, <1>5, <1>6, <1>7, <1>8, <1>9, <1>10, <1>11, <1>12, <1>13
     DEF Next, Step

\* What disturbed the bus once is remembered.
LEMMA HistoryGrows == [Next]_vars => (torn => torn') /\ (moved => moved')
<1> SUFFICES ASSUME [Next]_vars PROVE (torn => torn') /\ (moved => moved')
  OBVIOUS
<1>1. CASE Call
  BY <1>1 DEF Call
<1>2. CASE ScanFails
  <2>1. /\ UNCHANGED moved
        /\ torn' = (torn \/ Len(sdos) \in 1..(Len(slaves) - 1))
    BY <1>2 DEF ScanFails, ReturnErr
  <2>2. QED
    BY <2>1, Zenon
<1>3. CASE Rewire
  <2>1. UNCHANGED torn /\ moved' = (moved \/ slaves # <<>> \/ sdos # <<>>)
    BY <1>3 DEF Rewire
  <2>2. QED
    BY <2>1, Zenon
<1>4. CASE ConfigInit \/ ConfigDc \/ ConfigMapGroup
  BY <1>4 DEF ConfigInit, ConfigDc, ConfigMapGroup, ReturnErr, history
<1>5. CASE ScanSlave \/ ScanDone \/ Finish
  BY <1>5 DEF ScanSlave, ScanDone, Finish, history
<1>6. CASE ReadSmCommType
  BY <1>6 DEF ReadSmCommType, ReturnErr, history
<1>7. CASE ReadPdoAssign
  BY <1>7 DEF ReadPdoAssign, ReturnErr, history
<1>8. CASE UNCHANGED vars
  BY <1>8 DEF vars, history
<1>9. QED
  BY <1>1, <1>2, <1>3, <1>4, <1>5, <1>6, <1>7, <1>8 DEF Next, Step

\* What described the layouts, after each step.  Only ReadPdoAssign adds one.
LEMMA FoundInvNext == CacheIInv /\ [Next]_vars => FoundInv'
<1> SUFFICES ASSUME CacheIInv, [Next]_vars PROVE FoundInv'
  OBVIOUS
<1> USE DEF FoundInv, PassOverSlaves, PdoPass
<1>a. FoundInv /\ TypeOK
  BY DEF CacheIInv
<1>b. Clean' => Clean
  BY HistoryGrows, Zenon DEF Clean
<1>c. ASSUME UNCHANGED found, pc' \in PdoPass \/ pc \notin PdoPass
      PROVE  FoundInv'
  BY <1>a, <1>b, <1>c
<1>d. ASSUME found' = <<>> PROVE FoundInv'
  BY <1>d
<1>1. ASSUME NEW err, ReturnErr(err) PROVE FoundInv'
  BY <1>1, <1>d DEF ReturnErr
<1>2. CASE Call
  BY <1>c, <1>2 DEF Call
<1>3. CASE ConfigInit
  BY <1>1, <1>c, <1>3 DEF ConfigInit
<1>4. CASE ConfigDc
  BY <1>1, <1>c, <1>4 DEF ConfigDc
<1>5. CASE ConfigMapGroup
  BY <1>1, <1>c, <1>5 DEF ConfigMapGroup
<1>6. CASE ScanSlave
  BY <1>c, <1>6 DEF ScanSlave
<1>7. CASE ScanFails
  BY <1>1, <1>7 DEF ScanFails
<1>8. CASE ScanDone
  BY <1>d, <1>8 DEF ScanDone
<1>9. CASE ReadSmCommType
  BY <1>1, <1>c, <1>9 DEF ReadSmCommType
<1>10. CASE ReadPdoAssign
  <2>1. CASE ReturnErr("ReadSdo")
    BY <1>1, <2>1
  <2>2. CASE ~ReturnErr("ReadSdo")
    <3> DEFINE l == [pos |-> next, dev |-> slaves[next],
                     dict |-> CachedDictionary(next)]
    <3>1. /\ found' = Append(found, l) /\ pc = "assign" /\ pc' \in PdoPass
          /\ next \in DOMAIN slaves /\ next \in DOMAIN wired
          /\ wired[next] = slaves[next]
      BY <1>10, <2>2 DEF ReadPdoAssign, Present
    <3>2. next \in DOMAIN sdos
      BY <3>1, <1>a DEF CacheIInv, PassInv, TypeOK
    <3>3. l.dict = sdos[next] /\ l.dev = slaves[next]
      BY <3>2 DEF CachedDictionary
    <3>4. l.dict # NoDictionary
      <4>1. sdos[next] \in Devices
        BY <3>2, <1>a DEF TypeOK
      <4>2. QED
        BY <4>1, <3>3, ConstantsAssumption
    <3>5. Clean => l.dict = l.dev
      BY <3>1, <3>2, <3>3 DEF CacheIInv, CacheInv
    <3> HIDE DEF l
    <3>6. ASSUME NEW k \in DOMAIN found'
          PROVE  found'[k].dict # NoDictionary
                   /\ (Clean => found'[k].dict = found'[k].dev)
      <4>1. CASE k = Len(found) + 1
        <5>1. found'[k] = l
          BY <3>1, <4>1, <1>a DEF TypeOK
        <5>2. QED
          BY <5>1, <3>4, <3>5
      <4>2. CASE k # Len(found) + 1
        <5>1. k \in DOMAIN found /\ found'[k] = found[k]
          BY <3>1, <3>6, <4>2, <1>a DEF TypeOK
        <5>2. QED
          BY <5>1, <1>a
      <4>3. QED
        BY <4>1, <4>2
    <3>7. QED
      BY <3>1, <3>6, <1>b
  <2>3. QED
    BY <2>1, <2>2
<1>11. CASE Finish
  BY <1>d, <1>11 DEF Finish
<1>12. CASE Rewire
  BY <1>c, <1>12 DEF Rewire
<1>13. CASE UNCHANGED vars
  BY <1>c, <1>13 DEF vars
<1>14. QED
  BY <1>2, <1>3, <1>4, <1>5, <1>6, <1>7, <1>8, <1>9, <1>10, <1>11, <1>12, <1>13
     DEF Next, Step

LEMMA CacheIInvCorrect == Spec => []CacheIInv
<1>1. CacheIInv /\ [Next]_vars => CacheIInv'
  BY TypeOKNext, PassInvNext, CacheInvNext, FoundInvNext DEF CacheIInv
<1>2. QED
  BY <1>1, CacheIInvInit, PTL DEF Spec

\* The dictionary cache stays aligned with the slave list over any number of
\* calls of auto_config, failed or not, on any bus that nobody rewires, unless
\* the first fill was interrupted (DictionariesAligned).
THEOREM CacheAligned == Spec => []DictionariesAligned
<1>1. CacheIInv => DictionariesAligned
  BY DEF CacheIInv, CacheInv, TypeOK, Clean, DictionariesAligned
<1>2. QED
  BY <1>1, CacheIInvCorrect, PTL

\* Whatever happened before, and even on a rewired bus, coe_pdo_info has some
\* dictionary for every slave whose layout it reads (ScanBeforePdos).
THEOREM ScanComesFirst == Spec => []ScanBeforePdos
<1>1. CacheIInv => ScanBeforePdos
  BY DEF CacheIInv, PassInv, FoundInv, PdoPass, ScanBeforePdos
<1>2. QED
  BY <1>1, CacheIInvCorrect, PTL

\* Under the provisos of CacheAligned, no PDO entry is described by the
\* dictionary of another slave (DescribedByOwnDictionary).
THEOREM OwnDictionary == Spec => []DescribedByOwnDictionary
<1>1. CacheIInv => DescribedByOwnDictionary
  BY DEF CacheIInv, FoundInv, Clean, DescribedByOwnDictionary
<1>2. QED
  BY <1>1, CacheIInvCorrect, PTL

----------------------------------------------------------------------------
(* The committed table                                                     *)

Table(ls) == [k \in DOMAIN ls |-> [pos |-> ls[k].pos, dev |-> ls[k].dev]]

\* During the PDO pass the layouts are those of the process data slaves
\* before the loop position, in bus order.
PartialInv ==
  /\ pc = "assign" => HasProcessData(slaves[next])
  /\ \A k \in DOMAIN found :
       /\ found[k].pos \in 1..(next - 1)
       /\ found[k].pos \in DOMAIN slaves
       /\ found[k].dev = slaves[found[k].pos]
       /\ HasProcessData(slaves[found[k].pos])
  /\ \A j, k \in DOMAIN found : j < k => found[j].pos < found[k].pos
  /\ pc \in PdoPass =>
       \A i \in 1..(next - 1) :
         HasProcessData(slaves[i]) => \E k \in DOMAIN found : found[k].pos = i

\* As long as no slave was passed over, layout k is that of slave k.
DenseInv ==
  pc \in PdoPass /\ (\A i \in 1..(next - 1) : HasProcessData(slaves[i])) =>
    Len(found) = next - 1 /\ \A k \in DOMAIN found : found[k].pos = k

\* A call that returned Ok left the table of the slaves it detected.
CommittedInv ==
  result = "Ok" => pc = "idle" /\ Contract!IsTableOf(Table(pdos), slaves)

TableIInv ==
  /\ TypeOK /\ PassInv /\ (pc \notin PdoPass => found = <<>>)
  /\ PartialInv /\ DenseInv /\ CommittedInv

LEMMA TableIInvInit == Init => TableIInv
<1> SUFFICES ASSUME Init PROVE TableIInv
  OBVIOUS
<1>1. PassInv /\ (pc \notin PdoPass => found = <<>>)
  BY DEF Init, PassInv, PassOverSlaves, PdoPass
<1>2. PartialInv /\ DenseInv /\ CommittedInv
  BY DEF Init, PartialInv, DenseInv, CommittedInv, PdoPass
<1>3. QED
  BY <1>1, <1>2, TypeOKInit DEF TableIInv

\* The layout ReadPdoAssign appends and where it lands.
LEMMA AppendedLayout ==
  ASSUME TypeOK, ReadPdoAssign, ~ReturnErr("ReadSdo")
  PROVE  /\ pc = "assign" /\ pc' = "comm_type" /\ next' = next + 1
         /\ next \in DOMAIN slaves
         /\ UNCHANGED <<slaves, pdos, result>>
         /\ DOMAIN found' = 1..(Len(found) + 1) /\ Len(found') = Len(found) + 1
         /\ \A k \in DOMAIN found : k \in DOMAIN found' /\ found'[k] = found[k]
         /\ found'[Len(found) + 1].pos = next
         /\ found'[Len(found) + 1].dev = slaves[next]
<1> DEFINE l == [pos |-> next, dev |-> slaves[next],
                 dict |-> CachedDictionary(next)]
<1>1. /\ pc = "assign" /\ pc' = "comm_type" /\ next' = next + 1
      /\ next \in DOMAIN slaves /\ found' = Append(found, l)
      /\ UNCHANGED <<slaves, pdos, result>>
  BY DEF ReadPdoAssign, Present, cache
<1>2. l.pos = next /\ l.dev = slaves[next]
  OBVIOUS
<1> HIDE DEF l
<1>3. /\ DOMAIN found' = 1..(Len(found) + 1) /\ Len(found') = Len(found) + 1
      /\ \A k \in DOMAIN found : k \in DOMAIN found' /\ found'[k] = found[k]
      /\ found'[Len(found) + 1] = l
  BY <1>1 DEF TypeOK
<1>4. QED
  BY <1>1, <1>2, <1>3

\* A step that leaves the locals of the PDO pass alone, or drops them.
LEMMA PassUntouched ==
  ASSUME PartialInv, DenseInv,
         \/ UNCHANGED <<found, slaves, next, pc>>
         \/ found' = <<>> /\ pc' \notin PdoPass
  PROVE  PartialInv' /\ DenseInv'
<1>1. CASE UNCHANGED <<found, slaves, next, pc>>
  BY <1>1 DEF PartialInv, DenseInv
<1>2. CASE found' = <<>> /\ pc' \notin PdoPass
  <2>1. DOMAIN found' = {}
    BY <1>2
  <2>2. QED
    BY <1>2, <2>1 DEF PartialInv, DenseInv, PdoPass
<1>3. QED
  BY <1>1, <1>2

LEMMA PassInvariantsNext ==
  TableIInv /\ [Next]_vars => PartialInv' /\ DenseInv'
<1> SUFFICES ASSUME TableIInv, [Next]_vars PROVE PartialInv' /\ DenseInv'
  OBVIOUS
<1> USE DEF PassOverSlaves, PdoPass
<1>a. TypeOK /\ PassInv /\ PartialInv /\ DenseInv
        /\ (pc \notin PdoPass => found = <<>>)
  BY DEF TableIInv
<1>b. ASSUME NEW err, ReturnErr(err) PROVE PartialInv' /\ DenseInv'
  BY <1>a, <1>b, PassUntouched DEF ReturnErr
<1>2. CASE Call
  BY <1>2, <1>a, PassUntouched DEF Call
<1>3. CASE ConfigInit
  BY <1>3, <1>a, <1>b, PassUntouched DEF ConfigInit
<1>4. CASE ConfigDc
  BY <1>4, <1>a, <1>b, PassUntouched DEF ConfigDc
<1>5. CASE ConfigMapGroup
  BY <1>5, <1>a, <1>b, PassUntouched DEF ConfigMapGroup
<1>6. CASE ScanSlave
  BY <1>6, <1>a, PassUntouched DEF ScanSlave
<1>7. CASE ScanFails
  BY <1>7, <1>b DEF ScanFails
<1>8. CASE ScanDone
  <2>1. found' = <<>> /\ next' = 1 /\ pc' = "comm_type"
    BY <1>8 DEF ScanDone
  <2>2. DOMAIN found' = {} /\ 1..(next' - 1) = {} /\ Len(found') = 0
    BY <2>1
  <2>3. QED
    BY <2>1, <2>2 DEF PartialInv, DenseInv
<1>9. CASE ReadSmCommType
  <2>1. CASE \E err : ReturnErr(err)
    BY <2>1, <1>b
  <2>2. CASE /\ ~HasProcessData(slaves[next]) /\ next' = next + 1
             /\ pc = "comm_type" /\ next \in DOMAIN slaves
             /\ UNCHANGED <<slaves, found, pc>>
    <3>1. next \in Nat \ {0} /\ next \in 1..(next' - 1)
      BY <2>2, <1>a DEF TypeOK
    <3>2. 1..(next' - 1) = 1..(next - 1) \cup {next}
      BY <2>2, <3>1
    <3>3. PartialInv'
      BY <2>2, <3>2, <1>a DEF PartialInv
    <3>4. DenseInv'
      BY <2>2, <3>1 DEF DenseInv
    <3>5. QED
      BY <3>3, <3>4
  <2>3. CASE /\ HasProcessData(slaves[next]) /\ pc' = "assign"
             /\ pc = "comm_type" /\ next \in DOMAIN slaves
             /\ UNCHANGED <<slaves, found, next>>
    BY <2>3, <1>a DEF PartialInv, DenseInv
  <2>4. QED
    BY <1>9, <2>1, <2>2, <2>3 DEF ReadSmCommType
<1>10. CASE ReadPdoAssign
  <2>1. CASE ReturnErr("ReadSdo")
    BY <1>b, <2>1
  <2>2. CASE ~ReturnErr("ReadSdo")
    <3>1. /\ pc = "assign" /\ pc' = "comm_type" /\ next' = next + 1
          /\ next \in DOMAIN slaves
          /\ UNCHANGED slaves
          /\ DOMAIN found' = 1..(Len(found) + 1) /\ Len(found') = Len(found) + 1
          /\ \A k \in DOMAIN found : k \in DOMAIN found' /\ found'[k] = found[k]
          /\ found'[Len(found) + 1].pos = next
          /\ found'[Len(found) + 1].dev = slaves[next]
      BY <1>10, <1>a, <2>2, AppendedLayout
    <3>2. DOMAIN found = 1..Len(found) /\ Len(found) \in Nat /\ next \in Nat
      BY <1>a DEF TypeOK
    <3>3. HasProcessData(slaves[next])
      BY <3>1, <1>a DEF PartialInv
    <3>4. ASSUME NEW k \in DOMAIN found'
          PROVE  /\ found'[k].pos \in 1..(next' - 1)
                 /\ found'[k].pos \in DOMAIN slaves'
                 /\ found'[k].dev = slaves'[found'[k].pos]
                 /\ HasProcessData(slaves'[found'[k].pos])
      <4>1. CASE k = Len(found) + 1
        BY <4>1, <3>1, <3>2, <3>3
      <4>2. CASE k \in DOMAIN found
        BY <4>2, <3>1, <3>2, <1>a DEF PartialInv
      <4>3. QED
        BY <4>1, <4>2, <3>1, <3>2
    <3>5. ASSUME NEW j \in DOMAIN found', NEW k \in DOMAIN found', j < k
          PROVE  found'[j].pos < found'[k].pos
      <4>1. j \in DOMAIN found /\ found[j].pos \in 1..(next - 1)
        BY <3>1, <3>2, <3>5, <1>a DEF PartialInv
      <4>2. CASE k = Len(found) + 1
        BY <4>1, <4>2, <3>1, <3>2
      <4>3. CASE k \in DOMAIN found
        BY <4>1, <4>3, <3>1, <3>5, <1>a DEF PartialInv
      <4>4. QED
        BY <4>2, <4>3, <3>1, <3>2
    <3>6. ASSUME NEW i \in 1..(next' - 1), HasProcessData(slaves'[i])
          PROVE  \E k \in DOMAIN found' : found'[k].pos = i
      <4>1. CASE i = next
        BY <4>1, <3>1, <3>2
      <4>2. CASE i \in 1..(next - 1)
        <5>1. PICK k \in DOMAIN found : found[k].pos = i
          BY <4>2, <3>1, <3>6, <1>a DEF PartialInv
        <5>2. QED
          BY <5>1, <3>1
      <4>3. QED
        BY <4>1, <4>2, <3>1, <3>2
    <3>7. PartialInv'
      BY <3>1, <3>4, <3>5, <3>6 DEF PartialInv
    <3>8. ASSUME \A i \in 1..(next' - 1) : HasProcessData(slaves'[i])
          PROVE  /\ Len(found') = next' - 1
                 /\ \A k \in DOMAIN found' : found'[k].pos = k
      <4>1. \A i \in 1..(next - 1) : HasProcessData(slaves[i])
        BY <3>1, <3>2, <3>8
      <4>2. Len(found) = next - 1 /\ \A k \in DOMAIN found : found[k].pos = k
        BY <4>1, <3>1, <1>a DEF DenseInv
      <4>3. ASSUME NEW k \in DOMAIN found' PROVE found'[k].pos = k
        <5>1. CASE k = Len(found) + 1
          BY <5>1, <4>2, <3>1, <3>2
        <5>2. CASE k \in DOMAIN found
          BY <5>2, <4>2, <3>1
        <5>3. QED
          BY <5>1, <5>2, <3>1, <3>2
      <4>4. QED
        BY <4>2, <4>3, <3>1, <3>2
    <3>9. DenseInv'
      BY <3>8 DEF DenseInv
    <3>10. QED
      BY <3>7, <3>9
  <2>3. QED
    BY <2>1, <2>2
<1>11. CASE Finish
  BY <1>11, <1>a, PassUntouched DEF Finish
<1>12. CASE Rewire
  BY <1>12, <1>a, PassUntouched DEF Rewire
<1>13. CASE UNCHANGED vars
  BY <1>13, <1>a, PassUntouched DEF vars
<1>14. QED
  BY <1>2, <1>3, <1>4, <1>5, <1>6, <1>7, <1>8, <1>9, <1>10, <1>11, <1>12, <1>13
     DEF Next, Step

\* The layouts that Finish publishes are a table of the detected slaves.
LEMMA FinishedTable ==
  ASSUME TableIInv, Finish
  PROVE  Contract!IsTableOf(Table(found), slaves)
<1>1. next = Len(slaves) + 1 /\ pc = "comm_type"
  BY DEF Finish, TableIInv, PassInv, TypeOK, PassOverSlaves
<1>2. 1..(next - 1) = DOMAIN slaves
  BY <1>1 DEF TableIInv, TypeOK
<1>3. /\ DOMAIN Table(found) = DOMAIN found
      /\ \A k \in DOMAIN found :
           Table(found)[k].pos = found[k].pos /\ Table(found)[k].dev = found[k].dev
  BY DEF Table
<1>4. \A k \in DOMAIN slaves : slaves[k] \in Devices
  BY DEF TableIInv, TypeOK
<1>5. \A k \in DOMAIN Table(found) :
        /\ Table(found)[k].pos \in DOMAIN slaves
        /\ Table(found)[k].dev = slaves[Table(found)[k].pos]
  BY <1>3 DEF TableIInv, PartialInv
<1>6. \A j, k \in DOMAIN Table(found) :
        j < k => Table(found)[j].pos < Table(found)[k].pos
  BY <1>3 DEF TableIInv, PartialInv
<1>7. \A i \in DOMAIN slaves :
        HasProcessData(slaves[i]) <=>
          \E k \in DOMAIN Table(found) : Table(found)[k].pos = i
  <2>1. \A i \in DOMAIN slaves :
          HasProcessData(slaves[i]) => \E k \in DOMAIN found : found[k].pos = i
    BY <1>1, <1>2 DEF TableIInv, PartialInv, PdoPass
  <2>2. \A k \in DOMAIN found : HasProcessData(slaves[found[k].pos])
    BY DEF TableIInv, PartialInv
  <2>3. QED
    BY <1>3, <2>1, <2>2
<1>8. QED
  BY <1>4, <1>5, <1>6, <1>7 DEF Contract!IsTableOf

\* Only Finish and detection touch what a successful call has left.
LEMMA CommittedInvNext == TableIInv /\ [Next]_vars => CommittedInv'
<1> SUFFICES ASSUME TableIInv, [Next]_vars PROVE CommittedInv'
  OBVIOUS
<1> USE DEF PassOverSlaves
<1>a. CommittedInv
  BY DEF TableIInv
<1>b. ASSUME NEW err \in Errors, ReturnErr(err) PROVE CommittedInv'
  BY <1>b DEF ReturnErr, CommittedInv, Errors, DetectErrors, ScanErrors
<1>c. ASSUME UNCHANGED <<slaves, pdos, result>>,
             pc = "idle" => pc' = "idle"
      PROVE  CommittedInv'
  BY <1>a, <1>c DEF CommittedInv, Table
<1>d. ASSUME result # "Ok", UNCHANGED result PROVE CommittedInv'
  BY <1>d DEF CommittedInv
<1>2. CASE Call
  BY <1>2 DEF Call, CommittedInv
<1>3. CASE ConfigInit
  BY <1>3, <1>a, <1>b, <1>d DEF ConfigInit, CommittedInv, Errors
<1>4. CASE ConfigDc
  BY <1>4, <1>b, <1>c DEF ConfigDc, Errors, cache
<1>5. CASE ConfigMapGroup
  BY <1>5, <1>b, <1>c DEF ConfigMapGroup, Errors, cache
<1>6. CASE ScanSlave
  BY <1>6, <1>c DEF ScanSlave
<1>7. CASE ScanFails
  BY <1>7, <1>b DEF ScanFails, Errors
<1>8. CASE ScanDone
  BY <1>8, <1>c DEF ScanDone, cache
<1>9. CASE ReadSmCommType
  BY <1>9, <1>b, <1>c DEF ReadSmCommType, Errors, cache
<1>10. CASE ReadPdoAssign
  BY <1>10, <1>b, <1>c DEF ReadPdoAssign, Errors, cache
<1>11. CASE Finish
  <2>1. Table(pdos') = Table(found) /\ pc' = "idle" /\ UNCHANGED slaves
    BY <1>11 DEF Finish, Table
  <2>2. QED
    BY <1>11, <2>1, FinishedTable DEF CommittedInv, Table
<1>12. CASE Rewire
  BY <1>12, <1>c DEF Rewire, cache
<1>13. CASE UNCHANGED vars
  BY <1>13, <1>c DEF vars, cache
<1>14. QED
  BY <1>2, <1>3, <1>4, <1>5, <1>6, <1>7, <1>8, <1>9, <1>10, <1>11, <1>12, <1>13
     DEF Next, Step

LEMMA TableIInvCorrect == Spec => []TableIInv
<1>1. TableIInv /\ [Next]_vars => (pc \notin PdoPass => found = <<>>)'
  <2> SUFFICES ASSUME TableIInv, [Next]_vars, pc' \notin PdoPass
               PROVE  found' = <<>>
    OBVIOUS
  <2> USE DEF PdoPass, TableIInv
  <2>1. CASE Call \/ Rewire \/ UNCHANGED vars
    BY <2>1 DEF Call, Rewire, vars
  <2>2. CASE ConfigInit \/ ConfigDc \/ ConfigMapGroup
    BY <2>2 DEF ConfigInit, ConfigDc, ConfigMapGroup, ReturnErr
  <2>3. CASE ScanSlave \/ ScanFails \/ ScanDone \/ Finish
    BY <2>3 DEF ScanSlave, ScanFails, ScanDone, Finish, ReturnErr
  <2>4. CASE ReadSmCommType
    BY <2>4 DEF ReadSmCommType, ReturnErr
  <2>5. CASE ReadPdoAssign
    BY <2>5 DEF ReadPdoAssign, ReturnErr
  <2>6. QED
    BY <2>1, <2>2, <2>3, <2>4, <2>5 DEF Next, Step
<1>2. TableIInv /\ [Next]_vars => TableIInv'
  BY <1>1, TypeOKNext, PassInvNext, PassInvariantsNext, CommittedInvNext
     DEF TableIInv
<1>3. QED
  BY <1>2, TableIInvInit, PTL DEF Spec

\* A successful call leaves a table in which layout i is that of slave i,
\* provided every slave has process data (PdosAlignedWhenAllMapped).
THEOREM LayoutsAligned == Spec => []PdosAlignedWhenAllMapped
<1> DEFINE P == PdosAlignedWhenAllMapped
<1>1. Init => P
  BY DEF Init, PdosAlignedWhenAllMapped
<1>2. ASSUME TableIInv, P, [Next]_vars PROVE P'
  <2> USE DEF PdosAlignedWhenAllMapped
  <2>1. ASSUME NEW err \in Errors, ReturnErr(err) PROVE P'
    BY <2>1 DEF ReturnErr, Errors, DetectErrors, ScanErrors
  <2>2. CASE UNCHANGED <<slaves, pdos, result>>
    BY <1>2, <2>2
  <2>3. CASE Call
    BY <2>3 DEF Call
  <2>4. CASE ConfigInit
    <3>1. pc = "config_init" /\ CommittedInv
      BY <1>2, <2>4 DEF ConfigInit, TableIInv
    <3>2. result # "Ok"
      BY <3>1 DEF CommittedInv
    <3>3. CASE \E err \in DetectErrors : ReturnErr(err)
      BY <3>3, <2>1 DEF Errors
    <3>4. CASE UNCHANGED result
      BY <3>2, <3>4
    <3>5. QED
      BY <2>4, <3>3, <3>4 DEF ConfigInit
  <2>5. CASE ConfigDc \/ ConfigMapGroup
    BY <2>5, <2>1, <2>2 DEF ConfigDc, ConfigMapGroup, cache, Errors
  <2>6. CASE ScanSlave \/ ScanFails \/ ScanDone
    BY <2>6, <2>1, <2>2 DEF ScanSlave, ScanFails, ScanDone, cache, Errors
  <2>7. CASE ReadSmCommType \/ ReadPdoAssign
    BY <2>7, <2>1, <2>2 DEF ReadSmCommType, ReadPdoAssign, cache, Errors
  <2>8. CASE Finish
    <3>1. /\ next = Len(slaves) + 1 /\ pc = "comm_type"
          /\ pdos' = found /\ UNCHANGED slaves
      BY <1>2, <2>8 DEF Finish, TableIInv, PassInv, TypeOK, PassOverSlaves
    <3>2. DOMAIN slaves = 1..(next - 1)
      BY <1>2, <3>1 DEF TableIInv, TypeOK
    <3>3. ASSUME \A i \in DOMAIN slaves : HasProcessData(slaves[i])
          PROVE  /\ Len(found) = next - 1
                 /\ \A k \in DOMAIN found :
                      found[k].pos = k /\ found[k].dev = slaves[k]
      BY <1>2, <3>1, <3>2, <3>3 DEF TableIInv, DenseInv, PartialInv, PdoPass
    <3>4. next - 1 = Len(slaves)
      BY <1>2, <3>1 DEF TableIInv, TypeOK
    <3>5. QED
      BY <3>1, <3>3, <3>4
  <2>9. CASE Rewire
    BY <2>9, <2>2 DEF Rewire, cache
  <2>10. CASE UNCHANGED vars
    BY <2>10, <2>2 DEF vars, cache
  <2>11. QED
    BY <1>2, <2>3, <2>4, <2>5, <2>6, <2>7, <2>8, <2>9, <2>10 DEF Next, Step
<1>3. QED
  BY <1>1, <1>2, TableIInvCorrect, PTL DEF Spec

----------------------------------------------------------------------------
(* Refinement of the contract                                              *)

LEMMA InitRefines == Init => Contract!Init
  BY DEF Init, Contract!Init

\* Call begins, ConfigInit detects or aborts, Finish commits, a failure
\* aborts; the steps between them and Rewire are invisible.
LEMMA StepRefines ==
  ASSUME TableIInv, [Next]_vars
  PROVE  [Contract!Next]_(Contract!contractVars)
<1> USE DEF Contract!Next, Contract!contractVars
<1>a. TypeOK
  BY DEF TableIInv
<1>1. ASSUME NEW err \in Errors, ReturnErr(err), pc # "idle",
             slaves' = <<>> \/ UNCHANGED slaves
      PROVE  Contract!Abort
  <2>1. UNCHANGED pdos /\ pc' = "idle" /\ result' = err
    BY <1>1 DEF ReturnErr, cache
  <2>2. QED
    BY <1>1, <2>1 DEF Contract!Abort
<1>2. ASSUME UNCHANGED <<slaves, pdos, result>>, (pc # "idle") = (pc' # "idle")
      PROVE  UNCHANGED Contract!contractVars
  BY <1>2
<1>3. CASE Call
  BY <1>3 DEF Call, cache, Contract!Begin
<1>4. CASE ConfigInit
  <2>1. CASE \E err \in DetectErrors : ReturnErr(err)
    BY <1>1, <1>4, <2>1 DEF ConfigInit, Errors, ReturnErr
  <2>2. CASE slaves' = wired /\ UNCHANGED <<cache, result>> /\ pc' = "config_dc"
    BY <1>4, <2>2, <1>a DEF ConfigInit, TypeOK, cache, Contract!Detect
  <2>3. QED
    BY <1>4, <2>1, <2>2 DEF ConfigInit
<1>5. CASE ConfigDc \/ ConfigMapGroup
  BY <1>1, <1>2, <1>5 DEF ConfigDc, ConfigMapGroup, Errors, cache
<1>6. CASE ScanSlave \/ ScanFails \/ ScanDone
  BY <1>1, <1>2, <1>6 DEF ScanSlave, ScanFails, ScanDone, Errors, cache
<1>7. CASE ReadSmCommType \/ ReadPdoAssign
  BY <1>1, <1>2, <1>7 DEF ReadSmCommType, ReadPdoAssign, Errors, cache
<1>8. CASE Finish
  <2>1. Contract!IsTableOf(Table(found), slaves)
    BY <1>8, FinishedTable
  <2>2. /\ Table(pdos') = Table(found) /\ UNCHANGED slaves
        /\ pc # "idle" /\ pc' = "idle" /\ result' = "Ok"
    BY <1>8 DEF Finish, Table
  <2>3. QED
    BY <2>1, <2>2 DEF Contract!Commit, Table
<1>9. CASE Rewire
  BY <1>2, <1>9 DEF Rewire, cache
<1>10. CASE UNCHANGED vars
  BY <1>2, <1>10 DEF vars, cache
<1>11. QED
  BY <1>3, <1>4, <1>5, <1>6, <1>7, <1>8, <1>9, <1>10 DEF Next, Step

\* auto_config implements its contract (ContractSafety): the table is replaced
\* in one step by the layouts of the slaves just detected, or not at all.
THEOREM AutoConfigImplementsContract == Spec => ContractSafety
<1>1. TableIInv /\ [Next]_vars => [Contract!Next]_(Contract!contractVars)
  BY StepRefines
<1>2. QED
  BY <1>1, InitRefines, TableIInvCorrect, PTL
     DEF Spec, ContractSafety, Contract!Safety
============================================================================
