-------------------------- MODULE SdoAccess_proofs --------------------------
(***************************************************************************)
(* Proofs about SdoAccess, for any buses, values and Masters.              *)
(*                                                                         *)
(* SdoAccess only does to the context what Handles allows, so it inherits  *)
(* the theorems about ownership.  The properties about what is read rest   *)
(* on CacheInv: what a clean cache holds is not touched by later scans.    *)
(***************************************************************************)
EXTENDS SdoAccess, Handles_proofs, Answers_proofs

LEMMA DecodingLeaves ==
  ASSUME NEW h, NEW entries, NEW raw, NEW result, DecodeComplete(h, entries, raw, result)
  PROVE  Leave(h) \/ Unwind(h)
  BY Zenon DEF DecodeComplete, TooSmall

LEMMA StepsOfHandles ==
  ASSUME [SdoNext]_sdoVars PROVE [HandlesNext]_handlesVars
<1>1. CASE SdoTryNew \/ SdoPtr
  BY <1>1 DEF SdoTryNew, SdoPtr, Lives, HandlesNext
<1>2. ASSUME NEW h \in Handles,
             \/ SdoEnter(h) \/ SdoDrop(h) \/ SdoLeakPtr(h)
             \/ SdoFromPtr(h) \/ SdoFromPtrWithCaches(h)
             \/ OtherCall(h) \/ Scan(h)
      PROVE  HandlesNext
  BY <1>2 DEF SdoEnter, SdoDrop, SdoLeakPtr, SdoFromPtr, SdoFromPtrWithCaches, OtherCall,
    Scan, Lives, HandlesNext
<1>3. ASSUME NEW h \in Handles, NEW s \in Slaves, NEW idx \in Indexes,
             ReadSdoComplete(h, s, idx)
      PROVE  HandlesNext
  <2>1. LeaveEarly(h) \/ Leave(h) \/ Unwind(h)
    BY <1>3, DecodingLeaves, Zenon DEF ReadSdoComplete, ReadFails
  <2> QED
    BY <2>1 DEF HandlesNext
<1>4. ASSUME NEW h \in Handles, NEW s \in Slaves, NEW idx \in Indexes, NEW j \in 1..MaxSub,
             ReadSdoEntry(h, s, idx, j)
      PROVE  HandlesNext
  BY <1>4 DEF ReadSdoEntry, ReadFails, TooSmall, HandlesNext
<1>5. ASSUME NEW h \in Handles, NEW s \in Slaves, NEW idx \in Indexes, NEW j \in 1..MaxSub,
             WriteSdo(h, s, idx, j) \/ \E v \in Values : WriteSdoEntry(h, s, idx, j, v)
      PROVE  HandlesNext
  BY <1>5, Zenon DEF WriteSdo, WriteSdoEntry, Download, HandlesNext
<1>6. CASE UNCHANGED sdoVars
  BY <1>6 DEF sdoVars
<1> QED
  BY <1>1, <1>2, <1>3, <1>4, <1>5, <1>6 DEF SdoNext

\* The calls of the application treat the context as Handles says.
THEOREM SdoImplementsHandles == SdoSpec => HandlesSpec
<1>1. SdoInit => HandlesInit
  BY DEF SdoInit
<1>2. [SdoNext]_sdoVars => [HandlesNext]_handlesVars
  BY StepsOfHandles
<1> QED
  BY <1>1, <1>2, PTL DEF SdoSpec, HandlesSpec

\* What the module Handles proves holds of every application of this kind.
THEOREM SdoRuleIsSafe == SdoSpec => []SafeWhenRuled
  BY SdoImplementsHandles, RuleIsSafe, PTL

THEOREM SdoRuleReclaims == SdoSpec => []ReclaimedWhenRuled
  BY SdoImplementsHandles, RuleReclaims, PTL

----------------------------------------------------------------------------
(* Caches.                                                                 *)

Dictionaries == {read_od_list(s) : s \in Slaves}

\* A cache that was filled completely begins with the dictionaries of the
\* slaves, in their order.
CleanCache(h) ==
  /\ Len(od) <= Len(sdos[h])
  /\ \A s \in 1..Len(od) : sdos[h][s] = read_od_list(s)

\* The contents have the shape of the dictionaries.
ShapeInv ==
  /\ DOMAIN data = Slaves
  /\ \A s \in Slaves : DOMAIN data[s] = DOMAIN od[s]
  /\ \A s \in Slaves : \A k \in DOMAIN od[s] :
       DOMAIN data[s][k] = DOMAIN od[s][k].entries

CacheInv ==
  /\ od \in Ods
  /\ ShapeInv
  /\ sdos \in [Handles -> Seq(Dictionaries)]
  /\ scan \in [Handles -> {"none", "clean", "torn"}]
  /\ \A h \in Handles : scan[h] = "clean" => CleanCache(h)

LEMMA BusIsSeq == ASSUME od \in Ods PROVE Slaves = 1..Len(od) /\ Len(od) \in Nat
<1>1. od \in Seq(Seq([idx : Indexes, entries : Seq(EntryDescriptions)]))
  BY BusesAssumption
<1> QED
  BY <1>1 DEF Slaves

LEMMA CacheStart == SdoInit => CacheInv
<1> SUFFICES ASSUME SdoInit PROVE CacheInv
  OBVIOUS
<1>1. od \in Ods /\ sdos = [h \in Handles |-> <<>>] /\ scan = [h \in Handles |-> "none"]
  BY DEF SdoInit
<1>2. ShapeInv
  BY DEF SdoInit, ShapeInv
<1>3. <<>> \in Seq(Dictionaries)
  OBVIOUS
<1> QED
  BY <1>1, <1>2, <1>3 DEF CacheInv

\* A step that writes at most one entry.
LEMMA ShapeKept ==
  ASSUME ShapeInv, UNCHANGED od,
         \/ UNCHANGED data
         \/ \E s \in Slaves : \E k \in DOMAIN od[s] : \E j \in DOMAIN data[s][k] : \E b :
              data' = [data EXCEPT ![s][k][j] = b]
  PROVE  ShapeInv'
<1>1. CASE UNCHANGED data
  BY <1>1 DEF ShapeInv, Slaves
<1>2. ASSUME NEW s \in Slaves, NEW k \in DOMAIN od[s], NEW j \in DOMAIN data[s][k], NEW b,
             data' = [data EXCEPT ![s][k][j] = b]
      PROVE  ShapeInv'
  <2>1. DOMAIN data' = DOMAIN data
    BY <1>2
  <2>2. \A s2 \in Slaves : DOMAIN data'[s2] = DOMAIN data[s2]
    BY <1>2 DEF ShapeInv
  <2>3. \A s2 \in Slaves : \A k2 \in DOMAIN od[s2] : DOMAIN data'[s2][k2] = DOMAIN data[s2][k2]
    BY <1>2 DEF ShapeInv
  <2> QED
    BY <2>1, <2>2, <2>3 DEF ShapeInv, Slaves
<1> QED
  BY <1>1, <1>2

\* A step that writes several entries of one object.
LEMMA RowKeepsShape ==
  ASSUME ShapeInv, UNCHANGED od, NEW s \in Slaves, NEW k \in DOMAIN od[s], NEW row,
         TakeRow(s, k, row)
  PROVE  ShapeInv'
<1>1. data' = [data EXCEPT ![s][k] = Overlaid(@, row)]
  BY DEF TakeRow
<1>2. DOMAIN Overlaid(data[s][k], row) = DOMAIN data[s][k]
  BY DEF Overlaid
<1>3. DOMAIN data' = DOMAIN data
  BY <1>1
<1>4. \A s2 \in Slaves : DOMAIN data'[s2] = DOMAIN data[s2]
  BY <1>1 DEF ShapeInv
<1>5. \A s2 \in Slaves : \A k2 \in DOMAIN od[s2] : DOMAIN data'[s2][k2] = DOMAIN data[s2][k2]
  BY <1>1, <1>2 DEF ShapeInv
<1> QED
  BY <1>3, <1>4, <1>5 DEF ShapeInv, Slaves

LEMMA SameCaches ==
  ASSUME CacheInv, ShapeInv', UNCHANGED <<od, cacheVars>>
  PROVE  CacheInv'
<1>1. UNCHANGED <<od, sdos, scan>>
  BY DEF cacheVars
<1>2. Dictionaries' = Dictionaries
  BY <1>1 DEF Dictionaries, Slaves, read_od_list
<1>3. ASSUME NEW h \in Handles, CleanCache(h) PROVE CleanCache(h)'
  BY <1>1, <1>3 DEF CleanCache, read_od_list
<1> QED
  BY <1>1, <1>2, <1>3 DEF CacheInv

\* The steps that change a cache: a scan, and a copy.
LEMMA ScanStep ==
  ASSUME CacheInv, NEW h \in Handles, Scan(h)
  PROVE  CacheInv'
<1> SUFFICES ASSUME ~(Lives(Unwind(h)) /\ UNCHANGED cacheVars) PROVE CacheInv'
  <2>1. ASSUME Lives(Unwind(h)), UNCHANGED cacheVars PROVE CacheInv'
    <3>1. UNCHANGED <<od, data>>
      BY <2>1 DEF Lives, slavesVars
    <3> QED
      BY <2>1, <3>1, ShapeKept, SameCaches DEF CacheInv
  <2> QED
    BY <2>1
<1>1. PICK n \in 0..Len(od) :
        /\ sdos' = [sdos EXCEPT ![h] = Pushed(h, n)]
        /\ scan' = [scan EXCEPT ![h] =
                      IF sdos[h] # <<>> \/ n = 0 THEN @
                      ELSE IF n = Len(od) THEN "clean" ELSE "torn"]
        /\ UNCHANGED slavesVars
  BY DEF Scan, Lives
<1>2. UNCHANGED <<od, data>>
  BY <1>1 DEF slavesVars
<1>3. Slaves = 1..Len(od) /\ Len(od) \in Nat
  BY BusIsSeq DEF CacheInv
<1>4. sdos[h] \in Seq(Dictionaries)
  BY DEF CacheInv
<1> DEFINE more == [s \in 1..n |-> read_od_list(s)]
<1>5. more \in Seq(Dictionaries) /\ Len(more) = n /\ \A s \in 1..n : more[s] = read_od_list(s)
  <2>1. \A s \in 1..n : read_od_list(s) \in Dictionaries
    BY <1>3 DEF Dictionaries
  <2>2. n \in Nat
    BY <1>3
  <2> QED
    BY <2>1, <2>2
<1>6. sdos'[h] = sdos[h] \o more /\ \A g \in Handles : g # h => sdos'[g] = sdos[g]
  BY <1>1 DEF Pushed, CacheInv
<1>7. sdos[h] \o more \in Seq(Dictionaries)
  BY <1>4, <1>5
<1>8. Dictionaries' = Dictionaries
  BY <1>2 DEF Dictionaries, Slaves, read_od_list
<1>9. ShapeInv'
  BY <1>2, ShapeKept DEF CacheInv
<1>10. sdos' \in [Handles -> Seq(Dictionaries)]
  BY <1>1, <1>6, <1>7 DEF CacheInv, Pushed
<1>11. scan' \in [Handles -> {"none", "clean", "torn"}]
  BY <1>1 DEF CacheInv
<1>12. ASSUME NEW g \in Handles, scan'[g] = "clean" PROVE CleanCache(g)'
  <2>1. CASE g # h
    <3>1. CleanCache(g) /\ sdos'[g] = sdos[g]
      BY <1>1, <1>6, <1>12, <2>1 DEF CacheInv
    <3> QED
      BY <1>2, <3>1 DEF CleanCache, read_od_list
  <2>2. CASE g = h /\ (sdos[h] # <<>> \/ n = 0)
    <3>1. CleanCache(h)
      BY <1>1, <1>12, <2>2 DEF CacheInv
    <3>2. Len(sdos'[h]) >= Len(sdos[h])
      BY <1>4, <1>5, <1>6, <1>3
    <3>3. \A s \in 1..Len(sdos[h]) : sdos'[h][s] = sdos[h][s]
      BY <1>4, <1>5, <1>6
    <3>4. Len(od) <= Len(sdos'[h])
      BY <1>3, <1>4, <1>5, <1>6, <3>1 DEF CleanCache
    <3>5. \A s \in 1..Len(od) : sdos'[h][s] = read_od_list(s)
      BY <1>3, <1>4, <3>1, <3>3 DEF CleanCache
    <3> QED
      BY <1>2, <2>2, <3>4, <3>5 DEF CleanCache, read_od_list
  <2>3. CASE g = h /\ sdos[h] = <<>> /\ n # 0
    <3>1. n = Len(od)
      BY <1>1, <1>12, <2>3 DEF CacheInv
    <3>2. sdos'[h] = more
      BY <1>4, <1>5, <1>6, <2>3
    <3>3. Len(od) <= Len(sdos'[h])
      BY <1>3, <1>5, <3>1, <3>2
    <3> QED
      BY <1>2, <1>5, <2>3, <3>1, <3>2, <3>3 DEF CleanCache, read_od_list
  <2> QED
    BY <2>1, <2>2, <2>3
<1> HIDE DEF more
<1> QED
  BY <1>2, <1>8, <1>9, <1>10, <1>11, <1>12 DEF CacheInv

LEMMA CopyStep ==
  ASSUME CacheInv, NEW g \in Handles, SdoFromPtrWithCaches(g)
  PROVE  CacheInv'
<1>1. /\ sdos' = [sdos EXCEPT ![g] = sdos[Owner]]
      /\ scan' = [scan EXCEPT ![g] = scan[Owner]]
      /\ UNCHANGED <<od, data>>
  BY DEF SdoFromPtrWithCaches, Lives, slavesVars
<1>2. Owner \in Handles
  BY DEF Handles
<1>3. Dictionaries' = Dictionaries
  BY <1>1 DEF Dictionaries, Slaves, read_od_list
<1>4. ShapeInv'
  BY <1>1, ShapeKept DEF CacheInv
<1>5. ASSUME NEW h \in Handles, scan'[h] = "clean" PROVE CleanCache(h)'
  <2>1. PICK h2 \in Handles : scan'[h] = scan[h2] /\ sdos'[h] = sdos[h2]
    BY <1>1, <1>2 DEF CacheInv
  <2>2. CleanCache(h2)
    BY <1>5, <2>1 DEF CacheInv
  <2> QED
    BY <1>1, <2>1, <2>2 DEF CleanCache, read_od_list
<1>6. sdos' \in [Handles -> Seq(Dictionaries)] /\ scan' \in [Handles -> {"none", "clean", "torn"}]
  BY <1>1, <1>2 DEF CacheInv
<1> QED
  BY <1>1, <1>3, <1>4, <1>5, <1>6 DEF CacheInv

\* A write that the slave takes.
LEMMA WriteStep ==
  ASSUME CacheInv, NEW h, NEW s \in Slaves, NEW idx, NEW j, NEW bytes, NEW value,
         Download(h, s, idx, j, bytes, value), UNCHANGED <<od, cacheVars>>
  PROVE  CacheInv'
<1>1. \/ UNCHANGED data
      \/ \E k \in EntriesAt(s, idx, j) : data' = [data EXCEPT ![s][k][j] = bytes]
  BY DEF Download
<1>2. \A k \in EntriesAt(s, idx, j) : k \in DOMAIN od[s] /\ j \in DOMAIN data[s][k]
  BY DEF EntriesAt, ObjectsAt
<1>3. ShapeInv'
  BY <1>1, <1>2, ShapeKept DEF CacheInv
<1> QED
  BY <1>3, SameCaches

\* write_sdo leaves all as it is, or the slave takes a row.
LEMMA Writes ==
  ASSUME NEW h, NEW s, NEW idx, NEW j, WriteSdo(h, s, idx, j)
  PROVE  /\ UNCHANGED <<od, cacheVars>>
         /\ \/ UNCHANGED <<data, written>>
            \/ \E k \in EntriesAt(s, idx, j) : \E taken \in SUBSET DOMAIN data[s][k] :
                 \E row \in [taken -> Payloads] : TakeRow(s, k, row)
<1>1. ASSUME NEW k, NEW access_complete,
             NEW taken \in SUBSET {i \in Addressed(s, k, j, access_complete) :
                                    od[s][k].entries[i].writable}
      PROVE  taken \in SUBSET DOMAIN data[s][k]
  BY DEF Addressed
<1> QED
  BY <1>1, Zenon DEF WriteSdo

LEMMA KeepsCaches == ASSUME CacheInv, Keeps PROVE CacheInv'
<1>1. UNCHANGED <<od, data, cacheVars>>
  BY DEF Keeps, slavesVars
<1>2. ShapeInv'
  BY <1>1, ShapeKept DEF CacheInv
<1> QED
  BY <1>1, <1>2, SameCaches

LEMMA CacheStep == CacheInv /\ [SdoNext]_sdoVars => CacheInv'
<1> SUFFICES ASSUME CacheInv, [SdoNext]_sdoVars PROVE CacheInv'
  OBVIOUS
<1>1. ASSUME UNCHANGED <<slavesVars, cacheVars>> PROVE CacheInv'
  <2>1. ShapeInv'
    BY <1>1, ShapeKept DEF CacheInv, slavesVars
  <2> QED
    BY <1>1, <2>1, SameCaches DEF slavesVars
<1>2. CASE SdoTryNew \/ SdoPtr \/ UNCHANGED sdoVars
  BY <1>1, <1>2 DEF SdoTryNew, SdoPtr, Lives, sdoVars
<1>3. ASSUME NEW h \in Handles,
             \/ SdoEnter(h) \/ SdoDrop(h) \/ SdoLeakPtr(h) \/ SdoFromPtr(h) \/ OtherCall(h)
      PROVE  CacheInv'
  BY <1>1, <1>3 DEF SdoEnter, SdoDrop, SdoLeakPtr, SdoFromPtr, OtherCall, Lives
<1>4. ASSUME NEW h \in Handles, Scan(h) \/ SdoFromPtrWithCaches(h) PROVE CacheInv'
  BY <1>4, ScanStep, CopyStep
<1>5. ASSUME NEW h \in Handles, NEW s \in Slaves, NEW idx \in Indexes,
             \/ ReadSdoComplete(h, s, idx)
             \/ \E j \in 1..MaxSub : ReadSdoEntry(h, s, idx, j)
      PROVE  CacheInv'
  <2>1. Keeps
    BY <1>5, Zenon DEF ReadSdoComplete, ReadSdoEntry
  <2> QED
    BY <2>1, KeepsCaches
<1>6. ASSUME NEW h \in Handles, NEW s \in Slaves, NEW idx \in Indexes, NEW j \in 1..MaxSub,
             WriteSdo(h, s, idx, j)
      PROVE  CacheInv'
  <2>1. UNCHANGED <<od, cacheVars>>
    BY <1>6, Writes
  <2>2. \/ UNCHANGED <<data, written>>
        \/ \E k \in EntriesAt(s, idx, j) : \E row : TakeRow(s, k, row)
    BY <1>6, Writes, Zenon
  <2>3. \A k \in EntriesAt(s, idx, j) : k \in DOMAIN od[s]
    BY DEF EntriesAt, ObjectsAt
  <2>4. ShapeInv'
    BY <2>1, <2>2, <2>3, ShapeKept, RowKeepsShape DEF CacheInv
  <2> QED
    BY <2>1, <2>4, SameCaches
<1>7. ASSUME NEW h \in Handles, NEW s \in Slaves, NEW idx \in Indexes, NEW j \in 1..MaxSub,
             NEW v \in Values, WriteSdoEntry(h, s, idx, j, v)
      PROVE  CacheInv'
  <2>1. /\ UNCHANGED <<data, written>> \/ Download(h, s, idx, j, ToBytes(v), {v})
        /\ UNCHANGED <<od, cacheVars>>
    BY <1>7, Zenon DEF WriteSdoEntry
  <2>2. CASE UNCHANGED <<data, written>>
    BY <1>1, <2>1, <2>2 DEF slavesVars
  <2> QED
    BY <2>1, <2>2, WriteStep
<1> QED
  BY <1>2, <1>3, <1>4, <1>5, <1>6, <1>7 DEF SdoNext

LEMMA CacheInvariant == SdoSpec => []CacheInv
  BY CacheStart, CacheStep, PTL DEF SdoSpec

----------------------------------------------------------------------------
(* What a clean cache knows of an entry is what its slave says of it.      *)

LEMMA BusShape ==
  ASSUME od \in Ods, NEW s \in Slaves
  PROVE  /\ od[s] \in Seq([idx : Indexes, entries : Seq(EntryDescriptions)])
         /\ \A k, k2 \in DOMAIN od[s] : od[s][k].idx = od[s][k2].idx => k = k2
<1>1. /\ od \in Seq(Seq([idx : Indexes, entries : Seq(EntryDescriptions)]))
      /\ \A s2 \in DOMAIN od : \A k, k2 \in DOMAIN od[s2] :
           od[s2][k].idx = od[s2][k2].idx => k = k2
  BY BusesAssumption
<1> QED
  BY <1>1 DEF Slaves

\* There is one object with an index.
LEMMA OneObject ==
  ASSUME od \in Ods, NEW s \in Slaves, NEW idx,
         NEW k \in ObjectsAt(s, idx), NEW k2 \in ObjectsAt(s, idx)
  PROVE  k = k2
  BY BusShape DEF ObjectsAt

LEMMA OwnDictionary ==
  ASSUME CacheInv, NEW h \in Handles, CleanCache(h), NEW s \in Slaves
  PROVE  s \in DOMAIN sdos[h] /\ sdos[h][s] = read_od_list(s)
<1>1. Slaves = 1..Len(od) /\ Len(od) \in Nat
  BY BusIsSeq DEF CacheInv
<1>2. sdos[h] \in Seq(Dictionaries)
  BY DEF CacheInv
<1>3. DOMAIN sdos[h] = 1..Len(sdos[h]) /\ Len(sdos[h]) \in Nat
  BY <1>2
<1> QED
  BY <1>1, <1>3 DEF CleanCache

LEMMA FindOwn ==
  ASSUME CacheInv, NEW h \in Handles, CleanCache(h), NEW s \in Slaves, NEW idx
  PROVE  Find(h, s, idx) = ObjectsAt(s, idx)
<1>1. s \in DOMAIN sdos[h] /\ sdos[h][s] = read_od_list(s)
  BY OwnDictionary
<1>2. /\ DOMAIN sdos[h][s] = DOMAIN od[s]
      /\ \A k \in DOMAIN od[s] : sdos[h][s][k].idx = od[s][k].idx
  BY <1>1 DEF read_od_list
<1>3. /\ DOMAIN od[s] = 1..Len(od[s]) /\ Len(od[s]) \in Nat
      /\ \A k, k2 \in DOMAIN od[s] : od[s][k].idx = od[s][k2].idx => k = k2
  BY BusShape DEF CacheInv
<1>4. ASSUME NEW k \in DOMAIN od[s], od[s][k].idx = idx, NEW i \in 1..(k - 1)
      PROVE  sdos[h][s][i].idx # idx
  <2>1. i \in DOMAIN od[s] /\ i # k
    BY <1>3
  <2> QED
    BY <1>2, <1>3, <1>4, <2>1
<1> QED
  BY <1>1, <1>2, <1>4 DEF Find, ObjectsAt

LEMMA InfoOwn ==
  ASSUME CacheInv, NEW h \in Handles, CleanCache(h), NEW s \in Slaves, NEW idx, NEW j,
         NEW k \in ObjectsAt(s, idx), j \in DOMAIN od[s][k].entries
  PROVE  Info(h, s, idx, j) = Described(od[s][k].entries[j])
<1>1. sdos[h][s] = read_od_list(s)
  BY OwnDictionary
<1>2. k \in DOMAIN od[s]
  BY DEF ObjectsAt
<1>3. sdos[h][s][k].entries = [i \in DOMAIN od[s][k].entries |-> Described(od[s][k].entries[i])]
  BY <1>1, <1>2 DEF read_od_list
<1>4. Find(h, s, idx) = {k}
  <2>1. Find(h, s, idx) = ObjectsAt(s, idx)
    BY FindOwn
  <2> QED
    BY <2>1, OneObject DEF CacheInv
<1>5. {k2 \in Find(h, s, idx) : j \in DOMAIN sdos[h][s][k2].entries} = {k}
  BY <1>3, <1>4
<1>6. Info(h, s, idx, j) = UNION {sdos[h][s][k].entries[j]}
  BY <1>5 DEF Info
<1> QED
  BY <1>3, <1>6

----------------------------------------------------------------------------
(* What a read that has returned says.                                     *)

\* What becomes of an answer that holds one entry.
EntryDecoded(r, info, raw) ==
  /\ r.outcome \in Outcomes \ {"NotFound"}
  /\ r.outcome = "TooSmall" => Len(raw) > Cnt(info)
  /\ r.outcome = "Ok" => r.values = <<Decode(info, raw)>> /\ Decode(info, raw) # {}
  /\ r.outcome = "ValueConversion" => Decode(info, raw) = {}
  /\ r.outcome = "panic" => raw = <<>>
  /\ r.outcome # "Ok" => r.values = <<>>

\* The slave has returned what it has in the entry that was asked for.
LEMMA EntryResult ==
  ASSUME NEW h, NEW s, NEW idx, NEW j, ReadSdoEntry(h, s, idx, j), got' # NoCall
  PROVE  /\ got'.name = "read_entry" /\ got'.by = h
         /\ got'.slave = s /\ got'.idx = idx /\ got'.sub = j
         /\ got'.outcome \in Outcomes
         /\ got'.outcome = "NotFound" => Info(h, s, idx, j) = {} /\ got'.values = <<>>
         /\ got'.outcome # "NotFound" =>
              /\ Info(h, s, idx, j) # {}
              /\ \E k \in EntriesAt(s, idx, j) :
                   EntryDecoded(got', Info(h, s, idx, j), data[s][k][j])
<1> DEFINE info == Info(h, s, idx, j)
           result == Result("read_entry", h, s, idx, j)
           value(k) == Decode(info, data[s][k][j])
<1>1. \/ info = {} /\ got' = [result EXCEPT !.outcome = "NotFound"]
      \/ /\ info # {}
         /\ \E k \in EntriesAt(s, idx, j) :
              \/ /\ Len(data[s][k][j]) > Cnt(info)
                 /\ got' = [result EXCEPT !.outcome = "TooSmall"]
              \/ /\ data[s][k][j] = <<>>
                 /\ got' = [result EXCEPT !.outcome = "panic"]
              \/ value(k) = {} /\ got' = [result EXCEPT !.outcome = "ValueConversion"]
              \/ value(k) # {} /\ got' = [result EXCEPT !.values = <<value(k)>>]
  BY Zenon DEF ReadSdoEntry, ReadFails, TooSmall
<1>2. result = [name |-> "read_entry", by |-> h, slave |-> s, idx |-> idx, sub |-> j,
                outcome |-> "Ok", values |-> <<>>, whole |-> TRUE, padded |-> FALSE]
  BY DEF Result
<1> HIDE DEF info, result, value
<1>3. CASE info = {} /\ got' = [result EXCEPT !.outcome = "NotFound"]
  BY <1>2, <1>3 DEF info, Outcomes
<1>4. ASSUME info # {}, NEW k \in EntriesAt(s, idx, j),
              \/ /\ Len(data[s][k][j]) > Cnt(info)
                 /\ got' = [result EXCEPT !.outcome = "TooSmall"]
              \/ /\ data[s][k][j] = <<>>
                 /\ got' = [result EXCEPT !.outcome = "panic"]
              \/ value(k) = {} /\ got' = [result EXCEPT !.outcome = "ValueConversion"]
              \/ value(k) # {} /\ got' = [result EXCEPT !.values = <<value(k)>>]
      PROVE  /\ got'.name = "read_entry" /\ got'.by = h
             /\ got'.slave = s /\ got'.idx = idx /\ got'.sub = j
             /\ got'.outcome \in Outcomes \ {"NotFound"}
             /\ EntryDecoded(got', info, data[s][k][j])
  BY <1>2, <1>4 DEF Outcomes, EntryDecoded, value
<1> QED
  BY <1>1, <1>3, <1>4 DEF info

\* What becomes of an answer to a complete access.
Decoded(r, entries, raw) ==
  /\ r.outcome \in Outcomes \ {"NotFound"}
  /\ r.outcome = "TooSmall" => Len(raw) > BuffSize(entries)
  /\ r.outcome = "panic" => Complete(entries, raw) = "panic"
  /\ r.outcome = "Ok" => /\ Complete(entries, raw) = "Ok"
                         /\ r.values = [i \in DOMAIN entries |-> ValueAt(entries, raw, i)]
  /\ r.outcome # "Ok" => r.values = <<>>

LEMMA Decodings ==
  ASSUME NEW h, NEW entries, NEW raw, NEW r,
         {"name", "by", "slave", "idx", "outcome", "values", "whole", "padded"} \subseteq DOMAIN r,
         r.outcome = "Ok", r.values = <<>>,
         DecodeComplete(h, entries, raw, r)
  PROVE  /\ got'.name = r.name /\ got'.by = r.by
         /\ got'.slave = r.slave /\ got'.idx = r.idx
         /\ got'.whole = r.whole /\ got'.padded = r.padded
         /\ Decoded(got', entries, raw)
<1> DEFINE outcome == Complete(entries, raw)
           values == [i \in DOMAIN entries |-> ValueAt(entries, raw, i)]
<1>2. \/ Len(raw) > BuffSize(entries) /\ got' = [r EXCEPT !.outcome = "TooSmall"]
      \/ outcome = "panic" /\ got' = [r EXCEPT !.outcome = "panic"]
      \/ /\ outcome # "panic"
         /\ got' = [r EXCEPT !.outcome = outcome,
                             !.values = IF outcome # "Ok" THEN <<>> ELSE values]
  BY Zenon DEF DecodeComplete, TooSmall
<1>3. outcome \in {"Ok", "panic", "ValueConversion"}
  BY DEF Complete
<1> HIDE DEF outcome, values
<1>4. CASE Len(raw) > BuffSize(entries) /\ got' = [r EXCEPT !.outcome = "TooSmall"]
  BY <1>4 DEF Decoded, Outcomes
<1>5. CASE outcome = "panic" /\ got' = [r EXCEPT !.outcome = "panic"]
  BY <1>5 DEF Decoded, Outcomes, outcome
<1>6. CASE /\ outcome # "panic"
           /\ got' = [r EXCEPT !.outcome = outcome,
                               !.values = IF outcome # "Ok" THEN <<>> ELSE values]
  <2>1. /\ got'.name = r.name /\ got'.by = r.by /\ got'.slave = r.slave /\ got'.idx = r.idx
        /\ got'.whole = r.whole /\ got'.padded = r.padded
        /\ got'.outcome = outcome
        /\ got'.values = IF outcome # "Ok" THEN <<>> ELSE values
    BY <1>6
  <2>2. Decoded(got', entries, raw)
    BY <1>3, <1>6, <2>1 DEF Decoded, Outcomes, outcome, values
  <2> QED
    BY <2>1, <2>2
<1> QED
  BY <1>2, <1>4, <1>5, <1>6

LEMMA CompleteResult ==
  ASSUME NEW h, NEW s, NEW idx, ReadSdoComplete(h, s, idx), got' # NoCall
  PROVE  /\ got'.name = "read_complete" /\ got'.by = h
         /\ got'.slave = s /\ got'.idx = idx
         /\ got'.outcome \in Outcomes
         /\ got'.outcome = "NotFound" => Find(h, s, idx) = {} /\ got'.values = <<>>
         /\ got'.outcome # "NotFound" =>
              \E f \in Find(h, s, idx), k \in ObjectsAt(s, idx), padded \in BOOLEAN :
                \E n \in 1..Len(data[s][k]) :
                  /\ got'.whole = (n = Len(data[s][k])) /\ got'.padded = (padded /\ n > 1)
                  /\ Decoded(got', sdos[h][s][f].entries,
                             CompleteAnswer(data[s][k], n, padded))
<1> DEFINE result == Result("read_complete", h, s, idx, 1)
           entries(f) == sdos[h][s][f].entries
           raw(k, n, padded) == CompleteAnswer(data[s][k], n, padded)
           Answered(f, k, n, padded) ==
             DecodeComplete(h, entries(f), raw(k, n, padded),
               [result EXCEPT !.padded = padded /\ n > 1, !.whole = (n = Len(data[s][k]))])
<1>1. result
        = [name |-> "read_complete", by |-> h, slave |-> s, idx |-> idx, sub |-> 1,
           outcome |-> "Ok", values |-> <<>>, whole |-> TRUE, padded |-> FALSE]
  BY DEF Result
<1> HIDE DEF result, entries, raw
<1>2. /\ {"name", "by", "slave", "idx", "outcome", "values", "whole", "padded"}
           \subseteq DOMAIN result
      /\ result.name = "read_complete" /\ result.by = h
      /\ result.slave = s /\ result.idx = idx
      /\ result.outcome = "Ok" /\ result.values = <<>>
  BY <1>1
<1>3. \/ Find(h, s, idx) = {} /\ got' = [result EXCEPT !.outcome = "NotFound"]
      \/ \E f \in Find(h, s, idx), k \in ObjectsAt(s, idx), padded \in BOOLEAN :
           \E n \in 1..Len(data[s][k]) : Answered(f, k, n, padded)
  BY Zenon DEF ReadSdoComplete, ReadFails, result, entries, raw
<1>4. CASE Find(h, s, idx) = {} /\ got' = [result EXCEPT !.outcome = "NotFound"]
  BY <1>1, <1>4 DEF Outcomes
<1>5. ASSUME NEW f \in Find(h, s, idx), NEW k \in ObjectsAt(s, idx), NEW padded \in BOOLEAN,
             NEW n \in 1..Len(data[s][k]), Answered(f, k, n, padded)
      PROVE  /\ got'.name = "read_complete" /\ got'.by = h
             /\ got'.slave = s /\ got'.idx = idx
             /\ got'.whole = (n = Len(data[s][k])) /\ got'.padded = (padded /\ n > 1)
             /\ Decoded(got', entries(f), raw(k, n, padded))
  <2> DEFINE r == [result EXCEPT !.padded = padded /\ n > 1, !.whole = (n = Len(data[s][k]))]
  <2>1. DecodeComplete(h, entries(f), raw(k, n, padded), r)
    BY <1>5
  <2>2. /\ {"name", "by", "slave", "idx", "outcome", "values", "whole", "padded"}
             \subseteq DOMAIN r
        /\ r.name = "read_complete" /\ r.by = h /\ r.slave = s /\ r.idx = idx
        /\ r.whole = (n = Len(data[s][k])) /\ r.padded = (padded /\ n > 1)
        /\ r.outcome = "Ok" /\ r.values = <<>>
    BY <1>2
  <2> HIDE DEF r, Answered
  <2>3. /\ got'.name = r.name /\ got'.by = r.by
        /\ got'.slave = r.slave /\ got'.idx = r.idx
        /\ got'.whole = r.whole /\ got'.padded = r.padded
        /\ Decoded(got', entries(f), raw(k, n, padded))
    BY <2>1, <2>2, Decodings
  <2> QED
    BY <2>2, <2>3
<1>6. ASSUME NEW entry, NEW bytes, Decoded(got', entry, bytes)
      PROVE  got'.outcome \in Outcomes /\ got'.outcome # "NotFound"
  BY <1>6 DEF Decoded
<1> HIDE DEF Answered
<1>7. CASE \E f \in Find(h, s, idx), k \in ObjectsAt(s, idx), padded \in BOOLEAN :
             \E n \in 1..Len(data[s][k]) : Answered(f, k, n, padded)
  <2>0. PICK f \in Find(h, s, idx), k \in ObjectsAt(s, idx), padded \in BOOLEAN :
               \E n \in 1..Len(data[s][k]) : Answered(f, k, n, padded)
    BY <1>7
  <2>1. PICK n \in 1..Len(data[s][k]) : Answered(f, k, n, padded)
    BY <2>0
  <2>2. /\ got'.name = "read_complete" /\ got'.by = h
        /\ got'.slave = s /\ got'.idx = idx
        /\ got'.whole = (n = Len(data[s][k])) /\ got'.padded = (padded /\ n > 1)
        /\ Decoded(got', entries(f), raw(k, n, padded))
    BY <1>5, <2>1
  <2>3. got'.outcome \in Outcomes /\ got'.outcome # "NotFound"
    BY <1>6, <2>2
  <2> QED
    BY <2>2, <2>3 DEF entries, raw
<1> QED
  BY <1>3, <1>4, <1>7

\* All other calls leave no result.
LEMMA OtherSteps ==
  ASSUME [SdoNext]_sdoVars
  PROVE  \/ UNCHANGED sdoVars
         \/ got' = NoCall
         \/ \E h \in Handles, s \in Slaves, idx \in Indexes :
              \/ ReadSdoComplete(h, s, idx)
              \/ \E j \in 1..MaxSub : ReadSdoEntry(h, s, idx, j)
<1>1. ASSUME SdoTryNew \/ SdoPtr PROVE got' = NoCall
  BY <1>1 DEF SdoTryNew, SdoPtr, Lives
<1>2. ASSUME NEW h \in Handles,
             \/ SdoEnter(h) \/ SdoDrop(h) \/ SdoLeakPtr(h)
             \/ SdoFromPtr(h) \/ SdoFromPtrWithCaches(h)
             \/ OtherCall(h) \/ Scan(h)
      PROVE  got' = NoCall
  BY <1>2, Zenon DEF SdoEnter, SdoDrop, SdoLeakPtr, SdoFromPtr, SdoFromPtrWithCaches,
    OtherCall, Scan, Lives
<1>3. ASSUME NEW h, NEW s, NEW idx, NEW j,
             WriteSdo(h, s, idx, j) \/ \E v \in Values : WriteSdoEntry(h, s, idx, j, v)
      PROVE  got' = NoCall
  BY <1>3, Zenon DEF WriteSdo, WriteSdoEntry
<1> QED
  BY <1>1, <1>2, <1>3, Zenon DEF SdoNext

LEMMA ReadsKeep ==
  ASSUME NEW h, NEW s, NEW idx,
         ReadSdoComplete(h, s, idx) \/ \E j : ReadSdoEntry(h, s, idx, j)
  PROVE  UNCHANGED <<od, data, sdos, scan, written>>
<1>1. Keeps
  BY Zenon DEF ReadSdoComplete, ReadSdoEntry
<1> QED
  BY <1>1 DEF Keeps, slavesVars, cacheVars

----------------------------------------------------------------------------
\* Later scans hide nothing.
LEMMA FindsStep ==
  ASSUME CacheInv, CleanScanFinds, [SdoNext]_sdoVars
  PROVE  CleanScanFinds'
<1>1. CASE UNCHANGED sdoVars
  BY <1>1 DEF sdoVars, slavesVars, cacheVars, CleanScanFinds, Clean, Asked, Description,
    ObjectsAt, Described
<1>2. CASE got' = NoCall
  BY <1>2 DEF CleanScanFinds, Clean
<1>3. ASSUME NEW h \in Handles, NEW s \in Slaves, NEW idx \in Indexes,
             ReadSdoComplete(h, s, idx), Clean', got'.outcome = "NotFound"
      PROVE  \A k \in ObjectsAt(s, idx) : FALSE
  <2>1. UNCHANGED <<od, data, sdos, scan>> /\ got' # NoCall
    BY <1>3, ReadsKeep DEF Clean
  <2>2. got'.by = h /\ Find(h, s, idx) = {}
    BY <1>3, <2>1, CompleteResult
  <2>3. CleanCache(h)
    BY <1>3, <2>1, <2>2 DEF Clean, CacheInv
  <2> QED
    BY <2>2, <2>3, FindOwn
<1>4. ASSUME NEW h \in Handles, NEW s \in Slaves, NEW idx \in Indexes, NEW j \in 1..MaxSub,
             ReadSdoEntry(h, s, idx, j), Clean', got'.outcome = "NotFound",
             NEW k \in ObjectsAt(s, idx), j \in DOMAIN data[s][k]
      PROVE  Described(od[s][k].entries[j]) = {}
  <2>1. UNCHANGED <<od, data, sdos, scan>> /\ got' # NoCall
    BY <1>4, ReadsKeep DEF Clean
  <2>2. got'.by = h /\ Info(h, s, idx, j) = {}
    BY <1>4, <2>1, EntryResult
  <2>3. CleanCache(h)
    BY <1>4, <2>1, <2>2 DEF Clean, CacheInv
  <2>4. j \in DOMAIN od[s][k].entries
    BY <1>4 DEF CacheInv, ShapeInv, ObjectsAt
  <2> QED
    BY <2>2, <2>3, <2>4, InfoOwn
<1>5. ASSUME NEW h \in Handles, NEW s \in Slaves, NEW idx \in Indexes,
             ReadSdoComplete(h, s, idx)
      PROVE  CleanScanFinds'
  <2> SUFFICES ASSUME Clean', got'.outcome = "NotFound",
                      NEW k \in ObjectsAt(got.slave, got.idx)'
               PROVE  FALSE
    BY DEF CleanScanFinds
  <2>1. UNCHANGED <<od, data>> /\ got' # NoCall
    BY <1>5, ReadsKeep DEF Clean
  <2>2. got'.slave = s /\ got'.idx = idx
    BY <1>5, <2>1, CompleteResult
  <2>3. k \in ObjectsAt(s, idx)
    BY <2>1, <2>2 DEF ObjectsAt
  <2> QED
    BY <1>3, <1>5, <2>3
<1>6. ASSUME NEW h \in Handles, NEW s \in Slaves, NEW idx \in Indexes, NEW j \in 1..MaxSub,
             ReadSdoEntry(h, s, idx, j)
      PROVE  CleanScanFinds'
  <2> SUFFICES ASSUME Clean', got'.outcome = "NotFound",
                      NEW k \in ObjectsAt(got.slave, got.idx)'
               PROVE  /\ got'.name = "read_entry"
                      /\ Asked(k, got.sub)' => (Description(k, got.sub) = {})'
    BY DEF CleanScanFinds
  <2>1. UNCHANGED <<od, data>> /\ got' # NoCall
    BY <1>6, ReadsKeep DEF Clean
  <2>2. got'.name = "read_entry" /\ got'.slave = s /\ got'.idx = idx /\ got'.sub = j
    BY <1>6, <2>1, EntryResult
  <2>3. k \in ObjectsAt(s, idx)
    BY <2>1, <2>2 DEF ObjectsAt
  <2>4. Asked(k, got.sub)' => j \in DOMAIN data[s][k]
    BY <2>1, <2>2 DEF Asked
  <2>5. Asked(k, got.sub)' => Described(od[s][k].entries[j]) = {}
    BY <1>4, <1>6, <2>3, <2>4
  <2>6. Description(k, got.sub)' = Described(od[s][k].entries[j])
    BY <2>1, <2>2 DEF Description, Described
  <2> QED
    BY <2>2, <2>5, <2>6
<1> QED
  BY <1>1, <1>2, <1>5, <1>6, OtherSteps

\* A clean cache finds every described entry, for any buses and any number of
\* Masters and scans.
THEOREM ScansHideNothing == SdoSpec => []CleanScanFinds
<1>1. SdoInit => CleanScanFinds
  BY DEF SdoInit, CleanScanFinds, Clean
<1>2. CacheInv /\ CleanScanFinds /\ [SdoNext]_sdoVars => CleanScanFinds'
  BY FindsStep
<1> QED
  BY <1>1, <1>2, CacheInvariant, PTL DEF SdoSpec

----------------------------------------------------------------------------
(* What is written is what is read.                                        *)

\* An entry that was written holds the bytes of a value of its type.
Holds(w) ==
  /\ w.slave \in Slaves /\ w.object \in DOMAIN od[w.slave]
  /\ w.sub \in DOMAIN od[w.slave][w.object].entries
  /\ w.value \in ValueType /\ Convertible(w.value)
  /\ w.value.type = od[w.slave][w.object].entries[w.sub].type
  /\ Fits(od[w.slave][w.object].entries[w.sub], w.value.bytes)
  /\ data[w.slave][w.object][w.sub] = w.value.bytes

WrittenInv == \A w \in written : Holds(w)

LEMMA HoldsKept ==
  ASSUME WrittenInv, UNCHANGED <<od, data, written>> PROVE WrittenInv'
  BY DEF WrittenInv, Holds, Slaves, Fits

LEMMA DownloadStep ==
  ASSUME CacheInv, WrittenInv, UNCHANGED od,
         NEW h, NEW s \in Slaves, NEW idx, NEW j, NEW bytes, NEW value,
         \A v \in value : v \in ValueType /\ Convertible(v) /\ bytes = v.bytes,
         Download(h, s, idx, j, bytes, value)
  PROVE  WrittenInv'
<1>1. CASE UNCHANGED <<data, written>>
  BY <1>1, HoldsKept
<1>2. ASSUME NEW k \in EntriesAt(s, idx, j),
             Fits(od[s][k].entries[j], bytes),
             data' = [data EXCEPT ![s][k][j] = bytes],
             written' = {[slave |-> s, object |-> k, sub |-> j, value |-> v] :
                           v \in {v2 \in value : v2.type = od[s][k].entries[j].type}}
      PROVE  WrittenInv'
  <2>1. k \in DOMAIN od[s] /\ j \in DOMAIN data[s][k] /\ j \in DOMAIN od[s][k].entries
    BY DEF EntriesAt, ObjectsAt, CacheInv, ShapeInv
  <2>2. data'[s][k][j] = bytes
    BY <1>2, <2>1 DEF CacheInv, ShapeInv
  <2> SUFFICES ASSUME NEW v \in value, v.type = od[s][k].entries[j].type
               PROVE  Holds([slave |-> s, object |-> k, sub |-> j, value |-> v])'
    BY <1>2 DEF WrittenInv
  <2>3. v \in ValueType /\ Convertible(v) /\ bytes = v.bytes
    OBVIOUS
  <2> QED
    BY <1>2, <2>1, <2>2, <2>3 DEF Holds, Slaves, Fits
<1> QED
  BY <1>1, <1>2 DEF Download

LEMMA RowKeepsWritten ==
  ASSUME CacheInv, WrittenInv, UNCHANGED od, NEW s \in Slaves, NEW k \in DOMAIN od[s],
         NEW row, TakeRow(s, k, row)
  PROVE  WrittenInv'
<1> SUFFICES ASSUME NEW w \in written, w.slave = s /\ w.object = k => w.sub \notin DOMAIN row
             PROVE  Holds(w)'
  BY DEF WrittenInv, TakeRow
<1>1. Holds(w)
  BY DEF WrittenInv
<1>2. data' = [data EXCEPT ![s][k] = Overlaid(@, row)]
  BY DEF TakeRow
<1>3. /\ DOMAIN data = Slaves /\ DOMAIN data[s] = DOMAIN od[s]
      /\ DOMAIN data[s][k] = DOMAIN od[s][k].entries
  BY DEF CacheInv, ShapeInv
<1>4. data'[w.slave][w.object][w.sub] = data[w.slave][w.object][w.sub]
  <2>1. CASE w.slave = s /\ w.object = k
    <3>1. data'[s][k] = Overlaid(data[s][k], row)
      BY <1>2, <1>3
    <3>2. w.sub \in DOMAIN data[s][k] /\ w.sub \notin DOMAIN row
      BY <1>1, <1>3, <2>1 DEF Holds
    <3> QED
      BY <2>1, <3>1, <3>2 DEF Overlaid
  <2>2. CASE ~(w.slave = s /\ w.object = k)
    <3>1. data'[w.slave][w.object] = data[w.slave][w.object]
      BY <1>2, <1>3, <2>2
    <3> QED
      BY <3>1
  <2> QED
    BY <2>1, <2>2
<1> QED
  BY <1>1, <1>4 DEF Holds, Slaves, Fits

LEMMA WrittenStep ==
  ASSUME CacheInv, WrittenInv, [SdoNext]_sdoVars
  PROVE  WrittenInv'
<1>1. CASE SdoTryNew \/ SdoPtr \/ UNCHANGED sdoVars
  BY <1>1, HoldsKept DEF SdoTryNew, SdoPtr, Lives, sdoVars, slavesVars
<1>2. ASSUME NEW h \in Handles,
             \/ SdoEnter(h) \/ SdoDrop(h) \/ SdoLeakPtr(h)
             \/ SdoFromPtr(h) \/ SdoFromPtrWithCaches(h)
             \/ OtherCall(h) \/ Scan(h)
      PROVE  WrittenInv'
  <2>1. UNCHANGED <<slavesVars, written>>
    BY <1>2, Zenon DEF SdoEnter, SdoDrop, SdoLeakPtr, SdoFromPtr, SdoFromPtrWithCaches,
      OtherCall, Scan, Lives
  <2> QED
    BY <2>1, HoldsKept DEF slavesVars
<1>3. ASSUME NEW h \in Handles, NEW s \in Slaves, NEW idx \in Indexes,
             \/ ReadSdoComplete(h, s, idx)
             \/ \E j \in 1..MaxSub : ReadSdoEntry(h, s, idx, j)
      PROVE  WrittenInv'
  BY <1>3, ReadsKeep, HoldsKept
<1>4. ASSUME NEW h \in Handles, NEW s \in Slaves, NEW idx \in Indexes, NEW j \in 1..MaxSub,
             WriteSdo(h, s, idx, j)
      PROVE  WrittenInv'
  <2>1. UNCHANGED od
    BY <1>4, Writes
  <2>2. \/ UNCHANGED <<data, written>>
        \/ \E k \in EntriesAt(s, idx, j) : \E row : TakeRow(s, k, row)
    BY <1>4, Writes, Zenon
  <2>3. \A k \in EntriesAt(s, idx, j) : k \in DOMAIN od[s]
    BY DEF EntriesAt, ObjectsAt
  <2> QED
    BY <2>1, <2>2, <2>3, HoldsKept, RowKeepsWritten
<1>5. ASSUME NEW h \in Handles, NEW s \in Slaves, NEW idx \in Indexes, NEW j \in 1..MaxSub,
             NEW v \in Values, WriteSdoEntry(h, s, idx, j, v)
      PROVE  WrittenInv'
  <2>1. /\ \/ UNCHANGED <<data, written>>
           \/ Convertible(v) /\ Download(h, s, idx, j, ToBytes(v), {v})
        /\ UNCHANGED od
    BY <1>5, Zenon DEF WriteSdoEntry
  <2>2. v \in ValueType /\ ToBytes(v) = v.bytes
    BY ValuesAssumption DEF ToBytes
  <2> QED
    BY <2>1, <2>2, HoldsKept, DownloadStep
<1> QED
  BY <1>1, <1>2, <1>3, <1>4, <1>5 DEF SdoNext

LEMMA WrittenInvariant == SdoSpec => []WrittenInv
<1>1. SdoInit => WrittenInv
  BY DEF SdoInit, WrittenInv
<1>2. CacheInv /\ WrittenInv /\ [SdoNext]_sdoVars => WrittenInv'
  BY WrittenStep
<1> QED
  BY <1>1, <1>2, CacheInvariant, PTL DEF SdoSpec

\* The conversions are inverse to each other.
LEMMA DecodesBack ==
  ASSUME NEW v \in ValueType, Convertible(v), v.bytes # <<>>
  PROVE  ValueFromSlice(v.type, v.bytes, 0) = {v}
<1>1. v \in [type : Types, bytes : Seq(Byte)]
  BY DEF ValueType
<1>2. v = [type |-> v.type, bytes |-> v.bytes]
  BY <1>1
<1>3. v.type \in {"Bool", "U8", "U16", "Raw"}
  BY <1>1 DEF Types, Convertible
<1>4. CASE v.type \in {"Bool", "U8"}
  <2>1. Len(v.bytes) = 1 /\ v.bytes \in Seq(Byte)
    BY <1>1, <1>4 DEF ValueType, Width
  <2>2. v.bytes = <<v.bytes[1]>>
    BY <2>1
  <2>3. v.type = "Bool" => v.bytes[1] = IF 0 \in v.bytes[1] THEN {0} ELSE {}
    BY DEF ValueType
  <2> QED
    BY <1>2, <1>4, <2>2, <2>3 DEF ValueFromSlice
<1>5. CASE v.type = "U16"
  <2>1. Len(v.bytes) = Width["U16"]
    BY <1>5 DEF ValueType, Width
  <2> QED
    BY <1>2, <1>5, <2>1 DEF ValueFromSlice
<1>6. CASE v.type = "Raw"
  BY <1>2, <1>6 DEF ValueFromSlice
<1> QED
  BY <1>3, <1>4, <1>5, <1>6

LEMMA Element == ASSUME NEW S, NEW q \in Seq(S), NEW k \in DOMAIN q PROVE q[k] \in S
  OBVIOUS

\* A read of an entry that was written.
LEMMA ReadsBack ==
  ASSUME CacheInv, NEW h \in Handles, CleanCache(h), NEW s \in Slaves, NEW idx, NEW j,
         Info(h, s, idx, j) # {},
         NEW w, Holds(w), w.slave = s, w.sub = j, w.object \in ObjectsAt(s, idx)
  PROVE  /\ ~(Len(data[s][w.object][j]) > Cnt(Info(h, s, idx, j)))
         /\ \/ w.value.bytes = <<>>
            \/ Decode(Info(h, s, idx, j), data[s][w.object][j]) = {w.value}
         /\ \A v \in Decode(Info(h, s, idx, j), data[s][w.object][j]) : v = w.value
<1> DEFINE e == od[s][w.object].entries[j]
           info == Info(h, s, idx, j)
           v == w.value
<1>1. /\ v \in ValueType /\ Convertible(v) /\ v.type = e.type
      /\ Fits(e, v.bytes) /\ data[s][w.object][j] = v.bytes
      /\ w.object \in DOMAIN od[s] /\ j \in DOMAIN od[s][w.object].entries
  BY DEF Holds
<1>2. info = Described(e)
  BY <1>1, InfoOwn
<1>3. info = {[type |-> e.type, bits |-> e.bits]}
  BY <1>2 DEF Described
<1>4. e.bits \in Nat
  <2>1. /\ od[s] \in Seq([idx : Indexes, entries : Seq(EntryDescriptions)])
    BY BusShape DEF CacheInv
  <2>2. \A k \in DOMAIN od[s] : \A i \in DOMAIN od[s][k].entries :
          od[s][k].entries[i] \in EntryDescriptions
    <3> SUFFICES ASSUME NEW k \in DOMAIN od[s] PROVE od[s][k].entries \in Seq(EntryDescriptions)
      OBVIOUS
    <3>1. od[s][k] \in [idx : Indexes, entries : Seq(EntryDescriptions)]
      BY <2>1, Element
    <3> QED
      BY <3>1
  <2>3. e \in EntryDescriptions
    BY <1>1, <2>2, Zenon
  <2> QED
    BY <2>3 DEF EntryDescriptions
<1> HIDE DEF e, info, v
<1>5. Cnt(info) = byte_cnt(e.bits)
  <2>1. info # {} /\ (CHOOSE d \in info : TRUE) \in info
    BY <1>3
  <2>2. (CHOOSE d \in info : TRUE).bits = e.bits
    BY <1>3, <2>1
  <2> QED
    BY <2>1, <2>2 DEF Cnt
<1>6. ~(Len(v.bytes) > Cnt(info))
  <2>1. v.type \in {"Bool", "U8", "U16", "Raw"} /\ v.bytes \in Seq(Byte)
    BY <1>1 DEF ValueType, Types, Convertible
  <2>2. byte_cnt(e.bits) \in Nat /\ Len(v.bytes) \in Nat
    <3>1. byte_cnt(e.bits) \in Nat
      BY <1>4, ByteCntType
    <3>2. Len(v.bytes) \in Nat
      BY <2>1
    <3> QED
      BY <3>1, <3>2
  <2>3. Len(v.bytes) <= byte_cnt(e.bits)
    BY <1>1, <2>1, <2>2 DEF Fits, Width
  <2> QED
    BY <1>5, <2>2, <2>3
<1>7. Decode(info, v.bytes) = ValueFromSlice(v.type, v.bytes, 0)
  BY <1>1, <1>3 DEF Decode
<1>8. v.bytes = <<>> => ValueFromSlice(v.type, v.bytes, 0) = {}
  BY DEF ValueFromSlice
<1>9. v.bytes # <<>> => ValueFromSlice(v.type, v.bytes, 0) = {v}
  BY <1>1, DecodesBack
<1> QED
  BY <1>1, <1>6, <1>7, <1>8, <1>9 DEF info, v

LEMMA ReadsStep ==
  ASSUME CacheInv, WrittenInv, ReadsWhatWasWritten, [SdoNext]_sdoVars
  PROVE  ReadsWhatWasWritten'
<1>1. CASE UNCHANGED sdoVars
  BY <1>1 DEF sdoVars, slavesVars, cacheVars, ReadsWhatWasWritten, Clean, Asked, ObjectsAt
<1>2. CASE got' = NoCall
  BY <1>2 DEF ReadsWhatWasWritten, Clean
<1>3. ASSUME NEW h \in Handles, NEW s \in Slaves, NEW idx \in Indexes,
             ReadSdoComplete(h, s, idx)
      PROVE  ReadsWhatWasWritten'
  BY <1>3, CompleteResult DEF ReadsWhatWasWritten, Clean
<1>4. ASSUME NEW h \in Handles, NEW s \in Slaves, NEW idx \in Indexes, NEW j,
             ReadSdoEntry(h, s, idx, j)
      PROVE  ReadsWhatWasWritten'
  <2> SUFFICES ASSUME Clean', NEW w \in written',
                      w.slave = got'.slave, w.sub = got'.sub, Asked(w.object, w.sub)'
               PROVE  /\ got'.outcome = "Ok" => got'.values = <<{w.value}>>
                      /\ got'.outcome # "TooSmall"
                      /\ got'.outcome = "ValueConversion" => w.value.bytes = <<>>
    BY DEF ReadsWhatWasWritten
  <2>1. UNCHANGED <<od, data, sdos, scan, written>> /\ got' # NoCall
    BY <1>4, ReadsKeep DEF Clean
  <2> DEFINE info == Info(h, s, idx, j)
             raw(k) == data[s][k][j]
  <2>2. /\ got'.by = h /\ got'.slave = s /\ got'.idx = idx /\ got'.sub = j
        /\ got'.outcome \in Outcomes
        /\ got'.outcome # "NotFound" =>
             /\ info # {}
             /\ \E k \in EntriesAt(s, idx, j) : EntryDecoded(got', info, raw(k))
    BY <1>4, <2>1, EntryResult
  <2>3. CleanCache(h)
    BY <2>1, <2>2 DEF Clean, CacheInv
  <2>4. w \in written /\ w.slave = s /\ w.sub = j /\ w.object \in ObjectsAt(s, idx)
    BY <2>1, <2>2 DEF Asked, ObjectsAt
  <2>5. got'.outcome # "NotFound" => EntryDecoded(got', info, raw(w.object))
    <3>1. \A k \in EntriesAt(s, idx, j) : k = w.object
      BY <2>4, OneObject DEF EntriesAt, CacheInv
    <3> HIDE DEF info, raw
    <3> QED
      BY <2>2, <3>1
  <2>6. ASSUME info # {}
        PROVE  /\ ~(Len(raw(w.object)) > Cnt(info))
               /\ w.value.bytes = <<>> \/ Decode(info, raw(w.object)) = {w.value}
               /\ \A v \in Decode(info, raw(w.object)) : v = w.value
    <3>1. Holds(w) /\ w.slave = s /\ w.sub = j /\ w.object \in ObjectsAt(s, idx)
      BY <2>4 DEF WrittenInv
    <3> QED
      BY <2>3, <2>6, <3>1, ReadsBack
  <2>7. got'.outcome = "Ok" => Decode(info, raw(w.object)) = {w.value}
    BY <2>5, <2>6, <2>2 DEF EntryDecoded
  <2> HIDE DEF info, raw
  <2> QED
    BY <2>2, <2>5, <2>6, <2>7 DEF EntryDecoded
<1> QED
  BY <1>1, <1>2, <1>3, <1>4, OtherSteps

\* The value that was written is what is read, for any buses and values.
THEOREM WritesAreRead == SdoSpec => []ReadsWhatWasWritten
<1>1. SdoInit => ReadsWhatWasWritten
  BY DEF SdoInit, ReadsWhatWasWritten
<1>2. CacheInv /\ WrittenInv /\ ReadsWhatWasWritten /\ [SdoNext]_sdoVars => ReadsWhatWasWritten'
  BY ReadsStep
<1> QED
  BY <1>1, <1>2, CacheInvariant, WrittenInvariant, PTL DEF SdoSpec

----------------------------------------------------------------------------
(* The slaves hold what fits.                                              *)

DataInv ==
  \A s \in Slaves : \A k \in DOMAIN od[s] :
    /\ data[s][k] \in [DOMAIN od[s][k].entries -> Seq(Byte)]
    /\ \A j \in DOMAIN od[s][k].entries : Fits(od[s][k].entries[j], data[s][k][j])

LEMMA ObjectShape ==
  ASSUME od \in Ods, NEW s \in Slaves, NEW k \in DOMAIN od[s]
  PROVE  /\ od[s][k].entries \in Seq(EntryDescriptions)
         /\ DOMAIN od[s][k].entries = 1..Len(od[s][k].entries)
         /\ Len(od[s][k].entries) \in Nat
         /\ \A j \in DOMAIN od[s][k].entries :
              /\ od[s][k].entries[j] \in EntryDescriptions
              /\ od[s][k].entries[j].bits \in Nat
              /\ od[s][k].entries[j].first \in Payloads
<1>1. od[s] \in Seq([idx : Indexes, entries : Seq(EntryDescriptions)])
  BY BusShape
<1>2. od[s][k] \in [idx : Indexes, entries : Seq(EntryDescriptions)]
  BY <1>1, Element
<1>3. od[s][k].entries \in Seq(EntryDescriptions)
  BY <1>2
<1>4. \A j \in DOMAIN od[s][k].entries : od[s][k].entries[j] \in EntryDescriptions
  BY <1>3, Element
<1>5. \A e \in EntryDescriptions : e.bits \in Nat /\ e.first \in Payloads
  BY DEF EntryDescriptions
<1> QED
  BY <1>3, <1>4, <1>5

LEMMA DataStart == SdoInit => DataInv
<1> SUFFICES ASSUME SdoInit, NEW s \in Slaves, NEW k \in DOMAIN od[s]
             PROVE  /\ data[s][k] \in [DOMAIN od[s][k].entries -> Seq(Byte)]
                    /\ \A j \in DOMAIN od[s][k].entries : Fits(od[s][k].entries[j], data[s][k][j])
  BY DEF DataInv
<1>1. od \in Ods
  BY DEF SdoInit
<1>2. data[s][k] = [j \in DOMAIN od[s][k].entries |-> od[s][k].entries[j].first]
  BY DEF SdoInit
<1>3. \A j \in DOMAIN od[s][k].entries : od[s][k].entries[j].first \in Seq(Byte)
  BY <1>1, ObjectShape, PayloadsAssumption
<1>4. \A j \in DOMAIN od[s][k].entries : Fits(od[s][k].entries[j], od[s][k].entries[j].first)
  BY <1>1, ContentsAssumption DEF Slaves
<1> QED
  BY <1>2, <1>3, <1>4

LEMMA DataKept == ASSUME DataInv, UNCHANGED <<od, data>> PROVE DataInv'
  BY DEF DataInv, Slaves, Fits

LEMMA DataWritten ==
  ASSUME CacheInv, DataInv, UNCHANGED od,
         NEW h, NEW s \in Slaves, NEW idx, NEW j, NEW bytes \in Seq(Byte), NEW value,
         Download(h, s, idx, j, bytes, value)
  PROVE  DataInv'
<1>1. CASE UNCHANGED data
  BY <1>1, DataKept
<1>2. ASSUME NEW k \in EntriesAt(s, idx, j),
             Fits(od[s][k].entries[j], bytes),
             data' = [data EXCEPT ![s][k][j] = bytes]
      PROVE  DataInv'
  <2> SUFFICES ASSUME NEW s2 \in Slaves, NEW k2 \in DOMAIN od[s2]
               PROVE  /\ data'[s2][k2] \in [DOMAIN od[s2][k2].entries -> Seq(Byte)]
                      /\ \A i \in DOMAIN od[s2][k2].entries :
                           Fits(od[s2][k2].entries[i], data'[s2][k2][i])
    BY DEF DataInv, Slaves, Fits
  <2>1. /\ DOMAIN data = Slaves /\ DOMAIN data[s] = DOMAIN od[s]
        /\ k \in DOMAIN od[s] /\ j \in DOMAIN od[s][k].entries
    BY DEF CacheInv, ShapeInv, EntriesAt, ObjectsAt
  <2>2. /\ data[s2][k2] \in [DOMAIN od[s2][k2].entries -> Seq(Byte)]
        /\ \A i \in DOMAIN od[s2][k2].entries : Fits(od[s2][k2].entries[i], data[s2][k2][i])
    BY DEF DataInv
  <2>3. CASE s2 # s \/ k2 # k
    <3>1. data'[s2][k2] = data[s2][k2]
      BY <1>2, <2>1, <2>3
    <3> QED
      BY <2>2, <3>1
  <2>4. CASE s2 = s /\ k2 = k
    <3>1. data'[s2][k2] = [data[s2][k2] EXCEPT ![j] = bytes]
      BY <1>2, <2>1, <2>4
    <3>2. \A i \in DOMAIN od[s2][k2].entries :
            data'[s2][k2][i] = IF i = j THEN bytes ELSE data[s2][k2][i]
      BY <2>2, <3>1
    <3>3. data'[s2][k2] \in [DOMAIN od[s2][k2].entries -> Seq(Byte)]
      BY <2>2, <3>1
    <3> QED
      BY <1>2, <2>2, <2>4, <3>2, <3>3
  <2> QED
    BY <2>3, <2>4
<1> QED
  BY <1>1, <1>2 DEF Download

LEMMA RowWritten ==
  ASSUME CacheInv, DataInv, UNCHANGED od, NEW s \in Slaves, NEW k \in DOMAIN od[s],
         NEW taken \in SUBSET DOMAIN data[s][k], NEW row \in [taken -> Payloads],
         TakeRow(s, k, row)
  PROVE  DataInv'
<1> SUFFICES ASSUME NEW s2 \in Slaves, NEW k2 \in DOMAIN od[s2]
             PROVE  /\ data'[s2][k2] \in [DOMAIN od[s2][k2].entries -> Seq(Byte)]
                    /\ \A i \in DOMAIN od[s2][k2].entries :
                         Fits(od[s2][k2].entries[i], data'[s2][k2][i])
  BY DEF DataInv, Slaves, Fits
<1>1. /\ \A i \in taken : Fits(od[s][k].entries[i], row[i])
      /\ data' = [data EXCEPT ![s][k] = Overlaid(@, row)]
  BY DEF TakeRow
<1>2. DOMAIN data = Slaves /\ DOMAIN data[s] = DOMAIN od[s]
  BY DEF CacheInv, ShapeInv
<1>3. /\ data[s2][k2] \in [DOMAIN od[s2][k2].entries -> Seq(Byte)]
      /\ \A i \in DOMAIN od[s2][k2].entries : Fits(od[s2][k2].entries[i], data[s2][k2][i])
  BY DEF DataInv
<1>4. CASE s2 # s \/ k2 # k
  <2>1. data'[s2][k2] = data[s2][k2]
    BY <1>1, <1>2, <1>4
  <2> QED
    BY <1>3, <2>1
<1>5. CASE s2 = s /\ k2 = k
  <2>1. data'[s2][k2] = [i \in DOMAIN data[s2][k2] |->
                           IF i \in taken THEN row[i] ELSE data[s2][k2][i]]
    BY <1>1, <1>2, <1>5 DEF Overlaid
  <2>2. \A i \in taken : row[i] \in Seq(Byte)
    BY PayloadsAssumption
  <2> QED
    BY <1>1, <1>3, <1>5, <2>1, <2>2
<1> QED
  BY <1>4, <1>5

LEMMA DataStep ==
  ASSUME CacheInv, DataInv, [SdoNext]_sdoVars
  PROVE  DataInv'
<1>1. CASE SdoTryNew \/ SdoPtr \/ UNCHANGED sdoVars
  BY <1>1, DataKept DEF SdoTryNew, SdoPtr, Lives, sdoVars, slavesVars
<1>2. ASSUME NEW h \in Handles,
             \/ SdoEnter(h) \/ SdoDrop(h) \/ SdoLeakPtr(h)
             \/ SdoFromPtr(h) \/ SdoFromPtrWithCaches(h)
             \/ OtherCall(h) \/ Scan(h)
      PROVE  DataInv'
  <2>1. UNCHANGED <<slavesVars, written>>
    BY <1>2, Zenon DEF SdoEnter, SdoDrop, SdoLeakPtr, SdoFromPtr, SdoFromPtrWithCaches,
      OtherCall, Scan, Lives
  <2> QED
    BY <2>1, DataKept DEF slavesVars
<1>3. ASSUME NEW h \in Handles, NEW s \in Slaves, NEW idx \in Indexes,
             \/ ReadSdoComplete(h, s, idx)
             \/ \E j \in 1..MaxSub : ReadSdoEntry(h, s, idx, j)
      PROVE  DataInv'
  BY <1>3, ReadsKeep, DataKept
<1>4. ASSUME NEW h \in Handles, NEW s \in Slaves, NEW idx \in Indexes, NEW j \in 1..MaxSub,
             WriteSdo(h, s, idx, j)
      PROVE  DataInv'
  <2>1. \A k \in EntriesAt(s, idx, j) : k \in DOMAIN od[s]
    BY DEF EntriesAt, ObjectsAt
  <2>2. UNCHANGED od
    BY <1>4, Writes
  <2>3. CASE UNCHANGED <<data, written>>
    BY <2>2, <2>3, DataKept
  <2>4. ASSUME NEW k \in EntriesAt(s, idx, j), NEW taken \in SUBSET DOMAIN data[s][k],
               NEW row \in [taken -> Payloads], TakeRow(s, k, row)
        PROVE  DataInv'
    BY <2>1, <2>2, <2>4, RowWritten
  <2> QED
    BY <1>4, <2>3, <2>4, Writes, Zenon
<1>5. ASSUME NEW h \in Handles, NEW s \in Slaves, NEW idx \in Indexes, NEW j \in 1..MaxSub,
             NEW v \in Values, WriteSdoEntry(h, s, idx, j, v)
      PROVE  DataInv'
  <2>1. /\ \/ UNCHANGED <<data, written>>
           \/ Download(h, s, idx, j, ToBytes(v), {v})
        /\ UNCHANGED od
    BY <1>5, Zenon DEF WriteSdoEntry
  <2>2. ToBytes(v) \in Seq(Byte)
    BY ValuesAssumption DEF ToBytes, ValueType
  <2> QED
    BY <2>1, <2>2, DataKept, DataWritten
<1> QED
  BY <1>1, <1>2, <1>3, <1>4, <1>5 DEF SdoNext

LEMMA DataInvariant == SdoSpec => []DataInv
<1>1. CacheInv /\ DataInv /\ [SdoNext]_sdoVars => DataInv'
  BY DataStep
<1> QED
  BY <1>1, DataStart, CacheInvariant, PTL DEF SdoSpec

LEMMA ContentsShape ==
  ASSUME CacheInv, DataInv, NEW s \in Slaves, NEW k \in DOMAIN od[s]
  PROVE  /\ data[s][k] \in Seq(Seq(Byte))
         /\ Len(data[s][k]) = Len(od[s][k].entries)
         /\ DOMAIN data[s][k] = 1..Len(data[s][k])
         /\ DOMAIN data[s][k] = DOMAIN od[s][k].entries
<1>1. data[s][k] \in [DOMAIN od[s][k].entries -> Seq(Byte)]
  BY DEF DataInv
<1>2. /\ DOMAIN od[s][k].entries = 1..Len(od[s][k].entries)
      /\ Len(od[s][k].entries) \in Nat
  BY ObjectShape DEF CacheInv
<1> QED
  BY <1>1, <1>2

\* A described entry holds at most what it is described with.
LEMMA DescribedFits ==
  ASSUME CacheInv, DataInv, NEW s \in Slaves, NEW k \in DOMAIN od[s],
         NEW j \in DOMAIN od[s][k].entries, Described(od[s][k].entries[j]) # {}
  PROVE  /\ Len(data[s][k][j]) \in Nat /\ Cnt(Described(od[s][k].entries[j])) \in Nat
         /\ Len(data[s][k][j]) <= Cnt(Described(od[s][k].entries[j]))
<1> DEFINE e == od[s][k].entries[j]
           content == data[s][k][j]
<1>1. e.bits \in Nat
  BY ObjectShape DEF CacheInv
<1>2. e.type \in Types /\ Cnt(Described(e)) = byte_cnt(e.bits)
  BY <1>1, DescribedCnt
<1>3. content \in Seq(Byte) /\ Fits(e, content)
  BY DEF DataInv
<1> HIDE DEF e, content
<1>4. Len(content) \in Nat /\ byte_cnt(e.bits) \in Nat
  BY <1>1, <1>3, ByteCntType
<1>5. Len(content) <= byte_cnt(e.bits)
  BY <1>2, <1>3, <1>4 DEF Fits, Types, Width
<1> QED
  BY <1>2, <1>4, <1>5 DEF e, content

----------------------------------------------------------------------------
(* The answers of a slave, by its own descriptions.                        *)

Descriptions(s, k) == [j \in DOMAIN od[s][k].entries |-> Described(od[s][k].entries[j])]

LEMMA DescriptionsShape ==
  ASSUME od \in Ods, NEW s \in Slaves, NEW k \in DOMAIN od[s]
  PROVE  /\ Counted(Descriptions(s, k))
         /\ Len(Descriptions(s, k)) = Len(od[s][k].entries)
         /\ DOMAIN Descriptions(s, k) = 1..Len(od[s][k].entries)
         /\ \A j \in 1..Len(od[s][k].entries) :
              /\ Descriptions(s, k)[j] = Described(od[s][k].entries[j])
              /\ IsDescription(Descriptions(s, k)[j])
              /\ Descriptions(s, k)[j] = {} => Cnt(Descriptions(s, k)[j]) = 0
<1> DEFINE ds == Descriptions(s, k)
           m == Len(od[s][k].entries)
<1>1. /\ DOMAIN od[s][k].entries = 1..m /\ m \in Nat
      /\ \A j \in 1..m : od[s][k].entries[j].bits \in Nat
  BY ObjectShape
<1>2. DOMAIN ds = 1..m /\ \A j \in 1..m : ds[j] = Described(od[s][k].entries[j])
  BY <1>1 DEF Descriptions
<1>3. Len(ds) = m
  BY <1>1, <1>2 DEF Descriptions
<1>4. ASSUME NEW j \in 1..m
      PROVE  /\ IsDescription(ds[j]) /\ Cnt(ds[j]) \in Nat
             /\ ds[j] = {} => Cnt(ds[j]) = 0
  <2>1. IsDescription(ds[j]) /\ (ds[j] = {} => Cnt(ds[j]) = 0)
    BY <1>1, <1>2, DescribedCnt
  <2> QED
    BY <2>1, CntType
<1> HIDE DEF ds, m
<1>5. Counted(ds)
  BY <1>1, <1>2, <1>3, <1>4 DEF Counted
<1> QED
  BY <1>2, <1>3, <1>4, <1>5 DEF ds, m

\* A clean cache has them.
LEMMA OwnEntries ==
  ASSUME CacheInv, NEW h \in Handles, CleanCache(h), NEW s \in Slaves, NEW idx,
         NEW f \in Find(h, s, idx), NEW k \in ObjectsAt(s, idx)
  PROVE  sdos[h][s][f].entries = Descriptions(s, k)
<1>1. f \in ObjectsAt(s, idx)
  BY FindOwn
<1>2. f = k
  BY <1>1, OneObject DEF CacheInv
<1>3. sdos[h][s] = read_od_list(s)
  BY OwnDictionary
<1> QED
  BY <1>2, <1>3 DEF read_od_list, Descriptions, ObjectsAt

LEMMA OwnAnswerFits ==
  ASSUME CacheInv, DataInv, NEW s \in Slaves, NEW k \in DOMAIN od[s],
         NEW n \in 1..Len(data[s][k]), NEW padded \in BOOLEAN, ~(padded /\ n > 1),
         \A j \in DOMAIN data[s][k] :
           Described(od[s][k].entries[j]) = {} /\ data[s][k][j] # <<>> =>
             ~(Len(data[s][k][j]) > MaxCnt(Descriptions(s, k)))
  PROVE  ~(Len(CompleteAnswer(data[s][k], n, padded)) > BuffSize(Descriptions(s, k)))
<1> DEFINE contents == data[s][k]
           ds == Descriptions(s, k)
<1>1. /\ contents \in Seq(Seq(Byte)) /\ DOMAIN contents = 1..Len(contents)
      /\ Len(contents) = Len(od[s][k].entries)
      /\ DOMAIN contents = DOMAIN od[s][k].entries
  BY ContentsShape
<1>2. /\ Counted(ds) /\ Len(ds) = Len(contents)
      /\ \A j \in 1..Len(contents) : ds[j] = Described(od[s][k].entries[j])
  BY <1>1, DescriptionsShape DEF CacheInv
<1>3. /\ MaxCnt(ds) \in Nat
      /\ \A j \in 1..Len(contents) : Cnt(ds[j]) <= MaxCnt(ds)
  BY <1>2, LargestCnt
<1>4. ASSUME NEW j \in 1..Len(contents) PROVE Len(contents[j]) <= MaxCnt(ds)
  <2>1. contents[j] \in Seq(Byte) /\ Len(contents[j]) \in Nat
    BY <1>1
  <2>2. CASE ds[j] # {}
    <3>1. Len(contents[j]) <= Cnt(ds[j]) /\ Cnt(ds[j]) \in Nat
      BY <1>1, <1>2, <2>2, DescribedFits
    <3>2. Cnt(ds[j]) <= MaxCnt(ds)
      BY <1>3
    <3> HIDE DEF contents, ds
    <3> QED
      BY <1>3, <2>1, <3>1, <3>2
  <2>3. CASE contents[j] = <<>>
    <3>1. Len(contents[j]) = 0
      BY <2>3
    <3> HIDE DEF contents, ds
    <3> QED
      BY <1>3, <3>1
  <2>4. CASE ds[j] = {} /\ contents[j] # <<>>
    <3>1. ~(Len(contents[j]) > MaxCnt(ds))
      BY <1>1, <1>2, <2>4
    <3> HIDE DEF contents, ds
    <3> QED
      BY <1>3, <2>1, <3>1
  <2> QED
    BY <2>2, <2>3, <2>4
<1>5. n \in 1..Len(contents)
  OBVIOUS
<1> HIDE DEF contents, ds
<1>6. ~(Len(CompleteAnswer(contents, n, padded)) > BuffSize(ds))
  BY <1>1, <1>2, <1>4, <1>5, PartsFit
<1> QED
  BY <1>6 DEF contents, ds

LEMMA OwnAnswerDecodes ==
  ASSUME CacheInv, DataInv, NEW s \in Slaves, NEW k \in DOMAIN od[s],
         NEW n \in 1..Len(data[s][k]), NEW padded \in BOOLEAN, n = Len(data[s][k]),
         \A j \in DOMAIN data[s][k] :
           Described(od[s][k].entries[j]) # {} =>
             ~(Len(data[s][k][j]) < Cnt(Described(od[s][k].entries[j])))
  PROVE  Complete(Descriptions(s, k), CompleteAnswer(data[s][k], n, padded)) # "panic"
<1> DEFINE contents == data[s][k]
           ds == Descriptions(s, k)
<1>1. /\ contents \in Seq(Seq(Byte)) /\ DOMAIN contents = 1..Len(contents)
      /\ Len(contents) = Len(od[s][k].entries)
      /\ DOMAIN contents = DOMAIN od[s][k].entries
  BY ContentsShape
<1>2. /\ Counted(ds) /\ Len(ds) = Len(contents)
      /\ \A j \in 1..Len(contents) : /\ ds[j] = Described(od[s][k].entries[j])
                                     /\ ds[j] = {} => Cnt(ds[j]) = 0
  BY <1>1, DescriptionsShape DEF CacheInv
<1>3. ASSUME NEW j \in 1..Len(contents) PROVE Cnt(ds[j]) <= Len(contents[j])
  <2>1. contents[j] \in Seq(Byte) /\ Len(contents[j]) \in Nat /\ Cnt(ds[j]) \in Nat
    BY <1>1, <1>2 DEF Counted
  <2>2. ds[j] # {} => ~(Len(contents[j]) < Cnt(ds[j]))
    BY <1>1, <1>2
  <2> HIDE DEF contents, ds
  <2> QED
    BY <1>2, <2>1, <2>2
<1>4. n \in 1..Len(contents) /\ n = Len(contents)
  OBVIOUS
<1> HIDE DEF contents, ds
<1>5. Complete(ds, CompleteAnswer(contents, n, padded)) # "panic"
  BY <1>1, <1>2, <1>3, <1>4, WholeAnswerDecodes
<1> QED
  BY <1>5 DEF contents, ds

LEMMA OwnAnswerAgrees ==
  ASSUME CacheInv, DataInv, NEW s \in Slaves, NEW k \in DOMAIN od[s],
         NEW n \in 1..Len(data[s][k]), NEW padded \in BOOLEAN,
         n = Len(data[s][k]), ~(padded /\ n > 1),
         \A j \in DOMAIN data[s][k] :
           /\ Described(od[s][k].entries[j]) # {} =>
                ~(Len(data[s][k][j]) < Cnt(Described(od[s][k].entries[j])))
           /\ Described(od[s][k].entries[j]) = {} /\ data[s][k][j] # <<>> =>
                \A i \in DOMAIN data[s][k] : i > j => Described(od[s][k].entries[i]) = {}
  PROVE  [j \in DOMAIN Descriptions(s, k) |->
            ValueAt(Descriptions(s, k), CompleteAnswer(data[s][k], n, padded), j)]
           = [j \in DOMAIN data[s][k] |->
                Decode(Described(od[s][k].entries[j]), data[s][k][j])]
<1> DEFINE contents == data[s][k]
           ds == Descriptions(s, k)
<1>1. /\ contents \in Seq(Seq(Byte)) /\ DOMAIN contents = 1..Len(contents)
      /\ Len(contents) = Len(od[s][k].entries)
      /\ DOMAIN contents = DOMAIN od[s][k].entries
  BY ContentsShape
<1>2. /\ Counted(ds) /\ Len(ds) = Len(contents) /\ DOMAIN ds = DOMAIN contents
      /\ \A j \in 1..Len(contents) : /\ ds[j] = Described(od[s][k].entries[j])
                                     /\ ds[j] = {} => Cnt(ds[j]) = 0
  BY <1>1, DescriptionsShape DEF CacheInv
<1>3. ASSUME NEW j \in 1..Len(contents), ds[j] # {} PROVE Cnt(ds[j]) = Len(contents[j])
  <2>1. Len(contents[j]) \in Nat /\ Cnt(ds[j]) \in Nat /\ Len(contents[j]) <= Cnt(ds[j])
    BY <1>1, <1>2, <1>3, DescribedFits
  <2>2. ~(Len(contents[j]) < Cnt(ds[j]))
    BY <1>1, <1>2, <1>3
  <2> HIDE DEF contents, ds
  <2> QED
    BY <2>1, <2>2
<1>4. ASSUME NEW j \in 1..Len(contents), ds[j] # {}, NEW i \in 1..j
      PROVE  Cnt(ds[i]) = Len(contents[i])
  <2>1. i \in 1..Len(contents)
    BY <1>1
  <2>2. CASE ds[i] # {}
    BY <1>3, <2>1, <2>2
  <2>3. CASE ds[i] = {}
    <3>1. i # j /\ j > i
      BY <1>4, <2>3
    <3>2. contents[i] = <<>>
      BY <1>1, <1>2, <1>4, <2>1, <2>3, <3>1
    <3>3. Len(contents[i]) = 0 /\ Cnt(ds[i]) = 0
      BY <1>2, <2>1, <2>3, <3>2
    <3> QED
      BY <3>3
  <2> QED
    BY <2>2, <2>3
<1>5. n \in 1..Len(contents) /\ n = Len(contents)
  OBVIOUS
<1>6. \A j \in 1..Len(contents) :
        ValueAt(ds, CompleteAnswer(contents, n, padded), j) = Decode(ds[j], contents[j])
  <2> HIDE DEF contents, ds
  <2> QED
    BY <1>1, <1>2, <1>4, <1>5, PartByPart
<1> QED
  BY <1>1, <1>2, <1>6

----------------------------------------------------------------------------
(* What the last call says of the slave.                                   *)

\* The properties speak of the slave by what the call was for.
LEMMA AfterRead ==
  ASSUME UNCHANGED <<od, data>>, NEW s, NEW idx, got'.slave = s, got'.idx = idx
  PROVE  /\ ObjectsAt(got.slave, got.idx)' = ObjectsAt(s, idx)
         /\ DOMAIN od' = DOMAIN od
         /\ \A k : data'[got'.slave][k] = data[s][k]
         /\ \A k, j : /\ Description(k, j)' = Described(od[s][k].entries[j])
                      /\ Content(k, j)' = data[s][k][j]
  BY DEF ObjectsAt, Description, Described, Content

\* A property of the last call holds if it holds after the reads.
LEMMA UnchangedCalls ==
  ASSUME UNCHANGED sdoVars
  PROVE  /\ CompleteAgreesWithEntries => CompleteAgreesWithEntries'
         /\ PanicNeedsShortAnswer => PanicNeedsShortAnswer'
         /\ BufferSuffices => BufferSuffices'
<1>1. UNCHANGED <<od, data, scan, got>>
  BY DEF sdoVars, slavesVars, cacheVars
<1>2. /\ (Clean <=> Clean')
      /\ ObjectsAt(got.slave, got.idx)' = ObjectsAt(got.slave, got.idx)
      /\ data'[got'.slave] = data[got.slave]
      /\ \A k, j : Description(k, j)' = Description(k, j) /\ Content(k, j)' = Content(k, j)
      /\ \A k, j : Asked(k, j)' <=> Asked(k, j)
  BY <1>1 DEF Clean, Asked, Description, Content, ObjectsAt, Described
<1>3. \A k, j : (Short(k, j)' <=> Short(k, j)) /\ (Hidden(k, j)' <=> Hidden(k, j))
  BY <1>2 DEF Short, Hidden
<1>4. CompleteAgreesWithEntries => CompleteAgreesWithEntries'
  BY <1>1, <1>2, <1>3 DEF CompleteAgreesWithEntries
<1>5. PanicNeedsShortAnswer => PanicNeedsShortAnswer'
  BY <1>1, <1>2, <1>3 DEF PanicNeedsShortAnswer
<1>6. BufferSuffices => BufferSuffices'
  BY <1>1, <1>2, <1>3 DEF BufferSuffices
<1> QED
  BY <1>4, <1>5, <1>6

\* The result r is that of a complete access to object k, with the descriptions
\* of its slave, which has sent n entries.
Answers(r, s, k, n, padded) ==
  /\ r.whole = (n = Len(data[s][k])) /\ r.padded = (padded /\ n > 1)
  /\ Decoded(r, Descriptions(s, k), CompleteAnswer(data[s][k], n, padded))

LEMMA CleanAnswer ==
  ASSUME CacheInv, NEW h \in Handles, NEW s \in Slaves, NEW idx,
         ReadSdoComplete(h, s, idx), Clean', got'.outcome # "NotFound"
  PROVE  /\ UNCHANGED <<od, data>>
         /\ got'.name = "read_complete" /\ got'.slave = s /\ got'.idx = idx
         /\ \E k \in ObjectsAt(s, idx), padded \in BOOLEAN :
              \E n \in 1..Len(data[s][k]) : Answers(got', s, k, n, padded)
<1>1. UNCHANGED <<od, data, sdos, scan>> /\ got' # NoCall
  BY ReadsKeep DEF Clean
<1> DEFINE Answered(f, k, n, padded) ==
             /\ got'.whole = (n = Len(data[s][k])) /\ got'.padded = (padded /\ n > 1)
             /\ Decoded(got', sdos[h][s][f].entries, CompleteAnswer(data[s][k], n, padded))
<1>2. /\ got'.name = "read_complete" /\ got'.by = h
      /\ got'.slave = s /\ got'.idx = idx
      /\ got'.outcome # "NotFound" =>
           \E f \in Find(h, s, idx), k \in ObjectsAt(s, idx), padded \in BOOLEAN :
             \E n \in 1..Len(data[s][k]) : Answered(f, k, n, padded)
  BY <1>1, CompleteResult
<1>3. CleanCache(h)
  BY <1>1, <1>2 DEF Clean, CacheInv
<1> HIDE DEF Answered
<1>4. PICK f \in Find(h, s, idx), k \in ObjectsAt(s, idx), padded \in BOOLEAN :
        \E n \in 1..Len(data[s][k]) : Answered(f, k, n, padded)
  BY <1>2
<1>5. PICK n \in 1..Len(data[s][k]) : Answered(f, k, n, padded)
  BY <1>4
<1>6. sdos[h][s][f].entries = Descriptions(s, k)
  BY <1>3, OwnEntries
<1>7. Answers(got', s, k, n, padded)
  BY <1>5, <1>6 DEF Answers, Answered
<1> QED
  BY <1>1, <1>2, <1>7

LEMMA AgreesStep ==
  ASSUME CacheInv, DataInv, CompleteAgreesWithEntries, [SdoNext]_sdoVars
  PROVE  CompleteAgreesWithEntries'
<1>1. CASE got' = NoCall
  BY <1>1 DEF CompleteAgreesWithEntries, Clean
<1>2. ASSUME NEW h \in Handles, NEW s \in Slaves, NEW idx \in Indexes, NEW j,
             ReadSdoEntry(h, s, idx, j), got' # NoCall
      PROVE  CompleteAgreesWithEntries'
  <2>1. got'.name = "read_entry"
    BY <1>2, EntryResult
  <2> QED
    BY <2>1 DEF CompleteAgreesWithEntries
<1>3. ASSUME NEW h \in Handles, NEW s \in Slaves, NEW idx \in Indexes,
             ReadSdoComplete(h, s, idx)
      PROVE  CompleteAgreesWithEntries'
  <2> SUFFICES ASSUME Clean', got'.outcome = "Ok", got'.whole, ~got'.padded,
                      NEW k \in ObjectsAt(got.slave, got.idx)',
                      \A j \in DOMAIN data'[got'.slave][k] :
                        /\ ~Short(k, j)'
                        /\ Hidden(k, j)' => \A i \in DOMAIN data'[got'.slave][k] :
                                              i > j => Description(k, i)' = {}
               PROVE  got'.values = [j \in DOMAIN data'[got'.slave][k] |->
                                       Decode(Description(k, j)', Content(k, j)')]
    BY DEF CompleteAgreesWithEntries
  <2>1. /\ UNCHANGED <<od, data>> /\ got'.slave = s /\ got'.idx = idx
        /\ \E k2 \in ObjectsAt(s, idx), padded \in BOOLEAN :
             \E n \in 1..Len(data[s][k2]) : Answers(got', s, k2, n, padded)
    BY <1>3, CleanAnswer
  <2>2. k \in ObjectsAt(s, idx) /\ k \in DOMAIN od[s]
    BY <2>1, AfterRead DEF ObjectsAt
  <2>3. \A k2 \in ObjectsAt(s, idx) : k2 = k
    BY <2>2, OneObject DEF CacheInv
  <2>4. PICK padded \in BOOLEAN, n \in 1..Len(data[s][k]) : Answers(got', s, k, n, padded)
    BY <2>1, <2>3
  <2>5. got'.values = [j \in DOMAIN Descriptions(s, k) |->
                         ValueAt(Descriptions(s, k), CompleteAnswer(data[s][k], n, padded), j)]
    BY <2>4 DEF Answers, Decoded
  <2>6. \A j \in DOMAIN data[s][k] :
          /\ Described(od[s][k].entries[j]) # {} =>
               ~(Len(data[s][k][j]) < Cnt(Described(od[s][k].entries[j])))
          /\ Described(od[s][k].entries[j]) = {} /\ data[s][k][j] # <<>> =>
               \A i \in DOMAIN data[s][k] : i > j => Described(od[s][k].entries[i]) = {}
    BY <2>1, AfterRead DEF Short, Hidden
  <2>7. n = Len(data[s][k]) /\ ~(padded /\ n > 1)
    BY <2>4 DEF Answers
  <2>8. [j \in DOMAIN Descriptions(s, k) |->
           ValueAt(Descriptions(s, k), CompleteAnswer(data[s][k], n, padded), j)]
          = [j \in DOMAIN data[s][k] |-> Decode(Described(od[s][k].entries[j]), data[s][k][j])]
    BY <2>2, <2>6, <2>7, OwnAnswerAgrees
  <2> QED
    BY <2>1, <2>5, <2>8, AfterRead
<1> QED
  BY <1>1, <1>2, <1>3, OtherSteps, UnchangedCalls

\* A complete access finds what the accesses to the entries find, for any
\* dictionary, contents, and lengths.
THEOREM CompleteAgrees == SdoSpec => []CompleteAgreesWithEntries
<1>1. SdoInit => CompleteAgreesWithEntries
  BY DEF SdoInit, CompleteAgreesWithEntries, Clean
<1>2. CacheInv /\ DataInv /\ CompleteAgreesWithEntries /\ [SdoNext]_sdoVars
        => CompleteAgreesWithEntries'
  BY AgreesStep
<1> QED
  BY <1>1, <1>2, CacheInvariant, DataInvariant, PTL DEF SdoSpec

LEMMA PanicStep ==
  ASSUME CacheInv, DataInv, PanicNeedsShortAnswer, [SdoNext]_sdoVars
  PROVE  PanicNeedsShortAnswer'
<1>1. CASE got' = NoCall
  BY <1>1 DEF PanicNeedsShortAnswer, Clean
<1>2. ASSUME NEW h \in Handles, NEW s \in Slaves, NEW idx \in Indexes, NEW j,
             ReadSdoEntry(h, s, idx, j)
      PROVE  PanicNeedsShortAnswer'
  <2> SUFFICES ASSUME Clean', got'.outcome = "panic"
               PROVE  /\ got'.name = "read_entry"
                      /\ \E k \in ObjectsAt(got.slave, got.idx)' :
                           Asked(k, got.sub)' /\ Content(k, got.sub)' = <<>>
    BY DEF PanicNeedsShortAnswer
  <2>1. UNCHANGED <<od, data, sdos, scan>> /\ got' # NoCall
    BY <1>2, ReadsKeep DEF Clean
  <2>2. /\ got'.name = "read_entry"
        /\ got'.slave = s /\ got'.idx = idx /\ got'.sub = j
        /\ \E k \in EntriesAt(s, idx, j) : EntryDecoded(got', Info(h, s, idx, j), data[s][k][j])
    BY <1>2, <2>1, EntryResult
  <2>3. PICK k \in EntriesAt(s, idx, j) : data[s][k][j] = <<>>
    BY <2>2 DEF EntryDecoded
  <2>4. k \in ObjectsAt(s, idx) /\ j \in DOMAIN data[s][k]
    BY DEF EntriesAt
  <2>5. Asked(k, got.sub)'
    BY <2>1, <2>2, <2>4, AfterRead DEF Asked
  <2>6. Content(k, got.sub)' = <<>>
    BY <2>1, <2>2, <2>3 DEF Content
  <2> QED
    BY <2>1, <2>2, <2>4, <2>5, <2>6, AfterRead
<1>3. ASSUME NEW h \in Handles, NEW s \in Slaves, NEW idx \in Indexes,
             ReadSdoComplete(h, s, idx)
      PROVE  PanicNeedsShortAnswer'
  <2> SUFFICES ASSUME Clean', got'.outcome = "panic", got'.whole
               PROVE  /\ got'.name = "read_complete"
                      /\ \E k \in ObjectsAt(got.slave, got.idx)' :
                           \E j \in DOMAIN data'[got'.slave][k] : Short(k, j)'
    BY <1>3, CompleteResult DEF PanicNeedsShortAnswer, Clean
  <2>1. /\ UNCHANGED <<od, data>>
        /\ got'.name = "read_complete" /\ got'.slave = s /\ got'.idx = idx
        /\ \E k \in ObjectsAt(s, idx), padded \in BOOLEAN :
             \E n \in 1..Len(data[s][k]) : Answers(got', s, k, n, padded)
    BY <1>3, CleanAnswer
  <2>2. PICK k \in ObjectsAt(s, idx), padded \in BOOLEAN :
          \E n \in 1..Len(data[s][k]) : Answers(got', s, k, n, padded)
    BY <2>1
  <2>3. PICK n \in 1..Len(data[s][k]) : Answers(got', s, k, n, padded)
    BY <2>2
  <2>4. k \in DOMAIN od[s]
    BY DEF ObjectsAt
  <2>5. Complete(Descriptions(s, k), CompleteAnswer(data[s][k], n, padded)) = "panic"
    BY <2>3 DEF Answers, Decoded
  <2>6. n = Len(data[s][k])
    BY <2>3 DEF Answers
  <2>7. PICK j \in DOMAIN data[s][k] :
          /\ Described(od[s][k].entries[j]) # {}
          /\ Len(data[s][k][j]) < Cnt(Described(od[s][k].entries[j]))
    BY <2>4, <2>5, <2>6, OwnAnswerDecodes
  <2>8. Short(k, j)' /\ j \in DOMAIN data'[got'.slave][k]
    BY <2>1, <2>7, AfterRead DEF Short
  <2> QED
    BY <2>1, <2>8, AfterRead
<1> QED
  BY <1>1, <1>2, <1>3, OtherSteps, UnchangedCalls

\* A call with a clean cache panics on no slave that sends what it describes, for
\* any dictionary, contents, and lengths.
THEOREM PanicsOnShortAnswers == SdoSpec => []PanicNeedsShortAnswer
<1>1. SdoInit => PanicNeedsShortAnswer
  BY DEF SdoInit, PanicNeedsShortAnswer, Clean
<1>2. CacheInv /\ DataInv /\ PanicNeedsShortAnswer /\ [SdoNext]_sdoVars => PanicNeedsShortAnswer'
  BY PanicStep
<1> QED
  BY <1>1, <1>2, CacheInvariant, DataInvariant, PTL DEF SdoSpec

LEMMA BufferStep ==
  ASSUME CacheInv, DataInv, BufferSuffices, [SdoNext]_sdoVars
  PROVE  BufferSuffices'
<1>1. CASE got' = NoCall
  BY <1>1 DEF BufferSuffices, Clean
<1>2. ASSUME NEW h \in Handles, NEW s \in Slaves, NEW idx \in Indexes, NEW j,
             ReadSdoEntry(h, s, idx, j)
      PROVE  BufferSuffices'
  <2> SUFFICES ASSUME Clean', got'.outcome = "TooSmall" PROVE FALSE
    BY DEF BufferSuffices
  <2>1. UNCHANGED <<od, data, sdos, scan>> /\ got' # NoCall
    BY <1>2, ReadsKeep DEF Clean
  <2> DEFINE info == Info(h, s, idx, j)
  <2>2. /\ got'.by = h /\ info # {}
        /\ \E k \in EntriesAt(s, idx, j) : EntryDecoded(got', info, data[s][k][j])
    BY <1>2, <2>1, EntryResult
  <2>3. CleanCache(h)
    BY <2>1, <2>2 DEF Clean, CacheInv
  <2>4. PICK k \in EntriesAt(s, idx, j) : Len(data[s][k][j]) > Cnt(info)
    BY <2>2 DEF EntryDecoded
  <2>5. k \in ObjectsAt(s, idx) /\ k \in DOMAIN od[s] /\ j \in DOMAIN od[s][k].entries
    BY DEF EntriesAt, ObjectsAt, CacheInv, ShapeInv
  <2>6. info = Described(od[s][k].entries[j])
    BY <2>3, <2>5, InfoOwn
  <2>7. /\ Len(data[s][k][j]) \in Nat /\ Cnt(info) \in Nat
        /\ Len(data[s][k][j]) <= Cnt(info)
    BY <2>2, <2>5, <2>6, DescribedFits
  <2> HIDE DEF info
  <2> QED
    BY <2>4, <2>7
<1>3. ASSUME NEW h \in Handles, NEW s \in Slaves, NEW idx \in Indexes,
             ReadSdoComplete(h, s, idx)
      PROVE  BufferSuffices'
  <2> SUFFICES ASSUME Clean', got'.outcome = "TooSmall", ~got'.padded
               PROVE  \E k \in ObjectsAt(got.slave, got.idx)' :
                        LET descriptions == [j \in DOMAIN data'[got'.slave][k] |->
                                               Description(k, j)']
                        IN  \E j \in DOMAIN descriptions :
                              Hidden(k, j)' /\ Len(Content(k, j)') > MaxCnt(descriptions)
    BY <1>3, CompleteResult DEF BufferSuffices, Clean
  <2>1. /\ UNCHANGED <<od, data>> /\ got'.slave = s /\ got'.idx = idx
        /\ \E k \in ObjectsAt(s, idx), padded \in BOOLEAN :
             \E n \in 1..Len(data[s][k]) : Answers(got', s, k, n, padded)
    BY <1>3, CleanAnswer
  <2>2. PICK k \in ObjectsAt(s, idx), padded \in BOOLEAN :
          \E n \in 1..Len(data[s][k]) : Answers(got', s, k, n, padded)
    BY <2>1
  <2>3. PICK n \in 1..Len(data[s][k]) : Answers(got', s, k, n, padded)
    BY <2>2
  <2>4. k \in DOMAIN od[s]
    BY DEF ObjectsAt
  <2>5. /\ Len(CompleteAnswer(data[s][k], n, padded)) > BuffSize(Descriptions(s, k))
        /\ ~(padded /\ n > 1)
    BY <2>3 DEF Answers, Decoded
  <2>6. PICK j \in DOMAIN data[s][k] :
          /\ Described(od[s][k].entries[j]) = {} /\ data[s][k][j] # <<>>
          /\ Len(data[s][k][j]) > MaxCnt(Descriptions(s, k))
    BY <2>4, <2>5, OwnAnswerFits
  <2> DEFINE descriptions == [i \in DOMAIN data'[got'.slave][k] |-> Description(k, i)']
  <2>7. descriptions = Descriptions(s, k)
    <3>1. DOMAIN data'[got'.slave][k] = DOMAIN od[s][k].entries
      BY <2>1, <2>4 DEF CacheInv, ShapeInv
    <3>2. \A i : Description(k, i)' = Described(od[s][k].entries[i])
      BY <2>1, AfterRead
    <3> QED
      BY <3>1, <3>2 DEF Descriptions
  <2>8. Hidden(k, j)' /\ Content(k, j)' = data[s][k][j] /\ j \in DOMAIN descriptions
    BY <2>1, <2>6, AfterRead DEF Hidden
  <2>9. k \in ObjectsAt(got.slave, got.idx)'
    BY <2>1, AfterRead
  <2>10. /\ j \in DOMAIN descriptions
         /\ Hidden(k, j)' /\ Len(Content(k, j)') > MaxCnt(descriptions)
    <3> HIDE DEF descriptions
    <3> QED
      BY <2>6, <2>7, <2>8
  <2> QED
    BY <2>9, <2>10
<1> QED
  BY <1>1, <1>2, <1>3, OtherSteps, UnchangedCalls

\* The buffers are large enough for what a slave describes, for any dictionary,
\* contents, and lengths.
THEOREM BuffersSuffice == SdoSpec => []BufferSuffices
<1>1. SdoInit => BufferSuffices
  BY DEF SdoInit, BufferSuffices, Clean
<1>2. CacheInv /\ DataInv /\ BufferSuffices /\ [SdoNext]_sdoVars => BufferSuffices'
  BY BufferStep
<1> QED
  BY <1>1, <1>2, CacheInvariant, DataInvariant, PTL DEF SdoSpec

----------------------------------------------------------------------------
(* Types.                                                                  *)

\* Whatever a cache has, a dictionary in it is that of a slave.
LEMMA CachedDescriptions ==
  ASSUME CacheInv, NEW h \in Handles, NEW s, s \in DOMAIN sdos[h],
         NEW f \in DOMAIN sdos[h][s]
  PROVE  /\ Counted(sdos[h][s][f].entries)
         /\ \A j \in 1..Len(sdos[h][s][f].entries) : IsDescription(sdos[h][s][f].entries[j])
<1>1. sdos[h] \in Seq(Dictionaries)
  BY DEF CacheInv
<1>2. sdos[h][s] \in Dictionaries
  BY <1>1, Element
<1>3. PICK s2 \in Slaves : sdos[h][s] = read_od_list(s2)
  BY <1>2 DEF Dictionaries
<1>4. f \in DOMAIN od[s2] /\ sdos[h][s][f].entries = Descriptions(s2, f)
  BY <1>3 DEF read_od_list, Descriptions
<1> QED
  BY <1>4, DescriptionsShape DEF CacheInv

LEMMA InfoType ==
  ASSUME CacheInv, NEW h \in Handles, NEW s, NEW idx, NEW j, NEW d \in Info(h, s, idx, j)
  PROVE  d.type \in Types
<1>1. PICK k \in Find(h, s, idx) :
        j \in DOMAIN sdos[h][s][k].entries /\ d \in sdos[h][s][k].entries[j]
  BY DEF Info
<1>2. s \in DOMAIN sdos[h] /\ k \in DOMAIN sdos[h][s]
  BY DEF Find
<1>3. IsDescription(sdos[h][s][k].entries[j])
  BY <1>1, <1>2, CachedDescriptions DEF Counted
<1> QED
  BY <1>1, <1>3 DEF IsDescription

GotTypeOK ==
  got # NoCall =>
    /\ got.by \in Handles /\ got.outcome \in Outcomes
    /\ got.values \in Seq(SUBSET ValueType)

LEMMA GotTypeStep ==
  ASSUME CacheInv, DataInv, GotTypeOK, [SdoNext]_sdoVars
  PROVE  GotTypeOK'
<1>1. CASE UNCHANGED sdoVars
  BY <1>1 DEF sdoVars, GotTypeOK
<1>2. CASE got' = NoCall
  BY <1>2 DEF GotTypeOK
<1>3. <<>> \in Seq(SUBSET ValueType)
  OBVIOUS
<1>4. ASSUME NEW h \in Handles, NEW s \in Slaves, NEW idx \in Indexes, NEW j,
             ReadSdoEntry(h, s, idx, j), got' # NoCall
      PROVE  GotTypeOK'
  <2> DEFINE info == Info(h, s, idx, j)
  <2>1. /\ got'.by = h /\ got'.outcome \in Outcomes
        /\ got'.outcome = "NotFound" => got'.values = <<>>
        /\ got'.outcome # "NotFound" =>
             \E k \in EntriesAt(s, idx, j) : EntryDecoded(got', info, data[s][k][j])
    BY <1>4, EntryResult
  <2>2. CASE got'.outcome # "Ok"
    <3>1. got'.values = <<>>
      BY <2>1, <2>2 DEF EntryDecoded
    <3> QED
      BY <1>3, <2>1, <3>1 DEF GotTypeOK
  <2>3. CASE got'.outcome = "Ok"
    <3>1. PICK k \in EntriesAt(s, idx, j) : got'.values = <<Decode(info, data[s][k][j])>>
      BY <2>1, <2>3 DEF EntryDecoded
    <3>2. data[s][k][j] \in Seq(Byte)
      BY DEF DataInv, EntriesAt, ObjectsAt, CacheInv, ShapeInv
    <3>3. Decode(info, data[s][k][j]) \subseteq ValueType
      BY <3>2, InfoType, DecodeType
    <3>4. got'.values \in Seq(SUBSET ValueType)
      BY <3>1, <3>3
    <3> QED
      BY <2>1, <3>4 DEF GotTypeOK
  <2> QED
    BY <2>2, <2>3
<1>5. ASSUME NEW h \in Handles, NEW s \in Slaves, NEW idx \in Indexes,
             ReadSdoComplete(h, s, idx), got' # NoCall
      PROVE  GotTypeOK'
  <2> DEFINE Answered(f, k, n, padded) ==
               Decoded(got', sdos[h][s][f].entries, CompleteAnswer(data[s][k], n, padded))
  <2>1. /\ got'.by = h /\ got'.outcome \in Outcomes
        /\ got'.outcome = "NotFound" => got'.values = <<>>
        /\ got'.outcome # "NotFound" =>
             \E f \in Find(h, s, idx), k \in ObjectsAt(s, idx), padded \in BOOLEAN :
               \E n \in 1..Len(data[s][k]) : Answered(f, k, n, padded)
    BY <1>5, CompleteResult
  <2>2. CASE got'.outcome = "NotFound"
    BY <1>3, <2>1, <2>2 DEF GotTypeOK
  <2>3. CASE got'.outcome # "NotFound"
    <3> HIDE DEF Answered
    <3>1. PICK f \in Find(h, s, idx), k \in ObjectsAt(s, idx), padded \in BOOLEAN :
            \E n \in 1..Len(data[s][k]) : Answered(f, k, n, padded)
      BY <2>1, <2>3
    <3>2. PICK n \in 1..Len(data[s][k]) : Answered(f, k, n, padded)
      BY <3>1
    <3> DEFINE entries == sdos[h][s][f].entries
               raw == CompleteAnswer(data[s][k], n, padded)
    <3>3. Decoded(got', entries, raw)
      BY <3>2 DEF Answered
    <3>4. Counted(entries) /\ \A j \in 1..Len(entries) : IsDescription(entries[j])
      BY CachedDescriptions DEF Find
    <3>5. raw \in Seq(Byte)
      <4>1. data[s][k] \in Seq(Seq(Byte))
        BY ContentsShape DEF ObjectsAt
      <4> QED
        BY <4>1, SentParts
    <3> HIDE DEF entries, raw
    <3>6. CASE got'.outcome # "Ok"
      BY <1>3, <2>1, <3>3, <3>6 DEF Decoded, GotTypeOK
    <3>7. CASE got'.outcome = "Ok"
      <4>1. /\ Complete(entries, raw) = "Ok"
            /\ got'.values = [i \in DOMAIN entries |-> ValueAt(entries, raw, i)]
        BY <3>3, <3>7 DEF Decoded
      <4>2. \A i \in 1..Len(entries) : ValueAt(entries, raw, i) \subseteq ValueType
        BY <3>4, <3>5, <4>1, ValuesOfAnswer
      <4>3. DOMAIN entries = 1..Len(entries) /\ Len(entries) \in Nat
        BY <3>4 DEF Counted
      <4>4. got'.values \in Seq(SUBSET ValueType)
        BY <4>1, <4>2, <4>3
      <4> QED
        BY <2>1, <4>4 DEF GotTypeOK
    <3> QED
      BY <3>6, <3>7
  <2> QED
    BY <2>2, <2>3
<1> QED
  BY <1>1, <1>2, <1>4, <1>5, OtherSteps

LEMMA TypesTogether ==
  ASSUME HandlesTypeOK, CacheInv, DataInv, WrittenInv, GotTypeOK
  PROVE  SdoTypeOK
<1>1. ASSUME NEW s \in Slaves, NEW k \in DOMAIN od[s], NEW j \in DOMAIN data[s][k]
      PROVE  data[s][k][j] \in Contents(od[s][k].entries[j])
  <2>1. j \in DOMAIN od[s][k].entries
    BY DEF CacheInv, ShapeInv
  <2> QED
    BY <2>1 DEF DataInv, Contents
<1>2. ASSUME NEW h \in Handles, NEW i \in DOMAIN sdos[h]
      PROVE  \E s \in Slaves : sdos[h][i] = read_od_list(s)
  <2>1. sdos[h] \in Seq(Dictionaries)
    BY DEF CacheInv
  <2>2. sdos[h][i] \in Dictionaries
    BY <2>1, Element
  <2> QED
    BY <2>2 DEF Dictionaries
<1>3. \A w \in written : w.value \in ValueType
  BY DEF WrittenInv, Holds
<1> QED
  BY <1>1, <1>2, <1>3, Zenon DEF SdoTypeOK, CacheInv, GotTypeOK

\* The types of the Masters, of what the slaves hold, and of all results.
THEOREM SdoTypeCorrect == SdoSpec => []SdoTypeOK
<1>1. SdoInit => GotTypeOK
  BY DEF SdoInit, GotTypeOK
<1>2. CacheInv /\ DataInv /\ GotTypeOK /\ [SdoNext]_sdoVars => GotTypeOK'
  BY GotTypeStep
<1>3. HandlesTypeOK /\ CacheInv /\ DataInv /\ WrittenInv /\ GotTypeOK => SdoTypeOK
  BY TypesTogether
<1> QED
  BY <1>1, <1>2, <1>3, SdoImplementsHandles, HandlesTypeCorrect, CacheInvariant,
    DataInvariant, WrittenInvariant, PTL DEF SdoSpec
=============================================================================
