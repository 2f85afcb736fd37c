----------------------------- MODULE SdoAccess -----------------------------
(***************************************************************************)
(* The service data objects as the application reads and writes them:      *)
(* read_od_list, read_sdo_entry, read_sdo_complete, write_sdo and          *)
(* write_sdo_entry of src/lib.rs, by several Masters of one context        *)
(* (module Handles).                                                       *)
(*                                                                         *)
(* Each Master decodes what a slave answers by its own cache of object     *)
(* dictionaries, which auto_config has filled or from_ptr_with_caches has  *)
(* copied.  A call holds its Master exclusively and its only access to     *)
(* what others can change is one transfer, so it is one step, between      *)
(* Enter and Leave.  What the calls do to the list of errors is in module  *)
(* Exchange, what the PDO pass reads in module PdoAssign.                  *)
(***************************************************************************)
EXTENDS Handles, Conversions, FiniteSetsExt, SequencesExt

CONSTANTS
  Ods,       \* the buses: of each slave its objects, of each object its entries
  Indexes,   \* the indexes of objects, and
  MaxSub,    \* the number of subindexes that the application asks for
  Payloads,  \* what entries can contain
  Values,    \* what the application writes with write_sdo_entry
  MaxCache   \* bound: dictionaries in a cache

\* An entry as its slave describes it, and its value when the power comes on.
EntryDescriptions ==
  [type : Types \cup {"unknown"}, bits : Nat, first : Payloads, writable : BOOLEAN]

ASSUME BusesAssumption ==
  \A bus \in Ods :
    /\ bus \in Seq(Seq([idx : Indexes, entries : Seq(EntryDescriptions)]))
    /\ \A s \in DOMAIN bus : \A k, k2 \in DOMAIN bus[s] :
         bus[s][k].idx = bus[s][k2].idx => k = k2

\* What the slave can hold in an entry.
Fits(e, content) ==
  CASE e.type \in DOMAIN Width \cup {"Bit4"} -> Len(content) = byte_cnt(e.bits)
    [] e.type = "Raw" -> Len(content) <= byte_cnt(e.bits)
    [] OTHER -> TRUE

ASSUME ContentsAssumption ==
  \A bus \in Ods : \A s \in DOMAIN bus : \A k \in DOMAIN bus[s] :
    \A j \in DOMAIN bus[s][k].entries :
      Fits(bus[s][k].entries[j], bus[s][k].entries[j].first)
ASSUME PayloadsAssumption == Payloads \subseteq Seq(Byte)
ASSUME ValuesAssumption == Values \subseteq ValueType

VARIABLES
  od,       \* the bus
  data,     \* contents of the entries, by slave, object and subindex + 1
  sdos,     \* of each Master: its cache, the field sdos
  scan,     \* history: how the first fill of the cache went
  written,  \* history: the entry that was written last with a value of its type
  got       \* history: the read that has just returned

slavesVars == <<od, data>>
cacheVars == <<sdos, scan>>
sdoVars == <<handlesVars, slavesVars, cacheVars, written, got>>

Slaves == DOMAIN od

----------------------------------------------------------------------------
(* Dictionaries.                                                           *)

\* Option<SdoEntryInfo> of read_od_list: an entry with an unknown data type or
\* without length has no description.
Described(e) ==
  IF e.type \in Types /\ e.bits # 0 THEN {[type |-> e.type, bits |-> e.bits]} ELSE {}

\* read_od_list: all objects of a slave, with all their subindexes, the ones
\* without description included.
read_od_list(s) ==
  [k \in DOMAIN od[s] |->
     [idx     |-> od[s][k].idx,
      entries |-> [j \in DOMAIN od[s][k].entries |-> Described(od[s][k].entries[j])]]]

\* The first object of the cache with this index, if there is one.
Find(h, s, idx) ==
  IF s \notin DOMAIN sdos[h] THEN {}
  ELSE {k \in DOMAIN sdos[h][s] :
          /\ sdos[h][s][k].idx = idx
          /\ \A i \in 1..(k - 1) : sdos[h][s][i].idx # idx}

\* The description of a subindex; j is the subindex + 1.
Info(h, s, idx, j) ==
  UNION {sdos[h][s][k].entries[j] :
           k \in {k2 \in Find(h, s, idx) : j \in DOMAIN sdos[h][s][k2].entries}}

----------------------------------------------------------------------------
(* What a slave has at an index, and how it answers.                       *)

Contents(e) == {c \in Seq(Byte) : Fits(e, c)}

ObjectsAt(s, idx) == {k \in DOMAIN od[s] : od[s][k].idx = idx}

\* The entry at a subindex.
EntriesAt(s, idx, j) == {k \in ObjectsAt(s, idx) : j \in DOMAIN data[s][k]}

\* A complete access sends the entries in a row.  A slave may end after any of
\* them, and may put a byte behind subindex 0 to align the next one.
CompleteAnswer(contents, n, padded) ==
  LET aligned == [contents EXCEPT ![1] = Append(@, {})]
  IN  FlattenSeq(SubSeq(IF padded /\ n > 1 THEN aligned ELSE contents, 1, n))

----------------------------------------------------------------------------
(* What the Master makes of the answer.                                    *)

Cnt(info) == IF info = {} THEN 0 ELSE byte_cnt((CHOOSE d \in info : TRUE).bits)

MaxCnt(entries) == Max({Cnt(entries[j]) : j \in DOMAIN entries} \cup {0})

\* Mutant: room for what is described only, without the empty places.
BuffSize_Described(entries) ==
  MapThenSumSet(LAMBDA j : Cnt(entries[j]), DOMAIN entries)

\* The buffer of read_sdo_complete.
BuffSize(entries) == MaxCnt(entries) * Len(entries)

\* Mutant: the position does not advance.
BytePos_Stays(entries, j) == 0

\* byte_pos when the loop of read_sdo_complete comes to an entry.
BytePos(entries, j) ==
  LET byte_pos[i \in 0..Len(entries)] ==
        IF i = 0 THEN 0 ELSE byte_pos[i - 1] + Cnt(entries[i])
  IN  byte_pos[j - 1]

\* Mutant: the slice is one byte too long.
EndPos_Inclusive(entries, j) == BytePos(entries, j) + Cnt(entries[j]) + 1

EndPos(entries, j) == BytePos(entries, j) + Cnt(entries[j])

\* The value of an entry, or nothing if it cannot be converted.
Decode(info, raw) == UNION {ValueFromSlice(d.type, raw, 0) : d \in info}

ValueAt(entries, raw, j) ==
  Decode(entries[j], SubSeq(raw, BytePos(entries, j) + 1, EndPos(entries, j)))

\* The entries are converted one after the other: the first one that is not in
\* the answer panics, the first one that cannot be converted is an error.
Missing(entries, raw, j) == entries[j] # {} /\ EndPos(entries, j) > Len(raw)

Unfit(entries, raw, j) ==
  entries[j] # {} /\ ~Missing(entries, raw, j) /\ ValueAt(entries, raw, j) = {}

Complete(entries, raw) ==
  LET bad == {j \in DOMAIN entries : Missing(entries, raw, j) \/ Unfit(entries, raw, j)}
  IN  CASE bad = {} -> "Ok"
        [] bad # {} /\ Missing(entries, raw, Min(bad)) -> "panic"
        [] bad # {} /\ ~Missing(entries, raw, Min(bad)) -> "ValueConversion"

----------------------------------------------------------------------------
NoCall == [name |-> "none"]

\* A read that has returned; whole and padded tell how the slave has answered.
Result(name, h, s, idx, j) ==
  [name |-> name, by |-> h, slave |-> s, idx |-> idx, sub |-> j,
   outcome |-> "Ok", values |-> <<>>, whole |-> TRUE, padded |-> FALSE]

SdoInit ==
  /\ HandlesInit
  /\ od \in Ods
  /\ data = [s \in Slaves |-> [k \in DOMAIN od[s] |->
               [j \in DOMAIN od[s][k].entries |-> od[s][k].entries[j].first]]]
  /\ sdos = [h \in Handles |-> <<>>]
  /\ scan = [h \in Handles |-> "none"]
  /\ written = {}
  /\ got = NoCall

(* The life of the Masters.                                                *)

Lives(step) ==
  /\ step
  /\ got' = NoCall
  /\ UNCHANGED <<slavesVars, written>>

SdoTryNew == Lives(TryNew) /\ UNCHANGED cacheVars
SdoPtr == Lives(Ptr) /\ UNCHANGED cacheVars
SdoEnter(h) == Lives(Enter(h)) /\ UNCHANGED cacheVars
SdoDrop(h) == Lives(Drop(h)) /\ UNCHANGED cacheVars
SdoLeakPtr(h) == Lives(LeakPtr(h)) /\ UNCHANGED cacheVars

\* from_ptr: empty caches.
SdoFromPtr(g) == Lives(FromPtr(g)) /\ UNCHANGED cacheVars

\* from_ptr_with_caches: those of the Master it was made from, at that time.
SdoFromPtrWithCaches(g) ==
  /\ Lives(FromPtr(g))
  /\ InUse(Owner)
  /\ sdos' = [sdos EXCEPT ![g] = sdos[Owner]]
  /\ scan' = [scan EXCEPT ![g] = scan[Owner]]

\* A call that is none of those below. It returns, or panics as pdo_values and
\* set_pdo_value do at an index beyond a slice (module ProcessImage).
OtherCall(h) ==
  Lives(Leave(h) \/ LeaveEarly(h) \/ Unwind(h)) /\ UNCHANGED cacheVars

\* Mutant: a scan replaces the dictionaries there are.
Pushed_Replaces(h, n) == [s \in 1..n |-> read_od_list(s)]

\* scan_slave_objects pushes behind what is there.
Pushed(h, n) == sdos[h] \o [s \in 1..n |-> read_od_list(s)]

\* auto_config, whose scan comes as far as slave n.  Its counters overflow and its
\* assertion fails in a panic (modules PdoAssign, AutoConfig), and the cache goes
\* with its Master.  Only the owner calls it: a secondary Master would fill a
\* cache of its own in the same way.
Scan(h) ==
  /\ h = Owner
  /\ \/ Lives(Unwind(h)) /\ UNCHANGED cacheVars
     \/ \E n \in 0..Len(od) :
          /\ Len(sdos[h]) + n <= MaxCache
          /\ Lives(Leave(h))
          /\ sdos' = [sdos EXCEPT ![h] = Pushed(h, n)]
          /\ scan' = [scan EXCEPT ![h] =
                        IF sdos[h] # <<>> \/ n = 0 THEN @
                        ELSE IF n = Len(od) THEN "clean" ELSE "torn"]

----------------------------------------------------------------------------
(* Reading.                                                                *)

Keeps == UNCHANGED <<slavesVars, cacheVars, written>>

\* read_sdo fails: the slave refuses or does not answer, or its answer is longer
\* than the buffer, which is the same error with a warning.
ReadFails(h) == Leave(h) /\ got' = NoCall

TooSmall(h, result) ==
  Leave(h) /\ got' = [result EXCEPT !.outcome = "TooSmall"]

\* An empty answer fails a debug assertion, or is an error in a build without
\* them; either is possible here.
ReadSdoEntry(h, s, idx, j) ==
  LET info == Info(h, s, idx, j)
      result == Result("read_entry", h, s, idx, j)
  IN  /\ \/ /\ LeaveEarly(h)
            /\ info = {}
            /\ got' = [result EXCEPT !.outcome = "NotFound"]
         \/ ReadFails(h) /\ info # {}
         \/ /\ handle[h] = "calling" /\ info # {}
            /\ \E k \in EntriesAt(s, idx, j) :
                 LET raw == data[s][k][j]
                     value == Decode(info, raw)
                 IN  \/ Len(raw) > Cnt(info) /\ TooSmall(h, result)
                     \/ /\ raw = <<>> /\ Unwind(h)
                        /\ got' = [result EXCEPT !.outcome = "panic"]
                     \/ /\ Len(raw) <= Cnt(info) /\ Leave(h)
                        /\ got' = IF value = {}
                                  THEN [result EXCEPT !.outcome = "ValueConversion"]
                                  ELSE [result EXCEPT !.values = <<value>>]
      /\ Keeps

\* read_sdo_complete has an answer: it is refused, or decoded.
DecodeComplete(h, entries, raw, result) ==
  \/ Len(raw) > BuffSize(entries) /\ TooSmall(h, result)
  \/ /\ Len(raw) <= BuffSize(entries)
     /\ Complete(entries, raw) = "panic" /\ Unwind(h)
     /\ got' = [result EXCEPT !.outcome = "panic"]
  \/ /\ Len(raw) <= BuffSize(entries)
     /\ Complete(entries, raw) # "panic" /\ Leave(h)
     /\ got' = [result EXCEPT !.outcome = Complete(entries, raw),
          !.values = IF Complete(entries, raw) # "Ok" THEN <<>>
                     ELSE [i \in DOMAIN entries |-> ValueAt(entries, raw, i)]]

ReadSdoComplete(h, s, idx) ==
  LET result == Result("read_complete", h, s, idx, 1)
  IN  /\ \/ /\ LeaveEarly(h)
            /\ Find(h, s, idx) = {}
            /\ got' = [result EXCEPT !.outcome = "NotFound"]
         \/ ReadFails(h) /\ Find(h, s, idx) # {}
         \/ /\ handle[h] = "calling"
            /\ \E f \in Find(h, s, idx), k \in ObjectsAt(s, idx), padded \in BOOLEAN :
                 \E n \in 1..Len(data[s][k]) :
                   DecodeComplete(h, sdos[h][s][f].entries,
                     CompleteAnswer(data[s][k], n, padded),
                     [result EXCEPT !.padded = padded /\ n > 1,
                                    !.whole = (n = Len(data[s][k]))])
      /\ Keeps

----------------------------------------------------------------------------
(* Writing.                                                                *)

\* The slave takes the bytes, if they fit and the entry is writable, or refuses
\* them.
Download(h, s, idx, j, bytes, value) ==
  /\ Leave(h)
  /\ \/ UNCHANGED <<data, written>>
     \/ \E k \in EntriesAt(s, idx, j) :
          /\ od[s][k].entries[j].writable /\ Fits(od[s][k].entries[j], bytes)
          /\ data' = [data EXCEPT ![s][k][j] = bytes]
          /\ written' = {[slave |-> s, object |-> k, sub |-> j, value |-> v] :
                           v \in {v2 \in value : v2.type = od[s][k].entries[j].type}}

\* The entries that one transfer of write_sdo is for: the one at the subindex or,
\* with access_complete, all from there on.
Addressed(s, k, j, access_complete) ==
  {i \in DOMAIN data[s][k] : i = j \/ (access_complete /\ i > j)}

Overlaid(contents, row) ==
  [i \in DOMAIN contents |-> IF i \in DOMAIN row THEN row[i] ELSE contents[i]]

\* The slave takes the row, new contents of some entries of one object.
TakeRow(s, k, row) ==
  /\ \A i \in DOMAIN row : Fits(od[s][k].entries[i], row[i])
  /\ data' = [data EXCEPT ![s][k] = Overlaid(@, row)]
  /\ written' = {w \in written : w.slave = s /\ w.object = k => w.sub \notin DOMAIN row}

\* write_sdo, with any bytes.  A slave may refuse a complete access half way and
\* keep what it has taken; what it changes by itself looks the same.
WriteSdo(h, s, idx, j) ==
  /\ Leave(h)
  /\ \/ UNCHANGED <<data, written>>
     \/ \E k \in EntriesAt(s, idx, j), access_complete \in BOOLEAN :
          \E taken \in SUBSET {i \in Addressed(s, k, j, access_complete) :
                               od[s][k].entries[i].writable} :
            \E row \in [taken -> Payloads] : TakeRow(s, k, row)
  /\ got' = NoCall
  /\ UNCHANGED <<od, cacheVars>>

\* Mutant: the bytes of a value of several bytes go out in the other order.
ToBytes_Swapped(v) == Reverse(v.bytes)

\* value_to_bytes
ToBytes(v) == v.bytes

WriteSdoEntry(h, s, idx, j, v) ==
  /\ \/ ~Convertible(v) /\ LeaveEarly(h) /\ UNCHANGED <<data, written>>
     \/ Convertible(v) /\ Download(h, s, idx, j, ToBytes(v), {v})
  /\ got' = NoCall
  /\ UNCHANGED <<od, cacheVars>>

SdoNext ==
  \/ SdoTryNew \/ SdoPtr
  \/ \E h \in Handles :
       \/ SdoEnter(h) \/ SdoDrop(h) \/ SdoLeakPtr(h)
       \/ SdoFromPtr(h) \/ SdoFromPtrWithCaches(h)
       \/ OtherCall(h) \/ Scan(h)
       \/ \E s \in Slaves, idx \in Indexes :
            \/ ReadSdoComplete(h, s, idx)
            \/ \E j \in 1..MaxSub :
                 \/ ReadSdoEntry(h, s, idx, j) \/ WriteSdo(h, s, idx, j)
                 \/ \E v \in Values : WriteSdoEntry(h, s, idx, j, v)

SdoSpec == SdoInit /\ [][SdoNext]_sdoVars

----------------------------------------------------------------------------
(* Properties                                                              *)

Outcomes == {"Ok", "NotFound", "TooSmall", "ValueConversion", "panic"}

\* Type invariant of the Masters, the slaves and the results of the calls.
SdoTypeOK ==
  /\ HandlesTypeOK
  /\ od \in Ods
  /\ \A s \in Slaves, k \in UNION {DOMAIN od[s2] : s2 \in Slaves} :
       k \in DOMAIN od[s] =>
         \A j \in DOMAIN data[s][k] : data[s][k][j] \in Contents(od[s][k].entries[j])
  /\ \A h \in Handles : \A i \in DOMAIN sdos[h] : \E s \in Slaves : sdos[h][i] = read_od_list(s)
  /\ scan \in [Handles -> {"none", "clean", "torn"}]
  /\ \A w \in written : w.value \in ValueType
  /\ got # NoCall =>
       /\ got.by \in Handles /\ got.outcome \in Outcomes
       /\ got.values \in Seq(SUBSET ValueType)

\* The Master of the last call has a cache that a scan has filled completely
\* when it was empty, or a copy of such a cache.  What else was scanned, and
\* failed, before or after the copy does not matter.
Clean == got # NoCall /\ scan[got.by] = "clean"

\* What the slave has in the entry the last call was for, and in the object.
Asked(k, j) == k \in ObjectsAt(got.slave, got.idx) /\ j \in DOMAIN data[got.slave][k]
Description(k, j) == Described(od[got.slave][k].entries[j])
Content(k, j) == data[got.slave][k][j]

\* An entry with a description shorter than it says, and one without description
\* that holds something.
Short(k, j) ==
  Description(k, j) # {} /\ Len(Content(k, j)) < Cnt(Description(k, j))
Hidden(k, j) == Description(k, j) = {} /\ Content(k, j) # <<>>

\* No scan that follows, however far it comes, hides a described entry from a
\* Master whose cache was filled once, nor from one made with a copy of it.
CleanScanFinds ==
  Clean /\ got.outcome = "NotFound" =>
    \A k \in ObjectsAt(got.slave, got.idx) :
      got.name = "read_entry" /\ (Asked(k, got.sub) => Description(k, got.sub) = {})

\* A value that was written to an entry, by whatever Master, is what any Master
\* with a clean cache reads from it, until somebody changes the entry.
ReadsWhatWasWritten ==
  Clean /\ got.name = "read_entry" =>
    \A w \in written :
      LET asked == /\ w.slave = got.slave /\ w.sub = got.sub
                   /\ Asked(w.object, w.sub)
      IN  asked =>
            /\ got.outcome = "Ok" => got.values = <<{w.value}>>
            /\ got.outcome # "TooSmall"
            /\ got.outcome = "ValueConversion" => w.value.bytes = <<>>

\* read_sdo_complete finds in the answer what read_sdo_entry would read one by
\* one; if the slave sends all, without padding, no entry is shorter than
\* described, and nothing without description lies before an entry with one:
\* the loop does not advance over it.
CompleteAgreesWithEntries ==
  Clean /\ got.name = "read_complete" /\ got.outcome = "Ok" /\ got.whole /\ ~got.padded =>
    \A k \in ObjectsAt(got.slave, got.idx) :
      (\A j \in DOMAIN data[got.slave][k] :
         /\ ~Short(k, j)
         /\ Hidden(k, j) => \A i \in DOMAIN data[got.slave][k] :
                               i > j => Description(k, i) = {}) =>
        got.values = [j \in DOMAIN data[got.slave][k] |->
                        Decode(Description(k, j), Content(k, j))]

\* With a clean cache a call panics only on a slave that sends less than its
\* dictionary promises: an entry that is empty (with debug assertions) or
\* shorter than described, or a part of the object.  (For such data error.rs:52
\* has an error, which read_sdo_entry returns for a number that is too short.)
PanicNeedsShortAnswer ==
  Clean /\ got.outcome = "panic" =>
    \/ /\ got.name = "read_entry"
       /\ \E k \in ObjectsAt(got.slave, got.idx) :
            Asked(k, got.sub) /\ Content(k, got.sub) = <<>>
    \/ /\ got.name = "read_complete"
       /\ ~got.whole \/ \E k \in ObjectsAt(got.slave, got.idx) :
                          \E j \in DOMAIN data[got.slave][k] : Short(k, j)

\* With a clean cache the buffer is large enough for what the slave has at the
\* index, unless it pads or hides more than the largest described entry.
BufferSuffices ==
  Clean /\ got.outcome = "TooSmall" =>
    /\ got.name = "read_complete"
    /\ \/ got.padded
       \/ \E k \in ObjectsAt(got.slave, got.idx) :
            LET descriptions == [j \in DOMAIN data[got.slave][k] |-> Description(k, j)]
            IN  \E j \in DOMAIN descriptions :
                  Hidden(k, j) /\ Len(Content(k, j)) > MaxCnt(descriptions)
=============================================================================
