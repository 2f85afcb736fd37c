----------------------------- MODULE AutoConfig -----------------------------
(***************************************************************************)
(* Master::auto_config of src/lib.rs: the pipeline that detects the slaves *)
(* of the bus, maps their process data and fills the two caches of the     *)
(* Master, one SOEM call per step.  Every call can fail and make           *)
(* auto_config return early; the caller may then simply call it again, on  *)
(* the same bus or on one that has been rewired.                           *)
(*                                                                         *)
(*   sdos  one object dictionary per slave, pushed by scan_slave_objects   *)
(*   pdos  one PDO layout per slave, built by coe_pdo_info and assigned    *)
(*         only when the whole pass has succeeded                          *)
(*                                                                         *)
(* Both are indexed by slave position and carry no position of their own,  *)
(* so everything rests on their staying aligned with the slave list.       *)
(* Positions are 1-based here and 0-based in the code.                     *)
(***************************************************************************)
EXTENDS Naturals, Sequences

CONSTANTS
  Devices,      \* the kinds of device a bus can be built from
  NoDictionary, \* cached_sdo_entry found no dictionary for the position
  ObjCnt,       \* ObjCnt[d]: what d answers for object 0x1C00:0 (a u8)
  SmTypeId,     \* SmTypeId[d][sm]: the SMtype array SOEM filled for d
  BitLen,       \* BitLen[d]: the length of d's first mapped PDO entry
  MaxSlaves,    \* bound: slaves on a bus
  MaxCalls      \* bound: calls of auto_config

\* Sync managers as the wrapper numbers their types (ctx/slave.rs, sm_type).
SmTypeIds == 0..4

ASSUME ConstantsAssumption ==
  /\ NoDictionary \notin Devices
  /\ ObjCnt \in [Devices -> 0..255]
  /\ SmTypeId \in [Devices -> [0..7 -> 0..255]]
  /\ BitLen \in [Devices -> Nat]
  /\ MaxSlaves \in Nat /\ MaxCalls \in Nat

VARIABLES
  wired,        \* the devices on the bus now, in bus order
  slaves,       \* ctx.slave_list[1..slave_count], as config_init left it
  sdos,         \* Master.sdos: the device each dictionary was read from
  pdos,         \* Master.pdos: the layouts, see Layout
  found,        \* the local `res` of coe_pdo_info
  pc,           \* the call auto_config makes next, or "idle"
  next,         \* loop position of the two passes over the slaves
  result,       \* what the last call returned, "none" during a call
  calls,        \* calls made so far
  torn,         \* history: a scan stopped with the first fill incomplete
  moved         \* history: the bus was rewired after it had been detected

cache == <<sdos, pdos>>
history == <<calls, torn, moved>>
vars == <<wired, slaves, cache, found, pc, next, result, history>>

\* A PDO layout, with the position and the device it was read from and the
\* device whose dictionary described its entries.
Layout == [pos : Nat, dev : Devices, dict : Devices \cup {NoDictionary}]

Buses == UNION {[1..n -> Devices] : n \in 0..MaxSlaves}

DetectErrors == {"NoFrame", "OtherFrame", "NoSlaves"}
ScanErrors == {"ReadOdList", "ReadOdDesc", "ReadOeList"}
Errors == DetectErrors \cup ScanErrors
            \cup {"CfgDc", "CfgMapGroup", "ReadSdo", "InvalidSmType"}

PassOverSlaves == {"scan", "comm_type", "assign"}

----------------------------------------------------------------------------
(* What coe_pdo_info makes of one device's sync managers.                  *)

MAX_SM_CNT == 8

\* A device with no process data sync manager is passed over.
HasProcessData(d) == ObjCnt[d] > 2

SmCnt(d) == IF ObjCnt[d] - 1 > MAX_SM_CNT THEN MAX_SM_CNT ELSE ObjCnt[d] - 1

\* The SM type array has 8 elements; both a position beyond it and an
\* unknown type make the pass fail.
SmTypesReadable(d) ==
  \A sm \in 2..SmCnt(d) :
    sm \in DOMAIN SmTypeId[d] /\ SmTypeId[d][sm] \in SmTypeIds

\* Mutant: the 1-based position of the bus is taken for that of the cache.
CachedDictionary_BusPosition(i) ==
  IF i + 1 \in DOMAIN sdos THEN sdos[i + 1] ELSE NoDictionary

\* The dictionary in which the entries mapped at position i are looked up.
CachedDictionary(i) == IF i \in DOMAIN sdos THEN sdos[i] ELSE NoDictionary

----------------------------------------------------------------------------
Init ==
  /\ wired \in Buses
  /\ slaves = <<>> /\ sdos = <<>> /\ pdos = <<>> /\ found = <<>>
  /\ pc = "idle" /\ next = 1 /\ result = "none"
  /\ calls = 0 /\ torn = FALSE /\ moved = FALSE

\* The early return of `?` and of the failed checks: locals are dropped,
\* nothing that was already stored in the Master is undone.
ReturnErr(err) ==
  /\ pc' = "idle" /\ result' = err
  /\ found' = <<>> /\ next' = 1
  /\ UNCHANGED <<wired, cache, calls, moved>>

\* Does the slave detected at position i still answer?
Present(i) ==
  i \in DOMAIN slaves /\ i \in DOMAIN wired /\ wired[i] = slaves[i]

\* The application calls auto_config, for the first time or again.
Call ==
  /\ pc = "idle" /\ calls < MaxCalls
  /\ pc' = "config_init" /\ result' = "none" /\ calls' = calls + 1
  /\ UNCHANGED <<wired, slaves, cache, found, next, torn, moved>>

\* Mutant: the old layouts are dropped when the new slaves are known.
ConfigInit_DropsTable ==
  /\ pc = "config_init"
  /\ \/ /\ wired # <<>>
        /\ slaves' = wired /\ pdos' = <<>> /\ pc' = "config_dc"
        /\ UNCHANGED <<wired, sdos, found, next, result, history>>
     \/ /\ \E err \in DetectErrors : ReturnErr(err)
        /\ UNCHANGED <<slaves, torn>>

\* SOEM rebuilds the slave list; a failed detection may leave it empty.
ConfigInit ==
  /\ pc = "config_init"
  /\ \/ /\ wired # <<>>
        /\ slaves' = wired /\ pc' = "config_dc"
        /\ UNCHANGED <<wired, cache, found, next, result, history>>
     \/ /\ \E err \in DetectErrors : ReturnErr(err)
        /\ slaves' = <<>> \/ UNCHANGED slaves
        /\ UNCHANGED torn

\* Mutant: detection is repeated until the distributed clocks are found.
ConfigDc_Retries ==
  /\ pc = "config_dc"
  /\ pc' \in {"config_map", "config_init"}
  /\ UNCHANGED <<wired, slaves, cache, found, next, result, history>>

ConfigDc ==
  /\ pc = "config_dc"
  /\ \/ /\ pc' = "config_map"
        /\ UNCHANGED <<wired, slaves, cache, found, next, result, history>>
     \/ ReturnErr("CfgDc") /\ UNCHANGED <<slaves, torn>>

ConfigMapGroup ==
  /\ pc = "config_map"
  /\ \/ /\ pc' = "scan" /\ next' = 1
        /\ UNCHANGED <<wired, slaves, cache, found, result, history>>
     \/ ReturnErr("CfgMapGroup") /\ UNCHANGED <<slaves, torn>>

\* Mutant: the dictionary is inserted at the front.
ScanSlave_InFront ==
  /\ pc = "scan" /\ Present(next)
  /\ sdos' = <<slaves[next]>> \o sdos
  /\ next' = next + 1
  /\ UNCHANGED <<wired, slaves, pdos, found, pc, result, history>>

\* scan_slave_objects, one slave: read_od_list succeeds and its dictionary
\* is pushed, behind whatever the vector already holds.
ScanSlave ==
  /\ pc = "scan" /\ Present(next)
  /\ sdos' = Append(sdos, slaves[next])
  /\ next' = next + 1
  /\ UNCHANGED <<wired, slaves, pdos, found, pc, result, history>>

\* Mutants: the failing slave is passed over; a placeholder is pushed for it.
ScanFails_Continues ==
  /\ pc = "scan" /\ next \in DOMAIN slaves
  /\ next' = next + 1
  /\ UNCHANGED <<wired, slaves, cache, found, pc, result, history>>

ScanFails_Placeholder ==
  /\ pc = "scan" /\ next \in DOMAIN slaves
  /\ sdos' = Append(sdos, NoDictionary) /\ next' = next + 1
  /\ UNCHANGED <<wired, slaves, pdos, found, pc, result, history>>

\* The dictionaries pushed before the failing slave stay in the vector.
ScanFails ==
  /\ pc = "scan" /\ next \in DOMAIN slaves
  /\ \E err \in ScanErrors : ReturnErr(err)
  /\ torn' = (torn \/ Len(sdos) \in 1..(Len(slaves) - 1))
  /\ UNCHANGED slaves

ScanDone ==
  /\ pc = "scan" /\ next \notin DOMAIN slaves
  /\ pc' = "comm_type" /\ next' = 1 /\ found' = <<>>
  /\ UNCHANGED <<wired, slaves, cache, result, history>>

\* coe_pdo_info, the head of the loop body: read 0x1C00:0 and the SM types.
ReadSmCommType ==
  /\ pc = "comm_type" /\ next \in DOMAIN slaves
  /\ \/ /\ Present(next) /\ ~HasProcessData(slaves[next])
        /\ next' = next + 1
        /\ UNCHANGED <<wired, slaves, cache, found, pc, result, history>>
     \/ /\ Present(next) /\ HasProcessData(slaves[next])
        /\ SmTypesReadable(slaves[next])
        /\ pc' = "assign"
        /\ UNCHANGED <<wired, slaves, cache, found, next, result, history>>
     \/ /\ Present(next) /\ HasProcessData(slaves[next])
        /\ ~SmTypesReadable(slaves[next])
        /\ ReturnErr("InvalidSmType") /\ UNCHANGED <<slaves, torn>>
     \/ ReturnErr("ReadSdo") /\ UNCHANGED <<slaves, torn>>

\* The rest of the body: si_pdo_assign for every process data SM (module
\* PdoAssign has its steps), then res.push.
ReadPdoAssign ==
  /\ pc = "assign"
  /\ \/ /\ Present(next)
        /\ found' = Append(found, [pos  |-> next,
                                   dev  |-> slaves[next],
                                   dict |-> CachedDictionary(next)])
        /\ pc' = "comm_type" /\ next' = next + 1
        /\ UNCHANGED <<wired, slaves, cache, result, history>>
     \/ ReturnErr("ReadSdo") /\ UNCHANGED <<slaves, torn>>

\* Mutant: the layouts are added to those of earlier calls.
Finish_Extends ==
  /\ pc = "comm_type" /\ next \notin DOMAIN slaves
  /\ pdos' = pdos \o found
  /\ pc' = "idle" /\ result' = "Ok" /\ found' = <<>> /\ next' = 1
  /\ UNCHANGED <<wired, slaves, sdos, history>>

\* self.pdos = self.coe_pdo_info()?
Finish ==
  /\ pc = "comm_type" /\ next \notin DOMAIN slaves
  /\ pdos' = found
  /\ pc' = "idle" /\ result' = "Ok" /\ found' = <<>> /\ next' = 1
  /\ UNCHANGED <<wired, slaves, sdos, history>>

\* Somebody rewires the bus.  Slaves that are no longer where they were
\* detected do not answer any more.
Rewire ==
  /\ wired' \in Buses \ {wired}
  /\ moved' = (moved \/ slaves # <<>> \/ sdos # <<>>)
  /\ UNCHANGED <<slaves, cache, found, pc, next, result, calls, torn>>

\* The steps of a call in progress.
Step ==
  \/ ConfigInit \/ ConfigDc \/ ConfigMapGroup
  \/ ScanSlave \/ ScanFails \/ ScanDone
  \/ ReadSmCommType \/ ReadPdoAssign \/ Finish

Next == Call \/ Step \/ Rewire

Spec == Init /\ [][Next]_vars

\* Every SOEM call carries a timeout, so a call that has begun goes on.
FairSpec == Spec /\ WF_vars(Step)

----------------------------------------------------------------------------
(* Properties                                                              *)

\* Type invariant of the pipeline and its caches.
TypeOK ==
  /\ wired \in Seq(Devices) /\ slaves \in Seq(Devices) /\ sdos \in Seq(Devices)
  /\ pdos \in Seq(Layout) /\ found \in Seq(Layout)
  /\ pc \in {"idle", "config_init", "config_dc", "config_map"} \cup PassOverSlaves
  /\ next \in Nat \ {0}
  /\ result \in Errors \cup {"none", "Ok"}
  /\ calls \in Nat /\ torn \in BOOLEAN /\ moved \in BOOLEAN

\* On a bus that stays as it was detected, and unless the very first fill of
\* the cache was interrupted, the dictionary cached at a position is that of
\* the slave at that position: repeating auto_config, which pushes every
\* dictionary once more, or retrying after any other failure does not
\* misdirect cached_sdo_entry, read_sdo_entry and read_sdo_complete.
DictionariesAligned ==
  ~torn /\ ~moved =>
    \A i \in DOMAIN slaves \cap DOMAIN sdos : sdos[i] = slaves[i]

\* However the earlier calls ended, the PDO pass never runs ahead of the
\* dictionary scan: some dictionary is cached for every slave it visits.
ScanBeforePdos ==
  /\ pc \in {"comm_type", "assign"} => Len(slaves) <= Len(sdos)
  /\ \A k \in DOMAIN found : found[k].dict # NoDictionary

\* Inside one PDO pass, no entry is described by another slave's dictionary,
\* under the same provisos as DictionariesAligned.
DescribedByOwnDictionary ==
  ~torn /\ ~moved => \A k \in DOMAIN found : found[k].dict = found[k].dev

\* A successful call leaves position i of the PDO table to slave i, provided
\* every slave has process data.
PdosAlignedWhenAllMapped ==
  (result = "Ok" /\ \A i \in DOMAIN slaves : HasProcessData(slaves[i])) =>
    /\ Len(pdos) = Len(slaves)
    /\ \A i \in DOMAIN pdos : pdos[i].pos = i /\ pdos[i].dev = slaves[i]

\* auto_config implements its contract: the table is replaced in one step,
\* by the layouts of the slaves just detected, or not at all.
Contract == INSTANCE AutoConfigContract WITH
  Mapped  <- {d \in Devices : HasProcessData(d)},
  table   <- [k \in DOMAIN pdos |-> [pos |-> pdos[k].pos, dev |-> pdos[k].dev]],
  busy    <- (pc # "idle"),
  outcome <- result

ContractSafety == Contract!Safety

\* A call of auto_config returns, whatever the bus does meanwhile.
ContractReturns == Contract!Returns

----------------------------------------------------------------------------
(* What the repository says of the pipeline, and the code does not keep.   *)

\* lib.rs:350 asserts that the length an entry has in the PDO mapping is the
\* length the cached dictionary gives it.  Here only for a bus that nobody
\* rewires and whose devices agree with their own dictionaries.
BitLenAssertion ==
  ~moved => \A k \in DOMAIN found :
    found[k].dict # NoDictionary => BitLen[found[k].dev] = BitLen[found[k].dict]

\* error.rs:62 and lib.rs:863: a slave is reported as not found, or as one
\* without PDO meta data, when the table has no layout of it.  So a slave whose
\* layout the table holds is found at its position.
LayoutsFoundAtTheirSlave ==
  result = "Ok" => \A k \in DOMAIN pdos :
    pdos[k].pos \in DOMAIN pdos /\ pdos[pdos[k].pos].dev = pdos[k].dev

\* lib.rs:204: a slave with more sync managers than MAX_SM_CNT is limited to
\* that many.  So the call fails on SM types only if one of them is unknown.
TooManySmsAreLimited ==
  result = "InvalidSmType" =>
    \E i \in DOMAIN slaves : \E sm \in DOMAIN SmTypeId[slaves[i]] :
      SmTypeId[slaves[i]][sm] \notin SmTypeIds
============================================================================
