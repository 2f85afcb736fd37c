# A verification of ethercat-soem in TLA+

`ethercat-soem` is a Rust binding to SOEM, a C implementation of an EtherCAT
master. This directory holds TLA+ modules that model its logic, TLC
configurations that check them, and proofs for TLAPS. Paths below are relative
to the repository's root; line numbers refer to `src/lib.rs` unless another
file is named.

## The system

| part | state | operations |
|---|---|---|
| `Master` (`src/lib.rs`) | a boxed `Ctx`; `sdos`, the object dictionary of each slave; `pdos`, the PDO layout of each slave | `auto_config`, process data, AL states, SDO access, PDO values, raw pointer helpers |
| conversions (`src/util.rs`) | none | `value_from_slice`, `value_to_bytes` |
| errors (`src/error.rs`, `src/al_status.rs`) | none | the outcomes of all calls |
| `Ctx` (`ethercat-soem-ctx/src/lib.rs`) | slave list with entry 0 for all slaves, group list, SOEM's error list, the 4096 byte I/O map | one method per SOEM function |
| `Slave`, `Group`, `Sm`, `OdList`, `OeList`, `Error` (`ethercat-soem-ctx/src`) | views of SOEM's structures | getters; `outputs`, `outputs_mut`, `inputs` slice the I/O map |
| `ethercat-soem-sys` | none | generated bindings to SOEM, which is a git submodule and external |
| `examples/` | none | `simple` (start-up and cyclic exchange), `read_sdo` (two threads on one context), `read_od_list` |

How they interact: the application calls a `Master`; the `Master` calls
SOEM through `Ctx`, one blocking call after the other, each bounded by a timeout,
and looks at its return value, at the slave list or at SOEM's error list.
There are no callbacks. All coupling between calls is through state that they
share:

* `sdos` and `pdos` are vectors indexed by slave position which carry no
  position of their own. `auto_config` fills them, `set_pdo_value`,
  `pdo_values`, `read_sdo_entry` and `read_sdo_complete` index them.
* The I/O map is shared by the slaves' outputs and inputs, small slaves share
  bytes of it.
* SOEM's error list is shared by all calls: `send_processdata` and
  `recv_processdata` do not look at the result of their call but at
  whether the list is empty. Calls that fail drain it, most of them only if the program
  logs at level debug, because the draining call is an argument of `log::debug!`.
* The states in the slave list are both what was requested and what was read.
* `Master::ptr` and `Master::from_ptr` make a second `Master` on the same context, in
  `examples/read_sdo.rs` one in another thread.

What is hard: calls that fail half way and are repeated; caches that fall out of step
with the slave list; `u8` counters carried across loops and truncated; bit
offsets; stale errors and states; two handles whose calls interleave, and who of
them frees the context, also when a panic unwinds. The hazards are listed one by one, with their lines and the properties that watch
them, in `PROJECT.json`.

What makes each part correct:

* **auto_config**: table and caches are indexed by the position of the slave they
  describe; a failed call leaves the table alone; the scan is complete before the PDO
  pass uses it; every call returns.
* **PDO layout**: entries do not overlap, positions are unique and in bus order,
  counters do not overflow silently.
* **process image**: what is set is read back; a write stays in its slave.
* **exchange**: an error is reported for the call it belongs to, or at least
  not for ever; reported states were read from the slaves; a broadcast asks for
  what the caller asked.
* **SDO access**: an answer is decoded by the right dictionary, in bounds; what was
  written is read back.
* **ownership**: the context is freed once, after the last use.
* **start-up program** (`examples/simple.rs`): it goes into its cycles knowing what
  the slaves are in, and it ends.

## Modules

| module | models | extends / uses |
|---|---|---|
| `AutoConfig` | `auto_config`, `scan_slave_objects`, the loop of `coe_pdo_info` over the slaves | |
| `AutoConfigContract` | abstract: what `auto_config` promises about the PDO table | instantiated by `AutoConfig` |
| `PdoAssign` | the body of that loop for one slave: `coe_pdo_info`, `si_pdo_assign` | is the step `ReadPdoAssign` of `AutoConfig` |
| `Conversions` | `util.rs`: `value_from_slice`, `value_to_bytes`, and `byte_cnt` | |
| `ProcessImage` | `set_pdo_value`, `pdo_values`, `Slave::outputs` and `inputs` | extends `Conversions` |
| `Exchange` | process data, AL states and mailbox calls of several handles, with the error list | |
| `Handles` | `try_new`, `ptr`, `from_ptr`, `leak_ptr`, and the end of a `Master` by drop or panic | |
| `SdoAccess` | the dictionaries each `Master` caches, SDO reads and writes that use them | extends `Handles` and `Conversions` |
| `StartUp` | the program of `examples/simple.rs` | extends `Exchange` |
| `MC...` | the instances TLC checks | |
| `..._proofs` | theorems and their TLAPS proofs | |

### AutoConfig

`slaves`, `sdos`, `pdos` are the slave list and the two caches; `found` is the
local `res` of `coe_pdo_info`, `pc` and `next` say where the call is. A device
is a model value; what the code reads from it is given by the constants `ObjCnt`
(object 0x1C00:0), `SmTypeId` (SOEM's SM types) and `BitLen`. Each SOEM call is an
action with its failing outcomes (`ReturnErr`): the locals are dropped, stored
state is kept. `ScanSlave` is a whole `read_od_list` that succeeds, `ScanFails` one
that fails at any of its reads. `Call` is the application calling again, `Rewire` somebody
changing the bus at any moment; a slave that is no longer where it was detected
does not answer.

Two history variables state the provisos of the cache properties: `torn` (a scan
failed while the first fill of `sdos` was incomplete) and `moved` (the bus
changed after a detection). Without them the properties are false, which is
what `AutoConfigBitLen` shows.

Abstractions: `group_outputs_wkc(0)` in line 170 cannot fail, because SOEM's
`maxgroup` is set to the length of the list (ctx/lib.rs:100) and group 0 exists;
logging and the draining of the error list on failure are left to
`Exchange`; the debug assertion of line 350 is not a panic here but the property
`BitLenAssertion`.

### AutoConfigContract

`table` is either replaced in one step by the layouts of exactly the
slaves with process data, in bus order (`Commit`), or left alone (`Abort`).
`AutoConfig!Contract` maps `pdos` to `table`, `pc # "idle"` to `busy` and
`result` to `outcome`; loop steps stutter.

### PdoAssign

The three nested loops as one step per read. `W` is the number of values of
the `u8` counters, `Checked` the build: with overflow checks an operation whose
result is not below `W` panics, without them it wraps. Counts and lengths are chosen by the slave.
PDOs and entries are kept flat in the order of `pdo_info`; `pdoMark` and
`entryMark` cut off what belongs to the call of `si_pdo_assign` for the current
sync manager. The dictionary lookups only matter for the name and type of an entry
and, in a debug build, for the assertion of line 350 (`LengthAssertionFails`).

### ProcessImage

A byte is the set of its set bits. `bus` is what `auto_config` has left behind:
areas of the I/O map and the PDO table, which need not fit each other. `Set` is any call of
`set_pdo_value`, with every early return, the bit branch and the byte branch, which
writes up to the index that panics. `U8` stands for all types of one byte,
`U16` for all of several (an empty value takes no index and changes nothing, wherever the entry points), `Raw` for byte arrays and entries without description, `Bit4`
for the types without conversion. `Receive` is the copy of inputs by
SOEM. `PdoValues` says whether the call panics; what it returns for an entry is
`ValueOf`. The vectors it nests the values in are not modelled.
`last` and `foreign` are history. `SoundBus` is the precondition of the
properties about values: areas as SOEM lays them out, entries inside their area and disjoint (which
`PdoAssign` establishes with `EntriesDisjoint`). `foreign` counts values of
a type or length other than their entry's: those are accepted by the code and
overwrite the neighbours, so `ReadBack` and `NoPanic` speak of histories without them. These provisos leave to no property what
happens with a stale table, a value of another type or a mapping entry of length 0: the hazards say so one by one.

### Exchange

Each handle has a `frame`: the locals of the method it runs or has run last. A
step is one SOEM call or one access of the wrapper to the context, so calls of
different handles interleave between them. The slave list `listed` has an entry for every slave and entry 0 for all of them, and the loops over
it go entry by entry (`next`): `SetState` is one turn of the loop of `request_states`, `Collect` one of `states`. `overwritten` is
history: the entries that another handle has written to although the call had written or refreshed them and was still to read them (`Pending`).
What `states` and `request_states` promise is promised for all other entries, so a call that was disturbed in one place still has to be right in the rest. That SOEM's calls themselves are
atomic is an assumption: SOEM protects its socket with a mutex, but not its error list
or the slave list, so a data race inside a call is not modelled. An
AL status is the set of its bits, because a broadcast read returns the union of
the statuses. Errors carry the number of their occurrence. Two checks of SOEM are modelled from
outside: its list drops the oldest error when it is full, `ecx_readstate` gives the lowest state.

`DebugLog` says whether level debug is logged. `read_sdo`, `write_sdo` and `write_sdo_entry` call
`ctx_errors` first and log its result; everywhere else the call is an argument of `log::debug!` and not
made at the other levels (`Drains`). `AlarmsBounded` therefore speaks of debug logging, and
`AlarmsFollowErrors` is the same without, which the code does not keep.

### Handles

A `Master` is `"none"`, `"idle"`, `"calling"` or `"gone"`; `frees` counts how often the one `Box<Ctx>`
was freed. `Drop` is a `Master` going out of scope between two calls, also when its caller
panics there (`examples/read_sdo.rs` unwraps the results), `Unwind` a panic inside a call,
`LeakPtr` the one way to end a `Master` without freeing. After the first use
of a freed context the model stops, because anything may follow. `broken` is history: in which way the rule in
the comment of `leak_ptr` was broken. Without that proviso the properties are false, as the hidden docs of
these functions say ("Don't use this!").

### SdoAccess

Every `Master` of `Handles` gets a cache `sdos`, filled by `Scan` (as far as the scan came), empty after `from_ptr`,
copied by `from_ptr_with_caches`. A slave is its object dictionary `od`, which it describes in `read_od_list`,
and the contents `data` of its entries. A call is `Enter` and one step that makes the one transfer and
the decoding; `LeaveEarly` are returns before the context is used, `Unwind` panics of the decoding. A call of another
module (`OtherCall`) or a scan may panic, too, as those modules show. An entry's
description is a set of at most one, so that an entry of unknown type is `{}` and nothing is looked up by an
undefined function.

`WriteSdo` writes any bytes to one entry or, with `access_complete`, to several entries of an object in one transfer, of which a slave may keep a part when it
refuses (`TakeRow`). Slaves are the environment: they refuse or time out (`ReadFails`), change entries by themselves (which looks like `WriteSdo`), end a complete answer after any entry or put a byte of padding behind subindex 0 (`CompleteAnswer`). `scan`, `written` and `got` are
history. The value properties speak of a `Clean` cache; `AutoConfig` shows when a cache is not.
`PanicNeedsShortAnswer` is the limit of what the code promises: on a slave that sends less than its dictionary says,
`read_sdo_complete` panics at the slice of line 749. The property allows that and excludes every other cause; error.rs:52 would have an error for it.

### StartUp

`line` is the call the program makes when the one in progress has returned. All calls are
actions of `Exchange`, so errors left in the list, states and broadcasts behave as there. A call
that fails ends the program (`GiveUp`), as `?` does. `met` is history: the slaves at
the last call that looked at them. `auto_config` is over when the model begins; the errors it may leave in the
list are those `read_od_list` may leave. `FailureHasCause` has to allow the program to end because slaves are in different states,
even if they are only on their way to OP: the union of SAFE_OP and OP is no state to `check_states`, which fails on it.

## Runs

All passing runs check every conjunct under the bounds below; the violation runs
each show one disagreement between the code and what the repository says of it.

| run | asks | bounds |
|---|---|---|
| `AutoConfig` | alignment of the caches over several calls, failures and rewiring; refinement of the contract; each call returns | 2 slaves, 3 calls, kinds: drive (mapped), coupler (not mapped), gateway (fails on its SM types) |
| `AutoConfigBitLen` | violation: line 350 asserts equal lengths | 2 slaves, 2 calls |
| `AutoConfigLayouts` | violation: layouts are found at their slave (error.rs:62, line 863) | 2 slaves, 1 call |
| `AutoConfigManySms` | violation: line 204 limits the number of sync managers | 2 slaves, 1 call |
| `PdoAssign` | exact positions or a panic in a checked build, offsets and wrapped positions in any build, end of the pass | `W` = 3, both builds, three sync managers in three orders of types |
| `ProcessImage` | read back, no panic, containment | bytes of 2 bits, 5 buses, 6 bytes, 9 values, 1 unsuitable value |
| `ProcessImageStartBit` | violation: ctx/slave.rs:84 start bit | two one-bit slaves in a byte |
| `Exchange` | the error list, states and broadcasts under interleaving | 2 handles, 2 slaves in 2 statuses each, 3 errors, list of 2 |
| `ExchangeWkc` | violation: error.rs:26 | likewise, 2 errors |
| `ExchangeSilent` | violation: error.rs:24, error.rs:26 | likewise, 2 errors, without debug logging |
| `SdoAccess` | ownership, lookup, decoding, panics and buffers of two `Master`s | bytes of 1 bit, 2 buses of 2 slaves with up to 3 entries, 5 payloads, 8 values, caches of 3 dictionaries |
| `StartUp` | what the start-up loop knows when it ends, causes of failure, end of the program | 2 slaves in 4 statuses, 2 errors, 2 rounds, 2 cycles |

Why the bounds are enough. *AutoConfig*: a misaligned cache needs an interrupted
first fill, so two calls and two slaves; the third call lets an error follow
a success and a failure in either order. *PdoAssign*: with three values
a counter wraps inside an SM, at its end and in the sum of two; lengths 4 and
12 begin and end within a byte and cross one. *ProcessImage*: two bits to a
byte give bit neighbours, two-byte values reach over an area's end. The five buses are the sound one, a shifted
table (`AutoConfigLayouts`), a stale one, a slave of less than a byte and one with two sync managers for outputs, whose entries
lie on each other. *Exchange*: two
handles are what `examples/read_sdo.rs` has. Two slaves are enough to disturb a loop between its entries. `Statuses` are given slave by slave: one slave falls back to
SAFE_OP with an error indication, the other stops answering, so every way for a state call to fail happens but one, a bus on which nobody answers, which `StartUp.cfg` has.
With three errors and a list of two, one error is older and one younger than a failure, and the oldest one of a full list is dropped
(3.0 million states, two minutes). `SYMMETRY`, over the handles only, is sound there: no liveness is checked. The slaves are not symmetric, their entries are visited in order. *SdoAccess*: one bus has the same index with different entries at both
slaves, so that the wrong dictionary shows; the other has an undescribed entry between two
described ones and an object of a type without conversion. A cache of three dictionaries
holds a full scan and the beginning of a second one, or a torn one and its repetition. *StartUp*: the first
round, the last one and a cycle after each; four statuses make every union `check_states` can
take for a state, for none or for an error. *SdoAccess* writes to entries that share an object, so a complete write changes some of them and not others.

What the provisos of a property leave out is named where the hazard is listed (`note` in `PROJECT.json`): a torn first fill and a rewired bus (`AutoConfig`),
dropped PDOs and a second sync manager of one direction (`PdoAssign`), unsound buses and unsuitable values (`ProcessImage`), overwritten entries
(`Exchange`), padded and hidden parts of answers (`SdoAccess`), programs that break the rule of `leak_ptr` (`Handles`). A torn first fill and an unsound
table are violation runs of their own (`AutoConfigBitLen`, `AutoConfigLayouts`); for the others the repository promises nothing that could be checked.

`CHECK_DEADLOCK FALSE` stands in `PdoAssign.cfg`, because the pass over a slave
ends, and in `SdoAccess.cfg`, because all `Master`s can be gone. `MaxCalls`, `MaxErrors`, `MaxForeign` and `MaxCache` are bounds of the runs; `MaxSlaves` is the length of a bus.

**Fairness.** `AutoConfig!FairSpec` has `WF_vars(Step)`: a call in progress goes
on. This is justified because every SOEM call carries a timeout and the code is
sequential; nothing is assumed about when the application calls, about any
particular outcome, or about the bus. `PdoAssign!FairSpec` has `WF_vars(Next)` for the
same reason, and so has `StartUp!FairProgramSpec` `WF_programVars(ProgramStep)`: the program goes on, the slaves
need not do anything. `Exchange`, `ProcessImage`, `Handles` and `SdoAccess` have none: they have no liveness property.

## Proofs

The theorems hold for every value of the constants, under the assumptions each
module names (`ConstantsAssumption`, `WidthAssumption`, ...). `ContentsAssumption` of `SdoAccess` says that the contents a
slave begins with fit its own description, as `WriteSdo` and `Contents` do for those it gets later. TLC evaluates these in the runs.

`AutoConfig_proofs`
* `TypeCorrect`, then two inductive invariants on top of it. `CacheIInv` serves
  `DictionariesAligned`, `ScanBeforePdos` and `DescribedByOwnDictionary`.
  Alignment is not inductive by itself: repeated scans push behind a full
  cache, so `PassInv` says how many dictionaries there are while the scan
  is at `next` and `CacheInv` that, untorn and unmoved, the cache is empty or
  begins with one dictionary per slave; `FoundInv` carries the consequence
  to the layouts found so far.
* `TableIInv` serves `PdosAlignedWhenAllMapped` and the refinement: `PartialInv` (what has been found so far
  are the layouts of exactly the mapped slaves before `next`), `DenseInv` (one per slave if all are mapped) and
  `CommittedInv` (the table while `result` is `"Ok"`).
* `AutoConfigImplementsContract`: initial states map to initial states, each
  action to an action of the contract or a stutter; `Finish` needs `PartialInv`.

`PdoAssign_proofs`
* `TypeCorrect`, then one inductive invariant per subject. `VisitInv` (no sync manager is visited twice) with `OffsetInv`
  (`bitOffset` is behind the end of every entry of the current one) gives `NoOverlap`.
* `EntryPosInv` and `PdoPosInv` compare the counters with the lengths of what was collected in a checked build:
  `EntryPositionsExact`, `PdoPositionsExact`, `PdoPositionsOrdered` and `CallerOffsetsFit`. With
  `AnnouncedInv`, which compares them with the announced totals, they give `OverflowsOnlyAtTheLimit`.
* `RankInv` does the same modulo `W` for either build and gives `EntryPositionsAreRanks`. Three truncations meet in it: `pdo_entry_pos += 1`, the
  sum of the lengths `as u8`, and the addition to the offset. `WrapSum` says that they lose no more than one truncation would; it rests
  on the uniqueness of remainders (`Remainder`), which the solver does not find by itself for a `W` that is not a numeral.
* `OrderInv` (all that was placed is of a type the outer loop has reached, and of the current type only up to the current
  sync manager) gives `OutputsComeFirst`.

`Exchange_proofs`
* `TypeCorrect`; then `Kept`: a step of one handle changes nothing in the frame of another but
  `overwritten`, and adds to it every entry it changes that is still `Pending` there. With it each
  action has to be looked at for its own handle only.
* `ErrorIInv` serves `FailureClearsOlderErrors` and `AlarmsBounded`. The bound is not inductive by itself: an alarm
  is paid for by the errors that are in the list when it is raised (`alarms + Len(errors) <= occurred`), and by those before its `mark`
  while they are drained. `ErrorStep` says what any step, of any handle, may do to the list.
* `StateIInv` serves `StatesAreObserved`, `CheckedStateIsShared` and
  `BroadcastAsAsked`: while a call is in progress, the entries that are `Pending` and not `overwritten` hold what was asked for or read, and
  those already collected are in the reply.

`ProcessImage_proofs`, for bytes of any number of bits and images and tables of any size
* `TypeCorrect` and `WritesContained`: both branches of `set_pdo_value` change only bytes of one slave's slice.
* `ByteCount` shows that `byte_cnt` rounds up; from it `SoundReads` and `SoundWrites`: on a `SoundBus` no index
  leaves its slice. They give `NeverPanics`.
* `ReadInv` serves `ReadBack`, which is not inductive: it adds that what was set suits its entry and that the entry is an output.
  A write changes only its own `Cells` (`BitWritten`, `BytesWritten`), what an entry holds depends on its
  cells only (`HoldsKept`), and on a sound bus cells are disjoint.

`Handles_proofs`, for any number of secondary `Master`s
* `HandlesTypeCorrect`, `RuleIsSafe` and `RuleReclaims`. The invariant `RuledInv` says that, with the
  rule kept, the context lives as long as its owner, which goes last, and has been freed once then.

`SdoAccess_proofs`, for slaves with dictionaries and contents of any size
* `SdoImplementsHandles`: every call, scan or panic is a step of `Handles` or leaves it alone. With it `SdoRuleIsSafe` and
  `SdoRuleReclaims` carry the ownership over to `Master`s that panic in the middle of an answer.
* `ScansHideNothing` from `CacheInv`: a cache whose first fill was complete begins with one dictionary per slave, and what is pushed behind
  that is not looked up.
* `WritesAreRead` from `WrittenInv`: what is known to be written is in the entry, in the bytes of its type; a row that is taken takes the entries it reaches out of what is known. The rest is
  that `value_from_slice` undoes `value_to_bytes`.
* `DataInv` (slaves hold contents that `Fits` their description) serves the other four. `CompleteAgrees`: `OwnAnswerDecodes` follows the loop of
  `read_sdo_complete` through the answer and shows that it stands where the slave has put the entry. `PanicsOnShortAnswers`:
  a whole answer without short entries has every byte the dictionary promises (`OwnAnswerFits`). `BuffersSuffice`:
  the largest described entry times the number of entries bounds the bytes of all of them (`FlattenedBound`, `PartsFit`).
  `SdoTypeCorrect` adds that what is decoded is a value and what is cached the dictionary of some slave.

`Answers_proofs`, the lemmas on sums and flattened sequences these proofs need
* The library's induction theorems take an operator as a parameter, which the provers cannot instantiate. `SetInduction` and `BoundedInduction` are about
  a set instead: if it contains 0, and `n + 1` with `n`, it contains all numbers, because otherwise there would be a
  smallest one outside (`Smallest`, from the well-foundedness of `<` on the numbers). `Recursion` gives the function that a recursion describes in the same
  way.
* With them: what `FlattenSeq` returns (`Concatenation`, `PositionsInFlattening`, `SliceOfConcatenation`), its length
  (`FlattenedBound`), the position `BytePos` of an entry in an answer (`SliceIsPart`, `WholeAnswerDecodes`), and what conversion returns for any bytes (`ValuesOfAnswer`).

`StartUp_proofs`, for any number of slaves, rounds and cycles, with debug logging or without
* `ProgramImplementsExchange`: the program makes only steps of `Exchange`.
* `ProgramInv` serves `ProgramTypeCorrect`, `CyclesAreOperational` and `FailuresHaveCauses`. `RoundInv` says that between the call of
  `states` and the end of the round what it works on are the slaves it `met`; `CallInv` carries the cause of a
  failure from where it happens, through the draining, to the outcome.

Only model-checked: the liveness properties (`ContractReturns`, `PassEnds`, `ProgramEnds`), because liveness
under fairness and ENABLED are out of the prover's reach. Every invariant and every action property of a passing run is
a theorem. There is no recursive operator in the project.

## What is not modelled, and the plan

Done first, because everything else indexes what it leaves behind: `AutoConfig` with its contract, `PdoAssign`,
then `ProcessImage` and `Exchange`, then `Handles` with `SdoAccess` on top of it, and `StartUp` on top of `Exchange`.
Left of the plan: a composition of `PdoAssign` and `ProcessImage`. So far the tables that `auto_config` can leave behind are among the buses of
`MCProcessImage`, chosen by hand, and `SoundBus` is a precondition. To be shown is that `NoOverlap`, with one sync manager per direction and the areas SOEM
reserves for the sum of the lengths, makes a bus sound.

Left out for good: the getters and `Debug` output of `Slave`, `Group` and `Sm`, names and access rights of entries (which nothing in the code looks at
again), the texts of errors and the table of AL status codes, the generated bindings, the build script, and SOEM itself, whose calls appear through
the results the wrappers distinguish. What SOEM makes of a timeout that the cast to `i32` has wrapped (ctx/lib.rs:231, 260) is outside the
repository; since every call may time out in the models, it adds no behaviour. The loops of `examples/read_sdo.rs` are not modelled as a program: its
two `Master`s may make any calls.
