------------------------------ MODULE Exchange ------------------------------
(***************************************************************************)
(* The calls a running application makes: process data (send_processdata,  *)
(* recv_processdata), AL states (request_states, check_states, states) and *)
(* mailbox (read_sdo, write_sdo) of src/lib.rs, over the wrappers of       *)
(* ethercat-soem-ctx/src/lib.rs.  One step is one SOEM call, or one access *)
(* of the wrapper to the context: the loops over the slave list go entry   *)
(* by entry.                                                               *)
(*                                                                         *)
(* A Handle is a Master.  Master::ptr and Master::from_ptr make several of *)
(* them share one context, as the two threads of examples/read_sdo.rs do:  *)
(* one slave list and one list of errors.  With a single handle this is    *)
(* the program as the borrow checker knows it.                             *)
(*                                                                         *)
(* An AL status is the set of its set bits, so that what a broadcast read  *)
(* returns is a union.  {} is the status of a slave that does not answer.  *)
(***************************************************************************)
EXTENDS Integers, Sequences

CONSTANTS
  Handles,     \* the Masters on this context
  SlaveCnt,    \* slaves on the bus
  Statuses,    \* of each slave: the AL statuses it can have
  Requests,    \* AL states the application asks for
  MaxWkc,      \* the largest working counter
  UsizeValues, \* 2^64 in the code
  ErrListSize, \* errors SOEM keeps: it drops the oldest
  DebugLog,    \* the program logs at level debug
  MaxErrors    \* bound: errors that ever occur

(* The AL states, by the bits of their code, and the error indication.     *)
Init_ == {0}
PreOp == {1}
Boot == {0, 1}
SafeOp == {2}
Op == {3}
AlState == {Init_, PreOp, Boot, SafeOp, Op}
ErrorBit == 4
StatusType == SUBSET (0..ErrorBit)

\* slave_list: the slaves have the positions from 1 on, and entry 0 stands for
\* all of them.
Slaves == 1..SlaveCnt
Entries == 0..SlaveCnt

\* Without a slave auto_config fails with NoSlaves.
ASSUME SlavesAssumption == SlaveCnt \in Nat \ {0}
ASSUME StatusAssumption == Statuses \in [Slaves -> SUBSET StatusType]
ASSUME RequestAssumption == Requests \subseteq AlState
ASSUME NumbersAssumption ==
  /\ MaxWkc \in Nat /\ UsizeValues \in Nat /\ MaxWkc < UsizeValues
  /\ ErrListSize \in Nat \ {0} /\ MaxErrors \in Nat
ASSUME LogAssumption == DebugLog \in BOOLEAN

VARIABLES
  actual,      \* AL status of the slaves
  listed,      \* slave_list[i].state
  errors,      \* the list of errors, by the numbers of their occurrence
  occurred,    \* errors that have occurred
  frame,       \* of each handle: the call it runs or has finished last
  alarms       \* history: failed calls of send_ and recv_processdata

errorList == <<errors, occurred>>
vars == <<actual, listed, errorList, frame, alarms>>

Unknown == [i \in Slaves |-> {}]

\* What can be read from the slaves at one moment.
BusStatuses == {a \in [Slaves -> StatusType] : \A i \in Slaves : a[i] \in Statuses[i]}

\* The locals of a method that has just been entered.  The last four fields are
\* history: what the call read from the slaves and asked them for, the entries
\* that another handle overwrote before the call had used them, and how many
\* errors had occurred when the call failed.
Frame(method, argument) ==
  [name        |-> method,
   state       |-> argument,
   at          |-> "idle",     \* what the call does next,
   next        |-> 0,          \*   and to which entry of the list
   failure     |-> "none",     \* what it returns after looking at the errors
   outcome     |-> "none",     \* what it has returned
   wkc         |-> 0,          \* with Ok of recv_processdata,
   reply       |-> Unknown,    \*   of states, and of check_states
   seen        |-> Unknown,
   broadcast   |-> {},
   overwritten |-> {},
   mark        |-> 0]

----------------------------------------------------------------------------
Init ==
  /\ actual \in BusStatuses
  /\ listed = [i \in Entries |-> {}]
  /\ errors = <<>> /\ occurred = 0
  /\ frame = [h \in Handles |-> Frame("none", {})]
  /\ alarms = [h \in Handles |-> 0]

Idle(h) == frame[h].at = "idle"

\* How the frame f of h goes on.
Goto(h, f, label) == frame' = [frame EXCEPT ![h] = [f EXCEPT !.at = label]]

Returned(f, how) == [f EXCEPT !.at = "idle", !.next = 0, !.outcome = how]

Return(h, f, how) == frame' = [frame EXCEPT ![h] = Returned(f, how)]

\* The call has failed with err: it logs the errors in the list and returns err.
Drain(h, f, err) ==
  frame' = [frame EXCEPT ![h] =
              [f EXCEPT !.at = "drain", !.failure = err, !.mark = occurred']]

\* Entries that the call has written or refreshed, and will still read.
Pending(f) ==
  {i \in Entries :
     \/ f.at = "set_states" /\ i = 0 /\ f.next > 0
     \/ f.at = "write_state" /\ i = 0
     \/ f.at = "collect" /\ i >= f.next}

\* h writes to entries of the slave list, maybe under the feet of other calls.
Overwrite(h, f, entries) ==
  frame' = [g \in Handles |->
              IF g = h THEN f
              ELSE [frame[g] EXCEPT !.overwritten =
                      @ \cup (entries \cap Pending(frame[g]))]]

\* SOEM appends an error to its list, or does not.
MayFail ==
  \/ UNCHANGED errorList
  \/ /\ occurred < MaxErrors
     /\ occurred' = occurred + 1
     /\ errors' = Append(IF Len(errors) = ErrListSize THEN Tail(errors) ELSE errors,
                         occurred + 1)

----------------------------------------------------------------------------
(* Process data.                                                           *)

\* The return value of SOEM's send is not looked at.
SendProcessData(h) ==
  /\ Idle(h)
  /\ MayFail
  /\ Goto(h, [Frame("send", {}) EXCEPT !.failure = "SendProcessData"], "is_err")
  /\ UNCHANGED <<actual, listed, alarms>>

\* Mutant: the number is returned as it is.
AsUsize_Signed(n) == n

\* `wkc as usize`, for a working counter or EC_NOFRAME.
AsUsize(n) == (n + UsizeValues) % UsizeValues

RecvProcessData(h) ==
  /\ Idle(h)
  /\ MayFail
  /\ \E n \in -1..MaxWkc :
       Goto(h, [Frame("recv", {}) EXCEPT !.failure = "RecvProcessData",
                                         !.wkc = AsUsize(n)], "is_err")
  /\ UNCHANGED <<actual, listed, alarms>>

\* is_err: is anything in the error list, from whatever call?
IsErr(h) ==
  LET f == frame[h]
  IN  /\ f.at = "is_err"
      /\ \/ /\ errors # <<>>
            /\ UNCHANGED errorList
            /\ Drain(h, f, f.failure)
            /\ alarms' = [alarms EXCEPT ![h] = IF f.name = "request" THEN @ ELSE @ + 1]
         \/ /\ errors = <<>>
            /\ Return(h, f, IF f.name = "request" THEN f.failure ELSE "Ok")
            /\ UNCHANGED <<errorList, alarms>>
      /\ UNCHANGED <<actual, listed>>

\* The list is emptied by ctx_errors.  read_sdo and the writes call it first and
\* log what it returns.  All other calls, read_od_list among them, have it as an
\* argument of log::debug!, which is evaluated only if that level is logged.
Drains(err) == DebugLog \/ err = "Sdo"

\* Mutants: only one error is popped; none is.
PopError_Once(h) ==
  /\ frame[h].at = "drain"
  /\ errors' = IF errors = <<>> THEN errors ELSE Tail(errors)
  /\ Return(h, frame[h], frame[h].failure)
  /\ UNCHANGED <<actual, listed, occurred, alarms>>

PopError_Never(h) ==
  /\ frame[h].at = "drain"
  /\ Return(h, frame[h], frame[h].failure)
  /\ UNCHANGED <<actual, listed, errorList, alarms>>

\* ctx_errors, if it is called: one pop_error after the other, until there is none.
PopError(h) ==
  LET f == frame[h]
  IN  /\ f.at = "drain"
      /\ \/ /\ Drains(f.failure) /\ errors # <<>>
            /\ errors' = Tail(errors) /\ UNCHANGED frame
         \/ /\ ~Drains(f.failure) \/ errors = <<>>
            /\ Return(h, f, f.failure) /\ UNCHANGED errors
      /\ UNCHANGED <<actual, listed, occurred, alarms>>

----------------------------------------------------------------------------
(* AL states.                                                              *)

\* Mutant: the loop begins at the first slave.
RequestStates_FromOne(h, s) ==
  /\ Idle(h)
  /\ Goto(h, [Frame("request", s) EXCEPT !.next = 1], "set_states")
  /\ UNCHANGED <<actual, listed, errorList, alarms>>

\* request_states: the state is put into one entry of the list after the other,
\* from 0 on, and then write_state sends what it finds in entry 0 to all slaves.
RequestStates(h, s) ==
  /\ Idle(h)
  /\ Goto(h, Frame("request", s), "set_states")
  /\ UNCHANGED <<actual, listed, errorList, alarms>>

SetState(h) ==
  LET f == frame[h]
  IN  /\ f.at = "set_states"
      /\ listed' = [listed EXCEPT ![f.next] = f.state]
      /\ Overwrite(h, IF f.next < SlaveCnt THEN [f EXCEPT !.next = @ + 1]
                                          ELSE [f EXCEPT !.at = "write_state"],
                   {f.next})
      /\ UNCHANGED <<actual, errorList, alarms>>

WriteState(h) ==
  LET f == frame[h]
  IN  /\ f.at = "write_state"
      /\ \/ Return(h, f, "NoFrame") /\ UNCHANGED errorList
         \/ Return(h, [f EXCEPT !.broadcast = listed[0]], "Ok") /\ UNCHANGED errorList
         \/ Goto(h, [f EXCEPT !.failure = "SetState"], "is_err") /\ MayFail
      /\ UNCHANGED <<actual, listed, alarms>>

\* Mutants: another state than the one asked for is an error; the state that was
\* asked for is returned.
Checked_MustMatch(f, found) ==
  IF found = f.state
  THEN Returned([f EXCEPT !.reply = [i \in Slaves |-> found], !.seen = actual], "Ok")
  ELSE Returned(f, "CheckState")

Checked_AsAsked(f, found) ==
  Returned([f EXCEPT !.reply = [i \in Slaves |-> f.state], !.seen = actual], "Ok")

\* What check_states makes of the state SOEM has found.
Checked(f, found) ==
  IF found \in AlState
  THEN Returned([f EXCEPT !.reply = [i \in Slaves |-> found], !.seen = actual], "Ok")
  ELSE Returned(f, "CheckState")

\* check_states: SOEM reads the statuses of all slaves in one broadcast, over
\* and over until the state is found or the time is up, and returns the last
\* one without the error indication.
CheckStates(h, s) ==
  LET read == UNION {actual[i] : i \in Slaves}
      found == read \ {ErrorBit}
      f == Frame("check", s)
  IN  /\ Idle(h)
      /\ listed' = [listed EXCEPT ![0] = read]
      /\ \/ /\ found = {} /\ MayFail
            /\ Overwrite(h, [f EXCEPT !.at = "drain", !.failure = "CheckState",
                                      !.mark = occurred'], {0})
         \/ found # {} /\ Overwrite(h, Checked(f, found), {0}) /\ UNCHANGED errorList
      /\ UNCHANGED <<actual, alarms>>

\* The lowest of all states is positive.
ReadSucceeds == \A i \in Slaves : actual[i] # {}

\* states, first half: read_state refreshes the list, with state 0 for a slave
\* that does not answer.  Which of the states is the lowest does not matter.
ReadState(h) ==
  LET f == Frame("states", {})
  IN  /\ Idle(h)
      /\ \E i \in Slaves :
           listed' = [j \in Entries |-> IF j = 0 THEN actual[i] ELSE actual[j]]
      /\ \/ /\ ReadSucceeds
            /\ Overwrite(h, [f EXCEPT !.at = "collect", !.next = 1, !.seen = actual],
                         Entries)
            /\ UNCHANGED errorList
         \/ /\ ~ReadSucceeds
            /\ MayFail
            /\ Overwrite(h, [f EXCEPT !.at = "drain", !.failure = "ReadStates",
                                      !.mark = occurred'], Entries)
      /\ UNCHANGED <<actual, alarms>>

\* Mutant: the error indication is masked.
slave_state_Masked(i) == listed[i] \ {ErrorBit}

\* The state in the list; what is not an AlState is an error.
slave_state(i) == listed[i]

\* states, second half: slave_state of one entry after the other, up to the first
\* error.
Collect(h) ==
  LET f == frame[h]
      more == [f EXCEPT !.reply = [f.reply EXCEPT ![f.next] = slave_state(f.next)]]
  IN  /\ f.at = "collect"
      /\ \/ /\ slave_state(f.next) \in AlState
            /\ \/ f.next < SlaveCnt /\ Goto(h, [more EXCEPT !.next = @ + 1], "collect")
               \/ f.next = SlaveCnt /\ Return(h, more, "Ok")
         \/ /\ slave_state(f.next) \notin AlState
            /\ Return(h, Frame("states", {}), "AlState")
      /\ UNCHANGED <<actual, listed, errorList, alarms>>

----------------------------------------------------------------------------
(* Mailbox.                                                                *)

MailboxErrors == {"Sdo", "ReadOdList"}

\* read_sdo, write_sdo and write_sdo_entry, and the transfers of read_od_list as
\* one.  An emergency message of the slave can be found in its mailbox also when
\* the transfer succeeds.
Sdo(h, err) ==
  /\ Idle(h)
  /\ MayFail
  /\ Return(h, Frame("sdo", {}), "Ok") \/ Drain(h, Frame("sdo", {}), err)
  /\ UNCHANGED <<actual, listed, alarms>>

\* A slave changes its state, fails, disappears or comes back.
SlaveMoves ==
  /\ \E i \in Slaves : \E s \in Statuses[i] : actual' = [actual EXCEPT ![i] = s]
  /\ UNCHANGED <<listed, errorList, frame, alarms>>

Next ==
  \/ \E h \in Handles :
       \/ SendProcessData(h) \/ RecvProcessData(h) \/ IsErr(h) \/ PopError(h)
       \/ \E s \in Requests : RequestStates(h, s) \/ CheckStates(h, s)
       \/ SetState(h) \/ WriteState(h) \/ ReadState(h) \/ Collect(h)
       \/ \E err \in MailboxErrors : Sdo(h, err)
  \/ SlaveMoves

Spec == Init /\ [][Next]_vars

----------------------------------------------------------------------------
(* Properties                                                              *)

DrainedErrors == {"SendProcessData", "RecvProcessData", "SetState", "CheckState",
                  "ReadStates"} \cup MailboxErrors

FrameType ==
  [name : {"none", "send", "recv", "request", "check", "states", "sdo"},
   state : AlState \cup {{}},
   at : {"idle", "is_err", "drain", "set_states", "write_state", "collect"},
   next : Entries,
   failure : DrainedErrors \cup {"none"},
   outcome : DrainedErrors \cup {"none", "Ok", "NoFrame", "AlState"},
   wkc : 0..(UsizeValues - 1),
   reply : [Slaves -> StatusType],
   seen : [Slaves -> StatusType],
   broadcast : StatusType,
   overwritten : SUBSET Entries,
   mark : Nat]

\* Type invariant of the context and of the calls in progress.
TypeOK ==
  /\ actual \in BusStatuses
  /\ listed \in [Entries -> StatusType]
  /\ errors \in Seq(Nat) /\ Len(errors) <= ErrListSize
  /\ occurred \in Nat
  /\ frame \in [Handles -> FrameType]
  /\ alarms \in [Handles -> Nat]

\* A call that reports an error after emptying the error list has removed all
\* errors that were older than its failure, its own included, even if the other
\* handle empties the list, or adds to it, at the same time.
FailureClearsOlderErrors ==
  \A h \in Handles :
    LET f == frame[h]
    IN  f.failure # "none" /\ f.outcome = f.failure /\ Drains(f.failure) =>
          \A k \in DOMAIN errors : errors[k] > f.mark

\* Errors that others left behind make send_ and recv_processdata fail although
\* nothing is wrong with the process data, but with debug logging not for ever:
\* a handle has no more failures of that kind than errors have occurred at all.
AlarmsBounded == DebugLog => \A h \in Handles : alarms[h] <= occurred

\* states returns an AL state for every slave, and for every slave the one it has
\* read from it, never a state that was only requested or that is left from an
\* earlier call, and no slave with an error indication passes for one that has
\* reached its state.  Only the entries that another handle has overwritten
\* before they were collected can be something else.
StatesAreObserved ==
  \A h \in Handles :
    LET f == frame[h]
    IN  f.name = "states" /\ f.outcome = "Ok" =>
          \A i \in Slaves : /\ f.reply[i] \in AlState
                            /\ i \in f.overwritten \/ f.reply[i] = f.seen[i]

\* When check_states returns the state it was asked for, every slave that
\* answers was in it at one and the same moment.  Not for Boot, whose code is
\* that of Init and PreOp together.
CheckedStateIsShared ==
  \A h \in Handles :
    LET f == frame[h]
    IN  /\ f.name = "check" /\ f.outcome = "Ok"
        /\ f.reply = [i \in Slaves |-> f.state] /\ f.state # Boot
        => \A i \in Slaves : f.seen[i] \ {ErrorBit} \in {{}, f.state}

\* request_states asks all slaves for the state it was given, whatever other
\* handles write to the entries of the slaves; only a write to the entry for all
\* slaves, after the call has set it and before it is sent, can change that.
BroadcastAsAsked ==
  \A h \in Handles :
    LET f == frame[h]
    IN  f.name = "request" /\ f.outcome = "Ok" =>
          0 \in f.overwritten \/ f.broadcast = f.state

----------------------------------------------------------------------------
(* What the repository says of these calls, and the code does not keep.    *)

\* error.rs:26: recv_processdata has an error for process data that could not be
\* received.  So a number it returns is a working counter.
ReceivedIsCounted ==
  \A h \in Handles :
    frame[h].name = "recv" /\ frame[h].outcome = "Ok" => frame[h].wkc <= MaxWkc

\* error.rs:24 and error.rs:26 of send_ and recv_processdata say that process data
\* could not be sent or received, whatever is logged: no handle fails more often
\* than errors have occurred.
AlarmsFollowErrors == \A h \in Handles : alarms[h] <= occurred
=============================================================================
