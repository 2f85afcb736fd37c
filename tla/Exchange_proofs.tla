--------------------------- MODULE Exchange_proofs ---------------------------
(***************************************************************************)
(* Proofs about Exchange, for any number of handles and slaves, whatever   *)
(* states the slaves have and however long SOEM's error list is.           *)
(***************************************************************************)
EXTENDS Exchange, SequenceTheorems, TLAPS

Labels == {"idle", "is_err", "drain", "set_states", "write_state", "collect"}
Methods == {"none", "send", "recv", "request", "check", "states", "sdo"}

----------------------------------------------------------------------------
(* The operators that change a frame keep its type.                        *)

LEMMA StatusOfAlState == AlState \cup {{}} \subseteq StatusType /\ {} \in StatusType
  BY DEF AlState, StatusType, Init_, PreOp, Boot, SafeOp, Op, ErrorBit

LEMMA UnknownType == Unknown \in [Slaves -> StatusType]
  BY StatusOfAlState DEF Unknown

LEMMA NewFrameType ==
  ASSUME NEW method \in Methods, NEW argument \in AlState \cup {{}}
  PROVE  Frame(method, argument) \in FrameType
<1>1. 0 \in 0..(UsizeValues - 1) /\ 0 \in Entries
  BY NumbersAssumption, SlavesAssumption DEF Entries
<1>2. /\ method \in {"none", "send", "recv", "request", "check", "states", "sdo"}
      /\ {} \in StatusType
  BY StatusOfAlState DEF Methods
<1> DEFINE u == Unknown
<1>3. u \in [Slaves -> StatusType]
  BY UnknownType
<1> HIDE DEF u
<1>4. Frame(method, argument) =
        [name |-> method, state |-> argument, at |-> "idle", next |-> 0,
         failure |-> "none", outcome |-> "none", wkc |-> 0, reply |-> u, seen |-> u,
         broadcast |-> {}, overwritten |-> {}, mark |-> 0]
  BY DEF Frame, u
<1>5. QED
  BY <1>1, <1>2, <1>3, <1>4 DEF FrameType

LEMMA AsUsizeType ==
  ASSUME NEW n \in -1..MaxWkc PROVE AsUsize(n) \in 0..(UsizeValues - 1)
<1>1. n + UsizeValues \in Nat /\ UsizeValues \in Nat \ {0}
  BY NumbersAssumption
<1>2. \A a \in Nat, b \in Nat \ {0} : a % b \in 0..(b - 1)
  OBVIOUS
<1>3. QED
  BY <1>1, <1>2 DEF AsUsize

LEMMA GotoType ==
  ASSUME frame \in [Handles -> FrameType], NEW h \in Handles,
         NEW f \in FrameType, NEW label \in Labels, Goto(h, f, label)
  PROVE  frame' \in [Handles -> FrameType]
<1>1. [f EXCEPT !.at = label] \in FrameType
  BY DEF FrameType, Labels
<1>2. QED
  BY <1>1 DEF Goto

\* Fields that are changed alone.
LEMMA FailureField ==
  ASSUME NEW f \in FrameType, NEW err \in DrainedErrors \cup {"none"}
  PROVE  [f EXCEPT !.failure = err] \in FrameType
  BY DEF FrameType

LEMMA NextField ==
  ASSUME NEW f \in FrameType, NEW i \in Entries
  PROVE  [f EXCEPT !.next = i] \in FrameType
  BY DEF FrameType

LEMMA ReplyField ==
  ASSUME NEW f \in FrameType, NEW r \in [Slaves -> StatusType]
  PROVE  [f EXCEPT !.reply = r] \in FrameType
  BY DEF FrameType

LEMMA OverwrittenField ==
  ASSUME NEW f \in FrameType, NEW m \in SUBSET Entries
  PROVE  [f EXCEPT !.overwritten = m] \in FrameType
  BY DEF FrameType

LEMMA BroadcastField ==
  ASSUME NEW f \in FrameType, NEW s \in StatusType
  PROVE  [f EXCEPT !.broadcast = s] \in FrameType
  BY DEF FrameType

LEMMA ReturnedType ==
  ASSUME NEW f \in FrameType,
         NEW how \in DrainedErrors \cup {"none", "Ok", "NoFrame", "AlState"}
  PROVE  Returned(f, how) \in FrameType
<1>1. 0 \in Entries
  BY SlavesAssumption DEF Entries
<1>2. [f EXCEPT !.at = "idle", !.next = 0, !.outcome = how] \in FrameType
  BY <1>1 DEF FrameType
<1>3. QED
  BY <1>2 DEF Returned

LEMMA ReturnType ==
  ASSUME frame \in [Handles -> FrameType], NEW h \in Handles, NEW f \in FrameType,
         NEW how \in DrainedErrors \cup {"none", "Ok", "NoFrame", "AlState"},
         Return(h, f, how)
  PROVE  frame' \in [Handles -> FrameType]
  BY ReturnedType DEF Return

LEMMA DrainType ==
  ASSUME frame \in [Handles -> FrameType], NEW h \in Handles, NEW f \in FrameType,
         NEW err \in DrainedErrors \cup {"none"}, Drain(h, f, err), occurred' \in Nat
  PROVE  frame' \in [Handles -> FrameType]
<1>1. [f EXCEPT !.at = "drain", !.failure = err, !.mark = occurred'] \in FrameType
  BY DEF FrameType
<1>2. QED
  BY <1>1 DEF Drain

LEMMA OverwriteType ==
  ASSUME frame \in [Handles -> FrameType], NEW h \in Handles, NEW f \in FrameType,
         NEW entries, Overwrite(h, f, entries)
  PROVE  frame' \in [Handles -> FrameType]
<1>1. ASSUME NEW g \in Handles
      PROVE  [frame[g] EXCEPT !.overwritten =
                 @ \cup (entries \cap Pending(frame[g]))] \in FrameType
  <2> DEFINE m == frame[g].overwritten \cup (entries \cap Pending(frame[g]))
  <2>1. m \in SUBSET Entries
    BY DEF FrameType, Pending
  <2> HIDE DEF m
  <2>2. [frame[g] EXCEPT !.overwritten = m] \in FrameType
    BY <2>1, OverwrittenField
  <2>3. QED
    BY <2>2 DEF m
<1>2. QED
  BY <1>1 DEF Overwrite

\* What SOEM may do to the error list.
LEMMA MayFailType ==
  ASSUME errors \in Seq(Nat), Len(errors) <= ErrListSize, occurred \in Nat, MayFail
  PROVE  /\ errors' \in Seq(Nat) /\ Len(errors') <= ErrListSize
         /\ occurred' \in Nat /\ occurred <= occurred'
<1>1. CASE UNCHANGED errorList
  BY <1>1 DEF errorList
<1>2. CASE /\ occurred' = occurred + 1
           /\ errors' = Append(IF Len(errors) = ErrListSize THEN Tail(errors) ELSE errors,
                               occurred + 1)
  <2>1. CASE Len(errors) = ErrListSize
    <3>1. errors # <<>>
      BY <2>1, NumbersAssumption
    <3>2. Tail(errors) \in Seq(Nat) /\ Len(Tail(errors)) = Len(errors) - 1
      BY <3>1
    <3>3. QED
      BY <1>2, <2>1, <3>2
  <2>2. CASE Len(errors) # ErrListSize
    BY <1>2, <2>2, NumbersAssumption
  <2>3. QED
    BY <2>1, <2>2
<1>3. QED
  BY <1>1, <1>2 DEF MayFail

----------------------------------------------------------------------------
(* Type correctness                                                        *)

LEMMA TypeOKInit == Init => TypeOK
<1> SUFFICES ASSUME Init PROVE TypeOK
  OBVIOUS
<1>1. Frame("none", {}) \in FrameType
  BY NewFrameType DEF Methods
<1>2. frame \in [Handles -> FrameType] /\ alarms \in [Handles -> Nat]
  BY <1>1 DEF Init
<1>3. errors \in Seq(Nat) /\ Len(errors) <= ErrListSize /\ occurred \in Nat
  BY NumbersAssumption DEF Init
<1>4. listed \in [Entries -> StatusType]
  BY StatusOfAlState DEF Init
<1>5. QED
  BY <1>2, <1>3, <1>4 DEF Init, TypeOK

\* The statuses that SOEM can leave in the list.
LEMMA ReadTypes ==
  ASSUME TypeOK
  PROVE  /\ \A i \in Slaves : actual[i] \in StatusType
         /\ actual \in [Slaves -> StatusType]
         /\ UNION {actual[i] : i \in Slaves} \in StatusType
         /\ (UNION {actual[i] : i \in Slaves}) \ {ErrorBit} \in StatusType
<1>1. \A i \in Slaves : actual[i] \in StatusType
  BY DEF TypeOK, BusStatuses
<1>2. actual \in [Slaves -> StatusType]
  BY DEF TypeOK, BusStatuses
<1>3. UNION {actual[i] : i \in Slaves} \in StatusType
  BY <1>1 DEF StatusType
<1>4. QED
  BY <1>1, <1>2, <1>3 DEF StatusType

LEMMA TypeOKNext == TypeOK /\ [Next]_vars => TypeOK'
<1> SUFFICES ASSUME TypeOK, [Next]_vars PROVE TypeOK'
  OBVIOUS
<1> USE DEF Labels, Methods
<1>t. /\ actual \in BusStatuses
      /\ listed \in [Entries -> StatusType]
      /\ errors \in Seq(Nat) /\ Len(errors) <= ErrListSize /\ occurred \in Nat
      /\ frame \in [Handles -> FrameType] /\ alarms \in [Handles -> Nat]
  BY DEF TypeOK
<1>n. ASSUME UNCHANGED <<actual, listed>>, frame' \in [Handles -> FrameType],
             MayFail \/ UNCHANGED errorList, UNCHANGED alarms
      PROVE  TypeOK'
  <2>1. errors' \in Seq(Nat) /\ Len(errors') <= ErrListSize /\ occurred' \in Nat
    BY <1>t, <1>n, MayFailType DEF errorList
  <2>2. QED
    BY <2>1, <1>t, <1>n DEF TypeOK
<1>f. \A h \in Handles : frame[h] \in FrameType
  BY <1>t
<1>o. MayFail => occurred' \in Nat
  BY <1>t, MayFailType
<1>1. ASSUME NEW h \in Handles, SendProcessData(h) PROVE TypeOK'
  <2> DEFINE f == [Frame("send", {}) EXCEPT !.failure = "SendProcessData"]
  <2>1. Frame("send", {}) \in FrameType
    BY NewFrameType
  <2>2. f \in FrameType
    BY <2>1 DEF FrameType, DrainedErrors, MailboxErrors
  <2>3. frame' \in [Handles -> FrameType]
    BY <1>1, <2>2, <1>t, GotoType DEF SendProcessData
  <2>4. QED
    BY <1>1, <2>3, <1>n DEF SendProcessData
<1>2. ASSUME NEW h \in Handles, RecvProcessData(h) PROVE TypeOK'
  <2>1. PICK n \in -1..MaxWkc :
          Goto(h, [Frame("recv", {}) EXCEPT !.failure = "RecvProcessData",
                                            !.wkc = AsUsize(n)], "is_err")
    BY <1>2 DEF RecvProcessData
  <2> DEFINE f == [Frame("recv", {}) EXCEPT !.failure = "RecvProcessData",
                                            !.wkc = AsUsize(n)]
  <2>2. Frame("recv", {}) \in FrameType /\ AsUsize(n) \in 0..(UsizeValues - 1)
    BY NewFrameType, AsUsizeType
  <2>3. f \in FrameType
    BY <2>2 DEF FrameType, DrainedErrors, MailboxErrors
  <2>4. frame' \in [Handles -> FrameType]
    BY <2>1, <2>3, <1>t, GotoType
  <2>5. QED
    BY <1>2, <2>4, <1>n DEF RecvProcessData
<1>3. ASSUME NEW h \in Handles, IsErr(h) PROVE TypeOK'
  <2> DEFINE f == frame[h]
  <2>1. f.failure \in DrainedErrors \cup {"none"}
    BY <1>f DEF FrameType
  <2>2. CASE Drain(h, f, f.failure) /\ UNCHANGED errorList
             /\ alarms' = [alarms EXCEPT ![h] = IF f.name = "request" THEN @ ELSE @ + 1]
    <3>1. occurred' \in Nat
      BY <2>2, <1>t DEF errorList
    <3>2. frame' \in [Handles -> FrameType]
      BY <2>1, <2>2, <3>1, <1>t, <1>f, DrainType
    <3>3. alarms' \in [Handles -> Nat]
      BY <2>2, <1>t
    <3>4. QED
      BY <1>3, <2>2, <3>2, <3>3, <1>t DEF IsErr, TypeOK, errorList
  <2>3. CASE Return(h, f, IF f.name = "request" THEN f.failure ELSE "Ok")
             /\ UNCHANGED <<errorList, alarms>>
    <3>1. (IF f.name = "request" THEN f.failure ELSE "Ok")
            \in DrainedErrors \cup {"none", "Ok", "NoFrame", "AlState"}
      BY <2>1
    <3>2. frame' \in [Handles -> FrameType]
      BY <2>3, <3>1, <1>t, <1>f, ReturnType
    <3>3. QED
      BY <1>3, <2>3, <3>2, <1>n DEF IsErr
  <2>4. QED
    BY <1>3, <2>2, <2>3 DEF IsErr
<1>4. ASSUME NEW h \in Handles, PopError(h) PROVE TypeOK'
  <2> DEFINE f == frame[h]
  <2>1. f.failure \in DrainedErrors \cup {"none", "Ok", "NoFrame", "AlState"}
    BY <1>f DEF FrameType
  <2>2. frame' \in [Handles -> FrameType]
    BY <1>4, <2>1, <1>t, <1>f, ReturnType DEF PopError
  <2>3. errors' \in Seq(Nat) /\ Len(errors') <= ErrListSize
    <3>1. CASE errors # <<>> /\ errors' = Tail(errors)
      <4>1. Tail(errors) \in Seq(Nat) /\ Len(Tail(errors)) = Len(errors) - 1
        BY <3>1, <1>t
      <4>2. QED
        BY <3>1, <4>1, <1>t, NumbersAssumption
    <3>2. CASE UNCHANGED errors
      BY <3>2, <1>t
    <3>3. QED
      BY <1>4, <3>1, <3>2 DEF PopError
  <2>4. QED
    BY <1>4, <2>2, <2>3, <1>t DEF PopError, TypeOK
<1>5. ASSUME NEW h \in Handles, NEW s \in Requests, RequestStates(h, s) PROVE TypeOK'
  <2>1. Frame("request", s) \in FrameType
    BY RequestAssumption, NewFrameType
  <2>2. frame' \in [Handles -> FrameType]
    BY <1>5, <2>1, <1>t, GotoType DEF RequestStates
  <2>3. QED
    BY <1>5, <2>2, <1>n DEF RequestStates
<1>5a. ASSUME NEW h \in Handles, SetState(h) PROVE TypeOK'
  <2> DEFINE f == frame[h]
             n == IF f.next < SlaveCnt THEN [f EXCEPT !.next = @ + 1]
                                       ELSE [f EXCEPT !.at = "write_state"]
  <2>1. f.next \in Entries /\ f.state \in StatusType
    BY <1>f, StatusOfAlState DEF FrameType
  <2>2. f.next < SlaveCnt => f.next + 1 \in Entries
    BY <2>1, SlavesAssumption DEF Entries
  <2>3. n \in FrameType
    <3>1. [f EXCEPT !.at = "write_state"] \in FrameType
      BY <1>f DEF FrameType
    <3>2. f.next < SlaveCnt => [f EXCEPT !.next = f.next + 1] \in FrameType
      BY <2>2, <1>f, NextField
    <3>3. QED
      BY <3>1, <3>2
  <2> HIDE DEF n
  <2>4. Overwrite(h, n, {f.next})
    BY <1>5a DEF SetState, n
  <2>5. frame' \in [Handles -> FrameType]
    BY <2>3, <2>4, <1>t, OverwriteType
  <2>6. listed' \in [Entries -> StatusType]
    BY <1>5a, <2>1, <1>t DEF SetState
  <2>7. QED
    BY <1>5a, <2>5, <2>6, <1>t DEF SetState, TypeOK, errorList
<1>6. ASSUME NEW h \in Handles, WriteState(h) PROVE TypeOK'
  <2> DEFINE f == frame[h]
  <2>1. [f EXCEPT !.broadcast = listed[0]] \in FrameType
    <3>1. listed[0] \in StatusType
      BY <1>t, SlavesAssumption DEF Entries
    <3>2. QED
      BY <3>1, <1>f, BroadcastField
  <2>2. [f EXCEPT !.failure = "SetState"] \in FrameType
    <3>1. "SetState" \in DrainedErrors
      BY DEF DrainedErrors, MailboxErrors
    <3>2. QED
      BY <3>1, <1>f, FailureField
  <2>3. frame' \in [Handles -> FrameType]
    BY <1>6, <2>1, <2>2, <1>t, <1>f, ReturnType, GotoType DEF WriteState
  <2>4. QED
    BY <1>6, <2>3, <1>n DEF WriteState
<1>7. ASSUME NEW h \in Handles, NEW s \in Requests, CheckStates(h, s) PROVE TypeOK'
  <2> DEFINE read == UNION {actual[i] : i \in Slaves}
             found == read \ {ErrorBit}
             f == Frame("check", s)
  <2>1. f \in FrameType
    BY RequestAssumption, NewFrameType
  <2>2. listed' \in [Entries -> StatusType]
    BY <1>7, <1>t, ReadTypes DEF CheckStates
  <2>3. CASE /\ MayFail
             /\ Overwrite(h, [f EXCEPT !.at = "drain", !.failure = "CheckState",
                                       !.mark = occurred'], {0})
    <3>1. occurred' \in Nat
      BY <2>3, <1>o
    <3>2. [f EXCEPT !.at = "drain", !.failure = "CheckState", !.mark = occurred']
            \in FrameType
      BY <2>1, <3>1 DEF FrameType, DrainedErrors, MailboxErrors
    <3>3. frame' \in [Handles -> FrameType]
      BY <2>3, <3>2, <1>t, OverwriteType
    <3>4. errors' \in Seq(Nat) /\ Len(errors') <= ErrListSize
      BY <2>3, <1>t, MayFailType
    <3>5. QED
      BY <1>7, <2>2, <3>1, <3>3, <3>4, <1>t DEF CheckStates, TypeOK
  <2>4. CASE Overwrite(h, Checked(f, found), {0}) /\ UNCHANGED errorList
    <3>0. read \ {ErrorBit} \in StatusType /\ actual \in [Slaves -> StatusType]
      BY ReadTypes
    <3> HIDE DEF read
    <3>1. found \in StatusType /\ actual \in [Slaves -> StatusType]
      BY <3>0
    <3> HIDE DEF found
    <3>2. [f EXCEPT !.reply = [i \in Slaves |-> found], !.seen = actual] \in FrameType
      BY <2>1, <3>1 DEF FrameType
    <3> DEFINE answer == [f EXCEPT !.reply = [i \in Slaves |-> found], !.seen = actual]
    <3>a. Checked(f, found) = IF found \in AlState THEN Returned(answer, "Ok")
                                                  ELSE Returned(f, "CheckState")
      BY DEF Checked
    <3> HIDE DEF f, answer
    <3>3. Checked(f, found) \in FrameType
      <4>1. Returned(answer, "Ok") \in FrameType
        BY <3>2, ReturnedType DEF answer
      <4>2. Returned(f, "CheckState") \in FrameType
        BY <2>1, ReturnedType DEF DrainedErrors, MailboxErrors
      <4>3. QED
        BY <3>a, <4>1, <4>2
    <3>4. frame' \in [Handles -> FrameType]
      BY <2>4, <3>3, <1>t, OverwriteType
    <3>5. QED
      BY <1>7, <2>2, <2>4, <3>4, <1>t DEF CheckStates, TypeOK, errorList
  <2>5. QED
    BY <1>7, <2>3, <2>4 DEF CheckStates
<1>8. ASSUME NEW h \in Handles, ReadState(h) PROVE TypeOK'
  <2> DEFINE f == Frame("states", {})
  <2>1. f \in FrameType
    BY NewFrameType
  <2>2. listed' \in [Entries -> StatusType]
    <3>1. PICK i \in Slaves :
            listed' = [j \in Entries |-> IF j = 0 THEN actual[i] ELSE actual[j]]
      BY <1>8 DEF ReadState
    <3>2. ASSUME NEW j \in Entries PROVE (IF j = 0 THEN actual[i] ELSE actual[j]) \in StatusType
      BY <1>t, ReadTypes, SlavesAssumption DEF Slaves, Entries
    <3>3. QED
      BY <3>1, <3>2
  <2>3. CASE /\ Overwrite(h, [f EXCEPT !.at = "collect", !.next = 1, !.seen = actual],
                           Entries)
             /\ UNCHANGED errorList
    <3>0. 1 \in Entries
      BY SlavesAssumption DEF Entries
    <3>1. [f EXCEPT !.at = "collect", !.next = 1, !.seen = actual] \in FrameType
      BY <2>1, <3>0, ReadTypes DEF FrameType
    <3>2. frame' \in [Handles -> FrameType]
      BY <2>3, <3>1, <1>t, OverwriteType
    <3>3. QED
      BY <1>8, <2>2, <2>3, <3>2, <1>t DEF ReadState, TypeOK, errorList
  <2>4. CASE /\ MayFail
             /\ Overwrite(h, [f EXCEPT !.at = "drain", !.failure = "ReadStates",
                                       !.mark = occurred'], Entries)
    <3>1. occurred' \in Nat
      BY <2>4, <1>o
    <3>2. [f EXCEPT !.at = "drain", !.failure = "ReadStates", !.mark = occurred']
            \in FrameType
      BY <2>1, <3>1 DEF FrameType, DrainedErrors, MailboxErrors
    <3>3. frame' \in [Handles -> FrameType]
      BY <2>4, <3>2, <1>t, OverwriteType
    <3>4. errors' \in Seq(Nat) /\ Len(errors') <= ErrListSize
      BY <2>4, <1>t, MayFailType
    <3>5. QED
      BY <1>8, <2>2, <3>1, <3>3, <3>4, <1>t DEF ReadState, TypeOK
  <2>5. QED
    BY <1>8, <2>3, <2>4 DEF ReadState
<1>9. ASSUME NEW h \in Handles, Collect(h) PROVE TypeOK'
  <2> DEFINE f == frame[h]
             r == [f.reply EXCEPT ![f.next] = slave_state(f.next)]
             more == [f EXCEPT !.reply = r]
  <2>1. f.next \in Entries /\ f.reply \in [Slaves -> StatusType]
    BY <1>f DEF FrameType
  <2>2. slave_state(f.next) \in StatusType
    BY <2>1, <1>t DEF slave_state
  <2>3. r \in [Slaves -> StatusType]
    BY <2>1, <2>2
  <2> HIDE DEF r
  <2>4. more \in FrameType /\ more.next = f.next
    <3>1. more \in FrameType
      BY <2>3, <1>f, ReplyField
    <3>2. more.next = f.next
      BY <1>f DEF FrameType
    <3>3. QED
      BY <3>1, <3>2
  <2>5. \/ f.next < SlaveCnt /\ Goto(h, [more EXCEPT !.next = @ + 1], "collect")
        \/ Return(h, more, "Ok")
        \/ Return(h, Frame("states", {}), "AlState")
    BY <1>9 DEF Collect, r
  <2> HIDE DEF more
  <2>6. f.next < SlaveCnt => [more EXCEPT !.next = more.next + 1] \in FrameType
    BY <2>1, <2>4, SlavesAssumption, NextField DEF Entries
  <2>7. Frame("states", {}) \in FrameType
    BY NewFrameType
  <2>8. frame' \in [Handles -> FrameType]
    BY <2>4, <2>5, <2>6, <2>7, <1>t, ReturnType, GotoType
  <2>9. QED
    BY <1>9, <2>8, <1>n DEF Collect
<1>10. ASSUME NEW h \in Handles, NEW err \in MailboxErrors, Sdo(h, err)
            PROVE  TypeOK'
  <2>1. Frame("sdo", {}) \in FrameType
    BY NewFrameType
  <2>2. frame' \in [Handles -> FrameType]
    BY <1>10, <2>1, <1>o, <1>t, ReturnType, DrainType DEF Sdo, DrainedErrors, MailboxErrors
  <2>3. QED
    BY <1>10, <2>2, <1>n DEF Sdo
<1>11. CASE SlaveMoves
  <2>1. PICK i \in Slaves : \E s \in Statuses[i] : actual' = [actual EXCEPT ![i] = s]
    BY <1>11 DEF SlaveMoves
  <2>2. PICK s \in Statuses[i] : actual' = [actual EXCEPT ![i] = s]
    BY <2>1
  <2>3. s \in StatusType
    BY <2>2, StatusAssumption
  <2>4. actual' \in BusStatuses
    BY <1>t, <2>2, <2>3 DEF BusStatuses
  <2>5. QED
    BY <1>11, <1>t, <2>4 DEF SlaveMoves, TypeOK, errorList
<1>12. CASE UNCHANGED vars
  BY <1>12, <1>t DEF vars, TypeOK, errorList
<1>13. QED
  BY <1>1, <1>2, <1>3, <1>4, <1>5, <1>5a, <1>6, <1>7, <1>8, <1>9, <1>10, <1>11,
     <1>12 DEF Next

\* The context and the calls in progress keep their types, for any number of
\* handles, slaves and errors.
THEOREM TypeCorrect == Spec => []TypeOK
  BY TypeOKInit, TypeOKNext, PTL DEF Spec

----------------------------------------------------------------------------
(* What the calls of one handle leave alone in the frame of another.       *)

\* Nothing but the marks of the entries that another handle has overwritten, which
\* are set where that matters.
Kept(g) ==
  LET f == frame[g]
      n == frame'[g]
  IN  /\ n.name = f.name /\ n.state = f.state /\ n.at = f.at /\ n.next = f.next
      /\ n.failure = f.failure /\ n.outcome = f.outcome
      /\ n.reply = f.reply /\ n.seen = f.seen /\ n.broadcast = f.broadcast
      /\ n.mark = f.mark
      /\ f.overwritten \subseteq n.overwritten
      /\ \A i \in Pending(f) : i \in n.overwritten \/ listed'[i] = listed[i]

LEMMA SetFrame ==
  ASSUME TypeOK, NEW h \in Handles, NEW f, frame' = [frame EXCEPT ![h] = f],
         UNCHANGED listed
  PROVE  frame'[h] = f /\ \A g \in Handles \ {h} : Kept(g)
<1>1. DOMAIN frame = Handles
  BY DEF TypeOK
<1>2. \A g \in Handles \ {h} : frame'[g] = frame[g]
  BY <1>1
<1>3. QED
  BY <1>1, <1>2 DEF Kept

LEMMA OverwriteFrame ==
  ASSUME TypeOK, NEW h \in Handles, NEW f, NEW entries, Overwrite(h, f, entries),
         \A i \in Entries \ entries : listed'[i] = listed[i]
  PROVE  frame'[h] = f /\ \A g \in Handles \ {h} : Kept(g)
<1>1. frame'[h] = f
  BY DEF Overwrite
<1>2. ASSUME NEW g \in Handles \ {h} PROVE Kept(g)
  <2> DEFINE m == frame[g].overwritten \cup (entries \cap Pending(frame[g]))
  <2>1. frame[g] \in FrameType
    BY DEF TypeOK
  <2>2. frame'[g] = [frame[g] EXCEPT !.overwritten = m]
    BY DEF Overwrite
  <2> HIDE DEF m
  <2>3. frame'[g].overwritten = m
    BY <2>1, <2>2 DEF FrameType
  <2>4. /\ frame[g].overwritten \subseteq m
        /\ \A i \in Pending(frame[g]) : i \in m \/ listed'[i] = listed[i]
    BY DEF m, Pending
  <2>5. /\ frame'[g].name = frame[g].name /\ frame'[g].state = frame[g].state
        /\ frame'[g].at = frame[g].at /\ frame'[g].failure = frame[g].failure
        /\ frame'[g].outcome = frame[g].outcome /\ frame'[g].reply = frame[g].reply
        /\ frame'[g].seen = frame[g].seen /\ frame'[g].broadcast = frame[g].broadcast
        /\ frame'[g].mark = frame[g].mark /\ frame'[g].next = frame[g].next
    BY <2>1, <2>2 DEF FrameType
  <2>6. QED
    BY <2>3, <2>4, <2>5 DEF Kept
<1>3. QED
  BY <1>1, <1>2

\* check_states writes to entry 0, read_state to all entries.
LEMMA CheckStatesFrame ==
  ASSUME TypeOK, NEW h \in Handles, NEW s, CheckStates(h, s),
         NEW f, Overwrite(h, f, {0})
  PROVE  frame'[h] = f /\ \A g \in Handles \ {h} : Kept(g)
<1>1. \A i \in Entries \ {0} : listed'[i] = listed[i]
  BY DEF CheckStates, TypeOK
<1>2. QED
  BY <1>1, OverwriteFrame

LEMMA ReadStateFrame ==
  ASSUME TypeOK, NEW h \in Handles, NEW f, Overwrite(h, f, Entries)
  PROVE  frame'[h] = f /\ \A g \in Handles \ {h} : Kept(g)
  BY OverwriteFrame

\* A step of request_states in its loop.
LEMMA SetStateFrame ==
  ASSUME TypeOK, NEW h \in Handles, SetState(h)
  PROVE  /\ \A g \in Handles \ {h} : Kept(g)
         /\ \/ /\ frame[h].next < SlaveCnt
               /\ frame'[h] = [frame[h] EXCEPT !.next = frame[h].next + 1]
            \/ frame'[h] = [frame[h] EXCEPT !.at = "write_state"]
<1> DEFINE f == frame[h]
           n == IF f.next < SlaveCnt THEN [f EXCEPT !.next = @ + 1]
                                     ELSE [f EXCEPT !.at = "write_state"]
<1>1. Overwrite(h, n, {f.next})
  BY DEF SetState
<1>2. \A i \in Entries \ {f.next} : listed'[i] = listed[i]
  BY DEF SetState, TypeOK
<1> HIDE DEF n
<1>3. frame'[h] = n /\ \A g \in Handles \ {h} : Kept(g)
  BY <1>1, <1>2, OverwriteFrame
<1>4. QED
  BY <1>3 DEF n

\* How a step of the loop of states goes on.
LEMMA CollectFrame ==
  ASSUME TypeOK, NEW h \in Handles, Collect(h)
  PROVE  LET f == frame[h]
             n == frame'[h]
             r == [f.reply EXCEPT ![f.next] = listed[f.next]]
         IN  /\ \A g \in Handles \ {h} : Kept(g)
             /\ \/ /\ listed[f.next] \in AlState
                   /\ n.name = f.name /\ n.reply = r /\ n.seen = f.seen
                   /\ n.overwritten = f.overwritten /\ n.mark = f.mark
                   /\ \/ /\ f.next < SlaveCnt /\ n.at = "collect" /\ n.next = f.next + 1
                         /\ n.outcome = f.outcome
                      \/ f.next = SlaveCnt /\ n.at = "idle" /\ n.outcome = "Ok"
                \/ /\ listed[f.next] \notin AlState
                   /\ n.at = "idle" /\ n.outcome = "AlState" /\ n.mark = 0
<1> DEFINE f == frame[h]
           r == [f.reply EXCEPT ![f.next] = listed[f.next]]
           more == [f EXCEPT !.reply = r]
<1>1. /\ f \in FrameType /\ UNCHANGED listed
      /\ \/ /\ listed[f.next] \in AlState
            /\ \/ f.next < SlaveCnt /\ Goto(h, [more EXCEPT !.next = @ + 1], "collect")
               \/ f.next = SlaveCnt /\ Return(h, more, "Ok")
         \/ listed[f.next] \notin AlState /\ Return(h, Frame("states", {}), "AlState")
  BY DEF Collect, TypeOK, slave_state
<1> HIDE DEF r
<1>2. /\ more \in [DOMAIN f -> UNION {{more[x]} : x \in DOMAIN f}]
      /\ more.name = f.name /\ more.next = f.next /\ more.reply = r
      /\ more.seen = f.seen /\ more.overwritten = f.overwritten
      /\ more.outcome = f.outcome /\ more.mark = f.mark
  BY <1>1 DEF FrameType
<1>3. CASE listed[f.next] \in AlState /\ f.next < SlaveCnt
           /\ Goto(h, [more EXCEPT !.next = @ + 1], "collect")
  <2>1. frame'[h] = [[more EXCEPT !.next = @ + 1] EXCEPT !.at = "collect"]
        /\ \A g \in Handles \ {h} : Kept(g)
    BY <1>1, <1>3, SetFrame DEF Goto
  <2>2. QED
    BY <1>1, <1>3, <2>1 DEF FrameType, r
<1>4. CASE listed[f.next] \in AlState /\ f.next = SlaveCnt /\ Return(h, more, "Ok")
  <2>1. frame'[h] = Returned(more, "Ok") /\ \A g \in Handles \ {h} : Kept(g)
    BY <1>1, <1>4, SetFrame DEF Return
  <2>2. QED
    BY <1>1, <1>4, <2>1 DEF Returned, FrameType, r
<1>5. CASE listed[f.next] \notin AlState /\ Return(h, Frame("states", {}), "AlState")
  <2>1. frame'[h] = Returned(Frame("states", {}), "AlState")
        /\ \A g \in Handles \ {h} : Kept(g)
    BY <1>1, <1>5, SetFrame DEF Return
  <2>2. QED
    BY <1>5, <2>1 DEF Returned, Frame
<1>6. QED
  BY <1>1, <1>3, <1>4, <1>5

LEMMA UnchangedFrames ==
  ASSUME TypeOK, UNCHANGED <<listed, frame>>
  PROVE  \A g \in Handles : Kept(g)
  BY DEF Kept

----------------------------------------------------------------------------
(* The error list                                                          *)

\* How the error list can change in a step: errors are removed, and those that
\* are added are younger than all that have occurred.
ErrorStep ==
  /\ occurred <= occurred'
  /\ Len(errors') + occurred <= Len(errors) + occurred'
  /\ \A k \in DOMAIN errors' :
       errors'[k] > occurred \/ \E j \in DOMAIN errors : errors'[k] = errors[j]

LEMMA TailKeeps ==
  ASSUME NEW s \in Seq(Nat), s # <<>>
  PROVE  /\ Tail(s) \in Seq(Nat) /\ Len(Tail(s)) = Len(s) - 1
         /\ \A k \in DOMAIN Tail(s) : k + 1 \in DOMAIN s /\ Tail(s)[k] = s[k + 1]
  OBVIOUS

LEMMA AppendAdds ==
  ASSUME NEW s \in Seq(Nat), NEW e \in Nat
  PROVE  /\ Len(Append(s, e)) = Len(s) + 1
         /\ \A k \in DOMAIN Append(s, e) :
              Append(s, e)[k] = e \/ (k \in DOMAIN s /\ Append(s, e)[k] = s[k])
  OBVIOUS

LEMMA MayFailStep == ASSUME TypeOK, MayFail PROVE ErrorStep
<1>t. errors \in Seq(Nat) /\ occurred \in Nat /\ Len(errors) \in Nat
  BY DEF TypeOK
<1>1. CASE UNCHANGED errorList
  BY <1>1, <1>t DEF errorList, ErrorStep
<1>2. CASE /\ occurred' = occurred + 1
           /\ errors' = Append(IF Len(errors) = ErrListSize THEN Tail(errors) ELSE errors,
                               occurred + 1)
  <2> DEFINE old == IF Len(errors) = ErrListSize THEN Tail(errors) ELSE errors
  <2>1. /\ old \in Seq(Nat) /\ Len(old) \in Nat /\ Len(old) <= Len(errors)
        /\ \A k \in DOMAIN old : \E j \in DOMAIN errors : old[k] = errors[j]
    <3>1. CASE Len(errors) = ErrListSize
      <4>1. errors # <<>>
        BY <3>1, NumbersAssumption
      <4>2. QED
        BY <3>1, <4>1, <1>t, TailKeeps
    <3>2. CASE Len(errors) # ErrListSize
      BY <3>2, <1>t
    <3>3. QED
      BY <3>1, <3>2
  <2> HIDE DEF old
  <2>2. errors' = Append(old, occurred + 1) /\ occurred' = occurred + 1
    BY <1>2 DEF old
  <2>3. /\ Len(errors') = Len(old) + 1
        /\ \A k \in DOMAIN errors' :
             errors'[k] = occurred + 1 \/ (k \in DOMAIN old /\ errors'[k] = old[k])
    BY <2>1, <2>2, <1>t, AppendAdds
  <2>4. \A k \in DOMAIN errors' :
          errors'[k] > occurred \/ \E j \in DOMAIN errors : errors'[k] = errors[j]
    BY <2>1, <2>3, <1>t
  <2>5. occurred <= occurred' /\ Len(errors') + occurred <= Len(errors) + occurred'
    BY <2>1, <2>2, <2>3, <1>t
  <2>6. QED
    BY <2>4, <2>5 DEF ErrorStep
<1>3. QED
  BY <1>1, <1>2 DEF MayFail

LEMMA SameErrorsStep == ASSUME TypeOK, UNCHANGED errorList PROVE ErrorStep
  BY DEF TypeOK, errorList, ErrorStep

\* With debug logging an alarm is paid for by the errors that are in the list when
\* it is raised, and while these are drained by those that are older than its mark.
ErrorInv(h) ==
  LET f == frame[h]
  IN  /\ f.mark <= occurred
      /\ DebugLog /\ f.at = "drain" => alarms[h] <= f.mark
      /\ DebugLog /\ f.at # "drain" => alarms[h] + Len(errors) <= occurred
      /\ f.at # "idle" => f.outcome = "none"
      /\ f.failure # "none" /\ f.outcome = f.failure /\ Drains(f.failure) =>
           \A k \in DOMAIN errors : errors[k] > f.mark

ErrorIInv == TypeOK /\ \A h \in Handles : ErrorInv(h)

LEMMA ErrorInvKept ==
  ASSUME TypeOK, TypeOK', ErrorStep, NEW g \in Handles, ErrorInv(g), Kept(g),
         alarms'[g] = alarms[g]
  PROVE  ErrorInv(g)'
<1>1. /\ occurred \in Nat /\ occurred' \in Nat /\ Len(errors) \in Nat
      /\ Len(errors') \in Nat /\ alarms[g] \in Nat /\ frame[g].mark \in Nat
      /\ \A k \in DOMAIN errors : errors[k] \in Nat
      /\ \A k \in DOMAIN errors' : errors'[k] \in Nat
  BY DEF TypeOK, FrameType
<1>2. frame'[g].mark <= occurred'
  BY <1>1 DEF ErrorInv, Kept, ErrorStep
<1>3. DebugLog /\ frame'[g].at = "drain" => alarms'[g] <= frame'[g].mark
  BY DEF ErrorInv, Kept
<1>4. DebugLog /\ frame'[g].at # "drain" => alarms'[g] + Len(errors') <= occurred'
  <2>1. SUFFICES ASSUME DebugLog, frame[g].at # "drain" PROVE alarms[g] + Len(errors') <= occurred'
    BY DEF Kept
  <2>2. alarms[g] + Len(errors) <= occurred
    BY <2>1 DEF ErrorInv
  <2>3. Len(errors') + occurred <= Len(errors) + occurred'
    BY DEF ErrorStep
  <2>4. QED
    BY <2>2, <2>3, <1>1
<1>5. ASSUME frame'[g].failure # "none", frame'[g].outcome = frame'[g].failure,
             Drains(frame'[g].failure), NEW k \in DOMAIN errors'
      PROVE  errors'[k] > frame'[g].mark
  <2>1. /\ frame'[g].mark = frame[g].mark /\ frame[g].mark <= occurred
        /\ \A j \in DOMAIN errors : errors[j] > frame[g].mark
    BY <1>5 DEF ErrorInv, Kept
  <2>2. CASE errors'[k] > occurred
    BY <2>1, <2>2, <1>1
  <2>3. CASE \E j \in DOMAIN errors : errors'[k] = errors[j]
    BY <2>1, <2>3, <1>1
  <2>4. QED
    BY <2>2, <2>3, <1>5 DEF ErrorStep
<1>6. frame'[g].at # "idle" => frame'[g].outcome = "none"
  BY DEF ErrorInv, Kept
<1>7. QED
  BY <1>2, <1>3, <1>4, <1>5, <1>6 DEF ErrorInv

\* A step of a call that is not draining the list: another call begins, this one
\* goes on, fails or returns.
LEMMA ErrorInvStep ==
  ASSUME TypeOK, TypeOK', ErrorStep, NEW g \in Handles, ErrorInv(g),
         frame[g].at # "drain", alarms'[g] = alarms[g],
         frame'[g].mark <= occurred',
         frame'[g].at = "drain" => frame'[g].mark = occurred',
         frame'[g].at # "idle" => frame'[g].outcome = "none",
         frame'[g].outcome \notin DrainedErrors \/ errors' = <<>>
  PROVE  ErrorInv(g)'
<1>1. /\ occurred \in Nat /\ occurred' \in Nat /\ Len(errors) \in Nat
      /\ Len(errors') \in Nat /\ alarms[g] \in Nat
  BY DEF TypeOK
<1>2. /\ DebugLog => alarms[g] + Len(errors) <= occurred
      /\ Len(errors') + occurred <= Len(errors) + occurred' /\ occurred <= occurred'
  BY DEF ErrorInv, ErrorStep
<1>3. DebugLog => alarms'[g] + Len(errors') <= occurred' /\ alarms'[g] <= occurred'
  BY <1>1, <1>2
<1>4. frame'[g].failure \in DrainedErrors \cup {"none"}
  BY DEF TypeOK, FrameType
<1>5. ASSUME frame'[g].failure # "none", frame'[g].outcome = frame'[g].failure,
             NEW k \in DOMAIN errors'
      PROVE  errors'[k] > frame'[g].mark
  <2>1. errors' = <<>>
    BY <1>4, <1>5
  <2>2. QED
    BY <2>1, <1>5
<1>6. QED
  BY <1>3, <1>5 DEF ErrorInv

LEMMA ErrorIInvInit == Init => ErrorIInv
<1> SUFFICES ASSUME Init, NEW h \in Handles PROVE ErrorInv(h)
  BY TypeOKInit DEF ErrorIInv
<1>1. /\ frame[h].mark = 0 /\ frame[h].at = "idle" /\ frame[h].failure = "none"
      /\ alarms[h] = 0 /\ occurred = 0 /\ errors = <<>>
  BY DEF Init, Frame
<1>2. QED
  BY <1>1 DEF ErrorInv

LEMMA ErrorIInvNext == ErrorIInv /\ [Next]_vars => ErrorIInv'
<1> SUFFICES ASSUME ErrorIInv, [Next]_vars, NEW g \in Handles PROVE ErrorInv(g)'
  BY TypeOKNext DEF ErrorIInv
<1>t. TypeOK /\ TypeOK' /\ \A h \in Handles : ErrorInv(h)
  BY TypeOKNext DEF ErrorIInv
<1>n. /\ occurred \in Nat /\ occurred' \in Nat /\ 0 <= occurred'
      /\ \A h \in Handles : frame[h] \in FrameType
  BY <1>t DEF TypeOK
\* What has to be shown of a step of h that leaves the alarms alone.
<1>k. ASSUME NEW h \in Handles, ErrorStep, UNCHANGED alarms,
             \A x \in Handles \ {h} : Kept(x), g = h => ErrorInv(h)'
      PROVE  ErrorInv(g)'
  <2>1. CASE g = h
    BY <2>1, <1>k
  <2>2. CASE g # h
    <3>1. Kept(g) /\ alarms'[g] = alarms[g]
      BY <2>2, <1>k
    <3>2. QED
      BY <3>1, <1>t, <1>k, ErrorInvKept
  <2>3. QED
    BY <2>1, <2>2
<1>e. MayFail \/ UNCHANGED errorList => ErrorStep
  BY <1>t, MayFailStep, SameErrorsStep
<1>1. ASSUME NEW h \in Handles, SendProcessData(h) \/ RecvProcessData(h)
      PROVE  ErrorInv(g)'
  <2> DEFINE n == frame'[h]
  <2>2. ErrorStep /\ UNCHANGED <<listed, alarms>> /\ frame[h].at = "idle"
    BY <1>1, <1>e DEF SendProcessData, RecvProcessData, Idle
  <2>3. /\ n.at = "is_err" /\ n.outcome = "none" /\ n.mark = 0
        /\ \A x \in Handles \ {h} : Kept(x)
    <3>1. CASE SendProcessData(h)
      <4>1. n = [Frame("send", {}) EXCEPT !.failure = "SendProcessData", !.at = "is_err"]
            /\ \A x \in Handles \ {h} : Kept(x)
        BY <2>2, <3>1, <1>t, SetFrame DEF SendProcessData, Goto
      <4>2. QED
        BY <4>1 DEF Frame
    <3>2. CASE RecvProcessData(h)
      <4>1. PICK w \in -1..MaxWkc :
              Goto(h, [Frame("recv", {}) EXCEPT !.failure = "RecvProcessData",
                                                !.wkc = AsUsize(w)], "is_err")
        BY <3>2 DEF RecvProcessData
      <4>2. n = [Frame("recv", {}) EXCEPT !.failure = "RecvProcessData",
                                          !.wkc = AsUsize(w), !.at = "is_err"]
            /\ \A x \in Handles \ {h} : Kept(x)
        BY <2>2, <4>1, <1>t, SetFrame DEF Goto
      <4>3. QED
        BY <4>2 DEF Frame
    <3>3. QED
      BY <3>1, <3>2, <1>1
  <2>4. ErrorInv(h)'
    BY <2>2, <2>3, <1>t, <1>n, ErrorInvStep DEF DrainedErrors, MailboxErrors
  <2>5. QED
    BY <2>2, <2>3, <2>4, <1>k
<1>2. ASSUME NEW h \in Handles, IsErr(h) PROVE ErrorInv(g)'
  <2> DEFINE f == frame[h]
  <2>0. /\ f.at = "is_err" /\ f.outcome = "none" /\ f \in FrameType
        /\ f.mark <= occurred /\ f.mark \in Nat
    BY <1>2, <1>t, <1>n DEF IsErr, ErrorInv, FrameType
  <2>1. CASE /\ errors # <<>> /\ UNCHANGED <<listed, errorList>>
             /\ Drain(h, f, f.failure)
             /\ alarms' = [alarms EXCEPT ![h] = IF f.name = "request" THEN @ ELSE @ + 1]
    <3>1. ErrorStep /\ occurred' = occurred /\ errors' = errors
      BY <2>1, <1>e DEF errorList
    <3>2. /\ frame'[h] = [f EXCEPT !.at = "drain", !.failure = f.failure,
                                   !.mark = occurred']
          /\ \A x \in Handles \ {h} : Kept(x)
      BY <2>1, <1>t, SetFrame DEF Drain
    <3>3. CASE g # h
      <4>1. alarms'[g] = alarms[g] /\ Kept(g)
        BY <2>1, <3>2, <3>3, <1>t DEF TypeOK
      <4>2. QED
        BY <4>1, <3>1, <1>t, ErrorInvKept
    <3>4. CASE g = h
      <4>1. /\ frame'[h].at = "drain" /\ frame'[h].outcome = "none"
            /\ frame'[h].failure = f.failure /\ frame'[h].mark = occurred
        BY <2>0, <3>1, <3>2 DEF FrameType
      <4>2. /\ alarms[h] \in Nat /\ Len(errors) \in Nat /\ Len(errors) > 0
            /\ DebugLog => alarms[h] + Len(errors) <= occurred
        BY <2>0, <2>1, <1>t DEF TypeOK, ErrorInv
      <4>3. alarms'[h] <= alarms[h] + 1
        BY <2>1, <4>2, <1>t DEF TypeOK
      <4>4. alarms'[h] \in Nat
        BY <1>t DEF TypeOK
      <4>5. DebugLog => alarms'[h] <= occurred
        BY <4>2, <4>3, <4>4, <1>n
      <4>6. f.failure \in DrainedErrors \cup {"none"}
        BY <2>0 DEF FrameType
      <4>7. frame'[h].failure = "none" \/ frame'[h].outcome # frame'[h].failure
        BY <4>1, <4>6 DEF DrainedErrors, MailboxErrors
      <4>8. ErrorInv(h)'
        BY <4>1, <4>5, <4>7, <3>1, <1>n DEF ErrorInv
      <4>9. QED
        BY <4>8, <3>4
    <3>5. QED
      BY <3>3, <3>4
  <2>2. CASE /\ errors = <<>> /\ UNCHANGED <<listed, errorList, alarms>>
             /\ Return(h, f, IF f.name = "request" THEN f.failure ELSE "Ok")
    <3>1. ErrorStep /\ errors' = <<>> /\ occurred' = occurred
      BY <2>2, <1>e DEF errorList
    <3>2. /\ frame'[h] = Returned(f, IF f.name = "request" THEN f.failure ELSE "Ok")
          /\ \A x \in Handles \ {h} : Kept(x)
      BY <2>2, <1>t, SetFrame DEF Return
    <3>3. frame'[h].at = "idle" /\ frame'[h].mark = f.mark
      BY <2>0, <3>2 DEF Returned, FrameType
    <3>4. ErrorInv(h)'
      BY <2>0, <2>2, <3>1, <3>3, <1>t, ErrorInvStep
    <3>5. QED
      BY <2>2, <3>1, <3>2, <3>4, <1>k
  <2>3. QED
    BY <1>2, <2>1, <2>2 DEF IsErr
<1>3. ASSUME NEW h \in Handles, PopError(h) PROVE ErrorInv(g)'
  <2> DEFINE f == frame[h]
  <2>0. /\ f.at = "drain" /\ f \in FrameType /\ ErrorInv(h)
        /\ UNCHANGED <<listed, occurred, alarms>>
    BY <1>3, <1>t, <1>n DEF PopError
  <2>1. CASE errors # <<>> /\ errors' = Tail(errors) /\ UNCHANGED frame
    <3>1. ErrorStep
      <4>1. errors \in Seq(Nat) /\ Len(errors) \in Nat
        BY <1>t DEF TypeOK
      <4>2. /\ Len(errors') = Len(errors) - 1
            /\ \A k \in DOMAIN errors' :
                 k + 1 \in DOMAIN errors /\ errors'[k] = errors[k + 1]
        BY <2>1, <4>1, TailKeeps
      <4>3. Len(errors') + occurred <= Len(errors) + occurred'
        BY <2>0, <4>1, <4>2, <1>n
      <4>4. QED
        BY <2>0, <4>2, <4>3, <1>n DEF ErrorStep
    <3>2. Kept(g) /\ alarms'[g] = alarms[g]
      BY <2>0, <2>1, <1>t, UnchangedFrames
    <3>3. QED
      BY <3>1, <3>2, <1>t, ErrorInvKept
  <2>2. CASE /\ ~Drains(f.failure) \/ errors = <<>>
             /\ Return(h, f, f.failure) /\ UNCHANGED errors
    <3>1. ErrorStep
      BY <2>0, <2>2, <1>e DEF errorList
    <3>2. /\ frame'[h] = Returned(f, f.failure)
          /\ \A x \in Handles \ {h} : Kept(x)
      BY <2>0, <2>2, <1>t, SetFrame DEF Return
    <3>3. /\ frame'[h].at = "idle" /\ frame'[h].mark = f.mark
          /\ frame'[h].failure = f.failure
      BY <2>0, <3>2 DEF Returned, FrameType
    <3>4. /\ f.mark <= occurred /\ f.mark \in Nat /\ alarms[h] \in Nat
          /\ DebugLog => alarms[h] <= f.mark
      BY <2>0, <1>t DEF ErrorInv, FrameType, TypeOK
    <3>5. DebugLog => alarms'[h] + Len(errors') <= occurred'
      BY <2>0, <2>2, <3>4, <1>n DEF Drains
    <3>6. Drains(f.failure) => \A k \in DOMAIN errors' : errors'[k] > f.mark
      BY <2>2
    <3>7. ErrorInv(h)'
      BY <2>0, <2>2, <3>3, <3>4, <3>5, <3>6 DEF ErrorInv
    <3>8. QED
      BY <2>0, <3>1, <3>2, <3>7, <1>k
  <2>3. QED
    BY <1>3, <2>1, <2>2 DEF PopError
<1>4. ASSUME NEW h \in Handles, NEW s \in Requests, RequestStates(h, s)
      PROVE  ErrorInv(g)'
  <2>1. ErrorStep /\ UNCHANGED alarms /\ frame[h].at = "idle"
    BY <1>4, <1>e DEF RequestStates, Idle
  <2>2. /\ frame'[h] = [Frame("request", s) EXCEPT !.at = "set_states"]
        /\ \A x \in Handles \ {h} : Kept(x)
    BY <1>4, <1>t, SetFrame DEF RequestStates, Goto
  <2>3. /\ frame'[h].at = "set_states" /\ frame'[h].outcome = "none"
        /\ frame'[h].mark = 0
    BY <2>2 DEF Frame
  <2>4. ErrorInv(h)'
    BY <2>1, <2>3, <1>t, <1>n, ErrorInvStep DEF DrainedErrors, MailboxErrors
  <2>5. QED
    BY <2>1, <2>2, <2>4, <1>k
<1>4a. ASSUME NEW h \in Handles, SetState(h) PROVE ErrorInv(g)'
  <2> DEFINE f == frame[h]
             n == frame'[h]
  <2>1. /\ f.at = "set_states" /\ f.outcome = "none" /\ f \in FrameType
        /\ f.mark <= occurred /\ UNCHANGED alarms /\ UNCHANGED errorList
    BY <1>4a, <1>t, <1>n DEF SetState, ErrorInv
  <2>2. ErrorStep /\ occurred' = occurred
    BY <2>1, <1>e DEF errorList
  <2>3. /\ n.mark = f.mark /\ n.at \in {"set_states", "write_state"}
        /\ n.outcome = "none" /\ \A x \in Handles \ {h} : Kept(x)
    BY <1>4a, <2>1, <1>t, SetStateFrame DEF FrameType
  <2>4. ErrorInv(h)'
    BY <2>1, <2>2, <2>3, <1>t, ErrorInvStep DEF DrainedErrors, MailboxErrors
  <2>5. QED
    BY <2>1, <2>2, <2>3, <2>4, <1>k
<1>5. ASSUME NEW h \in Handles, WriteState(h) PROVE ErrorInv(g)'
  <2> DEFINE f == frame[h]
  <2>0. /\ f.at = "write_state" /\ f.outcome = "none" /\ f \in FrameType
        /\ f.mark <= occurred /\ f.mark \in Nat /\ ErrorInv(h)
        /\ UNCHANGED <<listed, alarms>>
    BY <1>5, <1>t, <1>n DEF WriteState, ErrorInv, FrameType
  <2>1. ErrorStep
    BY <1>5, <1>e DEF WriteState
  <2> DEFINE n == frame'[h]
  <2>3. /\ \A x \in Handles \ {h} : Kept(x)
        /\ n.mark = f.mark
        /\ \/ n.at = "idle" /\ n.outcome \in {"NoFrame", "Ok"}
           \/ n.at = "is_err" /\ n.outcome = "none"
    <3>1. CASE Return(h, f, "NoFrame")
      <4>1. n = Returned(f, "NoFrame")
            /\ \A x \in Handles \ {h} : Kept(x)
        BY <2>0, <3>1, <1>t, SetFrame DEF Return
      <4>2. QED
        BY <2>0, <4>1 DEF Returned, FrameType
    <3>2. CASE Return(h, [f EXCEPT !.broadcast = listed[0]], "Ok")
      <4>1. n = Returned([f EXCEPT !.broadcast = listed[0]], "Ok")
            /\ \A x \in Handles \ {h} : Kept(x)
        BY <2>0, <3>2, <1>t, SetFrame DEF Return
      <4>2. QED
        BY <2>0, <4>1 DEF Returned, FrameType
    <3>3. CASE Goto(h, [f EXCEPT !.failure = "SetState"], "is_err")
      <4>1. n = [f EXCEPT !.failure = "SetState", !.at = "is_err"]
            /\ \A x \in Handles \ {h} : Kept(x)
        BY <2>0, <3>3, <1>t, SetFrame DEF Goto
      <4>2. QED
        BY <2>0, <4>1 DEF FrameType
    <3>4. QED
      BY <3>1, <3>2, <3>3, <1>5 DEF WriteState
  <2>4. n.mark <= occurred'
    BY <2>0, <2>1, <2>3, <1>n DEF ErrorStep
  <2>5. n.outcome \notin DrainedErrors
    BY <2>3 DEF DrainedErrors, MailboxErrors
  <2>6. ErrorInv(h)'
    BY <2>0, <2>1, <2>3, <2>4, <2>5, <1>t, ErrorInvStep
  <2>7. QED
    BY <2>0, <2>1, <2>3, <2>6, <1>k
<1>6. ASSUME NEW h \in Handles, NEW s \in Requests, CheckStates(h, s)
      PROVE  ErrorInv(g)'
  <2> DEFINE found == (UNION {actual[i] : i \in Slaves}) \ {ErrorBit}
             f == Frame("check", s)
  <2>1. ErrorStep /\ UNCHANGED alarms /\ frame[h].at = "idle"
    BY <1>6, <1>e DEF CheckStates, Idle
  <2> DEFINE n == frame'[h]
  <2>2. /\ \/ /\ n.at = "drain" /\ n.outcome = "none" /\ n.mark = occurred'
           \/ n = Checked(f, found)
        /\ \A x \in Handles \ {h} : Kept(x)
    <3>1. CASE Overwrite(h, [f EXCEPT !.at = "drain", !.failure = "CheckState",
                                      !.mark = occurred'], {0})
      <4>1. n = [f EXCEPT !.at = "drain", !.failure = "CheckState", !.mark = occurred']
            /\ \A x \in Handles \ {h} : Kept(x)
        BY <3>1, <1>6, <1>t, CheckStatesFrame
      <4>2. QED
        BY <4>1 DEF Frame
    <3>2. CASE Overwrite(h, Checked(f, found), {0})
      BY <3>2, <1>6, <1>t, CheckStatesFrame
    <3>3. QED
      BY <3>1, <3>2, <1>6 DEF CheckStates
  <2>3. /\ Checked(f, found).at = "idle" /\ Checked(f, found).mark = 0
        /\ Checked(f, found).failure = "none"
    BY DEF Checked, Returned, Frame
  <2> HIDE DEF f, found
  <2>5. CASE n.at = "drain" /\ n.outcome = "none" /\ n.mark = occurred'
    <3>1. ErrorInv(h)'
      BY <2>1, <2>5, <1>t, <1>n, ErrorInvStep DEF DrainedErrors, MailboxErrors
    <3>2. QED
      BY <2>1, <2>2, <3>1, <1>k
  <2>6. CASE n = Checked(f, found)
    <3>1. n.at = "idle" /\ n.mark = 0 /\ n.failure = "none"
      BY <2>3, <2>6
    <3>2. DebugLog => alarms[h] + Len(errors) <= occurred
      BY <2>1, <1>t DEF ErrorInv
    <3>3. Len(errors') + occurred <= Len(errors) + occurred'
      BY <2>1 DEF ErrorStep
    <3>4. alarms'[h] = alarms[h] /\ alarms[h] \in Nat /\ Len(errors) \in Nat
            /\ Len(errors') \in Nat
      BY <2>1, <1>t DEF TypeOK
    <3>5. DebugLog => alarms'[h] + Len(errors') <= occurred'
      BY <3>2, <3>3, <3>4, <1>n
    <3>6. ErrorInv(h)'
      BY <3>1, <3>5, <1>n DEF ErrorInv
    <3>7. QED
      BY <2>1, <2>2, <3>6, <1>k
  <2>7. QED
    BY <2>2, <2>5, <2>6
<1>7. ASSUME NEW h \in Handles, ReadState(h) PROVE ErrorInv(g)'
  <2>1. ErrorStep /\ UNCHANGED alarms /\ frame[h].at = "idle"
    BY <1>7, <1>e DEF ReadState, Idle
  <2> DEFINE n == frame'[h]
             f == Frame("states", {})
  <2>2. /\ n.outcome = "none"
        /\ \/ n.at = "drain" /\ n.mark = occurred'
           \/ n.at = "collect" /\ n.mark = 0
        /\ \A x \in Handles \ {h} : Kept(x)
    <3>1. CASE Overwrite(h, [f EXCEPT !.at = "collect", !.next = 1, !.seen = actual], Entries)
      <4>1. n = [f EXCEPT !.at = "collect", !.next = 1, !.seen = actual]
            /\ \A x \in Handles \ {h} : Kept(x)
        BY <3>1, <1>t, ReadStateFrame
      <4>2. QED
        BY <4>1 DEF Frame
    <3>2. CASE Overwrite(h, [f EXCEPT !.at = "drain", !.failure = "ReadStates",
                                      !.mark = occurred'], Entries)
      <4>1. n = [f EXCEPT !.at = "drain", !.failure = "ReadStates", !.mark = occurred']
            /\ \A x \in Handles \ {h} : Kept(x)
        BY <3>2, <1>t, ReadStateFrame
      <4>2. QED
        BY <4>1 DEF Frame
    <3>3. QED
      BY <3>1, <3>2, <1>7 DEF ReadState
  <2>3. ErrorInv(h)'
    BY <2>1, <2>2, <1>t, <1>n, ErrorInvStep DEF DrainedErrors, MailboxErrors
  <2>4. QED
    BY <2>1, <2>2, <2>3, <1>k
<1>8. ASSUME NEW h \in Handles, Collect(h) PROVE ErrorInv(g)'
  <2> DEFINE f == frame[h]
             n == frame'[h]
  <2>0. /\ f.at = "collect" /\ f.outcome = "none" /\ f.mark <= occurred
        /\ UNCHANGED alarms /\ UNCHANGED errorList
    BY <1>8, <1>t, <1>n DEF Collect, ErrorInv
  <2>1. ErrorStep /\ occurred' = occurred
    BY <2>0, <1>e DEF errorList
  <2>2. /\ n.mark = f.mark \/ n.mark = 0
        /\ \/ n.at = "collect" /\ n.outcome = "none"
           \/ n.at = "idle" /\ n.outcome \in {"Ok", "AlState"}
        /\ \A x \in Handles \ {h} : Kept(x)
    BY <1>8, <2>0, <1>t, CollectFrame
  <2>3. n.outcome \notin DrainedErrors
    BY <2>2 DEF DrainedErrors, MailboxErrors
  <2>4. n.mark <= occurred'
    BY <2>0, <2>1, <2>2, <1>n
  <2>5. ErrorInv(h)'
    BY <2>0, <2>1, <2>2, <2>3, <2>4, <1>t, ErrorInvStep
  <2>6. QED
    BY <2>0, <2>1, <2>2, <2>5, <1>k
<1>9. ASSUME NEW h \in Handles, NEW err \in MailboxErrors, Sdo(h, err)
            PROVE  ErrorInv(g)'
  <2>1. ErrorStep /\ UNCHANGED <<listed, alarms>> /\ frame[h].at = "idle"
    BY <1>9, <1>e DEF Sdo, Idle
  <2> DEFINE n == frame'[h]
  <2>2. /\ \/ n.at = "idle" /\ n.outcome = "Ok" /\ n.mark = 0
           \/ n.at = "drain" /\ n.outcome = "none" /\ n.mark = occurred'
        /\ \A x \in Handles \ {h} : Kept(x)
    <3>1. CASE Return(h, Frame("sdo", {}), "Ok")
      <4>1. n = Returned(Frame("sdo", {}), "Ok")
            /\ \A x \in Handles \ {h} : Kept(x)
        BY <2>1, <3>1, <1>t, SetFrame DEF Return
      <4>2. QED
        BY <4>1 DEF Returned, Frame
    <3>2. CASE Drain(h, Frame("sdo", {}), err)
      <4>1. n = [Frame("sdo", {}) EXCEPT !.at = "drain", !.failure = err, !.mark = occurred']
            /\ \A x \in Handles \ {h} : Kept(x)
        BY <2>1, <3>2, <1>t, SetFrame DEF Drain
      <4>2. QED
        BY <4>1 DEF Frame
    <3>3. QED
      BY <3>1, <3>2, <1>9 DEF Sdo
  <2>3. n.outcome \notin DrainedErrors
    BY <2>2 DEF DrainedErrors, MailboxErrors
  <2>4. ErrorInv(h)'
    BY <2>1, <2>2, <2>3, <1>t, <1>n, ErrorInvStep
  <2>5. QED
    BY <2>1, <2>2, <2>4, <1>k
<1>10. CASE SlaveMoves \/ UNCHANGED vars
  <2>1. ErrorStep /\ UNCHANGED <<listed, frame>> /\ UNCHANGED alarms
    BY <1>10, <1>e DEF SlaveMoves, vars
  <2>2. Kept(g) /\ alarms'[g] = alarms[g]
    BY <2>1, <1>t, UnchangedFrames
  <2>3. QED
    BY <2>1, <2>2, <1>t, ErrorInvKept
<1>11. QED
  BY <1>1, <1>2, <1>3, <1>4, <1>4a, <1>5, <1>6, <1>7, <1>8, <1>9, <1>10 DEF Next

\* A call that reports an error after emptying the error list leaves no error
\* behind that is older than its failure, whatever the other handles do to the
\* list in between.
THEOREM FailureClears == Spec => []FailureClearsOlderErrors
<1>1. ErrorIInv => FailureClearsOlderErrors
  BY DEF ErrorIInv, ErrorInv, FailureClearsOlderErrors
<1>2. QED
  BY <1>1, ErrorIInvInit, ErrorIInvNext, PTL DEF Spec

\* With debug logging no handle raises more alarms for errors of others than errors
\* have occurred.
THEOREM AlarmsAreBounded == Spec => []AlarmsBounded
<1>1. ErrorIInv => AlarmsBounded
  <2> SUFFICES ASSUME ErrorIInv, DebugLog, NEW h \in Handles PROVE alarms[h] <= occurred
    BY DEF AlarmsBounded
  <2>1. /\ ErrorInv(h) /\ alarms[h] \in Nat /\ occurred \in Nat
        /\ Len(errors) \in Nat /\ frame[h].mark \in Nat
    BY DEF ErrorIInv, TypeOK, FrameType
  <2>2. CASE frame[h].at = "drain"
    BY <2>1, <2>2 DEF ErrorInv
  <2>3. CASE frame[h].at # "drain"
    BY <2>1, <2>3 DEF ErrorInv
  <2>4. QED
    BY <2>2, <2>3
<1>2. QED
  BY <1>1, ErrorIInvInit, ErrorIInvNext, PTL DEF Spec

----------------------------------------------------------------------------
(* AL states                                                               *)

\* Once request_states has set the entry for all slaves it holds the state that was
\* asked for, and while states collects the list the entries it has not come to hold
\* what was read, unless another handle has overwritten them.  is_err is not asked
\* in states, and in request_states only by a call that fails in any case.
StateInv(g) ==
  LET f == frame[g]
  IN  /\ f.at # "idle" => f.outcome = "none"
      /\ f.at = "is_err" => f.name \in {"send", "recv", "request"}
      /\ f.at \in {"set_states", "write_state"} => f.name = "request"
      /\ (f.at = "set_states" /\ f.next > 0) \/ f.at = "write_state" =>
           0 \in f.overwritten \/ listed[0] = f.state
      /\ f.at = "collect" => f.name = "states" /\ f.next > 0
      /\ f.at = "collect" => \A i \in Slaves :
           \/ i < f.next /\ f.reply[i] \in AlState
                /\ (i \in f.overwritten \/ f.reply[i] = f.seen[i])
           \/ i >= f.next /\ (i \in f.overwritten \/ listed[i] = f.seen[i])
      /\ f.name = "states" /\ f.outcome = "Ok" =>
           \A i \in Slaves : /\ f.reply[i] \in AlState
                             /\ i \in f.overwritten \/ f.reply[i] = f.seen[i]
      /\ /\ f.name = "check" /\ f.outcome = "Ok"
         /\ f.reply = [i \in Slaves |-> f.state] /\ f.state # Boot
         => \A i \in Slaves : f.seen[i] \ {ErrorBit} \in {{}, f.state}
      /\ f.name = "request" /\ f.outcome = "Ok" =>
           0 \in f.overwritten \/ f.broadcast = f.state

StateIInv == TypeOK /\ \A h \in Handles : StateInv(h)

LEMMA StateInvKept ==
  ASSUME NEW g \in Handles, StateInv(g), Kept(g)
  PROVE  StateInv(g)'
<1> DEFINE f == frame[g]
           n == frame'[g]
<1>1. /\ n.name = f.name /\ n.state = f.state /\ n.at = f.at /\ n.next = f.next
      /\ n.outcome = f.outcome /\ n.reply = f.reply /\ n.seen = f.seen
      /\ n.broadcast = f.broadcast /\ f.overwritten \subseteq n.overwritten
  BY DEF Kept
<1>2. /\ n.at # "idle" => n.outcome = "none"
      /\ n.at = "is_err" => n.name \in {"send", "recv", "request"}
      /\ n.at \in {"set_states", "write_state"} => n.name = "request"
      /\ n.at = "collect" => n.name = "states" /\ n.next > 0
  BY <1>1 DEF StateInv
<1>3. ASSUME (n.at = "set_states" /\ n.next > 0) \/ n.at = "write_state"
      PROVE  0 \in n.overwritten \/ listed'[0] = n.state
  <2>1. 0 \in Pending(f)
    BY <1>1, <1>3, SlavesAssumption DEF Pending, Entries
  <2>2. 0 \in n.overwritten \/ listed'[0] = listed[0]
    BY <2>1 DEF Kept
  <2>3. 0 \in f.overwritten \/ listed[0] = f.state
    BY <1>1, <1>3 DEF StateInv
  <2>4. QED
    BY <1>1, <2>2, <2>3
<1>4. ASSUME n.at = "collect", NEW i \in Slaves
      PROVE  \/ i < n.next /\ n.reply[i] \in AlState
                  /\ (i \in n.overwritten \/ n.reply[i] = n.seen[i])
             \/ i >= n.next /\ (i \in n.overwritten \/ listed'[i] = n.seen[i])
  <2>1. CASE i < f.next /\ f.reply[i] \in AlState
                /\ (i \in f.overwritten \/ f.reply[i] = f.seen[i])
    BY <1>1, <2>1
  <2>2. CASE i >= f.next /\ (i \in f.overwritten \/ listed[i] = f.seen[i])
    <3>1. i \in Pending(f)
      BY <1>1, <1>4, <2>2 DEF Pending, Entries, Slaves
    <3>2. i \in n.overwritten \/ listed'[i] = listed[i]
      BY <3>1 DEF Kept
    <3>3. QED
      BY <1>1, <2>2, <3>2
  <2>3. QED
    BY <1>1, <1>4, <2>1, <2>2 DEF StateInv
<1>5. n.name = "states" /\ n.outcome = "Ok" =>
        \A i \in Slaves : /\ n.reply[i] \in AlState
                          /\ i \in n.overwritten \/ n.reply[i] = n.seen[i]
  BY <1>1 DEF StateInv
<1>6. /\ n.name = "check" /\ n.outcome = "Ok"
      /\ n.reply = [i \in Slaves |-> n.state] /\ n.state # Boot
      => \A i \in Slaves : n.seen[i] \ {ErrorBit} \in {{}, n.state}
  BY <1>1 DEF StateInv
<1>7. n.name = "request" /\ n.outcome = "Ok" =>
        0 \in n.overwritten \/ n.broadcast = n.state
  BY <1>1 DEF StateInv
<1>8. QED
  BY <1>2, <1>3, <1>4, <1>5, <1>6, <1>7 DEF StateInv

\* A call that has not returned Ok and is not between its two halves.
LEMMA StateInvQuiet ==
  ASSUME NEW g \in Handles,
         frame'[g].outcome # "Ok",
         frame'[g].at # "idle" => frame'[g].outcome = "none",
         frame'[g].at \notin {"set_states", "write_state", "collect"},
         frame'[g].at = "is_err" => frame'[g].name \in {"send", "recv", "request"}
  PROVE  StateInv(g)'
  BY DEF StateInv

\* The codes of all AL states but Boot are single bits: a slave that adds nothing
\* to such a state is in it, or does not answer.
LEMMA SharedState ==
  ASSUME TypeOK, NEW s \in AlState \ {Boot},
         (UNION {actual[i] : i \in Slaves}) \ {ErrorBit} = s, NEW j \in Slaves
  PROVE  actual[j] \ {ErrorBit} \in {{}, s}
<1>1. actual[j] \ {ErrorBit} \subseteq s
  BY DEF TypeOK
<1>2. \E b \in 0..3 : s = {b}
  BY DEF AlState, Boot, Init_, PreOp, SafeOp, Op
<1>3. QED
  BY <1>1, <1>2

LEMMA StateIInvInit == Init => StateIInv
<1> SUFFICES ASSUME Init, NEW h \in Handles PROVE StateInv(h)
  BY TypeOKInit DEF StateIInv
<1>1. frame[h].at = "idle" /\ frame[h].name = "none"
  BY DEF Init, Frame
<1>2. QED
  BY <1>1 DEF StateInv

LEMMA StateIInvNext == StateIInv /\ [Next]_vars => StateIInv'
<1> SUFFICES ASSUME StateIInv, [Next]_vars, NEW g \in Handles PROVE StateInv(g)'
  BY TypeOKNext DEF StateIInv
<1>t. TypeOK /\ \A h \in Handles : StateInv(h)
  BY DEF StateIInv
<1>f. \A h \in Handles : frame[h] \in FrameType
  BY <1>t DEF TypeOK
\* What has to be shown of a step of h.
<1>k. ASSUME NEW h \in Handles, \A x \in Handles \ {h} : Kept(x), StateInv(h)'
      PROVE  StateInv(g)'
  BY <1>k, <1>t, StateInvKept
<1>1. ASSUME NEW h \in Handles, SendProcessData(h) PROVE StateInv(g)'
  <2> DEFINE n == frame'[h]
  <2>1. n = [Frame("send", {}) EXCEPT !.failure = "SendProcessData", !.at = "is_err"]
        /\ \A x \in Handles \ {h} : Kept(x)
    BY <1>1, <1>t, SetFrame DEF SendProcessData, Goto
  <2>2. n.at = "is_err" /\ n.outcome = "none" /\ n.name = "send"
    BY <2>1 DEF Frame
  <2>3. QED
    BY <2>1, <2>2, <1>k, StateInvQuiet
<1>2. ASSUME NEW h \in Handles, RecvProcessData(h) PROVE StateInv(g)'
  <2> DEFINE n == frame'[h]
  <2>1. PICK w \in -1..MaxWkc :
          Goto(h, [Frame("recv", {}) EXCEPT !.failure = "RecvProcessData",
                                            !.wkc = AsUsize(w)], "is_err")
    BY <1>2 DEF RecvProcessData
  <2>2. n = [Frame("recv", {}) EXCEPT !.failure = "RecvProcessData",
                                      !.wkc = AsUsize(w), !.at = "is_err"]
        /\ \A x \in Handles \ {h} : Kept(x)
    BY <1>2, <2>1, <1>t, SetFrame DEF RecvProcessData, Goto
  <2>3. n.at = "is_err" /\ n.outcome = "none" /\ n.name = "recv"
    BY <2>2 DEF Frame
  <2>4. QED
    BY <2>2, <2>3, <1>k, StateInvQuiet
<1>3. ASSUME NEW h \in Handles, IsErr(h) PROVE StateInv(g)'
  <2> DEFINE f == frame[h]
             n == frame'[h]
  <2>0. /\ f.at = "is_err" /\ f.outcome = "none" /\ f \in FrameType
        /\ f.name \in {"send", "recv", "request"} /\ UNCHANGED listed
        /\ f.failure # "Ok"
    BY <1>3, <1>t, <1>f DEF IsErr, StateInv, FrameType, DrainedErrors, MailboxErrors
  <2>1. CASE Drain(h, f, f.failure)
    <3>1. n = [f EXCEPT !.at = "drain", !.failure = f.failure, !.mark = occurred']
          /\ \A x \in Handles \ {h} : Kept(x)
      BY <2>0, <2>1, <1>t, SetFrame DEF Drain
    <3>2. n.at = "drain" /\ n.outcome = "none"
      BY <2>0, <3>1 DEF FrameType
    <3>3. QED
      BY <3>1, <3>2, <1>k, StateInvQuiet
  <2>2. CASE Return(h, f, IF f.name = "request" THEN f.failure ELSE "Ok")
    <3>1. n = Returned(f, IF f.name = "request" THEN f.failure ELSE "Ok")
          /\ \A x \in Handles \ {h} : Kept(x)
      BY <2>0, <2>2, <1>t, SetFrame DEF Return
    <3>2. /\ n.at = "idle" /\ n.name = f.name
          /\ n.outcome = IF f.name = "request" THEN f.failure ELSE "Ok"
      BY <2>0, <3>1 DEF Returned, FrameType
    <3>3. StateInv(h)'
      BY <2>0, <3>2 DEF StateInv
    <3>4. QED
      BY <3>1, <3>3, <1>k
  <2>3. QED
    BY <1>3, <2>1, <2>2 DEF IsErr
<1>4. ASSUME NEW h \in Handles, PopError(h) PROVE StateInv(g)'
  <2> DEFINE f == frame[h]
             n == frame'[h]
  <2>0. f \in FrameType /\ f.failure # "Ok" /\ UNCHANGED listed
    BY <1>4, <1>f DEF PopError, FrameType, DrainedErrors, MailboxErrors
  <2>1. CASE UNCHANGED frame
    BY <2>0, <2>1, <1>t, UnchangedFrames, StateInvKept
  <2>2. CASE Return(h, f, f.failure)
    <3>1. n = Returned(f, f.failure) /\ \A x \in Handles \ {h} : Kept(x)
      BY <2>0, <2>2, <1>t, SetFrame DEF Return
    <3>2. n.at = "idle" /\ n.outcome = f.failure
      BY <2>0, <3>1 DEF Returned, FrameType
    <3>3. QED
      BY <2>0, <3>1, <3>2, <1>k, StateInvQuiet
  <2>3. QED
    BY <1>4, <2>1, <2>2 DEF PopError
<1>5. ASSUME NEW h \in Handles, NEW s \in Requests, RequestStates(h, s)
      PROVE  StateInv(g)'
  <2> DEFINE n == frame'[h]
  <2>1. n = [Frame("request", s) EXCEPT !.at = "set_states"]
        /\ \A x \in Handles \ {h} : Kept(x)
    BY <1>5, <1>t, SetFrame DEF RequestStates, Goto
  <2>2. n.at = "set_states" /\ n.outcome = "none" /\ n.name = "request" /\ n.next = 0
    BY <2>1 DEF Frame
  <2>3. StateInv(h)'
    BY <2>2 DEF StateInv
  <2>4. QED
    BY <2>1, <2>3, <1>k
<1>5a. ASSUME NEW h \in Handles, SetState(h) PROVE StateInv(g)'
  <2> DEFINE f == frame[h]
             n == frame'[h]
  <2>0. /\ f \in FrameType /\ f.at = "set_states" /\ f.outcome = "none"
        /\ f.name = "request" /\ f.next \in Nat
        /\ f.next > 0 => 0 \in f.overwritten \/ listed[0] = f.state
        /\ listed' = [listed EXCEPT ![f.next] = f.state]
        /\ DOMAIN listed = Entries /\ 0 \in Entries
    BY <1>5a, <1>t, <1>f, SlavesAssumption
       DEF SetState, StateInv, FrameType, Entries, TypeOK
  <2>1. /\ n.at \in {"set_states", "write_state"} /\ n.outcome = "none"
        /\ n.name = "request" /\ n.state = f.state /\ n.overwritten = f.overwritten
        /\ \A x \in Handles \ {h} : Kept(x)
    BY <1>5a, <2>0, <1>t, SetStateFrame DEF FrameType
  <2>2. 0 \in n.overwritten \/ listed'[0] = n.state
    BY <2>0, <2>1
  <2>3. StateInv(h)'
    BY <2>1, <2>2 DEF StateInv
  <2>4. QED
    BY <2>1, <2>3, <1>k
<1>6. ASSUME NEW h \in Handles, WriteState(h) PROVE StateInv(g)'
  <2> DEFINE f == frame[h]
             n == frame'[h]
  <2>0. /\ f \in FrameType /\ f.outcome = "none" /\ f.name = "request"
        /\ 0 \in f.overwritten \/ listed[0] = f.state
        /\ UNCHANGED listed
    BY <1>6, <1>t, <1>f DEF WriteState, StateInv
  <2>1. CASE Return(h, f, "NoFrame")
    <3>1. n = Returned(f, "NoFrame") /\ \A x \in Handles \ {h} : Kept(x)
      BY <2>0, <2>1, <1>t, SetFrame DEF Return
    <3>2. n.at = "idle" /\ n.outcome = "NoFrame"
      BY <2>0, <3>1 DEF Returned, FrameType
    <3>3. QED
      BY <3>1, <3>2, <1>k, StateInvQuiet
  <2>2. CASE Return(h, [f EXCEPT !.broadcast = listed[0]], "Ok")
    <3>1. n = Returned([f EXCEPT !.broadcast = listed[0]], "Ok")
          /\ \A x \in Handles \ {h} : Kept(x)
      BY <2>0, <2>2, <1>t, SetFrame DEF Return
    <3>2. /\ n.at = "idle" /\ n.name = "request" /\ n.state = f.state
          /\ n.broadcast = listed[0] /\ n.overwritten = f.overwritten
      BY <2>0, <3>1 DEF Returned, FrameType
    <3>3. StateInv(h)'
      BY <2>0, <3>2 DEF StateInv
    <3>4. QED
      BY <3>1, <3>3, <1>k
  <2>3. CASE Goto(h, [f EXCEPT !.failure = "SetState"], "is_err")
    <3>1. n = [f EXCEPT !.failure = "SetState", !.at = "is_err"]
          /\ \A x \in Handles \ {h} : Kept(x)
      BY <2>0, <2>3, <1>t, SetFrame DEF Goto
    <3>2. n.at = "is_err" /\ n.outcome = "none" /\ n.name = "request"
      BY <2>0, <3>1 DEF FrameType
    <3>3. QED
      BY <3>1, <3>2, <1>k, StateInvQuiet
  <2>4. QED
    BY <1>6, <2>1, <2>2, <2>3 DEF WriteState
<1>7. ASSUME NEW h \in Handles, NEW s \in Requests, CheckStates(h, s)
      PROVE  StateInv(g)'
  <2> DEFINE found == (UNION {actual[i] : i \in Slaves}) \ {ErrorBit}
             f == Frame("check", s)
             n == frame'[h]
  <2>1. CASE Overwrite(h, [f EXCEPT !.at = "drain", !.failure = "CheckState",
                                    !.mark = occurred'], {0})
    <3>1. n = [f EXCEPT !.at = "drain", !.failure = "CheckState", !.mark = occurred']
          /\ \A x \in Handles \ {h} : Kept(x)
      BY <2>1, <1>7, <1>t, CheckStatesFrame
    <3>2. n.at = "drain" /\ n.outcome = "none"
      BY <3>1 DEF Frame
    <3>3. QED
      BY <3>1, <3>2, <1>k, StateInvQuiet
  <2>2. CASE Overwrite(h, Checked(f, found), {0})
    <3>1. n = Checked(f, found) /\ \A x \in Handles \ {h} : Kept(x)
      BY <2>2, <1>7, <1>t, CheckStatesFrame
    <3>2. CASE found \in AlState
      <4>1. /\ n.at = "idle" /\ n.name = "check" /\ n.state = s /\ n.seen = actual
            /\ n.reply = [i \in Slaves |-> found]
        BY <3>1, <3>2 DEF Checked, Returned, Frame
      <4>2. ASSUME n.reply = [i \in Slaves |-> n.state], n.state # Boot, NEW j \in Slaves
            PROVE  n.seen[j] \ {ErrorBit} \in {{}, n.state}
        <5>1. found = s
          <6>1. n.reply[j] = found
            BY <4>1
          <6>2. n.reply[j] = s
            BY <4>1, <4>2
          <6>3. QED
            BY <6>1, <6>2
        <5>2. s \in AlState \ {Boot}
          BY <5>1, <3>2, <4>1, <4>2
        <5>3. actual[j] \ {ErrorBit} \in {{}, s}
          BY <5>1, <5>2, <1>t, SharedState
        <5>4. QED
          BY <5>3, <4>1
      <4>3. StateInv(h)'
        BY <4>1, <4>2 DEF StateInv
      <4>4. QED
        BY <3>1, <4>3, <1>k
    <3>3. CASE found \notin AlState
      <4>1. n.at = "idle" /\ n.outcome = "CheckState"
        BY <3>1, <3>3 DEF Checked, Returned, Frame
      <4>2. QED
        BY <3>1, <4>1, <1>k, StateInvQuiet
    <3>4. QED
      BY <3>2, <3>3
  <2>3. QED
    BY <1>7, <2>1, <2>2 DEF CheckStates
<1>8. ASSUME NEW h \in Handles, ReadState(h) PROVE StateInv(g)'
  <2> DEFINE f == Frame("states", {})
             n == frame'[h]
  <2>1. CASE Overwrite(h, [f EXCEPT !.at = "collect", !.next = 1, !.seen = actual], Entries)
    <3>1. n = [f EXCEPT !.at = "collect", !.next = 1, !.seen = actual]
          /\ \A x \in Handles \ {h} : Kept(x)
      BY <2>1, <1>t, ReadStateFrame
    <3>2. /\ n.at = "collect" /\ n.outcome = "none" /\ n.name = "states"
          /\ n.next = 1 /\ n.seen = actual
      BY <3>1 DEF Frame
    <3>3. \A i \in Slaves : i >= 1 /\ listed'[i] = actual[i]
      BY <1>8 DEF ReadState, Slaves, Entries
    <3>4. StateInv(h)'
      BY <3>2, <3>3 DEF StateInv
    <3>5. QED
      BY <3>1, <3>4, <1>k
  <2>2. CASE Overwrite(h, [f EXCEPT !.at = "drain", !.failure = "ReadStates",
                                    !.mark = occurred'], Entries)
    <3>1. n = [f EXCEPT !.at = "drain", !.failure = "ReadStates", !.mark = occurred']
          /\ \A x \in Handles \ {h} : Kept(x)
      BY <2>2, <1>t, ReadStateFrame
    <3>2. n.at = "drain" /\ n.outcome = "none"
      BY <3>1 DEF Frame
    <3>3. QED
      BY <3>1, <3>2, <1>k, StateInvQuiet
  <2>3. QED
    BY <1>8, <2>1, <2>2 DEF ReadState
<1>9. ASSUME NEW h \in Handles, Collect(h) PROVE StateInv(g)'
  <2> DEFINE f == frame[h]
             n == frame'[h]
  <2>0. /\ f \in FrameType /\ f.at = "collect" /\ f.outcome = "none"
        /\ f.name = "states" /\ UNCHANGED listed
        /\ f.next \in 1..SlaveCnt /\ f.reply \in [Slaves -> StatusType]
        /\ \A i \in Slaves :
             \/ i < f.next /\ f.reply[i] \in AlState
                  /\ (i \in f.overwritten \/ f.reply[i] = f.seen[i])
             \/ i >= f.next /\ (i \in f.overwritten \/ listed[i] = f.seen[i])
    BY <1>9, <1>t, <1>f, SlavesAssumption DEF Collect, StateInv, FrameType, Entries
  <2>1. /\ \A x \in Handles \ {h} : Kept(x)
        /\ \/ /\ listed[f.next] \in AlState
              /\ n.name = f.name /\ n.seen = f.seen /\ n.overwritten = f.overwritten
              /\ n.reply = [f.reply EXCEPT ![f.next] = listed[f.next]]
              /\ \/ /\ f.next < SlaveCnt /\ n.at = "collect" /\ n.next = f.next + 1
                    /\ n.outcome = f.outcome
                 \/ f.next = SlaveCnt /\ n.at = "idle" /\ n.outcome = "Ok"
           \/ n.at = "idle" /\ n.outcome = "AlState" /\ n.mark = 0
    BY <1>9, <1>t, CollectFrame
  <2>2. ASSUME listed[f.next] \in AlState,
               n.reply = [f.reply EXCEPT ![f.next] = listed[f.next]],
               n.seen = f.seen, n.overwritten = f.overwritten, NEW i \in Slaves
        PROVE  \/ i < f.next + 1 /\ n.reply[i] \in AlState
                    /\ (i \in n.overwritten \/ n.reply[i] = n.seen[i])
               \/ i >= f.next + 1 /\ (i \in n.overwritten \/ listed'[i] = n.seen[i])
    <3>1. CASE i = f.next
      <4>1. n.reply[i] = listed[i]
        BY <2>0, <2>2, <3>1
      <4>2. i \in f.overwritten \/ listed[i] = f.seen[i]
        BY <2>0, <3>1
      <4>3. i < f.next + 1
        BY <2>0, <3>1
      <4>4. QED
        BY <2>2, <3>1, <4>1, <4>2, <4>3
    <3>2. CASE i < f.next
      BY <2>0, <2>2, <3>2 DEF Slaves
    <3>3. CASE i > f.next
      BY <2>0, <2>2, <3>3 DEF Slaves
    <3>4. QED
      BY <2>0, <3>1, <3>2, <3>3 DEF Slaves
  <2>3. CASE /\ f.next < SlaveCnt /\ n.at = "collect" /\ n.next = f.next + 1
             /\ n.outcome = f.outcome /\ n.name = f.name
             /\ \A i \in Slaves :
                  \/ i < f.next + 1 /\ n.reply[i] \in AlState
                       /\ (i \in n.overwritten \/ n.reply[i] = n.seen[i])
                  \/ i >= f.next + 1 /\ (i \in n.overwritten \/ listed'[i] = n.seen[i])
    <3>1. StateInv(h)'
      BY <2>0, <2>3 DEF StateInv
    <3>2. QED
      BY <2>1, <3>1, <1>k
  <2>4. CASE /\ f.next = SlaveCnt /\ n.at = "idle" /\ n.name = f.name
             /\ \A i \in Slaves :
                  \/ i < f.next + 1 /\ n.reply[i] \in AlState
                       /\ (i \in n.overwritten \/ n.reply[i] = n.seen[i])
                  \/ i >= f.next + 1 /\ (i \in n.overwritten \/ listed'[i] = n.seen[i])
    <3>1. \A i \in Slaves : /\ n.reply[i] \in AlState
                            /\ i \in n.overwritten \/ n.reply[i] = n.seen[i]
      BY <2>0, <2>4 DEF Slaves
    <3>2. StateInv(h)'
      BY <2>0, <2>4, <3>1 DEF StateInv
    <3>3. QED
      BY <2>1, <3>2, <1>k
  <2>5. CASE n.at = "idle" /\ n.outcome = "AlState"
    BY <2>1, <2>5, <1>k, StateInvQuiet
  <2>6. QED
    BY <2>1, <2>2, <2>3, <2>4, <2>5
<1>10. ASSUME NEW h \in Handles, NEW err \in MailboxErrors, Sdo(h, err)
            PROVE  StateInv(g)'
  <2> DEFINE n == frame'[h]
  <2>0. UNCHANGED listed
    BY <1>10 DEF Sdo
  <2>1. CASE Return(h, Frame("sdo", {}), "Ok")
    <3>1. n = Returned(Frame("sdo", {}), "Ok") /\ \A x \in Handles \ {h} : Kept(x)
      BY <2>0, <2>1, <1>t, SetFrame DEF Return
    <3>2. n.at = "idle" /\ n.name = "sdo"
      BY <3>1 DEF Returned, Frame
    <3>3. StateInv(h)'
      BY <3>2 DEF StateInv
    <3>4. QED
      BY <3>1, <3>3, <1>k
  <2>2. CASE Drain(h, Frame("sdo", {}), err)
    <3>1. n = [Frame("sdo", {}) EXCEPT !.at = "drain", !.failure = err, !.mark = occurred']
          /\ \A x \in Handles \ {h} : Kept(x)
      BY <2>0, <2>2, <1>t, SetFrame DEF Drain
    <3>2. n.at = "drain" /\ n.outcome = "none"
      BY <3>1 DEF Frame
    <3>3. QED
      BY <3>1, <3>2, <1>k, StateInvQuiet
  <2>3. QED
    BY <1>10, <2>1, <2>2 DEF Sdo
<1>11. CASE SlaveMoves \/ UNCHANGED vars
  <2>1. UNCHANGED <<listed, frame>>
    BY <1>11 DEF SlaveMoves, vars
  <2>2. QED
    BY <2>1, <1>t, UnchangedFrames, StateInvKept
<1>12. QED
  BY <1>1, <1>2, <1>3, <1>4, <1>5, <1>5a, <1>6, <1>7, <1>8, <1>9, <1>10, <1>11 DEF Next

\* What states returns for a slave is what it has read from it, for any number of
\* slaves and handles: only a write of another handle to that entry, before it was
\* collected, can spoil it.
THEOREM StatesObserved == Spec => []StatesAreObserved
<1>1. StateIInv => StatesAreObserved
  BY DEF StateIInv, StateInv, StatesAreObserved
<1>2. QED
  BY <1>1, StateIInvInit, StateIInvNext, PTL DEF Spec

\* When check_states finds the state it was asked for, all slaves that answer
\* were in it together.
THEOREM CheckedShared == Spec => []CheckedStateIsShared
<1>1. StateIInv => CheckedStateIsShared
  BY DEF StateIInv, StateInv, CheckedStateIsShared
<1>2. QED
  BY <1>1, StateIInvInit, StateIInvNext, PTL DEF Spec

\* request_states broadcasts the state it was given, unless another handle has
\* overwritten the entry for all slaves between the two.
THEOREM Broadcast == Spec => []BroadcastAsAsked
<1>1. StateIInv => BroadcastAsAsked
  BY DEF StateIInv, StateInv, BroadcastAsAsked
<1>2. QED
  BY <1>1, StateIInvInit, StateIInvNext, PTL DEF Spec

=============================================================================
