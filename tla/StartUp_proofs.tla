--------------------------- MODULE StartUp_proofs ---------------------------
(***************************************************************************)
(* Proofs about StartUp, for any number of slaves, rounds and cycles,      *)
(* whatever the slaves do and whether or not debugging is logged.          *)
(***************************************************************************)
EXTENDS StartUp, Exchange_proofs

LEMMA MainOnly == Main \in Handles /\ {SafeOp, Op} \subseteq Requests
  BY ProgramAssumption

----------------------------------------------------------------------------
(* The program uses Exchange as it may be used.                            *)

\* A call of the program, or a step within one, is a step of Exchange; the rest
\* of the program leaves the context and the calls alone.
LEMMA ProgramStepIsExchangeStep ==
  ASSUME [ProgramNext]_programVars PROVE [Next]_vars
<1> USE MainOnly
<1>1. CASE Prologue
  <2>1. CASE Sdo(Main, "ReadOdList")
    BY <2>1 DEF Next, MailboxErrors
  <2>2. CASE CheckStates(Main, SafeOp)
    BY <2>2 DEF Next
  <2>3. CASE RequestStates(Main, Op)
    BY <2>3 DEF Next
  <2>4. QED
    BY <1>1, <2>1, <2>2, <2>3 DEF Prologue
<1>2. CASE ExchangeData
  BY <1>2 DEF ExchangeData, Next
<1>3. CASE Look
  <2>1. CASE CheckStates(Main, Op)
    BY <2>1 DEF Next
  <2>2. CASE ReadState(Main)
    BY <2>2 DEF Next
  <2>3. QED
    BY <1>3, <2>1, <2>2 DEF Look
<1>4. CASE RoundEnds
  BY <1>4 DEF RoundEnds
<1>5. CASE CycleEnds
  BY <1>5 DEF CycleEnds
<1>6. CASE GiveUp
  BY <1>6 DEF GiveUp
<1>7. CASE Within
  BY <1>7 DEF Within, Next
<1>8. CASE SlaveMoves
  BY <1>8 DEF Next
<1>9. CASE UNCHANGED programVars
  BY <1>9 DEF programVars
<1>10. QED
  BY <1>1, <1>2, <1>3, <1>4, <1>5, <1>6, <1>7, <1>8, <1>9 DEF ProgramNext, ProgramStep

\* The program of examples/simple.rs makes only steps of Exchange, so all that
\* is proved of the calls holds of it.
THEOREM ProgramImplementsExchange == ProgramSpec => Spec
<1>1. ProgramInit => Init
  BY DEF ProgramInit
<1>2. [ProgramNext]_programVars => [Next]_vars
  BY ProgramStepIsExchangeStep
<1>3. QED
  BY <1>1, <1>2, PTL DEF ProgramSpec, Spec

----------------------------------------------------------------------------
(* Why a call fails.                                                       *)

Caused(err) ==
  \/ occurred > 0
  \/ err \in {"ReadOdList", "NoFrame", "SetState"}
  \/ err \in {"CheckState", "ReadStates", "AlState"} /\ \A s \in AlState : ~AllIn(s)

CallInv ==
  LET f == frame[Main]
  IN  /\ errors # <<>> => occurred > 0
      /\ f.at \in {"set_states", "write_state"} => f.name = "request"
      /\ f.at = "is_err" /\ f.name = "request" => f.failure = "SetState"
      /\ f.at = "drain" => Caused(f.failure)
      /\ f.at = "idle" => f.outcome \in {"none", "Ok"} \/ Caused(f.outcome)
      /\ f.at = "collect" => f.next \in Slaves
           /\ \A i \in Slaves : listed[i] = met[i] /\ (i < f.next => f.reply[i] = met[i])

\* Between the call of states and the end of the round, states is at work, has
\* failed, or has returned what the slaves were in when it was called.
RoundInv ==
  line = "round_end" =>
    LET f == frame[Main]
    IN  \/ f.at = "collect"
        \/ f.at = "drain" /\ f.failure = "ReadStates"
        \/ f.at = "idle" /\ f.outcome \in {"ReadStates", "AlState"}
        \/ f.at = "idle" /\ f.outcome = "Ok" /\ f.reply = met

EndInv == line = "failed" => Failed

WithinInv == CallInv /\ RoundInv /\ EndInv

ProgramInv == ProgramTypeOK /\ WithinInv /\ CyclesMeanOperational

LEMMA AlStates ==
  \A s \in AlState : s # {} /\ s \ {ErrorBit} = s /\ s \in StatusType
<1>1. ASSUME NEW s \in AlState PROVE s # {} /\ s \ {ErrorBit} = s
  BY <1>1 DEF AlState, Init_, PreOp, Boot, SafeOp, Op, ErrorBit
<1>2. QED
  BY <1>1, StatusOfAlState

\* If check_states finds no state, or one that is no AlState, the slaves are not
\* in one state together.
LEMMA NotTogether ==
  ASSUME (UNION {actual[i] : i \in Slaves}) \ {ErrorBit} \notin AlState, NEW s \in AlState
  PROVE  \E i \in Slaves : actual[i] # s
<1> SUFFICES ASSUME \A i \in Slaves : actual[i] = s PROVE FALSE
  OBVIOUS
<1>1. UNION {actual[i] : i \in Slaves} = s
  <2>1. PICK j \in Slaves : TRUE
    BY SlavesAssumption DEF Slaves
  <2>2. {actual[i] : i \in Slaves} = {s}
    BY <2>1
  <2>3. QED
    BY <2>2
<1>2. QED
  BY <1>1, AlStates

LEMMA MayFailCounts ==
  ASSUME TypeOK, MayFail \/ UNCHANGED errorList, errors # <<>> => occurred > 0
  PROVE  (errors # <<>> => occurred > 0)' /\ occurred' >= occurred
<1>1. occurred \in Nat
  BY DEF TypeOK
<1>2. CASE UNCHANGED errorList
  BY <1>1, <1>2 DEF errorList
<1>3. CASE occurred' = occurred + 1
  BY <1>1, <1>3
<1>4. QED
  BY <1>2, <1>3 DEF MayFail

\* What each call leaves in the frame, as far as the invariant speaks of it.

LEMMA SendFrame ==
  ASSUME TypeOK, SendProcessData(Main) \/ RecvProcessData(Main)
  PROVE  /\ frame'[Main].at = "is_err" /\ frame'[Main].name # "request"
         /\ MayFail
<1> USE MainOnly
<1>1. CASE SendProcessData(Main)
  <2>1. frame'[Main] = [Frame("send", {}) EXCEPT !.failure = "SendProcessData",
                                                 !.at = "is_err"]
    BY <1>1, SetFrame DEF SendProcessData, Goto
  <2>2. QED
    BY <1>1, <2>1 DEF SendProcessData, Frame
<1>2. CASE RecvProcessData(Main)
  <2>1. PICK w \in -1..MaxWkc :
          Goto(Main, [Frame("recv", {}) EXCEPT !.failure = "RecvProcessData",
                                               !.wkc = AsUsize(w)], "is_err")
    BY <1>2 DEF RecvProcessData
  <2>2. frame'[Main] = [Frame("recv", {}) EXCEPT !.failure = "RecvProcessData",
                                                 !.wkc = AsUsize(w), !.at = "is_err"]
    BY <1>2, <2>1, SetFrame DEF RecvProcessData, Goto
  <2>3. QED
    BY <1>2, <2>2 DEF RecvProcessData, Frame
<1>3. QED
  BY <1>1, <1>2

LEMMA SdoFrame ==
  ASSUME TypeOK, Sdo(Main, "ReadOdList")
  PROVE  /\ \/ frame'[Main].at = "idle" /\ frame'[Main].outcome = "Ok"
            \/ frame'[Main].at = "drain" /\ frame'[Main].failure = "ReadOdList"
         /\ MayFail
<1> USE MainOnly
<1>1. CASE Return(Main, Frame("sdo", {}), "Ok")
  <2>1. frame'[Main] = Returned(Frame("sdo", {}), "Ok")
    BY <1>1, SetFrame DEF Sdo, Return
  <2>2. QED
    BY <2>1 DEF Sdo, Returned, Frame
<1>2. CASE Drain(Main, Frame("sdo", {}), "ReadOdList")
  <2>1. frame'[Main] = [Frame("sdo", {}) EXCEPT !.at = "drain", !.failure = "ReadOdList",
                                                !.mark = occurred']
    BY <1>2, SetFrame DEF Sdo, Drain
  <2>2. QED
    BY <2>1 DEF Sdo, Frame
<1>3. QED
  BY <1>1, <1>2 DEF Sdo

LEMMA RequestFrame ==
  ASSUME TypeOK, RequestStates(Main, Op)
  PROVE  /\ frame'[Main].at = "set_states" /\ frame'[Main].name = "request"
         /\ UNCHANGED errorList
<1>1. frame'[Main] = [Frame("request", Op) EXCEPT !.at = "set_states"]
  BY MainOnly, SetFrame DEF RequestStates, Goto
<1>2. QED
  BY <1>1 DEF RequestStates, Frame

LEMMA CheckFrame ==
  ASSUME TypeOK, NEW s \in Requests, CheckStates(Main, s)
  PROVE  /\ \/ frame'[Main].at = "idle" /\ frame'[Main].outcome = "Ok"
            \/ /\ frame'[Main].at = "drain" /\ frame'[Main].failure = "CheckState"
               /\ \A t \in AlState : \E i \in Slaves : actual[i] # t
            \/ /\ frame'[Main].at = "idle" /\ frame'[Main].outcome = "CheckState"
               /\ \A t \in AlState : \E i \in Slaves : actual[i] # t
         /\ MayFail \/ UNCHANGED errorList
<1> USE MainOnly
<1> DEFINE found == (UNION {actual[i] : i \in Slaves}) \ {ErrorBit}
           f == Frame("check", s)
           n == frame'[Main]
<1>1. CASE /\ found = {}
           /\ MayFail
           /\ Overwrite(Main, [f EXCEPT !.at = "drain", !.failure = "CheckState",
                                         !.mark = occurred'], {0})
  <2>1. n = [f EXCEPT !.at = "drain", !.failure = "CheckState", !.mark = occurred']
    BY <1>1 DEF Overwrite
  <2>2. n.at = "drain" /\ n.failure = "CheckState"
    BY <2>1 DEF Frame
  <2>3. found \notin AlState
    BY <1>1, AlStates
  <2>4. \A t \in AlState : \E i \in Slaves : actual[i] # t
    BY <2>3, NotTogether
  <2>5. QED
    BY <1>1, <2>2, <2>4
<1>2. CASE Overwrite(Main, Checked(f, found), {0}) /\ UNCHANGED errorList
  <2>1. n = Checked(f, found)
    BY <1>2 DEF Overwrite
  <2>2. CASE found \in AlState
    <3>1. n.at = "idle" /\ n.outcome = "Ok"
      BY <2>1, <2>2 DEF Checked, Returned, Frame
    <3>2. QED
      BY <1>2, <3>1
  <2>3. CASE found \notin AlState
    <3>1. n.at = "idle" /\ n.outcome = "CheckState"
      BY <2>1, <2>3 DEF Checked, Returned, Frame
    <3>2. \A t \in AlState : \E i \in Slaves : actual[i] # t
      BY <2>3, NotTogether
    <3>3. QED
      BY <1>2, <3>1, <3>2
  <2>4. QED
    BY <2>2, <2>3
<1>3. QED
  BY <1>1, <1>2 DEF CheckStates

LEMMA ReadFrame ==
  ASSUME TypeOK, ReadState(Main)
  PROVE  /\ \/ frame'[Main].at = "collect" /\ frame'[Main].next = 1
               /\ \A i \in Slaves : listed'[i] = actual[i]
            \/ /\ frame'[Main].at = "drain" /\ frame'[Main].failure = "ReadStates"
               /\ \A t \in AlState : \E i \in Slaves : actual[i] # t
         /\ MayFail \/ UNCHANGED errorList
<1> USE MainOnly
<1> DEFINE f == Frame("states", {})
           n == frame'[Main]
<1>1. CASE /\ Overwrite(Main, [f EXCEPT !.at = "collect", !.next = 1, !.seen = actual],
                        Entries)
           /\ UNCHANGED errorList
  <2>1. n = [f EXCEPT !.at = "collect", !.next = 1, !.seen = actual]
    BY <1>1 DEF Overwrite
  <2>2. n.at = "collect" /\ n.next = 1
    BY <2>1 DEF Frame
  <2>3. \A i \in Slaves : listed'[i] = actual[i]
    BY DEF ReadState, Slaves, Entries
  <2>4. QED
    BY <1>1, <2>2, <2>3
<1>2. CASE /\ ~ReadSucceeds
           /\ MayFail
           /\ Overwrite(Main, [f EXCEPT !.at = "drain", !.failure = "ReadStates",
                                         !.mark = occurred'], Entries)
  <2>1. n = [f EXCEPT !.at = "drain", !.failure = "ReadStates", !.mark = occurred']
    BY <1>2 DEF Overwrite
  <2>2. n.at = "drain" /\ n.failure = "ReadStates"
    BY <2>1 DEF Frame
  <2>3. \A t \in AlState : \E i \in Slaves : actual[i] # t
    BY <1>2, AlStates DEF ReadSucceeds
  <2>4. QED
    BY <1>2, <2>2, <2>3
<1>3. QED
  BY <1>1, <1>2 DEF ReadState

----------------------------------------------------------------------------
(* The steps within a call.                                                *)

LEMMA IsErrKeeps == ASSUME ProgramInv, IsErr(Main), UNCHANGED program PROVE WithinInv'
<1> USE MainOnly
<1> DEFINE f == frame[Main]
           n == frame'[Main]
<1>t. /\ TypeOK /\ f \in FrameType /\ occurred \in Nat /\ f.at = "is_err"
      /\ f.name = "request" => f.failure = "SetState"
      /\ errors # <<>> => occurred > 0
  BY DEF ProgramInv, WithinInv, ProgramTypeOK, TypeOK, CallInv, IsErr
<1>1. line # "round_end" /\ line # "failed"
  BY <1>t DEF ProgramInv, WithinInv, RoundInv, EndInv, Failed, Idle
<1>2. UNCHANGED <<listed, errorList>> /\ line' = line
  BY DEF IsErr, program
<1>3. CASE errors # <<>> /\ Drain(Main, f, f.failure)
  <2>1. n = [f EXCEPT !.at = "drain", !.failure = f.failure, !.mark = occurred']
    BY <1>t, <1>2, <1>3, SetFrame DEF Drain
  <2>2. n.at = "drain"
    BY <1>t, <2>1 DEF FrameType
  <2>3. occurred' > 0
    BY <1>t, <1>2, <1>3 DEF errorList
  <2>4. QED
    BY <1>1, <1>2, <2>2, <2>3 DEF WithinInv, CallInv, RoundInv, EndInv, Caused
<1>4. CASE errors = <<>> /\ Return(Main, f, IF f.name = "request" THEN f.failure ELSE "Ok")
  <2>1. n = Returned(f, IF f.name = "request" THEN f.failure ELSE "Ok")
    BY <1>t, <1>2, <1>4, SetFrame DEF Return
  <2>2. n.at = "idle" /\ n.outcome \in {"SetState", "Ok"}
    BY <1>t, <2>1 DEF Returned, FrameType
  <2>3. errors' = <<>>
    BY <1>2, <1>4 DEF errorList
  <2>4. QED
    BY <1>1, <1>2, <2>2, <2>3 DEF WithinInv, CallInv, RoundInv, EndInv, Caused
<1>5. QED
  BY <1>3, <1>4 DEF IsErr

LEMMA PopErrorKeeps == ASSUME ProgramInv, PopError(Main), UNCHANGED program PROVE WithinInv'
<1> USE MainOnly
<1> DEFINE f == frame[Main]
           n == frame'[Main]
<1>t. /\ TypeOK /\ f \in FrameType /\ errors \in Seq(Nat) /\ f.at = "drain"
      /\ Caused(f.failure)
      /\ errors # <<>> => occurred > 0
  BY DEF ProgramInv, WithinInv, ProgramTypeOK, TypeOK, CallInv, PopError
<1>1. /\ line = "round_end" => f.failure = "ReadStates"
      /\ line # "failed"
  BY <1>t DEF ProgramInv, WithinInv, RoundInv, EndInv, Failed, Idle
<1>2. UNCHANGED <<listed, occurred>> /\ line' = line /\ met' = met
  BY DEF PopError, program
<1>4. ASSUME NEW e, Caused(e)
      PROVE  \/ occurred' > 0
             \/ e \in {"ReadOdList", "NoFrame", "SetState"}
             \/ /\ e \in {"CheckState", "ReadStates", "AlState"}
                /\ \A s \in AlState : ~(\A i \in Slaves : met'[i] = s)
  BY <1>2, <1>4 DEF Caused, AllIn
<1>5. CASE errors # <<>> /\ errors' = Tail(errors) /\ UNCHANGED frame
  <2>1. n = f
    BY <1>5
  <2>2. occurred' > 0
    BY <1>2, <1>5, <1>t
  <2>3. QED
    BY <1>t, <1>1, <1>2, <2>1, <2>2 DEF WithinInv, CallInv, RoundInv, EndInv, Caused
<1>6. CASE Return(Main, f, f.failure) /\ UNCHANGED errors
  <2>1. n = Returned(f, f.failure)
    BY <1>t, <1>2, <1>6, SetFrame DEF Return
  <2>2. n.at = "idle" /\ n.outcome = f.failure
    BY <1>t, <2>1 DEF Returned, FrameType
  <2>3. Caused(frame[Main].outcome)'
    BY <1>t, <1>4, <2>2 DEF Caused, AllIn
  <2>4. CallInv'
    BY <1>t, <1>2, <1>6, <2>2, <2>3 DEF CallInv
  <2>5. RoundInv' /\ EndInv'
    BY <1>1, <1>2, <2>2 DEF RoundInv, EndInv
  <2>6. QED
    BY <2>4, <2>5 DEF WithinInv
<1>7. QED
  BY <1>5, <1>6 DEF PopError

LEMMA WriteStateKeeps ==
  ASSUME ProgramInv, WriteState(Main), UNCHANGED program PROVE WithinInv'
<1> USE MainOnly
<1> DEFINE f == frame[Main]
           n == frame'[Main]
<1>t. /\ TypeOK /\ f \in FrameType /\ f.at = "write_state" /\ f.name = "request"
      /\ errors # <<>> => occurred > 0
  BY DEF ProgramInv, WithinInv, ProgramTypeOK, TypeOK, CallInv, WriteState
<1>1. line # "round_end" /\ line # "failed"
  BY <1>t DEF ProgramInv, WithinInv, RoundInv, EndInv, Failed, Idle
<1>2. UNCHANGED listed /\ line' = line /\ (MayFail \/ UNCHANGED errorList)
  BY DEF WriteState, program
<1>e. (errors # <<>> => occurred > 0)'
  BY <1>t, <1>2, MayFailCounts
<1>3. CASE Return(Main, f, "NoFrame")
  <2>1. n = Returned(f, "NoFrame")
    BY <1>t, <1>2, <1>3, SetFrame DEF Return
  <2>2. n.at = "idle" /\ n.outcome = "NoFrame"
    BY <1>t, <2>1 DEF Returned, FrameType
  <2>3. QED
    BY <1>1, <1>2, <1>e, <2>2 DEF WithinInv, CallInv, RoundInv, EndInv, Caused
<1>4. CASE Return(Main, [f EXCEPT !.broadcast = listed[0]], "Ok")
  <2>1. n = Returned([f EXCEPT !.broadcast = listed[0]], "Ok")
    BY <1>t, <1>2, <1>4, SetFrame DEF Return
  <2>2. n.at = "idle" /\ n.outcome = "Ok"
    BY <1>t, <2>1 DEF Returned, FrameType
  <2>3. QED
    BY <1>1, <1>2, <1>e, <2>2 DEF WithinInv, CallInv, RoundInv, EndInv
<1>5. CASE Goto(Main, [f EXCEPT !.failure = "SetState"], "is_err")
  <2>1. n = [f EXCEPT !.failure = "SetState", !.at = "is_err"]
    BY <1>t, <1>2, <1>5, SetFrame DEF Goto
  <2>2. n.at = "is_err" /\ n.failure = "SetState"
    BY <1>t, <2>1 DEF FrameType
  <2>3. QED
    BY <1>1, <1>2, <1>e, <2>2 DEF WithinInv, CallInv, RoundInv, EndInv
<1>6. QED
  BY <1>3, <1>4, <1>5 DEF WriteState

LEMMA SetStateKeeps == ASSUME ProgramInv, SetState(Main), UNCHANGED program PROVE WithinInv'
<1> USE MainOnly
<1> DEFINE f == frame[Main]
           n == frame'[Main]
<1>t. /\ TypeOK /\ f \in FrameType /\ f.at = "set_states" /\ f.name = "request"
      /\ errors # <<>> => occurred > 0
  BY DEF ProgramInv, WithinInv, ProgramTypeOK, TypeOK, CallInv, SetState
<1>1. line # "round_end" /\ line # "failed"
  BY <1>t DEF ProgramInv, WithinInv, RoundInv, EndInv, Failed, Idle
<1>2. UNCHANGED errorList /\ line' = line
  BY DEF SetState, program
<1>3. n.at \in {"set_states", "write_state"} /\ n.name = "request"
  BY <1>t, SetStateFrame DEF FrameType
<1>4. QED
  BY <1>t, <1>1, <1>2, <1>3 DEF WithinInv, CallInv, RoundInv, EndInv, errorList

LEMMA CollectKeeps == ASSUME ProgramInv, Collect(Main), UNCHANGED program PROVE WithinInv'
<1> USE MainOnly
<1> DEFINE f == frame[Main]
           n == frame'[Main]
           r == [f.reply EXCEPT ![f.next] = listed[f.next]]
<1>t. /\ TypeOK /\ f \in FrameType /\ f.at = "collect"
      /\ f.next \in Slaves /\ f.reply \in [Slaves -> StatusType]
      /\ \A i \in Slaves : listed[i] = met[i] /\ (i < f.next => f.reply[i] = met[i])
      /\ met \in [Slaves -> StatusType]
      /\ errors # <<>> => occurred > 0
  BY DEF ProgramInv, WithinInv, ProgramTypeOK, TypeOK, CallInv, Collect, FrameType,
         BusStatuses
<1>1. line # "failed"
  BY <1>t DEF ProgramInv, WithinInv, EndInv, Failed, Idle
<1>2. UNCHANGED <<listed, errorList>> /\ line' = line /\ met' = met
  BY DEF Collect, program
<1>e. (errors # <<>> => occurred > 0)'
  BY <1>t, <1>2 DEF errorList
<1>r. \A i \in Slaves : i <= f.next => r[i] = met[i]
  <2>1. ASSUME NEW i \in Slaves, i <= f.next PROVE r[i] = met[i]
    <3>1. CASE i = f.next
      BY <1>t, <3>1
    <3>2. CASE i < f.next
      BY <1>t, <3>2 DEF Slaves
    <3>3. QED
      BY <1>t, <2>1, <3>1, <3>2, SlavesAssumption DEF Slaves
  <2>2. QED
    BY <2>1
<1>d. DOMAIN r = Slaves
  BY <1>t
<1>3. \/ /\ n.reply = r
         /\ \/ f.next < SlaveCnt /\ n.at = "collect" /\ n.next = f.next + 1
            \/ f.next = SlaveCnt /\ n.at = "idle" /\ n.outcome = "Ok"
      \/ listed[f.next] \notin AlState /\ n.at = "idle" /\ n.outcome = "AlState"
  BY <1>t, CollectFrame
<1> HIDE DEF r
<1>4. CASE n.reply = r /\ f.next < SlaveCnt /\ n.at = "collect" /\ n.next = f.next + 1
  <2>1. n.next \in Slaves
    BY <1>t, <1>4, SlavesAssumption DEF Slaves
  <2>2. \A i \in Slaves : listed'[i] = met'[i] /\ (i < n.next => n.reply[i] = met'[i])
    BY <1>t, <1>r, <1>2, <1>4 DEF Slaves
  <2>3. QED
    BY <1>1, <1>2, <1>e, <1>4, <2>1, <2>2 DEF WithinInv, CallInv, RoundInv, EndInv
<1>5. CASE n.reply = r /\ f.next = SlaveCnt /\ n.at = "idle" /\ n.outcome = "Ok"
  <2>1. r = met
    <3>1. \A i \in Slaves : i <= f.next
      BY <1>t, <1>5 DEF Slaves
    <3>2. \A i \in Slaves : r[i] = met[i]
      BY <1>r, <3>1
    <3>3. r = [i \in DOMAIN r |-> r[i]] /\ met = [i \in Slaves |-> met[i]]
      BY <1>t, <1>d DEF r
    <3>4. QED
      BY <1>d, <3>2, <3>3
  <2>2. QED
    BY <1>1, <1>2, <1>e, <1>5, <2>1 DEF WithinInv, CallInv, RoundInv, EndInv
<1>6. CASE listed[f.next] \notin AlState /\ n.at = "idle" /\ n.outcome = "AlState"
  <2>1. \A s \in AlState : ~(\A i \in Slaves : met'[i] = s)
    BY <1>t, <1>2, <1>6
  <2>2. Caused(frame[Main].outcome)'
    BY <1>6, <2>1 DEF Caused, AllIn
  <2>3. QED
    BY <1>1, <1>2, <1>e, <1>6, <2>2 DEF WithinInv, CallInv, RoundInv, EndInv
<1>7. QED
  BY <1>3, <1>4, <1>5, <1>6

----------------------------------------------------------------------------
(* The invariant                                                           *)

LEMMA ProgramInvInit == ProgramInit => ProgramInv
<1> SUFFICES ASSUME ProgramInit PROVE ProgramInv
  OBVIOUS
<1> USE MainOnly DEF ProgramInit
<1>1. TypeOK
  BY TypeOKInit
<1>2. ProgramTypeOK
  <2>1. met \in BusStatuses
    BY <1>1 DEF TypeOK
  <2>2. round \in 1..Rounds /\ cycle \in 1..Cycles
    BY ProgramAssumption
  <2>3. QED
    BY <1>1, <2>1, <2>2 DEF ProgramTypeOK, Lines
<1>3. frame[Main].at = "idle" /\ frame[Main].outcome = "none" /\ errors = <<>>
  BY DEF Init, Frame
<1>4. WithinInv
  BY <1>3 DEF WithinInv, CallInv, RoundInv, EndInv
<1>5. QED
  BY <1>2, <1>4 DEF ProgramInv, CyclesMeanOperational, InCycles

LEMMA ProgramInvNext == ProgramInv /\ [ProgramNext]_programVars => ProgramInv'
<1> SUFFICES ASSUME ProgramInv, [ProgramNext]_programVars PROVE ProgramInv'
  OBVIOUS
<1>t. /\ TypeOK /\ line \in Lines /\ round \in 1..Rounds /\ cycle \in 1..Cycles
      /\ announced \in BOOLEAN /\ met \in BusStatuses
      /\ actual \in BusStatuses
  BY DEF ProgramInv, ProgramTypeOK, TypeOK
<1>i. /\ CallInv /\ RoundInv /\ EndInv /\ CyclesMeanOperational
      /\ errors # <<>> => occurred > 0
  BY DEF ProgramInv, WithinInv, CallInv
<1>n. TypeOK'
  BY <1>t, TypeOKNext, ProgramStepIsExchangeStep
<1>m. MayFail \/ UNCHANGED errorList => (errors # <<>> => occurred > 0)'
  BY <1>t, <1>i, MayFailCounts
<1> USE MainOnly
<1>1. CASE Prologue
  <2>1. /\ line' \in {"safe_op", "send", "round_send"} /\ met' = actual
        /\ UNCHANGED <<round, cycle, announced>>
    BY <1>1 DEF Prologue, From, Straight
  <2>2. ASSUME \A t \in AlState : \E i \in Slaves : actual[i] # t
        PROVE  \A s \in AlState : ~(\A i \in Slaves : met'[i] = s)
    BY <2>1, <2>2
  <2>3. CallInv'
    <3>1. CASE Sdo(Main, "ReadOdList")
      BY <1>m, <1>t, <3>1, SdoFrame DEF CallInv, Caused
    <3>2. CASE CheckStates(Main, SafeOp)
      BY <1>m, <1>t, <2>2, <3>2, CheckFrame DEF CallInv, Caused, AllIn
    <3>3. CASE RequestStates(Main, Op)
      BY <1>m, <1>t, <3>3, RequestFrame DEF CallInv
    <3>4. QED
      BY <1>1, <3>1, <3>2, <3>3 DEF Prologue
  <2>4. RoundInv' /\ EndInv' /\ CyclesMeanOperational'
    BY <2>1 DEF RoundInv, EndInv, CyclesMeanOperational, InCycles
  <2>5. ProgramTypeOK'
    BY <1>n, <1>t, <2>1 DEF ProgramTypeOK, Lines
  <2>6. QED
    BY <2>3, <2>4, <2>5 DEF ProgramInv, WithinInv
<1>2. CASE ExchangeData
  <2>1. SendProcessData(Main) \/ RecvProcessData(Main)
    BY <1>2 DEF ExchangeData
  <2>2. /\ line' \in {"recv", "round_recv", "cycle_recv", "request", "round_check",
                      "cycle_end"}
        /\ line' \in {"cycle_recv", "cycle_end"} => line \in {"cycle_send", "cycle_recv"}
        /\ UNCHANGED <<round, cycle, announced, met>>
    BY <1>2 DEF ExchangeData, From, Straight
  <2>3. CallInv'
    BY <1>m, <1>t, <2>1, SendFrame DEF CallInv
  <2>4. RoundInv' /\ EndInv'
    BY <2>2 DEF RoundInv, EndInv
  <2>5. CyclesMeanOperational'
    BY <1>i, <2>2 DEF CyclesMeanOperational, InCycles
  <2>6. ProgramTypeOK'
    BY <1>n, <1>t, <2>2 DEF ProgramTypeOK, Lines
  <2>7. QED
    BY <2>3, <2>4, <2>5, <2>6 DEF ProgramInv, WithinInv
<1>3. CASE Look
  <2>1. /\ line' \in {"round_states", "round_end"} /\ met' = actual
        /\ UNCHANGED <<round, cycle, announced>>
    BY <1>3 DEF Look, From, Straight
  <2>2. ASSUME \A t \in AlState : \E i \in Slaves : actual[i] # t
        PROVE  \A s \in AlState : ~(\A i \in Slaves : met'[i] = s)
    BY <2>1, <2>2
  <2>3. CASE line' = "round_states" /\ CheckStates(Main, Op)
    <3>1. CallInv'
      BY <1>m, <1>t, <2>2, <2>3, CheckFrame DEF CallInv, Caused, AllIn
    <3>2. RoundInv'
      BY <2>3 DEF RoundInv
    <3>3. QED
      BY <1>n, <1>t, <2>1, <2>3, <3>1, <3>2 DEF ProgramInv, WithinInv, ProgramTypeOK, Lines,
         EndInv, CyclesMeanOperational, InCycles
  <2>4. CASE line' = "round_end" /\ ReadState(Main)
    <3>0. 1 \in Slaves /\ \A i \in Slaves : ~(i < 1)
      BY SlavesAssumption DEF Slaves
    <3>1. CallInv'
      BY <1>m, <1>t, <2>1, <2>2, <2>4, <3>0, ReadFrame DEF CallInv, Caused, AllIn
    <3>2. RoundInv'
      BY <1>t, <2>4, ReadFrame DEF RoundInv
    <3>3. QED
      BY <1>n, <1>t, <2>1, <2>4, <3>1, <3>2 DEF ProgramInv, WithinInv, ProgramTypeOK, Lines,
         EndInv, CyclesMeanOperational, InCycles
  <2>5. QED
    BY <1>3, <2>3, <2>4 DEF Look, From
<1>4. CASE RoundEnds
  <2> DEFINE reached == \A i \in Slaves : frame[Main].reply[i] = Op
  <2>1. /\ line = "round_end" /\ Succeeded
        /\ \/ line' = "cycle_send" /\ (reached \/ round = Rounds) /\ round' = round
           \/ line' = "round_send" /\ round < Rounds /\ round' = round + 1
        /\ announced' = reached /\ UNCHANGED <<vars, cycle, met>>
    BY <1>4 DEF RoundEnds, From
  <2>2. frame[Main].reply = met
    BY <1>i, <2>1 DEF RoundInv, Succeeded, Idle
  <2>3. reached <=> \A i \in Slaves : met'[i] = Op
    BY <2>1, <2>2
  <2>4. CyclesMeanOperational'
    BY <2>1, <2>3 DEF CyclesMeanOperational, InCycles
  <2>5. UNCHANGED <<errors, occurred, listed, frame, met>>
    BY <2>1 DEF vars, errorList
  <2>6. CallInv'
    BY <1>i, <2>5 DEF CallInv, Caused, AllIn
  <2>7. RoundInv' /\ EndInv'
    BY <2>1 DEF RoundInv, EndInv
  <2>8. round' \in 1..Rounds
    BY <1>t, <2>1, ProgramAssumption
  <2>9. announced' \in BOOLEAN
    BY <2>1
  <2>10. ProgramTypeOK'
    BY <1>n, <1>t, <2>1, <2>8, <2>9 DEF ProgramTypeOK, Lines
  <2>11. QED
    BY <2>4, <2>6, <2>7, <2>10 DEF ProgramInv, WithinInv
<1>5. CASE CycleEnds
  <2>1. /\ line = "cycle_end" /\ line' \in {"done", "cycle_send"}
        /\ \/ cycle' = cycle
           \/ cycle < Cycles /\ cycle' = cycle + 1
        /\ UNCHANGED <<vars, round, announced, met>>
    BY <1>5 DEF CycleEnds, From
  <2>2. UNCHANGED <<errors, occurred, listed, frame, met>>
    BY <2>1 DEF vars, errorList
  <2>3. CallInv'
    BY <1>i, <2>2 DEF CallInv, Caused, AllIn
  <2>4. CyclesMeanOperational'
    BY <1>i, <2>1 DEF CyclesMeanOperational, InCycles
  <2>5. cycle' \in 1..Cycles
    BY <1>t, <2>1, ProgramAssumption
  <2>6. ProgramTypeOK'
    BY <1>n, <1>t, <2>1, <2>5 DEF ProgramTypeOK, Lines
  <2>7. QED
    BY <2>1, <2>3, <2>4, <2>6 DEF ProgramInv, WithinInv, RoundInv, EndInv
<1>6. CASE GiveUp
  <2>1. /\ Failed /\ line' = "failed"
        /\ UNCHANGED <<vars, round, cycle, announced, met>>
    BY <1>6 DEF GiveUp
  <2>2. UNCHANGED <<errors, occurred, listed, frame, met>>
    BY <2>1 DEF vars, errorList
  <2>3. CallInv'
    BY <1>i, <2>2 DEF CallInv, Caused, AllIn
  <2>4. EndInv' /\ RoundInv' /\ CyclesMeanOperational'
    BY <2>1, <2>2 DEF EndInv, RoundInv, CyclesMeanOperational, InCycles, Failed, Idle
  <2>5. QED
    BY <1>n, <1>t, <2>1, <2>3, <2>4 DEF ProgramInv, WithinInv, ProgramTypeOK, Lines
<1>7. CASE Within
  <2>1. UNCHANGED program
    BY <1>7 DEF Within
  <2>2. WithinInv'
    BY <1>7, IsErrKeeps, PopErrorKeeps, SetStateKeeps, WriteStateKeeps,
       CollectKeeps DEF Within
  <2>3. ProgramTypeOK' /\ CyclesMeanOperational'
    BY <1>n, <1>t, <1>i, <2>1 DEF program, ProgramTypeOK, CyclesMeanOperational, InCycles
  <2>4. QED
    BY <2>2, <2>3 DEF ProgramInv
<1>8. CASE \/ SlaveMoves /\ UNCHANGED program
           \/ UNCHANGED programVars
  <2>1. UNCHANGED <<errors, occurred, listed, frame, line, round, cycle, announced, met>>
    BY <1>8 DEF SlaveMoves, programVars, program, vars, errorList
  <2>2. CallInv'
    BY <1>i, <2>1 DEF CallInv, Caused, AllIn
  <2>3. RoundInv' /\ EndInv' /\ CyclesMeanOperational'
    BY <1>i, <2>1 DEF RoundInv, EndInv, CyclesMeanOperational, InCycles, Failed, Idle
  <2>4. QED
    BY <1>n, <1>t, <2>1, <2>2, <2>3 DEF ProgramInv, WithinInv, ProgramTypeOK
<1>9. QED
  BY <1>1, <1>2, <1>3, <1>4, <1>5, <1>6, <1>7, <1>8 DEF ProgramNext, ProgramStep

LEMMA ProgramInvHolds == ProgramSpec => []ProgramInv
  BY ProgramInvInit, ProgramInvNext, PTL DEF ProgramSpec

\* The program and the calls it makes keep their types, for any number of slaves,
\* rounds and cycles.
THEOREM ProgramTypeCorrect == ProgramSpec => []ProgramTypeOK
<1>1. ProgramInv => ProgramTypeOK
  BY DEF ProgramInv
<1>2. QED
  BY <1>1, ProgramInvHolds, PTL

\* The start-up loop ends with the announcement exactly if states has found all
\* slaves in OP in its last round, and without it only after all its rounds.
THEOREM CyclesAreOperational == ProgramSpec => []CyclesMeanOperational
<1>1. ProgramInv => CyclesMeanOperational
  BY DEF ProgramInv
<1>2. QED
  BY <1>1, ProgramInvHolds, PTL

\* The program never ends early on a bus on which no error occurs, requests are
\* answered and the slaves are in one state together whenever it looks.
THEOREM FailuresHaveCauses == ProgramSpec => []FailureHasCause
<1>1. ProgramInv => FailureHasCause
  <2> SUFFICES ASSUME ProgramInv, line = "failed" PROVE FailureHasCause
    BY DEF FailureHasCause
  <2>1. Failed /\ CallInv
    BY DEF ProgramInv, WithinInv, EndInv
  <2>2. Caused(frame[Main].outcome)
    BY <2>1 DEF Failed, Idle, CallInv
  <2>3. QED
    BY <2>2 DEF Caused, FailureHasCause
<1>2. QED
  BY <1>1, ProgramInvHolds, PTL
=============================================================================
