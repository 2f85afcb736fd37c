------------------------------ MODULE StartUp ------------------------------
(***************************************************************************)
(* The program of examples/simple.rs after auto_config, as a user of the   *)
(* calls of Exchange: it reads a dictionary, checks for SAFE_OP, requests  *)
(* OP, repeats a round of exchange and check until all slaves are in OP or *)
(* it has made enough rounds, and then exchanges process data in cycles.   *)
(* Every call ends in `?`: a call that fails ends the program.  What it    *)
(* prints and logs, the pauses between the cycles and the expected working *)
(* counter, which is only printed with and cannot fail, are left out.      *)
(***************************************************************************)
EXTENDS Exchange

CONSTANTS
  Main,    \* its Master
  Rounds,  \* 200 in the code
  Cycles   \* 5000 in the code

ASSUME ProgramAssumption ==
  /\ Handles = {Main}
  /\ {SafeOp, Op} \subseteq Requests
  /\ Rounds \in Nat \ {0} /\ Cycles \in Nat \ {0}

VARIABLES
  line,       \* what the program does when the call in progress has returned
  round,      \* rounds of the start-up loop begun
  cycle,      \* cycles begun
  announced,  \* "Operational state reached for all slaves" has been logged
  met         \* history: the slaves when the last call but send and recv began

program == <<line, round, cycle, announced, met>>
programVars == <<vars, program>>

ProgramInit ==
  /\ Init
  /\ line = "od_list" /\ round = 1 /\ cycle = 1
  /\ announced = FALSE /\ met = actual

----------------------------------------------------------------------------
InCycles == line \in {"cycle_send", "cycle_recv", "cycle_end"}
Ended == line \in {"done", "failed"}

Succeeded == Idle(Main) /\ frame[Main].outcome \in {"none", "Ok"}
Failed == Idle(Main) /\ frame[Main].outcome \notin {"none", "Ok"}

\* From one line of the program to another.
From(here, there) == line = here /\ Succeeded /\ line' = there
Straight == UNCHANGED <<round, cycle, announced>>

Prologue ==
  /\ \/ From("od_list", "safe_op") /\ Sdo(Main, "ReadOdList")
     \/ From("safe_op", "send") /\ CheckStates(Main, SafeOp)
     \/ From("request", "round_send") /\ RequestStates(Main, Op)
  /\ met' = actual /\ Straight

ExchangeData ==
  /\ \/ /\ SendProcessData(Main)
        /\ \/ From("send", "recv")
           \/ From("round_send", "round_recv")
           \/ From("cycle_send", "cycle_recv")
     \/ /\ RecvProcessData(Main)
        /\ \/ From("recv", "request")
           \/ From("round_recv", "round_check")
           \/ From("cycle_recv", "cycle_end")
  /\ UNCHANGED met /\ Straight

Look ==
  /\ \/ From("round_check", "round_states") /\ CheckStates(Main, Op)
     \/ From("round_states", "round_end") /\ ReadState(Main)
  /\ met' = actual /\ Straight

\* Mutants: the loop has one round too many; it has no bound; one slave is enough.
RoundEnds_Inclusive ==
  LET reached == \A i \in Slaves : frame[Main].reply[i] = Op
  IN  /\ \/ From("round_end", "cycle_send") /\ (reached \/ round > Rounds) /\ UNCHANGED round
         \/ From("round_end", "round_send") /\ ~reached /\ round <= Rounds /\ round' = round + 1
      /\ announced' = reached
      /\ UNCHANGED <<vars, cycle, met>>

RoundEnds_Forever ==
  LET reached == \A i \in Slaves : frame[Main].reply[i] = Op
  IN  /\ \/ From("round_end", "cycle_send") /\ reached
         \/ From("round_end", "round_send") /\ ~reached
      /\ announced' = reached
      /\ UNCHANGED <<vars, round, cycle, met>>

RoundEnds_Any ==
  LET reached == \E i \in Slaves : frame[Main].reply[i] = Op
  IN  /\ \/ From("round_end", "cycle_send") /\ (reached \/ round = Rounds) /\ UNCHANGED round
         \/ From("round_end", "round_send") /\ ~reached /\ round < Rounds /\ round' = round + 1
      /\ announced' = reached
      /\ UNCHANGED <<vars, cycle, met>>

\* The end of a round: are all states that were read OP?  If not, there is
\* another round, unless it was the last one.
RoundEnds ==
  LET reached == \A i \in Slaves : frame[Main].reply[i] = Op
  IN  /\ \/ From("round_end", "cycle_send") /\ (reached \/ round = Rounds) /\ UNCHANGED round
         \/ From("round_end", "round_send") /\ ~reached /\ round < Rounds /\ round' = round + 1
      /\ announced' = reached
      /\ UNCHANGED <<vars, cycle, met>>

CycleEnds ==
  /\ \/ From("cycle_end", "done") /\ cycle = Cycles /\ UNCHANGED cycle
     \/ From("cycle_end", "cycle_send") /\ cycle < Cycles /\ cycle' = cycle + 1
  /\ UNCHANGED <<vars, round, announced, met>>

\* The `?` behind every call.
GiveUp ==
  /\ Failed /\ ~Ended
  /\ line' = "failed"
  /\ UNCHANGED <<vars, round, cycle, announced, met>>

\* A call goes on.
Within ==
  /\ IsErr(Main) \/ PopError(Main) \/ SetState(Main) \/ WriteState(Main) \/ Collect(Main)
  /\ UNCHANGED program

ProgramStep == Prologue \/ ExchangeData \/ Look \/ RoundEnds \/ CycleEnds \/ GiveUp \/ Within

ProgramNext ==
  \/ ProgramStep
  \/ SlaveMoves /\ UNCHANGED program

ProgramSpec == ProgramInit /\ [][ProgramNext]_programVars

\* The program is sequential and every SOEM call has a timeout.  Nothing is
\* assumed about the slaves.
FairProgramSpec == ProgramSpec /\ WF_programVars(ProgramStep)

----------------------------------------------------------------------------
(* Properties                                                              *)

Lines == {"od_list", "safe_op", "send", "recv", "request", "round_send", "round_recv",
          "round_check", "round_states", "round_end", "cycle_send", "cycle_recv",
          "cycle_end", "done", "failed"}

\* Type invariant of the program and of the calls it makes.
ProgramTypeOK ==
  /\ TypeOK
  /\ line \in Lines
  /\ round \in 1..Rounds /\ cycle \in 1..Cycles
  /\ announced \in BOOLEAN
  /\ met \in BusStatuses

\* When the program begins its cycles it has announced OP, and then all slaves
\* were in OP at one moment of the last round, without an error indication; or it
\* has not, and then it has made all rounds and some slave was not in OP even in
\* the last one.
CyclesMeanOperational ==
  InCycles \/ line = "done" =>
    \/ announced /\ \A i \in Slaves : met[i] = Op
    \/ ~announced /\ round = Rounds /\ \E i \in Slaves : met[i] # Op

\* The slaves met were all in s, and none had an error indication.
AllIn(s) == \A i \in Slaves : met[i] = s

\* The program ends early only if an error has occurred in SOEM, the dictionary
\* could not be read, the request for OP was not answered, or the slaves it met
\* were not all in the same state and free of errors.  Slaves in different states,
\* as they are on their way to OP, can end it: together they look like no state at
\* all to check_states.
FailureHasCause ==
  line = "failed" =>
    \/ occurred > 0
    \/ frame[Main].outcome \in {"ReadOdList", "NoFrame", "SetState"}
    \/ frame[Main].outcome \in {"CheckState", "ReadStates", "AlState"}
         /\ \A s \in AlState : ~AllIn(s)

\* The program comes to an end, whatever the slaves do: it waits no longer than
\* Rounds for a slave that never gets to OP.
ProgramEnds == <>Ended
=============================================================================
