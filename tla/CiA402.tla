------------------------------- MODULE CiA402 -------------------------------
(***************************************************************************)
(* The CiA 402 state machine runner, cia402/state_machine.py, with the      *)
(* facade operations made of it in api/motion_commands.py (enable, fault    *)
(* reset with recovery, the two stops, disable voltage), the start of a     *)
(* motion (profile_velocity.py) and the telemetry cache two of them decide  *)
(* by.  Several callers run on one event loop against one drive, and        *)
(* interleave at every object access.                                       *)
(*                                                                          *)
(* An operation is a program: the accesses it has still to make.  A wait    *)
(* that does not see its states polls again or times out.                   *)
(***************************************************************************)
EXTENDS SimulatedDrive, Sequences

CONSTANTS
  Callers,       \* tasks of the event loop
  Operations,    \* what they call
  MaxCalls,      \* bound: operations called
  MaxFaults,     \* bound: accesses that raise
  MaxUpsets      \* bound: faults and inputs of the drive that change

ASSUME RunnerAssumption ==
  /\ MaxCalls \in Nat /\ MaxFaults \in Nat /\ MaxUpsets \in Nat
  /\ Operations \subseteq {"enable", "reset", "stop", "quickStop", "disable", "turn"}

VARIABLES
  drive, remote,    \* the drive and its input DI7
  cache, reading,   \* TelemetryPoller: _latest, and what it has just read
  op, prog,         \* the operation of each caller and the rest of it
  was,              \* was_in_fault of fault_reset()
  result,           \* how the last operation of each caller ended
  calls, faults, upsets,   \* bounded counters
  sawEnabled,       \* ghost: the drive was enabled during the operation
  sawClear,         \* ghost: the drive was without fault during it
  sawRest,          \* ghost: the drive was at rest at some moment of it
  pulsed,           \* ghost: the operation has sent a fault reset
  failed            \* ghost: attempts to halt the drive that raised

callVars == <<op, prog, was, result, calls>>
ghostVars == <<sawEnabled, sawClear, sawRest, pulsed, failed>>
vars == <<drive, remote, cache, reading, callVars, faults, upsets, ghostVars>>

NoSnapshot == {"none"}

-----------------------------------------------------------------------------
(* Programs. *)

\* Steps of a program: write a controlword, wait for a set of states, look at
\* the state and go on from a stage, and the steps of the facade.
Do(what, word, states, stage) ==
  [do |-> what, word |-> word, states |-> states, stage |-> stage]
Write(cw) == Do("write", cw, {}, 0)
Await(states) == Do("wait", {}, states, 0)
Look(stage) == Do("look", {}, {}, stage)
CheckFault == Do("fault", {}, {}, 0)
Ask(what) == Do(what, {}, {}, 0)

Shutdown == <<Write(ShutdownWord), Await({"READY", "DISABLED"})>>
SwitchOn == <<Write(SwitchOnWord), Await({"SWITCHED_ON", "ENABLED"})>>
\* Nobody looks whether the drive follows (mutant).
EnableUnconfirmed == <<Write(EnableWord)>>
EnableOperation == <<Write(EnableWord), Await({"ENABLED"})>>
QuickStop == <<Write(QuickStopWord), Await({"QUICK_STOP"})>>

\* fault_reset() once it has seen the fault.
ResetScript ==
  <<Write(ResetWord), Write(ShutdownWord), Write(Halted(ShutdownWord)),
    Await({"DISABLED", "READY", "SWITCHED_ON", "ENABLED"})>>

\* run_to_operation_enabled(): its ifs, from the stage reached, with state st.
\* "RAISE" is the error at the end of it.
Onward(stage, st) ==
  CASE stage <= 1 /\ st \in {"FAULT", "REACTION"} -> <<CheckFault, Look(2)>>
    [] stage <= 2 /\ st = "DISABLED" -> Shutdown \o <<Look(3)>>
    [] stage <= 3 /\ st = "NOT_READY" -> <<Await({"DISABLED", "READY"}), Look(4)>>
    [] stage <= 4 /\ st = "READY" -> SwitchOn \o <<Look(5)>>
    [] st = "SWITCHED_ON" -> EnableOperation
    [] st = "ENABLED" -> <<Write(EnableWord)>>
    [] st = "QUICK_STOP" -> Shutdown \o SwitchOn \o EnableOperation
    [] OTHER -> <<Ask("raise")>>

\* There is no second attempt (mutant).
OneHaltAttempt == <<Do("halt", Halted(EnableWord), {}, 2)>>

\* _halt_motor(): the second attempt is for the case that the first raised.
HaltAttempts == <<Do("halt", Halted(EnableWord), {}, 1), Do("halt", Halted(EnableWord), {}, 2)>>

Program(o) ==
  CASE o = "enable" -> <<Look(1)>>
    [] o = "reset" -> <<Ask("before"), CheckFault, Ask("recover")>>
    [] o \in {"stop", "quickStop"} ->
         HaltAttempts \o <<Ask("status"), Ask("mode")>>
    [] o = "disable" -> <<Write(DisableWord)>>
    [] o = "turn" -> <<Ask("turn"), Write(EnableWord \cup {"new"}), Write(EnableWord)>>

-----------------------------------------------------------------------------
(* Steps. *)

\* No motion is under way, or it is one at velocity 0.
Stands(d) == d.motion = "none" \/ (d.motion = "pv" /\ d.tv = 0)

\* Each operation notes what its promise is about.
Note(d) ==
  /\ drive' = d
  /\ sawEnabled' = [t \in Callers |->
       sawEnabled[t] \/ (op[t] \in {"enable", "reset"} /\ d.state = "enabled")]
  /\ sawClear' = [t \in Callers |-> sawClear[t] \/ (op[t] = "reset" /\ ~d.fault)]
  /\ sawRest' = [t \in Callers |->
       sawRest[t] \/ (op[t] \in {"stop", "quickStop"} /\ Stands(d))]

SameDrive == UNCHANGED <<drive, sawEnabled, sawClear, sawRest>>

\* The operation ends.
Ends(t, how) ==
  /\ op' = [op EXCEPT ![t] = "idle"]
  /\ prog' = [prog EXCEPT ![t] = <<>>]
  /\ result' = [result EXCEPT ![t] = how]

\* It never does (mutant).
GoesOnForever(t, p) == prog' = [prog EXCEPT ![t] = p] /\ UNCHANGED <<op, result>>

\* The operation goes on with p, and ends when there is nothing left.
GoesOn(t, p) ==
  IF p = <<>> THEN Ends(t, op[t])
  ELSE prog' = [prog EXCEPT ![t] = p] /\ UNCHANGED <<op, result>>

At(t, what) == prog[t] # <<>> /\ Head(prog[t]).do = what

Rest(t) == Tail(prog[t])

\* The drive after the access that t is about to make.
Accessed(t) ==
  CASE At(t, "write") \/ At(t, "halt") -> Apply(drive, Head(prog[t]).word)
    [] At(t, "turn") -> [drive EXCEPT !.tv = 1]
    [] At(t, "velocity") -> [drive EXCEPT !.tv = 0]
    [] OTHER -> drive

Executed(t) ==
  /\ Note(Accessed(t))
  /\ pulsed' = [pulsed EXCEPT ![t] =
       @ \/ (op[t] = "reset" /\ At(t, "write") /\ Head(prog[t]).word = ResetWord)]

\* _execute_stop() catches everything.
Raised(t) ==
  IF op[t] \in {"stop", "quickStop"} THEN Ends(t, op[t]) ELSE Ends(t, "raised")

CallBegins(t, o) ==
  /\ op[t] = "idle" /\ o \in Operations /\ calls < MaxCalls
  /\ calls' = calls + 1
  /\ op' = [op EXCEPT ![t] = o]
  /\ prog' = [prog EXCEPT ![t] = Program(o)]
  /\ result' = [result EXCEPT ![t] = "none"]
  /\ was' = [was EXCEPT ![t] = FALSE]
  /\ sawEnabled' = [sawEnabled EXCEPT ![t] = o \in {"enable", "reset"} /\ drive.state = "enabled"]
  /\ sawClear' = [sawClear EXCEPT ![t] = o = "reset" /\ ~drive.fault]
  /\ sawRest' = [sawRest EXCEPT ![t] = o \in {"stop", "quickStop"} /\ Stands(drive)]
  /\ pulsed' = [pulsed EXCEPT ![t] = FALSE]
  /\ failed' = [failed EXCEPT ![t] = 0]
  /\ UNCHANGED <<drive, remote, cache, reading, faults, upsets>>

environment == <<remote, cache, reading, calls, faults, upsets, failed>>
others == <<environment, pulsed>>

WriteControlword(t) ==
  /\ At(t, "write")
  /\ Executed(t)
  /\ GoesOn(t, Rest(t))
  /\ UNCHANGED <<was, environment>>

\* An attempt that succeeds is the last one.
HaltMotor(t) ==
  /\ At(t, "halt")
  /\ Executed(t)
  /\ prog' = [prog EXCEPT ![t] = IF Head(@).stage = 1 THEN Tail(Tail(@)) ELSE Tail(@)]
  /\ UNCHANGED <<op, result, was, environment>>

\* read_statusword() of the runner, which requires Remote.
Seen == Infer(Status(drive, remote))

RemoteMissing(t) ==
  /\ prog[t] # <<>> /\ Head(prog[t]).do \in {"wait", "look", "fault"}
  /\ ~remote
  /\ Raised(t) /\ SameDrive
  /\ UNCHANGED <<was, others>>

\* _wait_for_states() sees one of them.
WaitSucceeds(t) ==
  /\ At(t, "wait") /\ remote
  /\ Seen \in Head(prog[t]).states
  /\ GoesOn(t, Rest(t)) /\ SameDrive
  /\ UNCHANGED <<was, others>>

\* It times out; quick_stop() of the runner only logs that.
WaitTimesOut(t) ==
  /\ At(t, "wait") /\ remote
  /\ Seen \notin Head(prog[t]).states
  /\ IF Head(prog[t]).states = {"QUICK_STOP"} THEN GoesOn(t, Rest(t)) ELSE Raised(t)
  /\ SameDrive
  /\ UNCHANGED <<was, others>>

LookAndGoOn(t) ==
  /\ At(t, "look") /\ remote
  /\ GoesOn(t, Onward(Head(prog[t]).stage, Seen) \o Rest(t)) /\ SameDrive
  /\ UNCHANGED <<was, others>>

NoStateLeft(t) ==
  /\ At(t, "raise")
  /\ Raised(t) /\ SameDrive
  /\ UNCHANGED <<was, others>>

\* get_status(): the snapshot of the poller, if there is one.
CachedStatus == IF cache # NoSnapshot THEN cache ELSE Status(drive, remote)

\* The runner looks at the cached status (mutant).
ChecksCachedFault(t) ==
  /\ At(t, "fault") /\ remote
  /\ GoesOn(t, IF "fault" \in CachedStatus THEN ResetScript \o Rest(t) ELSE Rest(t))
  /\ SameDrive
  /\ UNCHANGED <<was, others>>

\* fault_reset() of the runner: nothing to do without a fault.
ChecksFault(t) ==
  /\ At(t, "fault") /\ remote
  /\ GoesOn(t, IF "fault" \in Status(drive, remote) THEN ResetScript \o Rest(t) ELSE Rest(t))
  /\ SameDrive
  /\ UNCHANGED <<was, others>>

StatusBefore(t) ==
  /\ At(t, "before")
  /\ was' = [was EXCEPT ![t] = "fault" \in CachedStatus]
  /\ GoesOn(t, Rest(t)) /\ SameDrive
  /\ UNCHANGED others

\* The rest of fault_reset(): recovery if there was a fault.
Recover(t) ==
  /\ At(t, "recover")
  /\ GoesOn(t, IF was[t] THEN <<Look(1), Write(Halted(EnableWord))>> ELSE <<>>)
  /\ SameDrive
  /\ UNCHANGED <<was, others>>

\* _execute_stop(): nothing more to do for a drive that is not enabled.
StatusForStop(t) ==
  /\ At(t, "status")
  /\ GoesOn(t, IF CachedStatus \cap {"enabled", "quickStop"} = {} THEN <<>>
               ELSE IF op[t] = "quickStop" THEN QuickStop ELSE Rest(t))
  /\ SameDrive
  /\ UNCHANGED <<was, others>>

\* Its mode-aware part: HALT, target velocity 0, or a quick stop.
ModeForStop(t) ==
  /\ At(t, "mode")
  /\ GoesOn(t, CASE drive.mode = 1 -> <<Write(Halted(EnableWord))>>
                 [] drive.mode = 3 -> <<Ask("velocity")>>
                 [] OTHER -> QuickStop)
  /\ SameDrive
  /\ UNCHANGED <<was, others>>

SetVelocity(t) ==
  /\ At(t, "velocity") \/ At(t, "turn")
  /\ Executed(t)
  /\ GoesOn(t, Rest(t))
  /\ UNCHANGED <<was, environment>>

\* An access raises, and the drive has executed it or not.
AccessRaises(t) ==
  /\ prog[t] # <<>> /\ Head(prog[t]).do \notin {"raise", "recover"}
  /\ Head(prog[t]).do \in {"before", "status"} => cache = NoSnapshot
  /\ faults < MaxFaults /\ faults' = faults + 1
  /\ failed' = [failed EXCEPT ![t] = IF At(t, "halt") THEN @ + 1 ELSE @]
  /\ (SameDrive /\ UNCHANGED pulsed) \/ Executed(t)
  /\ IF Head(prog[t]).do = "halt" THEN GoesOn(t, Rest(t)) ELSE Raised(t)
  /\ UNCHANGED <<remote, cache, reading, was, calls, upsets>>

-----------------------------------------------------------------------------
(* The telemetry poller, the drive and its inputs. *)

\* Of a snapshot only the bits that somebody decides by are kept.
PollReads ==
  /\ reading = NoSnapshot
  /\ reading' = Status(drive, remote) \cap {"fault", "enabled", "quickStop"}
  /\ UNCHANGED <<drive, remote, cache, callVars, faults, upsets, ghostVars>>

PollPublishes ==
  /\ reading # NoSnapshot
  /\ cache' = reading /\ reading' = NoSnapshot
  /\ UNCHANGED <<drive, remote, callVars, faults, upsets, ghostVars>>

EngineRuns ==
  /\ \E d \in EngineTurns(drive) : Note(d)
  /\ UNCHANGED <<others, was, op, prog, result>>

Upsets ==
  /\ upsets < MaxUpsets /\ upsets' = upsets + 1
  /\ \/ ~drive.fault /\ Note([drive EXCEPT !.fault = TRUE]) /\ UNCHANGED remote
     \/ Note([AtRest(drive) EXCEPT !.emergency = ~@]) /\ UNCHANGED remote
     \/ remote' = ~remote /\ SameDrive
  /\ UNCHANGED <<cache, reading, callVars, faults, pulsed, failed>>

\* The end of the fault reaction.
FaultReactionEnds ==
  /\ drive.fault /\ drive.state # "fault"
  /\ Note([AtRest(drive) EXCEPT !.state = "fault"])
  /\ UNCHANGED <<others, was, op, prog, result>>

-----------------------------------------------------------------------------
\* A drive in the middle of a motion.
MovingDrive(m) ==
  [FreshDrive EXCEPT !.state = "enabled", !.mode = m,
                     !.motion = IF m = 3 THEN "pv" ELSE "pp", !.tv = IF m = 3 THEN 1 ELSE 0,
                     !.target = MaxPos, !.goal = MaxPos, !.moving = TRUE, !.reached = FALSE]

\* A drive in fault, which is what one often connects to.
FaultyDrive == [FreshDrive EXCEPT !.state = "fault", !.fault = TRUE]

Init ==
  /\ drive \in {FreshDrive, FaultyDrive, MovingDrive(1), MovingDrive(3)}
  /\ remote = TRUE
  /\ cache = NoSnapshot /\ reading = NoSnapshot
  /\ op = [t \in Callers |-> "idle"]
  /\ prog = [t \in Callers |-> <<>>]
  /\ was = [t \in Callers |-> FALSE]
  /\ result = [t \in Callers |-> "none"]
  /\ calls = 0 /\ faults = 0 /\ upsets = 0
  /\ sawEnabled = [t \in Callers |-> FALSE]
  /\ sawClear = [t \in Callers |-> FALSE]
  /\ sawRest = [t \in Callers |-> FALSE]
  /\ pulsed = [t \in Callers |-> FALSE]
  /\ failed = [t \in Callers |-> 0]

Step(t) ==
  \/ WriteControlword(t) \/ HaltMotor(t) \/ RemoteMissing(t) \/ WaitSucceeds(t)
  \/ WaitTimesOut(t) \/ LookAndGoOn(t) \/ NoStateLeft(t) \/ ChecksFault(t)
  \/ StatusBefore(t) \/ Recover(t) \/ StatusForStop(t) \/ ModeForStop(t)
  \/ SetVelocity(t) \/ AccessRaises(t)

Next ==
  \/ \E t \in Callers : Step(t) \/ \E o \in Operations : CallBegins(t, o)
  \/ PollReads \/ PollPublishes \/ EngineRuns \/ Upsets \/ FaultReactionEnds

Spec == Init /\ [][Next]_vars

-----------------------------------------------------------------------------
(* Properties. *)

\* Every variable has its type, and just the operations under way have steps
\* to make.
TypeOK ==
  /\ drive \in DriveRecord /\ remote \in BOOLEAN
  /\ op \in [Callers -> Operations \cup {"idle"}]
  /\ DOMAIN prog = Callers
  /\ \A t \in Callers : op[t] = "idle" <=> prog[t] = <<>>
  /\ was \in [Callers -> BOOLEAN]
  /\ result \in [Callers -> Operations \cup {"none", "raised"}]
  /\ calls \in 0..MaxCalls /\ faults \in 0..MaxFaults /\ upsets \in 0..MaxUpsets
  /\ sawEnabled \in [Callers -> BOOLEAN] /\ sawClear \in [Callers -> BOOLEAN]
  /\ sawRest \in [Callers -> BOOLEAN] /\ pulsed \in [Callers -> BOOLEAN]
  /\ failed \in [Callers -> 0..MaxFaults]

\* enable_operation(), and the recovery of fault_reset() from a fault, return
\* only if the drive was in Operation Enabled at some moment of the call,
\* whoever else wrote controlwords, whatever raised and whatever the drive did
\* meanwhile (state_machine.py:187-232, motion_commands.py:193-200).
EnableKeepsItsWord ==
  \A t \in Callers :
    result[t] = "enable" \/ (result[t] = "reset" /\ was[t]) => sawEnabled[t]

\* fault_reset() that returns has had the drive without a fault at some moment
\* of the call (state_machine.py:153-185).
ResetKeepsItsWord == \A t \in Callers : result[t] = "reset" => sawClear[t]

\* stop() and quick_stop() never raise; one that returns has had the drive at
\* rest at some moment of the call, unless both its attempts to halt it raised
\* (motion_commands.py:121-184).
StopKeepsItsWord ==
  \A t \in Callers :
    result[t] \in {"stop", "quickStop"} /\ failed[t] < 2 => sawRest[t]
=============================================================================
