---------------------------- MODULE PackagedMoves ----------------------------
(***************************************************************************)
(* Moves, homing, stop and fault reset as packages/cia402 has them, against *)
(* the drive of packages/cia402-dryve-d1/.../simulator.py.  The packages    *)
(* are a split copy of src/dryve_d1; what differs is modelled here: the     *)
(* start pulse that is over before it is acknowledged, the acknowledge that *)
(* may be missing, "target reached" without a look at the position, the     *)
(* state machine cycled for a change of mode, bit 10 as a homing attained,  *)
(* and a drive that shows no bit 12 in profile position.                    *)
(*                                                                         *)
(* As in MotionFacade a caller is the operation it is in and the accesses   *)
(* it has still to make; the climb to Operation Enabled is one step, which  *)
(* CiA402 takes apart.  Profiles, the jog and the Remote input, which the   *)
(* simulator holds high, are left out.  Lines are those of packages/cia402. *)
(***************************************************************************)
EXTENDS SimulatedDrive, Sequences

CONSTANTS
  Callers,       \* coroutines of the callers
  Operations,    \* the facade operations they use
  Targets,       \* target positions, inside the limits or not
  Window,        \* the 250 units of _wait_start_acknowledgment()
  VerifyMode,    \* ProfilePositionConfig.verify_mode
  None,          \* no caller
  MaxCalls,      \* bound: facade calls made
  MaxFaults,     \* bound: accesses that raise
  MaxUpsets      \* bound: faults of the drive

ASSUME PackageAssumption ==
  /\ Operations \subseteq {"move", "home", "stop", "reset"}
  /\ Targets \subseteq Int /\ Window \in Nat /\ VerifyMode \in BOOLEAN
  /\ None \notin Callers
  /\ MaxCalls \in Nat /\ MaxFaults \in Nat /\ MaxUpsets \in Nat

VARIABLES
  drive,
  stale,         \* the D1 still shows bit 10 of the motion before
  abort,         \* _abort_event
  timer,         \* _idle_shutdown_handle is armed
  shutdown,      \* _idle_shutdown_task: "none", "looks" or "writes"
  orphan,        \* controlword 0 of a cancelled shutdown, still to be executed
  op, todo,      \* the operation of each caller, its accesses
  goal, result,  \* its target, how its last call ended
  calls, faults, upsets,   \* bounded counters
  mover,         \* ghost: whose set-point the drive is following
  cut,           \* ghost: callers whose motion ended before it arrived
  homedIn,       \* ghost: the drive has homed in the caller's present home()
  unpulsed,      \* ghost: a home() wrote its start bit while it was still high
  overlapped     \* ghost: two commands that write the drive were under way at once

callVars == <<op, todo, goal, result>>
idleVars == <<timer, shutdown, orphan>>
boundVars == <<calls, faults, upsets>>
startVars == <<stale, mover, homedIn, unpulsed>>
vars == <<drive, abort, callVars, idleVars, boundVars, startVars, cut, overlapped>>

Moving == {"move", "pp", "home", "reset"}
At(t, a) == todo[t] # <<>> /\ Head(todo[t]) = a

-----------------------------------------------------------------------------
(* Accesses. *)

\* _apply_controlword(), without the set-point acknowledge of src/simulator.py.
Written(d, cw) == [Apply(d, cw) EXCEPT !.ack = FALSE]

\* make_statusword(), bit 10 as the D1 shows it.
Bit10 == stale \/ "reached" \in Status(drive, TRUE)
Bit12 == "bit12" \in Status(drive, TRUE)

\* run_to_operation_enabled(), a fault being reset on the way.
Climbed(d) ==
  LET r == IF d.fault THEN Written(d, ResetWord) ELSE d
  IN  IF r.state = "enabled" THEN Written(r, EnableWord)
      ELSE Written(Written(Written(r, ShutdownWord), SwitchOnWord), EnableWord)

\* What access a of caller t does to the drive.
After(t, a) ==
  CASE a = "climb" -> Climbed(drive)
    [] a = "shutdown" -> Written(drive, ShutdownWord)
    [] a = "modePP" -> [drive EXCEPT !.mode = 1]
    [] a = "modeHM" -> [drive EXCEPT !.mode = 6]
    [] a = "target" -> [drive EXCEPT !.target = goal[t]]
    [] a \in {"unhalt", "clear"} -> Written(drive, EnableWord)
    [] a = "set" -> Written(drive, EnableWord \cup {"new"})
    [] a \in {"halt", "slowHalt"} -> Written(drive, Halted(EnableWord))
    [] a = "slowQuick" -> Written(drive, QuickStopWord)
    [] a = "reset" -> Written(drive, ResetWord)
    [] a = "haltReady" -> Written(drive, Halted(ShutdownWord))
    [] OTHER -> drive

\* Starts a motion: on the D1 bit 10 may stay for a while.
Starts(a) == a = "set" /\ ~drive.bit4 /\ ~drive.fault

\* The step ends the motion under way, and not because it has arrived.
EndsEarly ==
  /\ drive.motion # "none" /\ drive'.motion # drive.motion
  /\ IF drive.motion = "pp" THEN drive'.pos # drive.goal ELSE ~drive'.homed

\* The ghost that follows the end of a motion.
Notes == cut' = IF EndsEarly THEN cut \cup {mover} ELSE cut

\* The drive executes access a of t.
Executes(t, a) ==
  /\ drive' = After(t, a)
  /\ stale' \in IF Starts(a) /\ Bit10 THEN BOOLEAN ELSE {stale}
  /\ mover' = IF Starts(a) THEN t ELSE mover
  /\ homedIn' = homedIn
  /\ unpulsed' = IF a = "set" /\ op[t] = "home" /\ ~Starts(a)
                 THEN unpulsed \cup {t} ELSE unpulsed

Answered(t, a) == Executes(t, a) /\ Notes
NotExecuted == UNCHANGED <<drive, startVars>>
Same == UNCHANGED <<drive, startVars, cut, abort, boundVars, overlapped>>
SameFacade == UNCHANGED <<abort, boundVars, overlapped>>

-----------------------------------------------------------------------------
(* The idle shutdown. *)

\* _cancel_idle_shutdown_timer(): a write the session has taken stays there.
CancelIdle ==
  /\ timer' = FALSE /\ shutdown' = "none"
  /\ orphan' = (orphan \/ shutdown = "writes")

\* _schedule_idle_shutdown()
ScheduleIdle ==
  /\ timer' = TRUE /\ shutdown' = "none"
  /\ orphan' = (orphan \/ shutdown = "writes")

\* _fire_idle_shutdown()
IdleFires ==
  /\ timer
  /\ timer' = FALSE /\ shutdown' = "looks"
  /\ UNCHANGED <<orphan, callVars>> /\ Same

\* _idle_shutdown_action(), its state read answered.
IdleLooks ==
  /\ shutdown = "looks"
  /\ shutdown' = IF Infer(Status(drive, TRUE)) \in {"DISABLED", "READY"} THEN "none" ELSE "writes"
  /\ UNCHANGED <<timer, orphan, callVars>> /\ Same

\* Controlword 0 is executed: the shutdown's, or that of a cancelled one.
IdleWrites ==
  /\ \/ shutdown = "writes" /\ shutdown' = "none" /\ orphan' = orphan
     \/ orphan /\ orphan' = FALSE /\ shutdown' = shutdown
  /\ drive' = Written(drive, DisableWord) /\ Notes
  /\ UNCHANGED <<timer, callVars, startVars>> /\ SameFacade

\* The shutdown fails without the drive having heard of it.
IdleRaises ==
  /\ shutdown # "none" /\ faults < MaxFaults
  /\ faults' = faults + 1 /\ shutdown' = "none"
  /\ UNCHANGED <<drive, startVars, cut, abort, timer, orphan, callVars, calls, upsets, overlapped>>

-----------------------------------------------------------------------------
(* The facade operations, up to their first await. *)

Calls(t, o) ==
  /\ op[t] = "idle" /\ o \in Operations
  /\ calls < MaxCalls
  /\ calls' = calls + 1
  /\ op' = [op EXCEPT ![t] = o]
  /\ result' = [result EXCEPT ![t] = "none"]
  /\ cut' = cut \ {t} /\ homedIn' = homedIn \ {t} /\ unpulsed' = unpulsed \ {t}
  /\ mover' = IF mover = t /\ o \in Moving THEN None ELSE mover
  /\ overlapped' = (overlapped \/ (o \in Moving /\ \E u \in Callers : op[u] \in Moving))
  /\ UNCHANGED <<drive, stale, faults, upsets>>

\* move_to_position()
Move(t, p) ==
  /\ Calls(t, "move")
  /\ goal' = [goal EXCEPT ![t] = p]
  /\ todo' = [todo EXCEPT ![t] = <<"prepare">>]
  /\ CancelIdle /\ abort' = abort

\* home()
Home(t) ==
  /\ Calls(t, "home")
  /\ todo' = [todo EXCEPT ![t] = <<"ready">>]
  /\ UNCHANGED <<goal, abort, idleVars>>

\* stop(): HALT is tried twice.
Stop(t) ==
  /\ Calls(t, "stop")
  /\ abort' = TRUE
  /\ todo' = [todo EXCEPT ![t] = <<"halt", "halt", "slow">>]
  /\ UNCHANGED <<goal, idleVars>>

\* fault_reset(): what it will do after the reset hangs on the cached status.
Recovery == <<"climb", "halt">>
Reset(t) ==
  /\ Calls(t, "reset")
  /\ todo' \in {[todo EXCEPT ![t] = <<"fault">> \o s] : s \in {<<>>, Recovery}}
  /\ UNCHANGED <<goal, abort, idleVars>>

-----------------------------------------------------------------------------
(* Going on and coming to an end. *)

\* t goes on with the accesses of script.
GoOn(t, script) ==
  /\ todo' = [todo EXCEPT ![t] = script]
  /\ UNCHANGED <<op, goal, result, idleVars>>

\* The call of t ends; a move that had reached pp.move_to_position() goes
\* through its finally clause.
Ends(t, how) ==
  /\ op' = [op EXCEPT ![t] = "idle"]
  /\ todo' = [todo EXCEPT ![t] = <<>>]
  /\ result' = [result EXCEPT ![t] = how]
  /\ IF op[t] = "pp" THEN ScheduleIdle ELSE UNCHANGED idleVars
  /\ goal' = goal

\* t enters a wait, which begins with the check of the abort event.
Waits(t, what) == IF abort THEN Ends(t, "aborted") ELSE GoOn(t, <<what>>)

\* Off by one at the upper limit (mutant).
AlmostWithinLimits(p) == p \in 0..MaxPos + 1

\* _validate_position_limits()
WithinLimits(p) == p \in 0..MaxPos

\* An access that needs no decision; a target out of limits is refused first.
Access(t) ==
  /\ Len(todo[t]) > 1
  /\ \/ Head(todo[t]) \in {"climb", "shutdown", "modePP", "modeHM", "status", "configure", "target",
                           "barrier", "set", "reset", "haltReady"}
     \/ At(t, "unhalt") /\ WithinLimits(goal[t])
     \/ At(t, "clear") /\ op[t] = "pp"
  /\ Answered(t, Head(todo[t]))
  /\ GoOn(t, Tail(todo[t]))
  /\ SameFacade

-----------------------------------------------------------------------------
(* move_to_position() *)

BeforeHandshake == <<"unhalt", "look">>

\* _ensure_mode_pp() leaves Operation Enabled for a change of mode.
CycleToPp == <<"shutdown", "settled", "modePP", "climb", "status">>

\* The live status: an enabled drive is asked for its mode.
Prepare(t) ==
  /\ At(t, "prepare")
  /\ GoOn(t, IF drive.state = "enabled" THEN <<"mode">>
             ELSE <<"modePP", "climb", "status">> \o BeforeHandshake)
  /\ Same

ModeRead(t) ==
  /\ At(t, "mode")
  /\ GoOn(t, (IF drive.mode = 1 THEN <<>> ELSE CycleToPp) \o BeforeHandshake)
  /\ Same

\* The states that a shutdown, or a fault reset, waits for.
Settled(t) ==
  IF op[t] = "move" THEN drive.state \in {"ready", "disabled"} /\ ~drive.fault
  ELSE ~drive.fault /\ drive.state # "quickStop"

Settles(t) ==
  /\ At(t, "settled") /\ Settled(t)
  /\ IF Len(todo[t]) > 1 THEN GoOn(t, Tail(todo[t])) ELSE Ends(t, "done")
  /\ Same

\* StateMachineTimeout
SettlesNever(t) ==
  /\ At(t, "settled") /\ ~Settled(t)
  /\ Ends(t, "failed")
  /\ Same

TargetRefused(t) ==
  /\ At(t, "unhalt") /\ ~WithinLimits(goal[t])
  /\ Ends(t, "failed")
  /\ Same

\* ProfilePosition.move_to(): a pulse, and then the acknowledge.
Handshake ==
  <<"modePP", "verify", "configure", "target", "barrier", "set", "clear", "ack">>

\* The position read, answered or not; the abort event is cleared, and is_homed()
\* makes no access because the facade has no hooks.
EntersPp(t) ==
  /\ At(t, "look")
  /\ abort' = FALSE
  /\ op' = [op EXCEPT ![t] = "pp"]
  /\ todo' = [todo EXCEPT ![t] = Handshake]
  /\ UNCHANGED <<drive, startVars, cut, goal, result, idleVars, boundVars, overlapped>>

\* ProfilePosition.ensure_mode(): confirmed, or the deadline passes.
ModeVerified(t) ==
  /\ At(t, "verify")
  /\ IF drive.mode = 1 \/ ~VerifyMode THEN GoOn(t, Tail(todo[t])) ELSE Ends(t, "failed")
  /\ Same

\* _wait_start_acknowledgment()
Acknowledged(t) ==
  /\ At(t, "ack") /\ (Bit12 \/ ~Bit10)
  /\ Waits(t, "wait")
  /\ Same

\* No acknowledge for half a second: target and position are compared.
NotAcknowledged(t) ==
  /\ At(t, "ack") /\ Bit10 /\ ~Bit12
  /\ GoOn(t, <<"delta">>)
  /\ Same

\* A missing acknowledge is as good as one (mutant).
DeltaIgnored(t) ==
  /\ At(t, "delta")
  /\ Waits(t, "wait")
  /\ Same

\* Near the target the motion is over; elsewhere bit 10 has to clear first.
DeltaRead(t) ==
  /\ At(t, "delta")
  /\ Waits(t, IF drive.pos - drive.target \in -Window..Window THEN "wait" ELSE "clears")
  /\ Same

\* wait_target_reached(): bit 10 has cleared at last.
ClearSeen(t) ==
  /\ At(t, "clears") /\ ~Bit10
  /\ Waits(t, "wait")
  /\ Same

\* Bit 10 is enough.
ReachedSeen(t) ==
  /\ At(t, "wait") /\ Bit10
  /\ Ends(t, "reached")
  /\ Same

\* MotionAborted
AbortSeen(t) ==
  /\ abort /\ \E a \in {"clears", "wait", "done"} : At(t, a)
  /\ Ends(t, "aborted")
  /\ Same

\* A fault is seen, or the deadline passes, in a poll that is not answered well.
WaitFails(t) ==
  /\ (At(t, "clears") /\ Bit10) \/ (At(t, "wait") /\ ~Bit10) \/ (At(t, "done") /\ ~Bit10 /\ ~Bit12)
  /\ Ends(t, "failed")
  /\ Same

-----------------------------------------------------------------------------
(* home(), stop() and fault_reset() *)

\* The start bit goes out before the mode (mutant).
HomingStartsFirst == <<"configure", "barrier", "set", "modeHM", "clear", "done">>

\* Homing.run()
HomingScript == <<"modeHM", "configure", "barrier", "set", "clear", "done">>

\* _check_drive_ready(): the fault gate, and the climb when it is needed.
HomeReady(t) ==
  /\ At(t, "ready")
  /\ IF drive.fault THEN Ends(t, "failed") /\ abort' = abort
     ELSE IF drive.state = "enabled" THEN GoOn(t, HomingScript) /\ abort' = FALSE
     ELSE GoOn(t, <<"climb", "readyNow">>) /\ abort' = abort
  /\ UNCHANGED <<drive, startVars, cut, boundVars, overlapped>>

HomeReadyNow(t) ==
  /\ At(t, "readyNow")
  /\ GoOn(t, HomingScript) /\ abort' = FALSE
  /\ UNCHANGED <<drive, startVars, cut, boundVars, overlapped>>

\* Bit 4 is released, and wait_done() begins.
HomingStarted(t) ==
  /\ op[t] = "home" /\ At(t, "clear")
  /\ Answered(t, "clear")
  /\ Waits(t, "done")
  /\ SameFacade

\* Bit 12, or bit 10 without it.
HomingDone(t) ==
  /\ At(t, "done") /\ (Bit12 \/ Bit10)
  /\ Ends(t, "attained")
  /\ Same

\* The first HALT that is answered is enough.
HaltDone(t) ==
  /\ op[t] = "stop" /\ At(t, "halt")
  /\ Answered(t, "halt")
  /\ GoOn(t, <<"slow">>)
  /\ SameFacade

\* By the cached status, of any age, the stop is over, or the mode decides.
StopLooks(t) ==
  /\ At(t, "slow")
  /\ \/ Ends(t, "done")
     \/ GoOn(t, IF drive.mode = 1 THEN <<"slowHalt">> ELSE <<"slowQuick">>)
  /\ Same

\* The last access of a stop, or of a recovery, is answered.
LastWrite(t) ==
  /\ \/ \E a \in {"slowHalt", "slowQuick"} : At(t, a)
     \/ op[t] = "reset" /\ At(t, "halt")
  /\ Answered(t, Head(todo[t]))
  /\ Ends(t, "done")
  /\ SameFacade

\* sm.fault_reset() does nothing without a fault.
FaultRead(t) ==
  /\ At(t, "fault")
  /\ IF drive.fault
     THEN GoOn(t, <<"reset", "shutdown", "haltReady", "settled">> \o Tail(todo[t]))
     ELSE IF Len(todo[t]) > 1 THEN GoOn(t, Tail(todo[t])) ELSE Ends(t, "done")
  /\ Same

-----------------------------------------------------------------------------
(* An access raises; the drive has executed it or not. *)

Raises(t) ==
  /\ todo[t] # <<>> /\ faults < MaxFaults
  /\ faults' = faults + 1
  /\ Executes(t, Head(todo[t])) \/ NotExecuted
  /\ Notes
  /\ UNCHANGED <<calls, upsets, overlapped>>

\* The failures that the code swallows.
Tolerated(t) ==
  \/ op[t] = "stop" \/ At(t, "mode") \/ At(t, "look")
  \/ At(t, "verify") /\ ~VerifyMode

RaiseEnds(t) ==
  /\ Raises(t) /\ ~Tolerated(t)
  /\ Ends(t, "failed")
  /\ UNCHANGED abort

\* An unreadable mode is a wrong one; a stop tries its next access.
RaiseGoesOn(t) ==
  /\ Raises(t) /\ (op[t] = "stop" \/ At(t, "mode"))
  /\ IF At(t, "mode") THEN GoOn(t, CycleToPp \o BeforeHandshake)
     ELSE IF Len(todo[t]) > 1 THEN GoOn(t, Tail(todo[t])) ELSE Ends(t, "done")
  /\ UNCHANGED abort

-----------------------------------------------------------------------------
(* The drive. *)

EngineRuns ==
  /\ drive' \in EngineTurns(drive) /\ stale' \in {stale, FALSE}
  /\ <<drive', stale'>> # <<drive, stale>>
  /\ homedIn' = IF drive'.homed /\ ~drive.homed
                THEN homedIn \cup {t \in Callers : op[t] = "home"} ELSE homedIn
  /\ Notes
  /\ UNCHANGED <<mover, unpulsed, idleVars, callVars>> /\ SameFacade

\* A fault comes up, with its reaction over.
Upset ==
  /\ upsets < MaxUpsets /\ ~drive.fault
  /\ upsets' = upsets + 1
  /\ drive' = [AtRest(drive) EXCEPT !.fault = TRUE, !.state = "fault"]
  /\ Notes
  /\ UNCHANGED <<startVars, abort, idleVars, callVars, calls, faults, overlapped>>

-----------------------------------------------------------------------------
Init ==
  /\ drive = FreshDrive /\ stale = FALSE
  /\ abort = FALSE
  /\ timer = FALSE /\ shutdown = "none" /\ orphan = FALSE
  /\ op = [t \in Callers |-> "idle"] /\ todo = [t \in Callers |-> <<>>]
  /\ goal = [t \in Callers |-> 0] /\ result = [t \in Callers |-> "none"]
  /\ calls = 0 /\ faults = 0 /\ upsets = 0
  /\ mover = None /\ cut = {} /\ homedIn = {} /\ unpulsed = {}
  /\ overlapped = FALSE

Call(t) == (\E p \in Targets : Move(t, p)) \/ Home(t) \/ Stop(t) \/ Reset(t)

Step(t) ==
  \/ Access(t) \/ Prepare(t) \/ ModeRead(t) \/ Settles(t) \/ SettlesNever(t)
  \/ TargetRefused(t) \/ EntersPp(t) \/ ModeVerified(t)
  \/ Acknowledged(t) \/ NotAcknowledged(t) \/ DeltaRead(t) \/ ClearSeen(t)
  \/ ReachedSeen(t) \/ AbortSeen(t) \/ WaitFails(t)
  \/ HomeReady(t) \/ HomeReadyNow(t) \/ HomingStarted(t) \/ HomingDone(t)
  \/ HaltDone(t) \/ StopLooks(t) \/ LastWrite(t) \/ FaultRead(t)
  \/ RaiseEnds(t) \/ RaiseGoesOn(t)

Idle == IdleFires \/ IdleLooks \/ IdleWrites \/ IdleRaises

\* No call is under way: the system may rest.
Quiet == (\A t \in Callers : op[t] = "idle") /\ UNCHANGED vars

Next ==
  \/ \E t \in Callers : Call(t) \/ Step(t)
  \/ Idle \/ EngineRuns \/ Upset \/ Quiet

Spec == Init /\ [][Next]_vars

-----------------------------------------------------------------------------
(* Properties. *)

\* Every variable has its type, a caller has accesses left just while it is in
\* an operation, and no target outside the limits ever reaches the drive.
TypeOK ==
  /\ drive \in DriveRecord /\ drive.target \in 0..MaxPos /\ ~drive.ack
  /\ {stale, abort, timer, orphan, overlapped} \subseteq BOOLEAN
  /\ shutdown \in {"none", "looks", "writes"}
  /\ op \in [Callers -> Moving \cup {"idle", "stop"}]
  /\ \A t \in Callers : todo[t] = <<>> <=> op[t] = "idle"
  /\ goal \in [Callers -> Targets \cup {0}]
  /\ result \in [Callers -> {"none", "failed", "aborted", "reached", "attained", "done"}]
  /\ calls \in 0..MaxCalls /\ faults \in 0..MaxFaults /\ upsets \in 0..MaxUpsets
  /\ mover \in Callers \cup {None}
  /\ homedIn \cup unpulsed \subseteq Callers /\ cut \subseteq Callers \cup {None}

\* "Without this, a stale bit10=1 after homing or a previous move causes an
\* instant false 'target reached'" (profile_position.py:272): a move reports
\* success only near its target, whatever bit 10 shows - unless its motion was
\* cut short, since HALT, controlword 0 and a fault set bit 10 as well, the drive
\* is in fault, which is looked at after bit 10 (303-313), or commands overlapped.
ReachedIsThere ==
  [][\A t \in Callers :
       result[t] # "reached" /\ result'[t] = "reached"
         => \/ drive.pos - goal[t] \in -Window..Window
            \/ t \in cut \/ drive.fault \/ overlapped]_vars

\* "Accept target_reached as an alternative completion signal" (homing.py:153):
\* what that costs.  home() reports success only when the axis has homed during
\* the call, unless bit 10 was stale, the start bit met a drive that could not
\* take it, the homing was cut short, or commands overlapped.
AttainedIsHomed ==
  [][\A t \in Callers :
       result[t] # "attained" /\ result'[t] = "attained"
         => stale \/ t \in homedIn \cup unpulsed \cup cut \/ overlapped]_vars
=============================================================================
