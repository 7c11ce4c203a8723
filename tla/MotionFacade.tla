---------------------------- MODULE MotionFacade ----------------------------
(***************************************************************************)
(* move_to_position(), home(), stop() and the idle shutdown of             *)
(* api/motion_commands.py and api/idle_shutdown.py, with the set-point     *)
(* handshake of motion/profile_position.py and motion/homing.py, against   *)
(* the drive of SimulatedDrive.  Callers interleave at every await; jog    *)
(* and enable are here what their own modules show them to be (JogController, *)
(* CiA402): the accesses that matter, and the climb in one step.           *)
(*                                                                         *)
(* A caller is the operation it is in (op) and the object accesses it has  *)
(* still to make (todo).  An access succeeds, or an attempt of it fails    *)
(* and the session repeats it, or it raises.  What a failed attempt has    *)
(* sent, or a thread that wait_for() abandoned still sends, may reach the  *)
(* drive at any later time, more than once or never (late).  A poll that   *)
(* sees nothing polls again, or its deadline passes.                       *)
(***************************************************************************)
EXTENDS SimulatedDrive, Sequences

CONSTANTS
  Callers,       \* coroutines of the callers
  Operations,    \* the facade operations they use
  Targets,       \* target positions, inside the limits or not
  Window,        \* completion tolerance of a move
  VerifyMode,    \* ProfilePositionConfig.verify_mode
  None,          \* no caller; the configured default
  MaxCalls,      \* bound: facade calls made
  MaxFaults,     \* bound: accesses that raise and attempts that are repeated
  MaxUpsets      \* bound: faults of the drive

ASSUME FacadeAssumption ==
  /\ Operations \subseteq {"move", "home", "stop", "jog", "jogStop"}
  /\ Targets \subseteq Int /\ Window \in Nat \ {0} /\ VerifyMode \in BOOLEAN
  /\ None \notin Callers
  /\ MaxCalls \in Nat /\ MaxFaults \in Nat /\ MaxUpsets \in Nat

VARIABLES
  drive,
  stale,         \* the D1 still shows bit 10 of the motion before
  late,          \* writes of failed attempts that may still be executed
  profile,       \* whose velocity and ramps the drive has, None: those
                 \* configured or of an earlier call
  cfg,           \* whose values pp._cfg holds, None: the configured ones
  saved,         \* what a move stashed before it overrode cfg
  abort,         \* _abort_event
  jogging,       \* the jog is active
  timer,         \* _idle_shutdown_handle is armed
  shutdown,      \* _idle_shutdown_task: "none", "looks" or "writes"
  orphan,        \* controlword 0 of a shutdown that is over may still be executed
  op, todo,      \* the operation of each caller, its accesses
  goal, result,  \* its target, how its last call ended
  calls, faults, upsets,   \* bounded counters
  mover,         \* ghost: whose set-point the drive is following
  homedIn,       \* ghost: the drive has homed in the caller's present home()
  unpulsed,      \* ghost: a home() wrote its start bit while it was still high
  stuck,         \* ghost: an access of a start pulse has raised
  overlapped,    \* ghost: two motion commands were under way at once, or a late
                 \* write has come into a motion command (Strays)
  halted,        \* ghost: moves that met a HALT after their set-point
  resent,        \* ghost: moves whose set-point the session sent again
  idleDue        \* ghost: a motion has ended, and nothing has revoked the shutdown

callVars == <<op, todo, goal, result>>
cfgVars == <<profile, cfg, saved>>
idleVars == <<timer, shutdown, orphan, idleDue>>
boundVars == <<calls, faults, upsets>>
ghostVars == <<mover, homedIn, unpulsed, stuck, overlapped, halted, resent>>
vars == <<drive, stale, late, abort, jogging, callVars, cfgVars, idleVars, boundVars, ghostVars>>

MotionOps == {"move", "pp", "home", "jog", "jogStop"}
At(t, a) == todo[t] # <<>> /\ Head(todo[t]) = a

-----------------------------------------------------------------------------
(* Accesses. *)

SetWord == EnableWord \cup {"new"}
ReleaseWord == EnableWord

\* run_to_operation_enabled(), a fault being reset on the way.
Climbed(d) ==
  LET r == IF d.fault THEN Apply(d, ResetWord) ELSE d
  IN  IF r.state = "enabled" THEN Apply(r, EnableWord)
      ELSE Apply(Apply(Apply(r, ShutdownWord), SwitchOnWord), EnableWord)

\* What access a does to the drive, p being the target it writes.
After(a, p) ==
  CASE a = "climb" -> Climbed(drive)
    [] a = "modePP" -> [drive EXCEPT !.mode = 1]
    [] a = "modeHM" -> [drive EXCEPT !.mode = 6]
    [] a = "modePV" -> [drive EXCEPT !.mode = 3]
    [] a = "target" -> [drive EXCEPT !.target = p]
    [] a = "velocity" -> [drive EXCEPT !.tv = 1]
    [] a = "zero" -> [drive EXCEPT !.tv = 0]
    [] a = "unhalt" -> Apply(drive, EnableWord)
    [] a = "set" -> Apply(drive, SetWord)
    [] a = "clear" -> Apply(drive, ReleaseWord)
    [] a \in {"halt", "slowHalt"} -> Apply(drive, Halted(EnableWord))
    [] a = "slowQuick" -> Apply(drive, QuickStopWord)
    [] OTHER -> drive

Bit10 == stale \/ "reached" \in Status(drive, TRUE)
Bit12 == "bit12" \in Status(drive, TRUE)

\* A set-point has started a motion: on the D1 bit 10 may stay for a while.
Starts(a) == a = "set" /\ ~drive.bit4 /\ ~drive.fault

\* The move of u has written its set-point.
Started(u) == op[u] = "pp" /\ \E a \in {"ack", "clear", "wait", "position"} : At(u, a)

\* The drive executes access a of a caller with target p.
Executes(by, a, p) ==
  /\ drive' = After(a, p)
  /\ stale' \in IF Starts(a) /\ Bit10 THEN BOOLEAN ELSE {stale}
  /\ mover' = IF Starts(a) THEN by ELSE mover
  /\ halted' = IF a \in {"halt", "slowHalt"}
               THEN halted \cup {u \in Callers : op[u] = "pp" /\ mover = u}
               ELSE halted
  /\ homedIn' = IF Starts(a) THEN homedIn \ {by} ELSE homedIn
  /\ unpulsed' = unpulsed \cup {u \in Callers : u = by /\ op[u] = "home" /\ mover # u
                                               /\ a = "set" /\ ~Starts(a)}

\* ... and answers access a of t.
Answered(t, a) ==
  /\ Executes(t, a, goal[t])
  /\ profile' = IF a = "profile" /\ cfg # None THEN cfg ELSE profile
  /\ stuck' = (stuck /\ drive'.bit4)
  /\ UNCHANGED <<late, resent>>

\* The accesses that change the drive; the others only read.
Writes == {"climb", "modePP", "modeHM", "modePV", "target", "profile", "velocity", "zero",
           "unhalt", "set", "clear", "halt", "slowHalt", "slowQuick"}

\* What a failed attempt of t's access leaves on the wire or in a thread.
Copies(t) ==
  LET act == Head(todo[t])
  IN  IF act \in Writes
      THEN {[by |-> t, act |-> act, goal |-> IF act = "target" THEN goal[t] ELSE 0]}
      ELSE {}

\* A late write that is not one of stop() or of a release falls into a motion
\* command: another one's, or its own after it has gone on to other controlwords.
Strays(w) ==
  /\ w.act \notin {"halt", "slowHalt", "slowQuick", "zero"}
  /\ \E u \in Callers : /\ op[u] \in MotionOps
                        /\ w.by # u \/ (w.act = "climb" /\ ~At(u, "climb"))

\* One controlword of a climb.
ClimbWords == {ResetWord, ShutdownWord, SwitchOnWord, EnableWord}

\* A write of a failed attempt, or of an abandoned thread, reaches the drive.
LateWrite(w) ==
  /\ w \in late
  /\ IF w.act = "climb"
     THEN /\ \E cw \in ClimbWords : drive' = Apply(drive, cw)
          /\ UNCHANGED <<stale, mover, halted, homedIn, unpulsed>>
     ELSE Executes(w.by, w.act, w.goal)
  /\ profile' = IF w.act = "profile" THEN w.by ELSE profile
  /\ stuck' = (drive'.bit4 /\ (stuck \/ w.act = "set"))
  /\ overlapped' = (overlapped \/ Strays(w))
  /\ UNCHANGED <<late, resent, abort, jogging, callVars, cfg, saved, idleVars, boundVars>>

-----------------------------------------------------------------------------
(* The idle shutdown. *)

\* Only the timer is cancelled, not the task (mutant).
CancelTimerOnly ==
  /\ timer' = FALSE
  /\ UNCHANGED <<shutdown, orphan>>

\* _cancel_idle_shutdown_timer(): a write the session has taken stays there.
CancelIdle ==
  /\ timer' = FALSE
  /\ shutdown' = "none"
  /\ orphan' = (orphan \/ shutdown = "writes")

\* _schedule_idle_shutdown()
ScheduleIdle ==
  /\ timer' = TRUE
  /\ shutdown' = "none"
  /\ orphan' = (orphan \/ shutdown = "writes")

\* _fire_idle_shutdown()
IdleFires ==
  /\ timer
  /\ timer' = FALSE /\ shutdown' = "looks"
  /\ UNCHANGED <<drive, stale, late, abort, jogging, callVars, cfgVars, orphan, idleDue,
                 boundVars, ghostVars>>

\* _idle_shutdown_action(), its state read answered.
IdleLooks ==
  /\ shutdown = "looks"
  /\ LET stays == Infer(Status(drive, TRUE)) \in {"DISABLED", "READY"} \/ jogging
     IN  /\ shutdown' = IF stays THEN "none" ELSE "writes"
         /\ idleDue' = (idleDue /\ ~stays)
  /\ UNCHANGED <<drive, stale, late, abort, jogging, callVars, cfgVars, timer, orphan,
                 boundVars, ghostVars>>

\* disable_voltage(): controlword 0 is executed.
IdleWrites ==
  /\ shutdown = "writes"
  /\ drive' = Apply(drive, DisableWord)
  /\ shutdown' = "none" /\ idleDue' = FALSE
  /\ UNCHANGED <<stale, late, abort, jogging, callVars, cfgVars, timer, orphan, boundVars,
                 ghostVars>>

\* The shutdown fails, which is logged and nothing else; its write may come late.
IdleRaises ==
  /\ shutdown # "none" /\ faults < MaxFaults
  /\ faults' = faults + 1
  /\ orphan' = (orphan \/ shutdown = "writes")
  /\ shutdown' = "none" /\ idleDue' = FALSE
  /\ UNCHANGED <<drive, stale, late, abort, jogging, callVars, cfgVars, timer, calls, upsets,
                 ghostVars>>

\* An attempt of its write fails, and the session repeats it.
IdleAttemptFails ==
  /\ shutdown = "writes" /\ faults < MaxFaults
  /\ faults' = faults + 1
  /\ orphan' = TRUE
  /\ UNCHANGED <<drive, stale, late, abort, jogging, callVars, cfgVars, timer, shutdown, idleDue,
                 calls, upsets, ghostVars>>

\* What the task had submitted, or a failed attempt has sent, is executed.
OrphanWrites ==
  /\ orphan
  /\ orphan' = FALSE
  /\ drive' = Apply(drive, DisableWord)
  /\ UNCHANGED <<stale, late, abort, jogging, callVars, cfgVars, timer, shutdown, idleDue,
                 boundVars, ghostVars>>

-----------------------------------------------------------------------------
(* The facade operations, up to their first await. *)

\* What an earlier call of t has left on its way is not of the new one.
Calls(t, o) ==
  /\ op[t] = "idle" /\ o \in Operations
  /\ calls < MaxCalls
  /\ calls' = calls + 1
  /\ op' = [op EXCEPT ![t] = o]
  /\ result' = [result EXCEPT ![t] = "none"]
  /\ halted' = halted \ {t} /\ homedIn' = homedIn \ {t} /\ unpulsed' = unpulsed \ {t}
  /\ resent' = resent \ {t}
  /\ late' = {[w EXCEPT !.by = IF w.by = t THEN None ELSE w.by] : w \in late}
  /\ mover' = IF mover = t /\ o \in MotionOps THEN None ELSE mover
  /\ overlapped' = (overlapped \/ (o \in MotionOps /\ \E u \in Callers : op[u] \in MotionOps)
                               \/ (o = "home" /\ jogging))

\* move_to_position()
Move(t, p) ==
  /\ Calls(t, "move")
  /\ goal' = [goal EXCEPT ![t] = p]
  /\ todo' = [todo EXCEPT ![t] = <<"prepare">>]
  /\ CancelIdle /\ idleDue' = FALSE
  /\ UNCHANGED <<drive, stale, abort, jogging, cfgVars, faults, upsets, stuck>>

\* home(): the idle shutdown stays as it is.
Home(t) ==
  /\ Calls(t, "home")
  /\ todo' = [todo EXCEPT ![t] = <<"ready">>]
  /\ UNCHANGED <<drive, stale, abort, jogging, goal, cfgVars, idleVars, faults, upsets,
                 stuck>>

\* stop() and _halt_motor(): HALT is tried twice.
Stop(t) ==
  /\ Calls(t, "stop")
  /\ abort' = TRUE
  /\ todo' = [todo EXCEPT ![t] = <<"halt", "halt", "slow">>]
  /\ UNCHANGED <<drive, stale, jogging, goal, cfgVars, idleVars, faults, upsets, stuck>>

\* jog_start()
Jog(t) ==
  /\ Calls(t, "jog")
  /\ abort' = FALSE
  /\ todo' = [todo EXCEPT ![t] = <<"boundary">>]
  /\ CancelIdle /\ idleDue' = FALSE
  /\ UNCHANGED <<drive, stale, jogging, goal, cfgVars, faults, upsets, stuck>>

\* jog_stop() returns at once when no jog is active.
JogStop(t) ==
  /\ jogging
  /\ Calls(t, "jogStop")
  /\ todo' = [todo EXCEPT ![t] = <<"zero">>]
  /\ UNCHANGED <<drive, stale, abort, jogging, goal, cfgVars, idleVars, faults, upsets,
                 stuck>>

-----------------------------------------------------------------------------
(* Going on and coming to an end. *)

\* t goes on with the accesses of script.
GoOn(t, script) ==
  /\ todo' = [todo EXCEPT ![t] = script]
  /\ UNCHANGED <<op, goal, result, cfg, saved, idleVars>>

\* The overridden configuration is restored on success only (mutant).
RestoreOnSuccess(t, how) == IF how = "reached" THEN saved[t] ELSE cfg

\* The finally of pp.move_to_position().
Restored(t, how) == saved[t]

\* A move that fails schedules no shutdown (mutant).
ScheduleOnSuccess(how) == IF how = "reached" THEN ScheduleIdle ELSE UNCHANGED <<timer, shutdown, orphan>>

\* The finally of move_to_position(): whatever the outcome.
ScheduleFinally(how) == ScheduleIdle

\* The call of t ends; a move that had reached pp.move_to_position() goes
\* through both finally clauses.
Ends(t, how) ==
  /\ op' = [op EXCEPT ![t] = "idle"]
  /\ todo' = [todo EXCEPT ![t] = <<>>]
  /\ result' = [result EXCEPT ![t] = how]
  /\ IF op[t] = "pp"
     THEN cfg' = Restored(t, how) /\ ScheduleFinally(how) /\ idleDue' = TRUE
     ELSE cfg' = cfg /\ UNCHANGED idleVars
  /\ UNCHANGED <<goal, saved>>

-----------------------------------------------------------------------------
(* Accesses that only the drive answers. *)

Same == UNCHANGED <<drive, stale, late, profile, abort, jogging, boundVars, ghostVars>>
SameFacade == UNCHANGED <<abort, jogging, boundVars, overlapped>>

\* Off by one at the upper limit (mutant).
AlmostWithinLimits(p) == p \in 0..MaxPos + 1

\* _validate_position_limits(), with the limits of the drive
WithinLimits(p) == p \in 0..MaxPos

\* An access that needs no decision; a target out of limits is refused first.
Access(t) ==
  /\ Len(todo[t]) > 1
  /\ \/ Head(todo[t]) \in {"climb", "modePP", "status", "profile", "target", "barrier", "set",
                           "modeHM", "modePV", "velocity"}
     \/ At(t, "unhalt") /\ (op[t] = "move" => WithinLimits(goal[t]))
     \/ At(t, "zero") /\ op[t] = "jog"
     \/ At(t, "clear") /\ op[t] = "home"
  /\ Answered(t, Head(todo[t]))
  /\ GoOn(t, Tail(todo[t]))
  /\ SameFacade

-----------------------------------------------------------------------------
(* move_to_position() before the handshake. *)

\* _ensure_mode_pp(), after its mode read: what has to be written.
EnsureModePp(wrong, needEnable) ==
  IF wrong \/ needEnable
  THEN <<"modePP">> \o (IF needEnable THEN <<"climb">> ELSE <<>>) \o <<"status">>
  ELSE <<>>

BeforeHandshake == <<"unhalt", "look", "homed">>

\* _prepare_motion_context(): the live status, and an active jog to release.
Prepare(t) ==
  /\ op[t] = "move" /\ At(t, "prepare")
  /\ LET mode == IF drive.state = "enabled" THEN "modeOn" ELSE "modeOff"
     IN  GoOn(t, (IF jogging THEN <<"zero">> ELSE <<>>) \o <<mode>>)
  /\ Same

\* The jog is over once its zero velocity is written.
MoveReleasesJog(t) ==
  /\ op[t] = "move" /\ At(t, "zero")
  /\ Answered(t, "zero")
  /\ jogging' = FALSE
  /\ GoOn(t, Tail(todo[t]))
  /\ UNCHANGED <<abort, boundVars, overlapped>>

ModeRead(t) ==
  /\ op[t] = "move" /\ (At(t, "modeOn") \/ At(t, "modeOff"))
  /\ GoOn(t, EnsureModePp(drive.mode # 1, At(t, "modeOff")) \o BeforeHandshake)
  /\ Same

TargetRefused(t) ==
  /\ op[t] = "move" /\ At(t, "unhalt") /\ ~WithinLimits(goal[t])
  /\ Ends(t, "failed")
  /\ Same

\* After the position read the abort event is cleared, whatever set it.
ClearsAbort(t) ==
  /\ op[t] = "move" /\ At(t, "look")
  /\ abort' = FALSE
  /\ GoOn(t, Tail(todo[t]))
  /\ UNCHANGED <<drive, stale, late, profile, jogging, boundVars, ghostVars>>

Handshake == <<"modePP", "verify", "profile", "target", "barrier", "set", "ack">>

\* pp.move_to_position(): the configuration is stashed and overridden.
EntersPp(t) ==
  /\ op' = [op EXCEPT ![t] = "pp"]
  /\ todo' = [todo EXCEPT ![t] = Handshake]
  /\ saved' = [saved EXCEPT ![t] = cfg] /\ cfg' = t
  /\ UNCHANGED <<goal, result, idleVars>>

HomedRead(t) ==
  /\ op[t] = "move" /\ At(t, "homed")
  /\ EntersPp(t)
  /\ Same

-----------------------------------------------------------------------------
(* The set-point handshake. *)

\* ProfilePosition.ensure_mode(): confirmed, or the deadline passes.
ModeVerified(t) ==
  /\ op[t] = "pp" /\ At(t, "verify")
  /\ IF drive.mode = 1 \/ ~VerifyMode THEN GoOn(t, Tail(todo[t])) ELSE Ends(t, "failed")
  /\ Same

\* _wait_setpoint_ack()
Acknowledged(t) ==
  /\ op[t] = "pp" /\ At(t, "ack")
  /\ Bit12 \/ ~Bit10
  /\ GoOn(t, <<"clear", "wait">>)
  /\ Same

\* A start that is not acknowledged is repeated (mutant).
AckFailureRepeats(t) == GoOn(t, <<"set", "ack">>)

\* The finally of move_to() is forgotten: bit 4 stays high (mutant).
AckFailureIsFinal(t) == Ends(t, "failed")

\* The exception waits until bit 4 has been released.
AckFailure(t) ==
  /\ todo' = [todo EXCEPT ![t] = <<"clear">>]
  /\ result' = [result EXCEPT ![t] = "failed"]
  /\ UNCHANGED <<op, goal, cfg, saved, idleVars>>

\* A fault is seen, or the deadline passes.
NotAcknowledged(t) ==
  /\ op[t] = "pp" /\ At(t, "ack")
  /\ Bit10 /\ ~Bit12
  /\ AckFailure(t)
  /\ Same

\* Bit 4 is released; wait_target_reached() begins with its abort check.
Releases(t) ==
  /\ op[t] = "pp" /\ At(t, "clear")
  /\ Answered(t, "clear")
  /\ IF result[t] = "failed" THEN Ends(t, "failed")
     ELSE IF abort THEN Ends(t, "aborted") ELSE GoOn(t, <<"wait">>)
  /\ SameFacade

\* MotionAborted
AbortSeen(t) ==
  /\ abort
  /\ (op[t] = "pp" /\ At(t, "wait")) \/ (op[t] = "home" /\ At(t, "done"))
  /\ Ends(t, "aborted")
  /\ Same

\* Bit 10 is enough (mutant).
BelievesBit10(t) ==
  /\ op[t] = "pp" /\ At(t, "wait") /\ Bit10
  /\ Ends(t, "reached")
  /\ Same

\* wait_target_reached() sees bit 10 and reads the position.
ReachedSeen(t) ==
  /\ op[t] = "pp" /\ At(t, "wait") /\ Bit10
  /\ GoOn(t, <<"position">>)
  /\ Same

Near(t) == drive.pos - goal[t] \in -Window..Window

\* Bit 10 with a position far from the target is stale.
PositionRead(t) ==
  /\ op[t] = "pp" /\ At(t, "position")
  /\ IF Near(t) THEN Ends(t, "reached") ELSE GoOn(t, <<"wait">>)
  /\ Same

\* A fault is seen, or the deadline passes, in a poll for the end of a motion.
WaitFails(t) ==
  /\ (op[t] = "pp" /\ At(t, "wait")) \/ (op[t] = "home" /\ At(t, "done"))
  /\ Ends(t, "failed")
  /\ Same

-----------------------------------------------------------------------------
(* home() *)

HomingScript == <<"modeHM", "barrier", "set", "clear", "done">>

\* _check_drive_ready(): the fault gate, and the climb when it is needed.
HomeReady(t) ==
  /\ op[t] = "home" /\ At(t, "ready")
  /\ IF drive.fault THEN Ends(t, "failed") /\ UNCHANGED abort
     ELSE IF drive.state = "enabled" THEN GoOn(t, HomingScript) /\ abort' = FALSE
     ELSE GoOn(t, <<"climb", "readyNow">>) /\ UNCHANGED abort
  /\ UNCHANGED <<drive, stale, late, profile, jogging, boundVars, ghostVars>>

HomeReadyNow(t) ==
  /\ op[t] = "home" /\ At(t, "readyNow")
  /\ GoOn(t, HomingScript) /\ abort' = FALSE
  /\ UNCHANGED <<drive, stale, late, profile, jogging, boundVars, ghostVars>>

\* "Target reached" counts as homed too (mutant).
AttainedOrReached == Bit12 \/ Bit10
Attained == Bit12

HomingDone(t) ==
  /\ op[t] = "home" /\ At(t, "done")
  /\ Attained
  /\ Ends(t, "attained")
  /\ Same

-----------------------------------------------------------------------------
(* stop() and the jog. *)

\* The first HALT that is answered is enough.
HaltDone(t) ==
  /\ op[t] = "stop" /\ At(t, "halt")
  /\ Answered(t, "halt")
  /\ GoOn(t, <<"slow">>)
  /\ SameFacade

\* By the cached status, of any age, the stop is over, or the mode decides.
StopLooks(t) ==
  /\ op[t] = "stop" /\ At(t, "slow")
  /\ \/ Ends(t, "stopped")
     \/ GoOn(t, <<CASE drive.mode = 1 -> "slowHalt"
                    [] drive.mode = 3 -> "zero"
                    [] OTHER -> "slowQuick">>)
  /\ Same

StopDone(t) ==
  /\ op[t] = "stop"
  /\ \E a \in {"slowHalt", "zero", "slowQuick"} : At(t, a) /\ Answered(t, a)
  /\ Ends(t, "stopped")
  /\ SameFacade

PressScript == <<"velocity", "set", "clear">>

\* Hot and warm jogs go straight to the press.
JogDecides(t) ==
  /\ op[t] = "jog" /\ At(t, "boundary")
  /\ LET warm == jogging \/ (drive.state = "enabled" /\ ~drive.fault /\ drive.mode = 3)
     IN  GoOn(t, IF warm THEN PressScript ELSE <<"ready">>)
  /\ Same

JogReady(t) ==
  /\ op[t] = "jog" /\ At(t, "ready")
  /\ IF drive.fault THEN Ends(t, "failed")
     ELSE GoOn(t, (IF drive.state = "enabled" THEN <<>> ELSE <<"climb">>)
                  \o <<"unhalt", "zero", "modePV">> \o PressScript)
  /\ Same

JogPressed(t) ==
  /\ op[t] = "jog" /\ At(t, "clear")
  /\ Answered(t, "clear")
  /\ jogging' = TRUE
  /\ Ends(t, "jogging")
  /\ UNCHANGED <<abort, boundVars, overlapped>>

\* jog_stop(), the release answered.
JogReleased(t) ==
  /\ op[t] = "jogStop" /\ At(t, "zero")
  /\ Answered(t, "zero")
  /\ jogging' = FALSE
  /\ op' = [op EXCEPT ![t] = "idle"]
  /\ todo' = [todo EXCEPT ![t] = <<>>]
  /\ result' = [result EXCEPT ![t] = "released"]
  /\ ScheduleIdle /\ idleDue' = TRUE
  /\ UNCHANGED <<goal, cfg, saved, abort, boundVars, overlapped>>

\* The watchdog ends the jog, on its deadline or an abort: no shutdown follows.
JogLapses ==
  /\ jogging
  /\ jogging' = FALSE
  /\ drive' = [drive EXCEPT !.tv = 0]
  /\ UNCHANGED <<stale, late, abort, callVars, cfgVars, idleVars, boundVars, ghostVars>>

-----------------------------------------------------------------------------
(* An access raises, or an attempt of it fails. *)

\* What was sent may be executed at once, or later (LateWrite).
Raises(t) ==
  /\ todo[t] # <<>> /\ faults < MaxFaults
  /\ faults' = faults + 1
  /\ late' = late \cup Copies(t)
  /\ stuck' = (drive.bit4 /\ (stuck \/ Head(todo[t]) \in {"set", "clear"}))
  /\ UNCHANGED <<drive, stale, profile, mover, halted, homedIn, unpulsed, resent, jogging, calls,
                 upsets, overlapped>>

\* The session closes the connection and sends the request again.
AttemptFails(t) ==
  /\ todo[t] # <<>> /\ Head(todo[t]) \in Writes /\ faults < MaxFaults
  /\ faults' = faults + 1
  /\ late' = late \cup Copies(t)
  /\ resent' = IF op[t] = "pp" /\ At(t, "set") THEN resent \cup {t} ELSE resent
  /\ UNCHANGED <<drive, stale, abort, jogging, callVars, cfgVars, idleVars, calls, upsets,
                 mover, homedIn, unpulsed, stuck, overlapped, halted>>

\* Failures the code swallows.
Tolerated(t) ==
  \/ op[t] = "move" /\ Head(todo[t]) \in {"zero", "modeOn", "modeOff", "look", "homed"}
  \/ op[t] = "pp" /\ (At(t, "ack") \/ (At(t, "verify") /\ ~VerifyMode))
  \/ op[t] = "stop"

\* The exception reaches the caller; is_homed() lets connection errors out.
RaiseEnds(t) ==
  /\ Raises(t)
  /\ Tolerated(t) => At(t, "homed")
  /\ Ends(t, "failed")
  /\ UNCHANGED abort

RaiseGoesOn(t) ==
  /\ Raises(t) /\ Tolerated(t)
  /\ CASE At(t, "modeOn") \/ At(t, "modeOff") ->
            GoOn(t, EnsureModePp(TRUE, At(t, "modeOff")) \o BeforeHandshake)
       [] At(t, "homed") -> EntersPp(t)
       [] At(t, "ack") -> AckFailure(t)
       [] OTHER -> IF Len(todo[t]) > 1 THEN GoOn(t, Tail(todo[t])) ELSE Ends(t, "stopped")
  /\ abort' = (abort /\ ~At(t, "look"))

-----------------------------------------------------------------------------
(* The drive. *)

EngineRuns ==
  /\ drive' \in EngineTurns(drive)
  /\ stale' \in {stale, FALSE}
  /\ <<drive', stale'>> # <<drive, stale>>
  /\ homedIn' = IF drive'.homed /\ ~drive.homed
                THEN homedIn \cup {t \in Callers : op[t] = "home"} ELSE homedIn
  /\ UNCHANGED <<late, abort, jogging, callVars, cfgVars, idleVars, boundVars, mover, unpulsed,
                 stuck, overlapped, halted, resent>>

\* A fault comes up, with its reaction over.
Upset ==
  /\ upsets < MaxUpsets /\ ~drive.fault
  /\ upsets' = upsets + 1
  /\ drive' = [AtRest(drive) EXCEPT !.fault = TRUE, !.state = "fault"]
  /\ UNCHANGED <<stale, late, abort, jogging, callVars, cfgVars, idleVars, calls, faults,
                 ghostVars>>

-----------------------------------------------------------------------------
Init ==
  /\ drive = FreshDrive /\ stale = FALSE /\ late = {}
  /\ profile = None /\ cfg = None /\ saved = [t \in Callers |-> None]
  /\ abort = FALSE /\ jogging = FALSE
  /\ timer = FALSE /\ shutdown = "none" /\ orphan = FALSE
  /\ op = [t \in Callers |-> "idle"] /\ todo = [t \in Callers |-> <<>>]
  /\ goal = [t \in Callers |-> 0] /\ result = [t \in Callers |-> "none"]
  /\ calls = 0 /\ faults = 0 /\ upsets = 0
  /\ mover = None /\ homedIn = {} /\ unpulsed = {}
  /\ stuck = FALSE /\ overlapped = FALSE /\ halted = {} /\ resent = {}
  /\ idleDue = FALSE

Call(t) == (\E p \in Targets : Move(t, p)) \/ Home(t) \/ Stop(t) \/ Jog(t) \/ JogStop(t)

Step(t) ==
  \/ Access(t) \/ Prepare(t) \/ MoveReleasesJog(t) \/ ModeRead(t) \/ TargetRefused(t)
  \/ ClearsAbort(t) \/ HomedRead(t)
  \/ ModeVerified(t) \/ Acknowledged(t) \/ NotAcknowledged(t) \/ Releases(t) \/ AbortSeen(t)
  \/ ReachedSeen(t) \/ PositionRead(t) \/ WaitFails(t)
  \/ HomeReady(t) \/ HomeReadyNow(t) \/ HomingDone(t)
  \/ HaltDone(t) \/ StopLooks(t) \/ StopDone(t)
  \/ JogDecides(t) \/ JogReady(t) \/ JogPressed(t) \/ JogReleased(t)
  \/ RaiseEnds(t) \/ RaiseGoesOn(t)

Idle == IdleFires \/ IdleLooks \/ IdleWrites \/ IdleRaises \/ IdleAttemptFails \/ OrphanWrites

\* No call is under way: the system may rest.
Quiet == (\A t \in Callers : op[t] = "idle") /\ UNCHANGED vars

Next ==
  \/ \E t \in Callers : Call(t) \/ Step(t) \/ AttemptFails(t)
  \/ (\E w \in late : LateWrite(w))
  \/ Idle \/ JogLapses \/ EngineRuns \/ Upset \/ Quiet

Spec == Init /\ [][Next]_vars

-----------------------------------------------------------------------------
(* Properties. *)

\* Every variable has its type, a caller has accesses left just while it is in
\* an operation, and no target outside the limits ever reaches the drive.
TypeOK ==
  /\ drive \in DriveRecord /\ drive.target \in 0..MaxPos /\ stale \in BOOLEAN
  /\ {profile, cfg, mover} \subseteq Callers \cup {None}
  /\ saved \in [Callers -> Callers \cup {None}]
  /\ {abort, jogging, timer, orphan, stuck, overlapped, idleDue} \subseteq BOOLEAN
  /\ shutdown \in {"none", "looks", "writes"}
  /\ op \in [Callers -> MotionOps \cup {"idle", "stop"}]
  /\ \A t \in Callers : todo[t] = <<>> <=> op[t] = "idle"
  /\ goal \in [Callers -> Targets \cup {0}]
  /\ result \in [Callers -> {"none", "failed", "aborted", "reached", "attained",
                             "stopped", "jogging", "released"}]
  /\ calls \in 0..MaxCalls /\ faults \in 0..MaxFaults /\ upsets \in 0..MaxUpsets
  /\ late \subseteq [by : Callers \cup {None}, act : Writes, goal : Targets \cup {0}]
  /\ homedIn \cup unpulsed \cup halted \cup resent \subseteq Callers

\* "Trusting bit10 alone there reports a phantom reached" (profile_position.py:334):
\* a move that reports success was started by its own set-point and the axis is
\* within the window of its own target, however stale bit 10 is - unless another
\* motion command ran at the same time or had left a write that came late (session.py:194-203),
\* or the drive is in fault: bit 10 of a motion that a fault cut short passes
\* for the acknowledge (299).
ReachedMeansThere ==
  [][\A t \in Callers :
       result[t] # "reached" /\ result'[t] = "reached"
         => overlapped \/ (Near(t) /\ (mover = t \/ drive.fault))]_vars

\* "Always release bit4, even if the acknowledge timed out" (profile_position.py:206):
\* the start bit is high only inside a handshake, or after an access of a pulse
\* has raised or its set-point has come late.
SetPointReleased ==
  drive.bit4 => stuck \/ \E t \in Callers, a \in {"set", "ack", "clear"} : At(t, a)

\* A HALT that arrives after the set-point of a move is the end of that motion:
\* nothing the handshake still writes starts it again (profile_position.py:202-208,
\* motion_commands.py:168-183) - unless the session had to send the set-point
\* again (session.py:194-203): HALT clears bit 4 between the two, and the second
\* is a new edge.
HaltIsFinal ==
  \A t \in halted \ resent : mover = t /\ op[t] = "pp" => drive.motion # "pp"

\* Between moves the position configuration is the configured one, and the
\* set-point of a move is written with that move's own values, whichever way earlier
\* moves ended, as long as motion commands do not overlap and none has left a
\* write that comes late (profile_position.py:230-240).
ProfileIsOwn ==
  overlapped \/
    \A t \in Callers :
      IF op[t] = "pp"
      THEN cfg = t /\ (Started(t) => profile = t)
      ELSE cfg # t

\* The idle shutdown never takes the voltage from a move that began before its
\* write was submitted, unless commands overlapped (motion_commands.py:232,
\* idle_shutdown.py:36-43).
IdleSparesMoves ==
  [][shutdown = "looks" /\ shutdown' = "writes"
       => overlapped \/ \A t \in Callers : op[t] \notin {"move", "pp"}]_vars

\* Every move that got as far as its motion, however it ended, and every released
\* jog is followed by an idle shutdown, until a new command revokes it or the
\* shutdown has had its turn (motion_commands.py:402-403, 526).
IdleFollowsMotion == idleDue => timer \/ shutdown # "none"

\* home() reports success only when the axis has homed during the call, unless
\* its start bit met a drive that could not take it, or motion commands
\* overlapped, a late write of another one included (homing.py:128, 147-153).
AttainedMeansHomed ==
  [][\A t \in Callers :
       result[t] # "attained" /\ result'[t] = "attained"
         => t \in homedIn \cup unpulsed \/ overlapped]_vars

\* "Raised when a motion command is interrupted by stop/quick_stop"
\* (exceptions.py:13): once every call is over, the motion of a move that was
\* aborted is over too.
AbortedMoveIsOver ==
  (\A u \in Callers : op[u] = "idle")
    => \A t \in Callers : result[t] = "aborted" /\ mover = t => drive.motion # "pp"
=============================================================================
