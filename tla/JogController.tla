--------------------------- MODULE JogController ---------------------------
(***************************************************************************)
(* Hold-to-move jogging: motion/jog.py on top of motion/profile_velocity.py *)
(* and the facade operations that reach it (jog_start, jog_update,         *)
(* jog_stop, stop, move_to_position and close in api/motion_commands.py    *)
(* and api/drive.py).  Callers' coroutines and the watchdog task run on    *)
(* one event loop and interleave at every await; the controller's asyncio  *)
(* lock is FIFO.                                                           *)
(*                                                                         *)
(* A task is the operation it is in (op) and the object accesses it has    *)
(* still to make (todo).  An access succeeds, or an attempt of it fails    *)
(* and the session repeats it, or it raises.  What a failed attempt has    *)
(* sent, or a thread that wait_for() abandoned still sends, may reach the  *)
(* drive at any later time, more than once or never (late).  After         *)
(* drive.close() has dropped the session every access raises.  Time is one *)
(* bit: the deadline of the jog has passed or not.  The drive stays in     *)
(* Operation Enabled; a status check that refuses is an access that raises.*)
(***************************************************************************)
EXTENDS Integers, SequencesExt

CONSTANTS
  Users,         \* coroutines of the callers
  Dogs,          \* identities of watchdog tasks
  NoTask,        \* "None"
  Velocities,    \* target velocities of callers, 0 excluded
  Operations,    \* the facade operations the callers use
  MaxCalls,      \* bound: facade calls made
  MaxFaults      \* bound: accesses that raise and attempts that are repeated

ASSUME JogAssumption ==
  /\ MaxCalls \in Nat /\ MaxFaults \in Nat
  /\ Velocities \subseteq Nat \ {0}
  /\ Operations \subseteq {"start", "update", "release", "stop", "move", "close"}
  /\ NoTask \notin Users \cup Dogs
  /\ Users \cap Dogs = {}

Tasks == Users \cup Dogs

VARIABLES
  jog,           \* JogState; expired: the deadline has passed
  modeReady,     \* _mode_ready
  watchTask,     \* _watch_task
  queue,         \* _lock: its holder, then the tasks that wait for it
  op, todo, vel, \* the operation of each task, its accesses, its velocity
  abort,         \* the drive's _abort_event
  closed,        \* drive.close() has set _session to None
  underway,      \* then: the tasks whose access had been submitted before
  drive,         \* mode, target velocity, _pv_active, _pp_active, bit 4 of the CW
  late,          \* writes of failed attempts that may still be executed
  calls, faults, repeats, \* bounded counters
  pressRaised,   \* ghost: a press raised since the drive was last stopped
  strayed,       \* ghost: the target velocity is one that came late
  clean, owed    \* ghosts: see StaleAbortSparesNewJog

taskVars == <<queue, op, todo, vel>>
jogVars == <<jog, modeReady, watchTask>>
facadeVars == <<abort, closed, calls>>
driveVars == <<drive, strayed>>
wireVars == <<late, faults, repeats, underway>>
ghostVars == <<pressRaised, clean, owed>>
vars == <<taskVars, jogVars, facadeVars, driveVars, wireVars, ghostVars>>

\* Operations that run under the lock.
StopOps == {"release", "moverelease", "close", "tick", "abort"}
LatchOps == {"press", "keepalive"}
LockedOps == StopOps \cup LatchOps \cup {"invalidate"}

Holds(t) == queue # <<>> /\ Head(queue) = t

\* Task t is inside its operation, at access a.
At(t, a) ==
  /\ todo[t] # <<>> /\ Head(todo[t]) = a
  /\ op[t] \in LockedOps => Holds(t)

\* The present access of t has been handed to a session: it cannot after
\* drive.close() has dropped it.
Submitted(t) == closed => t \in underway

\* Access a of t is answered.
Answered(t, a) ==
  /\ At(t, a) /\ Submitted(t)
  /\ underway' = underway \ {t}
  /\ UNCHANGED <<late, faults, repeats>>

\* Task t has just got the lock for operation o.
Enters(t, o) == op[t] = o /\ todo[t] = <<>> /\ Holds(t)

-----------------------------------------------------------------------------
(* The drive. *)

\* What access a with velocity v does: 0x60FF is only stored, a rising edge
\* of bit 4 starts the motion of the current mode, HALT stops all of it.
After(a, v) ==
  CASE a = "velocity" -> [drive EXCEPT !.tv = v]
    [] a = "zero" -> [drive EXCEPT !.tv = 0]
    [] a = "mode" -> [drive EXCEPT !.mode = "PV"]
    [] a = "pp" -> [drive EXCEPT !.mode = "PP"]
    [] a = "set" ->
         IF drive.bit4 THEN drive
         ELSE IF drive.mode = "PV"
              THEN [drive EXCEPT !.bit4 = TRUE, !.pv = drive.tv # 0,
                                 !.pp = drive.pp /\ drive.tv = 0]
              ELSE [drive EXCEPT !.bit4 = TRUE, !.pv = FALSE, !.pp = TRUE]
    [] a \in {"clear", "cw"} -> [drive EXCEPT !.bit4 = FALSE]
    [] a = "halt" -> [drive EXCEPT !.tv = 0, !.pv = FALSE, !.pp = FALSE, !.bit4 = FALSE]
    [] a = "slow" -> IF drive.mode = "PV" THEN [drive EXCEPT !.tv = 0]
                     ELSE [drive EXCEPT !.pp = FALSE]
    [] OTHER -> drive

\* Access a decides the target velocity.
Aims(a) == a \in {"velocity", "zero", "halt"} \/ (a = "slow" /\ drive.mode = "PV")

\* The drive executes access a.
Does(a, v) ==
  /\ drive' = After(a, v)
  /\ strayed' = (strayed /\ ~Aims(a))

\* The accesses that change the drive; the others only read.
Writes == {"velocity", "zero", "mode", "pp", "set", "clear", "cw", "halt", "slow"}

\* What a failed attempt of t's access leaves on the wire or in a thread.
Copies(t) ==
  LET a == Head(todo[t])
  IN  IF a \in Writes THEN {<<a, IF a = "velocity" THEN vel[t] ELSE 0>>} ELSE {}

\* The drive turns because of a jog.
Jogging == drive.mode = "PV" /\ drive.pv /\ drive.tv # 0

-----------------------------------------------------------------------------
(* Coming and going. *)

\* The coroutine asks for the lock to do o.
WaitFor(t, o) ==
  /\ op' = [op EXCEPT ![t] = o]
  /\ todo' = [todo EXCEPT ![t] = <<>>]
  /\ queue' = Append(queue, t)

\* It goes on with o outside the lock, with the accesses of script.
GoOn(t, o, script) ==
  /\ op' = [op EXCEPT ![t] = o]
  /\ todo' = [todo EXCEPT ![t] = script]
  /\ queue' = IF Holds(t) THEN Tail(queue) ELSE queue

\* The lock is not released on the way out (mutant).
LeaveLocked(t, o) ==
  /\ op' = [op EXCEPT ![t] = o]
  /\ todo' = [todo EXCEPT ![t] = <<>>]
  /\ UNCHANGED queue

Leave(t, o) == GoOn(t, o, <<>>)

\* A cancelled task leaves the queue of the lock.
Without(q, t) ==
  IF \E i \in 1..Len(q) : q[i] = t
  THEN RemoveAt(q, CHOOSE i \in 1..Len(q) : q[i] = t) ELSE q

\* What a watchdog does after a tick: loop while the jog is active.
Rest(t, stillActive) ==
  IF t \in Dogs /\ stillActive THEN "sleep" ELSE "idle"

MoveScript == <<"pp", "cw", "set", "clear">>

-----------------------------------------------------------------------------
(* The facade operations, up to their first await. *)

Calls(t, o) ==
  /\ op[t] = "idle" /\ o \in Operations /\ ~closed
  /\ calls < MaxCalls
  /\ calls' = calls + 1

\* jog_start() forgets to clear the abort event (mutant).
JogStartKeepsAbort(t, v) ==
  /\ Calls(t, "start")
  /\ vel' = [vel EXCEPT ![t] = v]
  /\ clean' = clean \cup {t}
  /\ GoOn(t, "start", <<"position">>)
  /\ UNCHANGED <<jogVars, abort, closed, driveVars, wireVars, pressRaised, owed>>

JogStart(t, v) ==
  /\ Calls(t, "start")
  /\ abort' = FALSE
  /\ vel' = [vel EXCEPT ![t] = v]
  /\ clean' = clean \cup {t}
  /\ GoOn(t, "start", <<"position">>)
  /\ UNCHANGED <<jogVars, closed, driveVars, wireVars, pressRaised, owed>>

JogUpdate(t, v) ==
  /\ Calls(t, "update") /\ jog.active
  /\ vel' = [vel EXCEPT ![t] = v]
  /\ GoOn(t, "update", <<"position">>)
  /\ UNCHANGED <<jogVars, abort, closed, driveVars, wireVars, ghostVars>>

JogStop(t) ==
  /\ Calls(t, "release") /\ jog.active
  /\ WaitFor(t, "release")
  /\ UNCHANGED <<vel, jogVars, abort, closed, driveVars, wireVars, ghostVars>>

\* stop(): HALT is tried twice, then the mode decides how to slow down.
Stop(t) ==
  /\ Calls(t, "stop")
  /\ abort' = TRUE
  /\ clean' = {} /\ owed' = FALSE
  /\ GoOn(t, "stop", <<"halt", "halt", "slow">>)
  /\ UNCHANGED <<vel, jogVars, closed, driveVars, wireVars, pressRaised>>

\* move_to_position(): an active jog is released first.
Move(t) ==
  /\ Calls(t, "move")
  /\ IF jog.active THEN WaitFor(t, "moverelease")
     ELSE GoOn(t, "move", MoveScript)
  /\ UNCHANGED <<vel, jogVars, abort, closed, driveVars, wireVars, ghostVars>>

Close(t) ==
  /\ Calls(t, "close")
  /\ WaitFor(t, "close")
  /\ UNCHANGED <<vel, jogVars, abort, closed, driveVars, wireVars, ghostVars>>

-----------------------------------------------------------------------------
(* jog_start() and jog_update() before they reach the controller. *)

\* An access of t is executed and answered, and it is not the last one.
Access(t) ==
  /\ Len(todo[t]) > 1
  /\ LET a == Head(todo[t])
     IN  /\ Answered(t, a)
         /\ Does(a, vel[t])
         /\ modeReady' = (modeReady \/ a = "mode")
         /\ abort' = (abort /\ ~(op[t] = "move" /\ a = "cw"))
         /\ pressRaised' = (pressRaised /\ a # "halt")
         /\ todo' = [todo EXCEPT ![t] = IF a = "halt" THEN <<"slow">> ELSE Tail(@)]
  /\ UNCHANGED <<queue, op, vel, jog, watchTask, closed, calls, clean, owed>>

\* jog_start(): the hot path, or ask the drive whether it is warm.
StartDecides(t) ==
  /\ op[t] = "start" /\ Answered(t, "position")
  /\ IF jog.active THEN WaitFor(t, "press")
     ELSE GoOn(t, "warm", <<"warmth">>)
  /\ UNCHANGED <<vel, jogVars, facadeVars, driveVars, ghostVars>>

\* The warm path needs velocity mode; the cold one invalidates _mode_ready.
WarmDecides(t) ==
  /\ op[t] = "warm" /\ Answered(t, "warmth")
  /\ WaitFor(t, IF drive.mode = "PV" THEN "press" ELSE "invalidate")
  /\ UNCHANGED <<vel, jogVars, facadeVars, driveVars, ghostVars>>

Invalidate(t) ==
  /\ Enters(t, "invalidate")
  /\ modeReady' = FALSE
  /\ GoOn(t, "cold", <<"ready", "clear", "zero">>)
  /\ UNCHANGED <<vel, jog, watchTask, facadeVars, driveVars, wireVars, ghostVars>>

ColdDone(t) ==
  /\ op[t] = "cold" /\ Answered(t, "zero")
  /\ Does("zero", 0)
  /\ WaitFor(t, "press")
  /\ UNCHANGED <<vel, jogVars, facadeVars, ghostVars>>

\* jog_update(): at a boundary the jog is stopped instead of refreshed.
UpdateDecides(t) ==
  /\ op[t] = "update" /\ Answered(t, "position")
  /\ \/ WaitFor(t, "keepalive")
     \/ IF jog.active THEN WaitFor(t, "release") ELSE Leave(t, "idle")
  /\ UNCHANGED <<vel, jogVars, facadeVars, driveVars, ghostVars>>

-----------------------------------------------------------------------------
(* The controller, under its lock. *)

\* t unlocks and leaves; d becomes the watchdog.
StartWatchdog(t, d) ==
  /\ watchTask' = d
  /\ op' = [op EXCEPT ![t] = "idle", ![d] = "sleep"]
  /\ todo' = [todo EXCEPT ![t] = <<>>]
  /\ queue' = Tail(queue)

\* The identity of the next watchdog task: any one that is not in use.
IsNewTask(d) == op[d] = "idle" /\ d = CHOOSE e \in Dogs : op[e] = "idle"

\* A watchdog task that has ended counts as running (mutant).
EnsureWatchdogOnce(t) ==
  IF watchTask # NoTask
  THEN watchTask' = watchTask /\ Leave(t, "idle")
  ELSE \E d \in Dogs : IsNewTask(d) /\ StartWatchdog(t, d)

\* Every press starts a watchdog of its own (mutant).
EnsureAnotherWatchdog(t) ==
  \E d \in Dogs : IsNewTask(d) /\ StartWatchdog(t, d)

\* The end of press(): start a watchdog unless one is running; unlock.
EnsureWatchdog(t) ==
  IF watchTask # NoTask /\ op[watchTask] # "idle"
  THEN watchTask' = watchTask /\ Leave(t, "idle")
  ELSE \E d \in Dogs : IsNewTask(d) /\ StartWatchdog(t, d)

Refreshed(v) == [active |-> TRUE, velocity |-> v, expired |-> FALSE]
Stopped == [active |-> FALSE, velocity |-> 0, expired |-> FALSE]

\* press(): the mode is set (and the profile configured) the first time only.
PressBegins(t) ==
  /\ Enters(t, "press")
  /\ todo' = [todo EXCEPT ![t] =
       <<"ready">> \o (IF modeReady THEN <<>> ELSE <<"mode">>)
                   \o <<"velocity", "set", "clear">>]
  /\ UNCHANGED <<queue, op, vel, jogVars, facadeVars, driveVars, wireVars, ghostVars>>

PressDone(t) ==
  /\ op[t] = "press" /\ Answered(t, "clear")
  /\ Does("clear", 0)
  /\ jog' = Refreshed(vel[t])
  /\ EnsureWatchdog(t)
  /\ owed' = (t \in clean)
  /\ UNCHANGED <<vel, modeReady, facadeVars, pressRaised, clean>>

\* keepalive(): ignored when the jog is over, a new velocity is latched.
KeepaliveBegins(t) ==
  /\ Enters(t, "keepalive")
  /\ IF jog.active /\ vel[t] # jog.velocity
     THEN /\ todo' = [todo EXCEPT ![t] = <<"velocity", "set", "clear">>]
          /\ UNCHANGED <<queue, op, jog>>
     ELSE /\ jog' = IF jog.active THEN Refreshed(jog.velocity) ELSE jog
          /\ Leave(t, "idle")
  /\ UNCHANGED <<vel, modeReady, watchTask, facadeVars, driveVars, wireVars, ghostVars>>

KeepaliveDone(t) ==
  /\ op[t] = "keepalive" /\ Answered(t, "clear")
  /\ Does("clear", 0)
  /\ jog' = Refreshed(vel[t])
  /\ Leave(t, "idle")
  /\ UNCHANGED <<vel, modeReady, watchTask, facadeVars, ghostVars>>

\* What follows _stop_locked() in the operation of t.
AfterStop(t, stillActive) ==
  CASE op[t] = "moverelease" ->
         /\ GoOn(t, "move", MoveScript)
         /\ UNCHANGED <<modeReady, watchTask>>
    [] op[t] = "close" ->
         /\ modeReady' = FALSE
         /\ watchTask' = NoTask
         /\ op' = [u \in Tasks |-> IF u = t THEN "closing"
                                  ELSE IF u = watchTask THEN "idle" ELSE op[u]]
         /\ todo' = [todo EXCEPT ![t] = <<>>]
         /\ queue' = Without(Tail(queue), watchTask)
    [] OTHER ->
         /\ Leave(t, Rest(t, stillActive))
         /\ UNCHANGED <<modeReady, watchTask>>

\* The jog counts as stopped before the drive has been told (mutant).
StopBeginsEarly(t) ==
  /\ op[t] \in StopOps /\ Enters(t, op[t])
  /\ IF jog.active /\ (op[t] = "tick" => jog.expired)
     THEN /\ todo' = [todo EXCEPT ![t] = <<"zero">>]
          /\ jog' = Stopped
          /\ UNCHANGED <<queue, op, modeReady, watchTask>>
     ELSE AfterStop(t, jog.active) /\ UNCHANGED jog
  /\ UNCHANGED <<vel, facadeVars, driveVars, wireVars, ghostVars>>

\* _stop_locked() in release(), close(), watchdog_tick() and the abort branch:
\* nothing to do unless the jog is active - and, for a tick, overdue.
StopBegins(t) ==
  /\ op[t] \in StopOps /\ Enters(t, op[t])
  /\ IF jog.active /\ (op[t] = "tick" => jog.expired)
     THEN /\ todo' = [todo EXCEPT ![t] = <<"zero">>]
          /\ UNCHANGED <<queue, op, modeReady, watchTask>>
     ELSE AfterStop(t, jog.active)
  /\ UNCHANGED <<vel, jog, facadeVars, driveVars, wireVars, ghostVars>>

StopDone(t) ==
  /\ op[t] \in StopOps /\ Answered(t, "zero")
  /\ Does("zero", 0)
  /\ jog' = Stopped
  /\ AfterStop(t, FALSE)
  /\ pressRaised' = FALSE
  /\ UNCHANGED <<vel, facadeVars, clean, owed>>

\* The last access of stop() or of a move.
FacadeDone(t) ==
  /\ op[t] \in {"stop", "move"} /\ Len(todo[t]) = 1
  /\ Answered(t, Head(todo[t]))
  /\ Does(Head(todo[t]), 0)
  /\ Leave(t, "idle")
  /\ pressRaised' = (pressRaised /\ ~(op[t] = "stop" /\ drive.mode = "PV"))
  /\ UNCHANGED <<vel, jogVars, facadeVars, clean, owed>>

-----------------------------------------------------------------------------
(* An access fails. *)

\* The last attempt fails, or wait_for() gives up, or there is no session.
Raises(t) ==
  /\ todo[t] # <<>> /\ At(t, Head(todo[t]))
  /\ closed \/ faults + repeats < MaxFaults
  /\ faults' = IF closed THEN faults ELSE faults + 1
  /\ late' = IF Submitted(t) THEN late \cup Copies(t) ELSE late
  /\ underway' = underway \ {t}
  /\ UNCHANGED <<driveVars, repeats>>

\* The exception reaches the caller.
CallRaises(t) ==
  /\ Raises(t)
  /\ op[t] \in {"start", "update", "cold", "press", "keepalive", "release", "move"}
  /\ Leave(t, "idle")
  /\ pressRaised' = (pressRaised \/ op[t] = "press")
  /\ UNCHANGED <<vel, jogVars, facadeVars, clean, owed>>

\* is_jog_warm() turns it into FALSE; stop() and move_to_position() go on.
CallGoesOn(t) ==
  /\ Raises(t)
  /\ CASE op[t] = "warm" -> WaitFor(t, "invalidate")
       [] op[t] = "stop" ->
            IF Len(todo[t]) > 1 THEN GoOn(t, "stop", Tail(todo[t])) ELSE Leave(t, "idle")
       [] op[t] = "moverelease" -> GoOn(t, "move", MoveScript)
       [] OTHER -> FALSE
  /\ UNCHANGED <<vel, jogVars, facadeVars, ghostVars>>

\* drive.close() goes on too, but the watchdog has not been cancelled.
CloseRaises(t) ==
  /\ Raises(t) /\ op[t] = "close"
  /\ Leave(t, "closing")
  /\ UNCHANGED <<vel, jogVars, facadeVars, ghostVars>>

\* With the jog and the poller stopped, drive.close() drops the session; an
\* access that a thread has begun still ends.
DropsSession(t) ==
  /\ op[t] = "closing"
  /\ closed' = TRUE
  /\ IF closed THEN UNCHANGED underway
     ELSE underway' \in SUBSET {u \in Tasks : todo[u] # <<>>}
  /\ Leave(t, "idle")
  /\ UNCHANGED <<vel, jogVars, abort, calls, driveVars, late, faults, repeats, ghostVars>>

\* A tick that raises ends the watchdog (mutant).
TickRaiseIsFatal(t) ==
  /\ Raises(t) /\ op[t] \in {"tick", "abort"}
  /\ Leave(t, "idle")
  /\ UNCHANGED <<vel, jogVars, facadeVars, ghostVars>>

\* The watchdog survives a tick that raises, but not an abort that raises.
WatchdogRaises(t) ==
  /\ Raises(t) /\ op[t] \in {"tick", "abort"}
  /\ Leave(t, IF op[t] = "tick" THEN "sleep" ELSE "idle")
  /\ UNCHANGED <<vel, jogVars, facadeVars, ghostVars>>

\* An attempt of a write fails and the session sends the same request again;
\* of a read it would leave nothing behind.
AttemptFails(t) ==
  /\ todo[t] # <<>> /\ At(t, Head(todo[t])) /\ Submitted(t) /\ Copies(t) # {}
  /\ faults + repeats < MaxFaults
  /\ repeats' = repeats + 1
  /\ late' = late \cup Copies(t)
  /\ UNCHANGED <<taskVars, jogVars, facadeVars, driveVars, faults, underway, ghostVars>>

\* What a failed attempt has sent is executed, and may be again.
LateWrite(w) ==
  /\ w \in late
  /\ drive' = After(w[1], w[2])
  /\ strayed' = (w[1] = "velocity" \/ (strayed /\ ~Aims(w[1])))
  /\ UNCHANGED <<taskVars, jogVars, facadeVars, wireVars, ghostVars>>

-----------------------------------------------------------------------------
(* The watchdog task and the clock. *)

\* The watchdog does not look at the abort event (mutant).
WakeIgnoresAbort(d) ==
  /\ op[d] = "sleep"
  /\ IF jog.active THEN WaitFor(d, "tick") ELSE Leave(d, "idle")
  /\ UNCHANGED <<vel, jogVars, facadeVars, driveVars, wireVars, ghostVars>>

\* After its interval: an abort first, then the end of the jog, then a tick.
Wake(d) ==
  /\ op[d] = "sleep"
  /\ IF abort THEN WaitFor(d, "abort")
     ELSE IF jog.active THEN WaitFor(d, "tick") ELSE Leave(d, "idle")
  /\ UNCHANGED <<vel, jogVars, facadeVars, driveVars, wireVars, ghostVars>>

Expire ==
  /\ jog.active /\ ~jog.expired
  /\ jog' = [jog EXCEPT !.expired = TRUE]
  /\ UNCHANGED <<taskVars, modeReady, watchTask, facadeVars, driveVars, wireVars, ghostVars>>

-----------------------------------------------------------------------------
Init ==
  /\ jog = Stopped
  /\ modeReady = FALSE
  /\ watchTask = NoTask
  /\ queue = <<>>
  /\ op = [t \in Tasks |-> "idle"]
  /\ todo = [t \in Tasks |-> <<>>]
  /\ vel = [t \in Tasks |-> 0]
  /\ abort = FALSE /\ closed = FALSE /\ underway = {}
  /\ drive = [mode |-> "PP", tv |-> 0, pv |-> FALSE, pp |-> FALSE, bit4 |-> FALSE]
  /\ late = {} /\ calls = 0 /\ faults = 0 /\ repeats = 0
  /\ pressRaised = FALSE /\ strayed = FALSE /\ clean = {} /\ owed = FALSE

\* A coroutine that has begun goes on.
Step(t) ==
  \/ Access(t) \/ StartDecides(t) \/ WarmDecides(t) \/ Invalidate(t)
  \/ ColdDone(t) \/ UpdateDecides(t) \/ PressBegins(t) \/ PressDone(t)
  \/ KeepaliveBegins(t) \/ KeepaliveDone(t) \/ StopBegins(t) \/ StopDone(t)
  \/ FacadeDone(t) \/ CallRaises(t) \/ CallGoesOn(t) \/ CloseRaises(t)
  \/ DropsSession(t) \/ WatchdogRaises(t)

\* Nothing is under way: the system may rest.
Quiet == (\A t \in Users : op[t] = "idle") /\ UNCHANGED vars

Next ==
  \/ \E t \in Users, v \in Velocities : JogStart(t, v) \/ JogUpdate(t, v)
  \/ \E t \in Users : JogStop(t) \/ Stop(t) \/ Move(t) \/ Close(t)
  \/ \E t \in Tasks : Step(t) \/ AttemptFails(t)
  \/ \E w \in late : LateWrite(w)
  \/ \E d \in Dogs : Wake(d)
  \/ Expire
  \/ Quiet

\* The event loop runs every task that is ready, and every access ends.
Fairness ==
  /\ \A t \in Tasks : WF_vars(Step(t))
  /\ \A d \in Dogs : WF_vars(Wake(d))

Spec == Init /\ [][Next]_vars
FairSpec == Spec /\ Fairness

-----------------------------------------------------------------------------
(* Properties. *)

\* Every variable has its type, and no task is in the lock's queue twice.
TypeOK ==
  /\ jog \in [active : BOOLEAN, velocity : Velocities \cup {0}, expired : BOOLEAN]
  /\ modeReady \in BOOLEAN
  /\ watchTask \in Dogs \cup {NoTask}
  /\ queue \in Seq(Tasks) /\ IsInjective(queue)
  /\ op \in [Tasks -> LockedOps \cup {"idle", "sleep", "start", "warm", "cold",
                                      "update", "stop", "move", "closing"}]
  /\ vel \in [Tasks -> Velocities \cup {0}]
  /\ abort \in BOOLEAN /\ closed \in BOOLEAN /\ underway \subseteq Tasks
  /\ drive \in [mode : {"PV", "PP"}, tv : Velocities \cup {0}, pv : BOOLEAN,
                pp : BOOLEAN, bit4 : BOOLEAN]
  /\ late \subseteq Writes \X (Velocities \cup {0})
  /\ calls \in 0..MaxCalls /\ faults \in 0..MaxFaults /\ repeats \in 0..MaxFaults
  /\ pressRaised \in BOOLEAN /\ strayed \in BOOLEAN /\ clean \subseteq Users /\ owed \in BOOLEAN

\* Whenever the jog is active the controller's watchdog task is running, so
\* somebody looks at the deadline (jog.py:182-187).
WatchdogGuards == jog.active => watchTask # NoTask /\ op[watchTask] # "idle"

\* There is never a second watchdog, and none that the controller has lost
\* track of, however presses, stops and closes overlap (jog.py:182-185, 174-177).
OneWatchdog == \A d \in Dogs : op[d] # "idle" => watchTask = d

Pressing == \E t \in Users : op[t] \in {"press", "cold"} /\ todo[t] # <<>>

\* A drive that turns for a jog does so under an active jog, in the middle of
\* a press, after a press whose caller has been told that it failed, or
\* because the last target velocity it got is a write whose attempt had failed
\* and that was executed after the newer ones (jog.py:100-117, 222-234,
\* od_accessor.py:40-46, session.py:194-203).
MotionIsAccounted == Jogging => jog.active \/ Pressing \/ pressRaised \/ strayed

\* stop() ends a jog, but never one that was started after it: when the
\* watchdog acts on an abort, the jog it stops was not begun by a jog_start()
\* that came after the last stop() (jog.py:194-198, motion_commands.py:454).
\* clean holds the callers whose jog_start() is newer than every stop(), and
\* owed tells whether the present jog is one of theirs.
StaleAbortSparesNewJog ==
  [][\A d \in Dogs : op[d] = "abort" /\ jog.active /\ ~jog'.active => ~owed]_vars

\* A jog whose deadline has passed is stopped or refreshed, however often
\* ticks raise, until drive.close() drops the session: from then on every tick
\* raises and the jog stays active (jog.py:172, 193-221, drive.py:246-260).
DeadlineStops ==
  (jog.active /\ jog.expired) ~> (~jog.active \/ ~jog.expired \/ closed)

\* "If keepalive does not arrive for ttl_s, controller will stop." (jog.py:25)
TtlStops == (jog.active /\ jog.expired) ~> (~jog.active \/ ~jog.expired)

\* An abort ends the jog that is under way, unless a later command revokes it,
\* an access raises or the session is closed (jog.py:193-198).
AbortEndsJog ==
  (abort /\ jog.active) ~> (~abort \/ ~jog.active \/ faults > 0 \/ closed)
=============================================================================
