--------------------------- MODULE DriveLifecycle ---------------------------
(***************************************************************************)
(* connect(), close() and the reconnect safety stop of api/drive.py, with  *)
(* the telemetry poller they start and stop.  Callers interleave at every  *)
(* await; sessions connect and close in the threads of the executor, and   *)
(* the keepalive thread of a session signals its reconnects to the loop.   *)
(* A session here is what ModbusSession shows: it opens, it may reconnect  *)
(* while it is open, and it closes - and a call that is under way in a     *)
(* thread as it closes may open it once more, for nobody.                  *)
(***************************************************************************)
EXTENDS Integers, Sequences

CONSTANTS
  Callers,       \* coroutines that connect and close
  MaxCalls,      \* bound: connect() and close() calls
  MaxFaults,     \* bound: accesses that raise, connects that fail
  MaxSignals,    \* bound: reconnects
  MaxMotions     \* bound: motions started

ASSUME LifecycleAssumption ==
  /\ MaxCalls \in Nat /\ MaxFaults \in Nat /\ MaxSignals \in Nat /\ MaxMotions \in Nat

\* ModbusSession objects, numbered in the order in which connect() builds them,
\* and Python's None.
Sessions == 1..MaxCalls
None == 0

VARIABLES
  net,           \* each session object and its socket
  late,          \* closing or closed sessions with a call still under way in a thread
  polls,         \* the poller task that was started with each session
  session, poller,   \* _session, _telemetry_poller (by the session it came with)
  helpers,       \* the session that _sm, _pp, _pv, _homing and _jog were built with
  executor,      \* _modbus_executor accepts work
  loop,          \* _reconnect_loop is set
  pc, mine,      \* where each caller is, and the session it works on
  motion, jog,   \* what the drive is doing; the JogController that is active
  signals,       \* call_soon_threadsafe(_schedule_reconnect_stop) still to run
  scheduled,     \* _reconnect_stop_scheduled
  stopTask,      \* attempts the reconnect stop has left
  bound,         \* the JogController whose release() it has chosen
  calls, faults, raised, motions,   \* bounded counters
  raced,         \* ghost: a connect() ran together with another connect() or a close()
  ended,         \* ghost: the last call that got to its end was a close()
  caught,        \* ghost: those that such a call has opened again, or still may
  owed,          \* ghost: the present motion was under way at a reconnect
  excused        \* ghost: why nobody stops it: "none", "dropped", "failed", "closed"

callVars == <<pc, mine, calls, raced, ended>>
facadeVars == <<session, poller, helpers, executor, loop>>
stopVars == <<signals, scheduled, stopTask, bound, raised>>
motionVars == <<motion, jog, motions, owed, excused>>
threadVars == <<polls, late, caught>>
vars == <<net, threadVars, callVars, facadeVars, stopVars, motionVars, faults>>

Connecting(t) == pc[t] \in {"connects", "validates"}
Closing(t) == pc[t] \in {"jogCloses", "pollerStops", "sessionCloses"}

\* An access reaches the drive only through a session and the executor.
CanAccess == session # None /\ executor

\* The jog controller that the facade knows is active.
JogActive == jog # None /\ jog = helpers

\* Ghosts: why nobody is going to stop the motion that a reconnect has met, and
\* that there is none of the kind any more.
Excuse(why) == excused' = IF owed THEN why ELSE excused
Settled == owed' = FALSE /\ excused' = "none"

-----------------------------------------------------------------------------
(* Calls. *)

Calls(t) ==
  /\ pc[t] = "idle" /\ calls < MaxCalls
  /\ calls' = calls + 1

GoesTo(t, place, s) ==
  /\ pc' = [pc EXCEPT ![t] = place]
  /\ mine' = [mine EXCEPT ![t] = s]

Returns(t, isClose) ==
  /\ pc' = [pc EXCEPT ![t] = "idle"]
  /\ mine' = [mine EXCEPT ![t] = None]
  /\ ended' = isClose

OthersInside(t) == \E u \in Callers \ {t} : Connecting(u) \/ Closing(u)

-----------------------------------------------------------------------------
(* connect() *)

\* A session is there already, or the executor has been shut down.
ConnectReturns(t) ==
  /\ Calls(t)
  /\ session # None \/ ~executor
  /\ Returns(t, FALSE)
  /\ loop' = (loop \/ session = None)
  /\ raced' = (raced \/ OthersInside(t))
  /\ UNCHANGED <<net, threadVars, session, poller, helpers, executor, stopVars, motionVars, faults>>

\* A session object is built, and a thread begins to connect it.
ConnectBegins(t, s) ==
  /\ Calls(t)
  /\ session = None /\ executor
  /\ net[s] = "new" /\ \A r \in Sessions : net[r] = "new" => s <= r
  /\ net' = [net EXCEPT ![s] = "connecting"]
  /\ GoesTo(t, "connects", s)
  /\ loop' = TRUE
  /\ raced' = (raced \/ OthersInside(t))
  /\ UNCHANGED <<threadVars, session, poller, helpers, executor, ended, stopVars, motionVars, faults>>

\* The thread has connected the socket.
SocketOpens(s) ==
  /\ net[s] = "connecting"
  /\ net' = [net EXCEPT ![s] = "open"]
  /\ UNCHANGED <<threadVars, callVars, facadeVars, stopVars, motionVars, faults>>

\* The socket of a session that could not connect stays open (mutant).
LeaveSocket(s) == net' = [net EXCEPT ![s] = "open"]
DropSocket(s) == net' = [net EXCEPT ![s] = "closed"]

ConnectFails(t) ==
  /\ pc[t] = "connects" /\ net[mine[t]] = "connecting"
  /\ faults < MaxFaults
  /\ faults' = faults + 1
  /\ DropSocket(mine[t])
  /\ Returns(t, FALSE)
  /\ UNCHANGED <<threadVars, calls, raced, facadeVars, stopVars, motionVars>>

\* The coroutine resumes: it takes the session over, builds the helpers and
\* starts a poller, whatever has been built meanwhile.
TakeOver(t) ==
  /\ pc[t] = "connects" /\ net[mine[t]] = "open"
  /\ session' = mine[t]
  /\ helpers' = mine[t]
  /\ poller' = mine[t]
  /\ polls' = [polls EXCEPT ![mine[t]] = "runs"]
  /\ GoesTo(t, "validates", None)
  /\ UNCHANGED <<net, late, caught, calls, raced, ended, executor, loop, stopVars, motionVars, faults>>

\* set_position_limits() and _validate_connection(): a failure is logged only.
Validated(t) ==
  /\ pc[t] = "validates"
  /\ Returns(t, FALSE)
  /\ UNCHANGED <<net, threadVars, calls, raced, facadeVars, stopVars, motionVars, faults>>

-----------------------------------------------------------------------------
(* close() *)

\* There is nothing to close - or nothing yet, or nothing any more.
CloseReturns(t) ==
  /\ Calls(t)
  /\ session = None
  /\ helpers' = None
  /\ Returns(t, ~OthersInside(t))
  /\ raced' = (raced \/ \E u \in Callers : Connecting(u))
  /\ UNCHANGED <<net, threadVars, session, poller, executor, loop, stopVars, motionVars, faults>>

\* The jog is closed first, when there is one.
CloseBegins(t) ==
  /\ Calls(t)
  /\ session # None
  /\ GoesTo(t, "jogCloses", None)
  /\ raced' = (raced \/ \E u \in Callers : Connecting(u))
  /\ UNCHANGED <<net, threadVars, ended, facadeVars, stopVars, motionVars, faults>>

\* The stop event is not set (mutant).
TellNobody(t) ==
  /\ UNCHANGED polls
  /\ GoesTo(t, "pollerStops", poller)

\* close() does not stop the poller at all (mutant).
SkipPoller(t) ==
  /\ UNCHANGED polls
  /\ GoesTo(t, "pollerStops", None)

\* TelemetryPoller.stop() up to its await: the loop is told.
TellPoller(t) ==
  /\ polls' = [s \in Sessions |->
       IF s = poller /\ polls[s] = "runs" THEN "told" ELSE polls[s]]
  /\ GoesTo(t, "pollerStops", poller)

\* jog.close() stops an active jog; when that raises, close() goes on.
JogCloses(t) ==
  /\ pc[t] = "jogCloses"
  /\ \/ /\ ~JogActive
        /\ UNCHANGED <<motion, jog, owed, excused, faults>>
     \/ /\ JogActive /\ CanAccess
        /\ jog' = None
        /\ motion' = IF motion = "jog" THEN "none" ELSE motion
        /\ IF motion = "jog" THEN Settled ELSE UNCHANGED <<owed, excused>>
        /\ UNCHANGED faults
     \/ /\ JogActive
        /\ IF CanAccess THEN faults < MaxFaults /\ faults' = faults + 1 ELSE UNCHANGED faults
        /\ UNCHANGED <<motion, jog, owed, excused>>
  /\ TellPoller(t)
  /\ UNCHANGED <<net, late, caught, calls, raced, ended, facadeVars, stopVars, motions>>

\* The poll loop sees the event after its access and its sleep.
PollerEnds(s) ==
  /\ polls[s] = "told"
  /\ polls' = [polls EXCEPT ![s] = "ended"]
  /\ UNCHANGED <<net, late, caught, callVars, facadeVars, stopVars, motionVars, faults>>

\* A thread begins to close a session.  Another thread may be in a call to it,
\* which the coroutine that asked for it has perhaps given up.
ClosesAmongCalls(s) ==
  /\ net' = [net EXCEPT ![s] = "closing"]
  /\ \/ late' = late \cup {s} /\ caught' = caught \cup {s}
     \/ UNCHANGED <<late, caught>>

\* The session leaves the facade and is closed by a thread - unless another
\* close() has taken it, or the executor is gone: both raise.
PollerStopped(t) ==
  /\ pc[t] = "pollerStops"
  /\ mine[t] # None => polls[mine[t]] = "ended"
  /\ poller' = None /\ session' = None
  /\ Excuse("closed")
  /\ IF session # None /\ executor
     THEN /\ ClosesAmongCalls(session)
          /\ GoesTo(t, "sessionCloses", session)
          /\ UNCHANGED ended
     ELSE /\ Returns(t, ended)
          /\ UNCHANGED <<net, late, caught>>
  /\ UNCHANGED <<polls, calls, raced, helpers, executor, loop, stopVars, motion, jog, motions,
                 owed, faults>>

SocketCloses(s) ==
  /\ net[s] = "closing"
  /\ net' = [net EXCEPT ![s] = "closed"]
  /\ UNCHANGED <<threadVars, callVars, facadeVars, stopVars, motionVars, faults>>

\* A call that close() has met succeeds or gives up: it opens nothing any more.
CallEnds(s) ==
  /\ s \in late
  /\ late' = late \ {s}
  /\ caught' = IF net[s] = "open" THEN caught ELSE caught \ {s}
  /\ UNCHANGED <<net, polls, callVars, facadeVars, stopVars, motionVars, faults>>

\* The executor is shut down when all its threads have come to an end.
SessionClosed(t) ==
  /\ pc[t] = "sessionCloses"
  /\ late = {} /\ \A s \in Sessions : net[s] \notin {"connecting", "closing"}
  /\ executor' = FALSE /\ loop' = FALSE /\ helpers' = None
  /\ Returns(t, TRUE)
  /\ UNCHANGED <<net, threadVars, calls, raced, session, poller, stopVars, motionVars, faults>>

-----------------------------------------------------------------------------
(* The reconnect safety stop. *)

\* A call connects the socket again, whether or not close() has been there: the
\* stop event is not looked at.  What close() is about to drop it still drops.
Reopens(s) ==
  /\ s \in late \/ (net[s] = "open" /\ s \notin caught)
  /\ net' = [net EXCEPT ![s] = IF @ = "closing" THEN @ ELSE "open"]

\* A session reconnects: its on_reconnect callback reaches the loop, if any.
Reconnects(s) ==
  /\ Reopens(s) /\ raised < MaxSignals
  /\ raised' = raised + 1
  /\ signals' = IF loop THEN signals + 1 ELSE signals
  /\ owed' = (owed \/ motion # "none")
  /\ excused' = IF loop \/ motion = "none" THEN "none" ELSE "closed"
  /\ UNCHANGED <<threadVars, callVars, facadeVars, scheduled, stopTask, bound, motion, jog, motions,
                 faults>>

\* _schedule_reconnect_stop(): one task at a time, a second signal is dropped.
Scheduled ==
  /\ signals > 0
  /\ signals' = signals - 1
  /\ scheduled' = TRUE
  /\ stopTask' = IF scheduled THEN stopTask ELSE <<"decide">>
  /\ IF stopTask # <<>> THEN Excuse("dropped") ELSE UNCHANGED excused
  /\ UNCHANGED <<net, threadVars, callVars, facadeVars, bound, raised, motion, jog, motions, owed, faults>>

ReleaseAttempts == <<"release", "release", "release">>
StopAttempts == <<"halt", "halt", "slow">>

\* _stop_motion_on_reconnect() chooses its action once, a bound method of the
\* controller of that moment.
Decides ==
  /\ stopTask = <<"decide">>
  /\ stopTask' = IF JogActive THEN ReleaseAttempts ELSE StopAttempts
  /\ bound' = IF JogActive THEN jog ELSE None
  /\ UNCHANGED <<net, threadVars, callVars, facadeVars, signals, scheduled, raised, motionVars, faults>>

StopEnds == stopTask' = <<"done">>
Attempting(a) == stopTask # <<>> /\ Head(stopTask) = a

\* A release of a jog that is over does nothing; it stops no other motion.
ReleaseWorks ==
  /\ Attempting("release")
  /\ IF jog = bound
     THEN /\ CanAccess
          /\ jog' = None
          /\ motion' = IF motion = "jog" THEN "none" ELSE motion
          /\ IF motion = "jog" THEN Settled ELSE UNCHANGED <<owed, excused>>
     ELSE UNCHANGED <<jog, motion, owed, excused>>
  /\ StopEnds
  /\ UNCHANGED <<net, threadVars, callVars, facadeVars, signals, scheduled, bound, raised, motions, faults>>

HaltWorks ==
  /\ Attempting("halt") /\ CanAccess
  /\ motion' = "none" /\ jog' = None
  /\ Settled
  /\ stopTask' = <<"slow">>
  /\ UNCHANGED <<net, threadVars, callVars, facadeVars, signals, scheduled, bound, raised, motions, faults>>

\* The mode-aware rest of stop() succeeds or fails, and nobody hears of it.
SlowsDown ==
  /\ Attempting("slow")
  /\ StopEnds
  /\ UNCHANGED <<net, threadVars, callVars, facadeVars, signals, scheduled, bound, raised, motionVars, faults>>

\* An attempt raises; after the last one the motion goes on.
AttemptRaises ==
  /\ Attempting("release") \/ Attempting("halt")
  /\ Attempting("release") => jog = bound
  /\ IF CanAccess THEN faults < MaxFaults /\ faults' = faults + 1 ELSE UNCHANGED faults
  /\ IF Len(stopTask) > 1 THEN stopTask' = Tail(stopTask) ELSE StopEnds
  /\ IF ~CanAccess THEN Excuse("closed")
     ELSE IF stopTask \in {<<"release">>, <<"halt", "slow">>} THEN Excuse("failed")
     ELSE UNCHANGED excused
  /\ UNCHANGED <<net, threadVars, callVars, facadeVars, signals, scheduled, bound, raised, motion, jog,
                 motions, owed>>

\* The flag is never reset (mutant).
FlagStays ==
  /\ stopTask = <<"done">>
  /\ stopTask' = <<>>
  /\ UNCHANGED <<net, threadVars, callVars, facadeVars, signals, scheduled, bound, raised, motionVars, faults>>

\* The done callback of the task.
FlagReset ==
  /\ stopTask = <<"done">>
  /\ stopTask' = <<>> /\ scheduled' = FALSE /\ bound' = None
  /\ UNCHANGED <<net, threadVars, callVars, facadeVars, signals, raised, motionVars, faults>>

-----------------------------------------------------------------------------
(* Motions, as far as the life cycle sees them. *)

MotionStarts(m) ==
  /\ CanAccess /\ helpers # None
  /\ motion = "none" /\ motions < MaxMotions
  /\ motions' = motions + 1
  /\ motion' = m /\ jog' = IF m = "jog" THEN helpers ELSE None
  /\ Settled
  /\ UNCHANGED <<net, threadVars, callVars, facadeVars, stopVars, faults>>

MotionEnds ==
  /\ motion # "none"
  /\ motion' = "none" /\ jog' = None
  /\ Settled
  /\ UNCHANGED <<net, threadVars, callVars, facadeVars, stopVars, motions, faults>>

-----------------------------------------------------------------------------
Init ==
  /\ net = [s \in Sessions |-> "new"] /\ late = {} /\ caught = {}
  /\ polls = [s \in Sessions |-> "none"]
  /\ session = None /\ poller = None
  /\ helpers = None /\ executor = TRUE /\ loop = FALSE
  /\ pc = [t \in Callers |-> "idle"] /\ mine = [t \in Callers |-> None]
  /\ motion = "none" /\ jog = None
  /\ signals = 0 /\ scheduled = FALSE /\ stopTask = <<>> /\ bound = None
  /\ calls = 0 /\ faults = 0 /\ raised = 0 /\ motions = 0
  /\ raced = FALSE /\ ended = FALSE /\ owed = FALSE /\ excused = "none"

Step(t) ==
  \/ ConnectFails(t) \/ TakeOver(t) \/ Validated(t)
  \/ JogCloses(t) \/ PollerStopped(t) \/ SessionClosed(t)

Work(s) == SocketOpens(s) \/ SocketCloses(s) \/ CallEnds(s) \/ PollerEnds(s)

SafetyStop ==
  Scheduled \/ Decides \/ ReleaseWorks \/ HaltWorks \/ SlowsDown \/ AttemptRaises \/ FlagReset

\* No call is under way: the system may rest.
Quiet == (\A t \in Callers : pc[t] = "idle") /\ UNCHANGED vars

Next ==
  \/ \E t \in Callers : ConnectReturns(t) \/ CloseReturns(t) \/ CloseBegins(t) \/ Step(t)
  \/ \E t \in Callers, s \in Sessions : ConnectBegins(t, s)
  \/ \E s \in Sessions : Work(s) \/ Reconnects(s)
  \/ SafetyStop
  \/ \E m \in {"move", "jog"} : MotionStarts(m)
  \/ MotionEnds \/ Quiet

\* The event loop runs what is ready, and the threads of the executor end.
Fairness ==
  /\ \A t \in Callers : WF_vars(Step(t))
  /\ \A s \in Sessions : WF_vars(Work(s))
  /\ WF_vars(SafetyStop)

Spec == Init /\ [][Next]_vars
FairSpec == Spec /\ Fairness

-----------------------------------------------------------------------------
(* Properties. *)

\* Every variable has its type; the flag of the reconnect stop is set just while
\* its task exists, and a poller of the facade came with a session that opened.
TypeOK ==
  /\ net \in [Sessions -> {"new", "connecting", "open", "closing", "closed"}]
  /\ polls \in [Sessions -> {"none", "runs", "told", "ended"}]
  /\ late \subseteq caught /\ caught \subseteq Sessions
  /\ {session, poller, helpers, jog, bound} \subseteq Sessions \cup {None}
  /\ {executor, loop, scheduled, raced, ended, owed} \subseteq BOOLEAN
  /\ pc \in [Callers -> {"idle", "connects", "validates", "jogCloses",
                         "pollerStops", "sessionCloses"}]
  /\ mine \in [Callers -> Sessions \cup {None}]
  /\ motion \in {"none", "move", "jog"}
  /\ signals \in 0..MaxSignals /\ raised \in 0..MaxSignals /\ motions \in 0..MaxMotions
  /\ calls \in 0..MaxCalls /\ faults \in 0..MaxFaults
  /\ excused \in {"none", "dropped", "failed", "closed"}
  /\ scheduled <=> stopTask # <<>>
  /\ poller # None => net[poller] \notin {"new", "connecting"}

\* However closes overlap with each other, with a running poller and with
\* failing accesses: an open session is the one the facade knows or one that a
\* connect() is about to take over, and a running poller is the facade's -
\* unless a connect() ran together with another one or with a close()
\* (drive.py:144-222, 246-263), or the session was closed while a call to it
\* was under way, which may open it again (session.py:165-170, 220).
NothingLeaks ==
  raced \/ \A s \in Sessions :
    /\ net[s] = "open" /\ s \notin caught
         => session = s \/ \E t \in Callers : pc[t] = "connects" /\ mine[t] = s
    /\ polls[s] \in {"runs", "told"} => poller = s

\* "Close connection and release resources" (drive.py:239): when all calls are
\* over and the last one was a close(), no session is open, no poller runs and
\* no helper is left - unless a connect() ran together with another call, or
\* the session has been opened again by a call that close() had met.  Neither is
\* a call under way (drive.py:263).
CloseReleasesAll ==
  ended /\ ~raced /\ (\A t \in Callers : pc[t] = "idle")
    => /\ session = None /\ poller = None /\ helpers = None
       /\ \A s \in Sessions :
            /\ net[s] \in {"new", "closed"} \/ s \in caught
            /\ polls[s] \in {"none", "ended"}
       /\ late = {}

\* "Stop active motion after reconnect" (drive.py:399): a motion that was under
\* way at a reconnect is stopped, or the stop is on its way, or its last attempt
\* has raised, or a close() was there first - or the signal was dropped while an
\* earlier stop task still existed (381).
ReconnectStops ==
  owed => signals > 0 \/ stopTask # <<>> \/ excused # "none"

\* Every close() comes to its end: the poller notices that it is told to stop
\* and the threads of the executor end (drive.py:238-266, poller.py:74-87).
CloseEnds == \A t \in Callers : Closing(t) ~> pc[t] = "idle"
=============================================================================
