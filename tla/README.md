# Verification of dryve-d1

TLA+ models, TLC runs and TLAPS proofs for `dryve_d1`, the asyncio driver of
igus dryve D1 motor controllers that speaks CiA 402 over a Modbus TCP gateway.
Paths below are those of the repository; line numbers refer to
`src/dryve_d1/` unless another directory is named.

## 1. Inventory

| Component | State it keeps | Operations | Talks to |
|---|---|---|---|
| Modbus session (`transport/session.py`, `modbus_tcp_client.py`, `retry.py`) | socket, lock, stop event, keepalive thread, transaction id, `_ever_connected`, retry budget of each call | `connect`, `close`, `transceive`, keepalive loop, `suppress_keepalive`, id generator | executor threads call it; it calls the socket and `on_reconnect` |
| OD accessor (`api/od_accessor.py`) | the executor, the I/O timeout | `read_*`, `write_*` through `_transceive` | event loop to worker thread |
| Drive facade (`api/drive.py`) | session, poller, motion helpers, reconnect-stop flag | `connect`, `close`, connection validation, safety stop after a reconnect | everything |
| Motion commands (`api/motion_commands.py`) | abort event, abort token | `stop`, `quick_stop`, `fault_reset`, `move_to_position`, `home`, `jog_start/update/stop`, `disable_voltage` | motion helpers, cached status, idle timer |
| Jog controller (`motion/jog.py`, `profile_velocity.py`) | `JogState`, `_mode_ready`, watchdog task, asyncio lock | `press`, `keepalive`, `release`, `watchdog_tick`, `invalidate_mode`, `close`, watchdog loop | OD accessor, abort event |
| Profile position, homing (`motion/`) | a configuration that is changed in place | set-point handshake, wait for target, homing run | OD accessor |
| CiA 402 state machine (`cia402/`) | none; the drive's status word | transitions, fault reset, run to Operation Enabled | OD accessor |
| Idle shutdown (`api/idle_shutdown.py`) | timer handle, task | schedule, fire, cancel | `disable_voltage`, jog state |
| Telemetry poller (`telemetry/`) | latest snapshot, task, stop event | `start`, `stop`, poll loop | OD accessor, cached status |
| Gateway telegrams (`protocol/`) | none | build, parse, validate, decode | session, accessor |
| Simulator (`simulator.py`) | the drive: state, mode, targets, bit 4 | control word, object read and write, motion engine, one-client server | socket |
| Configuration, utilities | none | - | parameters of the above |
| `packages/cia402*` | as `src/dryve_d1` | a split copy of the same code, with its own start pulse, completion tests, mode change and homing, and an earlier simulator | - |

### What is hard

* **Threads against one socket.** Executor threads, a keepalive thread and
  `close()` share a socket. The lock covers one attempt; a failed attempt gives
  it up before it closes the socket, and `close()` never takes it.
* **Calls that cannot be interrupted.** `asyncio.wait_for` abandons a worker
  thread, which then goes on, retries included, behind the caller's back.
* **Late answers.** An answer that nobody waited for stays on the connection.
* **Coroutines that overlap at every await.** Jogging is driven by button
  callbacks, a watchdog task, `stop()`, moves, reconnects and `close()`.
* **Half-done command sequences.** A press is up to five object accesses; each
  may fail, or be executed with its answer lost.
* **Stale knowledge.** Cached status, `_mode_ready`, an abort that was seen
  before waiting for a lock, status bits of an earlier motion.

What makes each part correct: the session confuses no answers, always returns
and ends for good; an accessor call reports success only for what the drive
executed; a jog always has somebody who enforces its deadline, and the drive
does not turn behind the controller's back; an abort stops what it was meant
for and nothing newer; every motion reports its own completion; idle shutdown
removes voltage from a resting drive only. `PROJECT.json` lists the hazards at
their lines, with the properties that cover them.

## 2. Plan

| Order | Module | Contents | State |
|---|---|---|---|
| 1 | `DriveCalls` | abstract promise of an OD call | done |
| 1 | `ModbusSession` | session, accessor, connection, gateway; implements `DriveCalls` | done |
| 1 | `ModbusSessionProofs` | types, mutual exclusion, own answers, leftovers, announced reconnects, the refinement of `DriveCalls` | done |
| 2 | `JogController` | jog controller, facade jog operations, stop, PV drive | done |
| 2 | `JogControllerProofs` | types, the watchdog, no unaccounted motion, stale aborts | done |
| 3 | `SimulatedDrive` | the drive of `simulator.py` as operators: controlword, statusword, motion engine | done |
| 3 | `CiA402` | state machine runner against that drive: enable, fault reset, recovery, the stops, cached status | done |
| 3 | `CiA402Proofs` | types, what enable, fault reset and stop promise | done |
| 4 | `MotionFacade` | moves with their set-point handshake, homing, stop and idle shutdown, on `SimulatedDrive` | done |
| 4 | `DriveLifecycle` | connect, close, poller, reconnect signal, debounce flag, safety stop; on top of what `ModbusSession` promises | done |
| 5 | `GatewayCodec`, `GatewayWire` | integers, telegrams and their checks as operators; calls, gateways and late answers around them | done |
| 6 | `PackagedMoves` | what `packages/cia402` does differently, on `SimulatedDrive` | done |
| 7 | `SimulatedDriveProofs` | what a controlword and the motion engine can do to a drive; the lemmas of the three modules on it | done |
| 7 | `MotionFacadeProofs`, `PackagedMovesProofs`, `DriveLifecycleProofs`, `GatewayWireProofs` | every safety property of these modules | done |

How the modules fit: `ModbusSession` shows what one call of the session is worth,
and `GatewayWire` adds the values to it. `JogController` and `MotionFacade` take a call
as `DriveCalls` promises it: *an access succeeds, an attempt of it fails and is
repeated, or it raises; whatever a failed attempt or an abandoned thread has sent may be
executed at any later time, again and again, or never*. `CiA402` and `PackagedMoves`
are coarser, *an access succeeds, or raises and is executed then or never*: their
callers write every controlword that could come late anyway, and what they promise is
about what the drive has gone through, not about what it does afterwards.
`DriveLifecycle` takes a session as *it opens, may reconnect, and closes, and a call
that `close()` meets under way may open it once more*.
`SimulatedDrive` is extended by the three modules that need positions and bits.
No module that is proved about declares a RECURSIVE operator.

## 3. Modules and the code

### `DriveCalls`
What one object access promises its coroutine, without threads or sockets: it
ends once, it succeeds only if the drive executed the request, and the drive
executes the request at most once per attempt - possibly after the call failed.

### `ModbusSession`
Workers are executor threads (`Callers`), keepalive threads (`Beaters`), the
thread of the first `connect()` (`Opener`), and the thread of `close()`. `pc`
is the place of a worker in `transceive()`: waiting for the lock, connecting,
connected but `on_reconnect` not yet called, sending, receiving, failed. `lock`
is `_lock`, `sock` is `_sock` (0 for `None`, else the number of the
connection), `outq` and `inq` are the two directions of the open connection,
and `late` holds requests that a closed connection may still deliver. `outcome`
is what the coroutine saw, `executed` counts executions by the drive.

A step is what no other thread can observe half done, so an attempt is split
where the lock is taken or given up and at every socket operation. The choices
of the environment are: a connection fails (`OpenFails`), an operation times
out or the peer resets (`IoFails`), the coroutine gives up (`Abandon`), the
drive answers at any time or after the socket has gone (`Serve`, `ServeLate`).
`IoRaises` is the `AttributeError` of a thread whose socket `close()` unset
between the check and the use: it is not retried. `CloseJoined` covers both
ends of `join(timeout=2.0)`.

Payloads are left out: a request is its transaction id and object index.
`Accepts` is the part of `parse_adu` that compares them. The suppression window
of the keepalive is a cycle that begins later.

### `JogController`
A task is a caller's coroutine or a watchdog task; `op` is the operation it is
in and `todo` the object accesses it has still to make, so that any other task
may run between two of them. `queue` is the controller's asyncio lock, which is
FIFO: the holder, then the waiters. `jog` is `JogState` with the clock reduced
to one bit, *the deadline has passed*.

An access succeeds (`Answered`), or an attempt of it fails and the session sends it
again (`AttemptFails`), or it raises (`Raises`). In the last two cases the write joins
`late`, from where `LateWrite` may execute it at any later time and any number of times:
the attempt whose answer was lost, its repetitions, and the thread that `wait_for` has
abandoned are all in there, with the lock of the session free between any two of them. A
read leaves nothing behind. `strayed` notes that the drive's target velocity
is one that came late.

`drive.close()` goes on whether or not `jog.close()` raises (`CloseRaises`), and then
drops the session (`DropsSession`). From then on an access raises at once and reaches
nobody, unless it had been handed to a thread before (`Submitted`, `underway`). That
is free of the fault counter: it is no fault of the environment.

`jog_start` has its three paths: hot, warm (a read of the mode display), cold
(invalidate `_mode_ready`, then writes **outside** the lock). `stop()` sets the
abort event, tries HALT twice and slows down by mode. `move_to_position` is
there as far as it touches jogging: release, mode switch, clearing of the abort
event, set-point pulse. The drive (`After`) is the simulator's: a target velocity
is only stored, a rising edge of bit 4 starts the motion of the current mode,
and once started the drive follows the target velocity.

The drive stays in Operation Enabled; a status check that refuses is an access
that raises. `stop_mode="halt"` is not modelled.

### `SimulatedDrive`
The drive as the simulator builds it, without variables of its own: words are
sets of named bits, `Apply` is `_apply_controlword` with its early returns in
their order, `Status` is `make_statusword`, `Infer` the table of
`infer_cia402_state`, and `EngineTurns` the drives one turn of the motion engine
can leave. Positions are the soft limit range. The simulator ignores
controlword 0; the constant `ObeysDisable` is the D1, which does not.

### `CiA402`
Several callers overlap, each in one operation: enable, fault reset with
recovery, stop, quick stop, disable voltage, or a motion start in profile
velocity. `prog` is the rest of a caller's operation as a list of accesses - a
controlword to write, states to wait for, a look at the state to go on by, or a
decision of the facade - and a step of the model is one access, which is where a
coroutine gives way. `Onward` is the ladder of `run_to_operation_enabled()`: it
maps the stage reached and the state seen to the accesses that follow. A wait
that does not see its states polls on, which changes nothing, or times out. An
access may raise, executed or not (`AccessRaises`). `cache` and `reading` are the
poller's snapshot and the one it is reading, reduced to the bits that a stop or a
fault reset decides by.

Outside the program (`Upsets`, `FaultReactionEnds`): the drive faults, its
emergency input or DI7 changes. The ghosts `sawEnabled`, `sawClear`, `sawRest`
note for each operation what the drive has gone through while it ran, `failed`
counts attempts to halt that raised.

Not in this module: `fault_reset(recover=False)`, which is a prefix of the one
modelled; the invalid boot word 0x2704, after which the drive must be restarted;
the abort event, which is the jog controller's subject; and `disable_voltage`'s
suppression of the keepalive, which is the session's.

### `MotionFacade`
As in `CiA402`, a caller is its operation (`op`) and the accesses it has left
(`todo`). A move is `"move"` while it prepares - cancel the idle shutdown, release
the jog, enable, switch the mode, check the target, clear the abort event - and
`"pp"` from `pp.move_to_position()` on, where `Ends` also runs the `finally`
clauses that restore the configuration and arm the idle shutdown. `cfg`, `saved` and `profile` are the
one `ProfilePositionConfig` that moves override in place, what each of them
stashed, and whose values the drive has. The idle shutdown is a timer, a task that looks at the
jog and then writes, and `orphan`: controlword 0 that a failed attempt has sent, or that
was handed to a worker thread by a task cancelled afterwards.

Accesses fail as in `JogController`: a write of a failed attempt joins `late`, under the
name of its caller, and `LateWrite` executes it later, any number of times; of a climb
any controlword may come late. A set-point sent twice is therefore two executions with
whatever comes in between, another caller's HALT included: `resent` notes the moves this
has happened to. When a caller begins a new call its old writes lose
their name. A late write that falls into somebody else's motion command is what two
overlapping commands are, and the ghost `overlapped` notes it (`Strays`); `HaltIsFinal`,
`SetPointReleased` and `IdleFollowsMotion` hold without looking at that ghost.

`stale` is a property of the D1 that the source describes
(`profile_position.py:197-201`): for a while after a set-point bit 10 is still
that of the motion before. `Near` reads the position, `Window` is the tolerance.

What is coarser here than elsewhere: the climb to Operation Enabled is one access
(`CiA402` takes it apart); the jog is one press and one release (`JogController`);
the status that `stop()` decides by may be any. Left out: Remote and the
connection check, which a move only asserts; cancellation of the caller's task;
relative moves, which the facade does not use; bit 13, a homing error, which ends
the wait as a timeout does.

### `DriveLifecycle`
`net` is what each session object does with its socket, `polls` the poller that came
with it; `session`, `poller`, `helpers`, `executor`, `loop` are the fields of
`DryveD1`. A caller is at one of the awaits of `connect()` (`connects`, `validates`: the
position limits and the validation, which only log) or of `close()` (`jogCloses`,
`pollerStops`, `sessionCloses`), and all that runs between two awaits is one step. `signals` are the calls that the
keepalive thread has queued in the event loop, `scheduled` is the debounce flag,
`stopTask` the attempts the safety stop still has, with its decision between
release and `stop()` as a step of its own.

The drive is reduced to whether it moves and by what. Its motion is under way at a
reconnect (`owed`) until it ends; `excused` says why nobody is going to stop it, and a further
reconnect takes the excuse away. `helpers`, `jog` and `bound` name the `JogController`
that the facade knows, the one that is active, and the one whose `release` the safety
stop has chosen: an overlapping `connect()` replaces the first and not the others.
`raced` notes a `connect()` that ran together with another `connect()` or a
`close()`: nothing in the code serialises them, and the properties say what
holds apart from that.

A call to the session may be under way in a thread as `close()` reaches it: the
HALT of the reconnect stop, or one whose coroutine has given up (`ClosesAmongCalls`).
`late` has the sessions with such a call. It may connect before, during or after
`session.close()` without looking at the stop event (`Reopens`), which opens the socket
for good if the close is over, and it comes to an end (`CallEnds`); what is still in the
executor is waited for, as `shutdown(wait=True)` does. `caught` notes the sessions that such
a call has opened again or still may. A keepalive thread does not connect.

### `GatewayCodec` and `GatewayWire`
A data field is the number its bytes spell and their count: padding with zero bytes
leaves the number alone, cutting keeps the low bytes, and `Packed`/`Unpacked` are
two's complement over `Byte` values. `Parse` keeps the order of `parse_adu()`: the
exception answer first, then transaction id, unit, object and direction, then
padding and cutting. `GatewayWire` puts a session around it: calls of every width
and sign of `od_accessor.py`, an answer that is late, a connection replaced with a
request under way, a retry of the same telegram. The gateway is the server of
`simulator.py`, which checks frames and hangs up on a bad one, or one in the field
(external), which may answer short, wide, with a wildcard unit, or with an exception.
One request at a time is what `ModbusSession` shows of it.

### `PackagedMoves`
`packages/cia402` and `packages/cia402-dryve-d1` are an older branch of the same code.
Where they differ a move takes bit 4 back before it waits for the acknowledge, a
missing acknowledge is waived when the axis is within 250 units of the target, bit 10
alone is *reached*, homing accepts bit 10 in place of bit 12, the mode is changed
after a shutdown to Ready to switch on, and the facade has no `_hooks`, so that
`is_homed` makes no access. The simulator of the package shows no bit 12 in profile
position (`Written`). The target and the position that the delta is computed from
are read in one step; profiles, the jog and Remote are left out. `cut` notes the
moves and homing runs whose motion ended before it arrived.

The `MC...` modules give TLC its small sets.

## 4. Runs

| Run | Shows |
|---|---|
| `SessionSafety` | `SerializedIo`, `OwnAnswer`, `LeftoversAreDoomed`, `ReconnectAnnounced`, `TypeOK` under strict ids; the session implements `DriveCalls` (`INSTANCE ... WITH`, as a property) |
| `SessionEnds` | `EveryCallReturns`; `close()` ends the session with both generations of keepalive threads if no call is under way (`CloseEndsSession`) |
| `SessionAfterClose` | violated: a call under way reopens the session, against `session.py:133` |
| `JogHold` | with a failing access, its late write and `close()`: an active jog has exactly one watchdog, its deadline stops it while there is a session, no unaccounted motion |
| `JogEverything` | all operations overlap: a stale abort spares a newer jog; an abort ends its own |
| `JogAbortRaises` | violated: one failing access in the abort branch ends the watchdog, against `jog.py:25` |
| `DriveStates` | enable, fault reset and stop that return have done what they promise, whatever overlaps, raises or faults |
| `Moves` | success of a move or a homing run means what it says; a HALT is final unless the session repeats the set-point; the start bit is released; the configuration is restored; idle shutdown spares moves and follows every one |
| `MoveOutlivesStop` | violated: a move that ended as aborted goes on, against `exceptions.py:13` |
| `Lifecycle` | nothing leaks unless a connect overlaps or a call under way reopens the session; a motion under way at a reconnect is stopped or excused; every `close()` ends |
| `Wire` | what is acknowledged was written, what was written is what was meant, what is read was stored, what is refused was not executed |
| `PackagedMoves` | what the packaged completion tests still guarantee, with the exact exceptions |

Runs of the session use two callers and at most three calls: every race found
needs a thread that fails, one that comes in between, and the keepalive. Two
attempts are the fewest that have a retry, two connections the fewest with a
reconnect; `SessionEnds` has two keepalive identities so that a new thread can meet
an old one, and one call beside the opener's.

Jog runs use two callers and two watchdog identities. Three facade calls cover each
pair of operations with a jog under way. One failing access, which either raises
or is repeated, leaves a write that may be executed at any time and any number of times;
that covers a late velocity behind a release, and a close whose stop raises. `JogHold` has
two velocities, so that a keepalive has one to write; `JogEverything` one, since an abort
does not depend on it. A new watchdog takes the first free identity (`IsNewTask`), which loses nothing:
identities are interchangeable. More failures are the subject of the proofs.

The state machine run starts from a fresh drive, one in fault and one in motion,
with two callers and two calls, so that each pair of operations overlaps. Two
raising accesses are what both attempts to halt need; one upset is a fault, an
emergency stop or a loss of Remote at any moment of an operation. The position
range is a point: nothing here depends on how far the drive moves, only on
whether it does.

`Moves` and `PackagedMoves` use two callers and two calls, and positions 0 to 2 with a
window of 1, so that an axis can be at, near and away from a target, and a target beyond
the limits. In `PackagedMoves` one access raises and the drive goes into fault once; in
`Moves` one of the two happens (`OneMishap`, a constraint), the access raises or is repeated,
and that all of it together changes nothing is what the theorems say. `Moves` has the
callers as a symmetry set, which is sound because all its properties are about safety and
name no caller, and neither does the constraint. With two
calls each pair of operations overlaps in every order; the idle shutdown and the
write it leaves behind are a third actor. With three calls and no raising access
`PackagedMoves` shows nothing new.

`Lifecycle` uses two callers with three calls, hence up to three sessions and an
overlap with a third call pending; two reconnects are the fewest that meet the
debounce flag, and enough for a call under way to open a closed session again.

`Wire` has bytes of two values, so that a word has the values -2 to 3 and a double
word -8 to 15, and writes on the bounds of each range and outside all of them. Two calls
and one repeat leave an answer or a request behind for the next call to meet.

**Bounds.** `MaxRequests`, `MaxConns`, `MaxBeats` (session), `MaxCalls`,
`MaxFaults` (everywhere else), `MaxUpsets` (faults of the drive), `MaxSignals`,
`MaxMotions` (life cycle), `MaxRepeats` (wire) and `OneMishap` (`Moves`) only disable
actions of the environment. `TidFresh` lets an id be issued again only when no
request with that id is in play; the generator has 255 values and the code does
not check this, so `OwnAnswer` is a statement about sessions in which fewer than
255 requests are issued while one is in play. In `GatewayWire` ids are never
issued twice.

**Fairness.** `ModbusSession`: threads are scheduled (weak fairness of each
thread's step), a thread that asks for a lock that becomes free again and again
gets it (strong fairness of `Acquire` and `Reclose`), and `close()` runs on once
it has begun. Socket timeouts make a receive end, so `IoFails` is part of the
thread's fair step; neither the drive nor the callers are fair.
`JogController`: the event loop runs every ready task and every access ends
within its timeout; the clock is not assumed to expire, because `DeadlineStops`
starts from a deadline that has. `DriveLifecycle`: the event loop runs each call and
the stop task when they are ready, and the threads of the executor end, since each of
their socket operations has a timeout and their attempts are counted; neither
callers nor reconnects are fair. A poller in the middle of an access therefore
gets to look at its stop event. The other modules state safety only.

## 5. What the failing runs say

The violated properties are sentences of the source. Three disagreements:

1. *A call under way during `close()`* reconnects and starts a new keepalive
   thread. When no call is under way `close()` is final (`CloseEndsSession`). For
   `DryveD1.close()` this is the exception `caught` of `NothingLeaks` and
   `CloseReleasesAll`: it waits for such calls (`drive.py:263`), but only after it has
   closed the session.
2. *The abort branch of the watchdog* lets an exception end the task.
3. *A stop between the abort clear of a move and its set-point* is lost: its HALT
   meets no motion, the move writes the set-point all the same, sees the abort
   event only afterwards, raises `MotionAborted` - and the drive goes on to its
   target. `HaltIsFinal` shows that a HALT which comes after the set-point is the
   end of the motion, unless the session repeats the set-point.

Remarks that the models bear out and that have no run of their own:

* With tolerated transaction ids a stale answer about the same object passes
  (`gateway_telegram.py:231-233`); `OwnAnswer` and `Wire` are about strict ids. An
  exception answer is raised before the id is compared (`gateway_telegram.py:200`),
  so that a late one refuses the next call, executed or not: the exception of
  `RefusedIsNotExecuted`.
* A device that acknowledges a write with the read direction and no data is refused by
  `validator.py:153-157`, although `sdo.py:99-102` would take it. Nothing is
  confused, the write is reported as failed.
* A press that raises half way leaves the drive turning, with an exception for the
  caller. There is a second way, with no exception for anybody who presses: a velocity whose
  attempt failed, or whose thread `wait_for` has abandoned (`od_accessor.py:46`), is
  executed after the zero of a release or of the watchdog, and the drive turns with the jog
  inactive (`strayed`). `MotionIsAccounted` shows that there is no third.
  `_mode_ready` outlives the mode: a press behind a move latches in position mode.
* A `close()` whose stop raises leaves the jog active and the watchdog running, and drops
  the session (`jog.py:172`, `drive.py:246-260`): every tick raises from then on, and the
  deadline is never enforced - the exception `closed` of `DeadlineStops`.
* The session repeats a write whose answer was lost (`session.py:203`) with its lock free in
  between. A set-point executed before and after another caller's HALT is two edges, and
  the motion starts again: the exception `resent` of `HaltIsFinal`.
* The lock is free between a failed attempt and the close of its socket
  (`session.py:194-198`), so that another thread may send on the same connection
  although `session.py:4` speaks of one request in flight: `LeftoversAreDoomed` says
  that this stays harmless as far as the connection goes, and `OwnAnswer` as far as
  answers go. For the same reason a failing thread may close a connection that
  another one has just opened, which costs a reconnect and with it a safety stop.
* `fault_reset()` asks two sources: the snapshot whether to recover, the drive
  whether to reset. A fault that came up in between is reset and the drive stays in
  Ready to switch on. A move, on the other hand, resets a fault without being
  asked (`motion_commands.py:268`), as part of its enable.
* What `EnableKeepsItsWord` does not say is that the drive is *still* enabled when
  the call returns: another caller, a fault or a second enable may have taken it out
  of that state again.
* A reconnect while the stop task of an earlier one exists is dropped
  (`drive.py:381`), although that task may have passed its last write: a motion
  started in between is not stopped. `ReconnectStops` excuses this case and
  shows that, besides failing accesses and `close()`, it is the only one.
* `connect()` overlapping with `connect()` builds two sessions of which one is
  forgotten, open; overlapping with `close()` it loses its helpers and its executor.
* `home()` does not cancel an armed idle shutdown and `jog_stop()` arms one while
  another caller's move runs; both lose their voltage. `IdleSparesMoves` is about
  moves that began without an overlap. A jog that its watchdog ends arms nothing.
* Homing pulses bit 4 without clearing it first. After a pulse whose second half
  failed there is no rising edge, and a bit 12 of the motion before is taken for
  *attained* (`homing.py:118`, `149`): the exception `unpulsed` of `AttainedMeansHomed`.
* The packaged move believes bit 10, which a HALT, controlword 0 and a fault set as
  well: the exception `cut` of `ReachedIsThere`. On a D1, where bit 12 acknowledges
  while bit 10 is stale, it would report success at once; `src/dryve_d1` has since
  corrected this at `profile_position.py:197-201`.

## 6. Proofs

Every safety property that a passing run checks is also a theorem: invariants as
`Spec => []Inv`, the action properties `StaleAbortSparesNewJog`, `IdleSparesMoves`,
`ReachedMeansThere`, `AttainedMeansHomed` and their packaged versions from the same
invariants, and the refinement of `DriveCalls` step by step. The assumptions on
constants are the named ones of the modules (`SessionAssumption`, `JogAssumption`, ...):
identities differ, bounds are natural numbers, a byte has an even number of values. Two
kinds of theorem have a hypothesis of their own, which the runs' constants meet: those
that speak of strict transaction ids, and `WatchdogOnDuty`.

Each inductive invariant was checked by TLC on the run of its module first. The proofs
follow the actions: one step per action, and lemmas for what actions have in common.

### `ModbusSessionProofs`

For any sets of threads, any retry budget and any range of ids:

* `TypeCorrect`, `OneThreadInIo` (`SerializedIo`);
* `StrictIdsSuffice`: `~Tolerant => (Spec => []OwnAnswer)`;
* `EveryReconnectAnnounced` (`ReconnectAnnounced`), `NoAnswerIsLeftBehind`
  (`LeftoversAreDoomed`);
* `SessionImplementsCalls`: `~Tolerant => (Spec => ImplementsDriveCalls)`.

The inductive invariant `SafetyInv` adds to types and mutual exclusion where each
thread can be (`OpenerInv`, `CallerInv`, `BeaterInv`), that there is nothing on a
connection that does not exist (`QueueInv`), and `TidUnique`: two requests in play with
the same transaction id are one request. That is what `OwnAnswer` rests on - an accepted
answer carries the id of a request in play, hence is about that request - and why it
needs neither a single request in flight (there may be two) nor the lock. Leftovers
are counted: what is on the connection against the thread that may still take it.

For the refinement `CallsInv` keeps the account of each call: executions, copies that a
closed connection may still deliver and the copy on the open one (`Sendings`) together
never exceed the attempts made, and are fewer in an attempt that has not sent yet
(`WithinBudget`). A step of the session then is a step of `DriveCalls` or a stutter
(`CallsStep`). `DriveCalls` itself speaks of executions and results only; the
copies that may still be executed after the call has ended are what the account
is for.

### `JogControllerProofs`

For any callers, any watchdog identities, any velocities and any number of raising
accesses, their writes executed at once, late or never:

* `TypeCorrect`, with the part that a test would hardly reach: nobody is in the
  lock's queue twice, also when a close cancels a watchdog that waits there;
* `AtMostOneWatchdog` (`OneWatchdog`), `MotionAccounted` (`MotionIsAccounted`);
* `WatchdogOnDuty`: `"stop" \notin Operations => (Spec => []WatchdogGuards)`. The
  assumption is needed: with `stop()` an abort that raises ends the watchdog of
  an active jog, which the run `JogAbortRaises` shows;
* `NewJogSpared` (`StaleAbortSparesNewJog`).

Everything rests on `TaskInv`: tasks keep to their own operations (`RoleInv`), the
queue is made of the tasks in a locked operation, once each (`LockInv`), and a task
with accesses to make under the lock is its holder (`HoldInv`). `HoldInv` is what
makes `KeepaliveInv` inductive - a jog cannot end in the middle of a keepalive,
since both need the lock - and `ScriptInv` says who can write a velocity. With
them `VelocityInv`, stronger than `MotionIsAccounted`, is inductive: a target
velocity on the drive, turning or not, belongs to an active jog, to a press
under way or to one that raised, or is one that came late (`strayed`).

`NewJogSpared` rests on the lock being first come, first served. While the abort event
is set no `jog_start()` newer than the stop exists, since it clears the event; once the
watchdog has seen the event it is in the queue, and newer callers queue up behind it
(`SparedInv`), so that a newer press finishes after the abort and never before it.

### `CiA402Proofs`

For any callers and operations and any number of calls, raising accesses and upsets:
`TypeCorrect`, `EnablePromise`, `ResetPromise`, `StopPromise`.

The properties speak of operations that have returned; the invariant behind them
(`Outstanding`) speaks of those under way: what an operation promises has been
noted, or the rest of its program cannot come to its end without it - the last
step waits for Operation Enabled, looks again, or raises (`EnableDue`); the
recovery decision, or a step of the recovery, is still to come (`RecoveryDue`);
the reset is (`ResetDue`); an attempt to halt is left for each that has not
raised (`HaltDue`). Together with `Noted` - what the drive is like now has been
noted - it is inductive. `RestOwes` shows that executing the head of a program
keeps it, `PrefixOwes` that replacing the head by the accesses it stands for does
(with `OnwardEnds` for the ladder of `run_to_operation_enabled()`), and
`GoOnKeeps` reduces each action to one of the two.

### `MotionFacadeProofs` and `PackagedMovesProofs`

For any callers and calls, any targets, windows and limits, and any number of raising
or repeated accesses, late writes and faults of the drive: all eight properties of the run `Moves`, and all
three of `PackagedMoves`. `SimulatedDriveProofs` has what they share with `CiA402Proofs`: the
drive stays a drive under `Apply` and `EngineTurns`, and what each leaves alone.

The accesses that an operation has left are a *script*: which access may follow which
(`Follows`) and which may be the last (`MayBeLast`). That every caller has a script of its
operation is part of the type invariant, and from it come the facts the rest needs:
`StepShape` says that a step goes on in its script, enters the handshake, or ends;
`StepPlaces` who is where after it, `StepEffect` what it did to the drive. On these
three rest the lemmas of the invariant, so that none of them goes through the actions
again.

`MotionInv` has a part for each thing a move relies on: commands that do not overlap
are alone (`Alone`); bit 4 is low before a pulse, so the pulse is an edge, unless
an earlier attempt at the same write has been executed already (`EdgeIsReady`); the drive follows the set-point of the move that has written one
(`OwnSetPoint`); configuration and drive have the values of the move under way
(`ConfigInv`); the homed flag was taken down (`HomingInv`); no idle shutdown is on its
way (`MovesUndisturbed`). `HaltIsFinal` is inductive only with three more: a move the
drive follows, and one that met a HALT, is past its set-point or in `resent`
(`MoverFired`, `HaltedFired`); and of the writes that may still come late each call has
only such as it has made (`LateInv`) - none of a set-point before the handshake, and in
the handshake only if it was repeated, which is what `resent` notes.

The packages do not read the position, so `MovesInv` follows the motion itself: from the
pulse to the last wait it is the move's own and under way, or has arrived, or the move is
in `cut` (`MoveInv`; `HomeInv` for homing). Most steps, of callers and of the background,
start no motion and leave one to itself or account for its end; they are one case
(`Drift`). What the theorems exclude by name - `stale`, `cut`, `unpulsed`, `overlapped` -
is what the source really allows (section 5).

### `DriveLifecycleProofs`

For any callers, sessions, reconnects, motions and raising accesses: `TypeCorrect`,
`ReconnectPromise` (`ReconnectStops`), `NoSessionLeaks` (`NothingLeaks`) and
`CloseLeavesNothing` (`CloseReleasesAll`).

The invariant behind the stop is `StopIsOwed`: a motion met by a reconnect, with no excuse
and no signal waiting, has a stop task whose remaining attempts still include the one
that stops it, and a release only of the controller it is bound to. The one behind
the leaks has two halves. Every socket that opens or closes has a caller at the await that will
end it (`SocketsTended`), whatever races, and so has every call a close has met, which
could open the socket again until it ends. The sessions that such a call has opened again,
or still may, are `caught`, the exception the two theorems name. As long as no `connect()` has raced, whoever
connects is alone (`AloneConnecting`), and concurrent closes agree: each finds the session
whose poller it has stopped, or none (`ClosersAgree`). `CloseIsFinal` adds that
after a close there is nothing, until somebody connects again.

### `GatewayWireProofs`

For any base of a byte, objects, values, gateways, and any number of calls and repeats:
`TypeCorrect`, `AcknowledgedIsWritten` (`WriteAckMeansWritten`), `WrittenIsMeant`
(`StoredIsMeant`), `ReadIsStored` (`ReadsWhatIsStored`) and `RefusalIsFinal`
(`RefusedIsNotExecuted`).

Under `WrittenIsMeant` lies arithmetic: what is packed as two's complement, cut to the
width of the object and unpacked is the value again if the object can hold it
(`PackCutUnpack`), which needs that four bytes hold a whole number of
fields (`FieldsOfLong`) and that remainders compose (`Remainder`). `Modulus` is
written as products because the provers do not know powers. The wire's invariant `WireInv`
says of each answer under way that its request was executed (`AnswersWereExecuted`) and
that its value is one the object had during the call (`AnswersWereSeen`); that copies of a
request are equal; and, as long as nothing was repeated, that a request is sent once
(`SentOnce`), so that a refused one is neither executed nor on its way (`RefusalsAreFinal`).

### Only model-checked

* Liveness needs fairness and is out of the prover's reach: `EveryCallReturns`,
  `CloseEndsSession`, `DeadlineStops`, `AbortEndsJog`, `CloseEnds`.
* The violated properties (`ClosedStaysClosed`, `TtlStops` with a failing abort,
  `AbortedMoveIsOver`) are refuted by a run, and there is nothing to prove of them.
* That the models are the code is for the reader: no proof reaches the Python.

## 7. Not modelled

Configuration, utilities and type definitions have no state beyond constants; unit
scaling and the checks of velocity and acceleration refuse a call before it does
anything. The runtime policy appears as `Tolerant`, `TidOk` and `unitOk`.

The HTTP dashboard of the simulator is display, and so are the position, velocity and
mode of a snapshot: its four requests may belong to different moments
(`poller.py:90`), but no decision is taken by them. The decisions taken by its
status word are in `CiA402` and `MotionFacade`.

`packages/` repeats `src/dryve_d1`; its session, telegrams, jog and life cycle are the
same code and what is shown of the one holds of the other. Only what differs is
modelled, in `PackagedMoves`.

`stop_mode="halt"` of the jog, relative moves, the pure predicates of
`cia402/fault.py`, the unused guards of `cia402/dominance.py`, and the invalid boot word
0x2704, after which the drive must be restarted, are left out of the modules they would
belong to. Examples and tests are read as documentation of intent.
