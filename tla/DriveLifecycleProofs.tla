------------------------ MODULE DriveLifecycleProofs ------------------------
(***************************************************************************)
(* Safety of DriveLifecycle for any number of callers, calls, faults and   *)
(* reconnects: what close() releases, and what the reconnect stop owes.    *)
(***************************************************************************)
EXTENDS DriveLifecycle, TLAPS

USE LifecycleAssumption

-----------------------------------------------------------------------------
(* The inductive invariant. *)

\* What can be left of the reconnect stop task.
Releasing == {<<"release", "release", "release">>, <<"release", "release">>, <<"release">>}
Halting == {<<"halt", "halt", "slow">>, <<"halt", "slow">>}
StopTasks == {<<>>, <<"decide">>, <<"slow">>, <<"done">>} \cup Releasing \cup Halting

\* A signal that waits was raised, and the task is in a state it can be in.
StopInv ==
  /\ stopTask \in StopTasks
  /\ signals <= raised
  /\ stopTask \in Releasing => bound # None

\* A caller that connects or closes a session has one.
CallerInv ==
  \A t \in Callers :
    pc[t] \in {"connects", "sessionCloses"} => mine[t] \in Sessions

\* The poller and the session of the facade come and go together.
PollerInv == poller = session

TypeInv == TypeOK /\ StopInv /\ CallerInv /\ PollerInv

\* A jog controller is active just while the motion is a jog, and only a
\* motion that is there is owed a stop.
MotionInv ==
  /\ jog # None <=> motion = "jog"
  /\ owed => motion # "none"

\* A motion that is owed a stop, with no excuse and no signal waiting, has a
\* task that still stops it: a release only of its own controller.
StopIsOwed ==
  owed /\ excused = "none" /\ signals = 0 =>
    \/ stopTask = <<"decide">>
    \/ stopTask \in Halting
    \/ stopTask \in Releasing /\ jog = bound

MotionSafe == MotionInv /\ StopIsOwed

\* Somebody looks after every socket that opens or closes, and waits for the
\* calls that a close has met.
SocketsTended ==
  /\ \A s \in Sessions :
       /\ net[s] = "connecting" => \E t \in Callers : pc[t] = "connects" /\ mine[t] = s
       /\ net[s] = "closing" => \E t \in Callers : pc[t] = "sessionCloses" /\ mine[t] = s
  /\ late # {} => \E t \in Callers : pc[t] = "sessionCloses"

\* Unless a connect() raced, the one that connects is alone, and finds no session.
AloneConnecting ==
  \A t \in Callers : Connecting(t) =>
    /\ executor
    /\ pc[t] = "connects" => session = None
    /\ \A u \in Callers \ {t} : ~Connecting(u) /\ ~Closing(u)

\* Unless a connect() raced, closes agree on the session they close: each
\* finds the one whose poller it has stopped, or none.
ClosersAgree ==
  /\ \A t \in Callers :
       /\ pc[t] = "pollerStops" => session = None \/ session = mine[t]
       /\ pc[t] = "sessionCloses" => session = None
  /\ session # None => executor

\* After a close() nothing is left, until somebody connects again.
CloseIsFinal ==
  ended => (session = None /\ helpers = None) \/ \E t \in Callers : Connecting(t)

\* What holds as long as no connect() has raced.
Orderly == AloneConnecting /\ ClosersAgree /\ CloseIsFinal /\ NothingLeaks

LifeInv == TypeInv /\ SocketsTended /\ (raced \/ Orderly)

-----------------------------------------------------------------------------
(* Type correctness. *)

\* The parts of TypeOK, by the component whose variables they are about.
SessionType ==
  /\ net \in [Sessions -> {"new", "connecting", "open", "closing", "closed"}]
  /\ polls \in [Sessions -> {"none", "runs", "told", "ended"}]
  /\ late \subseteq caught /\ caught \subseteq Sessions
FacadeType ==
  /\ session \in Sessions \cup {None} /\ poller \in Sessions \cup {None}
  /\ helpers \in Sessions \cup {None}
  /\ executor \in BOOLEAN /\ loop \in BOOLEAN
  /\ poller # None => net[poller] \notin {"new", "connecting"}
PlaceType ==
  /\ pc \in [Callers -> {"idle", "connects", "validates", "jogCloses",
                         "pollerStops", "sessionCloses"}]
  /\ mine \in [Callers -> Sessions \cup {None}]
CountType ==
  /\ calls \in 0..MaxCalls /\ faults \in 0..MaxFaults
  /\ raised \in 0..MaxSignals /\ signals \in 0..MaxSignals /\ motions \in 0..MaxMotions
MotionType ==
  /\ motion \in {"none", "move", "jog"}
  /\ jog \in Sessions \cup {None} /\ bound \in Sessions \cup {None}
  /\ excused \in {"none", "dropped", "failed", "closed"}
GhostType == raced \in BOOLEAN /\ ended \in BOOLEAN /\ owed \in BOOLEAN
TaskType == scheduled \in BOOLEAN /\ (scheduled <=> stopTask # <<>>)

\* The parts make up the type invariant.
LEMMA TypeParts ==
  TypeOK <=> /\ SessionType /\ FacadeType /\ PlaceType /\ CountType
             /\ MotionType /\ GhostType /\ TaskType
BY DEF TypeOK, SessionType, FacadeType, PlaceType, CountType, MotionType, GhostType, TaskType

\* The shapes of the task are different, and an attempt leaves another shape.
LEMMA TaskShapes ==
  ASSUME stopTask \in StopTasks
  PROVE  /\ Attempting("release") <=> stopTask \in Releasing
         /\ Attempting("halt") <=> stopTask \in Halting
         /\ Attempting("slow") <=> stopTask = <<"slow">>
         /\ stopTask \in Releasing /\ Len(stopTask) > 1 => Tail(stopTask) \in Releasing
         /\ stopTask \in Releasing /\ stopTask # <<"release">> => Len(stopTask) > 1
         /\ stopTask \in Halting => Len(stopTask) > 1 /\ Tail(stopTask) \in StopTasks \ {<<>>}
         /\ stopTask \in Halting /\ stopTask # <<"halt", "slow">> => Tail(stopTask) \in Halting
<1> USE DEF Releasing, Halting, Attempting
<1> DEFINE r3 == <<"release", "release", "release">>
           r2 == <<"release", "release">>
           r1 == <<"release">>
           h3 == <<"halt", "halt", "slow">>
           h2 == <<"halt", "slow">>
<1>1. /\ Len(r3) = 3 /\ Len(r2) = 2 /\ Len(r1) = 1 /\ Len(h3) = 3 /\ Len(h2) = 2
      /\ Tail(r3) = r2 /\ Tail(r2) = r1 /\ Tail(h3) = h2 /\ Tail(h2) = <<"slow">>
  OBVIOUS
<1>2. /\ \A r \in {r3, r2, r1} : r # <<>> /\ Head(r) = "release"
      /\ \A h \in {h3, h2} : h # <<>> /\ Head(h) = "halt"
      /\ <<"slow">> # <<>> /\ Head(<<"slow">>) = "slow"
      /\ <<"decide">> # <<>> /\ Head(<<"decide">>) = "decide"
      /\ <<"done">> # <<>> /\ Head(<<"done">>) = "done"
  OBVIOUS
<1>3. /\ Attempting("release") <=> stopTask \in Releasing
      /\ Attempting("halt") <=> stopTask \in Halting
      /\ Attempting("slow") <=> stopTask = <<"slow">>
  BY <1>2 DEF StopTasks
<1>4. /\ stopTask \in Releasing /\ Len(stopTask) > 1 => Tail(stopTask) \in Releasing
      /\ stopTask \in Releasing /\ stopTask # <<"release">> => Len(stopTask) > 1
  <2>1. CASE stopTask = r3
    BY <1>1, <2>1
  <2>2. CASE stopTask = r2
    BY <1>1, <2>2
  <2>3. CASE stopTask = r1
    BY <1>1, <2>3
  <2>4. stopTask \in Releasing => stopTask = r3 \/ stopTask = r2 \/ stopTask = r1
    OBVIOUS
  <2> QED
    BY ONLY <2>1, <2>2, <2>3, <2>4
<1>5. /\ stopTask \in Halting => Len(stopTask) > 1 /\ Tail(stopTask) \in StopTasks \ {<<>>}
      /\ stopTask \in Halting /\ stopTask # <<"halt", "slow">> => Tail(stopTask) \in Halting
  <2>1. CASE stopTask = h3
    BY <1>1, <2>1 DEF StopTasks
  <2>2. CASE stopTask = h2
    <3>1. Len(stopTask) = 2 /\ Tail(stopTask) = <<"slow">>
      BY <1>1, <2>2
    <3>2. <<"slow">> \in StopTasks \ {<<>>}
      BY <1>2 DEF StopTasks
    <3> QED
      BY ONLY <2>2, <3>1, <3>2
  <2>3. stopTask \in Halting => stopTask = h3 \/ stopTask = h2
    OBVIOUS
  <2> QED
    BY ONLY <2>1, <2>2, <2>3
<1> QED
  BY <1>3, <1>4, <1>5

\* The constant shapes differ from one another.
LEMMA ShapesDiffer ==
  /\ <<"decide">> # <<>> /\ <<"done">> # <<>> /\ <<"slow">> # <<>>
  /\ <<"decide">> \notin Releasing \cup Halting
  /\ <<"done">> \notin Releasing \cup Halting /\ <<"done">> # <<"decide">>
  /\ <<"slow">> \notin Releasing \cup Halting /\ <<"slow">> # <<"decide">>
  /\ <<>> \notin Releasing \cup Halting
  /\ {<<>>, <<"decide">>, <<"slow">>, <<"done">>} \subseteq StopTasks
  /\ Releasing \subseteq StopTasks /\ Halting \subseteq StopTasks
  /\ ReleaseAttempts \in Releasing /\ StopAttempts \in Halting
BY DEF ReleaseAttempts, StopAttempts, StopTasks, Releasing, Halting

\* The life cycle starts well typed: no session, no task (drive.py:84-142).
LEMMA TypeInit == Init => TypeInv
<1> SUFFICES ASSUME Init PROVE TypeInv
  OBVIOUS
<1>1. SessionType /\ PlaceType /\ CountType /\ MotionType
  BY DEF Init, SessionType, PlaceType, CountType, MotionType, None
<1>2. executor \in BOOLEAN /\ loop \in BOOLEAN /\ scheduled = FALSE /\ GhostType
  BY Zenon DEF Init, GhostType
<1>3. FacadeType /\ PollerInv
  BY <1>2 DEF Init, FacadeType, PollerInv, None
<1>4. TaskType /\ StopInv
  <2>1. scheduled = FALSE /\ stopTask = <<>> /\ signals = 0 /\ raised = 0
    BY <1>2 DEF Init
  <2>2. TaskType
    BY Zenon, <2>1 DEF TaskType
  <2> QED
    BY <2>1, <2>2, ShapesDiffer DEF StopInv
<1>5. CallerInv
  BY DEF Init, CallerInv
<1> QED
  BY <1>1, <1>2, <1>3, <1>4, <1>5, TypeParts DEF TypeInv

\* Every step of a caller, a thread, the poller or the stop task keeps the
\* types: in particular the flag of the reconnect stop is set just while its
\* task exists, so that no signal is dropped for ever (drive.py:374-397).
LEMMA TypeNext == TypeInv /\ [Next]_vars => TypeInv'
<1> SUFFICES ASSUME TypeInv, [Next]_vars PROVE TypeInv'
  OBVIOUS
<1> USE DEF TypeInv, None, Sessions
<1>0. SessionType /\ FacadeType /\ PlaceType /\ CountType /\ MotionType /\ GhostType /\ TaskType
  BY TypeParts
<1>a. SessionType' /\ FacadeType' /\ PlaceType' /\ CountType' /\ MotionType' /\ GhostType'
      /\ TaskType' => TypeOK'
  BY TypeParts DEF TypeOK, SessionType, FacadeType, PlaceType, CountType, MotionType, GhostType, TaskType
<1>b. /\ UNCHANGED stopVars => TaskType' /\ StopInv'
      /\ UNCHANGED motionVars /\ bound' = bound => MotionType'
      /\ UNCHANGED callVars => PlaceType' /\ CallerInv'
      /\ UNCHANGED <<net, facadeVars>> => FacadeType' /\ PollerInv'
      /\ UNCHANGED <<calls, faults, raised, signals, motions>> => CountType'
      /\ UNCHANGED <<raced, ended, owed>> => GhostType'
  BY <1>0 DEF stopVars, motionVars, callVars, facadeVars, TaskType, StopInv, MotionType,
     PlaceType, CallerInv, FacadeType, PollerInv, CountType, GhostType
<1>c. UNCHANGED <<net, threadVars>> => SessionType'
  BY <1>0 DEF threadVars, SessionType
<1>1. ASSUME NEW t \in Callers, ConnectReturns(t) PROVE TypeInv'
  <2>1. PlaceType' /\ CallerInv'
    BY <1>0, <1>1 DEF ConnectReturns, Returns, PlaceType, CallerInv
  <2>2. CountType'
    BY <1>0, <1>1 DEF ConnectReturns, Calls, CountType, stopVars, motionVars
  <2>3. FacadeType' /\ PollerInv'
    BY <1>0, <1>1 DEF ConnectReturns, FacadeType, PollerInv
  <2>4. GhostType'
    BY <1>0, <1>1 DEF ConnectReturns, Returns, GhostType, motionVars
  <2> QED
    BY <1>1, <1>0, <1>a, <1>b, <1>c, <2>1, <2>2, <2>3, <2>4 DEF ConnectReturns, stopVars
<1>2. ASSUME NEW t \in Callers, NEW s \in Sessions, ConnectBegins(t, s) PROVE TypeInv'
  <2>1. PlaceType' /\ CallerInv'
    BY <1>0, <1>2 DEF ConnectBegins, GoesTo, PlaceType, CallerInv
  <2>2. CountType'
    BY <1>0, <1>2 DEF ConnectBegins, Calls, CountType, stopVars, motionVars
  <2>3. FacadeType' /\ PollerInv'
    BY <1>0, <1>2 DEF ConnectBegins, FacadeType, PollerInv, SessionType
  <2>4. GhostType'
    BY <1>0, <1>2 DEF ConnectBegins, GhostType, motionVars
  <2>5. SessionType'
    BY <1>0, <1>2 DEF ConnectBegins, SessionType, threadVars
  <2> QED
    BY <1>2, <1>0, <1>a, <1>b, <1>c, <2>1, <2>2, <2>3, <2>4, <2>5 DEF ConnectBegins, stopVars
<1>3. ASSUME NEW s \in Sessions, Work(s) PROVE TypeInv'
  <2>1. SessionType' /\ FacadeType' /\ PollerInv'
    BY <1>0, <1>3 DEF Work, SocketOpens, SocketCloses, CallEnds, PollerEnds, SessionType,
                      FacadeType, PollerInv, facadeVars, threadVars
  <2>2. UNCHANGED <<callVars, stopVars, motionVars, faults>>
    BY <1>3 DEF Work, SocketOpens, SocketCloses, CallEnds, PollerEnds
  <2> QED
    BY <1>a, <1>b, <1>c, <2>1, <2>2 DEF callVars, stopVars, motionVars
<1>4. ASSUME NEW t \in Callers, ConnectFails(t) PROVE TypeInv'
  <2>1. PlaceType' /\ CallerInv'
    BY <1>0, <1>4 DEF ConnectFails, Returns, PlaceType, CallerInv
  <2>2. CountType'
    BY <1>0, <1>4 DEF ConnectFails, CountType, stopVars, motionVars
  <2>3. mine[t] \in Sessions
    BY <1>4 DEF ConnectFails, CallerInv
  <2>4. SessionType' /\ FacadeType' /\ PollerInv'
    BY <1>0, <1>4, <2>3 DEF ConnectFails, DropSocket, SessionType, FacadeType, PollerInv, facadeVars,
                            threadVars
  <2>5. GhostType'
    BY <1>0, <1>4 DEF ConnectFails, Returns, GhostType, motionVars
  <2> QED
    BY <1>4, <1>a, <1>b, <1>c, <2>1, <2>2, <2>4, <2>5 DEF ConnectFails, stopVars
<1>5. ASSUME NEW t \in Callers, TakeOver(t) PROVE TypeInv'
  <2>1. mine[t] \in Sessions
    BY <1>5 DEF TakeOver, CallerInv
  <2>2. PlaceType' /\ CallerInv'
    BY <1>0, <1>5, <2>1 DEF TakeOver, GoesTo, PlaceType, CallerInv
  <2>3. SessionType' /\ FacadeType' /\ PollerInv'
    BY <1>0, <1>5, <2>1 DEF TakeOver, SessionType, FacadeType, PollerInv
  <2>4. CountType' /\ GhostType'
    BY <1>5, <1>b DEF TakeOver, stopVars, motionVars
  <2> QED
    BY <1>5, <1>a, <1>b, <1>c, <2>2, <2>3, <2>4 DEF TakeOver, stopVars
<1>6. ASSUME NEW t \in Callers, Validated(t) PROVE TypeInv'
  <2>1. PlaceType' /\ CallerInv'
    BY <1>0, <1>6 DEF Validated, GoesTo, Returns, PlaceType, CallerInv
  <2>2. CountType' /\ GhostType'
    BY <1>0, <1>6, <1>b DEF Validated, Returns, CountType, GhostType, stopVars, motionVars
  <2> QED
    BY <1>6, <1>a, <1>b, <1>c, <2>1, <2>2 DEF Validated, stopVars
<1>7. ASSUME NEW t \in Callers, CloseReturns(t) \/ CloseBegins(t) PROVE TypeInv'
  <2>1. PlaceType' /\ CallerInv'
    BY <1>0, <1>7 DEF CloseReturns, CloseBegins, GoesTo, Returns, PlaceType, CallerInv
  <2>2. CountType'
    BY <1>0, <1>7 DEF CloseReturns, CloseBegins, Calls, CountType, stopVars, motionVars
  <2>3. GhostType'
    BY <1>0, <1>7 DEF CloseReturns, CloseBegins, Returns, GhostType, motionVars
  <2>4. FacadeType' /\ PollerInv'
    BY <1>0, <1>7 DEF CloseReturns, CloseBegins, FacadeType, PollerInv, facadeVars
  <2> QED
    BY <1>7, <1>a, <1>b, <1>c, <2>1, <2>2, <2>3, <2>4 DEF CloseReturns, CloseBegins, stopVars
<1>8. ASSUME NEW t \in Callers, JogCloses(t) PROVE TypeInv'
  <2>1. PlaceType' /\ CallerInv'
    BY <1>0, <1>8 DEF JogCloses, TellPoller, GoesTo, PlaceType, CallerInv, FacadeType
  <2>2. SessionType' /\ FacadeType' /\ PollerInv'
    BY <1>0, <1>8 DEF JogCloses, TellPoller, SessionType, FacadeType, PollerInv, facadeVars
  <2>3. CountType'
    BY <1>0, <1>8 DEF JogCloses, CountType, stopVars
  <2>4. MotionType'
    BY <1>0, <1>8 DEF JogCloses, Settled, MotionType, stopVars
  <2>5. GhostType'
    BY <1>0, <1>8 DEF JogCloses, Settled, GhostType
  <2> QED
    BY <1>8, <1>a, <1>b, <1>c, <2>1, <2>2, <2>3, <2>4, <2>5 DEF JogCloses
<1>9. ASSUME NEW t \in Callers, PollerStopped(t) PROVE TypeInv'
  <2>1. PlaceType' /\ CallerInv'
    BY <1>0, <1>9 DEF PollerStopped, GoesTo, Returns, PlaceType, CallerInv, FacadeType
  <2>2. SessionType'
    BY <1>0, <1>9 DEF PollerStopped, ClosesAmongCalls, SessionType, FacadeType
  <2>3. FacadeType' /\ PollerInv'
    BY <1>0, <1>9 DEF PollerStopped, ClosesAmongCalls, FacadeType, PollerInv
  <2>4. CountType' /\ GhostType'
    BY <1>0, <1>9 DEF PollerStopped, Returns, CountType, GhostType, stopVars
  <2>5. MotionType'
    BY <1>0, <1>9 DEF PollerStopped, Excuse, MotionType, stopVars
  <2> QED
    BY <1>9, <1>a, <1>b, <1>c, <2>1, <2>2, <2>3, <2>4, <2>5 DEF PollerStopped
<1>10. ASSUME NEW t \in Callers, SessionClosed(t) PROVE TypeInv'
  <2>1. PlaceType' /\ CallerInv'
    BY <1>0, <1>10 DEF SessionClosed, Returns, PlaceType, CallerInv
  <2>2. FacadeType' /\ PollerInv'
    BY <1>0, <1>10 DEF SessionClosed, FacadeType, PollerInv
  <2>3. CountType' /\ GhostType'
    BY <1>0, <1>10 DEF SessionClosed, Returns, CountType, GhostType, stopVars, motionVars
  <2> QED
    BY <1>10, <1>a, <1>b, <1>c, <2>1, <2>2, <2>3 DEF SessionClosed, stopVars
<1>11. ASSUME NEW s \in Sessions, Reconnects(s) PROVE TypeInv'
  <2>1. CountType' /\ signals' <= raised'
    <3>1. /\ raised \in Nat /\ signals \in Nat /\ signals <= raised /\ raised < MaxSignals
          /\ raised' = raised + 1 /\ signals' \in {signals, signals + 1}
      BY <1>0, <1>11 DEF Reconnects, CountType, StopInv
    <3>2. CountType
      BY <1>0
    <3> QED
      BY <1>11, <3>1, <3>2 DEF Reconnects, CountType, callVars
  <2>2. MotionType' /\ GhostType'
    BY <1>0, <1>11 DEF Reconnects, MotionType, GhostType, callVars
  <2>3. TaskType' /\ StopInv'
    BY <1>0, <1>11, <2>1 DEF Reconnects, TaskType, StopInv
  <2>4. SessionType' /\ FacadeType' /\ PollerInv'
    BY <1>0, <1>11 DEF Reconnects, Reopens, SessionType, FacadeType, PollerInv, facadeVars, threadVars
  <2> QED
    BY <1>11, <1>a, <1>b, <1>c, <2>1, <2>2, <2>3, <2>4 DEF Reconnects
<1>12. CASE SafetyStop
  <2>0. UNCHANGED <<net, threadVars, callVars, facadeVars>>
    BY <1>12 DEF SafetyStop, Scheduled, Decides, ReleaseWorks, HaltWorks, SlowsDown,
                 AttemptRaises, FlagReset
  <2>a. owed' \in BOOLEAN
    BY <1>0, <1>12 DEF SafetyStop, Scheduled, Decides, ReleaseWorks, HaltWorks, SlowsDown,
                       AttemptRaises, FlagReset, Settled, motionVars, GhostType
  <2>b. GhostType'
    BY <1>0, <2>0, <2>a DEF GhostType, callVars
  <2>1. CountType'
    BY <1>0, <1>12, <2>0 DEF SafetyStop, Scheduled, Decides, ReleaseWorks, HaltWorks, SlowsDown,
                             AttemptRaises, FlagReset, CountType, StopInv, motionVars, callVars
  <2>2. MotionType'
    BY <1>0, <1>12 DEF SafetyStop, Scheduled, Decides, ReleaseWorks, HaltWorks, SlowsDown,
                       AttemptRaises, FlagReset, MotionType, Settled, Excuse, motionVars
  <2>c. ASSUME scheduled' = TRUE, stopTask' # <<>> PROVE TaskType'
    BY Zenon, <2>c DEF TaskType
  <2>d. scheduled \in BOOLEAN /\ (stopTask # <<>> => scheduled = TRUE)
    BY <1>0 DEF TaskType
  <2>e. StopInv /\ signals \in Nat /\ raised \in Nat
    BY <1>0 DEF CountType
  <2>3. ASSUME Scheduled PROVE TaskType' /\ StopInv'
    <3>1. scheduled' = TRUE /\ stopTask' # <<>> /\ stopTask' \in {stopTask, <<"decide">>}
      <4>1. CASE scheduled
        <5>1. stopTask # <<>> /\ stopTask' = stopTask
          BY <1>0, <2>3, <4>1 DEF Scheduled, TaskType
        <5> QED
          BY <2>3, <5>1 DEF Scheduled
      <4>2. CASE ~scheduled
        BY <2>3, <4>2, ShapesDiffer DEF Scheduled
      <4> QED
        BY <4>1, <4>2
    <3>2. UNCHANGED <<bound, raised>> /\ signals' = signals - 1
      BY <2>3 DEF Scheduled
    <3> QED
      BY <2>c, <2>e, <3>1, <3>2, ShapesDiffer DEF StopInv
  <2>4. ASSUME Decides PROVE TaskType' /\ StopInv'
    <3>1. UNCHANGED <<signals, scheduled, raised>> /\ scheduled = TRUE
      BY <2>4, <2>d, ShapesDiffer DEF Decides
    <3>2. \/ stopTask' = ReleaseAttempts /\ bound' = jog /\ jog # None
          \/ stopTask' = StopAttempts
      BY <2>4 DEF Decides, JogActive
    <3>3. Releasing \cap Halting = {}
      BY DEF Releasing, Halting
    <3> QED
      BY <2>c, <2>e, <3>1, <3>2, <3>3, ShapesDiffer DEF StopInv
  <2>5. ASSUME ReleaseWorks \/ HaltWorks \/ SlowsDown PROVE TaskType' /\ StopInv'
    <3>1. /\ UNCHANGED <<signals, scheduled, bound, raised>>
          /\ stopTask # <<>> /\ stopTask' \in {<<"slow">>, <<"done">>}
      BY <2>5 DEF ReleaseWorks, HaltWorks, SlowsDown, StopEnds, Attempting
    <3> QED
      BY <2>c, <2>d, <2>e, <3>1, ShapesDiffer DEF StopInv
  <2>6. ASSUME AttemptRaises PROVE TaskType' /\ StopInv'
    <3>1. UNCHANGED <<signals, scheduled, bound, raised>> /\ stopTask # <<>>
      BY <2>6 DEF AttemptRaises, Attempting
    <3>2. stopTask' \in StopTasks \ {<<>>} /\ (stopTask' \in Releasing => stopTask \in Releasing)
      <4>1. stopTask \in Releasing \cup Halting
        BY <2>6, TaskShapes DEF AttemptRaises, StopInv
      <4>2. CASE stopTask \in Releasing
        BY <2>6, <4>2, TaskShapes, ShapesDiffer DEF AttemptRaises, StopEnds, StopInv
      <4>3. CASE stopTask \in Halting
        <5>1. stopTask' = Tail(stopTask) /\ stopTask' \in StopTasks \ {<<>>}
          BY <2>6, <4>3, TaskShapes DEF AttemptRaises, StopInv
        <5>2. stopTask' \notin Releasing
          <6>1. CASE stopTask = <<"halt", "slow">>
            <7>1. Tail(<<"halt", "slow">>) = <<"slow">>
              OBVIOUS
            <7> QED
              BY ONLY <5>1, <6>1, <7>1, ShapesDiffer
          <6>2. CASE stopTask # <<"halt", "slow">>
            <7>1. Releasing \cap Halting = {}
              BY DEF Releasing, Halting
            <7> QED
              BY <4>3, <5>1, <6>2, <7>1, TaskShapes DEF StopInv
          <6> QED
            BY <6>1, <6>2
        <5> QED
          BY <5>1, <5>2
      <4> QED
        BY <4>1, <4>2, <4>3
    <3> QED
      BY <2>c, <2>d, <2>e, <3>1, <3>2 DEF StopInv
  <2>7. ASSUME FlagReset PROVE TaskType' /\ StopInv'
    <3>1. stopTask' = <<>> /\ scheduled' = FALSE /\ UNCHANGED <<signals, raised>>
      BY <2>7 DEF FlagReset
    <3>2. TaskType'
      BY Zenon, <3>1 DEF TaskType
    <3> QED
      BY <2>e, <3>1, <3>2, ShapesDiffer DEF StopInv
  <2>8. TaskType' /\ StopInv'
    BY ONLY <1>12, <2>3, <2>4, <2>5, <2>6, <2>7 DEF SafetyStop
  <2> QED
    BY <1>a, <1>b, <1>c, <2>0, <2>b, <2>1, <2>2, <2>8
<1>13. ASSUME NEW m \in {"move", "jog"}, MotionStarts(m) PROVE TypeInv'
  <2>1. MotionType' /\ CountType'
    BY <1>0, <1>13 DEF MotionStarts, Settled, MotionType, CountType, FacadeType, stopVars, callVars
  <2>2. GhostType'
    BY <1>0, <1>13 DEF MotionStarts, Settled, GhostType, callVars
  <2> QED
    BY <1>13, <1>a, <1>b, <1>c, <2>1, <2>2 DEF MotionStarts
<1>14. CASE MotionEnds
  BY <1>0, <1>14, <1>a, <1>b, <1>c DEF MotionEnds, Settled, MotionType, CountType, GhostType,
                                 stopVars, callVars
<1>15. CASE UNCHANGED vars
  BY <1>15, <1>a, <1>b, <1>c DEF vars, callVars, stopVars, motionVars
<1> QED
  BY <1>1, <1>2, <1>3, <1>4, <1>5, <1>6, <1>7, <1>8, <1>9, <1>10, <1>11,
     <1>12, <1>13, <1>14, <1>15 DEF Next, Step, Quiet

\* No variable of the life cycle leaves its type, and a poller belongs to a
\* session that was opened (drive.py:144-266, 374-455).
THEOREM TypeCorrect == Spec => []TypeOK
<1>1. TypeInv => TypeOK
  BY DEF TypeInv
<1> QED
  BY <1>1, TypeInit, TypeNext, PTL DEF Spec

-----------------------------------------------------------------------------
(* The reconnect stop. *)

\* A jog controller belongs to a jog, and what is owed a stop is a motion.
LEMMA MotionInvNext == TypeInv /\ MotionInv /\ [Next]_vars => MotionInv'
<1> SUFFICES ASSUME TypeInv, MotionInv, [Next]_vars PROVE MotionInv'
  OBVIOUS
<1> USE DEF MotionInv
<1>1. ASSUME UNCHANGED <<motion, jog, owed>> PROVE MotionInv'
  BY <1>1
<1>2. ASSUME owed' = FALSE, jog' # None <=> motion' = "jog" PROVE MotionInv'
  BY <1>2
<1>3. ASSUME NEW t \in Callers, JogCloses(t) PROVE MotionInv'
  BY <1>1, <1>2, <1>3 DEF JogCloses, JogActive, Settled
<1>4. ASSUME NEW s \in Sessions, Reconnects(s) PROVE MotionInv'
  BY <1>4 DEF Reconnects
<1>5. CASE ReleaseWorks
  <2>1. Attempting("release") /\ stopTask \in Releasing /\ bound # None
    BY <1>5, TaskShapes DEF ReleaseWorks, TypeInv, StopInv
  <2> QED
    BY <1>1, <1>2, <1>5, <2>1 DEF ReleaseWorks, Settled
<1>6. CASE HaltWorks
  BY <1>2, <1>6 DEF HaltWorks, Settled
<1>7. ASSUME NEW m \in {"move", "jog"}, MotionStarts(m) PROVE MotionInv'
  BY <1>2, <1>7 DEF MotionStarts, Settled
<1>8. CASE MotionEnds
  BY <1>2, <1>8 DEF MotionEnds, Settled
<1>9. CASE Scheduled \/ Decides \/ SlowsDown \/ AttemptRaises \/ FlagReset \/ UNCHANGED vars
  BY <1>1, <1>9 DEF Scheduled, Decides, SlowsDown, AttemptRaises, FlagReset, vars, motionVars
<1>10. ASSUME NEW t \in Callers,
              ConnectReturns(t) \/ CloseReturns(t) \/ CloseBegins(t) \/ ConnectFails(t)
              \/ TakeOver(t) \/ Validated(t) \/ PollerStopped(t) \/ SessionClosed(t)
       PROVE  MotionInv'
  BY <1>1, <1>10 DEF ConnectReturns, CloseReturns, CloseBegins, ConnectFails, TakeOver,
                     Validated, PollerStopped, SessionClosed, motionVars
<1>11. ASSUME NEW t \in Callers, NEW s \in Sessions, ConnectBegins(t, s) PROVE MotionInv'
  BY <1>1, <1>11 DEF ConnectBegins, motionVars
<1>12. ASSUME NEW s \in Sessions, Work(s) PROVE MotionInv'
  BY <1>1, <1>12 DEF Work, SocketOpens, SocketCloses, CallEnds, PollerEnds, motionVars
<1> QED
  BY <1>3, <1>4, <1>5, <1>6, <1>7, <1>8, <1>9, <1>10, <1>11, <1>12
     DEF Next, Step, SafetyStop, Quiet

\* Whenever a motion is owed a stop, the task that remains can still stop
\* it: the choice between release() and halt is made once, so a motion that
\* begins later is no longer owed anything (drive.py:399-455).
LEMMA StopIsOwedNext == TypeInv /\ MotionSafe /\ [Next]_vars => StopIsOwed'
<1> SUFFICES ASSUME TypeInv, MotionInv, StopIsOwed, [Next]_vars PROVE StopIsOwed'
  BY DEF MotionSafe
<1> USE DEF StopIsOwed
<1>0. stopTask \in StopTasks /\ signals \in Nat /\ (stopTask \in Releasing => bound # None)
  BY DEF TypeInv, TypeOK, StopInv
<1>1. ASSUME owed' = FALSE \/ (owed' = owed /\ (owed => excused' # "none")) PROVE StopIsOwed'
  BY <1>1
<1>2. ASSUME UNCHANGED <<owed, excused, signals, stopTask, jog, bound>> PROVE StopIsOwed'
  BY <1>2
<1>3. ASSUME NEW t \in Callers, JogCloses(t) PROVE StopIsOwed'
  BY <1>1, <1>2, <1>3 DEF JogCloses, JogActive, Settled, stopVars, MotionInv
<1>4. ASSUME NEW t \in Callers, PollerStopped(t) PROVE StopIsOwed'
  BY <1>1, <1>4 DEF PollerStopped, Excuse
<1>5. ASSUME NEW s \in Sessions, Reconnects(s) PROVE StopIsOwed'
  <2>1. CASE loop
    <3>1. signals' # 0
      BY <1>0, <1>5, <2>1 DEF Reconnects
    <3> QED
      BY <3>1
  <2>2. CASE ~loop
    <3>1. owed' => excused' = "closed"
      BY <1>5, <2>2 DEF Reconnects, MotionInv
    <3> QED
      BY <3>1
  <2> QED
    BY <2>1, <2>2
<1>6. CASE Scheduled
  <2>1. CASE stopTask = <<>>
    <3>1. ~scheduled
      BY <2>1 DEF TypeInv, TypeOK
    <3>2. stopTask' = <<"decide">>
      BY <1>6, <3>1 DEF Scheduled
    <3> QED
      BY <3>2
  <2>2. CASE stopTask # <<>>
    BY <1>1, <1>6, <2>2 DEF Scheduled, Excuse
  <2> QED
    BY <2>1, <2>2
<1>7. CASE Decides
  <2>1. \/ stopTask' \in Releasing /\ jog' = bound'
        \/ stopTask' \in Halting
    BY <1>7, ShapesDiffer DEF Decides, motionVars
  <2> QED
    BY <2>1
<1>8. CASE ReleaseWorks
  <2>1. stopTask \in Releasing
    BY <1>0, <1>8, TaskShapes DEF ReleaseWorks
  <2>2. CASE jog = bound
    BY <1>0, <1>1, <1>8, <2>1, <2>2 DEF ReleaseWorks, Settled, MotionInv
  <2>3. CASE jog # bound
    <3>1. owed' = owed /\ excused' = excused /\ signals' = signals
      BY <1>8, <2>3 DEF ReleaseWorks
    <3>2. stopTask # <<"decide">> /\ stopTask \notin Halting
      <4>1. Releasing \cap Halting = {}
        BY DEF Releasing, Halting
      <4> QED
        BY <2>1, <4>1, ShapesDiffer
    <3> QED
      BY <2>3, <3>1, <3>2
  <2> QED
    BY <2>2, <2>3
<1>9. CASE HaltWorks
  BY <1>1, <1>9 DEF HaltWorks, Settled
<1>10. CASE SlowsDown \/ FlagReset
  <2>1. stopTask # <<"decide">> /\ stopTask \notin Halting /\ stopTask \notin Releasing
    BY <1>0, <1>10, TaskShapes, ShapesDiffer DEF SlowsDown, FlagReset
  <2>2. UNCHANGED <<owed, excused, signals>>
    BY <1>10 DEF SlowsDown, FlagReset, motionVars
  <2> QED
    BY <2>1, <2>2
<1>11. CASE AttemptRaises
  <2>0. UNCHANGED <<owed, jog, bound, signals>>
    BY <1>11 DEF AttemptRaises
  <2>1. CASE ~CanAccess
    BY <1>1, <1>11, <2>1 DEF AttemptRaises, Excuse
  <2>2. CASE CanAccess /\ stopTask \in {<<"release">>, <<"halt", "slow">>}
    BY <1>1, <1>11, <2>2 DEF AttemptRaises, Excuse
  <2>3. CASE CanAccess /\ stopTask \notin {<<"release">>, <<"halt", "slow">>}
    <3>1. excused' = excused
      BY <1>11, <2>3 DEF AttemptRaises
    <3>2. Attempting("release") \/ Attempting("halt")
      BY <1>11 DEF AttemptRaises
    <3>3. CASE Attempting("release")
      <4>1. stopTask \in Releasing /\ Len(stopTask) > 1 /\ Tail(stopTask) \in Releasing
        BY <1>0, <2>3, <3>3, TaskShapes
      <4>2. stopTask' \in Releasing /\ jog = bound
        BY <1>11, <3>3, <4>1 DEF AttemptRaises
      <4> QED
        BY <2>0, <4>2
    <3>4. CASE Attempting("halt")
      <4>1. stopTask \in Halting /\ Len(stopTask) > 1 /\ Tail(stopTask) \in Halting
        BY <1>0, <2>3, <3>4, TaskShapes
      <4>2. stopTask' \in Halting
        BY <1>11, <4>1 DEF AttemptRaises
      <4> QED
        BY <4>2
    <3> QED
      BY <3>2, <3>3, <3>4
  <2> QED
    BY <2>1, <2>2, <2>3
<1>12. ASSUME NEW m \in {"move", "jog"}, MotionStarts(m) PROVE StopIsOwed'
  BY <1>1, <1>12 DEF MotionStarts, Settled
<1>13. CASE MotionEnds
  BY <1>1, <1>13 DEF MotionEnds, Settled
<1>14. CASE UNCHANGED vars
  BY <1>2, <1>14 DEF vars, stopVars, motionVars
<1>15. ASSUME NEW t \in Callers,
              ConnectReturns(t) \/ CloseReturns(t) \/ CloseBegins(t) \/ ConnectFails(t)
              \/ TakeOver(t) \/ Validated(t) \/ SessionClosed(t)
       PROVE  StopIsOwed'
  BY <1>2, <1>15 DEF ConnectReturns, CloseReturns, CloseBegins, ConnectFails, TakeOver,
                     Validated, SessionClosed, motionVars, stopVars
<1>16. ASSUME NEW t \in Callers, NEW s \in Sessions, ConnectBegins(t, s) PROVE StopIsOwed'
  BY <1>2, <1>16 DEF ConnectBegins, motionVars, stopVars
<1>17. ASSUME NEW s \in Sessions, Work(s) PROVE StopIsOwed'
  BY <1>2, <1>17 DEF Work, SocketOpens, SocketCloses, CallEnds, PollerEnds, motionVars, stopVars
<1> QED
  BY <1>3, <1>4, <1>5, <1>6, <1>7, <1>8, <1>9, <1>10, <1>11, <1>12, <1>13, <1>14,
     <1>15, <1>16, <1>17 DEF Next, Step, SafetyStop, Quiet

\* A motion that a reconnect has met is stopped, or is about to be, or has a
\* named excuse: for any number of reconnects, faults, jogs and closes, the
\* stop task never ends without having dealt with it (drive.py:374-455).
THEOREM ReconnectPromise == Spec => []ReconnectStops
<1>1. Init => TypeInv /\ MotionSafe
  <2> SUFFICES ASSUME Init PROVE MotionSafe
    BY TypeInit
  <2>1. owed = FALSE
    BY Zenon DEF Init
  <2>2. jog = None /\ motion = "none"
    BY DEF Init
  <2> QED
    BY <2>1, <2>2 DEF MotionSafe, MotionInv, StopIsOwed
<1>2. TypeInv /\ MotionSafe /\ [Next]_vars => (TypeInv /\ MotionSafe)'
  BY TypeNext, MotionInvNext, StopIsOwedNext DEF MotionSafe
<1>3. TypeInv /\ MotionSafe => ReconnectStops
  <2> SUFFICES ASSUME TypeInv, MotionSafe, owed, signals = 0, excused = "none"
               PROVE  stopTask # <<>>
    BY DEF ReconnectStops, TypeInv, TypeOK
  <2> QED
    BY ShapesDiffer DEF MotionSafe, StopIsOwed
<1> QED
  BY <1>1, <1>2, <1>3, PTL DEF Spec

-----------------------------------------------------------------------------
(* Sessions and pollers. *)

\* The steps that concern neither a session nor a caller.
LEMMA StopTouchesNoSession ==
  ASSUME SafetyStop \/ MotionEnds \/ (\E m \in {"move", "jog"} : MotionStarts(m))
         \/ UNCHANGED vars
  PROVE  UNCHANGED <<net, threadVars, callVars, facadeVars>>
BY DEF SafetyStop, Scheduled, Decides, ReleaseWorks, HaltWorks, SlowsDown, AttemptRaises,
       FlagReset, MotionEnds, MotionStarts, vars

\* A socket that opens or closes does so for a caller that waits for it.
LEMMA SocketsTendedNext == TypeInv /\ SocketsTended /\ [Next]_vars => SocketsTended'
<1> SUFFICES ASSUME TypeInv, SocketsTended, [Next]_vars PROVE SocketsTended'
  OBVIOUS
<1> USE DEF SocketsTended
<1>0. SessionType /\ PlaceType /\ FacadeType /\ CallerInv
  BY TypeParts DEF TypeInv
<1>1. ASSUME UNCHANGED <<net, late, pc, mine>> PROVE SocketsTended'
  BY <1>1
<1>2. ASSUME NEW t \in Callers, ConnectReturns(t) \/ CloseReturns(t) \/ CloseBegins(t)
                                \/ Validated(t) \/ JogCloses(t)
      PROVE  SocketsTended'
  <2>1. net' = net /\ late' = late /\ pc[t] \notin {"connects", "sessionCloses"}
    BY <1>2 DEF ConnectReturns, CloseReturns, CloseBegins, Validated, JogCloses, Calls, threadVars
  <2>2. \A u \in Callers : u # t => pc'[u] = pc[u] /\ mine'[u] = mine[u]
    BY <1>0, <1>2 DEF ConnectReturns, CloseReturns, CloseBegins, Validated,
                      JogCloses, TellPoller, GoesTo, Returns, PlaceType
  <2> QED
    BY <2>1, <2>2
<1>3. ASSUME NEW t \in Callers, NEW s \in Sessions, ConnectBegins(t, s) PROVE SocketsTended'
  <2>1. /\ pc[t] = "idle" /\ pc'[t] = "connects" /\ mine'[t] = s
        /\ \A u \in Callers : u # t => pc'[u] = pc[u] /\ mine'[u] = mine[u]
        /\ \A x \in Sessions : x # s => net'[x] = net[x]
        /\ net'[s] = "connecting" /\ late' = late
    BY <1>0, <1>3 DEF ConnectBegins, Calls, GoesTo, PlaceType, SessionType, threadVars
  <2> QED
    BY <2>1
<1>4. ASSUME NEW t \in Callers, ConnectFails(t) \/ TakeOver(t) \/ SessionClosed(t)
      PROVE  SocketsTended'
  <2>1. \A x \in Sessions :
          net'[x] \in {"connecting", "closing"} => net'[x] = net[x] /\ x # mine[t]
    <3>1. CASE ConnectFails(t)
      <4>1. net' = [net EXCEPT ![mine[t]] = "closed"]
        BY <3>1 DEF ConnectFails, DropSocket
      <4> QED
        BY <1>0, <4>1 DEF SessionType
    <3>2. CASE TakeOver(t)
      BY <3>2 DEF TakeOver
    <3>3. CASE SessionClosed(t)
      BY <3>3 DEF SessionClosed
    <3> QED
      BY <1>4, <3>1, <3>2, <3>3
  <2>2. \A u \in Callers : u # t => pc'[u] = pc[u] /\ mine'[u] = mine[u]
    BY <1>0, <1>4 DEF ConnectFails, TakeOver, SessionClosed, GoesTo, Returns, PlaceType
  <2>3. late' = late /\ (late # {} => pc[t] = "connects")
    BY <1>4 DEF ConnectFails, TakeOver, SessionClosed, threadVars
  <2> QED
    BY <2>1, <2>2, <2>3
<1>5. ASSUME NEW t \in Callers, PollerStopped(t) PROVE SocketsTended'
  <2>1. pc[t] = "pollerStops"
    BY <1>5 DEF PollerStopped
  <2>2. \A u \in Callers : u # t => pc'[u] = pc[u] /\ mine'[u] = mine[u]
    BY <1>0, <1>5 DEF PollerStopped, GoesTo, Returns, PlaceType
  <2>3. CASE session # None /\ executor
    <3>1. /\ net' = [net EXCEPT ![session] = "closing"]
          /\ pc'[t] = "sessionCloses" /\ mine'[t] = session
      BY <1>0, <1>5, <2>3 DEF PollerStopped, ClosesAmongCalls, GoesTo, PlaceType
    <3> QED
      BY <1>0, <2>1, <2>2, <3>1 DEF SessionType
  <2>4. CASE ~(session # None /\ executor)
    BY <1>5, <2>1, <2>2, <2>4 DEF PollerStopped
  <2> QED
    BY <2>3, <2>4
<1>6. ASSUME NEW s \in Sessions, Work(s) PROVE SocketsTended'
  BY <1>0, <1>6 DEF Work, SocketOpens, SocketCloses, CallEnds, PollerEnds, callVars, threadVars,
                    SessionType
<1>7. ASSUME UNCHANGED <<net, threadVars, callVars, facadeVars>> PROVE SocketsTended'
  BY <1>1, <1>7 DEF callVars, threadVars
<1>8. ASSUME NEW s \in Sessions, Reconnects(s) PROVE SocketsTended'
  <2>1. \A x \in Sessions : net'[x] \in {"connecting", "closing"} => net'[x] = net[x]
    BY <1>0, <1>8 DEF Reconnects, Reopens, SessionType
  <2>2. UNCHANGED <<late, pc, mine>>
    BY <1>8 DEF Reconnects, threadVars, callVars
  <2> QED
    BY <2>1, <2>2
<1> QED
  BY <1>2, <1>3, <1>4, <1>5, <1>6, <1>7, <1>8, StopTouchesNoSession DEF Next, Step, Quiet

\* A connect() never forgets that it raced.
LEMMA RacedStays == [Next]_vars /\ raced => raced'
<1> SUFFICES ASSUME [Next]_vars, raced PROVE raced'
  OBVIOUS
<1>1. ASSUME UNCHANGED callVars PROVE raced'
  BY <1>1 DEF callVars
<1>2. ASSUME NEW t \in Callers,
             ConnectReturns(t) \/ CloseReturns(t) \/ CloseBegins(t) \/ Step(t)
      PROVE  raced'
  BY <1>2 DEF ConnectReturns, CloseReturns, CloseBegins, Step, ConnectFails, TakeOver,
              Validated, JogCloses, PollerStopped, SessionClosed
<1>3. ASSUME NEW t \in Callers, NEW s \in Sessions, ConnectBegins(t, s) PROVE raced'
  BY <1>3 DEF ConnectBegins
<1>4. ASSUME NEW s \in Sessions, Work(s) PROVE raced'
  BY <1>1, <1>4 DEF Work, SocketOpens, SocketCloses, CallEnds, PollerEnds
<1>5. ASSUME NEW s \in Sessions, Reconnects(s) PROVE raced'
  BY <1>1, <1>5 DEF Reconnects
<1> QED
  BY <1>1, <1>2, <1>3, <1>4, <1>5, StopTouchesNoSession DEF Next, Quiet

\* A call that begins without racing, and a close() that meets no connect(),
\* keep the order of the calls.
LEMMA OrderlyBegins ==
  ASSUME TypeInv, SocketsTended, Orderly, ~raced', NEW t \in Callers,
         ConnectReturns(t) \/ CloseReturns(t) \/ CloseBegins(t)
         \/ (\E s \in Sessions : ConnectBegins(t, s))
  PROVE  Orderly'
<1>0. SessionType /\ PlaceType /\ FacadeType /\ GhostType
  BY TypeParts DEF TypeInv
<1> USE DEF Orderly
<1>1. ASSUME ConnectReturns(t) PROVE Orderly'
  <2>1. /\ pc[t] = "idle" /\ pc'[t] = "idle" /\ ended' = FALSE
        /\ \A u \in Callers : u # t => pc'[u] = pc[u] /\ mine'[u] = mine[u]
        /\ UNCHANGED <<net, polls, caught, session, poller, helpers, executor>>
    BY <1>0, <1>1 DEF ConnectReturns, Calls, Returns, PlaceType, threadVars
  <2>2. AloneConnecting' /\ ClosersAgree' /\ CloseIsFinal'
    BY <2>1 DEF AloneConnecting, ClosersAgree, CloseIsFinal, Connecting, Closing
  <2>3. NothingLeaks'
    <3>1. ~raced
      BY <1>1 DEF ConnectReturns
    <3> QED
      BY <2>1, <3>1 DEF NothingLeaks
  <2> QED
    BY <2>2, <2>3
<1>2. ASSUME NEW s \in Sessions, ConnectBegins(t, s) PROVE Orderly'
  <2>1. /\ pc[t] = "idle" /\ pc'[t] = "connects" /\ mine'[t] = s
        /\ \A u \in Callers : u # t => pc'[u] = pc[u] /\ mine'[u] = mine[u]
        /\ UNCHANGED <<polls, caught, session, poller, helpers, executor, ended>>
        /\ session = None /\ executor
        /\ net[s] = "new" /\ net'[s] = "connecting"
        /\ \A x \in Sessions : x # s => net'[x] = net[x]
    BY <1>0, <1>2 DEF ConnectBegins, Calls, GoesTo, PlaceType, SessionType, threadVars
  <2>2. ~raced /\ \A u \in Callers : u # t => ~Connecting(u) /\ ~Closing(u)
    BY <1>2 DEF ConnectBegins, OthersInside
  <2>3. AloneConnecting' /\ ClosersAgree' /\ CloseIsFinal'
    BY <2>1, <2>2 DEF AloneConnecting, ClosersAgree, CloseIsFinal, Connecting, Closing
  <2>4. NothingLeaks'
    BY <2>1, <2>2 DEF NothingLeaks
  <2> QED
    BY <2>3, <2>4
<1>3. ASSUME CloseReturns(t) PROVE Orderly'
  <2>1. /\ pc[t] = "idle" /\ pc'[t] = "idle" /\ session = None
        /\ \A u \in Callers : u # t => pc'[u] = pc[u] /\ mine'[u] = mine[u]
        /\ UNCHANGED <<net, polls, caught, session, poller, executor>> /\ helpers' = None
    BY <1>0, <1>3 DEF CloseReturns, Calls, Returns, PlaceType, threadVars
  <2>2. ~raced /\ \A u \in Callers : ~Connecting(u)
    BY <1>3 DEF CloseReturns
  <2>3. AloneConnecting' /\ ClosersAgree' /\ CloseIsFinal'
    BY <2>1, <2>2 DEF AloneConnecting, ClosersAgree, CloseIsFinal, Connecting, Closing
  <2>4. NothingLeaks'
    BY <2>1, <2>2 DEF NothingLeaks
  <2> QED
    BY <2>3, <2>4
<1>4. ASSUME CloseBegins(t) PROVE Orderly'
  <2>1. /\ pc[t] = "idle" /\ pc'[t] = "jogCloses" /\ ended' = ended
        /\ \A u \in Callers : u # t => pc'[u] = pc[u] /\ mine'[u] = mine[u]
        /\ UNCHANGED <<net, polls, caught, session, poller, helpers, executor>>
    BY <1>0, <1>4 DEF CloseBegins, Calls, GoesTo, PlaceType, facadeVars, threadVars
  <2>2. ~raced /\ \A u \in Callers : ~Connecting(u)
    BY <1>4 DEF CloseBegins
  <2>3. AloneConnecting' /\ ClosersAgree' /\ CloseIsFinal'
    BY <2>1, <2>2 DEF AloneConnecting, ClosersAgree, CloseIsFinal, Connecting, Closing
  <2>4. NothingLeaks'
    BY <2>1, <2>2 DEF NothingLeaks
  <2> QED
    BY <2>3, <2>4
<1> QED
  BY <1>1, <1>2, <1>3, <1>4

\* The connect() that is under way alone opens, keeps or drops its session.
LEMMA OrderlyConnect ==
  ASSUME TypeInv, SocketsTended, Orderly, ~raced, NEW t \in Callers,
         ConnectFails(t) \/ TakeOver(t) \/ Validated(t)
  PROVE  Orderly'
<1>0. SessionType /\ PlaceType /\ FacadeType /\ GhostType /\ CallerInv /\ PollerInv
  BY TypeParts DEF TypeInv
<1> USE DEF Orderly
<1>a. Connecting(t) /\ executor /\ \A u \in Callers : u # t => ~Connecting(u) /\ ~Closing(u)
  BY DEF ConnectFails, TakeOver, Validated, Connecting, AloneConnecting
<1>b. \A u \in Callers : u # t => pc'[u] = pc[u] /\ mine'[u] = mine[u]
  BY <1>0 DEF ConnectFails, TakeOver, Validated, GoesTo, Returns, PlaceType
<1>1. ASSUME ConnectFails(t) PROVE Orderly'
  <2>1. /\ pc[t] = "connects" /\ pc'[t] = "idle" /\ ended' = FALSE
        /\ UNCHANGED <<polls, caught, session, poller, executor>>
        /\ net[mine[t]] = "connecting" /\ net' = [net EXCEPT ![mine[t]] = "closed"]
    BY <1>0, <1>1 DEF ConnectFails, DropSocket, Returns, PlaceType, facadeVars, threadVars
  <2>2. AloneConnecting' /\ ClosersAgree' /\ CloseIsFinal'
    BY <1>a, <1>b, <2>1 DEF AloneConnecting, ClosersAgree, CloseIsFinal, Connecting, Closing
  <2>3. \A s \in Sessions : net'[s] = "open" => net[s] = "open" /\ s # mine[t]
    BY <1>0, <2>1 DEF SessionType
  <2>4. NothingLeaks'
    BY <1>b, <2>1, <2>3 DEF NothingLeaks
  <2> QED
    BY <2>2, <2>4
<1>2. ASSUME TakeOver(t) PROVE Orderly'
  <2>1. /\ pc[t] = "connects" /\ pc'[t] = "validates" /\ ended' = ended
        /\ session' = mine[t] /\ poller' = mine[t]
        /\ polls' = [polls EXCEPT ![mine[t]] = "runs"]
        /\ UNCHANGED <<net, caught, executor>>
    BY <1>0, <1>2 DEF TakeOver, GoesTo, PlaceType
  <2>2. session = None /\ poller = None
    BY <1>0, <1>a, <2>1 DEF AloneConnecting, PollerInv
  <2>3. AloneConnecting' /\ ClosersAgree' /\ CloseIsFinal'
    BY <1>a, <1>b, <2>1 DEF AloneConnecting, ClosersAgree, CloseIsFinal, Connecting, Closing
  <2>4. NothingLeaks'
    <3> SUFFICES ASSUME NEW s \in Sessions
                 PROVE  /\ net[s] = "open" /\ s \notin caught => mine[t] = s
                        /\ polls'[s] \in {"runs", "told"} => mine[t] = s
      BY <2>1 DEF NothingLeaks
    <3>1. net[s] = "open" /\ s \notin caught => \E u \in Callers : pc[u] = "connects" /\ mine[u] = s
      BY <2>2 DEF NothingLeaks, Sessions, None
    <3>2. net[s] = "open" /\ s \notin caught => mine[t] = s
      BY <1>a, <3>1 DEF Connecting
    <3>3. s # mine[t] => polls'[s] \notin {"runs", "told"}
      BY <1>0, <2>1, <2>2 DEF NothingLeaks, SessionType, Sessions, None
    <3> QED
      BY <3>2, <3>3
  <2> QED
    BY <2>3, <2>4
<1>3. ASSUME Validated(t) PROVE Orderly'
  <2>1. /\ pc[t] = "validates" /\ pc'[t] = "idle" /\ ended' = FALSE
        /\ UNCHANGED <<net, polls, caught, session, poller, helpers, executor>>
    BY <1>0, <1>3 DEF Validated, GoesTo, Returns, PlaceType, facadeVars, threadVars
  <2>2. AloneConnecting' /\ ClosersAgree' /\ CloseIsFinal'
    BY <1>a, <1>b, <2>1 DEF AloneConnecting, ClosersAgree, CloseIsFinal, Connecting, Closing
  <2>3. NothingLeaks'
    BY <1>b, <2>1 DEF NothingLeaks
  <2> QED
    BY <2>2, <2>3
<1> QED
  BY <1>1, <1>2, <1>3

\* However many closes overlap, each stops the poller it finds, and the one
\* that finds a session closes it (drive.py:238-266).
LEMMA OrderlyClose ==
  ASSUME TypeInv, SocketsTended, Orderly, ~raced, NEW t \in Callers,
         JogCloses(t) \/ PollerStopped(t) \/ SessionClosed(t)
  PROVE  Orderly'
<1>0. SessionType /\ PlaceType /\ FacadeType /\ GhostType /\ CallerInv /\ PollerInv
  BY TypeParts DEF TypeInv
<1> USE DEF Orderly
<1>a. Closing(t) /\ \A u \in Callers : ~Connecting(u)
  BY DEF JogCloses, PollerStopped, SessionClosed, Connecting, Closing, AloneConnecting
<1>b. \A u \in Callers : u # t => pc'[u] = pc[u] /\ mine'[u] = mine[u]
  BY <1>0 DEF JogCloses, TellPoller, PollerStopped, SessionClosed, GoesTo, Returns, PlaceType
<1>c. pc'[t] \in {"idle", "pollerStops", "sessionCloses"}
  BY <1>0 DEF JogCloses, TellPoller, PollerStopped, SessionClosed, GoesTo, Returns, PlaceType
<1>d. AloneConnecting' /\ \A u \in Callers : ~Connecting(u)'
  BY <1>a, <1>b, <1>c DEF AloneConnecting, Connecting, Closing
<1>1. ASSUME JogCloses(t) PROVE Orderly'
  <2>1. /\ pc[t] = "jogCloses" /\ pc'[t] = "pollerStops" /\ mine'[t] = poller /\ ended' = ended
        /\ polls' = [s \in Sessions |->
             IF s = poller /\ polls[s] = "runs" THEN "told" ELSE polls[s]]
        /\ UNCHANGED <<net, caught, session, poller, helpers, executor>>
    BY <1>0, <1>1 DEF JogCloses, TellPoller, GoesTo, PlaceType, facadeVars
  <2>2. ClosersAgree' /\ CloseIsFinal'
    BY <1>0, <1>a, <1>b, <1>d, <2>1 DEF ClosersAgree, CloseIsFinal, PollerInv
  <2>3. NothingLeaks'
    <3>1. \A s \in Sessions : polls'[s] \in {"runs", "told"} => polls[s] \in {"runs", "told"}
      BY <1>0, <2>1 DEF SessionType
    <3>2. \A s \in Sessions : net'[s] = "open" /\ s \notin caught' => session' = s
      BY <1>a, <2>1 DEF NothingLeaks, Connecting
    <3> QED
      BY <2>1, <3>1, <3>2 DEF NothingLeaks
  <2> QED
    BY <1>d, <2>2, <2>3
<1>2. ASSUME PollerStopped(t) PROVE Orderly'
  <2>1. /\ pc[t] = "pollerStops" /\ session' = None /\ poller' = None
        /\ mine[t] # None => polls[mine[t]] = "ended"
        /\ UNCHANGED <<polls, helpers, executor, ended>>
    BY <1>0, <1>2 DEF PollerStopped, Returns, GoesTo
  <2>2. session = None \/ session = mine[t]
    BY <2>1 DEF ClosersAgree
  <2>3. ClosersAgree' /\ CloseIsFinal'
    <3>1. \A u \in Callers : pc'[u] \in {"pollerStops", "sessionCloses"} => session' = None
      BY <2>1
    <3>2. ended' => (session' = None /\ helpers' = None) \/ \E u \in Callers : Connecting(u)'
      BY <1>a, <2>1 DEF CloseIsFinal
    <3> QED
      BY <2>1, <3>1, <3>2 DEF ClosersAgree, CloseIsFinal
  <2>4. \A s \in Sessions : polls[s] \notin {"runs", "told"}
    <3> SUFFICES ASSUME NEW s \in Sessions, polls[s] \in {"runs", "told"} PROVE FALSE
      OBVIOUS
    <3>1. session = s
      BY <1>0 DEF NothingLeaks, PollerInv
    <3> QED
      BY <2>1, <2>2, <3>1 DEF Sessions, None
  <2>5. \A s \in Sessions : net'[s] = "open" => s \in caught'
    <3> SUFFICES ASSUME NEW s \in Sessions, net'[s] = "open", s \notin caught' PROVE FALSE
      OBVIOUS
    <3>1. net[s] = "open" /\ s \notin caught
      BY <1>0, <1>2 DEF PollerStopped, ClosesAmongCalls, SessionType, FacadeType
    <3>2. session = s /\ session # None
      BY <1>a, <3>1 DEF NothingLeaks, Connecting, Sessions, None
    <3>3. executor
      BY <3>2 DEF ClosersAgree
    <3>4. net' = [net EXCEPT ![session] = "closing"]
      BY <1>2, <3>2, <3>3 DEF PollerStopped, ClosesAmongCalls
    <3> QED
      BY <1>0, <3>2, <3>4 DEF SessionType
  <2>6. NothingLeaks'
    BY <2>1, <2>4, <2>5 DEF NothingLeaks
  <2> QED
    BY <1>d, <2>3, <2>6
<1>3. ASSUME SessionClosed(t) PROVE Orderly'
  <2>1. /\ pc[t] = "sessionCloses" /\ pc'[t] = "idle" /\ helpers' = None
        /\ UNCHANGED <<net, polls, caught, session, poller>>
    BY <1>0, <1>3 DEF SessionClosed, Returns, PlaceType, threadVars
  <2>2. session = None
    BY <2>1 DEF ClosersAgree
  <2>3. ClosersAgree' /\ CloseIsFinal'
    BY <1>b, <2>1, <2>2 DEF ClosersAgree, CloseIsFinal
  <2>4. NothingLeaks'
    BY <1>a, <2>1 DEF NothingLeaks, Connecting
  <2> QED
    BY <1>d, <2>3, <2>4
<1> QED
  BY <1>1, <1>2, <1>3

\* A thread that opens or closes a socket, and a poller that ends, disturb
\* no call.
LEMMA OrderlyWork ==
  ASSUME TypeInv, SocketsTended, Orderly, ~raced, NEW s \in Sessions, Work(s)
  PROVE  Orderly'
<1>0. SessionType
  BY TypeParts DEF TypeInv
<1>1. UNCHANGED <<callVars, facadeVars>>
  BY DEF Work, SocketOpens, SocketCloses, CallEnds, PollerEnds
<1>2. AloneConnecting' /\ ClosersAgree' /\ CloseIsFinal'
  BY <1>1 DEF Orderly, AloneConnecting, ClosersAgree, CloseIsFinal, Connecting, Closing,
              callVars, facadeVars
<1>3. NothingLeaks'
  <2>1. \A x \in Sessions : polls'[x] \in {"runs", "told"} => polls[x] \in {"runs", "told"}
    BY <1>0 DEF Work, SocketOpens, SocketCloses, CallEnds, PollerEnds, SessionType, threadVars
  <2>2. \A x \in Sessions : net'[x] = "open" /\ x \notin caught' =>
                               net[x] \in {"open", "connecting"} /\ x \notin caught
    BY <1>0 DEF Work, SocketOpens, SocketCloses, CallEnds, PollerEnds, SessionType, threadVars
  <2> QED
    BY <1>1, <2>1, <2>2 DEF Orderly, NothingLeaks, SocketsTended, callVars, facadeVars
<1> QED
  BY <1>2, <1>3 DEF Orderly

\* A call that reconnects opens no socket but one that is open, or one that it
\* was under way to as that was closed.
LEMMA OrderlyReconnect ==
  ASSUME TypeInv, Orderly, ~raced, NEW s \in Sessions, Reconnects(s)
  PROVE  Orderly'
<1>0. SessionType
  BY TypeParts DEF TypeInv
<1>1. UNCHANGED <<polls, caught, callVars, facadeVars>>
  BY DEF Reconnects, threadVars
<1>2. AloneConnecting' /\ ClosersAgree' /\ CloseIsFinal'
  BY <1>1 DEF Orderly, AloneConnecting, ClosersAgree, CloseIsFinal, Connecting, Closing,
              callVars, facadeVars
<1>3. \A x \in Sessions : net'[x] = "open" /\ x \notin caught => net[x] = "open"
  BY <1>0 DEF Reconnects, Reopens, SessionType
<1>4. NothingLeaks'
  BY <1>1, <1>3 DEF Orderly, NothingLeaks, callVars, facadeVars
<1> QED
  BY <1>2, <1>4 DEF Orderly

\* The order of the calls holds as long as no connect() races.
LEMMA LifeNext == LifeInv /\ [Next]_vars => LifeInv'
<1> SUFFICES ASSUME TypeInv, SocketsTended, raced \/ Orderly, [Next]_vars
             PROVE  raced' \/ Orderly'
  BY TypeNext, SocketsTendedNext DEF LifeInv
<1> SUFFICES ASSUME ~raced', Orderly, ~raced PROVE Orderly'
  BY RacedStays
<1>1. ASSUME UNCHANGED <<net, threadVars, callVars, facadeVars>> PROVE Orderly'
  BY <1>1 DEF Orderly, AloneConnecting, ClosersAgree, CloseIsFinal, NothingLeaks, Connecting,
              Closing, callVars, facadeVars, threadVars
<1> QED
  BY <1>1, OrderlyBegins, OrderlyConnect, OrderlyClose, OrderlyWork, OrderlyReconnect, StopTouchesNoSession
     DEF Next, Step, Quiet

\* The life cycle starts in order.
LEMMA LifeInit == Init => LifeInv
<1> SUFFICES ASSUME Init PROVE SocketsTended /\ Orderly
  BY TypeInit DEF LifeInv
<1>1. ended = FALSE
  BY Zenon DEF Init
<1> QED
  BY <1>1 DEF Init, SocketsTended, Orderly, AloneConnecting, ClosersAgree, CloseIsFinal,
              NothingLeaks, Connecting, Closing

\* The invariant of the life cycle holds throughout.
LEMMA LifeInvariant == Spec => []LifeInv
BY LifeInit, LifeNext, PTL DEF Spec

\* No socket and no poller is lost, however closes overlap with each other, with the
\* threads and with failing accesses, for any number of callers: besides a connect()
\* that races, only a call that a close met under way leaves a session open
\* (drive.py:144-222, 246-263, session.py:165-170).
THEOREM NoSessionLeaks == Spec => []NothingLeaks
<1>1. LifeInv => NothingLeaks
  BY DEF LifeInv, Orderly, NothingLeaks
<1> QED
  BY <1>1, LifeInvariant, PTL

\* After a last close() no poller, no helper and no call is left, and no session is
\* open that a call under way has not opened again: the invariant says who tends
\* each socket, and after the calls there is nobody left (drive.py:238-266,
\* session.py:165-170).
THEOREM CloseLeavesNothing == Spec => []CloseReleasesAll
<1>1. LifeInv => CloseReleasesAll
  <2> SUFFICES ASSUME LifeInv, ended, ~raced, \A t \in Callers : pc[t] = "idle"
               PROVE  /\ session = None /\ poller = None /\ helpers = None
                      /\ \A s \in Sessions : /\ net[s] \in {"new", "closed"} \/ s \in caught
                                             /\ polls[s] \in {"none", "ended"}
                      /\ late = {}
    BY DEF CloseReleasesAll
  <2>1. SessionType /\ PollerInv /\ SocketsTended /\ NothingLeaks /\ CloseIsFinal
    BY TypeParts DEF LifeInv, TypeInv, Orderly
  <2>2. session = None /\ helpers = None /\ poller = None
    BY <2>1 DEF CloseIsFinal, Connecting, PollerInv
  <2>3. ASSUME NEW s \in Sessions
        PROVE  /\ net[s] \in {"new", "closed"} \/ s \in caught
               /\ polls[s] \in {"none", "ended"}
    BY <2>1, <2>2 DEF SessionType, SocketsTended, NothingLeaks, Sessions, None
  <2>4. late = {}
    BY <2>1 DEF SocketsTended
  <2> QED
    BY <2>2, <2>3, <2>4
<1> QED
  BY <1>1, LifeInvariant, PTL

=============================================================================
