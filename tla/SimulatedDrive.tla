--------------------------- MODULE SimulatedDrive ---------------------------
(***************************************************************************)
(* The drive as simulator.py builds it (class FakeDriveState): the effect   *)
(* of a controlword, the statusword, and one turn of the motion engine, as  *)
(* operators on a drive record.  Words are sets of bits.  Positions are the *)
(* soft limit range 0..MaxPos; a turn of the engine covers any distance.    *)
(* What the simulator does not do - a fault that comes up, and a drive that *)
(* obeys "disable voltage" - is marked as external.                         *)
(***************************************************************************)
EXTENDS Integers

CONSTANTS
  MaxPos,        \* the upper soft limit, the lower one is 0
  ObeysDisable   \* the drive switches off on controlword 0, as the D1 does

ASSUME DriveAssumption == MaxPos \in Nat /\ ObeysDisable \in BOOLEAN

DriveStates == {"disabled", "ready", "switchedOn", "enabled", "fault", "quickStop"}
Modes == {0, 1, 3, 6}

DriveRecord ==
  [state : DriveStates, fault : BOOLEAN, emergency : BOOLEAN, mode : Modes,
   tv : Int, target : Int, goal : 0..MaxPos, pos : 0..MaxPos,
   motion : {"none", "pv", "pp", "homing"},
   moving : BOOLEAN, reached : BOOLEAN, ack : BOOLEAN, homed : BOOLEAN, bit4 : BOOLEAN]

\* FakeDriveState.__init__
FreshDrive ==
  [state |-> "disabled", fault |-> FALSE, emergency |-> FALSE, mode |-> 0,
   tv |-> 0, target |-> 0, goal |-> 0, pos |-> 0, motion |-> "none",
   moving |-> FALSE, reached |-> TRUE, ack |-> FALSE, homed |-> FALSE, bit4 |-> FALSE]

-----------------------------------------------------------------------------
(* Controlwords. *)

SwitchOnWord == {"switchOn", "voltage", "quickStop"}
ShutdownWord == {"voltage", "quickStop"}
EnableWord == SwitchOnWord \cup {"enable"}
QuickStopWord == EnableWord \ {"quickStop"}
ResetWord == {"reset"}
DisableWord == {}
Halted(cw) == cw \cup {"halt"}

HoldBits == EnableWord

Clamp(p) == IF p < 0 THEN 0 ELSE IF p > MaxPos THEN MaxPos ELSE p

\* _stop_all_motion_locked()
AtRest(d) ==
  [d EXCEPT !.motion = "none", !.tv = 0, !.moving = FALSE, !.ack = FALSE]

\* A rising edge of bit 4 in Operation Enabled.
StartMotion(d, cw) ==
  CASE d.mode = 6 -> [d EXCEPT !.motion = "homing", !.homed = FALSE,
                               !.moving = TRUE, !.reached = FALSE]
    [] d.mode = 1 -> [d EXCEPT !.motion = "pp", !.moving = TRUE, !.reached = FALSE,
                               !.ack = TRUE,
                               !.goal = Clamp(IF "relative" \in cw THEN d.pos + d.target
                                              ELSE d.target)]
    [] d.mode = 3 -> IF d.tv # 0
                     THEN [d EXCEPT !.motion = "pv", !.reached = FALSE]
                     ELSE [d EXCEPT !.motion = IF @ = "pv" THEN "none" ELSE @,
                                    !.moving = FALSE, !.reached = TRUE]
    [] OTHER -> d

\* The state a controlword asks for, the three masks being nested.
AskedState(d, cw) ==
  IF HoldBits \subseteq cw THEN "enabled"
  ELSE IF SwitchOnWord \subseteq cw THEN "switchedOn"
  ELSE IF ShutdownWord \subseteq cw THEN "ready"
  ELSE IF cw = DisableWord /\ ObeysDisable THEN "disabled" ELSE d.state

IsQuickStop(cw) ==
  \/ {"switchOn", "voltage"} \subseteq cw /\ "quickStop" \notin cw
  \/ cw \cap HoldBits = {"voltage"}

\* _apply_controlword(): the order of the early returns matters.
Apply(last, cw) ==
  LET rising == "new" \in cw /\ ~last.bit4
      d == [last EXCEPT !.bit4 = "new" \in cw,
                        !.ack = @ /\ ~(last.bit4 /\ "new" \notin cw)]
      asked == [d EXCEPT !.state = AskedState(d, cw)]
  IN  CASE "reset" \in cw ->
             [AtRest(d) EXCEPT !.fault = FALSE, !.state = "disabled", !.reached = TRUE]
        [] "reset" \notin cw /\ d.emergency -> AtRest(d)
        [] "reset" \notin cw /\ ~d.emergency /\ "halt" \in cw ->
             [AtRest(d) EXCEPT !.reached = TRUE]
        [] cw \cap {"reset", "halt"} = {} /\ ~d.emergency ->
             IF IsQuickStop(cw) /\ d.state \in {"enabled", "quickStop"}
             THEN [AtRest(d) EXCEPT !.reached = TRUE, !.state = "ready"]
             ELSE IF d.fault THEN [d EXCEPT !.state = "fault"]
             ELSE IF rising /\ asked.state = "enabled" THEN StartMotion(asked, cw)
             ELSE asked

-----------------------------------------------------------------------------
(* The statusword. *)

\* make_statusword(); remote is DI7, which the simulator holds high.
Status(d, remote) ==
     (CASE d.state = "disabled" -> {"disabled"}
        [] d.state = "ready" -> {"ready", "quickStop"}
        [] d.state = "switchedOn" -> {"ready", "switchedOn", "quickStop"}
        [] d.state = "enabled" -> {"ready", "switchedOn", "enabled", "quickStop"}
        [] d.state = "fault" -> {"fault", "disabled"}
        [] d.state = "quickStop" -> {"ready", "switchedOn"})
  \cup (IF d.fault THEN {"fault"} ELSE {})
  \cup (IF remote THEN {"remote"} ELSE {})
  \cup (IF d.reached /\ ~d.moving THEN {"reached"} ELSE {})
  \cup (IF (d.mode = 6 /\ d.homed) \/ (d.mode = 1 /\ d.ack) THEN {"bit12"} ELSE {})

\* infer_cia402_state()
Infer(sw) ==
  LET low == sw \cap {"ready", "switchedOn", "enabled"}
      off == "disabled" \in sw
  IN  IF "fault" \in sw
      THEN IF low = {"ready", "switchedOn", "enabled"} THEN "REACTION" ELSE "FAULT"
      ELSE CASE low = {} -> IF off THEN "DISABLED" ELSE "NOT_READY"
             [] low = {"ready"} /\ ~off -> "READY"
             [] low = {"ready", "switchedOn"} /\ ~off -> "SWITCHED_ON"
             [] low = {"ready", "switchedOn", "enabled"} /\ ~off ->
                  IF "quickStop" \in sw THEN "ENABLED" ELSE "QUICK_STOP"
             [] OTHER -> "UNKNOWN"

InferredStates == {"REACTION", "FAULT", "DISABLED", "NOT_READY", "READY", "SWITCHED_ON",
                   "ENABLED", "QUICK_STOP", "UNKNOWN"}

-----------------------------------------------------------------------------
(* The motion engine. *)

Between(a, b) == {p \in 0..MaxPos : (a <= p /\ p <= b) \/ (b <= p /\ p <= a)}

Resting(d) == [d EXCEPT !.moving = FALSE, !.reached = TRUE]

\* One turn of the loop in _start_engine().
EngineTurns(d) ==
  IF d.emergency \/ d.state # "enabled"
  THEN {[Resting(d) EXCEPT !.motion = "none", !.tv = 0]}
  ELSE CASE d.motion = "homing" /\ d.mode = 6 ->
              {[Resting(d) EXCEPT !.pos = 0, !.homed = TRUE, !.motion = "none"]}
              \cup {[d EXCEPT !.pos = p, !.moving = d.pos # 0, !.reached = FALSE] :
                     p \in Between(d.pos, 0)}
         [] d.motion = "pp" /\ d.mode = 1 ->
              {IF p = d.goal THEN [Resting(d) EXCEPT !.pos = p, !.motion = "none"]
               ELSE [d EXCEPT !.pos = p, !.moving = TRUE, !.reached = FALSE] :
                 p \in (Between(d.pos, d.goal) \ {d.pos}) \cup ({d.goal} \cap {d.pos})}
         [] d.motion = "pv" /\ d.mode = 3 ->
              {[d EXCEPT !.pos = p, !.moving = d.tv # 0, !.reached = d.tv = 0] :
                 p \in IF d.tv = 0 THEN {d.pos}
                       ELSE Between(d.pos, IF d.tv > 0 THEN MaxPos ELSE 0)}
         [] OTHER -> {Resting(d)}
=============================================================================
