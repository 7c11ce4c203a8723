------------------------ MODULE SimulatedDriveProofs ------------------------
(***************************************************************************)
(* What a controlword and a turn of the motion engine do to a drive, for   *)
(* any drive record: the facts the proofs about its users keep needing.    *)
(***************************************************************************)
EXTENDS SimulatedDrive, TLAPS

USE DriveAssumption

-----------------------------------------------------------------------------
(* Types. *)

\* A controlword leaves a drive a drive.
LEMMA TvType ==
  ASSUME NEW d \in DriveRecord, NEW v \in Int
  PROVE  [d EXCEPT !.tv = v] \in DriveRecord
BY DEF DriveRecord

\* A drive whose motion ends is a drive.
LEMMA StillType ==
  ASSUME NEW d \in DriveRecord
  PROVE  [d EXCEPT !.motion = "none", !.tv = 0] \in DriveRecord
<1> DEFINE c == [d EXCEPT !.motion = "none"]
<1>1. c \in DriveRecord
  BY DEF DriveRecord
<1>2. [d EXCEPT !.motion = "none", !.tv = 0] = [c EXCEPT !.tv = 0]
  OBVIOUS
<1> HIDE DEF c
<1>3. [c EXCEPT !.tv = 0] \in DriveRecord
  BY <1>1 DEF DriveRecord
<1> QED BY <1>2, <1>3

\* So is one whose motion has been stopped, or that the engine finds at rest.
LEMMA RestType ==
  ASSUME NEW d \in DriveRecord
  PROVE  /\ AtRest(d) \in DriveRecord
         /\ Resting(d) \in DriveRecord
<1>1. AtRest(d) \in DriveRecord
  <2>1. [d EXCEPT !.motion = "none", !.tv = 0] \in DriveRecord
    BY StillType
  <2>2. \A e \in DriveRecord : [e EXCEPT !.moving = FALSE, !.ack = FALSE] \in DriveRecord
    BY DEF DriveRecord
  <2>3. AtRest(d) = [[d EXCEPT !.motion = "none", !.tv = 0]
                       EXCEPT !.moving = FALSE, !.ack = FALSE]
    BY DEF AtRest
  <2> QED BY <2>1, <2>2, <2>3
<1>2. Resting(d) \in DriveRecord
  BY DEF Resting, DriveRecord
<1> QED BY <1>1, <1>2

\* A position is kept inside the soft limits.
LEMMA ClampType == ASSUME NEW p \in Int PROVE Clamp(p) \in 0..MaxPos
BY DEF Clamp

\* A drive whose motion starts is a drive with its goal inside the limits.
LEMMA StartType ==
  ASSUME NEW d \in DriveRecord, NEW cw
  PROVE  StartMotion(d, cw) \in DriveRecord
<1> DEFINE aim == IF "relative" \in cw THEN d.pos + d.target ELSE d.target
<1>1. aim \in Int
  BY DEF DriveRecord
<1>2. Clamp(aim) \in 0..MaxPos
  BY <1>1, ClampType
<1> HIDE DEF aim
<1>3. [d EXCEPT !.motion = "pp", !.moving = TRUE, !.reached = FALSE, !.ack = TRUE,
                !.goal = Clamp(aim)] \in DriveRecord
  BY <1>2 DEF DriveRecord
<1>4. CASE d.mode = 1
  BY <1>3, <1>4 DEF StartMotion, aim
<1>5. CASE d.mode # 1
  BY <1>5 DEF StartMotion, DriveRecord
<1> QED BY <1>4, <1>5

\* A controlword asks for a state of the drive.
LEMMA AskedType ==
  ASSUME NEW d \in DriveRecord, NEW cw
  PROVE  AskedState(d, cw) \in DriveStates
BY DEF AskedState, DriveRecord, DriveStates

\* The drive once the edges of bit 4 are taken, and with the state asked for.
Edged(d, cw) == [d EXCEPT !.bit4 = "new" \in cw, !.ack = @ /\ ~(d.bit4 /\ "new" \notin cw)]
Asked(d, cw) == [Edged(d, cw) EXCEPT !.state = AskedState(Edged(d, cw), cw)]

\* Both are drives.
LEMMA EdgedType ==
  ASSUME NEW d \in DriveRecord, NEW cw
  PROVE  Edged(d, cw) \in DriveRecord /\ Asked(d, cw) \in DriveRecord
<1> DEFINE edge == "new" \in cw
           held == d.ack /\ ~(d.bit4 /\ "new" \notin cw)
<1>1. edge \in BOOLEAN /\ held \in BOOLEAN
  OBVIOUS
<1>2. Edged(d, cw) = [d EXCEPT !.bit4 = edge, !.ack = held]
  BY DEF DriveRecord, Edged
<1> HIDE DEF edge, held
<1>3. Edged(d, cw) \in DriveRecord
  BY <1>1, <1>2 DEF DriveRecord
<1> QED
  BY <1>3, AskedType DEF DriveRecord, Asked

\* The ends of _apply_controlword(), in their order (simulator.py).
LEMMA ApplyCases ==
  ASSUME NEW d \in DriveRecord, NEW cw
  PROVE  LET e == Edged(d, cw)
         IN  \/ "reset" \in cw /\ Apply(d, cw)
                  = [AtRest(e) EXCEPT !.fault = FALSE, !.state = "disabled", !.reached = TRUE]
             \/ "reset" \notin cw /\ e.emergency /\ Apply(d, cw) = AtRest(e)
             \/ "reset" \notin cw /\ "halt" \in cw /\ Apply(d, cw) = [AtRest(e) EXCEPT !.reached = TRUE]
             \/ /\ "reset" \notin cw /\ "halt" \notin cw /\ IsQuickStop(cw)
                /\ Apply(d, cw) = [AtRest(e) EXCEPT !.reached = TRUE, !.state = "ready"]
             \/ /\ "reset" \notin cw /\ "halt" \notin cw
                /\ e.fault /\ Apply(d, cw) = [e EXCEPT !.state = "fault"]
             \/ /\ "reset" \notin cw /\ "halt" \notin cw
                /\ "new" \in cw /\ ~d.bit4 /\ ~e.fault /\ Apply(d, cw) = StartMotion(Asked(d, cw), cw)
             \/ /\ "reset" \notin cw /\ "halt" \notin cw
                /\ ~("new" \in cw /\ ~d.bit4 /\ Asked(d, cw).state = "enabled") /\ ~e.fault
                /\ Apply(d, cw) = Asked(d, cw)
<1> DEFINE e == Edged(d, cw)
           asked == Asked(d, cw)
           rising == "new" \in cw /\ ~d.bit4
<1>1. Apply(d, cw)
        = CASE "reset" \in cw ->
                 [AtRest(e) EXCEPT !.fault = FALSE, !.state = "disabled", !.reached = TRUE]
            [] "reset" \notin cw /\ e.emergency -> AtRest(e)
            [] "reset" \notin cw /\ ~e.emergency /\ "halt" \in cw ->
                 [AtRest(e) EXCEPT !.reached = TRUE]
            [] cw \cap {"reset", "halt"} = {} /\ ~e.emergency ->
                 IF IsQuickStop(cw) /\ e.state \in {"enabled", "quickStop"}
                 THEN [AtRest(e) EXCEPT !.reached = TRUE, !.state = "ready"]
                 ELSE IF e.fault THEN [e EXCEPT !.state = "fault"]
                 ELSE IF rising /\ asked.state = "enabled" THEN StartMotion(asked, cw)
                 ELSE asked
  BY Zenon DEF Apply, Edged, Asked
<1> HIDE DEF e, asked
<1>2. CASE "reset" \in cw
  BY <1>1, <1>2, Zenon DEF e
<1>3. CASE "reset" \notin cw /\ e.emergency
  BY <1>1, <1>3, Zenon DEF e
<1>4. CASE "reset" \notin cw /\ ~e.emergency /\ "halt" \in cw
  BY <1>1, <1>4, Zenon DEF e
<1>5. CASE "reset" \notin cw /\ ~e.emergency /\ "halt" \notin cw
  <2>1. Apply(d, cw)
          = IF IsQuickStop(cw) /\ e.state \in {"enabled", "quickStop"}
            THEN [AtRest(e) EXCEPT !.reached = TRUE, !.state = "ready"]
            ELSE IF e.fault THEN [e EXCEPT !.state = "fault"]
            ELSE IF rising /\ asked.state = "enabled" THEN StartMotion(asked, cw)
            ELSE asked
    BY <1>1, <1>5
  <2> QED
    BY <1>5, <2>1, Zenon DEF e, asked
<1> QED
  BY <1>2, <1>3, <1>4, <1>5

\* A controlword leaves a drive a drive (simulator.py, _apply_controlword).
LEMMA ApplyType ==
  ASSUME NEW d \in DriveRecord, NEW cw
  PROVE  Apply(d, cw) \in DriveRecord
<1> DEFINE e == Edged(d, cw)
<1>1. e \in DriveRecord /\ Asked(d, cw) \in DriveRecord
  BY EdgedType
<1> HIDE DEF e
<1>2. StartMotion(Asked(d, cw), cw) \in DriveRecord
  BY <1>1, StartType
<1>3. AtRest(e) \in DriveRecord
  BY <1>1, RestType
<1>4. /\ [AtRest(e) EXCEPT !.fault = FALSE, !.state = "disabled", !.reached = TRUE] \in DriveRecord
      /\ [AtRest(e) EXCEPT !.reached = TRUE] \in DriveRecord
      /\ [AtRest(e) EXCEPT !.reached = TRUE, !.state = "ready"] \in DriveRecord
      /\ [e EXCEPT !.state = "fault"] \in DriveRecord
  BY <1>1, <1>3 DEF DriveRecord, DriveStates
<1> QED
  BY <1>1, <1>2, <1>3, <1>4, ApplyCases, Zenon DEF e

\* So does a turn of the motion engine.
LEMMA TurnType ==
  ASSUME NEW d \in DriveRecord, NEW e \in EngineTurns(d)
  PROVE  e \in DriveRecord
<1>1. d.pos \in 0..MaxPos /\ d.goal \in 0..MaxPos
  BY DEF DriveRecord
<1>2. Resting(d) \in DriveRecord
  BY RestType
<1>3. \A p \in 0..MaxPos, b, c \in BOOLEAN :
        [d EXCEPT !.pos = p, !.moving = b, !.reached = c] \in DriveRecord
  BY DEF DriveRecord
<1>4. \A p \in 0..MaxPos, b \in BOOLEAN :
        [Resting(d) EXCEPT !.pos = p, !.homed = b, !.motion = "none"] \in DriveRecord
  BY <1>2 DEF DriveRecord
<1>5. \A p \in 0..MaxPos : [Resting(d) EXCEPT !.pos = p, !.motion = "none"] \in DriveRecord
  BY <1>2 DEF DriveRecord
<1>6. \A a, b : Between(a, b) \subseteq 0..MaxPos
  BY DEF Between
<1>7. CASE d.emergency \/ d.state # "enabled"
  <2>1. e = [Resting(d) EXCEPT !.motion = "none", !.tv = 0]
    BY <1>7 DEF EngineTurns
  <2> QED BY <2>1, <1>2, StillType
<1>8. CASE ~(d.emergency \/ d.state # "enabled")
  <2>1. CASE d.motion = "homing" /\ d.mode = 6
    <3>1. \/ e = [Resting(d) EXCEPT !.pos = 0, !.homed = TRUE, !.motion = "none"]
          \/ \E p \in Between(d.pos, 0) :
               e = [d EXCEPT !.pos = p, !.moving = d.pos # 0, !.reached = FALSE]
      BY <1>8, <2>1 DEF EngineTurns
    <3>2. 0 \in 0..MaxPos /\ (d.pos # 0) \in BOOLEAN
      OBVIOUS
    <3>3. CASE e = [Resting(d) EXCEPT !.pos = 0, !.homed = TRUE, !.motion = "none"]
      BY <1>4, <3>2, <3>3, Zenon
    <3>4. CASE \E p \in Between(d.pos, 0) :
                 e = [d EXCEPT !.pos = p, !.moving = d.pos # 0, !.reached = FALSE]
      <4> PICK p \in Between(d.pos, 0) :
            e = [d EXCEPT !.pos = p, !.moving = d.pos # 0, !.reached = FALSE]
        BY <3>4
      <4>1. p \in 0..MaxPos
        BY <1>6
      <4> QED BY <1>3, <3>2, <4>1, Zenon
    <3> QED BY <3>1, <3>3, <3>4
  <2>2. CASE d.motion = "pp" /\ d.mode = 1
    <3>1. PICK p \in (Between(d.pos, d.goal) \ {d.pos}) \cup ({d.goal} \cap {d.pos}) :
            e = IF p = d.goal THEN [Resting(d) EXCEPT !.pos = p, !.motion = "none"]
                ELSE [d EXCEPT !.pos = p, !.moving = TRUE, !.reached = FALSE]
      BY <1>8, <2>2 DEF EngineTurns
    <3>2. p \in 0..MaxPos
      BY <1>1, <1>6
    <3> QED BY <3>1, <3>2, <1>3, <1>5, Zenon
  <2>3. CASE d.motion = "pv" /\ d.mode = 3
    <3>1. PICK p \in IF d.tv = 0 THEN {d.pos}
                     ELSE Between(d.pos, IF d.tv > 0 THEN MaxPos ELSE 0) :
            e = [d EXCEPT !.pos = p, !.moving = d.tv # 0, !.reached = d.tv = 0]
      BY <1>8, <2>3 DEF EngineTurns
    <3>2. p \in 0..MaxPos /\ (d.tv # 0) \in BOOLEAN /\ (d.tv = 0) \in BOOLEAN
      BY <1>1, <1>6
    <3> QED BY <3>1, <3>2, <1>3, Zenon
  <2>4. CASE ~(\/ d.motion = "homing" /\ d.mode = 6
               \/ d.motion = "pp" /\ d.mode = 1
               \/ d.motion = "pv" /\ d.mode = 3)
    <3>1. e = Resting(d)
      BY <1>8, <2>4 DEF EngineTurns
    <3> QED BY <3>1, <1>2
  <2> QED BY <2>1, <2>2, <2>3, <2>4
<1> QED BY <1>7, <1>8

-----------------------------------------------------------------------------
(* Effects. *)

\* Which fields a start of motion leaves alone, and that the homed flag falls.
LEMMA StartEffect ==
  ASSUME NEW d \in DriveRecord, NEW cw
  PROVE  LET a == StartMotion(d, cw)
         IN  /\ a.mode = d.mode /\ a.target = d.target /\ a.pos = d.pos
             /\ a.emergency = d.emergency /\ a.fault = d.fault /\ a.bit4 = d.bit4
             /\ a.homed => d.homed
             /\ d.mode = 6 => ~a.homed
<1> DEFINE aim == Clamp(IF "relative" \in cw THEN d.pos + d.target ELSE d.target)
<1>1. CASE d.mode = 6
  <2>1. StartMotion(d, cw) = [d EXCEPT !.motion = "homing", !.homed = FALSE,
                                       !.moving = TRUE, !.reached = FALSE]
    BY <1>1 DEF StartMotion
  <2> QED
    BY <1>1, <2>1 DEF DriveRecord
<1>2. CASE d.mode = 1
  <2>1. StartMotion(d, cw) = [d EXCEPT !.motion = "pp", !.moving = TRUE, !.reached = FALSE,
                                       !.ack = TRUE, !.goal = aim]
    BY <1>2 DEF StartMotion
  <2> HIDE DEF aim
  <2> QED
    BY <1>2, <2>1 DEF DriveRecord
<1>3. CASE d.mode = 3
  BY <1>3 DEF StartMotion, DriveRecord
<1>4. CASE d.mode \notin {1, 3, 6}
  BY <1>4 DEF StartMotion
<1> QED
  BY <1>1, <1>2, <1>3, <1>4

\* What a controlword does to the flags: bit 4 is as written, the mode and the
\* target stay, only a reset clears a fault, only a rising edge without a fault
\* starts a position motion, and a halt ends every motion.
LEMMA ApplyEffect ==
  ASSUME NEW d \in DriveRecord, NEW cw
  PROVE  LET a == Apply(d, cw)
         IN  /\ a.mode = d.mode /\ a.target = d.target /\ a.pos = d.pos
             /\ a.emergency = d.emergency
             /\ a.bit4 <=> "new" \in cw
             /\ a.fault => d.fault
             /\ "reset" \notin cw => (a.fault <=> d.fault)
             /\ a.homed => d.homed
             /\ a.motion = "pp" => d.motion = "pp" \/ ("new" \in cw /\ ~d.bit4 /\ ~d.fault)
             /\ "halt" \in cw => a.motion = "none"
<1> DEFINE e == Edged(d, cw)
           asked == Asked(d, cw)
           a == Apply(d, cw)
<1>1. e \in DriveRecord /\ asked \in DriveRecord
  BY EdgedType
<1>2. /\ e.mode = d.mode /\ e.target = d.target /\ e.pos = d.pos /\ e.emergency = d.emergency
      /\ e.fault = d.fault /\ e.homed = d.homed /\ e.motion = d.motion
      /\ e.bit4 <=> "new" \in cw
  BY DEF Edged, DriveRecord
<1>3. /\ asked.mode = e.mode /\ asked.target = e.target /\ asked.pos = e.pos
      /\ asked.emergency = e.emergency /\ asked.fault = e.fault /\ asked.homed = e.homed
      /\ asked.motion = e.motion /\ asked.bit4 = e.bit4
  BY <1>1 DEF Asked, DriveRecord
<1>4. StartMotion(asked, cw) \in DriveRecord /\ AtRest(e) \in DriveRecord
  BY <1>1, StartType, RestType
<1>5. /\ AtRest(e).mode = e.mode /\ AtRest(e).target = e.target /\ AtRest(e).pos = e.pos
      /\ AtRest(e).emergency = e.emergency /\ AtRest(e).fault = e.fault
      /\ AtRest(e).homed = e.homed /\ AtRest(e).bit4 = e.bit4 /\ AtRest(e).motion = "none"
  BY <1>1 DEF AtRest, DriveRecord
<1>6. \/ "reset" \in cw
          /\ a = [AtRest(e) EXCEPT !.fault = FALSE, !.state = "disabled", !.reached = TRUE]
      \/ "reset" \notin cw /\ a = AtRest(e)
      \/ "reset" \notin cw /\ a = [AtRest(e) EXCEPT !.reached = TRUE]
      \/ "reset" \notin cw /\ a = [AtRest(e) EXCEPT !.reached = TRUE, !.state = "ready"]
      \/ "reset" \notin cw /\ "halt" \notin cw /\ a = [e EXCEPT !.state = "fault"]
      \/ /\ "reset" \notin cw /\ "halt" \notin cw /\ "new" \in cw /\ ~d.bit4 /\ ~e.fault
         /\ a = StartMotion(asked, cw)
      \/ "reset" \notin cw /\ "halt" \notin cw /\ a = asked
  BY ApplyCases, Zenon
<1> HIDE DEF e, asked, a
<1>7. CASE a \in {AtRest(e), [AtRest(e) EXCEPT !.reached = TRUE],
                  [AtRest(e) EXCEPT !.reached = TRUE, !.state = "ready"]} /\ "reset" \notin cw
  <2>1. /\ a.mode = d.mode /\ a.target = d.target /\ a.pos = d.pos
        /\ a.emergency = d.emergency /\ a.fault = d.fault /\ a.homed = d.homed
        /\ a.motion = "none" /\ (a.bit4 <=> "new" \in cw)
    BY <1>2, <1>4, <1>5, <1>7 DEF DriveRecord
  <2> QED
    BY <1>7, <2>1 DEF a
<1>8. CASE /\ "reset" \in cw
           /\ a = [AtRest(e) EXCEPT !.fault = FALSE, !.state = "disabled", !.reached = TRUE]
  <2>1. /\ a.mode = d.mode /\ a.target = d.target /\ a.pos = d.pos
        /\ a.emergency = d.emergency /\ ~a.fault /\ a.homed = d.homed
        /\ a.motion = "none" /\ (a.bit4 <=> "new" \in cw)
    BY <1>2, <1>4, <1>5, <1>8 DEF DriveRecord
  <2> QED
    BY <1>8, <2>1 DEF a
<1>9. CASE "reset" \notin cw /\ "halt" \notin cw /\ a \in {[e EXCEPT !.state = "fault"], asked}
  <2>1. /\ a.mode = d.mode /\ a.target = d.target /\ a.pos = d.pos
        /\ a.emergency = d.emergency /\ a.fault = d.fault /\ a.homed = d.homed
        /\ a.motion = d.motion /\ (a.bit4 <=> "new" \in cw)
    BY <1>1, <1>2, <1>3, <1>9 DEF DriveRecord
  <2> QED
    BY <1>9, <2>1 DEF a
<1>10. CASE /\ "reset" \notin cw /\ "halt" \notin cw /\ "new" \in cw /\ ~d.bit4 /\ ~e.fault
            /\ a = StartMotion(asked, cw)
  <2>1. /\ a.mode = d.mode /\ a.target = d.target /\ a.pos = d.pos
        /\ a.emergency = d.emergency /\ a.fault = d.fault /\ (a.homed => d.homed)
        /\ ~d.fault /\ (a.bit4 <=> "new" \in cw)
    BY <1>1, <1>2, <1>3, <1>10, StartEffect DEF DriveRecord
  <2> QED
    BY <1>10, <2>1 DEF a
<1> QED
  BY <1>6, <1>7, <1>8, <1>9, <1>10

\* A start bit that rises on an enabled drive in homing mode, with no fault and
\* no emergency, drops the homed flag.
LEMMA StartsHoming ==
  ASSUME NEW d \in DriveRecord, ~d.bit4, ~d.fault, ~d.emergency, d.mode = 6
  PROVE  ~Apply(d, EnableWord \cup {"new"}).homed
<1> DEFINE cw == EnableWord \cup {"new"}
           e == Edged(d, cw)
           asked == Asked(d, cw)
<1>1. /\ "new" \in cw /\ "reset" \notin cw /\ "halt" \notin cw /\ ~IsQuickStop(cw)
      /\ AskedState(e, cw) = "enabled"
  BY DEF EnableWord, SwitchOnWord, IsQuickStop, AskedState, HoldBits
<1>2. e \in DriveRecord /\ asked \in DriveRecord
  BY EdgedType
<1>3. ~e.fault /\ ~e.emergency /\ e.mode = 6
  BY DEF Edged, DriveRecord
<1>4. asked.mode = 6 /\ asked.state = "enabled"
  BY <1>1, <1>2, <1>3 DEF Asked, DriveRecord
<1> HIDE DEF cw, e, asked
<1>5. Apply(d, cw) = StartMotion(asked, cw)
  BY <1>1, <1>3, <1>4, ApplyCases, Zenon DEF e, asked
<1>6. ~StartMotion(asked, cw).homed
  BY <1>2, <1>4, StartEffect
<1> QED
  BY <1>5, <1>6 DEF cw

\* A turn of the engine leaves modes, targets, faults and bit 4 alone, and
\* starts no position motion.
LEMMA TurnEffect ==
  ASSUME NEW d \in DriveRecord, NEW e \in EngineTurns(d)
  PROVE  /\ e.mode = d.mode /\ e.target = d.target /\ e.emergency = d.emergency
         /\ e.fault = d.fault /\ e.bit4 = d.bit4
         /\ e.motion = "pp" => d.motion = "pp"
<1> DEFINE Kept(x) == /\ x.mode = d.mode /\ x.target = d.target /\ x.emergency = d.emergency
                      /\ x.fault = d.fault /\ x.bit4 = d.bit4
                      /\ x.motion = "pp" => d.motion = "pp"
<1>1. Kept(Resting(d))
  BY DEF Resting, DriveRecord
<1>2. Kept([Resting(d) EXCEPT !.motion = "none", !.tv = 0])
  BY DEF Resting, DriveRecord
<1>3. \A p, b, c : Kept([d EXCEPT !.pos = p, !.moving = b, !.reached = c])
  BY DEF DriveRecord
<1>4. \A p, b : Kept([Resting(d) EXCEPT !.pos = p, !.homed = b, !.motion = "none"])
  BY DEF Resting, DriveRecord
<1>5. \A p : Kept([Resting(d) EXCEPT !.pos = p, !.motion = "none"])
  BY DEF Resting, DriveRecord
<1> HIDE DEF Kept
<1>6. Kept(e)
  <2>1. CASE d.emergency \/ d.state # "enabled"
    BY <1>2, <2>1 DEF EngineTurns
  <2>2. CASE ~(d.emergency \/ d.state # "enabled") /\ d.motion = "homing" /\ d.mode = 6
    <3>1. \/ e = [Resting(d) EXCEPT !.pos = 0, !.homed = TRUE, !.motion = "none"]
          \/ \E p \in Between(d.pos, 0) :
               e = [d EXCEPT !.pos = p, !.moving = d.pos # 0, !.reached = FALSE]
      BY <2>2 DEF EngineTurns
    <3>2. CASE e = [Resting(d) EXCEPT !.pos = 0, !.homed = TRUE, !.motion = "none"]
      BY <1>4, <3>2, Zenon
    <3>3. CASE \E p \in Between(d.pos, 0) :
                 e = [d EXCEPT !.pos = p, !.moving = d.pos # 0, !.reached = FALSE]
      <4>1. PICK p : e = [d EXCEPT !.pos = p, !.moving = (d.pos # 0), !.reached = FALSE]
        BY <3>3
      <4> DEFINE b == (d.pos # 0)
      <4>2. e = [d EXCEPT !.pos = p, !.moving = b, !.reached = FALSE]
        BY <4>1
      <4> HIDE DEF b
      <4> QED
        BY <1>3, <4>2
    <3> QED
      BY <3>1, <3>2, <3>3
  <2>3. CASE ~(d.emergency \/ d.state # "enabled") /\ d.motion = "pp" /\ d.mode = 1
    <3>1. PICK p : e = IF p = d.goal THEN [Resting(d) EXCEPT !.pos = p, !.motion = "none"]
                       ELSE [d EXCEPT !.pos = p, !.moving = TRUE, !.reached = FALSE]
      BY <2>3 DEF EngineTurns
    <3> QED
      BY <1>3, <1>5, <3>1, Zenon
  <2>4. CASE ~(d.emergency \/ d.state # "enabled") /\ d.motion = "pv" /\ d.mode = 3
    <3>1. PICK p : e = [d EXCEPT !.pos = p, !.moving = d.tv # 0, !.reached = d.tv = 0]
      BY <2>4 DEF EngineTurns
    <3> QED
      BY <1>3, <3>1, Zenon
  <2>5. CASE /\ ~(d.emergency \/ d.state # "enabled")
             /\ ~(\/ d.motion = "homing" /\ d.mode = 6
                  \/ d.motion = "pp" /\ d.mode = 1
                  \/ d.motion = "pv" /\ d.mode = 3)
    <3>1. e = Resting(d)
      BY <2>5 DEF EngineTurns
    <3> QED
      BY <1>1, <3>1
  <2> QED
    BY <2>1, <2>2, <2>3, <2>4, <2>5
<1> QED
  BY <1>6 DEF Kept

\* A controlword without the start bit starts nothing: a motion goes on as it was,
\* or is over.
LEMMA PlainEffect ==
  ASSUME NEW d \in DriveRecord, NEW cw, "new" \notin cw
  PROVE  LET a == Apply(d, cw)
         IN  /\ a.homed = d.homed /\ a.goal = d.goal
             /\ (a.motion = d.motion /\ a.reached = d.reached) \/ a.motion = "none"
<1> DEFINE e == Edged(d, cw)
           asked == Asked(d, cw)
           a == Apply(d, cw)
<1>1. e \in DriveRecord /\ asked \in DriveRecord /\ AtRest(e) \in DriveRecord
  BY EdgedType, RestType
<1>2. e.homed = d.homed /\ e.goal = d.goal /\ e.motion = d.motion /\ e.reached = d.reached
  BY DEF Edged, DriveRecord
<1>3. /\ asked.homed = e.homed /\ asked.goal = e.goal /\ asked.motion = e.motion
      /\ asked.reached = e.reached
  BY <1>1 DEF Asked, DriveRecord
<1>4. AtRest(e).homed = e.homed /\ AtRest(e).goal = e.goal /\ AtRest(e).motion = "none"
  BY <1>1 DEF AtRest, DriveRecord
<1>5. \/ a = [AtRest(e) EXCEPT !.fault = FALSE, !.state = "disabled", !.reached = TRUE]
      \/ a = AtRest(e)
      \/ a = [AtRest(e) EXCEPT !.reached = TRUE]
      \/ a = [AtRest(e) EXCEPT !.reached = TRUE, !.state = "ready"]
      \/ a = [e EXCEPT !.state = "fault"]
      \/ a = asked
  BY ApplyCases, Zenon
<1> HIDE DEF e, asked, a
<1>6. CASE a \in {AtRest(e), [AtRest(e) EXCEPT !.reached = TRUE],
                  [AtRest(e) EXCEPT !.reached = TRUE, !.state = "ready"],
                  [AtRest(e) EXCEPT !.fault = FALSE, !.state = "disabled", !.reached = TRUE]}
  <2>1. a.homed = d.homed /\ a.goal = d.goal /\ a.motion = "none"
    BY <1>1, <1>2, <1>4, <1>6 DEF DriveRecord
  <2> QED BY <2>1 DEF a
<1>7. CASE a \in {[e EXCEPT !.state = "fault"], asked}
  <2>1. a.homed = d.homed /\ a.goal = d.goal /\ a.motion = d.motion /\ a.reached = d.reached
    BY <1>1, <1>2, <1>3, <1>7 DEF DriveRecord
  <2> QED BY <2>1 DEF a
<1> QED BY <1>5, <1>6, <1>7

\* A start bit that rises on a drive with no fault and no emergency starts the
\* motion of its mode, and "target reached" falls.
LEMMA StartsMoving ==
  ASSUME NEW d \in DriveRecord, ~d.bit4, ~d.fault, ~d.emergency
  PROVE  LET a == Apply(d, EnableWord \cup {"new"})
         IN  /\ d.mode = 1 => a.motion = "pp" /\ ~a.reached /\ a.goal = Clamp(d.target)
             /\ d.mode = 6 => a.motion = "homing" /\ ~a.reached /\ ~a.homed
<1> DEFINE cw == EnableWord \cup {"new"}
           e == Edged(d, cw)
           asked == Asked(d, cw)
<1>1. /\ "new" \in cw /\ "reset" \notin cw /\ "halt" \notin cw /\ ~IsQuickStop(cw)
      /\ AskedState(e, cw) = "enabled" /\ "relative" \notin cw
  BY DEF EnableWord, SwitchOnWord, IsQuickStop, AskedState, HoldBits
<1>2. e \in DriveRecord /\ asked \in DriveRecord
  BY EdgedType
<1>3. ~e.fault /\ ~e.emergency /\ e.mode = d.mode /\ e.target = d.target
  BY DEF Edged, DriveRecord
<1>4. asked.mode = d.mode /\ asked.state = "enabled" /\ asked.target = d.target
  BY <1>1, <1>2, <1>3 DEF Asked, DriveRecord
<1> HIDE DEF cw, e, asked
<1>5. Apply(d, cw) = StartMotion(asked, cw)
  BY <1>1, <1>3, <1>4, ApplyCases, Zenon DEF e, asked
<1>6. CASE d.mode = 1
  <2> DEFINE aim == Clamp(d.target)
  <2>1. StartMotion(asked, cw) = [asked EXCEPT !.motion = "pp", !.moving = TRUE, !.reached = FALSE,
                                               !.ack = TRUE, !.goal = aim]
    BY <1>1, <1>4, <1>6 DEF StartMotion
  <2> HIDE DEF aim
  <2>2. /\ Apply(d, cw).motion = "pp" /\ ~Apply(d, cw).reached /\ Apply(d, cw).goal = aim
    BY <1>2, <1>5, <2>1 DEF DriveRecord
  <2> QED BY <1>6, <2>2 DEF aim, cw
<1>7. CASE d.mode = 6
  <2>1. StartMotion(asked, cw) = [asked EXCEPT !.motion = "homing", !.homed = FALSE,
                                               !.moving = TRUE, !.reached = FALSE]
    BY <1>4, <1>7 DEF StartMotion
  <2>2. Apply(d, cw).motion = "homing" /\ ~Apply(d, cw).reached /\ ~Apply(d, cw).homed
    BY <1>2, <1>5, <2>1 DEF DriveRecord
  <2> QED BY <1>7, <2>2 DEF cw
<1> QED BY <1>6, <1>7

\* What a turn of the engine makes of a motion: a drive at rest stays where it is,
\* a position motion approaches its goal with "target reached" down, a homing
\* keeps the homed flag down, or the motion is over.
LEMMA TurnMotion ==
  ASSUME NEW d \in DriveRecord, NEW e \in EngineTurns(d)
  PROVE  /\ e.ack = d.ack
         /\ d.motion = "none" => e.motion = "none" /\ e.pos = d.pos
         /\ d.motion = "pp" /\ d.mode = 1 =>
              /\ e.goal = d.goal
              /\ \/ e.motion = "none"
                 \/ e.motion = "pp" /\ ~e.reached /\ e.pos \in Between(d.pos, d.goal)
         /\ d.motion = "homing" /\ d.mode = 6 =>
              e.motion = "none" \/ (e.motion = "homing" /\ ~e.reached /\ e.homed = d.homed)
<1>1. /\ Resting(d).ack = d.ack /\ Resting(d).motion = d.motion /\ Resting(d).pos = d.pos
      /\ Resting(d).goal = d.goal /\ Resting(d) \in DriveRecord
  BY RestType DEF Resting, DriveRecord
<1>2. CASE d.emergency \/ d.state # "enabled"
  <2>1. e = [Resting(d) EXCEPT !.motion = "none", !.tv = 0]
    BY <1>2 DEF EngineTurns
  <2> QED BY <1>1, <2>1 DEF DriveRecord
<1>3. CASE ~(d.emergency \/ d.state # "enabled") /\ d.motion = "homing" /\ d.mode = 6
  <2>1. \/ e = [Resting(d) EXCEPT !.pos = 0, !.homed = TRUE, !.motion = "none"]
        \/ \E p \in Between(d.pos, 0) :
             e = [d EXCEPT !.pos = p, !.moving = d.pos # 0, !.reached = FALSE]
    BY <1>3 DEF EngineTurns
  <2>2. CASE e = [Resting(d) EXCEPT !.pos = 0, !.homed = TRUE, !.motion = "none"]
    BY <1>1, <1>3, <2>2 DEF DriveRecord
  <2>3. CASE \E p \in Between(d.pos, 0) :
               e = [d EXCEPT !.pos = p, !.moving = d.pos # 0, !.reached = FALSE]
    <3>1. PICK p : e = [d EXCEPT !.pos = p, !.moving = (d.pos # 0), !.reached = FALSE]
      BY <2>3
    <3> DEFINE b == (d.pos # 0)
    <3>2. e = [d EXCEPT !.pos = p, !.moving = b, !.reached = FALSE]
      BY <3>1
    <3> HIDE DEF b
    <3> QED BY <1>3, <3>2 DEF DriveRecord
  <2> QED BY <2>1, <2>2, <2>3
<1>4. CASE ~(d.emergency \/ d.state # "enabled") /\ d.motion = "pp" /\ d.mode = 1
  <2>1. PICK p \in (Between(d.pos, d.goal) \ {d.pos}) \cup ({d.goal} \cap {d.pos}) :
          e = IF p = d.goal THEN [Resting(d) EXCEPT !.pos = p, !.motion = "none"]
              ELSE [d EXCEPT !.pos = p, !.moving = TRUE, !.reached = FALSE]
    BY <1>4 DEF EngineTurns
  <2>2. CASE p = d.goal
    BY <1>1, <1>4, <2>1, <2>2 DEF DriveRecord
  <2>3. CASE p # d.goal
    <3>1. e = [d EXCEPT !.pos = p, !.moving = TRUE, !.reached = FALSE] /\ p \in Between(d.pos, d.goal)
      BY <2>1, <2>3
    <3> QED BY <1>4, <3>1 DEF DriveRecord
  <2> QED BY <2>2, <2>3
<1>5. CASE ~(d.emergency \/ d.state # "enabled") /\ d.motion = "pv" /\ d.mode = 3
  <2>1. PICK p : e = [d EXCEPT !.pos = p, !.moving = d.tv # 0, !.reached = d.tv = 0]
    BY <1>5 DEF EngineTurns
  <2> DEFINE b == (d.tv # 0)
             c == (d.tv = 0)
  <2>2. e = [d EXCEPT !.pos = p, !.moving = b, !.reached = c]
    BY <2>1
  <2> HIDE DEF b, c
  <2> QED BY <1>5, <2>2 DEF DriveRecord
<1>6. CASE /\ ~(d.emergency \/ d.state # "enabled")
           /\ ~(d.motion = "homing" /\ d.mode = 6) /\ ~(d.motion = "pp" /\ d.mode = 1)
           /\ ~(d.motion = "pv" /\ d.mode = 3)
  <2>1. e = Resting(d)
    BY <1>6 DEF EngineTurns
  <2> QED BY <1>1, <1>6, <2>1
<1> QED BY <1>2, <1>3, <1>4, <1>5, <1>6
=============================================================================
