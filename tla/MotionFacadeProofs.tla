------------------------- MODULE MotionFacadeProofs -------------------------
(***************************************************************************)
(* Safety of MotionFacade for any number of callers and calls, any targets *)
(* and limits, and any number of raising accesses and faults of the drive. *)
(***************************************************************************)
EXTENDS MotionFacade, SimulatedDriveProofs, SequenceTheorems

USE FacadeAssumption, DriveAssumption

-----------------------------------------------------------------------------
(* The accesses an operation can have left. *)

Accesses ==
  {"prepare", "modeOn", "modeOff", "climb", "status", "unhalt", "look", "homed",
   "modePP", "verify", "profile", "target", "barrier", "set", "ack", "clear", "wait", "position",
   "ready", "readyNow", "modeHM", "done", "halt", "slow", "slowHalt", "slowQuick",
   "boundary", "zero", "modePV", "velocity"}

\* In what is left of operation o, access b comes right after access a.
Follows(o, a, b) ==
  \/ /\ o = "move"
     /\ \/ a = "zero" /\ b \in {"modeOn", "modeOff"}
        \/ a = "modePP" /\ b \in {"climb", "status"}
        \/ a = "climb" /\ b = "status"
        \/ a = "status" /\ b = "unhalt"
        \/ a = "unhalt" /\ b = "look"
        \/ a = "look" /\ b = "homed"
  \/ /\ o = "pp"
     /\ \/ a = "modePP" /\ b = "verify"
        \/ a = "verify" /\ b = "profile"
        \/ a = "profile" /\ b = "target"
        \/ a = "target" /\ b = "barrier"
        \/ a = "barrier" /\ b = "set"
        \/ a = "set" /\ b = "ack"
        \/ a = "clear" /\ b = "wait"
  \/ /\ o = "home"
     /\ \/ a = "climb" /\ b = "readyNow"
        \/ a = "modeHM" /\ b = "barrier"
        \/ a = "barrier" /\ b = "set"
        \/ a = "set" /\ b = "clear"
        \/ a = "clear" /\ b = "done"
  \/ o = "stop" /\ a = "halt" /\ b \in {"halt", "slow"}
  \/ /\ o = "jog"
     /\ \/ a = "climb" /\ b = "unhalt"
        \/ a = "unhalt" /\ b = "zero"
        \/ a = "zero" /\ b = "modePV"
        \/ a = "modePV" /\ b = "velocity"
        \/ a = "velocity" /\ b = "set"
        \/ a = "set" /\ b = "clear"

\* Access a can be the last one left of operation o.
MayBeLast(o, a) ==
  \/ o = "move" /\ a \in {"prepare", "modeOn", "modeOff", "homed"}
  \/ o = "pp" /\ a \in {"ack", "clear", "wait", "position"}
  \/ o = "home" /\ a \in {"ready", "readyNow", "done"}
  \/ o = "stop" /\ a \in {"slow", "slowHalt", "zero", "slowQuick"}
  \/ o = "jog" /\ a \in {"boundary", "ready", "clear"}
  \/ o = "jogStop" /\ a = "zero"

ScriptOf(o, s) ==
  /\ s # <<>>
  /\ \A i \in 1..(Len(s) - 1) : Follows(o, s[i], s[i + 1])
  /\ MayBeLast(o, s[Len(s)])

-----------------------------------------------------------------------------
(* The inductive invariant. *)

\* The drive is a drive with its target inside the limits; nothing raises its
\* emergency input.
DriveType == drive \in DriveRecord /\ drive.target \in 0..MaxPos /\ ~drive.emergency

Results == {"none", "failed", "aborted", "reached", "attained", "stopped", "jogging", "released"}

CallerType ==
  /\ op \in [Callers -> MotionOps \cup {"idle", "stop"}]
  /\ todo \in [Callers -> Seq(Accesses)]
  /\ goal \in [Callers -> Targets \cup {0}]
  /\ result \in [Callers -> Results]
  /\ saved \in [Callers -> Callers \cup {None}]

ScriptInv ==
  \A t \in Callers : IF op[t] = "idle" THEN todo[t] = <<>> ELSE ScriptOf(op[t], todo[t])

OtherType ==
  /\ stale \in BOOLEAN /\ abort \in BOOLEAN /\ jogging \in BOOLEAN /\ timer \in BOOLEAN
  /\ orphan \in BOOLEAN /\ stuck \in BOOLEAN /\ overlapped \in BOOLEAN /\ idleDue \in BOOLEAN
  /\ shutdown \in {"none", "looks", "writes"}
  /\ profile \in Callers \cup {None} /\ cfg \in Callers \cup {None}
  /\ mover \in Callers \cup {None}
  /\ calls \in 0..MaxCalls /\ faults \in 0..MaxFaults /\ upsets \in 0..MaxUpsets
  /\ homedIn \subseteq Callers /\ unpulsed \subseteq Callers /\ halted \subseteq Callers
  /\ late \subseteq [by : Callers \cup {None}, act : Writes, goal : Targets \cup {0}]
  /\ resent \subseteq Callers

\* A target is checked before the first read that is followed by a motion, so the
\* targets that come late are inside the limits too.
Checked(t) == op[t] = "pp" \/ (op[t] = "move" /\ (At(t, "look") \/ At(t, "homed")))
AimInv ==
  /\ \A t \in Callers : Checked(t) => WithinLimits(goal[t])
  /\ \A w \in late : w.act = "target" => WithinLimits(w.goal)

TypeInv == DriveType /\ CallerType /\ ScriptInv /\ OtherType /\ AimInv

\* Motion commands that do not overlap are made one at a time.
Alone ==
  overlapped \/ \A t, u \in Callers : op[t] \in MotionOps /\ op[u] \in MotionOps => t = u

\* A move clears bit 4 before its handshake: its set-point is a rising edge, unless
\* a failed attempt of it has already been executed.
BeforePulse(t) ==
  \/ op[t] = "move" /\ (At(t, "look") \/ At(t, "homed"))
  \/ op[t] = "pp" /\ \E a \in {"modePP", "verify", "profile", "target", "barrier", "set"} : At(t, a)

EdgeIsReady ==
  overlapped \/ \A t \in Callers :
    BeforePulse(t) /\ drive.bit4 => At(t, "set") /\ (mover = t \/ drive.fault)

\* The drive follows the set-point of the move that has written one, or is in
\* fault and has ignored it.
OwnSetPoint == overlapped \/ \A t \in Callers : Started(t) => mover = t \/ drive.fault

\* A move has written its set-point and will not write it again, unless the
\* session has sent it more than once.
Fired(t) == op[t] # "move" /\ (op[t] = "pp" => Started(t) \/ t \in resent)

\* So has one the drive follows, and one that met a HALT; a call that has just begun
\* is followed by nothing and has met none.
MoverFired == \A t \in Callers : mover = t => Fired(t)
HaltedFired == \A t \in halted : Fired(t)

\* The values of the move under way are in the configuration, what it stashed is
\* the configured one, and after the profile is written the drive has them.
Configured(t) ==
  \E a \in {"target", "barrier", "set", "ack", "clear", "wait", "position"} : At(t, a)

ConfigInv ==
  overlapped \/
    /\ (\A t \in Callers : op[t] # "pp") => cfg = None
    /\ \A t \in Callers : op[t] = "pp" =>
         cfg = t /\ saved[t] = None /\ (Configured(t) => profile = t)

\* Once home() has written the mode, the drive is in it; once it has written the
\* start bit, the homed flag is down until the axis homes.
InHoming(t) == op[t] = "home" /\ \E a \in {"barrier", "set", "clear", "done"} : At(t, a)
Homes(t) == op[t] = "home" /\ \E a \in {"clear", "done"} : At(t, a)

\* The start bit of the home() of t has been executed, whether or not it was answered.
Pulsed(t) == Homes(t) \/ (op[t] = "home" /\ mover = t)

HomingInv ==
  overlapped \/
    \A t \in Callers :
      /\ InHoming(t) => drive.mode = 6
      /\ Pulsed(t) => t \in homedIn \cup unpulsed \/ ~drive.homed

\* Of the writes that may come late a call has only such as it has already made.
OwnLate(t, a) ==
  /\ op[t] = "move" => a # "set"
  /\ op[t] = "pp" /\ a = "set" => t \in resent /\ (Started(t) \/ At(t, "set"))
  /\ op[t] = "home" => a \notin {"modePP", "modePV"} /\ (a = "set" => InHoming(t))

LateInv == \A w \in late : \A t \in Callers : w.by = t => OwnLate(t, w.act)

\* No idle shutdown is on its way while a move is.
MovesUndisturbed ==
  overlapped \/ \A t \in Callers : op[t] \in {"move", "pp"} => ~timer /\ shutdown = "none"

MotionInv ==
  /\ TypeInv /\ Alone /\ EdgeIsReady /\ OwnSetPoint /\ MoverFired /\ HaltedFired /\ ConfigInv
  /\ HomingInv /\ LateInv /\ MovesUndisturbed
  /\ SetPointReleased /\ HaltIsFinal /\ IdleFollowsMotion

-----------------------------------------------------------------------------
(* Lemmas about scripts. *)

\* What is left after the first access of a script is a script, and the first
\* access is one of its operation.
LEMMA ScriptTail ==
  ASSUME NEW o, NEW s \in Seq(Accesses), ScriptOf(o, s)
  PROVE  /\ Len(s) >= 1
         /\ Len(s) = 1 => MayBeLast(o, Head(s))
         /\ Len(s) > 1 => /\ Tail(s) \in Seq(Accesses) /\ ScriptOf(o, Tail(s))
                          /\ Follows(o, Head(s), Head(Tail(s)))
<1>1. Len(s) \in Nat /\ Len(s) >= 1 /\ Head(s) = s[1]
  BY DEF ScriptOf
<1>2. ASSUME Len(s) > 1
      PROVE  /\ Tail(s) \in Seq(Accesses) /\ ScriptOf(o, Tail(s))
             /\ Follows(o, Head(s), Head(Tail(s)))
  <2>1. /\ Tail(s) \in Seq(Accesses) /\ Len(Tail(s)) = Len(s) - 1 /\ Tail(s) # <<>>
        /\ \A i \in 1..Len(s) - 1 : Tail(s)[i] = s[i + 1]
    <3>1. Tail(s) \in Seq(Accesses) /\ Len(Tail(s)) = Len(s) - 1
      BY <1>1, <1>2, HeadTailProperties
    <3>2. \A i \in 1..Len(s) - 1 : Tail(s)[i] = s[i + 1]
      BY <1>1, <1>2, HeadTailProperties
    <3>3. Len(Tail(s)) # Len(<<>>)
      BY <3>1, <1>1, <1>2
    <3>4. Tail(s) # <<>>
      BY <3>3
    <3> QED BY <3>1, <3>2, <3>4
  <2>2. Head(Tail(s)) = s[2]
    BY <2>1, <1>2, <1>1
  <2>3. \A i \in 1..(Len(Tail(s)) - 1) : Follows(o, Tail(s)[i], Tail(s)[i + 1])
    BY <2>1, <1>1, <1>2 DEF ScriptOf
  <2>4. MayBeLast(o, Tail(s)[Len(Tail(s))])
    BY <2>1, <1>1, <1>2 DEF ScriptOf
  <2>5. Follows(o, s[1], s[2])
    BY <1>1, <1>2 DEF ScriptOf
  <2> QED BY <2>1, <2>2, <2>3, <2>4, <2>5, <1>1 DEF ScriptOf
<1>3. Len(s) = 1 => MayBeLast(o, Head(s))
  BY <1>1 DEF ScriptOf
<1> QED BY <1>1, <1>2, <1>3

\* One access that may be the last one is a script.
LEMMA ScriptLast ==
  ASSUME NEW o, NEW a \in Accesses, MayBeLast(o, a)
  PROVE  <<a>> \in Seq(Accesses) /\ ScriptOf(o, <<a>>) /\ Head(<<a>>) = a
BY DEF ScriptOf

\* A script with an access before it is one too.
LEMMA ScriptCons ==
  ASSUME NEW o, NEW a \in Accesses, NEW s \in Seq(Accesses), ScriptOf(o, s), Follows(o, a, Head(s))
  PROVE  <<a>> \o s \in Seq(Accesses) /\ ScriptOf(o, <<a>> \o s) /\ Head(<<a>> \o s) = a
<1> DEFINE r == <<a>> \o s
<1>1. r \in Seq(Accesses) /\ Len(r) = Len(s) + 1 /\ r[1] = a /\ r # <<>> /\ Head(r) = a
      /\ (\A i \in 1..Len(s) : r[i + 1] = s[i]) /\ Len(s) \in Nat /\ Len(s) >= 1 /\ Head(s) = s[1]
  BY DEF ScriptOf
<1>2. ASSUME NEW i \in 1..(Len(r) - 1) PROVE Follows(o, r[i], r[i + 1])
  <2>1. CASE i = 1
    BY <2>1, <1>1
  <2>2. CASE i # 1
    <3>1. i - 1 \in 1..(Len(s) - 1)
      BY <2>2, <1>1
    <3>2. r[(i - 1) + 1] = s[i - 1] /\ r[i + 1] = s[(i - 1) + 1] /\ (i - 1) + 1 = i
      BY <3>1, <1>1
    <3> QED BY <3>1, <3>2 DEF ScriptOf
  <2> QED BY <2>1, <2>2
<1>3. r[Len(r)] = s[Len(s)]
  BY <1>1
<1> QED BY <1>1, <1>2, <1>3 DEF ScriptOf

\* s is a script of operation o that begins with access a.
IsScript(o, s, a) == s \in Seq(Accesses) /\ ScriptOf(o, s) /\ Head(s) = a

\* An access put before a script.
LEMMA ConsScript ==
  ASSUME NEW o, NEW a \in Accesses, NEW b, NEW s, IsScript(o, s, b), Follows(o, a, b)
  PROVE  IsScript(o, <<a>> \o s, a)
BY ScriptCons DEF IsScript

\* A script of one access.
LEMMA LastScript ==
  ASSUME NEW o, NEW a \in Accesses, MayBeLast(o, a)
  PROVE  IsScript(o, <<a>>, a)
BY ScriptLast DEF IsScript

\* The scripts an operation goes on with are scripts of that operation.
LEMMA FixedScripts ==
  /\ IsScript("move", BeforeHandshake, "unhalt")
  /\ IsScript("pp", Handshake, "modePP")
  /\ IsScript("pp", <<"clear", "wait">>, "clear")
  /\ IsScript("home", HomingScript, "modeHM")
  /\ IsScript("home", <<"climb", "readyNow">>, "climb")
  /\ IsScript("stop", <<"halt", "halt", "slow">>, "halt")
  /\ IsScript("jog", PressScript, "velocity")
<1>1. IsScript("move", BeforeHandshake, "unhalt")
  <2> DEFINE s == BeforeHandshake
  <2>1. s \in Seq(Accesses) /\ Len(s) = 3 /\ Head(s) = "unhalt" /\ s # <<>>
    BY DEF BeforeHandshake, Accesses
  <2>2. ASSUME NEW i \in 1..2 PROVE Follows("move", s[i], s[i + 1])
    BY DEF BeforeHandshake, Follows
  <2>3. MayBeLast("move", s[3])
    BY DEF BeforeHandshake, MayBeLast
  <2> HIDE DEF s
  <2>4. IsScript("move", s, "unhalt")
    BY <2>1, <2>2, <2>3 DEF IsScript, ScriptOf
  <2> QED BY <2>4 DEF s
<1>2. IsScript("pp", Handshake, "modePP")
  <2> DEFINE s == Handshake
  <2>1. s \in Seq(Accesses) /\ Len(s) = 7 /\ Head(s) = "modePP" /\ s # <<>>
    BY DEF Handshake, Accesses
  <2>2. ASSUME NEW i \in 1..6 PROVE Follows("pp", s[i], s[i + 1])
    BY DEF Handshake, Follows
  <2>3. MayBeLast("pp", s[7])
    BY DEF Handshake, MayBeLast
  <2> HIDE DEF s
  <2>4. IsScript("pp", s, "modePP")
    BY <2>1, <2>2, <2>3 DEF IsScript, ScriptOf
  <2> QED BY <2>4 DEF s
<1>3. IsScript("pp", <<"clear", "wait">>, "clear")
  <2> DEFINE s == <<"clear", "wait">>
  <2>1. s \in Seq(Accesses) /\ Len(s) = 2 /\ Head(s) = "clear" /\ s # <<>>
    BY DEF Accesses
  <2>2. ASSUME NEW i \in 1..1 PROVE Follows("pp", s[i], s[i + 1])
    BY DEF Follows
  <2>3. MayBeLast("pp", s[2])
    BY DEF MayBeLast
  <2> HIDE DEF s
  <2>4. IsScript("pp", s, "clear")
    BY <2>1, <2>2, <2>3 DEF IsScript, ScriptOf
  <2> QED BY <2>4 DEF s
<1>4. IsScript("home", HomingScript, "modeHM")
  <2> DEFINE s == HomingScript
  <2>1. s \in Seq(Accesses) /\ Len(s) = 5 /\ Head(s) = "modeHM" /\ s # <<>>
    BY DEF HomingScript, Accesses
  <2>2. ASSUME NEW i \in 1..4 PROVE Follows("home", s[i], s[i + 1])
    BY DEF HomingScript, Follows
  <2>3. MayBeLast("home", s[5])
    BY DEF HomingScript, MayBeLast
  <2> HIDE DEF s
  <2>4. IsScript("home", s, "modeHM")
    BY <2>1, <2>2, <2>3 DEF IsScript, ScriptOf
  <2> QED BY <2>4 DEF s
<1>5. IsScript("home", <<"climb", "readyNow">>, "climb")
  <2> DEFINE s == <<"climb", "readyNow">>
  <2>1. s \in Seq(Accesses) /\ Len(s) = 2 /\ Head(s) = "climb" /\ s # <<>>
    BY DEF Accesses
  <2>2. ASSUME NEW i \in 1..1 PROVE Follows("home", s[i], s[i + 1])
    BY DEF Follows
  <2>3. MayBeLast("home", s[2])
    BY DEF MayBeLast
  <2> HIDE DEF s
  <2>4. IsScript("home", s, "climb")
    BY <2>1, <2>2, <2>3 DEF IsScript, ScriptOf
  <2> QED BY <2>4 DEF s
<1>6. IsScript("stop", <<"halt", "halt", "slow">>, "halt")
  <2> DEFINE s == <<"halt", "halt", "slow">>
  <2>1. s \in Seq(Accesses) /\ Len(s) = 3 /\ Head(s) = "halt" /\ s # <<>>
    BY DEF Accesses
  <2>2. ASSUME NEW i \in 1..2 PROVE Follows("stop", s[i], s[i + 1])
    BY DEF Follows
  <2>3. MayBeLast("stop", s[3])
    BY DEF MayBeLast
  <2> HIDE DEF s
  <2>4. IsScript("stop", s, "halt")
    BY <2>1, <2>2, <2>3 DEF IsScript, ScriptOf
  <2> QED BY <2>4 DEF s
<1>7. IsScript("jog", PressScript, "velocity")
  <2> DEFINE s == PressScript
  <2>1. s \in Seq(Accesses) /\ Len(s) = 3 /\ Head(s) = "velocity" /\ s # <<>>
    BY DEF PressScript, Accesses
  <2>2. ASSUME NEW i \in 1..2 PROVE Follows("jog", s[i], s[i + 1])
    BY DEF PressScript, Follows
  <2>3. MayBeLast("jog", s[3])
    BY DEF PressScript, MayBeLast
  <2> HIDE DEF s
  <2>4. IsScript("jog", s, "velocity")
    BY <2>1, <2>2, <2>3 DEF IsScript, ScriptOf
  <2> QED BY <2>4 DEF s
<1> QED BY <1>1, <1>2, <1>3, <1>4, <1>5, <1>6, <1>7

\* _prepare_motion_context(): the release of a jog, then the mode read.
LEMMA PrepareScript ==
  ASSUME NEW m \in {"modeOn", "modeOff"}, NEW j \in BOOLEAN
  PROVE  IsScript("move", (IF j THEN <<"zero">> ELSE <<>>) \o <<m>>, IF j THEN "zero" ELSE m)
<1>1. m \in Accesses /\ MayBeLast("move", m) /\ Follows("move", "zero", m)
  BY DEF MayBeLast, Follows, Accesses
<1>2. IsScript("move", <<m>>, m)
  BY <1>1, LastScript
<1>3. IsScript("move", <<"zero">> \o <<m>>, "zero")
  BY <1>1, <1>2, ConsScript DEF Accesses
<1>4. <<>> \o <<m>> = <<m>>
  BY <1>1
<1> QED BY <1>2, <1>3, <1>4

\* _ensure_mode_pp() writes the mode and climbs when either is needed.
LEMMA EnsureScript ==
  ASSUME NEW w \in BOOLEAN, NEW n \in BOOLEAN
  PROVE  IsScript("move", EnsureModePp(w, n) \o BeforeHandshake,
                  IF w \/ n THEN "modePP" ELSE "unhalt")
<1> DEFINE s == <<"status">> \o BeforeHandshake
           c == <<"climb">> \o s
<1>1. IsScript("move", s, "status")
  BY FixedScripts, ConsScript DEF Follows, Accesses
<1>2. IsScript("move", c, "climb")
  BY <1>1, ConsScript DEF Follows, Accesses
<1>3. IsScript("move", <<"modePP">> \o s, "modePP") /\ IsScript("move", <<"modePP">> \o c, "modePP")
  BY <1>1, <1>2, ConsScript DEF Follows, Accesses
<1>4. <<"modePP">> \o <<"climb">> \o <<"status">> \o BeforeHandshake = <<"modePP">> \o c
  BY DEF BeforeHandshake
<1>5. <<"modePP">> \o <<>> \o <<"status">> \o BeforeHandshake = <<"modePP">> \o s
  BY DEF BeforeHandshake
<1>6. <<>> \o BeforeHandshake = BeforeHandshake
  BY DEF BeforeHandshake
<1> QED BY <1>3, <1>4, <1>5, <1>6, FixedScripts DEF EnsureModePp

\* _check_drive_ready() of the jog: the climb when it is needed, the preparation
\* and the press.
LEMMA JogScript ==
  ASSUME NEW e \in BOOLEAN
  PROVE  IsScript("jog", (IF e THEN <<>> ELSE <<"climb">>) \o <<"unhalt", "zero", "modePV">>
                           \o PressScript, IF e THEN "unhalt" ELSE "climb")
<1> DEFINE m == <<"modePV">> \o PressScript
           z == <<"zero">> \o m
           u == <<"unhalt">> \o z
<1>1. IsScript("jog", m, "modePV")
  BY FixedScripts, ConsScript DEF Follows, Accesses
<1>2. IsScript("jog", z, "zero")
  BY <1>1, ConsScript DEF Follows, Accesses
<1>3. IsScript("jog", u, "unhalt")
  BY <1>2, ConsScript DEF Follows, Accesses
<1>4. IsScript("jog", <<"climb">> \o u, "climb")
  BY <1>3, ConsScript DEF Follows, Accesses
<1>5. <<>> \o <<"unhalt", "zero", "modePV">> \o PressScript = u
  BY DEF PressScript
<1>6. <<"climb">> \o <<"unhalt", "zero", "modePV">> \o PressScript = <<"climb">> \o u
  BY DEF PressScript
<1> QED BY <1>3, <1>4, <1>5, <1>6

-----------------------------------------------------------------------------
(* What an access does to the drive. *)

\* run_to_operation_enabled() leaves mode, target and start bit where they belong,
\* and starts nothing.
LEMMA ClimbedEffect ==
  ASSUME DriveType
  PROVE  LET a == Climbed(drive)
         IN  /\ a \in DriveRecord
             /\ a.mode = drive.mode /\ a.target = drive.target /\ ~a.emergency /\ ~a.bit4
             /\ a.homed => drive.homed
             /\ a.motion = "pp" => drive.motion = "pp"
<1> DEFINE r == IF drive.fault THEN Apply(drive, ResetWord) ELSE drive
           Kept(x) == /\ x \in DriveRecord
                      /\ x.mode = drive.mode /\ x.target = drive.target
                      /\ x.emergency = drive.emergency
                      /\ x.homed => drive.homed
                      /\ x.motion = "pp" => drive.motion = "pp"
           Plain(cw) == "new" \notin cw
<1>1. ASSUME NEW x, NEW cw, Kept(x), Plain(cw)
      PROVE  Kept(Apply(x, cw)) /\ ~Apply(x, cw).bit4
  BY <1>1, ApplyType, ApplyEffect
<1>2. Plain(ResetWord) /\ Plain(EnableWord) /\ Plain(SwitchOnWord) /\ Plain(ShutdownWord)
  BY DEF ResetWord, EnableWord, SwitchOnWord, ShutdownWord
<1>3. Kept(drive) /\ ~drive.emergency
  BY DEF DriveType
<1> HIDE DEF Kept, Plain
<1>4. Kept(r)
  BY <1>1, <1>2, <1>3
<1>5. Kept(Apply(r, ShutdownWord))
  BY <1>1, <1>2, <1>4
<1>6. Kept(Apply(Apply(r, ShutdownWord), SwitchOnWord))
  BY <1>1, <1>2, <1>5
<1>7. Kept(Climbed(drive)) /\ ~Climbed(drive).bit4
  BY <1>1, <1>2, <1>4, <1>6 DEF Climbed
<1> QED BY <1>7, <1>3 DEF Kept

ClearsBit4 == {"climb", "unhalt", "clear", "halt", "slowHalt", "slowQuick"}

\* No access but the start pulse starts a motion or raises bit 4, only the mode
\* accesses change the mode, only the climb ends a fault, and homing ends nowhere.
LEMMA AfterEffect ==
  ASSUME DriveType, NEW a, NEW p \in Targets \cup {0}, a = "target" => WithinLimits(p)
  PROVE  LET d == After(a, p)
         IN  /\ d \in DriveRecord /\ d.target \in 0..MaxPos /\ ~d.emergency
             /\ d.bit4 => a = "set" \/ (drive.bit4 /\ a \notin ClearsBit4)
             /\ d.motion = "pp" => drive.motion = "pp" \/ Starts(a)
             /\ a \in {"halt", "slowHalt"} => d.motion = "none"
             /\ a # "climb" => (d.fault <=> drive.fault)
             /\ a \notin {"modePP", "modeHM", "modePV"} => d.mode = drive.mode
             /\ a = "modeHM" => d.mode = 6
             /\ d.homed => drive.homed
             /\ Starts(a) /\ drive.mode = 6 => ~d.homed
<1> DEFINE d == After(a, p)
<1>1. drive \in DriveRecord /\ drive.target \in 0..MaxPos /\ ~drive.emergency
  BY DEF DriveType
<1>2. CASE a = "climb"
  <2>1. d = Climbed(drive)
    BY <1>2 DEF After
  <2> QED BY <1>1, <1>2, <2>1, ClimbedEffect DEF Starts, ClearsBit4
<1>3. CASE a \in {"modePP", "modeHM", "modePV"}
  <2>1. PICK m \in Modes : d = [drive EXCEPT !.mode = m] /\ (a = "modeHM" => m = 6)
    BY <1>3 DEF After, Modes
  <2> QED BY <1>1, <1>3, <2>1 DEF DriveRecord, Starts, ClearsBit4
<1>4. CASE a = "target"
  <2>1. d = [drive EXCEPT !.target = p] /\ p \in 0..MaxPos
    BY <1>4 DEF After, WithinLimits
  <2> QED BY <1>1, <1>4, <2>1 DEF DriveRecord, Starts, ClearsBit4
<1>5. CASE a \in {"velocity", "zero"}
  <2>1. PICK v \in {0, 1} : d = [drive EXCEPT !.tv = v]
    BY <1>5 DEF After
  <2> QED BY <1>1, <1>5, <2>1, TvType DEF DriveRecord, Starts, ClearsBit4
<1>6. CASE a \in {"unhalt", "clear", "halt", "slowHalt", "slowQuick"}
  <2>1. PICK cw : /\ d = Apply(drive, cw) /\ "new" \notin cw /\ "reset" \notin cw
                  /\ a \in {"halt", "slowHalt"} => "halt" \in cw
    <3>1. CASE a \in {"unhalt", "clear"}
      BY <3>1 DEF After, EnableWord, SwitchOnWord, ReleaseWord
    <3>2. CASE a \in {"halt", "slowHalt"}
      BY <3>2 DEF After, EnableWord, SwitchOnWord, Halted
    <3>3. CASE a = "slowQuick"
      BY <3>3 DEF After, EnableWord, SwitchOnWord, QuickStopWord
    <3> QED BY <1>6, <3>1, <3>2, <3>3
  <2>2. d \in DriveRecord
    BY <2>1, <1>1, ApplyType
  <2> QED BY <1>1, <1>6, <2>1, <2>2, ApplyEffect DEF Starts, ClearsBit4
<1>7. CASE a = "set"
  <2>1. d = Apply(drive, SetWord) /\ SetWord = EnableWord \cup {"new"}
    BY <1>7 DEF After, SetWord
  <2>2. "new" \in SetWord /\ "reset" \notin SetWord
    BY DEF SetWord, EnableWord, SwitchOnWord
  <2>3. d \in DriveRecord
    BY <2>1, <1>1, ApplyType
  <2>4. Starts(a) /\ drive.mode = 6 => ~d.homed
    BY <2>1, <1>1, StartsHoming DEF Starts
  <2> QED BY <1>1, <1>7, <2>1, <2>2, <2>3, <2>4, ApplyEffect DEF Starts, ClearsBit4
<1>8. CASE a \notin {"climb", "modePP", "modeHM", "modePV", "target", "velocity", "zero", "unhalt",
                     "clear", "halt", "slowHalt", "slowQuick", "set"}
  <2>1. d = drive
    BY <1>8 DEF After
  <2> QED BY <1>1, <1>8, <2>1 DEF Starts, ClearsBit4
<1> QED BY <1>2, <1>3, <1>4, <1>5, <1>6, <1>7, <1>8

-----------------------------------------------------------------------------
(* What a step of a caller does to its operation. *)

\* After access a of operation o comes access b: the next of its script, or the
\* first of the script the answer to a chooses.
Onward(o, a, b) ==
  \/ Follows(o, a, b)
  \/ /\ o = "move"
     /\ \/ a = "prepare" /\ b \in {"zero", "modeOn", "modeOff"}
        \/ a \in {"modeOn", "modeOff"} /\ b \in {"modePP", "unhalt"}
  \/ /\ o = "pp"
     /\ \/ a = "ack" /\ b = "clear"
        \/ a = "wait" /\ b = "position"
        \/ a = "position" /\ b = "wait"
  \/ /\ o = "home"
     /\ \/ a = "ready" /\ b \in {"modeHM", "climb"}
        \/ a = "readyNow" /\ b = "modeHM"
  \/ o = "stop" /\ a = "slow" /\ b \in {"slowHalt", "zero", "slowQuick"}
  \/ /\ o = "jog"
     /\ \/ a = "boundary" /\ b \in {"velocity", "ready"}
        \/ a = "ready" /\ b \in {"climb", "unhalt"}

\* Accesses no operation goes on after unless the drive has answered them.
Needed == {"unhalt", "profile", "modeHM", "set", "clear"}

\* The next access of t is executed ...
Done(t) ==
  /\ Executes(t, Head(todo[t]), goal[t])
  /\ profile' = IF Head(todo[t]) = "profile" /\ cfg # None THEN cfg ELSE profile
  /\ UNCHANGED <<late, resent>>

\* ... or not, and then it may come late.
NotExecuted(t) ==
  /\ UNCHANGED <<drive, stale, profile, mover, halted, homedIn, unpulsed, resent>>
  /\ late' = late \/ late' = late \cup Copies(t)

\* That, and what it leaves to others alone.
Touches(t) ==
  /\ Done(t) \/ NotExecuted(t)
  /\ stuck /\ drive'.bit4 => stuck'
  /\ stuck' \in BOOLEAN /\ abort' \in BOOLEAN /\ jogging' \in BOOLEAN
  /\ faults' \in 0..MaxFaults
  /\ UNCHANGED <<calls, upsets, overlapped>>

Continues(t) ==
  /\ \E s, b : /\ IsScript(op[t], s, b) /\ Onward(op[t], Head(todo[t]), b)
               /\ todo' = [todo EXCEPT ![t] = s]
  /\ op' = op
  /\ result' = result \/ result' = [result EXCEPT ![t] = "failed"]
  /\ UNCHANGED <<goal, cfg, saved, idleVars>>
  /\ Head(todo[t]) \in Needed => Done(t)
  /\ op[t] = "move" /\ Head(todo[t]) = "unhalt" => WithinLimits(goal[t])

Enters(t) == op[t] = "move" /\ Head(todo[t]) = "homed" /\ EntersPp(t)

Finishes(t) ==
  /\ op' = [op EXCEPT ![t] = "idle"]
  /\ todo' = [todo EXCEPT ![t] = <<>>]
  /\ \E how \in Results : result' = [result EXCEPT ![t] = how]
  /\ cfg' = IF op[t] = "pp" THEN saved[t] ELSE cfg
  /\ \/ op[t] \in {"pp", "jogStop"} /\ ScheduleIdle /\ idleDue' = TRUE
     \/ op[t] # "pp" /\ UNCHANGED idleVars
  /\ UNCHANGED <<goal, saved>>
  /\ Head(todo[t]) # "ack"
  /\ Head(todo[t]) \in {"set", "clear"} /\ drive'.bit4 => stuck'

\* The first access left is one of the operation, and its successor comes next.
LEMMA FirstAccess ==
  ASSUME CallerType, ScriptInv, NEW t \in Callers, todo[t] # <<>>
  PROVE  /\ op[t] # "idle" /\ IsScript(op[t], todo[t], Head(todo[t]))
         /\ MayBeLast(op[t], Head(todo[t])) \/ \E b : Follows(op[t], Head(todo[t]), b)
         /\ Len(todo[t]) > 1 =>
              /\ IsScript(op[t], Tail(todo[t]), Head(Tail(todo[t])))
              /\ Follows(op[t], Head(todo[t]), Head(Tail(todo[t])))
         /\ Len(todo[t]) <= 1 => MayBeLast(op[t], Head(todo[t]))
<1>1. todo[t] \in Seq(Accesses) /\ op[t] # "idle" /\ ScriptOf(op[t], todo[t])
  BY DEF CallerType, ScriptInv
<1>2. Len(todo[t]) \in Nat /\ Len(todo[t]) >= 1
  BY <1>1, ScriptTail
<1>3. Len(todo[t]) > 1 => /\ Tail(todo[t]) \in Seq(Accesses) /\ ScriptOf(op[t], Tail(todo[t]))
                           /\ Follows(op[t], Head(todo[t]), Head(Tail(todo[t])))
  BY <1>1, ScriptTail
<1>4. Len(todo[t]) <= 1 => MayBeLast(op[t], Head(todo[t]))
  <2>1. \A n \in Nat : n >= 1 /\ n <= 1 => n = 1
    OBVIOUS
  <2>2. Len(todo[t]) <= 1 => Len(todo[t]) = 1
    BY <1>2, <2>1
  <2> QED BY <1>1, <2>2, ScriptTail
<1>5. Len(todo[t]) > 1 \/ Len(todo[t]) <= 1
  BY <1>2
<1> QED BY <1>1, <1>3, <1>4, <1>5 DEF IsScript

\* Which operations an access belongs to.
LEMMA Belongs ==
  ASSUME NEW o, NEW a, MayBeLast(o, a) \/ \E b : Follows(o, a, b)
  PROVE  /\ a \in {"verify", "profile", "target", "ack", "wait", "position"} => o = "pp"
         /\ a \in {"modeHM", "done"} => o = "home"
         /\ a \in {"halt", "slow", "slowHalt", "slowQuick"} => o = "stop"
         /\ a \in {"look", "homed", "prepare"} => o = "move"
         /\ a \in {"set", "clear"} => o \in {"pp", "home", "jog"}
         /\ a = "modePP" => o \in {"move", "pp"}
         /\ a = "modePV" => o = "jog"
         /\ a = "climb" => o \in {"move", "home", "jog"}
         /\ o # "stop" => o \in MotionOps
BY DEF MayBeLast, Follows, MotionOps

\* Continuing with a given script whose first access follows from what is done.
LEMMA Continuing ==
  ASSUME TypeInv, NEW t \in Callers, NEW s, NEW b, IsScript(op[t], s, b),
         Onward(op[t], Head(todo[t]), b), GoOn(t, s),
         Head(todo[t]) \in Needed => Done(t),
         op[t] = "move" /\ Head(todo[t]) = "unhalt" => WithinLimits(goal[t])
  PROVE  Continues(t)
BY DEF Continues, GoOn

\* A call that ends, other than in the middle of a pulse.
LEMMA Ending ==
  ASSUME TypeInv, NEW t \in Callers, NEW how \in Results, Ends(t, how),
         Head(todo[t]) # "ack",
         Head(todo[t]) \in {"set", "clear"} /\ drive'.bit4 => stuck'
  PROVE  Finishes(t)
BY DEF Finishes, Ends, ScheduleFinally, Restored

\* An access that is answered leaves bit 4 to the pulse it belongs to.
LEMMA Answering ==
  ASSUME TypeInv, NEW t \in Callers, Answered(t, Head(todo[t])),
         abort' \in BOOLEAN, jogging' \in BOOLEAN, UNCHANGED <<boundVars, overlapped>>
  PROVE  Done(t) /\ Touches(t)
<1>1. Done(t)
  BY DEF Done, Answered
<1>2. stuck' \in BOOLEAN /\ (stuck /\ drive'.bit4 => stuck')
  BY DEF Answered
<1> QED BY <1>1, <1>2 DEF Touches, boundVars, TypeInv, OtherType

\* ... of an access that clears the start bit, it is low after it.
LEMMA AnswerClears ==
  ASSUME TypeInv, NEW t \in Callers, Answered(t, Head(todo[t])), Head(todo[t]) = "clear"
  PROVE  ~drive'.bit4
<1>1. goal[t] \in Targets \cup {0} /\ DriveType
  BY DEF TypeInv, CallerType
<1>2. drive' = After("clear", goal[t])
  BY DEF Answered, Executes
<1> QED BY <1>1, <1>2, AfterEffect DEF Starts, ClearsBit4

\* Nothing but the caller's own script moves.
LEMMA Looking ==
  ASSUME TypeInv, NEW t \in Callers, Same
  PROVE  Touches(t)
BY DEF Touches, Same, NotExecuted, boundVars, ghostVars, TypeInv, OtherType

\* After a raised access the start bit is accounted for, wherever it was.
LEMMA Raising ==
  ASSUME TypeInv, NEW t \in Callers, Raises(t), abort' \in BOOLEAN
  PROVE  /\ todo[t] # <<>> /\ Touches(t)
         /\ Head(todo[t]) \in {"set", "clear"} /\ drive'.bit4 => stuck'
<1>1. faults' \in 0..MaxFaults
  <2>1. \A n \in 0..MaxFaults : n < MaxFaults => n + 1 \in 0..MaxFaults
    OBVIOUS
  <2> QED BY <2>1 DEF Raises, TypeInv, OtherType
<1>2. stuck' \in BOOLEAN /\ (stuck /\ drive'.bit4 => stuck')
  BY DEF Raises
<1>3. NotExecuted(t)
  BY DEF Raises, NotExecuted
<1> QED BY <1>1, <1>2, <1>3 DEF Raises, Touches, TypeInv, OtherType

Shape(t) == todo[t] # <<>> /\ Touches(t) /\ (Continues(t) \/ Enters(t) \/ Finishes(t))

\* The accesses before the handshake.
LEMMA MoveShape ==
  ASSUME TypeInv, NEW t \in Callers,
         \/ Access(t) \/ Prepare(t) \/ MoveReleasesJog(t) \/ ModeRead(t) \/ TargetRefused(t)
         \/ ClearsAbort(t) \/ HomedRead(t)
  PROVE  Shape(t)
<1> DEFINE a == Head(todo[t])
<1> USE DEF TypeInv
<1>1. CASE Access(t)
  <2>1. todo[t] # <<>> /\ Len(todo[t]) > 1
    BY <1>1 DEF Access
  <2>2. IsScript(op[t], Tail(todo[t]), Head(Tail(todo[t]))) /\ Onward(op[t], a, Head(Tail(todo[t])))
    BY <2>1, FirstAccess DEF Onward
  <2>3. Answered(t, a) /\ GoOn(t, Tail(todo[t])) /\ SameFacade
    BY <1>1 DEF Access
  <2>4. op[t] = "move" /\ a = "unhalt" => WithinLimits(goal[t])
    BY <1>1 DEF Access, At
  <2>5. Touches(t) /\ Continues(t)
    BY <2>2, <2>3, <2>4, Answering, Continuing DEF SameFacade, OtherType
  <2> QED BY <2>1, <2>5 DEF Shape
<1>2. CASE Prepare(t)
  <2>1. todo[t] # <<>> /\ a = "prepare" /\ op[t] = "move" /\ Same
    BY <1>2 DEF Prepare, At
  <2>2. PICK m \in {"modeOn", "modeOff"} : GoOn(t, (IF jogging THEN <<"zero">> ELSE <<>>) \o <<m>>)
    BY <1>2 DEF Prepare
  <2>3. IsScript(op[t], (IF jogging THEN <<"zero">> ELSE <<>>) \o <<m>>, IF jogging THEN "zero" ELSE m)
    BY <2>1, PrepareScript DEF OtherType
  <2>4. Onward(op[t], a, IF jogging THEN "zero" ELSE m)
    BY <2>1 DEF Onward
  <2>5. Continues(t)
    BY <2>1, <2>2, <2>3, <2>4, Continuing DEF Needed
  <2> QED BY <2>1, <2>5, Looking DEF Shape
<1>3. CASE MoveReleasesJog(t)
  <2>1. todo[t] # <<>> /\ a = "zero" /\ op[t] = "move" /\ GoOn(t, Tail(todo[t]))
    BY <1>3 DEF MoveReleasesJog, At
  <2>2. IsScript(op[t], Tail(todo[t]), Head(Tail(todo[t]))) /\ Onward(op[t], a, Head(Tail(todo[t])))
    BY <2>1, FirstAccess DEF Onward, MayBeLast
  <2>3. Continues(t)
    BY <2>1, <2>2, Continuing DEF Needed
  <2>4. Touches(t)
    BY <1>3, <2>1, Answering DEF MoveReleasesJog, OtherType
  <2> QED BY <2>1, <2>3, <2>4 DEF Shape
<1>4. CASE ModeRead(t)
  <2>1. todo[t] # <<>> /\ a \in {"modeOn", "modeOff"} /\ op[t] = "move" /\ Same
    BY <1>4 DEF ModeRead, At
  <2>2. PICK w \in BOOLEAN, n \in BOOLEAN : GoOn(t, EnsureModePp(w, n) \o BeforeHandshake)
    <3>1. (drive.mode # 1) \in BOOLEAN /\ At(t, "modeOff") \in BOOLEAN
      BY DEF At
    <3> QED BY <1>4, <3>1 DEF ModeRead
  <2>3. IsScript(op[t], EnsureModePp(w, n) \o BeforeHandshake, IF w \/ n THEN "modePP" ELSE "unhalt")
    BY <2>1, EnsureScript
  <2>4. Onward(op[t], a, IF w \/ n THEN "modePP" ELSE "unhalt")
    BY <2>1 DEF Onward
  <2>5. Continues(t)
    BY <2>1, <2>2, <2>3, <2>4, Continuing DEF Needed
  <2> QED BY <2>1, <2>5, Looking DEF Shape
<1>5. CASE TargetRefused(t)
  <2>1. todo[t] # <<>> /\ a = "unhalt" /\ Same /\ Ends(t, "failed")
    BY <1>5 DEF TargetRefused, At
  <2>2. Finishes(t)
    BY <2>1, Ending DEF Results
  <2> QED BY <2>1, <2>2, Looking DEF Shape
<1>6. CASE ClearsAbort(t)
  <2>1. todo[t] # <<>> /\ a = "look" /\ op[t] = "move" /\ GoOn(t, Tail(todo[t]))
    BY <1>6 DEF ClearsAbort, At
  <2>2. IsScript(op[t], Tail(todo[t]), Head(Tail(todo[t]))) /\ Onward(op[t], a, Head(Tail(todo[t])))
    BY <2>1, FirstAccess DEF Onward, MayBeLast
  <2>3. Continues(t)
    BY <2>1, <2>2, Continuing DEF Needed
  <2>4. Touches(t)
    BY <1>6 DEF ClearsAbort, NotExecuted, Touches, OtherType, boundVars, ghostVars
  <2> QED BY <2>1, <2>3, <2>4 DEF Shape
<1>7. CASE HomedRead(t)
  <2>1. todo[t] # <<>> /\ Same /\ Enters(t)
    BY <1>7 DEF HomedRead, At, Enters
  <2> QED BY <2>1, Looking DEF Shape
<1> QED BY <1>1, <1>2, <1>3, <1>4, <1>5, <1>6, <1>7

\* The set-point handshake and the waits that follow.
LEMMA HandshakeShape ==
  ASSUME TypeInv, NEW t \in Callers,
         \/ ModeVerified(t) \/ Acknowledged(t) \/ NotAcknowledged(t) \/ Releases(t)
         \/ AbortSeen(t) \/ ReachedSeen(t) \/ PositionRead(t) \/ WaitFails(t)
  PROVE  Shape(t)
<1> DEFINE a == Head(todo[t])
<1> USE DEF TypeInv
<1>1. CASE ModeVerified(t)
  <2>1. todo[t] # <<>> /\ a = "verify" /\ op[t] = "pp" /\ Same
    BY <1>1 DEF ModeVerified, At
  <2>2. CASE GoOn(t, Tail(todo[t]))
    <3>1. IsScript(op[t], Tail(todo[t]), Head(Tail(todo[t]))) /\ Onward(op[t], a, Head(Tail(todo[t])))
      BY <2>1, FirstAccess DEF Onward, MayBeLast
    <3>2. Continues(t)
      BY <2>1, <2>2, <3>1, Continuing DEF Needed
    <3> QED BY <2>1, <3>2, Looking DEF Shape
  <2>3. CASE Ends(t, "failed")
    <3>1. Finishes(t)
      BY <2>1, <2>3, Ending DEF Results
    <3> QED BY <2>1, <3>1, Looking DEF Shape
  <2> QED BY <1>1, <2>2, <2>3 DEF ModeVerified
<1>2. CASE Acknowledged(t)
  <2>1. todo[t] # <<>> /\ a = "ack" /\ op[t] = "pp" /\ Same /\ GoOn(t, <<"clear", "wait">>)
    BY <1>2 DEF Acknowledged, At
  <2>2. Continues(t)
    BY <2>1, FixedScripts, Continuing DEF Needed, Onward
  <2> QED BY <2>1, <2>2, Looking DEF Shape
<1>3. CASE NotAcknowledged(t)
  <2>1. todo[t] # <<>> /\ a = "ack" /\ op[t] = "pp" /\ Same /\ AckFailure(t)
    BY <1>3 DEF NotAcknowledged, At
  <2>2. IsScript(op[t], <<"clear">>, "clear")
    BY <2>1, LastScript DEF MayBeLast, Accesses
  <2>3. Continues(t)
    BY <2>1, <2>2 DEF AckFailure, Continues, Needed, Onward
  <2> QED BY <2>1, <2>3, Looking DEF Shape
<1>4. CASE Releases(t)
  <2>1. todo[t] # <<>> /\ a = "clear" /\ op[t] = "pp" /\ Answered(t, a) /\ SameFacade
    BY <1>4 DEF Releases, At
  <2>2. ~drive'.bit4
    BY <2>1, AnswerClears
  <2>3. Done(t) /\ Touches(t)
    BY <2>1, Answering DEF SameFacade, OtherType
  <2>4. ASSUME NEW how \in Results, Ends(t, how)
        PROVE  Shape(t)
    BY <2>1, <2>2, <2>3, <2>4, Ending DEF Shape
  <2>5. CASE GoOn(t, <<"wait">>)
    <3>1. IsScript(op[t], <<"wait">>, "wait")
      BY <2>1, LastScript DEF MayBeLast, Accesses
    <3>2. Onward(op[t], a, "wait")
      BY <2>1 DEF Onward, Follows
    <3>3. Continues(t)
      BY <2>1, <2>3, <2>5, <3>1, <3>2, Continuing DEF Needed
    <3> QED BY <2>1, <2>3, <3>3 DEF Shape
  <2> QED BY <1>4, <2>4, <2>5 DEF Releases, Results
<1>5. CASE AbortSeen(t) \/ WaitFails(t)
  <2>1. todo[t] # <<>> /\ a \in {"wait", "done"} /\ Same
    BY <1>5 DEF AbortSeen, WaitFails, At
  <2>2. PICK how \in Results : Ends(t, how)
    BY <1>5 DEF AbortSeen, WaitFails, Results
  <2>3. Finishes(t)
    BY <2>1, <2>2, Ending
  <2> QED BY <2>1, <2>3, Looking DEF Shape
<1>6. CASE ReachedSeen(t)
  <2>1. todo[t] # <<>> /\ a = "wait" /\ op[t] = "pp" /\ Same /\ GoOn(t, <<"position">>)
    BY <1>6 DEF ReachedSeen, At
  <2>2. IsScript(op[t], <<"position">>, "position")
    BY <2>1, LastScript DEF MayBeLast, Accesses
  <2>3. Continues(t)
    BY <2>1, <2>2, Continuing DEF Needed, Onward
  <2> QED BY <2>1, <2>3, Looking DEF Shape
<1>7. CASE PositionRead(t)
  <2>1. todo[t] # <<>> /\ a = "position" /\ op[t] = "pp" /\ Same
    BY <1>7 DEF PositionRead, At
  <2>2. CASE Ends(t, "reached")
    <3>1. Finishes(t)
      BY <2>1, <2>2, Ending DEF Results
    <3> QED BY <2>1, <3>1, Looking DEF Shape
  <2>3. CASE GoOn(t, <<"wait">>)
    <3>1. IsScript(op[t], <<"wait">>, "wait")
      BY <2>1, LastScript DEF MayBeLast, Accesses
    <3>2. Continues(t)
      BY <2>1, <2>3, <3>1, Continuing DEF Needed, Onward
    <3> QED BY <2>1, <3>2, Looking DEF Shape
  <2> QED BY <1>7, <2>2, <2>3 DEF PositionRead
<1> QED BY <1>1, <1>2, <1>3, <1>4, <1>5, <1>6, <1>7

\* home().
LEMMA HomeShape ==
  ASSUME TypeInv, NEW t \in Callers, HomeReady(t) \/ HomeReadyNow(t) \/ HomingDone(t)
  PROVE  Shape(t)
<1> DEFINE a == Head(todo[t])
<1> USE DEF TypeInv
<1>1. CASE HomeReady(t) \/ HomeReadyNow(t)
  <2>1. todo[t] # <<>> /\ a \in {"ready", "readyNow"} /\ op[t] = "home"
    BY <1>1 DEF HomeReady, HomeReadyNow, At
  <2>2. Touches(t)
    BY <1>1 DEF HomeReady, HomeReadyNow, NotExecuted, Touches, OtherType, boundVars, ghostVars
  <2>3. CASE Ends(t, "failed")
    BY <2>1, <2>2, <2>3, Ending DEF Shape, Results
  <2>4. CASE GoOn(t, HomingScript)
    <3>1. Continues(t)
      BY <2>1, <2>4, FixedScripts, Continuing DEF Needed, Onward
    <3> QED BY <2>1, <2>2, <3>1 DEF Shape
  <2>5. CASE GoOn(t, <<"climb", "readyNow">>) /\ a = "ready"
    <3>1. Continues(t)
      BY <2>1, <2>5, FixedScripts, Continuing DEF Needed, Onward
    <3> QED BY <2>1, <2>2, <3>1 DEF Shape
  <2> QED BY <1>1, <2>3, <2>4, <2>5 DEF HomeReady, HomeReadyNow, At
<1>2. CASE HomingDone(t)
  <2>1. todo[t] # <<>> /\ a = "done" /\ Same /\ Ends(t, "attained")
    BY <1>2 DEF HomingDone, At
  <2>2. Finishes(t)
    BY <2>1, Ending DEF Results
  <2> QED BY <2>1, <2>2, Looking DEF Shape
<1> QED BY <1>1, <1>2

\* stop() and the jog.
LEMMA StopJogShape ==
  ASSUME TypeInv, NEW t \in Callers,
         \/ HaltDone(t) \/ StopLooks(t) \/ StopDone(t)
         \/ JogDecides(t) \/ JogReady(t) \/ JogPressed(t) \/ JogReleased(t)
  PROVE  Shape(t)
<1> DEFINE a == Head(todo[t])
<1> USE DEF TypeInv
<1>1. CASE HaltDone(t)
  <2>1. /\ todo[t] # <<>> /\ a = "halt" /\ op[t] = "stop" /\ Answered(t, a) /\ SameFacade
        /\ GoOn(t, <<"slow">>)
    BY <1>1 DEF HaltDone, At
  <2>2. IsScript(op[t], <<"slow">>, "slow") /\ Onward(op[t], a, "slow")
    BY <2>1, LastScript DEF MayBeLast, Accesses, Onward, Follows
  <2>3. Continues(t)
    BY <2>1, <2>2, Continuing DEF Needed
  <2> QED BY <2>1, <2>3, Answering DEF Shape, SameFacade, OtherType
<1>2. CASE StopLooks(t)
  <2>1. todo[t] # <<>> /\ a = "slow" /\ op[t] = "stop" /\ Same
    BY <1>2 DEF StopLooks, At
  <2>2. CASE Ends(t, "stopped")
    <3>1. Finishes(t)
      BY <2>1, <2>2, Ending DEF Results
    <3> QED BY <2>1, <3>1, Looking DEF Shape
  <2>3. ASSUME NEW b \in {"slowHalt", "zero", "slowQuick"}, GoOn(t, <<b>>)
        PROVE  Shape(t)
    <3>1. b \in Accesses /\ MayBeLast(op[t], b) /\ Onward(op[t], a, b)
      BY <2>1 DEF MayBeLast, Accesses, Onward
    <3>2. IsScript(op[t], <<b>>, b)
      BY <3>1, LastScript
    <3>3. Continues(t)
      BY <2>1, <2>3, <3>1, <3>2, Continuing DEF Needed
    <3> QED BY <2>1, <3>3, Looking DEF Shape
  <2> QED BY <1>2, <2>2, <2>3 DEF StopLooks
<1>3. CASE StopDone(t)
  <2>1. /\ todo[t] # <<>> /\ a \in {"slowHalt", "zero", "slowQuick"}
        /\ Answered(t, a) /\ SameFacade /\ Ends(t, "stopped")
    BY <1>3 DEF StopDone, At
  <2>2. Finishes(t)
    BY <2>1, Ending DEF Results
  <2> QED BY <2>1, <2>2, Answering DEF Shape, SameFacade, OtherType
<1>4. CASE JogDecides(t)
  <2>1. todo[t] # <<>> /\ a = "boundary" /\ op[t] = "jog" /\ Same
    BY <1>4 DEF JogDecides, At
  <2>2. CASE GoOn(t, PressScript)
    <3>1. Continues(t)
      BY <2>1, <2>2, FixedScripts, Continuing DEF Needed, Onward
    <3> QED BY <2>1, <3>1, Looking DEF Shape
  <2>3. CASE GoOn(t, <<"ready">>)
    <3>1. IsScript(op[t], <<"ready">>, "ready")
      BY <2>1, LastScript DEF MayBeLast, Accesses
    <3>2. Continues(t)
      BY <2>1, <2>3, <3>1, Continuing DEF Needed, Onward
    <3> QED BY <2>1, <3>2, Looking DEF Shape
  <2> QED BY <1>4, <2>2, <2>3 DEF JogDecides
<1>5. CASE JogReady(t)
  <2>1. todo[t] # <<>> /\ a = "ready" /\ op[t] = "jog" /\ Same
    BY <1>5 DEF JogReady, At
  <2>2. CASE Ends(t, "failed")
    <3>1. Finishes(t)
      BY <2>1, <2>2, Ending DEF Results
    <3> QED BY <2>1, <3>1, Looking DEF Shape
  <2> DEFINE s(e) == (IF e THEN <<>> ELSE <<"climb">>) \o <<"unhalt", "zero", "modePV">> \o PressScript
  <2>3. ASSUME GoOn(t, s(drive.state = "enabled"))
        PROVE  Shape(t)
    <3>1. PICK e \in BOOLEAN : GoOn(t, s(e))
      BY <2>3
    <3>2. IsScript(op[t], s(e), IF e THEN "unhalt" ELSE "climb")
      BY <2>1, JogScript
    <3>3. Onward(op[t], a, IF e THEN "unhalt" ELSE "climb")
      BY <2>1 DEF Onward
    <3> HIDE DEF s
    <3>4. Continues(t)
      BY <2>1, <3>1, <3>2, <3>3, Continuing DEF Needed
    <3> QED BY <2>1, <3>4, Looking DEF Shape
  <2> QED BY <1>5, <2>2, <2>3 DEF JogReady
<1>6. CASE JogPressed(t)
  <2>1. todo[t] # <<>> /\ a = "clear" /\ op[t] = "jog" /\ Answered(t, a) /\ Ends(t, "jogging")
    BY <1>6 DEF JogPressed, At
  <2>2. ~drive'.bit4
    BY <2>1, AnswerClears
  <2>3. Finishes(t)
    BY <2>1, <2>2, Ending DEF Results
  <2>4. Touches(t)
    BY <1>6, <2>1, Answering DEF JogPressed, OtherType
  <2> QED BY <2>1, <2>3, <2>4 DEF Shape
<1>7. CASE JogReleased(t)
  <2>1. todo[t] # <<>> /\ a = "zero" /\ op[t] = "jogStop" /\ Answered(t, a)
    BY <1>7 DEF JogReleased, At
  <2>2. Finishes(t)
    BY <1>7, <2>1 DEF JogReleased, Finishes, Results
  <2>3. Touches(t)
    BY <1>7, <2>1, Answering DEF JogReleased, OtherType
  <2> QED BY <2>1, <2>2, <2>3 DEF Shape
<1> QED BY <1>1, <1>2, <1>3, <1>4, <1>5, <1>6, <1>7

\* An access that raises ends the call, or is swallowed and the call goes on.
LEMMA RaiseShape ==
  ASSUME TypeInv, NEW t \in Callers, RaiseEnds(t) \/ RaiseGoesOn(t)
  PROVE  Shape(t)
<1> DEFINE a == Head(todo[t])
<1> USE DEF TypeInv
<1>1. Raises(t) /\ abort' \in BOOLEAN
  BY DEF RaiseEnds, RaiseGoesOn, OtherType
<1>2. /\ todo[t] # <<>> /\ Touches(t)
      /\ a \in {"set", "clear"} /\ drive'.bit4 => stuck'
  BY <1>1, Raising
<1>3. /\ \A b : At(t, b) <=> a = b
      /\ MayBeLast(op[t], a) \/ \E b : Follows(op[t], a, b)
  BY <1>2, FirstAccess DEF At
<1>4. CASE RaiseEnds(t)
  <2>1. a # "ack"
    <3>1. a = "ack" => op[t] = "pp"
      BY <1>3, Belongs
    <3> QED BY <1>3, <1>4, <3>1 DEF RaiseEnds, Tolerated
  <2>2. Finishes(t)
    BY <1>2, <1>4, <2>1, Ending DEF RaiseEnds, Results
  <2> QED BY <1>2, <2>2 DEF Shape
<1>5. CASE RaiseGoesOn(t)
  <2>1. \/ op[t] = "move" /\ a \in {"zero", "modeOn", "modeOff", "look", "homed"}
        \/ op[t] = "pp" /\ a \in {"ack", "verify"}
        \/ op[t] = "stop" /\ a \in {"halt", "slow", "slowHalt", "zero", "slowQuick"}
    <3>1. op[t] = "stop" => a \in {"halt", "slow", "slowHalt", "zero", "slowQuick"}
      BY <1>3 DEF MayBeLast, Follows
    <3> QED BY <1>3, <1>5, <3>1 DEF RaiseGoesOn, Tolerated
  <2>2. a \notin Needed
    BY <2>1 DEF Needed
  <2>3. CASE a \in {"modeOn", "modeOff"}
    <3>1. PICK n \in BOOLEAN : GoOn(t, EnsureModePp(TRUE, n) \o BeforeHandshake)
      <4>1. At(t, "modeOff") \in BOOLEAN
        BY DEF At
      <4> QED BY <1>3, <1>5, <2>3, <4>1 DEF RaiseGoesOn
    <3>2. IsScript(op[t], EnsureModePp(TRUE, n) \o BeforeHandshake, "modePP")
      BY <2>1, <2>3, EnsureScript
    <3>3. Onward(op[t], a, "modePP")
      BY <2>1, <2>3 DEF Onward
    <3>4. Continues(t)
      BY <2>2, <2>3, <3>1, <3>2, <3>3, Continuing
    <3> QED BY <1>2, <3>4 DEF Shape
  <2>4. CASE a = "homed"
    <3>1. Enters(t)
      BY <1>3, <1>5, <2>1, <2>4 DEF RaiseGoesOn, Enters
    <3> QED BY <1>2, <3>1 DEF Shape
  <2>5. CASE a = "ack"
    <3>1. AckFailure(t) /\ op[t] = "pp"
      BY <1>3, <1>5, <2>1, <2>5 DEF RaiseGoesOn
    <3>2. IsScript(op[t], <<"clear">>, "clear")
      BY <3>1, LastScript DEF MayBeLast, Accesses
    <3>3. Continues(t)
      BY <2>2, <2>5, <3>1, <3>2 DEF AckFailure, Continues, Onward
    <3> QED BY <1>2, <3>3 DEF Shape
  <2>6. CASE a \notin {"modeOn", "modeOff", "homed", "ack"}
    <3>1. IF Len(todo[t]) > 1 THEN GoOn(t, Tail(todo[t])) ELSE Ends(t, "stopped")
      BY <1>3, <1>5, <2>6 DEF RaiseGoesOn
    <3>2. CASE Len(todo[t]) > 1
      <4>1. IsScript(op[t], Tail(todo[t]), Head(Tail(todo[t]))) /\ Onward(op[t], a, Head(Tail(todo[t])))
        BY <1>2, <3>2, FirstAccess DEF Onward
      <4>2. a # "unhalt"
        BY <2>2 DEF Needed
      <4>3. Continues(t)
        BY <2>2, <3>1, <3>2, <4>1, <4>2, Continuing
      <4> QED BY <1>2, <4>3 DEF Shape
    <3>3. CASE ~(Len(todo[t]) > 1)
      <4>1. Finishes(t)
        BY <1>2, <2>6, <3>1, <3>3, Ending DEF Results
      <4> QED BY <1>2, <4>1 DEF Shape
    <3> QED BY <3>2, <3>3
  <2> QED BY <2>3, <2>4, <2>5, <2>6
<1> QED BY <1>4, <1>5

\* Every step of a caller goes on in its script, enters the handshake or ends.
LEMMA StepShape ==
  ASSUME TypeInv, NEW t \in Callers, Step(t)
  PROVE  Shape(t)
BY MoveShape, HandshakeShape, HomeShape, StopJogShape, RaiseShape DEF Step

-----------------------------------------------------------------------------
(* The three kinds of steps, by what they do to the places callers are at. *)

\* Every other caller stays where it is.
OthersStay(t) ==
  \A u \in Callers : u # t =>
    /\ op'[u] = op[u] /\ saved'[u] = saved[u] /\ goal'[u] = goal[u]
    /\ \A x : At(u, x)' <=> At(u, x)

\* Caller t is at access b of operation o.
Arrives(t, o, b) == op'[t] = o /\ \A x : At(t, x)' <=> x = b

Leaves(t) == op'[t] = "idle" /\ \A x : ~At(t, x)'

\* A caller that moves on arrives at the next access or leaves.
LEMMA StepPlaces ==
  ASSUME TypeInv, NEW t \in Callers, Step(t)
  PROVE  LET a == Head(todo[t])
         IN  /\ OthersStay(t) /\ At(t, a) /\ op[t] # "idle" /\ goal' = goal
             /\ MayBeLast(op[t], a) \/ \E b : Follows(op[t], a, b)
             /\ \/ Continues(t) /\ \E b : Arrives(t, op[t], b) /\ Onward(op[t], a, b)
                \/ Enters(t) /\ Arrives(t, "pp", "modePP")
                \/ Finishes(t) /\ Leaves(t)
<1> DEFINE a == Head(todo[t])
<1>1. Shape(t)
  BY StepShape
<1>2. At(t, a) /\ op[t] # "idle" /\ (MayBeLast(op[t], a) \/ \E b : Follows(op[t], a, b))
  BY <1>1, FirstAccess DEF Shape, At, TypeInv
<1>3. CASE Continues(t)
  <2>1. PICK s, b : /\ IsScript(op[t], s, b) /\ Onward(op[t], a, b)
                    /\ todo' = [todo EXCEPT ![t] = s]
    BY <1>3 DEF Continues
  <2>2. op' = op /\ goal' = goal /\ saved' = saved
    BY <1>3 DEF Continues
  <2>3. s # <<>> /\ Head(s) = b
    BY <2>1 DEF IsScript, ScriptOf
  <2>4. OthersStay(t)
    BY <2>1, <2>2 DEF OthersStay, At, TypeInv, CallerType
  <2>5. Arrives(t, op[t], b)
    BY <2>1, <2>2, <2>3 DEF Arrives, At, TypeInv, CallerType
  <2> QED BY <1>2, <1>3, <2>1, <2>2, <2>4, <2>5
<1>4. CASE Enters(t)
  <2>1. /\ todo' = [todo EXCEPT ![t] = Handshake] /\ op' = [op EXCEPT ![t] = "pp"]
        /\ saved' = [saved EXCEPT ![t] = cfg] /\ goal' = goal
    BY <1>4 DEF Enters, EntersPp
  <2>2. Handshake # <<>> /\ Head(Handshake) = "modePP"
    BY DEF Handshake
  <2>3. OthersStay(t)
    BY <2>1 DEF OthersStay, At, TypeInv, CallerType
  <2>4. Arrives(t, "pp", "modePP")
    BY <2>1, <2>2 DEF Arrives, At, TypeInv, CallerType
  <2> QED BY <1>2, <1>4, <2>1, <2>3, <2>4
<1>5. CASE Finishes(t)
  <2>1. /\ todo' = [todo EXCEPT ![t] = <<>>] /\ op' = [op EXCEPT ![t] = "idle"]
        /\ saved' = saved /\ goal' = goal
    BY <1>5 DEF Finishes
  <2>2. OthersStay(t)
    BY <2>1 DEF OthersStay, At, TypeInv, CallerType
  <2>3. Leaves(t)
    BY <2>1 DEF Leaves, At, TypeInv, CallerType
  <2> QED BY <1>2, <1>5, <2>1, <2>2, <2>3
<1> QED BY <1>1, <1>3, <1>4, <1>5 DEF Shape

\* The drive after a step of a caller.
LEMMA StepEffect ==
  ASSUME TypeInv, NEW t \in Callers, Step(t)
  PROVE  LET a == Head(todo[t])
         IN  /\ Touches(t) /\ DriveType'
             /\ drive'.bit4 => a = "set" \/ drive.bit4
             /\ drive'.bit4 /\ Done(t) => a \notin ClearsBit4
             /\ drive'.motion = "pp" => drive.motion = "pp" \/ (Done(t) /\ Starts(a))
             /\ Done(t) /\ a \in {"halt", "slowHalt"} => drive'.motion = "none"
             /\ a # "climb" => (drive'.fault <=> drive.fault)
             /\ a \notin {"modePP", "modeHM", "modePV"} => drive'.mode = drive.mode
             /\ Done(t) /\ a = "modeHM" => drive'.mode = 6
             /\ drive'.homed => drive.homed
             /\ Done(t) /\ Starts(a) /\ drive.mode = 6 => ~drive'.homed
<1> DEFINE a == Head(todo[t])
<1>1. Touches(t) /\ DriveType /\ CallerType
  BY StepShape DEF Shape, TypeInv
<1>2. a = "target" => WithinLimits(goal[t])
  <2>1. MayBeLast(op[t], a) \/ \E b : Follows(op[t], a, b)
    BY StepPlaces
  <2>2. a = "target" => op[t] = "pp"
    BY <2>1, Belongs
  <2> QED BY <2>2 DEF TypeInv, AimInv, Checked
<1>3. CASE Done(t)
  <2>1. drive' = After(a, goal[t])
    BY <1>3 DEF Done, Executes
  <2>0. goal[t] \in Targets \cup {0}
    BY <1>1 DEF CallerType
  <2>2. /\ drive' \in DriveRecord /\ drive'.target \in 0..MaxPos /\ ~drive'.emergency
        /\ drive'.bit4 => a = "set" \/ (drive.bit4 /\ a \notin ClearsBit4)
        /\ drive'.motion = "pp" => drive.motion = "pp" \/ Starts(a)
        /\ a \in {"halt", "slowHalt"} => drive'.motion = "none"
        /\ a # "climb" => (drive'.fault <=> drive.fault)
        /\ a \notin {"modePP", "modeHM", "modePV"} => drive'.mode = drive.mode
        /\ a = "modeHM" => drive'.mode = 6
        /\ drive'.homed => drive.homed
        /\ Starts(a) /\ drive.mode = 6 => ~drive'.homed
    BY <1>1, <1>2, <2>0, <2>1, AfterEffect
  <2>3. DriveType'
    BY <2>2 DEF DriveType
  <2>4. a = "set" => a \notin ClearsBit4
    BY DEF ClearsBit4
  <2> QED BY ONLY <1>1, <1>3, <2>2, <2>3, <2>4
<1>4. CASE NotExecuted(t) /\ ~Done(t)
  <2>1. drive' = drive
    BY <1>4 DEF NotExecuted
  <2> QED BY <1>1, <1>4, <2>1 DEF DriveType
<1> QED BY <1>1, <1>3, <1>4 DEF Touches

\* A call begins a script at an access that is part of no handshake.
Begins(t, o, b) ==
  /\ o \in Operations /\ op[t] = "idle" /\ op' = [op EXCEPT ![t] = o]
  /\ \E s : IsScript(o, s, b) /\ todo' = [todo EXCEPT ![t] = s]
  /\ b \in {"prepare", "ready", "halt", "boundary", "zero"}
  /\ result' = [result EXCEPT ![t] = "none"]
  /\ goal' \in [Callers -> Targets \cup {0}] /\ \A u \in Callers : u # t => goal'[u] = goal[u]
  /\ halted' = halted \ {t} /\ homedIn' = homedIn \ {t} /\ unpulsed' = unpulsed \ {t}
  /\ resent' = resent \ {t}
  /\ late' = {[w EXCEPT !.by = IF w.by = t THEN None ELSE w.by] : w \in late}
  /\ mover' = IF mover = t /\ o \in MotionOps THEN None ELSE mover
  /\ overlapped' = (overlapped \/ (o \in MotionOps /\ \E u \in Callers : op[u] \in MotionOps)
                               \/ (o = "home" /\ jogging))
  /\ \/ CancelIdle /\ idleDue' = FALSE
     \/ o # "move" /\ UNCHANGED idleVars
  /\ calls' \in 0..MaxCalls /\ abort' \in BOOLEAN
  /\ UNCHANGED <<drive, stale, jogging, cfgVars, faults, upsets, stuck>>

\* Every facade operation begins this way, up to its first await.
LEMMA CallShape ==
  ASSUME TypeInv, NEW t \in Callers, Call(t)
  PROVE  \E o, b : Begins(t, o, b)
<1> USE DEF TypeInv
<1>1. ASSUME NEW o, Calls(t, o), NEW s, NEW b, IsScript(o, s, b), todo' = [todo EXCEPT ![t] = s],
             b \in {"prepare", "ready", "halt", "boundary", "zero"},
             goal' \in [Callers -> Targets \cup {0}], \A u \in Callers : u # t => goal'[u] = goal[u],
             \/ CancelIdle /\ idleDue' = FALSE
             \/ o # "move" /\ UNCHANGED idleVars,
             abort' \in BOOLEAN, UNCHANGED <<drive, stale, jogging, cfgVars, faults, upsets, stuck>>
      PROVE  Begins(t, o, b)
  <2>1. calls' \in 0..MaxCalls
    <3>1. \A n \in 0..MaxCalls : n < MaxCalls => n + 1 \in 0..MaxCalls
      OBVIOUS
    <3> QED BY <1>1, <3>1 DEF Calls, OtherType
  <2> QED BY <1>1, <2>1 DEF Begins, Calls
<1>2. ASSUME NEW p \in Targets, Move(t, p) PROVE Begins(t, "move", "prepare")
  <2>1. IsScript("move", <<"prepare">>, "prepare")
    BY LastScript DEF MayBeLast, Accesses
  <2>2. goal' \in [Callers -> Targets \cup {0}] /\ \A u \in Callers : u # t => goal'[u] = goal[u]
    BY <1>2 DEF Move, CallerType
  <2> QED BY <1>1, <1>2, <2>1, <2>2 DEF Move, OtherType
<1>3. ASSUME Home(t) PROVE Begins(t, "home", "ready")
  <2>1. IsScript("home", <<"ready">>, "ready")
    BY LastScript DEF MayBeLast, Accesses
  <2> QED BY <1>1, <1>3, <2>1 DEF Home, CallerType, OtherType
<1>4. ASSUME Stop(t) PROVE Begins(t, "stop", "halt")
  BY <1>1, <1>4, FixedScripts DEF Stop, CallerType, OtherType
<1>5. ASSUME Jog(t) PROVE Begins(t, "jog", "boundary")
  <2>1. IsScript("jog", <<"boundary">>, "boundary")
    BY LastScript DEF MayBeLast, Accesses
  <2> QED BY <1>1, <1>5, <2>1 DEF Jog, CallerType, OtherType
<1>6. ASSUME JogStop(t) PROVE Begins(t, "jogStop", "zero")
  <2>1. IsScript("jogStop", <<"zero">>, "zero")
    BY LastScript DEF MayBeLast, Accesses
  <2> QED BY <1>1, <1>6, <2>1 DEF JogStop, CallerType, OtherType
<1> QED BY <1>2, <1>3, <1>4, <1>5, <1>6 DEF Call

\* The caller arrives at the first access of its script.
LEMMA CallPlaces ==
  ASSUME TypeInv, NEW t \in Callers, NEW o, NEW b, Begins(t, o, b)
  PROVE  Arrives(t, o, b) /\ (\A x : ~At(t, x)) /\ o \in MotionOps \cup {"stop"} /\ o # "pp"
         /\ \A u \in Callers : u # t => op'[u] = op[u] /\ \A x : At(u, x)' <=> At(u, x)
<1>1. PICK s : IsScript(o, s, b) /\ todo' = [todo EXCEPT ![t] = s]
  BY DEF Begins
<1>2. s # <<>> /\ Head(s) = b
  BY <1>1 DEF IsScript, ScriptOf
<1>3. op' = [op EXCEPT ![t] = o] /\ todo[t] = <<>>
  BY DEF Begins, TypeInv, ScriptInv
<1> QED BY <1>1, <1>2, <1>3 DEF Arrives, At, Begins, TypeInv, CallerType, MotionOps

\* The idle shutdown, the end of a jog, the motion engine, a fault that comes up and
\* an attempt that is repeated leave every caller where it is, and start no motion.
Background ==
  /\ UNCHANGED <<callVars, cfgVars, mover, unpulsed, stuck, overlapped, halted>>
  /\ DriveType'
  /\ drive'.mode = drive.mode /\ (drive'.bit4 => drive.bit4) /\ (drive.fault => drive'.fault)
  /\ drive'.motion = "pp" => drive.motion = "pp"
  /\ \/ homedIn' = homedIn /\ (drive'.homed => drive.homed)
     \/ homedIn' = homedIn \cup {t \in Callers : op[t] = "home"}
  /\ resent \subseteq resent'
  /\ \/ late' = late
     \/ \E t \in Callers : /\ todo[t] # <<>> /\ late' = late \cup Copies(t)
                           /\ op[t] = "pp" /\ At(t, "set") => t \in resent'

Around ==
  Idle \/ JogLapses \/ EngineRuns \/ Upset \/ \E t \in Callers : AttemptFails(t)

\* Every such step is one of these.
LEMMA BackgroundShape ==
  ASSUME TypeInv, Around \/ UNCHANGED vars
  PROVE  Background
<1>1. drive \in DriveRecord /\ drive.target \in 0..MaxPos /\ ~drive.emergency
  BY DEF TypeInv, DriveType
<1>2. CASE UNCHANGED <<callVars, cfgVars, mover, unpulsed, stuck, overlapped, halted, homedIn,
                       late, resent>>
           /\ drive' \in {drive, Apply(drive, DisableWord)}
  <2>1. CASE drive' = drive
    BY <1>1, <1>2, <2>1 DEF Background, DriveType
  <2>2. CASE drive' = Apply(drive, DisableWord)
    <3>1. "new" \notin DisableWord /\ "reset" \notin DisableWord
      BY DEF DisableWord
    <3>2. drive' \in DriveRecord
      BY <1>1, <2>2, ApplyType
    <3>3. /\ drive'.mode = drive.mode /\ drive'.target = drive.target
          /\ drive'.emergency = drive.emergency /\ ~drive'.bit4
          /\ (drive'.fault <=> drive.fault) /\ (drive'.homed => drive.homed)
          /\ drive'.motion = "pp" => drive.motion = "pp"
      BY <1>1, <2>2, <3>1, ApplyEffect
    <3>4. DriveType'
      BY <1>1, <3>2, <3>3 DEF DriveType
    <3> QED BY <1>2, <3>3, <3>4 DEF Background
  <2> QED BY <1>2, <2>1, <2>2
<1>3. CASE Idle
  BY <1>2, <1>3 DEF Idle, IdleFires, IdleLooks, IdleWrites, IdleRaises, IdleAttemptFails,
                     OrphanWrites, ghostVars
<1>4. CASE JogLapses
  <2>1. drive' = [drive EXCEPT !.tv = 0] /\ drive' \in DriveRecord
    BY <1>1, <1>4, TvType DEF JogLapses
  <2>2. /\ drive'.mode = drive.mode /\ drive'.target = drive.target
        /\ drive'.emergency = drive.emergency /\ drive'.bit4 = drive.bit4
        /\ drive'.fault = drive.fault /\ drive'.homed = drive.homed
        /\ drive'.motion = drive.motion
    BY <1>1, <2>1 DEF DriveRecord
  <2>3. DriveType'
    BY <1>1, <2>1, <2>2 DEF DriveType
  <2> QED BY <1>4, <2>2, <2>3 DEF JogLapses, Background, ghostVars
<1>5. CASE EngineRuns
  <2>1. drive' \in DriveRecord
    BY <1>1, <1>5, TurnType DEF EngineRuns
  <2>2. /\ drive'.mode = drive.mode /\ drive'.target = drive.target
        /\ drive'.emergency = drive.emergency /\ drive'.bit4 = drive.bit4
        /\ drive'.fault = drive.fault
        /\ drive'.motion = "pp" => drive.motion = "pp"
    BY <1>1, <1>5, TurnEffect DEF EngineRuns
  <2>3. DriveType'
    BY <1>1, <2>1, <2>2 DEF DriveType
  <2> QED BY <1>5, <2>2, <2>3 DEF EngineRuns, Background
<1>6. CASE Upset
  <2> DEFINE r == AtRest(drive)
  <2>1. r \in DriveRecord /\ drive' = [r EXCEPT !.fault = TRUE, !.state = "fault"]
    BY <1>1, <1>6, RestType DEF Upset
  <2>2. /\ r.mode = drive.mode /\ r.target = drive.target /\ r.emergency = drive.emergency
        /\ r.bit4 = drive.bit4 /\ r.homed = drive.homed /\ r.motion = "none"
    BY <1>1 DEF AtRest, DriveRecord
  <2> HIDE DEF r
  <2>3. /\ drive'.mode = r.mode /\ drive'.target = r.target /\ drive'.emergency = r.emergency
        /\ drive'.bit4 = r.bit4 /\ drive'.homed = r.homed /\ drive'.motion = r.motion
        /\ drive'.fault /\ drive' \in DriveRecord
    <3>1. "fault" \in DriveStates
      BY DEF DriveStates
    <3> QED BY <2>1, <3>1 DEF DriveRecord
  <2>4. DriveType'
    BY <1>1, <2>2, <2>3 DEF DriveType
  <2> QED BY <1>6, <2>2, <2>3, <2>4 DEF Upset, Background, ghostVars
<1>7. CASE UNCHANGED vars
  BY <1>2, <1>7 DEF vars, ghostVars
<1>8. CASE \E t \in Callers : AttemptFails(t)
  <2>1. PICK t \in Callers : AttemptFails(t)
    BY <1>8
  <2>2. resent \subseteq resent' /\ (op[t] = "pp" /\ At(t, "set") => t \in resent')
    BY <2>1 DEF AttemptFails
  <2>3. DriveType'
    BY <1>1, <2>1 DEF AttemptFails, DriveType
  <2> QED BY <2>1, <2>2, <2>3 DEF AttemptFails, Background
<1> QED BY <1>3, <1>4, <1>5, <1>6, <1>7, <1>8 DEF Around

\* A write that comes late does to the drive what it would have done in time, and
\* nothing to the places callers are at.
LEMMA LateEffect ==
  ASSUME TypeInv, NEW w \in late, LateWrite(w)
  PROVE  LET a == w.act
         IN  /\ DriveType'
             /\ drive'.bit4 => a = "set" \/ drive.bit4
             /\ a # "climb" => (drive'.fault <=> drive.fault)
             /\ drive'.motion = "pp" => drive.motion = "pp" \/ Starts(a)
             /\ a \in {"halt", "slowHalt"} => drive'.motion = "none"
             /\ a \notin {"modePP", "modeHM", "modePV"} => drive'.mode = drive.mode
             /\ a = "modeHM" => drive'.mode = 6
             /\ drive'.homed => drive.homed
             /\ Starts(a) /\ drive.mode = 6 => ~drive'.homed
<1> DEFINE a == w.act
<1>1. DriveType /\ w.goal \in Targets \cup {0} /\ (a = "target" => WithinLimits(w.goal))
  BY DEF TypeInv, OtherType, AimInv
<1>2. CASE a = "climb"
  <2>1. PICK cw \in ClimbWords : drive' = Apply(drive, cw)
    BY <1>2 DEF LateWrite
  <2>2. "new" \notin cw
    BY DEF ClimbWords, ResetWord, ShutdownWord, SwitchOnWord, EnableWord
  <2>3. drive' \in DriveRecord
    BY <1>1, <2>1, ApplyType DEF DriveType
  <2>4. /\ drive'.mode = drive.mode /\ drive'.target = drive.target
        /\ drive'.emergency = drive.emergency /\ ~drive'.bit4
        /\ (drive'.homed => drive.homed)
        /\ drive'.motion = "pp" => drive.motion = "pp"
    BY <1>1, <2>1, <2>2, ApplyEffect DEF DriveType
  <2>5. DriveType'
    BY <1>1, <2>3, <2>4 DEF DriveType
  <2> QED BY <1>2, <2>4, <2>5 DEF Starts
<1>3. CASE a # "climb"
  <2>1. drive' = After(a, w.goal)
    BY <1>3 DEF LateWrite, Executes
  <2>2. /\ drive' \in DriveRecord /\ drive'.target \in 0..MaxPos /\ ~drive'.emergency
        /\ drive'.bit4 => a = "set" \/ (drive.bit4 /\ a \notin ClearsBit4)
        /\ drive'.motion = "pp" => drive.motion = "pp" \/ Starts(a)
        /\ a \in {"halt", "slowHalt"} => drive'.motion = "none"
        /\ a # "climb" => (drive'.fault <=> drive.fault)
        /\ a \notin {"modePP", "modeHM", "modePV"} => drive'.mode = drive.mode
        /\ a = "modeHM" => drive'.mode = 6
        /\ drive'.homed => drive.homed
        /\ Starts(a) /\ drive.mode = 6 => ~drive'.homed
    BY <1>1, <2>1, AfterEffect
  <2>3. DriveType'
    BY <2>2 DEF DriveType
  <2> QED BY <1>3, <2>2, <2>3
<1> QED BY <1>2, <1>3

\* Callers, their scripts and what they are owed are left as they are.
LEMMA LateLeaves ==
  ASSUME NEW w \in late, LateWrite(w)
  PROVE  /\ op' = op /\ late' = late /\ resent' = resent /\ cfg' = cfg /\ saved' = saved
         /\ goal' = goal /\ result' = result /\ UNCHANGED idleVars
         /\ \A t, x : At(t, x)' <=> At(t, x)
         /\ overlapped => overlapped'
         /\ mover' = IF Starts(w.act) THEN w.by ELSE mover
         /\ homedIn \ {w.by} \subseteq homedIn' /\ unpulsed \subseteq unpulsed'
         /\ ~Starts(w.act) => homedIn' = homedIn
         /\ profile' = IF w.act = "profile" THEN w.by ELSE profile
         /\ w.act \notin {"halt", "slowHalt"} => halted' = halted
<1>1. UNCHANGED <<op, todo, goal, result, late, resent, cfg, saved, idleVars>>
  BY DEF LateWrite, callVars
<1>2. \A t, x : At(t, x)' <=> At(t, x)
  BY <1>1 DEF At
<1>3. CASE w.act = "climb"
  BY <1>1, <1>2, <1>3 DEF LateWrite, Starts
<1>4. CASE w.act # "climb"
  BY <1>1, <1>2, <1>4 DEF LateWrite, Executes
<1> QED BY <1>3, <1>4

\* A motion command meets none but its own late writes, unless it is recorded.
LEMMA LateOwn ==
  ASSUME NEW w \in late, LateWrite(w), ~overlapped', NEW u \in Callers, op[u] \in MotionOps,
         w.act \notin {"halt", "slowHalt", "slowQuick", "zero"}
  PROVE  ~overlapped /\ w.by = u /\ (w.act = "climb" => At(u, "climb"))
BY DEF LateWrite, Strays

\* The kinds of steps there are.
LEMMA Steps ==
  ASSUME TypeInv, [Next]_vars
  PROVE  \/ \E t \in Callers : Step(t)
         \/ \E t \in Callers : \E o, b : Begins(t, o, b)
         \/ Background
         \/ \E w \in late : LateWrite(w)
BY CallShape, BackgroundShape DEF Next, Quiet, Around

-----------------------------------------------------------------------------
(* Type correctness. *)

\* Operations, scripts, targets and results stay what they are.
LEMMA CallerTypeStep ==
  ASSUME TypeInv, [Next]_vars
  PROVE  CallerType' /\ ScriptInv'
<1> USE DEF TypeInv
<1>1. ASSUME NEW t \in Callers, NEW o \in MotionOps \cup {"idle", "stop"}, NEW s,
             op' = [op EXCEPT ![t] = o], todo' = [todo EXCEPT ![t] = s],
             IF o = "idle" THEN s = <<>> ELSE s \in Seq(Accesses) /\ ScriptOf(o, s)
      PROVE  /\ op' \in [Callers -> MotionOps \cup {"idle", "stop"}]
             /\ todo' \in [Callers -> Seq(Accesses)] /\ ScriptInv'
  <2>1. CASE o = "idle"
    <3>1. s = <<>> /\ <<>> \in Seq(Accesses)
      BY <1>1, <2>1
    <3> QED BY <1>1, <2>1, <3>1 DEF CallerType, ScriptInv
  <2>2. CASE o # "idle"
    BY <1>1, <2>2 DEF CallerType, ScriptInv
  <2> QED BY <2>1, <2>2
<1>2. ASSUME NEW t \in Callers, Step(t) PROVE CallerType' /\ ScriptInv'
  <2>1. Shape(t)
    BY <1>2, StepShape
  <2>2. CASE Continues(t)
    <3>1. PICK s, b : IsScript(op[t], s, b) /\ todo' = [todo EXCEPT ![t] = s]
      BY <2>2 DEF Continues
    <3>2. op' = [op EXCEPT ![t] = op[t]] /\ op[t] \in MotionOps \cup {"idle", "stop"} /\ op[t] # "idle"
      BY <2>1, <2>2, FirstAccess DEF Continues, CallerType, Shape
    <3>3. /\ op' \in [Callers -> MotionOps \cup {"idle", "stop"}]
          /\ todo' \in [Callers -> Seq(Accesses)] /\ ScriptInv'
      BY <1>1, <3>1, <3>2 DEF IsScript
    <3> QED BY <2>2, <3>3 DEF Continues, CallerType, Results
  <2>3. CASE Enters(t)
    <3>1. op' = [op EXCEPT ![t] = "pp"] /\ todo' = [todo EXCEPT ![t] = Handshake]
      BY <2>3 DEF Enters, EntersPp
    <3>2. /\ op' \in [Callers -> MotionOps \cup {"idle", "stop"}]
          /\ todo' \in [Callers -> Seq(Accesses)] /\ ScriptInv'
      BY <1>1, <3>1, FixedScripts DEF IsScript, MotionOps
    <3> QED BY <2>3, <3>2 DEF Enters, EntersPp, CallerType, OtherType
  <2>4. CASE Finishes(t)
    <3>1. op' = [op EXCEPT ![t] = "idle"] /\ todo' = [todo EXCEPT ![t] = <<>>]
      BY <2>4 DEF Finishes
    <3>2. /\ op' \in [Callers -> MotionOps \cup {"idle", "stop"}]
          /\ todo' \in [Callers -> Seq(Accesses)] /\ ScriptInv'
      BY <1>1, <3>1
    <3> QED BY <2>4, <3>2 DEF Finishes, CallerType
  <2> QED BY <2>1, <2>2, <2>3, <2>4 DEF Shape
<1>3. ASSUME NEW t \in Callers, NEW o, NEW b, Begins(t, o, b) PROVE CallerType' /\ ScriptInv'
  <2>1. PICK s : IsScript(o, s, b) /\ todo' = [todo EXCEPT ![t] = s]
    BY <1>3 DEF Begins
  <2>2. op' = [op EXCEPT ![t] = o] /\ o \in MotionOps \cup {"idle", "stop"} /\ o # "idle"
    BY <1>3 DEF Begins, MotionOps
  <2>3. /\ op' \in [Callers -> MotionOps \cup {"idle", "stop"}]
        /\ todo' \in [Callers -> Seq(Accesses)] /\ ScriptInv'
    BY <1>1, <2>1, <2>2 DEF IsScript
  <2> QED BY <1>3, <2>3 DEF Begins, CallerType, Results, cfgVars
<1>4. ASSUME Background PROVE CallerType' /\ ScriptInv'
  BY <1>4 DEF Background, callVars, cfgVars, CallerType, ScriptInv
<1>5. ASSUME NEW w \in late, LateWrite(w) PROVE CallerType' /\ ScriptInv'
  BY <1>5 DEF LateWrite, callVars, CallerType, ScriptInv
<1> QED BY <1>2, <1>3, <1>4, <1>5, Steps

\* The drive stays a drive, with its target inside the limits.
LEMMA DriveTypeStep ==
  ASSUME TypeInv, [Next]_vars
  PROVE  DriveType'
<1>1. ASSUME NEW t \in Callers, NEW o, NEW b, Begins(t, o, b) PROVE DriveType'
  BY <1>1 DEF Begins, DriveType, TypeInv
<1> QED BY <1>1, Steps, StepEffect, LateEffect DEF Background

\* What a failed attempt leaves is a write of its caller.
LEMMA CopiesType ==
  ASSUME CallerType, NEW t \in Callers
  PROVE  Copies(t) \subseteq [by : Callers \cup {None}, act : Writes, goal : Targets \cup {0}]
BY DEF Copies, CallerType

\* ... and it is the access that t is at.
LEMMA CopyOf ==
  ASSUME NEW t, NEW w \in Copies(t)
  PROVE  /\ w.by = t /\ w.act = Head(todo[t]) /\ w.act \in Writes
         /\ w.act = "target" => w.goal = goal[t]
BY DEF Copies

\* A new call of t is not the owner of what came before.
LEMMA Disowned ==
  ASSUME OtherType, NEW t \in Callers, NEW o, NEW b, Begins(t, o, b)
  PROVE  /\ late' \subseteq [by : Callers \cup {None}, act : Writes, goal : Targets \cup {0}]
         /\ \A w \in late' : \E v \in late :
              /\ w.act = v.act /\ w.goal = v.goal
              /\ w.by = None \/ (w.by = v.by /\ v.by # t)
<1>1. late' = {[v EXCEPT !.by = IF v.by = t THEN None ELSE v.by] : v \in late}
  BY DEF Begins
<1>2. late \subseteq [by : Callers \cup {None}, act : Writes, goal : Targets \cup {0}]
  BY DEF OtherType
<1>3. ASSUME NEW v \in late
      PROVE  LET w == [v EXCEPT !.by = IF v.by = t THEN None ELSE v.by]
             IN  /\ w \in [by : Callers \cup {None}, act : Writes, goal : Targets \cup {0}]
                 /\ w.act = v.act /\ w.goal = v.goal
                 /\ w.by = None \/ (w.by = v.by /\ v.by # t)
  BY <1>2
<1> QED BY <1>1, <1>3

\* Flags, counters and ghosts stay in their sets.
LEMMA OtherTypeStep ==
  ASSUME TypeInv, [Next]_vars
  PROVE  OtherType'
<1> USE DEF TypeInv
<1>1. ASSUME NEW t \in Callers, Step(t) PROVE OtherType'
  <2>1. Touches(t) /\ (Continues(t) \/ Enters(t) \/ Finishes(t))
    BY <1>1, StepShape DEF Shape
  <2>2. /\ stale' \in BOOLEAN /\ profile' \in Callers \cup {None} /\ mover' \in Callers \cup {None}
        /\ homedIn' \subseteq Callers /\ unpulsed' \subseteq Callers /\ halted' \subseteq Callers
    <3>1. CASE Done(t)
      BY <3>1 DEF Done, Executes, OtherType
    <3>2. CASE NotExecuted(t)
      BY <3>2 DEF NotExecuted, OtherType
    <3> QED BY <2>1, <3>1, <3>2 DEF Touches
  <2>3. /\ timer' \in BOOLEAN /\ orphan' \in BOOLEAN /\ idleDue' \in BOOLEAN
        /\ shutdown' \in {"none", "looks", "writes"} /\ cfg' \in Callers \cup {None}
    <3>1. CASE Continues(t)
      BY <3>1 DEF Continues, idleVars, OtherType
    <3>2. CASE Enters(t)
      BY <3>2 DEF Enters, EntersPp, idleVars, OtherType
    <3>3. CASE Finishes(t)
      <4>1. cfg' \in Callers \cup {None}
        BY <3>3 DEF Finishes, OtherType, CallerType
      <4>2. CASE ScheduleIdle /\ idleDue' = TRUE
        BY <4>1, <4>2 DEF ScheduleIdle, OtherType
      <4>3. CASE UNCHANGED idleVars
        BY <4>1, <4>3 DEF idleVars, OtherType
      <4> QED BY <3>3, <4>2, <4>3 DEF Finishes
    <3> QED BY <2>1, <3>1, <3>2, <3>3
  <2>4. /\ late' \subseteq [by : Callers \cup {None}, act : Writes, goal : Targets \cup {0}]
        /\ resent' \subseteq Callers
    BY <2>1, CopiesType DEF Touches, Done, NotExecuted, OtherType
  <2> QED BY <2>1, <2>2, <2>3, <2>4 DEF Touches, OtherType
<1>2. ASSUME NEW t \in Callers, NEW o, NEW b, Begins(t, o, b) PROVE OtherType'
  <2>1. /\ timer' \in BOOLEAN /\ orphan' \in BOOLEAN /\ idleDue' \in BOOLEAN
        /\ shutdown' \in {"none", "looks", "writes"}
    BY <1>2 DEF Begins, CancelIdle, idleVars, OtherType
  <2>2. overlapped' \in BOOLEAN
    BY <1>2 DEF Begins, OtherType
  <2>3. /\ late' \subseteq [by : Callers \cup {None}, act : Writes, goal : Targets \cup {0}]
        /\ resent' \subseteq Callers
    BY <1>2, Disowned DEF Begins, OtherType
  <2> QED BY <1>2, <2>1, <2>2, <2>3 DEF Begins, cfgVars, OtherType
<1>3. ASSUME Background, Around \/ UNCHANGED vars PROVE OtherType'
  <2>1. \A m \in Nat : \A n \in 0..m : n < m => n + 1 \in 0..m
    OBVIOUS
  <2>2. CASE Idle
    <3>1. CASE IdleFires
      BY <3>1 DEF OtherType, cfgVars, IdleFires, boundVars, ghostVars
    <3>2. CASE IdleLooks
      <4>1. idleDue' \in BOOLEAN /\ shutdown' \in {"none", "writes"}
        BY <3>2 DEF IdleLooks
      <4> QED BY <3>2, <4>1 DEF OtherType, cfgVars, IdleLooks, boundVars, ghostVars
    <3>3. CASE IdleWrites
      BY <3>3 DEF OtherType, cfgVars, IdleWrites, boundVars, ghostVars
    <3>4. CASE IdleRaises
      <4>1. faults' \in 0..MaxFaults
        BY <2>1, <3>4 DEF OtherType, IdleRaises
      <4> QED BY <3>4, <4>1 DEF OtherType, cfgVars, IdleRaises, ghostVars
    <3>6. CASE IdleAttemptFails
      <4>1. faults' \in 0..MaxFaults
        BY <2>1, <3>6 DEF OtherType, IdleAttemptFails
      <4> QED BY <3>6, <4>1 DEF OtherType, cfgVars, IdleAttemptFails, ghostVars
    <3>5. CASE OrphanWrites
      BY <3>5 DEF OtherType, cfgVars, OrphanWrites, boundVars, ghostVars
    <3> QED BY <2>2, <3>1, <3>2, <3>3, <3>4, <3>5, <3>6 DEF Idle
  <2>3. CASE JogLapses
    BY <1>3, <2>3 DEF OtherType, JogLapses, cfgVars, idleVars, boundVars, ghostVars
  <2>4. CASE EngineRuns
    <3>1. stale' \in BOOLEAN /\ homedIn' \subseteq Callers
      BY <2>4 DEF OtherType, EngineRuns
    <3> QED BY <2>4, <3>1 DEF OtherType, EngineRuns, cfgVars, idleVars, boundVars
  <2>5. CASE Upset
    BY <1>3, <2>1, <2>5 DEF OtherType, Upset, cfgVars, idleVars, ghostVars
  <2>6. CASE UNCHANGED vars
    BY <2>6 DEF OtherType, vars, cfgVars, idleVars, boundVars, ghostVars
  <2>7. CASE \E t \in Callers : AttemptFails(t)
    <3>1. PICK t \in Callers : AttemptFails(t)
      BY <2>7
    <3>2. faults' \in 0..MaxFaults
      BY <2>1, <3>1 DEF OtherType, AttemptFails
    <3>3. late' \subseteq [by : Callers \cup {None}, act : Writes, goal : Targets \cup {0}]
      BY <3>1, CopiesType DEF AttemptFails, OtherType
    <3>4. resent' \subseteq Callers
      BY <3>1 DEF AttemptFails, OtherType
    <3> QED BY <3>1, <3>2, <3>3, <3>4 DEF OtherType, AttemptFails, cfgVars, idleVars
  <2> QED BY <1>3, <2>2, <2>3, <2>4, <2>5, <2>6, <2>7 DEF Around
<1>4. ASSUME NEW w \in late, LateWrite(w) PROVE OtherType'
  <2>1. w.by \in Callers \cup {None}
    BY DEF OtherType
  <2>2. /\ stale' \in BOOLEAN /\ mover' \in Callers \cup {None}
        /\ homedIn' \subseteq Callers /\ unpulsed' \subseteq Callers /\ halted' \subseteq Callers
    <3>1. CASE w.act = "climb"
      BY <1>4, <3>1 DEF LateWrite, OtherType
    <3>2. CASE w.act # "climb"
      BY <1>4, <2>1, <3>2 DEF LateWrite, Executes, OtherType
    <3> QED BY <3>1, <3>2
  <2>3. profile' \in Callers \cup {None}
    BY <1>4, <2>1 DEF LateWrite, OtherType
  <2>4. stuck' \in BOOLEAN /\ overlapped' \in BOOLEAN
    BY <1>4 DEF LateWrite, OtherType
  <2> QED BY <1>4, <2>2, <2>3, <2>4 DEF LateWrite, OtherType, idleVars, boundVars
<1> QED BY <1>1, <1>2, <1>3, <1>4, CallShape, BackgroundShape DEF Next, Quiet, Around

\* What is not yet checked does not move: a target reaches the handshake through
\* the limit check alone.
LEMMA AimStep ==
  ASSUME TypeInv, [Next]_vars
  PROVE  AimInv'
<1> USE DEF TypeInv
<1>1. ASSUME NEW t \in Callers, Step(t) PROVE AimInv'
  <2> DEFINE a == Head(todo[t])
  <2>1. /\ OthersStay(t) /\ At(t, a) /\ goal' = goal
        /\ MayBeLast(op[t], a) \/ \E b : Follows(op[t], a, b)
        /\ \/ Continues(t) /\ \E b : Arrives(t, op[t], b) /\ Onward(op[t], a, b)
           \/ Enters(t) /\ Arrives(t, "pp", "modePP")
           \/ Finishes(t) /\ Leaves(t)
    BY <1>1, StepPlaces
  <2>2. ASSUME NEW u \in Callers, u # t, Checked(u)' PROVE WithinLimits(goal'[u])
    <3>1. Checked(u)
      BY <2>1, <2>2 DEF Checked, OthersStay
    <3> QED BY <2>1, <3>1 DEF AimInv
  <2>3. ASSUME Checked(t)' PROVE WithinLimits(goal'[t])
    <3>1. CASE Continues(t) /\ \E b : Arrives(t, op[t], b) /\ Onward(op[t], a, b)
      <4>1. PICK b : Arrives(t, op[t], b) /\ Onward(op[t], a, b)
        BY <3>1
      <4>2. op'[t] = op[t] /\ \A x : At(t, x)' <=> x = b
        BY <4>1 DEF Arrives
      <4>3. op[t] = "pp" \/ (op[t] = "move" /\ b \in {"look", "homed"})
        BY <2>3, <4>2 DEF Checked
      <4>4. op[t] = "move" /\ b \in {"look", "homed"} => a \in {"unhalt", "look"}
        BY <4>1 DEF Onward, Follows
      <4>5. op[t] = "pp" \/ (op[t] = "move" /\ a = "unhalt") \/ (op[t] = "move" /\ At(t, "look"))
        BY <2>1, <4>3, <4>4
      <4>6. CASE op[t] = "pp" \/ (op[t] = "move" /\ At(t, "look"))
        BY <2>1, <4>6 DEF AimInv, Checked
      <4>7. CASE op[t] = "move" /\ a = "unhalt"
        BY <2>1, <3>1, <4>7 DEF Continues
      <4> QED BY <4>5, <4>6, <4>7
    <3>2. CASE Enters(t)
      <4>1. Checked(t)
        BY <2>1, <3>2 DEF Enters, Checked
      <4> QED BY <2>1, <4>1 DEF AimInv
    <3>3. CASE Leaves(t)
      BY <2>3, <3>3 DEF Leaves, Checked
    <3> QED BY <2>1, <3>1, <3>2, <3>3
  <2>4. ASSUME NEW w \in late', w.act = "target" PROVE WithinLimits(w.goal)
    <3>1. Touches(t) /\ CallerType
      BY <1>1, StepEffect
    <3>2. CASE w \in late
      BY <2>4, <3>2 DEF AimInv
    <3>3. CASE w \in Copies(t)
      <4>1. a = "target" /\ w.goal = goal[t]
        BY <2>4, <3>1, <3>3, CopyOf
      <4>2. op[t] = "pp"
        BY <2>1, <4>1, Belongs
      <4> QED BY <4>1, <4>2 DEF AimInv, Checked
    <3> QED BY <3>1, <3>2, <3>3 DEF Touches, Done, NotExecuted
  <2> QED BY <2>2, <2>3, <2>4 DEF AimInv, WithinLimits
<1>2. ASSUME NEW t \in Callers, NEW o, NEW b, Begins(t, o, b) PROVE AimInv'
  <2>1. /\ Arrives(t, o, b) /\ o # "pp" /\ b \notin {"look", "homed"}
        /\ \A u \in Callers : u # t => op'[u] = op[u] /\ \A x : At(u, x)' <=> At(u, x)
        /\ \A u \in Callers : u # t => goal'[u] = goal[u]
    BY <1>2, CallPlaces DEF Begins
  <2>2. ~Checked(t)'
    BY <2>1 DEF Arrives, Checked
  <2>3. ASSUME NEW u \in Callers, u # t, Checked(u)' PROVE WithinLimits(goal'[u])
    <3>1. Checked(u)
      BY <2>1, <2>3 DEF Checked
    <3> QED BY <2>1, <2>3, <3>1 DEF AimInv
  <2>4. ASSUME NEW w \in late', w.act = "target" PROVE WithinLimits(w.goal)
    BY <1>2, <2>4, Disowned DEF AimInv
  <2> QED BY <2>2, <2>3, <2>4 DEF AimInv, WithinLimits
<1>3. ASSUME Background PROVE AimInv'
  <2>1. op' = op /\ todo' = todo /\ goal' = goal
    BY <1>3 DEF Background, callVars
  <2>2. ASSUME NEW w \in late', w.act = "target" PROVE WithinLimits(w.goal)
    <3>1. CASE w \in late
      BY <2>2, <3>1 DEF AimInv
    <3>2. ASSUME NEW t \in Callers, todo[t] # <<>>, w \in Copies(t) PROVE WithinLimits(w.goal)
      <4>1. Head(todo[t]) = "target" /\ w.goal = goal[t]
        BY <2>2, <3>2, CopyOf
      <4>2. MayBeLast(op[t], Head(todo[t])) \/ \E b : Follows(op[t], Head(todo[t]), b)
        BY <3>2, FirstAccess
      <4>3. op[t] = "pp"
        BY <4>1, <4>2, Belongs
      <4> QED BY <4>1, <4>3 DEF AimInv, Checked
    <3> QED BY <1>3, <3>1, <3>2 DEF Background
  <2> QED BY <2>1, <2>2 DEF AimInv, Checked, At, WithinLimits
<1>4. ASSUME NEW w \in late, LateWrite(w) PROVE AimInv'
  <2>1. op' = op /\ goal' = goal /\ late' = late /\ \A t, x : At(t, x)' <=> At(t, x)
    BY <1>4, LateLeaves
  <2> QED BY <2>1 DEF AimInv, Checked, WithinLimits
<1> QED BY <1>1, <1>2, <1>3, <1>4, Steps

-----------------------------------------------------------------------------
(* The other parts of the invariant. *)

\* A caller is in a motion command after a step only if it was before.
LEMMA StepOps ==
  ASSUME TypeInv, NEW t \in Callers, Step(t)
  PROVE  /\ overlapped' = overlapped
         /\ \A u \in Callers :
              /\ op'[u] \in MotionOps => op[u] \in MotionOps
              /\ op'[u] \in {"move", "pp"} => op[u] \in {"move", "pp"}
<1>1. OthersStay(t) /\ overlapped' = overlapped
  BY StepPlaces, StepEffect DEF Touches
<1>2. op'[t] = op[t] \/ (op[t] = "move" /\ op'[t] = "pp") \/ op'[t] = "idle"
  BY StepPlaces DEF Enters, Arrives, Leaves
<1> QED BY <1>1, <1>2 DEF OthersStay, MotionOps

\* A call that is not alone is recorded.
LEMMA BeginsOps ==
  ASSUME TypeInv, NEW t \in Callers, NEW o, NEW b, Begins(t, o, b), ~overlapped'
  PROVE  /\ ~overlapped
         /\ o \in MotionOps => \A u \in Callers : op[u] \notin MotionOps
BY DEF Begins

\* A step of one caller, seen from another in a motion command: what only motion
\* commands do has not happened.
LEMMA Bystander ==
  ASSUME TypeInv, Alone, ~overlapped, NEW t \in Callers, Step(t),
         NEW u \in Callers, u # t, op[u] \in MotionOps
  PROVE  LET a == Head(todo[t])
         IN  /\ op[t] = "stop"
             /\ a \notin {"set", "climb", "profile", "modePP", "modeHM", "modePV"}
<1> DEFINE a == Head(todo[t])
<1>1. op[t] \notin MotionOps
  BY DEF Alone
<1>2. MayBeLast(op[t], a) \/ \E b : Follows(op[t], a, b)
  BY StepPlaces
<1> QED BY <1>1, <1>2, Belongs DEF MotionOps

\* A second motion command is recorded when it begins.
LEMMA AloneStep ==
  ASSUME TypeInv, Alone, [Next]_vars
  PROVE  Alone'
<1>1. ASSUME NEW t \in Callers, Step(t) PROVE Alone'
  BY <1>1, StepOps DEF Alone
<1>2. ASSUME NEW t \in Callers, NEW o, NEW b, Begins(t, o, b), ~overlapped' PROVE Alone'
  <2>1. /\ ~overlapped /\ op'[t] = o
        /\ o \in MotionOps => \A u \in Callers : op[u] \notin MotionOps
        /\ \A u \in Callers : u # t => op'[u] = op[u]
    BY <1>2, BeginsOps, CallPlaces DEF Arrives
  <2> QED BY <2>1 DEF Alone
<1>3. ASSUME Background PROVE Alone'
  BY <1>3 DEF Background, callVars, Alone
<1>4. ASSUME NEW w \in late, LateWrite(w) PROVE Alone'
  BY <1>4, LateLeaves DEF Alone
<1> QED BY <1>1, <1>2, <1>3, <1>4, Steps DEF Alone

\* Bit 4 stays low from the enable word of a move to its set-point, or is high because
\* an attempt at the set-point has come through.
LEMMA EdgeStep ==
  ASSUME TypeInv, Alone, EdgeIsReady, LateInv, [Next]_vars
  PROVE  EdgeIsReady'
<1>1. ASSUME NEW t \in Callers, Step(t), ~overlapped', NEW u \in Callers, BeforePulse(u)',
             drive'.bit4
      PROVE  At(u, "set")' /\ (mover' = u \/ drive'.fault)
  <2> DEFINE a == Head(todo[t])
  <2>1. /\ ~overlapped
        /\ drive'.bit4 => a = "set" \/ drive.bit4
        /\ drive'.bit4 /\ Done(t) => a \notin ClearsBit4
        /\ a # "climb" => (drive'.fault <=> drive.fault)
        /\ Done(t) \/ NotExecuted(t)
    BY <1>1, StepOps, StepEffect DEF Touches
  <2>2. /\ OthersStay(t) /\ At(t, a)
        /\ \/ Continues(t) /\ \E b : Arrives(t, op[t], b) /\ Onward(op[t], a, b)
           \/ Enters(t) /\ Arrives(t, "pp", "modePP")
           \/ Finishes(t) /\ Leaves(t)
    BY <1>1, StepPlaces
  <2>3. CASE u # t
    <3>1. BeforePulse(u) /\ op[u] \in MotionOps
      BY <1>1, <2>2, <2>3 DEF BeforePulse, OthersStay, MotionOps
    <3>2. a \notin {"set", "climb"} /\ drive.bit4
      BY <1>1, <2>1, <2>3, <3>1, Bystander
    <3>3. At(u, "set") /\ (mover = u \/ drive.fault)
      BY <2>1, <3>1, <3>2 DEF EdgeIsReady
    <3>4. mover' = mover
      BY <2>1, <3>2 DEF Done, Executes, NotExecuted, Starts
    <3> QED BY <2>1, <2>2, <2>3, <3>2, <3>3, <3>4 DEF OthersStay
  <2>4. BeforePulse(t) => a = "set"
    <3>1. ASSUME BeforePulse(t), a # "set" PROVE FALSE
      <4>1. drive.bit4
        BY <1>1, <2>1, <3>1
      <4>2. At(t, "set")
        BY <2>1, <3>1, <4>1 DEF EdgeIsReady
      <4> QED BY <2>2, <3>1, <4>2 DEF At
    <3> QED BY <3>1
  <2>5. CASE u = t /\ Continues(t) /\ \E b : Arrives(t, op[t], b) /\ Onward(op[t], a, b)
    <3>1. PICK b : Arrives(t, op[t], b) /\ Onward(op[t], a, b)
      BY <2>5
    <3>2. \/ op[t] = "move" /\ b \in {"look", "homed"}
          \/ op[t] = "pp" /\ b \in {"modePP", "verify", "profile", "target", "barrier", "set"}
      BY <1>1, <2>5, <3>1 DEF Arrives, BeforePulse
    <3>3. \/ op[t] = "move" /\ a \in {"unhalt", "look"}
          \/ op[t] = "pp" /\ a \in {"modePP", "verify", "profile", "target", "barrier"}
      BY <3>1, <3>2 DEF Onward, Follows
    <3>4. a = "unhalt" => Done(t) /\ a \in ClearsBit4
      BY <2>5 DEF Continues, Needed, ClearsBit4
    <3>5. a # "unhalt" => BeforePulse(t) /\ a # "set"
      BY <2>2, <3>3 DEF BeforePulse
    <3> QED BY <1>1, <2>1, <2>4, <3>4, <3>5
  <2>6. CASE u = t /\ Enters(t)
    <3>1. BeforePulse(t) /\ a # "set"
      BY <2>2, <2>6 DEF Enters, BeforePulse
    <3> QED BY <2>4, <3>1
  <2>7. CASE u = t /\ Leaves(t)
    BY <1>1, <2>7 DEF Leaves, BeforePulse
  <2> QED BY <2>2, <2>3, <2>5, <2>6, <2>7
<1>2. ASSUME NEW t \in Callers, NEW o, NEW b, Begins(t, o, b), ~overlapped',
             NEW u \in Callers, BeforePulse(u)', drive'.bit4
      PROVE  At(u, "set")' /\ (mover' = u \/ drive'.fault)
  <2>1. /\ ~overlapped /\ drive' = drive /\ b \in {"prepare", "ready", "halt", "boundary", "zero"}
        /\ Arrives(t, o, b) /\ o # "pp"
        /\ \A v \in Callers : v # t => op'[v] = op[v] /\ \A x : At(v, x)' <=> At(v, x)
    BY <1>2, BeginsOps, CallPlaces DEF Begins
  <2>2. u # t
    BY <1>2, <2>1 DEF Arrives, BeforePulse
  <2>3. BeforePulse(u)
    BY <1>2, <2>1, <2>2 DEF BeforePulse
  <2>4. mover = u => mover' = u
    BY <1>2, <2>2 DEF Begins
  <2> QED BY <1>2, <2>1, <2>2, <2>3, <2>4 DEF EdgeIsReady
<1>3. ASSUME Background PROVE EdgeIsReady'
  BY <1>3 DEF Background, callVars, EdgeIsReady, BeforePulse, At
<1>4. ASSUME NEW w \in late, LateWrite(w), ~overlapped', NEW u \in Callers, BeforePulse(u)',
             drive'.bit4
      PROVE  At(u, "set")' /\ (mover' = u \/ drive'.fault)
  <2>1. /\ op' = op /\ (\A x : At(u, x)' <=> At(u, x)) /\ (overlapped => overlapped')
        /\ mover' = IF Starts(w.act) THEN w.by ELSE mover
    BY <1>4, LateLeaves
  <2>2. BeforePulse(u) /\ op[u] \in {"move", "pp"} /\ op[u] \in MotionOps /\ ~overlapped
    BY <1>4, <2>1 DEF BeforePulse, MotionOps
  <2>3. ~At(u, "climb")
    BY <2>2 DEF BeforePulse, At
  <2>4. /\ drive'.bit4 => w.act = "set" \/ drive.bit4
        /\ w.act # "climb" => (drive'.fault <=> drive.fault)
    BY <1>4, LateEffect
  <2>5. w.act # "climb"
    BY <1>4, <2>2, <2>3, LateOwn
  <2>6. CASE w.act = "set"
    <3>1. w.by = u
      BY <1>4, <2>2, <2>6, LateOwn
    <3>2. op[u] = "pp" /\ (Started(u) \/ At(u, "set"))
      BY <2>2, <2>6, <3>1 DEF LateInv, OwnLate
    <3>3. At(u, "set")
      BY <2>2, <3>2 DEF BeforePulse, Started, At
    <3>4. ~Starts("set") => mover = u \/ drive.fault
      BY <2>2, <3>3 DEF Starts, EdgeIsReady
    <3> QED BY <2>1, <2>4, <2>6, <3>1, <3>3, <3>4
  <2>7. CASE w.act # "set"
    <3>1. mover' = mover /\ drive.bit4
      BY <1>4, <2>1, <2>4, <2>7 DEF Starts
    <3> QED BY <2>1, <2>2, <2>4, <2>5, <3>1 DEF EdgeIsReady
  <2> QED BY <2>6, <2>7
<1> QED BY <1>1, <1>2, <1>3, <1>4, Steps DEF EdgeIsReady

\* Only a caller's own pulse makes it the mover, and only a fault stops that.
LEMMA OwnStep ==
  ASSUME TypeInv, Alone, EdgeIsReady, OwnSetPoint, [Next]_vars
  PROVE  OwnSetPoint'
<1>1. ASSUME NEW t \in Callers, Step(t), ~overlapped', NEW u \in Callers, Started(u)'
      PROVE  mover' = u \/ drive'.fault
  <2> DEFINE a == Head(todo[t])
  <2>1. /\ ~overlapped /\ (a # "climb" => (drive'.fault <=> drive.fault))
        /\ Done(t) \/ NotExecuted(t)
    BY <1>1, StepOps, StepEffect DEF Touches
  <2>2. /\ OthersStay(t) /\ At(t, a)
        /\ \/ Continues(t) /\ \E b : Arrives(t, op[t], b) /\ Onward(op[t], a, b)
           \/ Enters(t) /\ Arrives(t, "pp", "modePP")
           \/ Finishes(t) /\ Leaves(t)
    BY <1>1, StepPlaces
  <2>3. a # "set" => mover' = mover
    BY <2>1 DEF Done, Executes, NotExecuted, Starts
  <2>4. CASE u # t
    <3>1. Started(u) /\ op[u] \in MotionOps
      BY <1>1, <2>2, <2>4 DEF Started, OthersStay, MotionOps
    <3>2. a \notin {"set", "climb"}
      BY <1>1, <2>1, <2>4, <3>1, Bystander
    <3> QED BY <2>1, <2>3, <3>1, <3>2 DEF OwnSetPoint
  <2>5. CASE u = t /\ Continues(t) /\ \E b : Arrives(t, op[t], b) /\ Onward(op[t], a, b)
    <3>1. PICK b : Arrives(t, op[t], b) /\ Onward(op[t], a, b)
      BY <2>5
    <3>2. op[t] = "pp" /\ b \in {"ack", "clear", "wait", "position"}
      BY <1>1, <2>5, <3>1 DEF Arrives, Started
    <3>3. a \in {"set", "ack", "clear", "wait", "position"}
      BY <3>1, <3>2 DEF Onward, Follows
    <3>4. CASE a = "set"
      <4>1. Done(t) /\ (drive.bit4 => mover = t \/ drive.fault)
        BY <2>1, <2>2, <2>5, <3>2, <3>4 DEF Continues, Needed, EdgeIsReady, BeforePulse
      <4>2. Starts(a) => mover' = t
        BY <4>1 DEF Done, Executes
      <4>3. ~Starts(a) => drive.fault \/ (mover = t /\ mover' = mover)
        BY <3>4, <4>1 DEF Done, Executes, Starts
      <4> QED BY <2>1, <2>5, <3>4, <4>2, <4>3
    <3>5. CASE a # "set"
      <4>1. Started(t)
        BY <2>2, <3>2, <3>3, <3>5 DEF Started
      <4> QED BY <2>1, <2>3, <2>5, <3>3, <3>5, <4>1 DEF OwnSetPoint
    <3> QED BY <3>4, <3>5
  <2>6. CASE u = t /\ (Arrives(t, "pp", "modePP") \/ Leaves(t))
    BY <1>1, <2>6 DEF Arrives, Leaves, Started
  <2> QED BY <2>2, <2>4, <2>5, <2>6
<1>2. ASSUME NEW t \in Callers, NEW o, NEW b, Begins(t, o, b), ~overlapped',
             NEW u \in Callers, Started(u)'
      PROVE  mover' = u \/ drive'.fault
  <2>1. /\ ~overlapped /\ drive' = drive /\ Arrives(t, o, b) /\ o # "pp"
        /\ \A v \in Callers : v # t => op'[v] = op[v] /\ \A x : At(v, x)' <=> At(v, x)
    BY <1>2, BeginsOps, CallPlaces DEF Begins
  <2>2. u # t
    BY <1>2, <2>1 DEF Arrives, Started
  <2>3. Started(u)
    BY <1>2, <2>1, <2>2 DEF Started
  <2>4. mover = u => mover' = u
    BY <1>2, <2>2 DEF Begins
  <2> QED BY <2>1, <2>3, <2>4 DEF OwnSetPoint
<1>3. ASSUME Background PROVE OwnSetPoint'
  BY <1>3 DEF Background, callVars, OwnSetPoint, Started, At
<1>4. ASSUME NEW w \in late, LateWrite(w), ~overlapped', NEW u \in Callers, Started(u)'
      PROVE  mover' = u \/ drive'.fault
  <2>1. /\ op' = op /\ (\A x : At(u, x)' <=> At(u, x)) /\ (overlapped => overlapped')
        /\ mover' = IF Starts(w.act) THEN w.by ELSE mover
    BY <1>4, LateLeaves
  <2>2. Started(u) /\ op[u] \in MotionOps /\ ~overlapped /\ ~At(u, "climb")
    BY <1>4, <2>1 DEF Started, MotionOps, At
  <2>3. w.act # "climb" => (drive'.fault <=> drive.fault)
    BY <1>4, LateEffect
  <2>4. w.act # "climb" /\ (Starts(w.act) => w.by = u)
    BY <1>4, <2>2, LateOwn DEF Starts
  <2> QED BY <2>1, <2>2, <2>3, <2>4 DEF OwnSetPoint
<1> QED BY <1>1, <1>2, <1>3, <1>4, Steps DEF OwnSetPoint

\* A move that has written its set-point, or had it sent again, stays so.
LEMMA StaysFired ==
  ASSUME TypeInv, NEW t \in Callers, Step(t), NEW u \in Callers, Fired(u)
  PROVE  Fired(u)' /\ (op'[u] = "pp" => op[u] = "pp")
<1> DEFINE a == Head(todo[t])
<1>1. resent' = resent
  BY StepEffect DEF Touches, Done, NotExecuted
<1>2. /\ OthersStay(t) /\ At(t, a)
      /\ \/ Continues(t) /\ \E b : Arrives(t, op[t], b) /\ Onward(op[t], a, b)
         \/ Enters(t) /\ Arrives(t, "pp", "modePP")
         \/ Finishes(t) /\ Leaves(t)
  BY StepPlaces
<1>3. CASE u # t
  BY <1>1, <1>2, <1>3 DEF OthersStay, Fired, Started
<1>4. CASE u = t /\ Continues(t) /\ \E b : Arrives(t, op[t], b) /\ Onward(op[t], a, b)
  <2>1. PICK b : Arrives(t, op[t], b) /\ Onward(op[t], a, b)
    BY <1>4
  <2>2. op'[t] = op[t] /\ (At(t, b))'
    BY <2>1 DEF Arrives
  <2>3. ASSUME Started(t) PROVE Started(t)'
    <3>1. op[t] = "pp" /\ a \in {"ack", "clear", "wait", "position"}
      BY <1>2, <2>3 DEF Started, At
    <3>2. b \in {"clear", "wait", "position"}
      BY <2>1, <3>1 DEF Onward, Follows
    <3> QED BY <2>2, <3>1, <3>2 DEF Started
  <2> QED BY <1>1, <1>4, <2>2, <2>3 DEF Fired
<1>5. CASE u = t /\ Enters(t)
  BY <1>5 DEF Enters, Fired
<1>6. CASE u = t /\ Leaves(t)
  BY <1>6 DEF Leaves, Fired
<1> QED BY <1>2, <1>3, <1>4, <1>5, <1>6

\* A step makes its caller the mover only by the set-point of its operation.
LEMMA NewMover ==
  ASSUME TypeInv, NEW t \in Callers, Step(t)
  PROVE  \/ mover' = mover /\ ~(Done(t) /\ Starts(Head(todo[t])))
         \/ mover' = t /\ Done(t) /\ Starts(Head(todo[t])) /\ At(t, "set") /\ Fired(t)'
<1> DEFINE a == Head(todo[t])
<1>1. /\ At(t, a) /\ (MayBeLast(op[t], a) \/ \E b : Follows(op[t], a, b))
      /\ \/ Continues(t) /\ \E b : Arrives(t, op[t], b) /\ Onward(op[t], a, b)
         \/ Enters(t) /\ Arrives(t, "pp", "modePP")
         \/ Finishes(t) /\ Leaves(t)
  BY StepPlaces
<1>2. Done(t) \/ NotExecuted(t)
  BY StepEffect DEF Touches
<1>3. CASE ~(Done(t) /\ Starts(a))
  BY <1>2, <1>3 DEF Done, Executes, NotExecuted
<1>4. CASE Done(t) /\ Starts(a)
  <2>1. mover' = t /\ a = "set"
    BY <1>4 DEF Done, Executes, Starts
  <2>2. op[t] \in {"pp", "home", "jog"}
    BY <1>1, <2>1, Belongs
  <2>3. CASE Continues(t) /\ \E b : Arrives(t, op[t], b) /\ Onward(op[t], a, b)
    <3>1. PICK b : Arrives(t, op[t], b) /\ Onward(op[t], a, b)
      BY <2>3
    <3>2. op[t] = "pp" => b = "ack"
      BY <2>1, <3>1 DEF Onward, Follows
    <3> QED BY <1>1, <1>4, <2>1, <2>2, <3>1, <3>2 DEF Arrives, Fired, Started
  <2>4. CASE Enters(t)
    BY <2>2, <2>4 DEF Enters
  <2>5. CASE Leaves(t)
    BY <1>1, <1>4, <2>1, <2>5 DEF Leaves, Fired
  <2> QED BY <1>1, <2>3, <2>4, <2>5
<1> QED BY <1>3, <1>4

\* A move that met a HALT goes on past its set-point, and starts nothing, unless the
\* session sends the set-point again.
LEMMA HaltStep ==
  ASSUME TypeInv, MoverFired, HaltedFired, HaltIsFinal, LateInv, [Next]_vars
  PROVE  MoverFired' /\ HaltedFired' /\ HaltIsFinal'
<1>1. ASSUME NEW t \in Callers, Step(t), NEW u \in Callers
      PROVE  /\ mover' = u => Fired(u)'
             /\ u \in halted' => Fired(u)'
             /\ u \in halted' \ resent' /\ mover' = u /\ op'[u] = "pp" => drive'.motion # "pp"
  <2> DEFINE a == Head(todo[t])
  <2>1. /\ Done(t) \/ NotExecuted(t)
        /\ drive'.motion = "pp" => drive.motion = "pp" \/ (Done(t) /\ Starts(a))
        /\ Done(t) /\ a \in {"halt", "slowHalt"} => drive'.motion = "none"
    BY <1>1, StepEffect DEF Touches
  <2>2. \/ mover' = mover /\ ~(Done(t) /\ Starts(a))
        \/ mover' = t /\ Done(t) /\ Starts(a) /\ At(t, "set") /\ Fired(t)'
    BY <1>1, NewMover
  <2>3. mover' = u => Fired(u)'
    BY <1>1, <2>2, StaysFired DEF MoverFired
  <2>4. \/ halted' = halted
        \/ /\ halted' = halted \cup {v \in Callers : op[v] = "pp" /\ mover = v}
           /\ Done(t) /\ a \in {"halt", "slowHalt"}
    BY <2>1 DEF Done, Executes, NotExecuted
  <2>5. u \in halted' => Fired(u)
    BY <2>4 DEF HaltedFired, MoverFired
  <2>6. ASSUME u \in halted', u \notin resent', mover' = u, op'[u] = "pp", drive'.motion = "pp"
        PROVE  FALSE
    <3>1. Fired(u) /\ op[u] = "pp" /\ resent' = resent
      BY <1>1, <2>1, <2>5, <2>6, StaysFired DEF Done, NotExecuted
    <3>2. u \in halted
      BY <2>1, <2>4, <2>6
    <3>3. Started(u)
      BY <2>6, <3>1 DEF Fired
    <3>4. mover' = mover /\ ~(Done(t) /\ Starts(a))
      BY <2>2, <2>6, <3>3 DEF Started, At
    <3> QED BY <2>1, <2>6, <3>1, <3>2, <3>4 DEF HaltIsFinal
  <2>7. u \in halted' => Fired(u)'
    BY <1>1, <2>5, StaysFired
  <2> QED BY <2>3, <2>6, <2>7
<1>2. ASSUME NEW t \in Callers, NEW o, NEW b, Begins(t, o, b)
      PROVE  MoverFired' /\ HaltedFired' /\ HaltIsFinal'
  <2>1. /\ drive' = drive /\ halted' = halted \ {t} /\ resent' = resent \ {t}
        /\ mover' = IF mover = t /\ o \in MotionOps THEN None ELSE mover
        /\ op'[t] = o
        /\ \A v \in Callers : v # t => op'[v] = op[v] /\ \A x : At(v, x)' <=> At(v, x)
    BY <1>2, CallPlaces DEF Begins, Arrives
  <2>2. halted \subseteq Callers
    BY DEF TypeInv, OtherType
  <2>3. ASSUME NEW u \in Callers, u # t, Fired(u) PROVE Fired(u)'
    BY <2>1, <2>3 DEF Fired, Started
  <2>4. ASSUME NEW u \in Callers, mover' = u PROVE Fired(u)'
    <3>1. mover = u /\ (u = t => op'[t] \notin MotionOps)
      BY <2>1, <2>4
    <3>2. CASE u = t
      BY <3>1, <3>2 DEF Fired, MotionOps
    <3>3. CASE u # t
      BY <2>3, <3>1, <3>3 DEF MoverFired
    <3> QED BY <3>2, <3>3
  <2>5. ASSUME NEW u \in halted'
        PROVE  /\ Fired(u)'
               /\ u \notin resent' /\ mover' = u /\ op'[u] = "pp" => drive'.motion # "pp"
    <3>1. u \in halted /\ u # t /\ u \in Callers
      BY <2>1, <2>2, <2>5
    <3>2. op'[u] = op[u] /\ (u \notin resent' => u \notin resent) /\ (mover' = u => mover = u)
      BY <2>1, <3>1
    <3>3. Fired(u)'
      BY <2>3, <3>1 DEF HaltedFired
    <3> QED BY <2>1, <3>1, <3>2, <3>3 DEF HaltIsFinal
  <2> QED BY <2>4, <2>5 DEF MoverFired, HaltedFired, HaltIsFinal
<1>3. ASSUME Background PROVE MoverFired' /\ HaltedFired' /\ HaltIsFinal'
  BY <1>3 DEF Background, callVars, MoverFired, HaltedFired, HaltIsFinal, Fired, Started, At
<1>4. ASSUME NEW w \in late, LateWrite(w), NEW u \in Callers
      PROVE  /\ mover' = u => Fired(u)'
             /\ u \in halted' => Fired(u)'
             /\ u \in halted' \ resent' /\ mover' = u /\ op'[u] = "pp" => drive'.motion # "pp"
  <2>1. /\ op' = op /\ resent' = resent /\ (\A x : At(u, x)' <=> At(u, x))
        /\ mover' = IF Starts(w.act) THEN w.by ELSE mover
        /\ w.act \notin {"halt", "slowHalt"} => halted' = halted
    BY <1>4, LateLeaves
  <2>2. Fired(u)' <=> Fired(u)
    BY <2>1 DEF Fired, Started
  <2>3. /\ drive'.motion = "pp" => drive.motion = "pp" \/ Starts(w.act)
        /\ w.act \in {"halt", "slowHalt"} => drive'.motion = "none"
    BY <1>4, LateEffect
  <2>4. \/ halted' = halted
        \/ /\ halted' = halted \cup {v \in Callers : op[v] = "pp" /\ mover = v}
           /\ w.act \in {"halt", "slowHalt"}
    BY <1>4, <2>1 DEF LateWrite, Executes
  <2>5. Starts(w.act) /\ w.by = u => Fired(u) /\ (op[u] = "pp" => u \in resent)
    BY DEF LateInv, OwnLate, Starts, Fired
  <2>6. mover' = u => Fired(u)
    BY <2>1, <2>5 DEF MoverFired
  <2>7. u \in halted' => Fired(u)
    BY <2>4 DEF HaltedFired, MoverFired
  <2>8. ASSUME u \in halted', u \notin resent', mover' = u, op'[u] = "pp", drive'.motion = "pp"
        PROVE  FALSE
    <3>1. ~Starts(w.act) /\ mover = u
      BY <2>1, <2>5, <2>8
    <3>2. u \in halted /\ drive.motion = "pp"
      BY <2>3, <2>4, <2>8, <3>1
    <3> QED BY <2>1, <2>8, <3>1, <3>2 DEF HaltIsFinal
  <2> QED BY <2>2, <2>6, <2>7, <2>8
<1>5. halted' \subseteq Callers
  BY OtherTypeStep DEF OtherType
<1>6. ASSUME NEW t \in Callers, Step(t) PROVE MoverFired' /\ HaltedFired' /\ HaltIsFinal'
  BY <1>1, <1>5, <1>6 DEF MoverFired, HaltedFired, HaltIsFinal
<1>7. ASSUME NEW w \in late, LateWrite(w) PROVE MoverFired' /\ HaltedFired' /\ HaltIsFinal'
  BY <1>4, <1>5, <1>7 DEF MoverFired, HaltedFired, HaltIsFinal
<1> QED BY <1>2, <1>3, <1>6, <1>7, Steps

\* What a call has made of late writes fits where it is.
LEMMA LateStep ==
  ASSUME TypeInv, LateInv, [Next]_vars
  PROVE  LateInv'
<1>1. ASSUME NEW t \in Callers, Step(t), NEW u \in Callers, NEW w \in late', w.by = u
      PROVE  OwnLate(u, w.act)'
  <2> DEFINE a == Head(todo[t])
  <2>1. /\ Done(t) \/ NotExecuted(t)
        /\ resent' = resent /\ (Done(t) => late' = late)
    BY <1>1, StepEffect DEF Touches, Done, NotExecuted
  <2>2. /\ OthersStay(t) /\ At(t, a) /\ CallerType
        /\ MayBeLast(op[t], a) \/ \E b : Follows(op[t], a, b)
        /\ \/ Continues(t) /\ \E b : Arrives(t, op[t], b) /\ Onward(op[t], a, b)
           \/ Enters(t) /\ Arrives(t, "pp", "modePP")
           \/ Finishes(t) /\ Leaves(t)
    BY <1>1, StepPlaces DEF TypeInv
  <2>3. w \in late \/ (w \in Copies(t) /\ ~Done(t))
    BY <1>1, <2>1 DEF NotExecuted
  <2>4. CASE u # t
    <3>1. w \in late
      BY <1>1, <2>2, <2>3, <2>4, CopyOf
    <3>2. OwnLate(u, w.act)
      BY <1>1, <3>1 DEF LateInv
    <3> QED BY <2>1, <2>2, <2>4, <3>2 DEF OthersStay, OwnLate, Started, InHoming
  <2>5. CASE u = t /\ Leaves(t)
    BY <2>5 DEF Leaves, OwnLate
  <2>6. CASE u = t /\ Enters(t) /\ Arrives(t, "pp", "modePP")
    <3>1. op[t] = "move" /\ a = "homed"
      BY <2>6 DEF Enters
    <3>2. w \in late
      BY <2>2, <2>3, <3>1, CopyOf DEF Writes
    <3>3. w.act # "set"
      BY <1>1, <2>6, <3>1, <3>2 DEF LateInv, OwnLate
    <3> QED BY <2>6, <3>3 DEF Arrives, OwnLate
  <2>7. CASE u = t /\ Continues(t) /\ \E b : Arrives(t, op[t], b) /\ Onward(op[t], a, b)
    <3>1. PICK b : Arrives(t, op[t], b) /\ Onward(op[t], a, b)
      BY <2>7
    <3>2. op'[t] = op[t] /\ (At(t, b))'
      BY <3>1 DEF Arrives
    <3>3. CASE w \in late
      <4>1. OwnLate(t, w.act)
        BY <1>1, <2>7, <3>3 DEF LateInv
      <4>2. op[t] = "pp" /\ (Started(t) \/ At(t, "set")) => Started(t)'
        <5>1. ASSUME op[t] = "pp", Started(t) \/ At(t, "set") PROVE Started(t)'
          <6>1. a \in {"set", "ack", "clear", "wait", "position"}
            BY <2>2, <5>1 DEF Started, At
          <6>2. b \in {"ack", "clear", "wait", "position"}
            BY <3>1, <5>1, <6>1 DEF Onward, Follows
          <6> QED BY <3>2, <5>1, <6>2 DEF Started
        <5> QED BY <5>1
      <4>3. InHoming(t) => InHoming(t)'
        <5>1. ASSUME InHoming(t) PROVE InHoming(t)'
          <6>1. op[t] = "home" /\ a \in {"barrier", "set", "clear", "done"}
            BY <2>2, <5>1 DEF InHoming, At
          <6>2. b \in {"set", "clear", "done"}
            BY <3>1, <6>1 DEF Onward, Follows
          <6> QED BY <3>2, <6>1, <6>2 DEF InHoming
        <5> QED BY <5>1
      <4> QED BY <2>1, <2>7, <3>2, <4>1, <4>2, <4>3 DEF OwnLate
    <3>4. CASE w \in Copies(t) /\ ~Done(t)
      <4>1. w.act = a /\ a # "set"
        BY <2>2, <2>7, <3>4, CopyOf DEF Continues, Needed
      <4>2. a \in {"modePP", "modePV"} => op[t] # "home"
        BY <2>2, Belongs
      <4> QED BY <2>7, <3>2, <4>1, <4>2 DEF OwnLate
    <3> QED BY <2>3, <3>3, <3>4
  <2> QED BY <2>2, <2>4, <2>5, <2>6, <2>7
<1>2. ASSUME NEW t \in Callers, NEW o, NEW b, Begins(t, o, b),
             NEW u \in Callers, NEW w \in late', w.by = u
      PROVE  OwnLate(u, w.act)'
  <2>1. /\ resent' = resent \ {t} /\ OtherType
        /\ \A v \in Callers : v # t => op'[v] = op[v] /\ \A x : At(v, x)' <=> At(v, x)
    BY <1>2, CallPlaces DEF Begins, TypeInv
  <2>2. PICK v \in late : w.act = v.act /\ (w.by = None \/ (w.by = v.by /\ v.by # t))
    BY <1>2, <2>1, Disowned
  <2>3. v.by = u /\ u # t
    BY <1>2, <2>2
  <2>4. OwnLate(u, v.act)
    BY <2>3 DEF LateInv
  <2> QED BY <2>1, <2>2, <2>3, <2>4 DEF OwnLate, Started, InHoming
<1>3. ASSUME Background, NEW u \in Callers, NEW w \in late', w.by = u PROVE OwnLate(u, w.act)'
  <2>1. op' = op /\ todo' = todo /\ resent \subseteq resent' /\ CallerType /\ ScriptInv
    BY <1>3 DEF Background, callVars, TypeInv
  <2>2. ASSUME OwnLate(u, w.act) PROVE OwnLate(u, w.act)'
    BY <2>1, <2>2 DEF OwnLate, Started, InHoming, At
  <2>3. CASE w \in late
    BY <1>3, <2>2, <2>3 DEF LateInv
  <2>4. ASSUME NEW t \in Callers, todo[t] # <<>>, w \in Copies(t),
               op[t] = "pp" /\ At(t, "set") => t \in resent'
        PROVE  OwnLate(u, w.act)'
    <3>1. w.act = Head(todo[t]) /\ u = t /\ At(t, w.act)
      BY <1>3, <2>1, <2>4, CopyOf DEF At
    <3>2. MayBeLast(op[t], w.act) \/ \E b : Follows(op[t], w.act, b)
      BY <2>1, <2>4, <3>1, FirstAccess
    <3>3. /\ w.act = "set" => op[t] \in {"pp", "home", "jog"}
          /\ w.act \in {"modePP", "modePV"} => op[t] # "home"
      BY <3>2, Belongs
    <3> QED BY <2>1, <2>4, <3>1, <3>3 DEF OwnLate, InHoming, At
  <2> QED BY <1>3, <2>3, <2>4 DEF Background
<1>4. ASSUME NEW v \in late, LateWrite(v) PROVE LateInv'
  <2>1. op' = op /\ resent' = resent /\ late' = late /\ \A t, x : At(t, x)' <=> At(t, x)
    BY <1>4, LateLeaves
  <2> QED BY <2>1 DEF LateInv, OwnLate, Started, InHoming
<1> QED BY <1>1, <1>2, <1>3, <1>4, Steps DEF LateInv

\* The stashed configuration comes back on every way out of the handshake.
LEMMA ConfigStep ==
  ASSUME TypeInv, Alone, ConfigInv, [Next]_vars
  PROVE  ConfigInv'
<1>1. ASSUME NEW t \in Callers, Step(t), ~overlapped' PROVE ConfigInv'
  <2> DEFINE a == Head(todo[t])
  <2>1. ~overlapped /\ (Done(t) \/ NotExecuted(t))
    BY <1>1, StepOps, StepEffect DEF Touches
  <2>2. /\ OthersStay(t) /\ At(t, a) /\ op[t] # "idle"
        /\ MayBeLast(op[t], a) \/ \E b : Follows(op[t], a, b)
        /\ \/ Continues(t) /\ \E b : Arrives(t, op[t], b) /\ Onward(op[t], a, b)
           \/ Enters(t) /\ Arrives(t, "pp", "modePP")
           \/ Finishes(t) /\ Leaves(t)
    BY <1>1, StepPlaces
  <2>3. /\ (\A u \in Callers : op[u] # "pp") => cfg = None
        /\ \A u \in Callers : op[u] = "pp" =>
             cfg = u /\ saved[u] = None /\ (Configured(u) => profile = u)
    BY <2>1 DEF ConfigInv
  <2>4. profile' = IF Done(t) /\ a = "profile" /\ cfg # None THEN cfg ELSE profile
    BY <2>1 DEF Done, Executes, NotExecuted
  <2>5. ASSUME NEW u \in Callers, u # t, op'[u] = "pp"
        PROVE  /\ op[u] = "pp" /\ op[t] = "stop" /\ saved'[u] = None /\ cfg = u
               /\ Configured(u)' => profile' = u
    <3>1. op[u] = "pp" /\ op[u] \in MotionOps /\ saved'[u] = None /\ cfg = u
      BY <2>2, <2>3, <2>5 DEF OthersStay, MotionOps
    <3>2. op[t] = "stop" /\ a # "profile"
      BY <1>1, <2>1, <2>5, <3>1, Bystander
    <3>3. Configured(u)' => Configured(u)
      BY <2>2, <2>5 DEF Configured, OthersStay
    <3> QED BY <2>3, <2>4, <3>1, <3>2, <3>3
  <2>6. CASE Continues(t) /\ \E b : Arrives(t, op[t], b) /\ Onward(op[t], a, b)
    <3>1. PICK b : Arrives(t, op[t], b) /\ Onward(op[t], a, b)
      BY <2>6
    <3>2. op' = op /\ cfg' = cfg /\ saved' = saved
      BY <2>6 DEF Continues
    <3>3. ASSUME op[t] = "pp", Configured(t)' PROVE profile' = t
      <4>1. b \in {"target", "barrier", "set", "ack", "clear", "wait", "position"}
        BY <3>1, <3>3 DEF Arrives, Configured
      <4>2. a \in {"profile", "target", "barrier", "set", "ack", "clear", "wait", "position"}
        BY <3>1, <3>3, <4>1 DEF Onward, Follows
      <4>3. CASE a = "profile"
        <5>1. Done(t) /\ cfg = t /\ cfg # None
          BY <2>3, <2>6, <3>3, <4>3 DEF Continues, Needed
        <5> QED BY <2>4, <4>3, <5>1
      <4>4. CASE a # "profile"
        <5>1. Configured(t)
          BY <2>2, <4>2, <4>4 DEF Configured
        <5> QED BY <2>3, <2>4, <3>3, <4>4, <5>1
      <4> QED BY <4>3, <4>4
    <3>4. ASSUME NEW u \in Callers, op'[u] = "pp"
          PROVE  cfg' = u /\ saved'[u] = None /\ (Configured(u)' => profile' = u)
      BY <2>3, <2>5, <3>2, <3>3, <3>4
    <3> QED BY <2>3, <3>2, <3>4 DEF ConfigInv
  <2>7. CASE Enters(t) /\ Arrives(t, "pp", "modePP")
    <3>1. /\ op[t] = "move" /\ cfg' = t /\ saved' = [saved EXCEPT ![t] = cfg]
          /\ op'[t] = "pp"
      BY <2>7 DEF Enters, EntersPp, Arrives
    <3>2. \A u \in Callers : u # t => op[u] \notin MotionOps
      BY <2>1, <3>1 DEF Alone, MotionOps
    <3>3. cfg = None
      BY <2>3, <3>1, <3>2 DEF MotionOps
    <3>4. saved'[t] = None /\ ~Configured(t)'
      BY <2>7, <3>1, <3>3 DEF Arrives, Configured, TypeInv, CallerType
    <3>5. \A u \in Callers : u # t => op'[u] # "pp"
      BY <2>2, <3>2 DEF OthersStay, MotionOps
    <3> QED BY <3>1, <3>4, <3>5 DEF ConfigInv
  <2>8. CASE Finishes(t) /\ Leaves(t)
    <3>1. op'[t] = "idle" /\ cfg' = IF op[t] = "pp" THEN saved[t] ELSE cfg
      BY <2>8 DEF Finishes, Leaves
    <3>2. CASE op[t] = "pp"
      <4>1. \A u \in Callers : u # t => op'[u] # "pp"
        BY <2>5, <3>2
      <4> QED BY <2>3, <3>1, <3>2, <4>1 DEF ConfigInv
    <3>3. CASE op[t] # "pp"
      <4>1. cfg' = cfg
        BY <3>1, <3>3
      <4>2. ASSUME \A u \in Callers : op'[u] # "pp" PROVE cfg' = None
        BY <2>2, <2>3, <3>3, <4>1, <4>2 DEF OthersStay
      <4>3. ASSUME NEW u \in Callers, op'[u] = "pp"
            PROVE  cfg' = u /\ saved'[u] = None /\ (Configured(u)' => profile' = u)
        BY <2>5, <3>1, <4>1, <4>3
      <4> QED BY <4>2, <4>3 DEF ConfigInv
    <3> QED BY <3>2, <3>3
  <2> QED BY <2>2, <2>6, <2>7, <2>8
<1>2. ASSUME NEW t \in Callers, NEW o, NEW b, Begins(t, o, b), ~overlapped' PROVE ConfigInv'
  <2>1. /\ ~overlapped /\ UNCHANGED cfgVars /\ op'[t] # "pp" /\ op[t] = "idle"
        /\ \A v \in Callers : v # t => op'[v] = op[v] /\ \A x : At(v, x)' <=> At(v, x)
    BY <1>2, BeginsOps, CallPlaces DEF Begins, Arrives
  <2>2. \A u \in Callers : (op'[u] = "pp" <=> op[u] = "pp") /\ (op[u] = "pp" => u # t)
    BY <2>1
  <2>3. \A u \in Callers : op[u] = "pp" /\ Configured(u)' => Configured(u)
    BY <2>1, <2>2 DEF Configured
  <2> QED BY <2>1, <2>2, <2>3 DEF ConfigInv, cfgVars
<1>3. ASSUME Background PROVE ConfigInv'
  BY <1>3 DEF Background, callVars, cfgVars, ConfigInv, Configured, At
<1>4. ASSUME NEW w \in late, LateWrite(w), ~overlapped' PROVE ConfigInv'
  <2>1. /\ op' = op /\ cfg' = cfg /\ saved' = saved /\ (\A t, x : At(t, x)' <=> At(t, x))
        /\ ~overlapped
        /\ profile' = IF w.act = "profile" THEN w.by ELSE profile
    BY <1>4, LateLeaves
  <2>2. \A u \in Callers : op[u] = "pp" /\ w.act = "profile" => w.by = u
    BY <1>4, LateOwn DEF MotionOps
  <2>3. \A u \in Callers : Configured(u)' <=> Configured(u)
    BY <2>1 DEF Configured
  <2> QED BY <2>1, <2>2, <2>3 DEF ConfigInv
<1> QED BY <1>1, <1>2, <1>3, <1>4, Steps DEF ConfigInv

\* The mode stays homing, and the homed flag down, until the axis homes.
LEMMA HomingStep ==
  ASSUME TypeInv, Alone, HomingInv, LateInv, [Next]_vars
  PROVE  HomingInv'
<1>1. ASSUME NEW t \in Callers, Step(t), ~overlapped', NEW u \in Callers
      PROVE  /\ InHoming(u)' => drive'.mode = 6
             /\ Pulsed(u)' => u \in homedIn' \cup unpulsed' \/ ~drive'.homed
  <2> DEFINE a == Head(todo[t])
  <2>1. /\ ~overlapped /\ (Done(t) \/ NotExecuted(t))
        /\ a \notin {"modePP", "modeHM", "modePV"} => drive'.mode = drive.mode
        /\ Done(t) /\ a = "modeHM" => drive'.mode = 6
        /\ drive'.homed => drive.homed
        /\ Done(t) /\ Starts(a) /\ drive.mode = 6 => ~drive'.homed
    BY <1>1, StepOps, StepEffect DEF Touches
  <2>2. /\ OthersStay(t) /\ At(t, a)
        /\ \/ Continues(t) /\ \E b : Arrives(t, op[t], b) /\ Onward(op[t], a, b)
           \/ Enters(t) /\ Arrives(t, "pp", "modePP")
           \/ Finishes(t) /\ Leaves(t)
    BY <1>1, StepPlaces
  <2>3. /\ unpulsed \subseteq unpulsed'
        /\ a # "set" => homedIn' = homedIn
        /\ homedIn \ {t} \subseteq homedIn'
        /\ mover' \in {mover, t} /\ (a # "set" => mover' = mover)
    BY <2>1 DEF Done, Executes, NotExecuted, Starts
  <2>4. CASE u # t
    <3>1. (InHoming(u)' => InHoming(u)) /\ (Pulsed(u)' => Pulsed(u))
      BY <2>2, <2>3, <2>4 DEF OthersStay, InHoming, Homes, Pulsed
    <3>2. InHoming(u) => op[u] \in MotionOps
      BY DEF InHoming, MotionOps
    <3>3. InHoming(u) => drive'.mode = 6
      BY <1>1, <2>1, <2>4, <3>2, Bystander DEF HomingInv
    <3>4. Pulsed(u) => u \in homedIn' \cup unpulsed' \/ ~drive'.homed
      BY <2>1, <2>3, <2>4 DEF HomingInv
    <3> QED BY <3>1, <3>3, <3>4
  <2>5. CASE u = t /\ Continues(t) /\ \E b : Arrives(t, op[t], b) /\ Onward(op[t], a, b)
    <3>1. PICK b : Arrives(t, op[t], b) /\ Onward(op[t], a, b)
      BY <2>5
    <3>2. /\ InHoming(t)' => op[t] = "home" /\ b \in {"barrier", "set", "clear", "done"}
          /\ Homes(t)' => op[t] = "home" /\ b \in {"clear", "done"}
      BY <3>1 DEF Arrives, InHoming, Homes
    <3>3. /\ InHoming(t)' => op[t] = "home" /\ a \in {"modeHM", "barrier", "set", "clear"}
          /\ Homes(t)' => op[t] = "home" /\ a \in {"set", "clear"}
      BY <3>1, <3>2 DEF Onward, Follows
    <3>4. ASSUME InHoming(t)' PROVE drive'.mode = 6
      <4>1. CASE a = "modeHM"
        BY <2>1, <2>5, <4>1 DEF Continues, Needed
      <4>2. CASE a # "modeHM"
        <5>1. InHoming(t) /\ a \notin {"modePP", "modeHM", "modePV"}
          BY <2>2, <3>3, <3>4, <4>2 DEF InHoming
        <5> QED BY <2>1, <5>1 DEF HomingInv
      <4> QED BY <4>1, <4>2
    <3>5. ASSUME Pulsed(t)' PROVE t \in homedIn' \cup unpulsed' \/ ~drive'.homed
      <4>0. op[t] = "home"
        BY <3>1, <3>5 DEF Arrives, Pulsed, Homes
      <4>1. CASE a = "set"
        <5>1. Done(t) /\ drive.mode = 6
          BY <2>1, <2>2, <2>5, <4>0, <4>1 DEF Continues, Needed, HomingInv, InHoming
        <5>2. CASE Starts(a)
          BY <2>1, <5>1, <5>2
        <5>3. CASE ~Starts(a) /\ mover # t
          <6>1. t \in unpulsed'
            BY <4>0, <4>1, <5>1, <5>3 DEF Done, Executes
          <6> QED BY <6>1
        <5>4. CASE ~Starts(a) /\ mover = t
          <6>1. Pulsed(t) /\ homedIn' = homedIn
            BY <4>0, <5>1, <5>4 DEF Pulsed, Done, Executes
          <6> QED BY <2>1, <2>3, <6>1 DEF HomingInv
        <5> QED BY <5>2, <5>3, <5>4
      <4>2. CASE a # "set"
        <5>1. Homes(t)' => a = "clear"
          BY <3>3, <4>2
        <5>2. Pulsed(t)
          BY <2>2, <2>3, <3>5, <4>0, <4>2, <5>1 DEF Pulsed, Homes
        <5> QED BY <2>1, <2>3, <4>2, <5>2 DEF HomingInv
      <4> QED BY <4>1, <4>2
    <3> QED BY <2>5, <3>4, <3>5
  <2>6. CASE u = t /\ (Arrives(t, "pp", "modePP") \/ Leaves(t))
    BY <2>6 DEF Arrives, Leaves, InHoming, Homes, Pulsed
  <2> QED BY <2>2, <2>4, <2>5, <2>6
<1>2. ASSUME NEW t \in Callers, NEW o, NEW b, Begins(t, o, b), ~overlapped', NEW u \in Callers
      PROVE  /\ InHoming(u)' => drive'.mode = 6
             /\ Pulsed(u)' => u \in homedIn' \cup unpulsed' \/ ~drive'.homed
  <2>1. /\ ~overlapped /\ drive' = drive /\ b \in {"prepare", "ready", "halt", "boundary", "zero"}
        /\ homedIn' = homedIn \ {t} /\ unpulsed' = unpulsed \ {t}
        /\ mover' = IF mover = t /\ o \in MotionOps THEN None ELSE mover
        /\ Arrives(t, o, b)
        /\ \A v \in Callers : v # t => op'[v] = op[v] /\ \A x : At(v, x)' <=> At(v, x)
    BY <1>2, BeginsOps, CallPlaces DEF Begins
  <2>2. CASE u = t
    BY <2>1, <2>2 DEF Arrives, InHoming, Homes, Pulsed, MotionOps
  <2>3. CASE u # t
    <3>1. (InHoming(u)' => InHoming(u)) /\ (Pulsed(u)' => Pulsed(u))
      BY <2>1, <2>3 DEF InHoming, Homes, Pulsed
    <3> QED BY <2>1, <2>3, <3>1 DEF HomingInv
  <2> QED BY <2>2, <2>3
<1>3. ASSUME Background PROVE HomingInv'
  <2>1. /\ overlapped' = overlapped /\ unpulsed' = unpulsed /\ op' = op /\ todo' = todo
        /\ mover' = mover /\ drive'.mode = drive.mode
        /\ \/ homedIn' = homedIn /\ (drive'.homed => drive.homed)
           \/ homedIn' = homedIn \cup {t \in Callers : op[t] = "home"}
    BY <1>3 DEF Background, callVars
  <2>2. \A u \in Callers : (InHoming(u)' <=> InHoming(u)) /\ (Pulsed(u)' <=> Pulsed(u))
    BY <2>1 DEF InHoming, Homes, Pulsed, At
  <2>3. \A u \in Callers : Pulsed(u) => op[u] = "home"
    BY DEF Homes, Pulsed
  <2> QED BY <2>1, <2>2, <2>3 DEF HomingInv
<1>4. ASSUME NEW w \in late, LateWrite(w), ~overlapped', NEW u \in Callers
      PROVE  /\ InHoming(u)' => drive'.mode = 6
             /\ Pulsed(u)' => u \in homedIn' \cup unpulsed' \/ ~drive'.homed
  <2>1. /\ op' = op /\ (\A x : At(u, x)' <=> At(u, x)) /\ ~overlapped
        /\ mover' = IF Starts(w.act) THEN w.by ELSE mover
        /\ unpulsed \subseteq unpulsed' /\ (~Starts(w.act) => homedIn' = homedIn)
    BY <1>4, LateLeaves
  <2>2. /\ w.act \notin {"modePP", "modeHM", "modePV"} => drive'.mode = drive.mode
        /\ w.act = "modeHM" => drive'.mode = 6
        /\ drive'.homed => drive.homed
        /\ Starts(w.act) /\ drive.mode = 6 => ~drive'.homed
    BY <1>4, LateEffect
  <2>3. InHoming(u)' <=> InHoming(u)
    BY <2>1 DEF InHoming
  <2>4. op[u] = "home" /\ w.act \in {"modePP", "modePV", "set"} => w.by = u
    BY <1>4, LateOwn DEF MotionOps
  <2>5. InHoming(u) => w.act \notin {"modePP", "modePV"}
    BY <2>4 DEF InHoming, LateInv, OwnLate
  <2>6. InHoming(u) => drive'.mode = 6
    BY <2>1, <2>2, <2>5 DEF HomingInv
  <2>7. ASSUME Pulsed(u)' PROVE u \in homedIn' \cup unpulsed' \/ ~drive'.homed
    <3>1. op[u] = "home"
      BY <2>1, <2>7 DEF Pulsed, Homes
    <3>2. CASE Starts(w.act)
      <4>1. w.act = "set" /\ w.by = u
        BY <2>4, <3>1, <3>2 DEF Starts
      <4>2. InHoming(u)
        BY <3>1, <4>1 DEF LateInv, OwnLate
      <4> QED BY <2>1, <2>2, <3>2, <4>2 DEF HomingInv
    <3>3. CASE ~Starts(w.act)
      <4>1. Pulsed(u)
        BY <2>1, <2>7, <3>1, <3>3 DEF Pulsed, Homes
      <4> QED BY <2>1, <2>2, <3>3, <4>1 DEF HomingInv
    <3> QED BY <3>2, <3>3
  <2> QED BY <2>3, <2>6, <2>7
<1> QED BY <1>1, <1>2, <1>3, <1>4, Steps DEF HomingInv

\* What runs in the background of the callers never arms a shutdown, and drops a
\* due one only when it has had its turn.
LEMMA BackgroundIdle ==
  ASSUME TypeInv, Around \/ UNCHANGED vars
  PROVE  /\ timer' => timer
         /\ shutdown' # "none" => timer \/ shutdown # "none"
         /\ idleDue' => idleDue /\ (timer \/ shutdown # "none" => timer' \/ shutdown' # "none")
<1>1. CASE Idle
  <2>1. CASE IdleFires
    BY <2>1 DEF IdleFires
  <2>2. CASE IdleLooks
    BY <2>2 DEF IdleLooks
  <2>3. CASE IdleWrites \/ IdleRaises \/ IdleAttemptFails
    BY <2>3 DEF IdleWrites, IdleRaises, IdleAttemptFails
  <2>4. CASE OrphanWrites
    BY <2>4 DEF OrphanWrites
  <2> QED BY <1>1, <2>1, <2>2, <2>3, <2>4 DEF Idle
<1>2. CASE JogLapses \/ EngineRuns \/ Upset \/ UNCHANGED vars \/ \E t \in Callers : AttemptFails(t)
  <2>1. UNCHANGED idleVars
    BY <1>2 DEF JogLapses, EngineRuns, Upset, vars, AttemptFails
  <2> QED BY <2>1 DEF idleVars
<1> QED BY <1>1, <1>2 DEF Around

\* A command revokes the shutdown before anything else, an end arms it.
LEMMA IdleStep ==
  ASSUME TypeInv, Alone, MovesUndisturbed, IdleFollowsMotion, [Next]_vars
  PROVE  MovesUndisturbed' /\ IdleFollowsMotion'
<1>1. ASSUME NEW t \in Callers, Step(t) PROVE MovesUndisturbed' /\ IdleFollowsMotion'
  <2>1. /\ overlapped' = overlapped
        /\ \A u \in Callers : op'[u] \in {"move", "pp"} => op[u] \in {"move", "pp"}
        /\ Continues(t) \/ Enters(t) \/ (Finishes(t) /\ Leaves(t))
    BY <1>1, StepOps, StepPlaces
  <2>2. CASE UNCHANGED idleVars
    BY <2>1, <2>2 DEF idleVars, MovesUndisturbed, IdleFollowsMotion
  <2>3. CASE Finishes(t) /\ Leaves(t) /\ op[t] \in {"pp", "jogStop"} /\ ScheduleIdle
    <3>1. ASSUME ~overlapped, NEW u \in Callers, op'[u] \in {"move", "pp"} PROVE FALSE
      <4>1. u # t
        BY <2>3, <3>1 DEF Leaves
      <4>2. op[u] \in MotionOps /\ op[t] \in MotionOps
        BY <2>1, <2>3, <3>1 DEF MotionOps
      <4> QED BY <3>1, <4>1, <4>2 DEF Alone
    <3> QED BY <2>1, <2>3, <3>1 DEF MovesUndisturbed, IdleFollowsMotion, ScheduleIdle
  <2> QED BY <2>1, <2>2, <2>3 DEF Continues, Enters, EntersPp, Finishes
<1>2. ASSUME NEW t \in Callers, NEW o, NEW b, Begins(t, o, b)
      PROVE  MovesUndisturbed' /\ IdleFollowsMotion'
  <2>1. /\ op' = [op EXCEPT ![t] = o] /\ op \in [Callers -> MotionOps \cup {"idle", "stop"}]
        /\ ~overlapped' => ~overlapped
        /\ (CancelIdle /\ idleDue' = FALSE) \/ (o # "move" /\ UNCHANGED idleVars)
        /\ o # "pp"
    BY <1>2, CallPlaces DEF Begins, TypeInv, CallerType
  <2>2. CASE CancelIdle /\ idleDue' = FALSE
    BY <2>2 DEF CancelIdle, MovesUndisturbed, IdleFollowsMotion
  <2>3. CASE o # "move" /\ UNCHANGED idleVars
    <3>1. \A u \in Callers : op'[u] \in {"move", "pp"} => op[u] \in {"move", "pp"}
      BY <2>1, <2>3
    <3> QED BY <2>1, <2>3, <3>1 DEF idleVars, MovesUndisturbed, IdleFollowsMotion
  <2> QED BY <2>1, <2>2, <2>3
<1>3. ASSUME Around \/ UNCHANGED vars
      PROVE  MovesUndisturbed' /\ IdleFollowsMotion'
  <2>1. op' = op /\ overlapped' = overlapped
    BY <1>3, BackgroundShape DEF Background, callVars
  <2>2. /\ timer' => timer
        /\ shutdown' # "none" => timer \/ shutdown # "none"
        /\ idleDue' => idleDue /\ (timer \/ shutdown # "none" => timer' \/ shutdown' # "none")
    BY <1>3, BackgroundIdle
  <2> QED BY <2>1, <2>2 DEF MovesUndisturbed, IdleFollowsMotion
<1>4. ASSUME NEW w \in late, LateWrite(w) PROVE MovesUndisturbed' /\ IdleFollowsMotion'
  <2>1. op' = op /\ (overlapped => overlapped') /\ UNCHANGED idleVars
    BY <1>4, LateLeaves
  <2> QED BY <2>1 DEF idleVars, MovesUndisturbed, IdleFollowsMotion
<1> QED BY <1>1, <1>2, <1>3, <1>4, CallShape DEF Next, Quiet, Around

\* The start bit goes up in a pulse and comes down in the same one, or goes up late.
LEMMA ReleaseStep ==
  ASSUME TypeInv, SetPointReleased, [Next]_vars
  PROVE  SetPointReleased'
<1> DEFINE Pulse(u) == \E a \in {"set", "ack", "clear"} : At(u, a)
<1>1. ASSUME NEW t \in Callers, Step(t), drive'.bit4
      PROVE  stuck' \/ \E u \in Callers : Pulse(u)'
  <2> DEFINE a == Head(todo[t])
  <2>1. /\ Touches(t) /\ (a = "set" \/ drive.bit4)
        /\ Done(t) => a \notin ClearsBit4
    BY <1>1, StepEffect
  <2>2. /\ OthersStay(t) /\ At(t, a)
        /\ MayBeLast(op[t], a) \/ \E b : Follows(op[t], a, b)
        /\ \/ Continues(t) /\ \E b : Arrives(t, op[t], b) /\ Onward(op[t], a, b)
           \/ Enters(t) /\ Arrives(t, "pp", "modePP")
           \/ Finishes(t) /\ Leaves(t)
    BY <1>1, StepPlaces
  <2>3. CASE a \in {"set", "ack", "clear"}
    <3>1. CASE Continues(t) /\ \E b : Arrives(t, op[t], b) /\ Onward(op[t], a, b)
      <4>1. PICK b : Arrives(t, op[t], b) /\ Onward(op[t], a, b)
        BY <3>1
      <4>2. a # "clear"
        BY <2>1, <3>1 DEF Continues, Needed, ClearsBit4
      <4>3. b \in {"ack", "clear"}
        BY <2>3, <4>1, <4>2 DEF Onward, Follows
      <4>4. Pulse(t)'
        BY <4>1, <4>3 DEF Arrives
      <4> QED BY <4>4
    <3>2. CASE Enters(t)
      BY <2>3, <3>2 DEF Enters
    <3>3. CASE Finishes(t)
      BY <1>1, <2>3, <3>3 DEF Finishes
    <3> QED BY <2>2, <3>1, <3>2, <3>3
  <2>4. CASE a \notin {"set", "ack", "clear"}
    <3>1. drive.bit4
      BY <2>1, <2>4
    <3>2. stuck => stuck'
      BY <1>1, <2>1 DEF Touches
    <3>3. ASSUME NEW u \in Callers, Pulse(u) PROVE Pulse(u)'
      <4>1. u # t
        BY <2>2, <2>4, <3>3 DEF At
      <4> QED BY <2>2, <3>3, <4>1 DEF OthersStay
    <3> HIDE DEF Pulse
    <3>4. stuck \/ \E u \in Callers : Pulse(u)
      BY <3>1 DEF SetPointReleased, Pulse
    <3> QED BY <3>2, <3>3, <3>4
  <2> QED BY <2>3, <2>4
<1>2. ASSUME NEW t \in Callers, NEW o, NEW b, Begins(t, o, b), drive'.bit4
      PROVE  stuck' \/ \E u \in Callers : Pulse(u)'
  <2>1. /\ drive' = drive /\ stuck' = stuck /\ \A x : ~At(t, x)
        /\ \A v \in Callers : v # t => op'[v] = op[v] /\ \A x : At(v, x)' <=> At(v, x)
    BY <1>2, CallPlaces DEF Begins
  <2> QED BY <1>2, <2>1 DEF SetPointReleased
<1>3. ASSUME Background PROVE SetPointReleased'
  BY <1>3 DEF Background, callVars, SetPointReleased, At
<1>4. ASSUME NEW w \in late, LateWrite(w) PROVE SetPointReleased'
  <2>1. \A t, x : At(t, x)' <=> At(t, x)
    BY <1>4, LateLeaves
  <2>2. /\ drive'.bit4 => w.act = "set" \/ drive.bit4
        /\ drive'.bit4 /\ (stuck \/ w.act = "set") => stuck'
    BY <1>4, LateEffect DEF LateWrite
  <2>3. drive'.bit4 => stuck' \/ \E t \in Callers, a \in {"set", "ack", "clear"} : At(t, a)
    BY <2>2 DEF SetPointReleased
  <2> QED BY <2>1, <2>3 DEF SetPointReleased
<1> QED BY <1>1, <1>2, <1>3, <1>4, Steps DEF SetPointReleased

-----------------------------------------------------------------------------
(* The theorems. *)

\* The invariant holds initially ...
LEMMA InitMotion == Init => MotionInv
<1> SUFFICES ASSUME Init PROVE MotionInv
  OBVIOUS
<1>1. DriveType
  BY DEF Init, DriveType, FreshDrive, DriveRecord, DriveStates, Modes
<1>2. CallerType
  BY DEF Init, CallerType, Results
<1>3. ScriptInv
  BY DEF Init, ScriptInv
<1>4. OtherType
  <2>1. calls \in 0..MaxCalls /\ faults \in 0..MaxFaults /\ upsets \in 0..MaxUpsets
    BY DEF Init
  <2> QED BY <2>1 DEF Init, OtherType
<1>5. \A t \in Callers : op[t] = "idle" /\ ~Checked(t) /\ ~BeforePulse(t) /\ ~Started(t)
                         /\ ~InHoming(t) /\ ~Pulsed(t)
  BY DEF Init, Checked, BeforePulse, Started, InHoming, Homes, Pulsed
<1>6. AimInv
  BY <1>5 DEF Init, AimInv
<1>7. Alone /\ EdgeIsReady /\ OwnSetPoint /\ HomingInv /\ MovesUndisturbed
  BY <1>5 DEF Alone, EdgeIsReady, OwnSetPoint, HomingInv, MovesUndisturbed, MotionOps
<1>8. MoverFired /\ HaltedFired /\ HaltIsFinal /\ LateInv
  BY DEF Init, MoverFired, HaltedFired, HaltIsFinal, LateInv
<1>9. ConfigInv
  BY <1>5 DEF Init, ConfigInv
<1>10. SetPointReleased /\ IdleFollowsMotion
  BY DEF Init, SetPointReleased, IdleFollowsMotion, FreshDrive
<1> QED BY <1>1, <1>2, <1>3, <1>4, <1>6, <1>7, <1>8, <1>9, <1>10 DEF MotionInv, TypeInv

\* ... and every step preserves it.
LEMMA MotionStep == MotionInv /\ [Next]_vars => MotionInv'
<1> SUFFICES ASSUME MotionInv, [Next]_vars PROVE MotionInv'
  OBVIOUS
<1> USE DEF MotionInv
<1>1. TypeInv'
  BY CallerTypeStep, DriveTypeStep, OtherTypeStep, AimStep DEF TypeInv
<1>2. /\ Alone' /\ EdgeIsReady' /\ OwnSetPoint' /\ MoverFired' /\ HaltedFired' /\ HaltIsFinal'
      /\ ConfigInv' /\ LateInv'
  BY AloneStep, EdgeStep, OwnStep, HaltStep, ConfigStep, LateStep
<1>3. HomingInv' /\ MovesUndisturbed' /\ IdleFollowsMotion' /\ SetPointReleased'
  BY HomingStep, IdleStep, ReleaseStep
<1> QED BY <1>1, <1>2, <1>3

\* So it always holds.
LEMMA Invariance == Spec => []MotionInv
BY InitMotion, MotionStep, PTL DEF Spec

\* Every variable keeps its type, a caller has accesses left just while it is in an
\* operation, and no target outside the limits reaches the drive, for any callers,
\* targets and limits (motion_commands.py:319-332, profile_position.py:124-202).
THEOREM TypeCorrect == Spec => []TypeOK
<1>1. MotionInv => TypeOK
  <2> SUFFICES ASSUME MotionInv PROVE TypeOK
    OBVIOUS
  <2>1. \A t \in Callers : todo[t] = <<>> <=> op[t] = "idle"
    BY DEF MotionInv, TypeInv, ScriptInv, ScriptOf
  <2> QED BY <2>1 DEF MotionInv, TypeInv, DriveType, CallerType, OtherType, Results, TypeOK
<1> QED BY <1>1, Invariance, PTL

\* The start bit is high only inside a handshake or after an access of a pulse has
\* raised, however many callers interleave (profile_position.py:202-208).
THEOREM BitFourIsReleased == Spec => []SetPointReleased
<1>1. MotionInv => SetPointReleased
  BY DEF MotionInv
<1> QED BY <1>1, Invariance, PTL

\* No access of a handshake, and no write that an earlier command left on its way, starts
\* the motion of a move again that a HALT has ended, however callers interleave and
\* attempts fail: only the session can, by sending the set-point of that move more than
\* once (profile_position.py:202-208, motion_commands.py:168-183, session.py:194-203).
THEOREM HaltEndsTheMotion == Spec => []HaltIsFinal
<1>1. MotionInv => HaltIsFinal
  BY DEF MotionInv
<1> QED BY <1>1, Invariance, PTL

\* A move writes its own values and leaves the configured ones behind, as long as
\* motion commands do not overlap (profile_position.py:230-240).
THEOREM MovesUseTheirOwnProfile == Spec => []ProfileIsOwn
<1>1. MotionInv => ProfileIsOwn
  <2> SUFFICES ASSUME MotionInv, ~overlapped, NEW t \in Callers
               PROVE  IF op[t] = "pp" THEN cfg = t /\ (Started(t) => profile = t) ELSE cfg # t
    BY DEF ProfileIsOwn
  <2>1. /\ (\A u \in Callers : op[u] # "pp") => cfg = None
        /\ \A u \in Callers : op[u] = "pp" => cfg = u /\ (Configured(u) => profile = u)
    BY DEF MotionInv, ConfigInv
  <2>2. CASE op[t] = "pp"
    BY <2>1, <2>2 DEF Started, Configured
  <2>3. CASE op[t] # "pp"
    BY <2>1, <2>3
  <2> QED BY <2>2, <2>3
<1> QED BY <1>1, Invariance, PTL

\* A motion that has ended is followed by an idle shutdown, until that is revoked
\* or has had its turn (motion_commands.py:402-403, 526).
THEOREM ShutdownFollows == Spec => []IdleFollowsMotion
<1>1. MotionInv => IdleFollowsMotion
  BY DEF MotionInv
<1> QED BY <1>1, Invariance, PTL

\* The idle shutdown takes no voltage from a move that began before its write was
\* submitted (motion_commands.py:232, idle_shutdown.py:36-43).
THEOREM ShutdownSparesMoves == Spec => IdleSparesMoves
<1>1. MotionInv /\ [Next]_vars
        => [shutdown = "looks" /\ shutdown' = "writes"
              => overlapped \/ \A t \in Callers : op[t] \notin {"move", "pp"}]_vars
  BY DEF MotionInv, MovesUndisturbed
<1> QED BY <1>1, Invariance, PTL DEF Spec, IdleSparesMoves

\* How a step of a caller sets its result: success is reported in two places only.
LEMMA ResultStep ==
  ASSUME TypeInv, NEW t \in Callers, Step(t)
  PROVE  \/ result' = result
         \/ \E how : /\ result' = [result EXCEPT ![t] = how]
                     /\ how = "reached" => PositionRead(t) /\ Near(t)
                     /\ how = "attained" => HomingDone(t)
<1> DEFINE Ended(how) == result' = [result EXCEPT ![t] = how]
<1>1. ASSUME NEW how, Ends(t, how), how \notin {"reached", "attained"}
      PROVE  \E h : /\ result' = [result EXCEPT ![t] = h]
                    /\ h = "reached" => PositionRead(t) /\ Near(t)
                    /\ h = "attained" => HomingDone(t)
  BY <1>1 DEF Ends
<1>2. ASSUME NEW s, GoOn(t, s) PROVE result' = result
  BY <1>2 DEF GoOn
<1>3. ASSUME AckFailure(t)
      PROVE  \E h : /\ result' = [result EXCEPT ![t] = h]
                    /\ h = "reached" => PositionRead(t) /\ Near(t)
                    /\ h = "attained" => HomingDone(t)
  <2>1. Ended("failed")
    BY <1>3 DEF AckFailure
  <2>2. "failed" # "reached" /\ "failed" # "attained"
    OBVIOUS
  <2> QED BY <2>1, <2>2, Zenon
<1>4. CASE Access(t) \/ Prepare(t) \/ MoveReleasesJog(t) \/ ModeRead(t) \/ TargetRefused(t)
           \/ ClearsAbort(t) \/ HomedRead(t)
  BY <1>1, <1>2, <1>4 DEF Access, Prepare, MoveReleasesJog, ModeRead, TargetRefused, ClearsAbort,
                          HomedRead, EntersPp
<1>5. CASE ModeVerified(t) \/ Acknowledged(t) \/ NotAcknowledged(t) \/ Releases(t)
           \/ AbortSeen(t) \/ ReachedSeen(t) \/ WaitFails(t)
  BY <1>1, <1>2, <1>3, <1>5 DEF ModeVerified, Acknowledged, NotAcknowledged, Releases, AbortSeen,
                                ReachedSeen, WaitFails
<1>6. CASE PositionRead(t)
  BY <1>2, <1>6 DEF PositionRead, Ends
<1>7. CASE HomeReady(t) \/ HomeReadyNow(t)
  BY <1>1, <1>2, <1>7 DEF HomeReady, HomeReadyNow
<1>8. CASE HomingDone(t)
  BY <1>8 DEF HomingDone, Ends
<1>9. CASE HaltDone(t) \/ StopLooks(t) \/ StopDone(t) \/ JogDecides(t) \/ JogReady(t) \/ JogPressed(t)
  BY <1>1, <1>2, <1>9 DEF HaltDone, StopLooks, StopDone, JogDecides, JogReady, JogPressed
<1>10. CASE JogReleased(t)
  <2>1. Ended("released")
    BY <1>10 DEF JogReleased
  <2>2. "released" # "reached" /\ "released" # "attained"
    OBVIOUS
  <2> QED BY <2>1, <2>2, Zenon
<1>11. CASE RaiseEnds(t) \/ RaiseGoesOn(t)
  BY <1>1, <1>2, <1>3, <1>11 DEF RaiseEnds, RaiseGoesOn, EntersPp
<1> QED BY <1>4, <1>5, <1>6, <1>7, <1>8, <1>9, <1>10, <1>11 DEF Step

\* Where a result becomes a success.
LEMMA Successes ==
  ASSUME TypeInv, [Next]_vars, NEW t \in Callers, result'[t] # result[t]
  PROVE  /\ result'[t] = "reached" => PositionRead(t) /\ Near(t)
         /\ result'[t] = "attained" => HomingDone(t)
<1>1. ASSUME NEW u \in Callers, Step(u)
      PROVE  /\ result'[t] = "reached" => PositionRead(t) /\ Near(t)
             /\ result'[t] = "attained" => HomingDone(t)
  <2>1. PICK how : /\ result' = [result EXCEPT ![u] = how]
                   /\ how = "reached" => PositionRead(u) /\ Near(u)
                   /\ how = "attained" => HomingDone(u)
    BY <1>1, ResultStep
  <2>2. t = u /\ result'[t] = how
    BY <2>1 DEF TypeInv, CallerType
  <2> QED BY <2>1, <2>2
<1>2. ASSUME NEW u \in Callers, NEW o, NEW b, Begins(u, o, b)
      PROVE  result'[t] \notin {"reached", "attained"}
  <2>1. result' = [result EXCEPT ![u] = "none"]
    BY <1>2 DEF Begins
  <2> QED BY <2>1 DEF TypeInv, CallerType
<1>3. ~Background
  BY DEF Background, callVars
<1>4. ~\E w \in late : LateWrite(w)
  BY LateLeaves
<1> QED BY <1>1, <1>2, <1>3, <1>4, Steps

\* A move that reports success is within the window of its own target and was
\* started by its own set-point, unless motion commands overlapped or the drive is
\* in fault (profile_position.py:334, 299).
THEOREM ReachedIsThere == Spec => ReachedMeansThere
<1> DEFINE Fact == \A t \in Callers :
                     result[t] # "reached" /\ result'[t] = "reached"
                       => overlapped \/ (Near(t) /\ (mover = t \/ drive.fault))
<1>1. MotionInv /\ [Next]_vars => [Fact]_vars
  <2> SUFFICES ASSUME MotionInv, [Next]_vars, NEW t \in Callers,
                      result[t] # "reached", result'[t] = "reached", ~overlapped
               PROVE  Near(t) /\ (mover = t \/ drive.fault)
    OBVIOUS
  <2>1. PositionRead(t) /\ Near(t)
    BY Successes DEF MotionInv
  <2>2. Started(t)
    BY <2>1 DEF PositionRead, Started
  <2> QED BY <2>1, <2>2 DEF MotionInv, OwnSetPoint
<1> QED BY <1>1, Invariance, PTL DEF Spec, ReachedMeansThere

\* home() reports success only for an axis that has homed during the call, unless
\* its start bit met a drive that could not take it, or motion commands overlapped
\* (homing.py:128, 147-153).
THEOREM AttainedIsHomed == Spec => AttainedMeansHomed
<1> DEFINE Fact == \A t \in Callers :
                     result[t] # "attained" /\ result'[t] = "attained"
                       => t \in homedIn \cup unpulsed \/ overlapped
<1>1. MotionInv /\ [Next]_vars => [Fact]_vars
  <2> SUFFICES ASSUME MotionInv, [Next]_vars, NEW t \in Callers,
                      result[t] # "attained", result'[t] = "attained", ~overlapped
               PROVE  t \in homedIn \cup unpulsed
    OBVIOUS
  <2>1. HomingDone(t)
    BY Successes DEF MotionInv
  <2>2. InHoming(t) /\ Pulsed(t) /\ "bit12" \in Status(drive, TRUE)
    BY <2>1 DEF HomingDone, InHoming, Homes, Pulsed, Attained, Bit12
  <2>3. drive.mode = 6 /\ (t \in homedIn \cup unpulsed \/ ~drive.homed)
    BY <2>2 DEF MotionInv, HomingInv
  <2>4. drive.homed
    <3>1. drive.state \in DriveStates
      BY DEF MotionInv, TypeInv, DriveType, DriveRecord
    <3> QED BY <2>2, <2>3, <3>1 DEF Status, DriveStates
  <2> QED BY <2>3, <2>4
<1> QED BY <1>1, Invariance, PTL DEF Spec, AttainedMeansHomed
=============================================================================
