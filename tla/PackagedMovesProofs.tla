------------------------ MODULE PackagedMovesProofs ------------------------
(***************************************************************************)
(* Safety of PackagedMoves for any number of callers and calls, any targets *)
(* and limits, and any number of raising accesses and faults of the drive.  *)
(* The argument is that of MotionFacadeProofs; as the packages do not read  *)
(* the position, the invariant follows the motion itself.                   *)
(***************************************************************************)
EXTENDS PackagedMoves, SimulatedDriveProofs, SequenceTheorems

USE PackageAssumption, DriveAssumption

-----------------------------------------------------------------------------
(* The accesses an operation can have left. *)

Accesses ==
  {"prepare", "mode", "modePP", "climb", "status", "unhalt", "look", "shutdown", "settled",
   "verify", "configure", "target", "barrier", "set", "clear", "ack", "delta", "clears", "wait",
   "ready", "readyNow", "modeHM", "done", "halt", "slow", "slowHalt", "slowQuick",
   "fault", "reset", "haltReady"}

\* In what is left of operation o, access b comes right after access a.
Follows(o, a, b) ==
  \/ /\ o = "move"
     /\ \/ a = "shutdown" /\ b = "settled"
        \/ a = "settled" /\ b = "modePP"
        \/ a = "modePP" /\ b = "climb"
        \/ a = "climb" /\ b = "status"
        \/ a = "status" /\ b = "unhalt"
        \/ a = "unhalt" /\ b = "look"
  \/ /\ o = "pp"
     /\ \/ a = "modePP" /\ b = "verify"
        \/ a = "verify" /\ b = "configure"
        \/ a = "configure" /\ b = "target"
        \/ a = "target" /\ b = "barrier"
        \/ a = "barrier" /\ b = "set"
        \/ a = "set" /\ b = "clear"
        \/ a = "clear" /\ b = "ack"
  \/ /\ o = "home"
     /\ \/ a = "climb" /\ b = "readyNow"
        \/ a = "modeHM" /\ b = "configure"
        \/ a = "configure" /\ b = "barrier"
        \/ a = "barrier" /\ b = "set"
        \/ a = "set" /\ b = "clear"
        \/ a = "clear" /\ b = "done"
  \/ o = "stop" /\ a = "halt" /\ b \in {"halt", "slow"}
  \/ /\ o = "reset"
     /\ \/ a \in {"fault", "settled"} /\ b = "climb"
        \/ a = "climb" /\ b = "halt"
        \/ a = "reset" /\ b = "shutdown"
        \/ a = "shutdown" /\ b = "haltReady"
        \/ a = "haltReady" /\ b = "settled"

\* Access a can be the last one left of operation o.
MayBeLast(o, a) ==
  \/ o = "move" /\ a \in {"prepare", "mode", "look"}
  \/ o = "pp" /\ a \in {"ack", "delta", "clears", "wait"}
  \/ o = "home" /\ a \in {"ready", "readyNow", "done"}
  \/ o = "stop" /\ a \in {"slow", "slowHalt", "slowQuick"}
  \/ o = "reset" /\ a \in {"fault", "settled", "halt"}

ScriptOf(o, s) ==
  /\ s # <<>>
  /\ \A i \in 1..(Len(s) - 1) : Follows(o, s[i], s[i + 1])
  /\ MayBeLast(o, s[Len(s)])

-----------------------------------------------------------------------------
(* The inductive invariant. *)

\* The drive is one of the packages' simulator: its target is inside the limits,
\* it shows no set-point acknowledge, and nothing raises its emergency input.
DriveType ==
  drive \in DriveRecord /\ drive.target \in 0..MaxPos /\ ~drive.ack /\ ~drive.emergency

Results == {"none", "failed", "aborted", "reached", "attained", "done"}

CallerType ==
  /\ op \in [Callers -> Moving \cup {"idle", "stop"}]
  /\ todo \in [Callers -> Seq(Accesses)]
  /\ goal \in [Callers -> Targets \cup {0}]
  /\ result \in [Callers -> Results]

ScriptInv ==
  \A t \in Callers : IF op[t] = "idle" THEN todo[t] = <<>> ELSE ScriptOf(op[t], todo[t])

OtherType ==
  /\ stale \in BOOLEAN /\ abort \in BOOLEAN /\ timer \in BOOLEAN /\ orphan \in BOOLEAN
  /\ overlapped \in BOOLEAN
  /\ shutdown \in {"none", "looks", "writes"}
  /\ calls \in 0..MaxCalls /\ faults \in 0..MaxFaults /\ upsets \in 0..MaxUpsets
  /\ mover \in Callers \cup {None}
  /\ homedIn \subseteq Callers /\ unpulsed \subseteq Callers /\ cut \subseteq Callers \cup {None}

\* A target is checked before the enable word that precedes the handshake.
Checked(t) == op[t] = "pp" \/ (op[t] = "move" /\ At(t, "look"))
AimInv == \A t \in Callers : Checked(t) => WithinLimits(goal[t])

TypeInv == DriveType /\ CallerType /\ ScriptInv /\ OtherType /\ AimInv

\* Commands that do not overlap are made one at a time.
Alone == overlapped \/ \A t, u \in Callers : op[t] \in Moving /\ op[u] \in Moving => t = u

\* A move clears bit 4 before its handshake: its set-point is a rising edge.
BeforePulse(t) ==
  \/ op[t] = "move" /\ At(t, "look")
  \/ /\ op[t] = "pp"
     /\ \E a \in {"modePP", "verify", "configure", "target", "barrier", "set"} : At(t, a)

EdgeIsReady == overlapped \/ \A t \in Callers : BeforePulse(t) => ~drive.bit4

\* The drive is in the mode a move, or home(), has written, and has the move's
\* own target.
InPosition(t) == op[t] = "pp" /\ ~At(t, "modePP")
Aimed(t) ==
  op[t] = "pp" /\ \E a \in {"barrier", "set", "clear", "ack", "delta", "clears", "wait"} : At(t, a)
InHoming(t) ==
  op[t] = "home" /\ \E a \in {"configure", "barrier", "set", "clear", "done"} : At(t, a)

SetUp ==
  overlapped \/
    \A t \in Callers :
      /\ InPosition(t) => drive.mode = 1
      /\ Aimed(t) => drive.target = goal[t]
      /\ InHoming(t) => drive.mode = 6

\* After its pulse a move is under way to its own target with "target reached"
\* down, or has arrived there; a fault, or a motion that was cut short, excuses it.
Near(t) == drive.pos - goal[t] \in -Window..Window
Arrived(t) == drive.motion = "none" /\ drive.pos = goal[t]
Going(t) ==
  mover = t /\ drive.motion = "pp" /\ drive.goal = goal[t] /\ ~drive.reached
Pulsed(t) == op[t] = "pp" /\ \E a \in {"clear", "ack", "delta", "clears", "wait"} : At(t, a)

\* In the last wait bit 10 is no longer that of an earlier motion, or the move is
\* near its target.
MoveInv ==
  overlapped \/
    \A t \in Callers :
      Pulsed(t) =>
        \/ drive.fault \/ t \in cut \/ Arrived(t)
        \/ Going(t) /\ (At(t, "wait") => ~stale \/ Near(t))

\* After its start bit home() is under way, with bits 10 and 12 down, or has an
\* entry in the ghosts.
Homes(t) == op[t] = "home" /\ \E a \in {"clear", "done"} : At(t, a)
Homing(t) == mover = t /\ drive.motion = "homing" /\ ~drive.reached /\ ~drive.homed

HomeInv ==
  overlapped \/
    \A t \in Callers : Homes(t) => t \in homedIn \cup unpulsed \cup cut \/ Homing(t)

MovesInv == TypeInv /\ Alone /\ EdgeIsReady /\ SetUp /\ MoveInv /\ HomeInv

-----------------------------------------------------------------------------
(* Lemmas about scripts. *)

\* s is a script of operation o that begins with access a.
IsScript(o, s, a) == s \in Seq(Accesses) /\ ScriptOf(o, s) /\ Head(s) = a

\* s is a stretch of a script of o, from access a to access z.
IsRun(o, s, a, z) ==
  /\ s \in Seq(Accesses) /\ s # <<>> /\ Head(s) = a /\ s[Len(s)] = z
  /\ \A i \in 1..(Len(s) - 1) : Follows(o, s[i], s[i + 1])

\* One access is a stretch.
LEMMA OneRun ==
  ASSUME NEW o, NEW a \in Accesses
  PROVE  IsRun(o, <<a>>, a, a)
BY DEF IsRun

\* A stretch that ends where the script may end is a script.
LEMMA RunEnds ==
  ASSUME NEW o, NEW s, NEW a, NEW z, IsRun(o, s, a, z), MayBeLast(o, z)
  PROVE  IsScript(o, s, a)
BY DEF IsRun, IsScript, ScriptOf

\* One access that may be the last one is a script.
LEMMA LastScript ==
  ASSUME NEW o, NEW a \in Accesses, MayBeLast(o, a)
  PROVE  IsScript(o, <<a>>, a)
BY OneRun, RunEnds

\* A stretch in front of a script.
LEMMA RunGoesOn ==
  ASSUME NEW o, NEW s, NEW a, NEW z, IsRun(o, s, a, z),
         NEW r, NEW b, IsScript(o, r, b), Follows(o, z, b)
  PROVE  IsScript(o, s \o r, a)
<1> DEFINE q == s \o r
<1>1. /\ s \in Seq(Accesses) /\ Len(s) \in Nat /\ Len(s) >= 1 /\ s[1] = a /\ s[Len(s)] = z
      /\ \A i \in 1..(Len(s) - 1) : Follows(o, s[i], s[i + 1])
  BY DEF IsRun
<1>2. /\ r \in Seq(Accesses) /\ Len(r) \in Nat /\ Len(r) >= 1 /\ r[1] = b
      /\ \A i \in 1..(Len(r) - 1) : Follows(o, r[i], r[i + 1])
      /\ MayBeLast(o, r[Len(r)])
  BY DEF IsScript, ScriptOf
<1>3. /\ q \in Seq(Accesses) /\ Len(q) = Len(s) + Len(r)
      /\ \A i \in 1..(Len(s) + Len(r)) : q[i] = IF i <= Len(s) THEN s[i] ELSE r[i - Len(s)]
  BY <1>1, <1>2, ConcatProperties
<1> HIDE DEF q
<1>4. q # <<>> /\ Head(q) = a
  <2>1. Len(q) # 0 /\ q[1] = a
    BY <1>1, <1>2, <1>3
  <2>2. q # <<>>
    BY <2>1
  <2> QED BY <1>3, <2>1, <2>2
<1>5. q[Len(q)] = r[Len(r)]
  BY <1>1, <1>2, <1>3
<1>6. ASSUME NEW i \in 1..(Len(q) - 1) PROVE Follows(o, q[i], q[i + 1])
  <2>1. i \in 1..(Len(s) + Len(r)) /\ i + 1 \in 1..(Len(s) + Len(r)) /\ i \in Int
    BY <1>1, <1>2, <1>3
  <2>2. CASE i < Len(s)
    <3>1. i \in 1..(Len(s) - 1) /\ q[i] = s[i] /\ q[i + 1] = s[i + 1]
      BY <1>1, <1>3, <2>1, <2>2
    <3> QED BY <1>1, <3>1
  <2>3. CASE i = Len(s)
    <3>1. q[i] = z /\ q[i + 1] = b
      BY <1>1, <1>2, <1>3, <2>1, <2>3
    <3> QED BY <3>1
  <2>4. CASE i > Len(s)
    <3>1. i - Len(s) \in 1..(Len(r) - 1) /\ (i + 1) - Len(s) = (i - Len(s)) + 1
      BY <1>1, <1>2, <1>3, <2>4
    <3>2. q[i] = r[i - Len(s)] /\ q[i + 1] = r[(i - Len(s)) + 1]
      BY <1>1, <1>3, <2>1, <2>4, <3>1
    <3> QED BY <1>2, <3>1, <3>2
  <2> QED BY <1>1, <2>1, <2>2, <2>3, <2>4
<1> QED BY <1>2, <1>3, <1>4, <1>5, <1>6 DEF IsScript, ScriptOf, q

\* What is left after the first access of a script is a script, or nothing.
LEMMA ScriptTail ==
  ASSUME NEW o, NEW s \in Seq(Accesses), ScriptOf(o, s)
  PROVE  /\ Head(s) \in Accesses
         /\ Len(s) > 1 => /\ IsScript(o, Tail(s), Head(Tail(s)))
                          /\ Follows(o, Head(s), Head(Tail(s)))
         /\ ~(Len(s) > 1) => MayBeLast(o, Head(s)) /\ Tail(s) = <<>>
<1>1. Len(s) \in Nat /\ Len(s) >= 1 /\ Head(s) = s[1] /\ s # <<>> /\ Head(s) \in Accesses
  BY DEF ScriptOf
<1>2. /\ Tail(s) \in Seq(Accesses) /\ Len(Tail(s)) = Len(s) - 1
      /\ \A i \in 1..Len(Tail(s)) : Tail(s)[i] = s[i + 1]
  BY <1>1, HeadTailProperties
<1>3. ASSUME Len(s) > 1
      PROVE  IsScript(o, Tail(s), Head(Tail(s))) /\ Follows(o, Head(s), Head(Tail(s)))
  <2>1. Tail(s) # <<>> /\ Head(Tail(s)) = s[2]
    <3>1. Len(Tail(s)) # Len(<<>>)
      BY <1>1, <1>2, <1>3
    <3>2. Tail(s) # <<>>
      BY <3>1
    <3>3. 1 \in 1..Len(Tail(s)) /\ 1 + 1 = 2
      BY <1>1, <1>2, <1>3
    <3>4. Tail(s)[1] = s[2]
      BY <1>2, <3>3
    <3> QED BY <1>2, <3>2, <3>4
  <2>2. \A i \in 1..(Len(Tail(s)) - 1) : Follows(o, Tail(s)[i], Tail(s)[i + 1])
    BY <1>1, <1>2 DEF ScriptOf
  <2>3. MayBeLast(o, Tail(s)[Len(Tail(s))])
    BY <1>1, <1>2, <1>3 DEF ScriptOf
  <2>4. Follows(o, s[1], s[2])
    BY <1>1, <1>3 DEF ScriptOf
  <2> QED BY <1>1, <1>2, <2>1, <2>2, <2>3, <2>4 DEF IsScript, ScriptOf
<1>4. ASSUME ~(Len(s) > 1) PROVE MayBeLast(o, Head(s)) /\ Tail(s) = <<>>
  <2>1. Len(s) = 1 /\ Len(Tail(s)) = 0
    BY <1>1, <1>2, <1>4
  <2>2. Tail(s) = <<>>
    BY <1>2, <2>1, EmptySeq
  <2> QED BY <1>1, <2>1, <2>2 DEF ScriptOf
<1> QED BY <1>1, <1>3, <1>4

\* The stretches the code puts its scripts together from.
LEMMA FixedRuns ==
  /\ IsRun("move", BeforeHandshake, "unhalt", "look")
  /\ IsRun("move", CycleToPp, "shutdown", "status")
  /\ IsRun("move", <<"modePP", "climb", "status">>, "modePP", "status")
  /\ IsRun("pp", Handshake, "modePP", "ack")
  /\ IsRun("home", HomingScript, "modeHM", "done")
  /\ IsRun("home", <<"climb", "readyNow">>, "climb", "readyNow")
  /\ IsRun("stop", <<"halt", "halt", "slow">>, "halt", "slow")
  /\ IsRun("reset", Recovery, "climb", "halt")
  /\ IsRun("reset", <<"reset", "shutdown", "haltReady", "settled">>, "reset", "settled")
<1>1. IsRun("move", BeforeHandshake, "unhalt", "look")
  <2> DEFINE s == BeforeHandshake
  <2>1. s \in Seq(Accesses) /\ Len(s) = 2 /\ Head(s) = "unhalt" /\ s[2] = "look" /\ s # <<>>
    BY DEF BeforeHandshake, Accesses
  <2>2. ASSUME NEW i \in 1..1 PROVE Follows("move", s[i], s[i + 1])
    BY DEF BeforeHandshake, Follows
  <2> HIDE DEF s
  <2>3. IsRun("move", s, "unhalt", "look")
    BY <2>1, <2>2 DEF IsRun
  <2> QED BY <2>3 DEF s
<1>2. IsRun("move", CycleToPp, "shutdown", "status")
  <2> DEFINE s == CycleToPp
  <2>1. s \in Seq(Accesses) /\ Len(s) = 5 /\ Head(s) = "shutdown" /\ s[5] = "status" /\ s # <<>>
    BY DEF CycleToPp, Accesses
  <2>2. ASSUME NEW i \in 1..4 PROVE Follows("move", s[i], s[i + 1])
    BY DEF CycleToPp, Follows
  <2> HIDE DEF s
  <2>3. IsRun("move", s, "shutdown", "status")
    BY <2>1, <2>2 DEF IsRun
  <2> QED BY <2>3 DEF s
<1>3. IsRun("move", <<"modePP", "climb", "status">>, "modePP", "status")
  <2> DEFINE s == <<"modePP", "climb", "status">>
  <2>1. s \in Seq(Accesses) /\ Len(s) = 3 /\ Head(s) = "modePP" /\ s[3] = "status" /\ s # <<>>
    BY DEF Accesses
  <2>2. ASSUME NEW i \in 1..2 PROVE Follows("move", s[i], s[i + 1])
    BY DEF Follows
  <2> HIDE DEF s
  <2>3. IsRun("move", s, "modePP", "status")
    BY <2>1, <2>2 DEF IsRun
  <2> QED BY <2>3 DEF s
<1>4. IsRun("pp", Handshake, "modePP", "ack")
  <2> DEFINE s == Handshake
  <2>1. s \in Seq(Accesses) /\ Len(s) = 8 /\ Head(s) = "modePP" /\ s[8] = "ack" /\ s # <<>>
    BY DEF Handshake, Accesses
  <2>2. ASSUME NEW i \in 1..7 PROVE Follows("pp", s[i], s[i + 1])
    BY DEF Handshake, Follows
  <2> HIDE DEF s
  <2>3. IsRun("pp", s, "modePP", "ack")
    BY <2>1, <2>2 DEF IsRun
  <2> QED BY <2>3 DEF s
<1>5. IsRun("home", HomingScript, "modeHM", "done")
  <2> DEFINE s == HomingScript
  <2>1. s \in Seq(Accesses) /\ Len(s) = 6 /\ Head(s) = "modeHM" /\ s[6] = "done" /\ s # <<>>
    BY DEF HomingScript, Accesses
  <2>2. ASSUME NEW i \in 1..5 PROVE Follows("home", s[i], s[i + 1])
    BY DEF HomingScript, Follows
  <2> HIDE DEF s
  <2>3. IsRun("home", s, "modeHM", "done")
    BY <2>1, <2>2 DEF IsRun
  <2> QED BY <2>3 DEF s
<1>6. IsRun("home", <<"climb", "readyNow">>, "climb", "readyNow")
  <2> DEFINE s == <<"climb", "readyNow">>
  <2>1. s \in Seq(Accesses) /\ Len(s) = 2 /\ Head(s) = "climb" /\ s[2] = "readyNow" /\ s # <<>>
    BY DEF Accesses
  <2>2. ASSUME NEW i \in 1..1 PROVE Follows("home", s[i], s[i + 1])
    BY DEF Follows
  <2> HIDE DEF s
  <2>3. IsRun("home", s, "climb", "readyNow")
    BY <2>1, <2>2 DEF IsRun
  <2> QED BY <2>3 DEF s
<1>7. IsRun("stop", <<"halt", "halt", "slow">>, "halt", "slow")
  <2> DEFINE s == <<"halt", "halt", "slow">>
  <2>1. s \in Seq(Accesses) /\ Len(s) = 3 /\ Head(s) = "halt" /\ s[3] = "slow" /\ s # <<>>
    BY DEF Accesses
  <2>2. ASSUME NEW i \in 1..2 PROVE Follows("stop", s[i], s[i + 1])
    BY DEF Follows
  <2> HIDE DEF s
  <2>3. IsRun("stop", s, "halt", "slow")
    BY <2>1, <2>2 DEF IsRun
  <2> QED BY <2>3 DEF s
<1>8. IsRun("reset", Recovery, "climb", "halt")
  <2> DEFINE s == Recovery
  <2>1. s \in Seq(Accesses) /\ Len(s) = 2 /\ Head(s) = "climb" /\ s[2] = "halt" /\ s # <<>>
    BY DEF Recovery, Accesses
  <2>2. ASSUME NEW i \in 1..1 PROVE Follows("reset", s[i], s[i + 1])
    BY DEF Recovery, Follows
  <2> HIDE DEF s
  <2>3. IsRun("reset", s, "climb", "halt")
    BY <2>1, <2>2 DEF IsRun
  <2> QED BY <2>3 DEF s
<1>9. IsRun("reset", <<"reset", "shutdown", "haltReady", "settled">>, "reset", "settled")
  <2> DEFINE s == <<"reset", "shutdown", "haltReady", "settled">>
  <2>1. s \in Seq(Accesses) /\ Len(s) = 4 /\ Head(s) = "reset" /\ s[4] = "settled" /\ s # <<>>
    BY DEF Accesses
  <2>2. ASSUME NEW i \in 1..3 PROVE Follows("reset", s[i], s[i + 1])
    BY DEF Follows
  <2> HIDE DEF s
  <2>3. IsRun("reset", s, "reset", "settled")
    BY <2>1, <2>2 DEF IsRun
  <2> QED BY <2>3 DEF s
<1> QED BY <1>1, <1>2, <1>3, <1>4, <1>5, <1>6, <1>7, <1>8, <1>9

\* The scripts an operation begins and goes on with.
LEMMA Scripts ==
  /\ IsScript("move", <<"prepare">>, "prepare")
  /\ IsScript("move", <<"mode">>, "mode")
  /\ IsScript("move", <<"modePP", "climb", "status">> \o BeforeHandshake, "modePP")
  /\ IsScript("move", <<>> \o BeforeHandshake, "unhalt")
  /\ IsScript("move", CycleToPp \o BeforeHandshake, "shutdown")
  /\ IsScript("pp", Handshake, "modePP")
  /\ \A a \in {"delta", "clears", "wait"} : IsScript("pp", <<a>>, a)
  /\ IsScript("home", <<"ready">>, "ready")
  /\ IsScript("home", HomingScript, "modeHM")
  /\ IsScript("home", <<"climb", "readyNow">>, "climb")
  /\ IsScript("home", <<"done">>, "done")
  /\ IsScript("stop", <<"halt", "halt", "slow">>, "halt")
  /\ \A a \in {"slow", "slowHalt", "slowQuick"} : IsScript("stop", <<a>>, a)
  /\ \A s \in {<<>>, Recovery} : IsScript("reset", <<"fault">> \o s, "fault")
<1>1. /\ \A a \in {"prepare", "mode"} : IsScript("move", <<a>>, a)
      /\ \A a \in {"delta", "clears", "wait"} : IsScript("pp", <<a>>, a)
      /\ \A a \in {"ready", "done"} : IsScript("home", <<a>>, a)
      /\ \A a \in {"slow", "slowHalt", "slowQuick"} : IsScript("stop", <<a>>, a)
      /\ IsScript("reset", <<"fault">>, "fault")
  BY LastScript DEF MayBeLast, Accesses
<1>2. /\ IsScript("pp", Handshake, "modePP")
      /\ IsScript("home", HomingScript, "modeHM")
      /\ IsScript("home", <<"climb", "readyNow">>, "climb")
      /\ IsScript("stop", <<"halt", "halt", "slow">>, "halt")
  BY FixedRuns, RunEnds DEF MayBeLast
<1>3. /\ IsScript("move", BeforeHandshake, "unhalt")
      /\ IsScript("reset", Recovery, "climb")
  BY FixedRuns, RunEnds DEF MayBeLast
<1>4. /\ IsScript("move", <<"modePP", "climb", "status">> \o BeforeHandshake, "modePP")
      /\ IsScript("move", CycleToPp \o BeforeHandshake, "shutdown")
  BY <1>3, FixedRuns, RunGoesOn DEF Follows
<1>5. IsScript("reset", <<"fault">> \o Recovery, "fault")
  BY <1>3, OneRun, RunGoesOn DEF Follows, Accesses
<1>6. <<>> \o BeforeHandshake = BeforeHandshake /\ <<"fault">> \o <<>> = <<"fault">>
  BY DEF BeforeHandshake
<1> QED BY <1>1, <1>2, <1>3, <1>4, <1>5, <1>6

\* sm.fault_reset() in front of what was left of the recovery.
LEMMA ResetScript ==
  ASSUME NEW s \in Seq(Accesses), ScriptOf("reset", s), Head(s) = "fault"
  PROVE  IsScript("reset", <<"reset", "shutdown", "haltReady", "settled">> \o Tail(s), "reset")
<1> DEFINE r == <<"reset", "shutdown", "haltReady", "settled">>
<1>1. IsRun("reset", r, "reset", "settled")
  BY FixedRuns
<1>2. CASE Len(s) > 1
  <2>1. IsScript("reset", Tail(s), Head(Tail(s))) /\ Follows("reset", "fault", Head(Tail(s)))
    BY <1>2, ScriptTail
  <2>2. Follows("reset", "settled", Head(Tail(s)))
    BY <2>1 DEF Follows
  <2> HIDE DEF r
  <2>3. IsScript("reset", r \o Tail(s), "reset")
    BY <1>1, <2>1, <2>2, RunGoesOn
  <2> QED BY <2>3 DEF r
<1>3. CASE ~(Len(s) > 1)
  <2>1. Tail(s) = <<>>
    BY <1>3, ScriptTail
  <2>2. IsScript("reset", r, "reset")
    BY <1>1, RunEnds DEF MayBeLast
  <2>3. r \o <<>> = r
    OBVIOUS
  <2> QED BY <2>1, <2>2, <2>3
<1> QED BY <1>2, <1>3

-----------------------------------------------------------------------------
(* What an access does to the drive. *)

\* From drive d to drive e no motion starts, and one under way goes on as it was.
StartsNothing(d, e) ==
  /\ e.homed = d.homed /\ e.goal = d.goal /\ e.pos = d.pos
  /\ (e.motion = d.motion /\ e.reached = d.reached) \/ e.motion = "none"

\* A controlword without the start bit.
LEMMA WrittenEffect ==
  ASSUME NEW d \in DriveRecord, NEW cw, "new" \notin cw
  PROVE  LET e == Written(d, cw)
         IN  /\ e \in DriveRecord /\ ~e.ack /\ ~e.bit4
             /\ e.mode = d.mode /\ e.target = d.target /\ e.emergency = d.emergency
             /\ "reset" \notin cw => (e.fault <=> d.fault)
             /\ StartsNothing(d, e)
<1> DEFINE a == Apply(d, cw)
<1>1. a \in DriveRecord
  BY ApplyType
<1>2. /\ a.mode = d.mode /\ a.target = d.target /\ a.pos = d.pos /\ a.emergency = d.emergency
      /\ ~a.bit4 /\ ("reset" \notin cw => (a.fault <=> d.fault))
      /\ StartsNothing(d, a)
  BY ApplyEffect, PlainEffect DEF StartsNothing
<1>3. Written(d, cw) = [a EXCEPT !.ack = FALSE]
  BY DEF Written
<1> HIDE DEF a
<1> QED BY <1>1, <1>2, <1>3 DEF DriveRecord, StartsNothing

\* The start bit.
LEMMA SetEffect ==
  ASSUME NEW d \in DriveRecord, ~d.emergency
  PROVE  LET e == Written(d, EnableWord \cup {"new"})
         IN  /\ e \in DriveRecord /\ ~e.ack
             /\ e.mode = d.mode /\ e.target = d.target /\ ~e.emergency
             /\ e.fault <=> d.fault
             /\ ~d.bit4 /\ ~d.fault /\ d.mode = 1
                  => e.motion = "pp" /\ ~e.reached /\ e.goal = Clamp(d.target)
             /\ ~d.bit4 /\ ~d.fault /\ d.mode = 6
                  => e.motion = "homing" /\ ~e.reached /\ ~e.homed
<1> DEFINE cw == EnableWord \cup {"new"}
           a == Apply(d, cw)
<1>1. "reset" \notin cw
  BY DEF EnableWord, SwitchOnWord
<1>2. a \in DriveRecord
  BY ApplyType
<1>3. /\ a.mode = d.mode /\ a.target = d.target /\ a.emergency = d.emergency
      /\ (a.fault <=> d.fault)
  BY <1>1, ApplyEffect
<1>4. /\ ~d.bit4 /\ ~d.fault /\ d.mode = 1
           => a.motion = "pp" /\ ~a.reached /\ a.goal = Clamp(d.target)
      /\ ~d.bit4 /\ ~d.fault /\ d.mode = 6
           => a.motion = "homing" /\ ~a.reached /\ ~a.homed
  BY StartsMoving
<1>5. Written(d, cw) = [a EXCEPT !.ack = FALSE]
  BY DEF Written
<1> HIDE DEF a
<1> QED BY <1>2, <1>3, <1>4, <1>5 DEF DriveRecord

\* run_to_operation_enabled() starts nothing, and leaves mode and target alone.
LEMMA ClimbedEffect ==
  ASSUME NEW d \in DriveRecord
  PROVE  LET e == Climbed(d)
         IN  /\ e \in DriveRecord /\ ~e.ack /\ ~e.bit4
             /\ e.mode = d.mode /\ e.target = d.target /\ e.emergency = d.emergency
             /\ StartsNothing(d, e)
<1> DEFINE r == IF d.fault THEN Written(d, ResetWord) ELSE d
           Kept(x) == /\ x \in DriveRecord
                      /\ x.mode = d.mode /\ x.target = d.target /\ x.emergency = d.emergency
                      /\ StartsNothing(d, x)
           Plain(cw) == "new" \notin cw
<1>1. ASSUME NEW x, NEW cw, Kept(x), Plain(cw)
      PROVE  Kept(Written(x, cw)) /\ ~Written(x, cw).bit4 /\ ~Written(x, cw).ack
  <2> DEFINE w == Written(x, cw)
  <2>1. /\ w \in DriveRecord /\ ~w.ack /\ ~w.bit4
        /\ w.mode = x.mode /\ w.target = x.target /\ w.emergency = x.emergency
        /\ StartsNothing(x, w)
    BY <1>1, WrittenEffect
  <2> HIDE DEF w
  <2>2. Kept(w) /\ ~w.bit4 /\ ~w.ack
    BY <1>1, <2>1 DEF StartsNothing
  <2> QED BY <2>2 DEF w
<1>2. Plain(ResetWord) /\ Plain(EnableWord) /\ Plain(SwitchOnWord) /\ Plain(ShutdownWord)
  BY DEF ResetWord, EnableWord, SwitchOnWord, ShutdownWord
<1>3. Kept(d)
  BY DEF StartsNothing
<1> HIDE DEF Kept, Plain
<1>4. Kept(r)
  BY <1>1, <1>2, <1>3
<1>5. Kept(Written(r, ShutdownWord))
  BY <1>1, <1>2, <1>4
<1>6. Kept(Written(Written(r, ShutdownWord), SwitchOnWord))
  BY <1>1, <1>2, <1>5
<1>7. Kept(Climbed(d)) /\ ~Climbed(d).bit4 /\ ~Climbed(d).ack
  BY <1>1, <1>2, <1>4, <1>6 DEF Climbed
<1> QED BY <1>7 DEF Kept

\* What each access does to the drive: only the start bit starts a motion, only the
\* mode accesses change the mode, only the climb and the reset end a fault.
LEMMA AfterEffect ==
  ASSUME DriveType, CallerType, NEW t \in Callers, NEW a,
         a = "target" => WithinLimits(goal[t])
  PROVE  LET d == After(t, a)
         IN  /\ d \in DriveRecord /\ d.target \in 0..MaxPos /\ ~d.ack /\ ~d.emergency
             /\ d.bit4 => a = "set" \/ drive.bit4
             /\ a = "unhalt" => ~d.bit4
             /\ a \notin {"climb", "reset"} => (d.fault <=> drive.fault)
             /\ a \notin {"modePP", "modeHM"} => d.mode = drive.mode
             /\ (a = "modePP" => d.mode = 1) /\ (a = "modeHM" => d.mode = 6)
             /\ IF a = "target" THEN d.target = goal[t] ELSE d.target = drive.target
             /\ a # "set" => StartsNothing(drive, d)
             /\ Starts(a) /\ drive.mode = 1
                  => d.motion = "pp" /\ ~d.reached /\ d.goal = Clamp(drive.target)
             /\ Starts(a) /\ drive.mode = 6
                  => d.motion = "homing" /\ ~d.reached /\ ~d.homed
<1> DEFINE d == After(t, a)
<1>1. drive \in DriveRecord /\ drive.target \in 0..MaxPos /\ ~drive.ack /\ ~drive.emergency
  BY DEF DriveType
<1>2. CASE a = "climb"
  <2>1. d = Climbed(drive)
    BY <1>2 DEF After
  <2> QED BY <1>1, <1>2, <2>1, ClimbedEffect DEF Starts
<1>3. CASE a \in {"modePP", "modeHM"}
  <2>1. PICK m \in Modes : /\ d = [drive EXCEPT !.mode = m]
                           /\ (a = "modeHM" => m = 6) /\ (a = "modePP" => m = 1)
    BY <1>3 DEF After, Modes
  <2> QED BY <1>1, <1>3, <2>1 DEF DriveRecord, Starts, StartsNothing
<1>4. CASE a = "target"
  <2>1. d = [drive EXCEPT !.target = goal[t]] /\ goal[t] \in 0..MaxPos
    BY <1>4 DEF After, WithinLimits
  <2> QED BY <1>1, <1>4, <2>1 DEF DriveRecord, Starts, StartsNothing
<1>5. CASE a \in {"shutdown", "unhalt", "clear", "halt", "slowHalt", "slowQuick", "reset", "haltReady"}
  <2>1. PICK cw : d = Written(drive, cw) /\ "new" \notin cw /\ (a # "reset" => "reset" \notin cw)
    <3>1. CASE a = "shutdown"
      BY <3>1 DEF After, ShutdownWord
    <3>2. CASE a \in {"unhalt", "clear"}
      BY <3>2 DEF After, EnableWord, SwitchOnWord
    <3>3. CASE a \in {"halt", "slowHalt"}
      BY <3>3 DEF After, EnableWord, SwitchOnWord, Halted
    <3>4. CASE a = "slowQuick"
      BY <3>4 DEF After, EnableWord, SwitchOnWord, QuickStopWord
    <3>5. CASE a = "reset"
      BY <3>5 DEF After, ResetWord
    <3>6. CASE a = "haltReady"
      BY <3>6 DEF After, ShutdownWord, Halted
    <3> QED BY <1>5, <3>1, <3>2, <3>3, <3>4, <3>5, <3>6
  <2>2. /\ d \in DriveRecord /\ ~d.ack /\ ~d.bit4
        /\ d.mode = drive.mode /\ d.target = drive.target /\ d.emergency = drive.emergency
        /\ a # "reset" => (d.fault <=> drive.fault)
        /\ StartsNothing(drive, d)
    BY <1>1, <2>1, WrittenEffect
  <2> QED BY <1>1, <1>5, <2>2 DEF Starts
<1>6. CASE a = "set"
  <2> DEFINE w == Written(drive, EnableWord \cup {"new"})
  <2>1. /\ w \in DriveRecord /\ ~w.ack
        /\ w.mode = drive.mode /\ w.target = drive.target /\ ~w.emergency
        /\ w.fault <=> drive.fault
        /\ ~drive.bit4 /\ ~drive.fault /\ drive.mode = 1
             => w.motion = "pp" /\ ~w.reached /\ w.goal = Clamp(drive.target)
        /\ ~drive.bit4 /\ ~drive.fault /\ drive.mode = 6
             => w.motion = "homing" /\ ~w.reached /\ ~w.homed
    BY <1>1, SetEffect
  <2>2. d = w
    BY <1>6 DEF After
  <2>3. Starts(a) => ~drive.bit4 /\ ~drive.fault
    BY DEF Starts
  <2> HIDE DEF w
  <2> QED BY <1>1, <1>6, <2>1, <2>2, <2>3
<1>7. CASE a \notin {"climb", "modePP", "modeHM", "target", "shutdown", "unhalt", "clear", "halt",
                     "slowHalt", "slowQuick", "reset", "haltReady", "set"}
  <2>1. d = drive
    BY <1>7 DEF After
  <2> QED BY <1>1, <1>7, <2>1 DEF Starts, StartsNothing
<1> QED BY <1>2, <1>3, <1>4, <1>5, <1>6, <1>7

-----------------------------------------------------------------------------
(* What a step of a caller does to its operation. *)

\* After access a of operation o comes access b: the next of its script, or the
\* first of the script the answer to a chooses.
Onward(o, a, b) ==
  \/ Follows(o, a, b)
  \/ /\ o = "move"
     /\ \/ a = "prepare" /\ b \in {"mode", "modePP"}
        \/ a = "mode" /\ b \in {"unhalt", "shutdown"}
  \/ /\ o = "pp"
     /\ \/ a = "ack" /\ b \in {"wait", "delta"}
        \/ a = "delta" /\ b \in {"wait", "clears"}
        \/ a = "clears" /\ b = "wait"
  \/ /\ o = "home"
     /\ \/ a = "ready" /\ b \in {"modeHM", "climb"}
        \/ a = "readyNow" /\ b = "modeHM"
  \/ o = "stop" /\ a = "slow" /\ b \in {"slowHalt", "slowQuick"}
  \/ o = "reset" /\ a = "fault" /\ b = "reset"

\* Accesses no operation goes on after unless the drive has answered them.
Needed == {"unhalt", "modePP", "target", "set", "modeHM"}

\* The access is executed or not, and what it leaves to others alone.
Touches(t) ==
  /\ Executes(t, Head(todo[t])) \/ NotExecuted
  /\ Notes
  /\ abort' \in BOOLEAN /\ faults' \in 0..MaxFaults
  /\ UNCHANGED <<calls, upsets, overlapped>>

\* What ends the waits for the start: an acknowledge, bit 10 down, or a position
\* near the target.
StartSeen == Bit12 \/ ~Bit10 \/ drive.pos - drive.target \in -Window..Window

Continues(t) ==
  /\ \E s, b : /\ IsScript(op[t], s, b) /\ Onward(op[t], Head(todo[t]), b)
               /\ todo' = [todo EXCEPT ![t] = s]
               /\ b = "wait" => NotExecuted /\ StartSeen
  /\ op' = op
  /\ UNCHANGED <<goal, result, idleVars>>
  /\ Head(todo[t]) \in Needed => Executes(t, Head(todo[t]))
  /\ op[t] = "move" /\ Head(todo[t]) = "unhalt" => WithinLimits(goal[t])

Enters(t) == op[t] = "move" /\ EntersPp(t)

Finishes(t) ==
  /\ op' = [op EXCEPT ![t] = "idle"]
  /\ todo' = [todo EXCEPT ![t] = <<>>]
  /\ \E how \in Results : result' = [result EXCEPT ![t] = how]
  /\ ScheduleIdle \/ UNCHANGED idleVars
  /\ goal' = goal

\* The first access left is one of the operation, and its successor comes next.
LEMMA FirstAccess ==
  ASSUME CallerType, ScriptInv, NEW t \in Callers, todo[t] # <<>>
  PROVE  LET a == Head(todo[t])
         IN  /\ op[t] # "idle" /\ todo[t] \in Seq(Accesses) /\ ScriptOf(op[t], todo[t])
             /\ MayBeLast(op[t], a) \/ \E b : Follows(op[t], a, b)
             /\ Len(todo[t]) > 1 =>
                  /\ IsScript(op[t], Tail(todo[t]), Head(Tail(todo[t])))
                  /\ Follows(op[t], a, Head(Tail(todo[t])))
<1>1. todo[t] \in Seq(Accesses) /\ op[t] # "idle" /\ ScriptOf(op[t], todo[t])
  BY DEF CallerType, ScriptInv
<1> QED BY <1>1, ScriptTail

\* Which operations an access belongs to.
LEMMA Belongs ==
  ASSUME NEW o, NEW a, MayBeLast(o, a) \/ \E b : Follows(o, a, b)
  PROVE  /\ a \in {"verify", "target", "ack", "delta", "clears", "wait"} => o = "pp"
         /\ a \in {"ready", "readyNow", "modeHM", "done"} => o = "home"
         /\ a \in {"slow", "slowHalt", "slowQuick"} => o = "stop"
         /\ a \in {"prepare", "mode", "status", "unhalt", "look"} => o = "move"
         /\ a \in {"fault", "reset", "haltReady"} => o = "reset"
         /\ a \in {"set", "clear"} => o \in {"pp", "home"}
         /\ a = "modePP" => o \in {"move", "pp"}
         /\ a = "climb" => o \in {"move", "home", "reset"}
         /\ a \in {"shutdown", "settled"} => o \in {"move", "reset"}
         /\ o # "stop" => o \in Moving
BY DEF MayBeLast, Follows, Moving

\* Going on with a given script whose first access follows from what is done.
LEMMA Continuing ==
  ASSUME TypeInv, NEW t \in Callers, NEW s, NEW b, IsScript(op[t], s, b),
         Onward(op[t], Head(todo[t]), b), GoOn(t, s),
         b = "wait" => NotExecuted /\ StartSeen,
         Head(todo[t]) \in Needed => Executes(t, Head(todo[t])),
         op[t] = "move" /\ Head(todo[t]) = "unhalt" => WithinLimits(goal[t])
  PROVE  Continues(t)
BY DEF Continues, GoOn

\* Nothing in a script but the handshake's answers leads to the last wait.
LEMMA WaitComesLast ==
  ASSUME NEW o, NEW a, NEW b, Follows(o, a, b)
  PROVE  b # "wait"
BY DEF Follows

\* A call that ends.
LEMMA Ending ==
  ASSUME TypeInv, NEW t \in Callers, NEW how \in Results, Ends(t, how)
  PROVE  Finishes(t)
BY DEF Finishes, Ends

\* An access that is answered.
LEMMA Answering ==
  ASSUME TypeInv, NEW t \in Callers, Answered(t, Head(todo[t])), SameFacade
  PROVE  Touches(t)
BY DEF Touches, Answered, SameFacade, boundVars, TypeInv, OtherType

\* Nothing but the caller's own script moves, and perhaps the abort event.
LEMMA Looking ==
  ASSUME TypeInv, NEW t \in Callers, UNCHANGED <<drive, startVars, cut, boundVars, overlapped>>,
         abort' \in BOOLEAN
  PROVE  Touches(t) /\ NotExecuted
<1>1. NotExecuted /\ ~EndsEarly
  BY DEF NotExecuted, EndsEarly
<1> QED BY <1>1 DEF Touches, Notes, boundVars, TypeInv, OtherType

Shape(t) == todo[t] # <<>> /\ Touches(t) /\ (Continues(t) \/ Enters(t) \/ Finishes(t))

\* A step that changes nothing but its caller's script.
LEMMA LookShape ==
  ASSUME TypeInv, NEW t \in Callers, todo[t] # <<>>, Head(todo[t]) \notin Needed,
         UNCHANGED <<drive, startVars, cut, boundVars, overlapped>>, abort' \in BOOLEAN,
         \/ \E how \in Results : Ends(t, how)
         \/ \E s, b : /\ GoOn(t, s) /\ IsScript(op[t], s, b) /\ Onward(op[t], Head(todo[t]), b)
                      /\ b = "wait" => StartSeen
         \/ Len(todo[t]) > 1 /\ GoOn(t, Tail(todo[t]))
  PROVE  Shape(t)
<1>1. Touches(t) /\ NotExecuted
  BY Looking
<1>2. CASE \E how \in Results : Ends(t, how)
  BY <1>1, <1>2, Ending DEF Shape
<1>3. Head(todo[t]) # "unhalt"
  BY DEF Needed
<1>4. CASE \E s, b : /\ GoOn(t, s) /\ IsScript(op[t], s, b) /\ Onward(op[t], Head(todo[t]), b)
                     /\ b = "wait" => StartSeen
  <2>1. Continues(t)
    BY <1>1, <1>3, <1>4, Continuing
  <2> QED BY <1>1, <2>1 DEF Shape
<1>5. CASE Len(todo[t]) > 1 /\ GoOn(t, Tail(todo[t]))
  <2> DEFINE b == Head(Tail(todo[t]))
  <2>1. IsScript(op[t], Tail(todo[t]), b) /\ Follows(op[t], Head(todo[t]), b)
    BY <1>5, FirstAccess DEF TypeInv
  <2>2. b # "wait"
    BY <2>1, WaitComesLast
  <2>3. Continues(t)
    BY <1>1, <1>3, <1>5, <2>1, <2>2, Continuing DEF Onward
  <2> QED BY <1>1, <2>3 DEF Shape
<1> QED BY <1>2, <1>4, <1>5

\* A step whose access is answered.
LEMMA AnswerShape ==
  ASSUME TypeInv, NEW t \in Callers, todo[t] # <<>>, Answered(t, Head(todo[t])), SameFacade,
         op[t] = "move" /\ Head(todo[t]) = "unhalt" => WithinLimits(goal[t]),
         \/ \E how \in Results : Ends(t, how)
         \/ \E s, b : /\ GoOn(t, s) /\ IsScript(op[t], s, b) /\ Onward(op[t], Head(todo[t]), b)
                      /\ b # "wait"
         \/ Len(todo[t]) > 1 /\ GoOn(t, Tail(todo[t]))
  PROVE  Shape(t)
<1>1. Touches(t) /\ Executes(t, Head(todo[t]))
  BY Answering DEF Answered
<1>2. CASE \E how \in Results : Ends(t, how)
  BY <1>1, <1>2, Ending DEF Shape
<1>3. CASE \E s, b : /\ GoOn(t, s) /\ IsScript(op[t], s, b) /\ Onward(op[t], Head(todo[t]), b)
                     /\ b # "wait"
  <2>1. Continues(t)
    BY <1>1, <1>3, Continuing
  <2> QED BY <1>1, <2>1 DEF Shape
<1>4. CASE Len(todo[t]) > 1 /\ GoOn(t, Tail(todo[t]))
  <2> DEFINE b == Head(Tail(todo[t]))
  <2>1. IsScript(op[t], Tail(todo[t]), b) /\ Follows(op[t], Head(todo[t]), b)
    BY <1>4, FirstAccess DEF TypeInv
  <2>2. b # "wait"
    BY <2>1, WaitComesLast
  <2>3. Continues(t)
    BY <1>1, <1>4, <2>1, <2>2, Continuing DEF Onward
  <2> QED BY <1>1, <2>3 DEF Shape
<1> QED BY <1>2, <1>3, <1>4

\* move_to_position() up to its handshake, and the accesses that decide nothing.
LEMMA MoveShape ==
  ASSUME TypeInv, NEW t \in Callers,
         \/ Access(t) \/ Prepare(t) \/ ModeRead(t) \/ Settles(t) \/ SettlesNever(t)
         \/ TargetRefused(t) \/ EntersPp(t)
  PROVE  Shape(t)
<1> DEFINE a == Head(todo[t])
<1> USE DEF TypeInv
<1>1. todo[t] # <<>> => /\ MayBeLast(op[t], a) \/ \E b : Follows(op[t], a, b)
                        /\ a \in {"prepare", "mode", "look"} => op[t] = "move"
  BY FirstAccess, Belongs
<1>2. abort \in BOOLEAN
  BY DEF OtherType
<1>3. CASE Access(t)
  <2>1. todo[t] # <<>> /\ Len(todo[t]) > 1
    BY <1>3 DEF Access
  <2>2. Answered(t, a) /\ GoOn(t, Tail(todo[t])) /\ SameFacade
    BY <1>3 DEF Access
  <2>3. op[t] = "move" /\ a = "unhalt" => WithinLimits(goal[t])
    BY <1>3 DEF Access, At
  <2> QED BY <2>1, <2>2, <2>3, AnswerShape
<1>4. CASE Prepare(t)
  <2>1. todo[t] # <<>> /\ a = "prepare" /\ op[t] = "move" /\ Same
    BY <1>1, <1>4 DEF Prepare, At
  <2>2. \E s, b : /\ GoOn(t, s) /\ IsScript("move", s, b) /\ Onward("move", "prepare", b)
                  /\ b # "wait"
    <3>1. Onward("move", "prepare", "mode") /\ Onward("move", "prepare", "modePP")
      BY DEF Onward
    <3>2. \/ GoOn(t, <<"mode">>)
          \/ GoOn(t, <<"modePP", "climb", "status">> \o BeforeHandshake)
      BY <1>4 DEF Prepare
    <3>3. "mode" # "wait" /\ "modePP" # "wait"
      OBVIOUS
    <3>4. CASE GoOn(t, <<"mode">>)
      BY <3>1, <3>3, <3>4, Scripts, Zenon
    <3>5. CASE GoOn(t, <<"modePP", "climb", "status">> \o BeforeHandshake)
      BY <3>1, <3>3, <3>5, Scripts, Zenon
    <3> QED BY <3>2, <3>4, <3>5
  <2> QED BY <1>2, <2>1, <2>2, LookShape DEF Same, Needed
<1>5. CASE ModeRead(t)
  <2>1. todo[t] # <<>> /\ a = "mode" /\ op[t] = "move" /\ Same
    BY <1>1, <1>5 DEF ModeRead, At
  <2>2. \E s, b : /\ GoOn(t, s) /\ IsScript("move", s, b) /\ Onward("move", "mode", b)
                  /\ b # "wait"
    <3>1. Onward("move", "mode", "unhalt") /\ Onward("move", "mode", "shutdown")
      BY DEF Onward
    <3>2. GoOn(t, <<>> \o BeforeHandshake) \/ GoOn(t, CycleToPp \o BeforeHandshake)
      BY <1>5 DEF ModeRead
    <3>3. "unhalt" # "wait" /\ "shutdown" # "wait"
      OBVIOUS
    <3>4. CASE GoOn(t, <<>> \o BeforeHandshake)
      BY <3>1, <3>3, <3>4, Scripts, Zenon
    <3>5. CASE GoOn(t, CycleToPp \o BeforeHandshake)
      BY <3>1, <3>3, <3>5, Scripts, Zenon
    <3> QED BY <3>2, <3>4, <3>5
  <2> QED BY <1>2, <2>1, <2>2, LookShape DEF Same, Needed
<1>6. CASE Settles(t) \/ SettlesNever(t)
  <2>1. todo[t] # <<>> /\ a = "settled" /\ Same
    BY <1>6 DEF Settles, SettlesNever, At
  <2>2. \/ Len(todo[t]) > 1 /\ GoOn(t, Tail(todo[t]))
        \/ \E how \in Results : Ends(t, how)
    BY <1>6 DEF Settles, SettlesNever, Results
  <2> QED BY <1>2, <2>1, <2>2, LookShape DEF Same, Needed
<1>7. CASE TargetRefused(t)
  <2>1. todo[t] # <<>> /\ Same /\ Ends(t, "failed")
    BY <1>7 DEF TargetRefused, At
  <2>2. Touches(t) /\ Finishes(t)
    BY <1>2, <2>1, Looking, Ending DEF Same, Results
  <2> QED BY <2>1, <2>2 DEF Shape
<1>8. CASE EntersPp(t)
  <2>1. todo[t] # <<>> /\ a = "look" /\ op[t] = "move"
    BY <1>1, <1>8 DEF EntersPp, At
  <2>2. Touches(t)
    BY <1>8, Looking DEF EntersPp
  <2> QED BY <1>8, <2>1, <2>2 DEF Enters, Shape
<1> QED BY <1>3, <1>4, <1>5, <1>6, <1>7, <1>8

\* The set-point handshake and the waits that follow.
LEMMA HandshakeShape ==
  ASSUME TypeInv, NEW t \in Callers,
         \/ ModeVerified(t) \/ Acknowledged(t) \/ NotAcknowledged(t) \/ DeltaRead(t)
         \/ ClearSeen(t) \/ ReachedSeen(t) \/ AbortSeen(t) \/ WaitFails(t)
  PROVE  Shape(t)
<1> DEFINE a == Head(todo[t])
<1> USE DEF TypeInv
<1>1. /\ todo[t] # <<>> /\ Same /\ abort' \in BOOLEAN
      /\ a \in {"verify", "ack", "delta", "clears", "wait", "done"}
  BY DEF ModeVerified, Acknowledged, NotAcknowledged, DeltaRead, ClearSeen, ReachedSeen, AbortSeen,
         WaitFails, At, Same, OtherType
<1>2. /\ MayBeLast(op[t], a) \/ \E b : Follows(op[t], a, b)
      /\ a # "done" => op[t] = "pp"
  BY <1>1, FirstAccess, Belongs
<1>3. ASSUME NEW how \in Results, Ends(t, how) PROVE Shape(t)
  BY <1>1, <1>3, LookShape DEF Same, Needed
<1>4. ASSUME NEW b \in {"delta", "clears", "wait"}, GoOn(t, <<b>>), Onward("pp", a, b),
             b = "wait" => StartSeen
      PROVE  Shape(t)
  <2>1. a # "done"
    BY <1>4 DEF Onward, Follows
  <2>2. IsScript(op[t], <<b>>, b) /\ Onward(op[t], a, b)
    BY <1>2, <1>4, <2>1, Scripts
  <2>3. \E s, c : GoOn(t, s) /\ IsScript(op[t], s, c) /\ Onward(op[t], a, c) /\ (c = "wait" => StartSeen)
    BY <1>4, <2>2
  <2> QED BY <1>1, <2>3, LookShape DEF Same, Needed
<1>5. CASE ModeVerified(t)
  <2>1. a = "verify" /\ op[t] = "pp"
    BY <1>2, <1>5 DEF ModeVerified, At
  <2>2. CASE Ends(t, "failed")
    BY <1>3, <2>2 DEF Results
  <2>3. CASE GoOn(t, Tail(todo[t]))
    <3>1. Len(todo[t]) > 1
      <4>1. ~(Len(todo[t]) > 1) => MayBeLast("pp", "verify")
        BY <1>1, <2>1, FirstAccess, ScriptTail
      <4> QED BY <4>1 DEF MayBeLast
    <3> QED BY <1>1, <2>1, <2>3, <3>1, LookShape DEF Same, Needed
  <2> QED BY <1>5, <2>2, <2>3 DEF ModeVerified
<1>6. CASE Acknowledged(t)
  <2>1. a = "ack" /\ StartSeen /\ Onward("pp", "ack", "wait")
    BY <1>6 DEF Acknowledged, At, StartSeen, Onward
  <2> QED BY <1>3, <1>4, <1>6, <2>1 DEF Acknowledged, Waits, Results
<1>7. CASE NotAcknowledged(t)
  <2>1. a = "ack" /\ Onward("pp", "ack", "delta")
    BY <1>7 DEF NotAcknowledged, At, Onward
  <2> QED BY <1>4, <1>7, <2>1 DEF NotAcknowledged
<1>8. CASE DeltaRead(t)
  <2>1. a = "delta" /\ Onward("pp", "delta", "wait") /\ Onward("pp", "delta", "clears")
    BY <1>8 DEF DeltaRead, At, Onward
  <2>2. CASE Ends(t, "aborted")
    BY <1>3, <2>2 DEF Results
  <2>3. CASE GoOn(t, <<"wait">>) /\ drive.pos - drive.target \in -Window..Window
    BY <1>4, <2>1, <2>3 DEF StartSeen
  <2>4. CASE GoOn(t, <<"clears">>)
    BY <1>4, <2>1, <2>4
  <2> QED BY <1>8, <2>2, <2>3, <2>4 DEF DeltaRead, Waits
<1>9. CASE ClearSeen(t)
  <2>1. a = "clears" /\ StartSeen /\ Onward("pp", "clears", "wait")
    BY <1>9 DEF ClearSeen, At, StartSeen, Onward
  <2> QED BY <1>3, <1>4, <1>9, <2>1 DEF ClearSeen, Waits, Results
<1>10. CASE ReachedSeen(t) \/ AbortSeen(t) \/ WaitFails(t)
  BY <1>3, <1>10 DEF ReachedSeen, AbortSeen, WaitFails, Results
<1> QED BY <1>5, <1>6, <1>7, <1>8, <1>9, <1>10

\* home().
LEMMA HomeShape ==
  ASSUME TypeInv, NEW t \in Callers,
         HomeReady(t) \/ HomeReadyNow(t) \/ HomingStarted(t) \/ HomingDone(t)
  PROVE  Shape(t)
<1> DEFINE a == Head(todo[t])
<1> USE DEF TypeInv
<1>1. todo[t] # <<>> => /\ MayBeLast(op[t], a) \/ \E b : Follows(op[t], a, b)
                        /\ a \in {"ready", "readyNow", "done"} => op[t] = "home"
  BY FirstAccess, Belongs
<1>2. CASE HomeReady(t) \/ HomeReadyNow(t)
  <2>1. /\ todo[t] # <<>> /\ a \in {"ready", "readyNow"} /\ op[t] = "home"
        /\ UNCHANGED <<drive, startVars, cut, boundVars, overlapped>> /\ abort' \in BOOLEAN
    BY <1>1, <1>2 DEF HomeReady, HomeReadyNow, At, OtherType
  <2>2. /\ Onward("home", a, "modeHM")
        /\ a = "ready" => Onward("home", a, "climb")
    BY <2>1 DEF Onward
  <2>3. CASE Ends(t, "failed")
    BY <2>1, <2>3, LookShape DEF Results, Needed
  <2>4. CASE GoOn(t, HomingScript)
    <3>1. \E s, b : /\ GoOn(t, s) /\ IsScript("home", s, b) /\ Onward("home", a, b)
                    /\ b = "wait" => StartSeen
      <4>1. "modeHM" # "wait"
        OBVIOUS
      <4> QED BY <2>2, <2>4, <4>1, Scripts, Zenon
    <3> QED BY <2>1, <3>1, LookShape DEF Needed
  <2>5. CASE GoOn(t, <<"climb", "readyNow">>) /\ a = "ready"
    <3>1. \E s, b : /\ GoOn(t, s) /\ IsScript("home", s, b) /\ Onward("home", a, b)
                    /\ b = "wait" => StartSeen
      <4>1. "climb" # "wait"
        OBVIOUS
      <4> QED BY <2>2, <2>5, <4>1, Scripts, Zenon
    <3> QED BY <2>1, <3>1, LookShape DEF Needed
  <2> QED BY <1>2, <2>3, <2>4, <2>5 DEF HomeReady, HomeReadyNow, At
<1>3. CASE HomingStarted(t)
  <2>1. todo[t] # <<>> /\ a = "clear" /\ op[t] = "home" /\ Answered(t, a) /\ SameFacade
    BY <1>3 DEF HomingStarted, At
  <2>2. CASE Ends(t, "aborted")
    BY <2>1, <2>2, AnswerShape DEF Results
  <2>3. CASE GoOn(t, <<"done">>)
    <3>1. Onward("home", "clear", "done") /\ "done" # "wait"
      BY DEF Onward, Follows
    <3>2. \E s, b : /\ GoOn(t, s) /\ IsScript("home", s, b) /\ Onward("home", "clear", b)
                    /\ b # "wait"
      BY <2>3, <3>1, Scripts, Zenon
    <3> QED BY <2>1, <3>2, AnswerShape
  <2> QED BY <1>3, <2>2, <2>3 DEF HomingStarted, Waits
<1>4. CASE HomingDone(t)
  <2>1. todo[t] # <<>> /\ a = "done" /\ Same /\ Ends(t, "attained") /\ abort' \in BOOLEAN
    BY <1>4 DEF HomingDone, At, Same, OtherType
  <2> QED BY <2>1, LookShape DEF Same, Results, Needed
<1> QED BY <1>2, <1>3, <1>4

\* stop() and fault_reset().
LEMMA StopResetShape ==
  ASSUME TypeInv, NEW t \in Callers,
         HaltDone(t) \/ StopLooks(t) \/ LastWrite(t) \/ FaultRead(t)
  PROVE  Shape(t)
<1> DEFINE a == Head(todo[t])
<1> USE DEF TypeInv
<1>1. todo[t] # <<>> =>
        /\ MayBeLast(op[t], a) \/ \E b : Follows(op[t], a, b)
        /\ todo[t] \in Seq(Accesses) /\ ScriptOf(op[t], todo[t])
        /\ a = "slow" => op[t] = "stop"
        /\ a = "fault" => op[t] = "reset"
  BY FirstAccess, Belongs
<1>2. CASE HaltDone(t)
  <2>1. /\ todo[t] # <<>> /\ a = "halt" /\ op[t] = "stop" /\ Answered(t, a) /\ SameFacade
        /\ GoOn(t, <<"slow">>)
    BY <1>2 DEF HaltDone, At
  <2>2. Onward("stop", "halt", "slow") /\ "slow" # "wait"
    BY DEF Onward, Follows
  <2>3. \E s, b : GoOn(t, s) /\ IsScript("stop", s, b) /\ Onward("stop", "halt", b) /\ b # "wait"
    BY <2>1, <2>2, Scripts
  <2> QED BY <2>1, <2>3, AnswerShape
<1>3. CASE StopLooks(t)
  <2>1. todo[t] # <<>> /\ a = "slow" /\ op[t] = "stop" /\ Same /\ abort' \in BOOLEAN
    BY <1>1, <1>3 DEF StopLooks, At, Same, OtherType
  <2>2. CASE Ends(t, "done")
    BY <2>1, <2>2, LookShape DEF Same, Results, Needed
  <2>3. ASSUME NEW b \in {"slowHalt", "slowQuick"}, GoOn(t, <<b>>)
        PROVE  Shape(t)
    <3>1. Onward("stop", "slow", b) /\ b # "wait" /\ IsScript("stop", <<b>>, b)
      BY Scripts DEF Onward
    <3>2. \E s, c : /\ GoOn(t, s) /\ IsScript("stop", s, c) /\ Onward("stop", "slow", c)
                    /\ c = "wait" => StartSeen
      BY <2>3, <3>1
    <3> QED BY <2>1, <3>2, LookShape DEF Same, Needed
  <2> QED BY <1>3, <2>2, <2>3 DEF StopLooks
<1>4. CASE LastWrite(t)
  <2>1. /\ todo[t] # <<>> /\ a \in {"slowHalt", "slowQuick", "halt"} /\ Answered(t, a) /\ SameFacade
        /\ Ends(t, "done")
    BY <1>4 DEF LastWrite, At
  <2> QED BY <2>1, AnswerShape DEF Results
<1>5. CASE FaultRead(t)
  <2>1. todo[t] # <<>> /\ a = "fault" /\ op[t] = "reset" /\ Same /\ abort' \in BOOLEAN
    BY <1>1, <1>5 DEF FaultRead, At, Same, OtherType
  <2>2. CASE GoOn(t, <<"reset", "shutdown", "haltReady", "settled">> \o Tail(todo[t]))
    <3> DEFINE r == <<"reset", "shutdown", "haltReady", "settled">> \o Tail(todo[t])
    <3>1. IsScript("reset", r, "reset") /\ Onward("reset", "fault", "reset")
      BY <1>1, <2>1, ResetScript DEF Onward
    <3>2. GoOn(t, r)
      BY <2>2
    <3> HIDE DEF r
    <3>3. \E s, b : /\ GoOn(t, s) /\ IsScript("reset", s, b) /\ Onward("reset", "fault", b)
                    /\ b = "wait" => StartSeen
      <4>1. "reset" # "wait"
        OBVIOUS
      <4> QED BY <3>1, <3>2, <4>1, Zenon
    <3> QED BY <2>1, <3>3, LookShape DEF Same, Needed
  <2>3. CASE Len(todo[t]) > 1 /\ GoOn(t, Tail(todo[t]))
    BY <2>1, <2>3, LookShape DEF Same, Needed
  <2>4. CASE Ends(t, "done")
    BY <2>1, <2>4, LookShape DEF Same, Results, Needed
  <2> QED BY <1>5, <2>2, <2>3, <2>4 DEF FaultRead
<1> QED BY <1>2, <1>3, <1>4, <1>5

\* An access that raises ends the call, or is swallowed and the call goes on.
LEMMA RaiseShape ==
  ASSUME TypeInv, NEW t \in Callers, RaiseEnds(t) \/ RaiseGoesOn(t)
  PROVE  Shape(t)
<1> DEFINE a == Head(todo[t])
<1> USE DEF TypeInv
<1>1. Raises(t) /\ abort' \in BOOLEAN
  BY DEF RaiseEnds, RaiseGoesOn, OtherType
<1>2. todo[t] # <<>> /\ Touches(t)
  <2>1. faults' \in 0..MaxFaults
    <3>1. \A n \in 0..MaxFaults : n < MaxFaults => n + 1 \in 0..MaxFaults
      OBVIOUS
    <3> QED BY <1>1, <3>1 DEF Raises, OtherType
  <2> QED BY <1>1, <2>1 DEF Raises, Touches
<1>3. /\ \A b : At(t, b) <=> a = b
      /\ MayBeLast(op[t], a) \/ \E b : Follows(op[t], a, b)
      /\ a = "mode" => op[t] = "move"
      /\ Len(todo[t]) > 1 => /\ IsScript(op[t], Tail(todo[t]), Head(Tail(todo[t])))
                             /\ Follows(op[t], a, Head(Tail(todo[t])))
  BY <1>2, FirstAccess, Belongs DEF At
<1>4. ASSUME NEW how \in Results, Ends(t, how) PROVE Shape(t)
  BY <1>2, <1>4, Ending DEF Shape
<1>5. CASE RaiseEnds(t)
  BY <1>4, <1>5 DEF RaiseEnds, Results
<1>6. CASE RaiseGoesOn(t) /\ a = "mode"
  <2>1. GoOn(t, CycleToPp \o BeforeHandshake) /\ op[t] = "move"
    BY <1>3, <1>6 DEF RaiseGoesOn
  <2>2. Onward("move", "mode", "shutdown")
    BY DEF Onward
  <2>3. Continues(t)
    BY <1>6, <2>1, <2>2, Scripts, Continuing DEF Needed
  <2> QED BY <1>2, <2>3 DEF Shape
<1>7. CASE RaiseGoesOn(t) /\ a # "mode"
  <2>1. op[t] = "stop"
    BY <1>3, <1>7 DEF RaiseGoesOn
  <2>2. CASE Len(todo[t]) > 1 /\ GoOn(t, Tail(todo[t]))
    <3> DEFINE b == Head(Tail(todo[t]))
    <3>1. IsScript("stop", Tail(todo[t]), b) /\ Follows("stop", a, b)
      BY <1>3, <2>1, <2>2
    <3>2. Onward("stop", a, b) /\ a \notin Needed
      BY <3>1 DEF Onward, Follows, Needed
    <3>3. b # "wait"
      BY <3>1, WaitComesLast
    <3>4. Continues(t)
      BY <2>1, <2>2, <3>1, <3>2, <3>3, Continuing
    <3> QED BY <1>2, <3>4 DEF Shape
  <2>3. CASE Ends(t, "done")
    BY <1>4, <2>3 DEF Results
  <2> QED BY <1>3, <1>7, <2>2, <2>3 DEF RaiseGoesOn
<1> QED BY <1>5, <1>6, <1>7

\* Every step of a caller goes on in its script, enters the handshake or ends.
LEMMA StepShape ==
  ASSUME TypeInv, NEW t \in Callers, Step(t)
  PROVE  Shape(t)
BY MoveShape, HandshakeShape, HomeShape, StopResetShape, RaiseShape DEF Step

-----------------------------------------------------------------------------
(* The kinds of steps, by what they do to the places callers are at. *)

\* Every other caller stays where it is.
OthersStay(t) == \A u \in Callers : u # t => op'[u] = op[u] /\ \A x : At(u, x)' <=> At(u, x)

\* Caller t is at access b of operation o.
Arrives(t, o, b) == op'[t] = o /\ \A x : At(t, x)' <=> x = b

Leaves(t) == op'[t] = "idle" /\ \A x : ~At(t, x)'

\* Caller t moves on to access b.
Advances(t, b) ==
  /\ Continues(t) /\ Arrives(t, op[t], b) /\ Onward(op[t], Head(todo[t]), b)
  /\ b = "wait" => NotExecuted /\ StartSeen

\* A caller that moves on arrives at the next access or leaves.
LEMMA StepPlaces ==
  ASSUME TypeInv, NEW t \in Callers, Step(t)
  PROVE  LET a == Head(todo[t])
         IN  /\ OthersStay(t) /\ (\A x : At(t, x) <=> x = a) /\ op[t] # "idle" /\ goal' = goal
             /\ MayBeLast(op[t], a) \/ \E b : Follows(op[t], a, b)
             /\ \/ \E b : Advances(t, b)
                \/ Enters(t) /\ Arrives(t, "pp", "modePP") /\ a = "look"
                \/ Finishes(t) /\ Leaves(t)
<1> DEFINE a == Head(todo[t])
<1>1. Shape(t)
  BY StepShape
<1>2. /\ \A x : At(t, x) <=> x = a
      /\ op[t] # "idle" /\ (MayBeLast(op[t], a) \/ \E b : Follows(op[t], a, b))
  BY <1>1, FirstAccess DEF Shape, At, TypeInv
<1>3. CASE Continues(t)
  <2>1. PICK s, b : /\ IsScript(op[t], s, b) /\ Onward(op[t], a, b)
                    /\ todo' = [todo EXCEPT ![t] = s]
                    /\ b = "wait" => NotExecuted /\ StartSeen
    BY <1>3 DEF Continues
  <2>2. op' = op /\ goal' = goal
    BY <1>3 DEF Continues
  <2>3. s # <<>> /\ Head(s) = b
    BY <2>1 DEF IsScript, ScriptOf
  <2>4. OthersStay(t)
    BY <2>1, <2>2 DEF OthersStay, At, TypeInv, CallerType
  <2>5. Arrives(t, op[t], b)
    BY <2>1, <2>2, <2>3 DEF Arrives, At, TypeInv, CallerType
  <2>6. Advances(t, b)
    BY <1>3, <2>1, <2>5 DEF Advances
  <2> QED BY <1>2, <2>2, <2>4, <2>6
<1>4. CASE Enters(t)
  <2>1. /\ todo' = [todo EXCEPT ![t] = Handshake] /\ op' = [op EXCEPT ![t] = "pp"]
        /\ goal' = goal /\ a = "look"
    BY <1>4 DEF Enters, EntersPp, At
  <2>2. Handshake # <<>> /\ Head(Handshake) = "modePP"
    BY DEF Handshake
  <2>3. OthersStay(t)
    BY <2>1 DEF OthersStay, At, TypeInv, CallerType
  <2>4. Arrives(t, "pp", "modePP")
    BY <2>1, <2>2 DEF Arrives, At, TypeInv, CallerType
  <2> QED BY <1>2, <1>4, <2>1, <2>3, <2>4
<1>5. CASE Finishes(t)
  <2>1. /\ todo' = [todo EXCEPT ![t] = <<>>] /\ op' = [op EXCEPT ![t] = "idle"] /\ goal' = goal
    BY <1>5 DEF Finishes
  <2>2. OthersStay(t)
    BY <2>1 DEF OthersStay, At, TypeInv, CallerType
  <2>3. Leaves(t)
    BY <2>1 DEF Leaves, At, TypeInv, CallerType
  <2> QED BY <1>2, <1>5, <2>1, <2>2, <2>3
<1> QED BY <1>1, <1>3, <1>4, <1>5 DEF Shape

-----------------------------------------------------------------------------
(* Steps that leave the motions to themselves. *)

\* No motion starts; one under way goes on, or ends and is accounted for.
Drift ==
  /\ drive'.mode = drive.mode /\ drive'.target = drive.target
  /\ drive.fault => drive'.fault
  /\ drive'.bit4 => drive.bit4
  /\ UNCHANGED <<mover, unpulsed>> /\ (stale' => stale)
  /\ cut \subseteq cut' /\ (EndsEarly => mover \in cut')
  /\ homedIn \subseteq homedIn'
  /\ drive'.homed /\ ~drive.homed => \A u \in Callers : op[u] = "home" => u \in homedIn'
  /\ drive.motion = "none" => drive'.motion = "none" /\ drive'.pos = drive.pos
  /\ drive.motion = "pp" /\ drive.mode = 1 =>
       /\ drive'.goal = drive.goal
       /\ \/ drive'.motion = "none"
          \/ /\ drive'.motion = "pp" /\ (drive'.reached => drive.reached)
             /\ drive'.pos \in Between(drive.pos, drive.goal)
  /\ drive.motion = "homing" /\ drive.mode = 6 =>
       \/ drive'.motion = "none"
       \/ /\ drive'.motion = "homing" /\ (drive'.reached => drive.reached)
          /\ drive'.homed = drive.homed

\* A controlword or an access that starts nothing is such a step.
LEMMA StillDrifts ==
  ASSUME DriveType, drive' \in DriveRecord, StartsNothing(drive, drive'),
         drive'.mode = drive.mode, drive'.target = drive.target, drive.fault => drive'.fault,
         drive'.bit4 => drive.bit4, UNCHANGED <<mover, unpulsed, homedIn>>, stale' => stale, Notes
  PROVE  Drift
<1>1. cut \subseteq cut' /\ (EndsEarly => mover \in cut')
  BY DEF Notes
<1>2. drive.pos \in Between(drive.pos, drive.goal)
  BY DEF Between, DriveType, DriveRecord
<1>3. /\ drive'.homed = drive.homed /\ drive'.goal = drive.goal /\ drive'.pos = drive.pos
      /\ (drive'.motion = drive.motion /\ drive'.reached = drive.reached) \/ drive'.motion = "none"
  BY DEF StartsNothing
<1> QED BY <1>1, <1>2, <1>3 DEF Drift

\* Accesses that only commands of their own kind make.
Driving == {"set", "climb", "reset", "modePP", "modeHM", "target"}

\* The drive after a step of a caller.
LEMMA StepEffect ==
  ASSUME TypeInv, NEW t \in Callers, Step(t)
  PROVE  LET a == Head(todo[t])
         IN  /\ Touches(t) /\ DriveType'
             /\ drive'.bit4 => a = "set" \/ drive.bit4
             /\ Executes(t, a) /\ a = "unhalt" => ~drive'.bit4
             /\ a \notin {"climb", "reset"} => (drive'.fault <=> drive.fault)
             /\ a \notin {"modePP", "modeHM"} => drive'.mode = drive.mode
             /\ Executes(t, a) => (a = "modePP" => drive'.mode = 1) /\ (a = "modeHM" => drive'.mode = 6)
             /\ a # "target" => drive'.target = drive.target
             /\ Executes(t, a) /\ a = "target" => drive'.target = goal[t]
             /\ Executes(t, a) /\ Starts(a) /\ drive.mode = 1
                  => drive'.motion = "pp" /\ ~drive'.reached /\ drive'.goal = Clamp(drive.target)
             /\ Executes(t, a) /\ Starts(a) /\ drive.mode = 6
                  => drive'.motion = "homing" /\ ~drive'.reached /\ ~drive'.homed
             /\ a \notin Driving => Drift
<1> DEFINE a == Head(todo[t])
<1>1. Touches(t) /\ DriveType /\ CallerType
  BY StepShape DEF Shape, TypeInv
<1>2. a = "target" => WithinLimits(goal[t])
  <2>1. MayBeLast(op[t], a) \/ \E b : Follows(op[t], a, b)
    BY StepPlaces
  <2>2. a = "target" => op[t] = "pp"
    BY <2>1, Belongs
  <2> QED BY <2>2 DEF TypeInv, AimInv, Checked
<1>3. CASE Executes(t, a)
  <2>1. drive' = After(t, a)
    BY <1>3 DEF Executes
  <2>2. /\ drive' \in DriveRecord /\ drive'.target \in 0..MaxPos /\ ~drive'.ack /\ ~drive'.emergency
        /\ drive'.bit4 => a = "set" \/ drive.bit4
        /\ a = "unhalt" => ~drive'.bit4
        /\ a \notin {"climb", "reset"} => (drive'.fault <=> drive.fault)
        /\ a \notin {"modePP", "modeHM"} => drive'.mode = drive.mode
        /\ (a = "modePP" => drive'.mode = 1) /\ (a = "modeHM" => drive'.mode = 6)
        /\ IF a = "target" THEN drive'.target = goal[t] ELSE drive'.target = drive.target
        /\ a # "set" => StartsNothing(drive, drive')
        /\ Starts(a) /\ drive.mode = 1
             => drive'.motion = "pp" /\ ~drive'.reached /\ drive'.goal = Clamp(drive.target)
        /\ Starts(a) /\ drive.mode = 6
             => drive'.motion = "homing" /\ ~drive'.reached /\ ~drive'.homed
    BY <1>1, <1>2, <2>1, AfterEffect
  <2>3. DriveType'
    BY <2>2 DEF DriveType
  <2>4. a \notin Driving => Drift
    <3>1. a # "set" => UNCHANGED <<mover, unpulsed, homedIn>> /\ stale' = stale
      BY <1>3 DEF Executes, Starts
    <3>2. Notes
      BY <1>1 DEF Touches
    <3> QED BY <1>1, <2>2, <3>1, <3>2, StillDrifts DEF Driving
  <2> QED BY ONLY <1>1, <1>3, <2>2, <2>3, <2>4
<1>4. CASE NotExecuted /\ ~Executes(t, a)
  <2>1. drive' = drive /\ UNCHANGED <<mover, unpulsed, homedIn>> /\ stale' = stale
    BY <1>4 DEF NotExecuted, startVars
  <2>2. Notes /\ StartsNothing(drive, drive')
    BY <1>1, <2>1 DEF Touches, StartsNothing
  <2>3. DriveType' /\ drive' \in DriveRecord
    BY <1>1, <2>1 DEF DriveType
  <2>4. Drift
    BY <1>1, <2>1, <2>2, <2>3, StillDrifts
  <2> QED BY <1>1, <1>4, <2>1, <2>3, <2>4
<1> QED BY <1>1, <1>3, <1>4 DEF Touches

\* A call begins a script at an access that is part of no handshake.
Begins(t, o, b) ==
  /\ o \in Operations /\ op[t] = "idle" /\ op' = [op EXCEPT ![t] = o]
  /\ \E s : IsScript(o, s, b) /\ todo' = [todo EXCEPT ![t] = s]
  /\ b \in {"prepare", "ready", "halt", "fault"}
  /\ result' = [result EXCEPT ![t] = "none"]
  /\ goal' \in [Callers -> Targets \cup {0}] /\ \A u \in Callers : u # t => goal'[u] = goal[u]
  /\ cut' = cut \ {t} /\ homedIn' = homedIn \ {t} /\ unpulsed' = unpulsed \ {t}
  /\ mover' = IF mover = t /\ o \in Moving THEN None ELSE mover
  /\ overlapped' = (overlapped \/ (o \in Moving /\ \E u \in Callers : op[u] \in Moving))
  /\ CancelIdle \/ UNCHANGED idleVars
  /\ calls' \in 0..MaxCalls /\ abort' \in BOOLEAN
  /\ UNCHANGED <<drive, stale, faults, upsets>>

\* Every facade operation begins this way, up to its first await.
LEMMA CallShape ==
  ASSUME TypeInv, NEW t \in Callers, Call(t)
  PROVE  \E o, b : Begins(t, o, b)
<1> USE DEF TypeInv
<1>1. ASSUME NEW o, Calls(t, o), NEW s, NEW b, IsScript(o, s, b), todo' = [todo EXCEPT ![t] = s],
             b \in {"prepare", "ready", "halt", "fault"},
             goal' \in [Callers -> Targets \cup {0}], \A u \in Callers : u # t => goal'[u] = goal[u],
             CancelIdle \/ UNCHANGED idleVars, abort' \in BOOLEAN
      PROVE  Begins(t, o, b)
  <2>1. calls' \in 0..MaxCalls
    <3>1. \A n \in 0..MaxCalls : n < MaxCalls => n + 1 \in 0..MaxCalls
      OBVIOUS
    <3> QED BY <1>1, <3>1 DEF Calls, OtherType
  <2> QED BY <1>1, <2>1 DEF Begins, Calls
<1>2. ASSUME NEW p \in Targets, Move(t, p) PROVE Begins(t, "move", "prepare")
  <2>1. goal' \in [Callers -> Targets \cup {0}] /\ \A u \in Callers : u # t => goal'[u] = goal[u]
    BY <1>2 DEF Move, CallerType
  <2> QED BY <1>1, <1>2, <2>1, Scripts DEF Move, OtherType
<1>3. ASSUME Home(t) PROVE Begins(t, "home", "ready")
  BY <1>1, <1>3, Scripts DEF Home, CallerType, OtherType
<1>4. ASSUME Stop(t) PROVE Begins(t, "stop", "halt")
  BY <1>1, <1>4, Scripts DEF Stop, CallerType, OtherType
<1>5. ASSUME Reset(t) PROVE Begins(t, "reset", "fault")
  <2>1. PICK s \in {<<>>, Recovery} : todo' = [todo EXCEPT ![t] = <<"fault">> \o s]
    BY <1>5 DEF Reset
  <2>2. IsScript("reset", <<"fault">> \o s, "fault")
    BY Scripts
  <2> QED BY <1>1, <1>5, <2>1, <2>2 DEF Reset, CallerType, OtherType
<1> QED BY <1>2, <1>3, <1>4, <1>5 DEF Call

\* The caller arrives at the first access of its script.
LEMMA CallPlaces ==
  ASSUME TypeInv, NEW t \in Callers, NEW o, NEW b, Begins(t, o, b)
  PROVE  Arrives(t, o, b) /\ o \in Moving \cup {"stop"} /\ o # "pp" /\ OthersStay(t)
<1>1. PICK s : IsScript(o, s, b) /\ todo' = [todo EXCEPT ![t] = s]
  BY DEF Begins
<1>2. s # <<>> /\ Head(s) = b
  BY <1>1 DEF IsScript, ScriptOf
<1>3. op' = [op EXCEPT ![t] = o] /\ o \in {"move", "home", "stop", "reset"}
  BY DEF Begins
<1> QED BY <1>1, <1>2, <1>3 DEF Arrives, OthersStay, At, TypeInv, CallerType, Moving

\* The idle shutdown, the motion engine and a fault that comes up leave every
\* caller where it is, and the motions to themselves.
Background == UNCHANGED <<callVars, overlapped>> /\ DriveType' /\ Drift

\* Every step that is not of a caller is such a step.
LEMMA BackgroundShape ==
  ASSUME TypeInv, Idle \/ EngineRuns \/ Upset \/ UNCHANGED vars
  PROVE  Background
<1>1. DriveType /\ drive \in DriveRecord
  BY DEF TypeInv, DriveType
<1>2. ASSUME drive' = drive, UNCHANGED <<startVars, cut, callVars, overlapped>> PROVE Background
  <2>1. Notes /\ StartsNothing(drive, drive') /\ DriveType'
    BY <1>1, <1>2 DEF Notes, EndsEarly, StartsNothing, DriveType
  <2>2. Drift
    BY <1>1, <1>2, <2>1, StillDrifts DEF startVars
  <2> QED BY <1>2, <2>1, <2>2 DEF Background
<1>3. CASE Idle
  <2>1. CASE IdleFires \/ IdleLooks \/ IdleRaises
    BY <1>2, <2>1 DEF IdleFires, IdleLooks, IdleRaises, Same
  <2>2. CASE IdleWrites
    <3>1. /\ drive' = Written(drive, DisableWord) /\ Notes
          /\ UNCHANGED <<callVars, startVars, overlapped>>
      BY <2>2 DEF IdleWrites, SameFacade
    <3>2. "new" \notin DisableWord /\ "reset" \notin DisableWord
      BY DEF DisableWord
    <3>3. /\ drive' \in DriveRecord /\ ~drive'.ack /\ ~drive'.bit4
          /\ drive'.mode = drive.mode /\ drive'.target = drive.target
          /\ drive'.emergency = drive.emergency /\ (drive'.fault <=> drive.fault)
          /\ StartsNothing(drive, drive')
      BY <1>1, <3>1, <3>2, WrittenEffect
    <3>4. DriveType'
      BY <1>1, <3>3 DEF DriveType
    <3>5. Drift
      BY <1>1, <3>1, <3>3, StillDrifts DEF startVars
    <3> QED BY <3>1, <3>4, <3>5 DEF Background
  <2> QED BY <1>3, <2>1, <2>2 DEF Idle
<1>4. CASE EngineRuns
  <2>1. drive' \in EngineTurns(drive) /\ drive' \in DriveRecord
    BY <1>1, <1>4, TurnType DEF EngineRuns
  <2>2. /\ drive'.mode = drive.mode /\ drive'.target = drive.target
        /\ drive'.emergency = drive.emergency /\ drive'.bit4 = drive.bit4
        /\ drive'.fault = drive.fault /\ drive'.ack = drive.ack
    BY <1>1, <2>1, TurnEffect, TurnMotion
  <2>3. DriveType'
    BY <1>1, <2>1, <2>2 DEF DriveType
  <2>4. /\ drive.motion = "none" => drive'.motion = "none" /\ drive'.pos = drive.pos
        /\ drive.motion = "pp" /\ drive.mode = 1 =>
             /\ drive'.goal = drive.goal
             /\ \/ drive'.motion = "none"
                \/ /\ drive'.motion = "pp" /\ ~drive'.reached
                   /\ drive'.pos \in Between(drive.pos, drive.goal)
        /\ drive.motion = "homing" /\ drive.mode = 6 =>
             \/ drive'.motion = "none"
             \/ drive'.motion = "homing" /\ ~drive'.reached /\ drive'.homed = drive.homed
    BY <1>1, <2>1, TurnMotion
  <2>5. /\ UNCHANGED <<mover, unpulsed, callVars, overlapped>>
        /\ stale' \in {stale, FALSE} /\ Notes
        /\ homedIn' = IF drive'.homed /\ ~drive.homed
                      THEN homedIn \cup {t \in Callers : op[t] = "home"} ELSE homedIn
    BY <1>4 DEF EngineRuns, SameFacade
  <2>6. Drift
    <3>1. cut \subseteq cut' /\ (EndsEarly => mover \in cut')
      BY <2>5 DEF Notes
    <3>2. /\ homedIn \subseteq homedIn'
          /\ drive'.homed /\ ~drive.homed => \A u \in Callers : op[u] = "home" => u \in homedIn'
      BY <2>5
    <3>3. UNCHANGED <<mover, unpulsed>> /\ (stale' => stale)
      <4>1. stale' = stale \/ stale' = FALSE
        BY <2>5
      <4>2. stale' => stale
        BY <4>1, Zenon
      <4> QED BY <2>5, <4>2
    <3>4. (drive.fault => drive'.fault) /\ (drive'.bit4 => drive.bit4)
      BY <2>2
    <3> QED BY ONLY <2>2, <2>4, <3>1, <3>2, <3>3, <3>4 DEF Drift
  <2> QED BY <2>3, <2>5, <2>6 DEF Background
<1>5. CASE Upset
  <2> DEFINE r == AtRest(drive)
  <2>1. /\ r \in DriveRecord /\ drive' = [r EXCEPT !.fault = TRUE, !.state = "fault"]
        /\ Notes /\ UNCHANGED <<startVars, callVars, overlapped>>
    BY <1>1, <1>5, RestType DEF Upset
  <2>2. /\ r.mode = drive.mode /\ r.target = drive.target /\ r.emergency = drive.emergency
        /\ r.bit4 = drive.bit4 /\ r.homed = drive.homed /\ r.motion = "none"
        /\ r.pos = drive.pos /\ r.goal = drive.goal /\ ~r.ack
    BY <1>1 DEF AtRest, DriveRecord
  <2> HIDE DEF r
  <2>3. /\ drive'.mode = r.mode /\ drive'.target = r.target /\ drive'.emergency = r.emergency
        /\ drive'.bit4 = r.bit4 /\ drive'.homed = r.homed /\ drive'.motion = r.motion
        /\ drive'.pos = r.pos /\ drive'.goal = r.goal /\ drive'.ack = r.ack
        /\ drive'.fault /\ drive' \in DriveRecord
    <3>1. "fault" \in DriveStates
      BY DEF DriveStates
    <3> QED BY <2>1, <3>1 DEF DriveRecord
  <2>4. DriveType' /\ StartsNothing(drive, drive')
    BY <1>1, <2>2, <2>3 DEF DriveType, StartsNothing
  <2>5. Drift
    BY <1>1, <2>1, <2>2, <2>3, <2>4, StillDrifts DEF startVars
  <2> QED BY <2>1, <2>4, <2>5 DEF Background
<1>6. CASE UNCHANGED vars
  BY <1>2, <1>6 DEF vars
<1> QED BY <1>3, <1>4, <1>5, <1>6

\* The kinds of steps there are.
LEMMA Steps ==
  ASSUME TypeInv, [Next]_vars
  PROVE  \/ \E t \in Callers : Step(t)
         \/ \E t \in Callers : \E o, b : Begins(t, o, b)
         \/ Background
BY CallShape, BackgroundShape DEF Next, Quiet

-----------------------------------------------------------------------------
(* Type correctness. *)

\* Operations, scripts, targets and results stay what they are.
LEMMA CallerTypeStep ==
  ASSUME TypeInv, [Next]_vars
  PROVE  CallerType' /\ ScriptInv'
<1> USE DEF TypeInv
<1> DEFINE Ops == Moving \cup {"idle", "stop"}
<1>1. ASSUME NEW t \in Callers, NEW o \in Ops, NEW s,
             op' = [op EXCEPT ![t] = o], todo' = [todo EXCEPT ![t] = s],
             IF o = "idle" THEN s = <<>> ELSE s \in Seq(Accesses) /\ ScriptOf(o, s)
      PROVE  op' \in [Callers -> Ops] /\ todo' \in [Callers -> Seq(Accesses)] /\ ScriptInv'
  <2>1. CASE o = "idle"
    <3>1. s = <<>> /\ <<>> \in Seq(Accesses)
      BY <1>1, <2>1
    <3> QED BY <1>1, <2>1, <3>1 DEF CallerType, ScriptInv
  <2>2. CASE o # "idle"
    BY <1>1, <2>2 DEF CallerType, ScriptInv
  <2> QED BY <2>1, <2>2
<1>2. ASSUME NEW t \in Callers, Step(t) PROVE CallerType' /\ ScriptInv'
  <2>1. Shape(t)
    BY <1>2, StepShape
  <2>2. CASE Continues(t)
    <3>1. PICK s, b : IsScript(op[t], s, b) /\ todo' = [todo EXCEPT ![t] = s]
      BY <2>2 DEF Continues
    <3>2. op' = [op EXCEPT ![t] = op[t]] /\ op[t] \in Ops /\ op[t] # "idle"
      BY <2>1, <2>2, FirstAccess DEF Continues, CallerType, Shape
    <3>3. op' \in [Callers -> Ops] /\ todo' \in [Callers -> Seq(Accesses)] /\ ScriptInv'
      BY <1>1, <3>1, <3>2 DEF IsScript
    <3> QED BY <2>2, <3>3 DEF Continues, CallerType
  <2>3. CASE Enters(t)
    <3>1. op' = [op EXCEPT ![t] = "pp"] /\ todo' = [todo EXCEPT ![t] = Handshake]
      BY <2>3 DEF Enters, EntersPp
    <3>2. op' \in [Callers -> Ops] /\ todo' \in [Callers -> Seq(Accesses)] /\ ScriptInv'
      BY <1>1, <3>1, Scripts DEF IsScript, Moving
    <3> QED BY <2>3, <3>2 DEF Enters, EntersPp, CallerType
  <2>4. CASE Finishes(t)
    <3>1. op' = [op EXCEPT ![t] = "idle"] /\ todo' = [todo EXCEPT ![t] = <<>>]
      BY <2>4 DEF Finishes
    <3>2. op' \in [Callers -> Ops] /\ todo' \in [Callers -> Seq(Accesses)] /\ ScriptInv'
      BY <1>1, <3>1
    <3> QED BY <2>4, <3>2 DEF Finishes, CallerType
  <2> QED BY <2>1, <2>2, <2>3, <2>4 DEF Shape
<1>3. ASSUME NEW t \in Callers, NEW o, NEW b, Begins(t, o, b) PROVE CallerType' /\ ScriptInv'
  <2>1. PICK s : IsScript(o, s, b) /\ todo' = [todo EXCEPT ![t] = s]
    BY <1>3 DEF Begins
  <2>2. op' = [op EXCEPT ![t] = o] /\ o \in Ops /\ o # "idle"
    BY <1>3 DEF Begins, Moving
  <2>3. op' \in [Callers -> Ops] /\ todo' \in [Callers -> Seq(Accesses)] /\ ScriptInv'
    BY <1>1, <2>1, <2>2 DEF IsScript
  <2> QED BY <1>3, <2>3 DEF Begins, CallerType, Results
<1>4. ASSUME Background PROVE CallerType' /\ ScriptInv'
  BY <1>4 DEF Background, callVars, CallerType, ScriptInv
<1> QED BY <1>2, <1>3, <1>4, Steps

\* The drive stays a drive, with its target inside the limits.
LEMMA DriveTypeStep ==
  ASSUME TypeInv, [Next]_vars
  PROVE  DriveType'
<1>1. ASSUME NEW t \in Callers, NEW o, NEW b, Begins(t, o, b) PROVE DriveType'
  BY <1>1 DEF Begins, DriveType, TypeInv
<1> QED BY <1>1, Steps, StepEffect DEF Background

\* Flags, counters and ghosts stay in their sets.
LEMMA OtherTypeStep ==
  ASSUME TypeInv, [Next]_vars
  PROVE  OtherType'
<1> USE DEF TypeInv
<1>1. ASSUME Notes PROVE cut' \subseteq Callers \cup {None}
  BY <1>1 DEF Notes, OtherType
<1>2. ASSUME NEW t \in Callers, Step(t) PROVE OtherType'
  <2>1. Touches(t) /\ (Continues(t) \/ Enters(t) \/ Finishes(t))
    BY <1>2, StepShape DEF Shape
  <2>2. /\ stale' \in BOOLEAN /\ mover' \in Callers \cup {None}
        /\ homedIn' \subseteq Callers /\ unpulsed' \subseteq Callers
    <3>1. CASE Executes(t, Head(todo[t]))
      BY <3>1 DEF Executes, OtherType
    <3>2. CASE NotExecuted
      BY <3>2 DEF NotExecuted, startVars, OtherType
    <3> QED BY <2>1, <3>1, <3>2 DEF Touches
  <2>3. timer' \in BOOLEAN /\ orphan' \in BOOLEAN /\ shutdown' \in {"none", "looks", "writes"}
    BY <2>1 DEF Continues, Enters, EntersPp, Finishes, ScheduleIdle, idleVars, OtherType
  <2> QED BY <1>1, <2>1, <2>2, <2>3 DEF Touches, OtherType
<1>3. ASSUME NEW t \in Callers, NEW o, NEW b, Begins(t, o, b) PROVE OtherType'
  <2>1. timer' \in BOOLEAN /\ orphan' \in BOOLEAN /\ shutdown' \in {"none", "looks", "writes"}
    BY <1>3 DEF Begins, CancelIdle, idleVars, OtherType
  <2>2. overlapped' \in BOOLEAN /\ mover' \in Callers \cup {None}
    BY <1>3 DEF Begins, OtherType
  <2> QED BY <1>3, <2>1, <2>2 DEF Begins, OtherType
<1>4. ASSUME Idle \/ EngineRuns \/ Upset \/ UNCHANGED vars PROVE OtherType'
  <2>1. \A m \in Nat : \A n \in 0..m : n < m => n + 1 \in 0..m
    OBVIOUS
  <2>2. CASE IdleFires \/ IdleLooks
    <3>1. /\ timer' \in BOOLEAN /\ orphan' = orphan /\ shutdown' \in {"none", "looks", "writes"}
          /\ Same
      BY <2>2 DEF IdleFires, IdleLooks, OtherType
    <3> QED BY <3>1 DEF Same, boundVars, startVars, OtherType
  <2>3. CASE IdleWrites
    <3>1. /\ timer' = timer /\ orphan' \in BOOLEAN /\ shutdown' \in {"none", "looks", "writes"}
          /\ Notes /\ SameFacade /\ UNCHANGED startVars
      BY <2>3 DEF IdleWrites, OtherType
    <3> QED BY <1>1, <3>1 DEF SameFacade, boundVars, startVars, OtherType
  <2>4. CASE IdleRaises
    <3>1. faults' \in 0..MaxFaults
      BY <2>1, <2>4 DEF OtherType, IdleRaises
    <3> QED BY <2>4, <3>1 DEF IdleRaises, startVars, OtherType
  <2>5. CASE EngineRuns
    <3>1. stale' \in BOOLEAN /\ homedIn' \subseteq Callers /\ Notes /\ SameFacade
          /\ UNCHANGED <<mover, unpulsed, idleVars>>
      BY <2>5 DEF EngineRuns, OtherType
    <3> QED BY <1>1, <3>1 DEF SameFacade, boundVars, idleVars, OtherType
  <2>6. CASE Upset
    <3>1. upsets' \in 0..MaxUpsets
      BY <2>1, <2>6 DEF OtherType, Upset
    <3> QED BY <1>1, <2>6, <3>1 DEF Upset, startVars, idleVars, OtherType
  <2>7. CASE UNCHANGED vars
    BY <2>7 DEF vars, boundVars, startVars, idleVars, OtherType
  <2> QED BY <1>4, <2>2, <2>3, <2>4, <2>5, <2>6, <2>7 DEF Idle
<1> QED BY <1>2, <1>3, <1>4, CallShape DEF Next, Quiet

\* A target reaches the handshake through the limit check alone.
LEMMA AimStep ==
  ASSUME TypeInv, [Next]_vars
  PROVE  AimInv'
<1> USE DEF TypeInv
<1>1. ASSUME NEW t \in Callers, Step(t) PROVE AimInv'
  <2> DEFINE a == Head(todo[t])
  <2>1. /\ OthersStay(t) /\ (\A x : At(t, x) <=> x = a) /\ goal' = goal
        /\ \/ \E b : Advances(t, b)
           \/ Enters(t) /\ Arrives(t, "pp", "modePP") /\ a = "look"
           \/ Leaves(t)
    BY <1>1, StepPlaces
  <2>2. ASSUME NEW u \in Callers, u # t, Checked(u)' PROVE WithinLimits(goal'[u])
    <3>1. Checked(u)
      BY <2>1, <2>2 DEF Checked, OthersStay
    <3> QED BY <2>1, <3>1 DEF AimInv
  <2>3. ASSUME Checked(t)' PROVE WithinLimits(goal'[t])
    <3>1. CASE \E b : Advances(t, b)
      <4>1. PICK b : Advances(t, b)
        BY <3>1
      <4>2. op'[t] = op[t] /\ (\A x : At(t, x)' <=> x = b) /\ Onward(op[t], a, b)
        BY <4>1 DEF Advances, Arrives
      <4>3. op[t] = "pp" \/ (op[t] = "move" /\ a = "unhalt")
        BY <2>3, <4>2 DEF Checked, Onward, Follows
      <4>4. CASE op[t] = "pp"
        BY <2>1, <4>4 DEF AimInv, Checked
      <4>5. CASE op[t] = "move" /\ a = "unhalt"
        BY <2>1, <4>1, <4>5 DEF Advances, Continues
      <4> QED BY <4>3, <4>4, <4>5
    <3>2. CASE Enters(t) /\ a = "look"
      BY <2>1, <3>2 DEF Enters, Checked, AimInv
    <3>3. CASE Leaves(t)
      BY <2>3, <3>3 DEF Leaves, Checked
    <3> QED BY <2>1, <3>1, <3>2, <3>3
  <2> QED BY <2>2, <2>3 DEF AimInv, WithinLimits
<1>2. ASSUME NEW t \in Callers, NEW o, NEW b, Begins(t, o, b) PROVE AimInv'
  <2>1. /\ Arrives(t, o, b) /\ o # "pp" /\ b # "look" /\ OthersStay(t)
        /\ \A u \in Callers : u # t => goal'[u] = goal[u]
    BY <1>2, CallPlaces DEF Begins
  <2>2. ~Checked(t)'
    BY <2>1 DEF Arrives, Checked
  <2>3. ASSUME NEW u \in Callers, u # t, Checked(u)' PROVE WithinLimits(goal'[u])
    <3>1. Checked(u)
      BY <2>1, <2>3 DEF Checked, OthersStay
    <3> QED BY <2>1, <2>3, <3>1 DEF AimInv
  <2> QED BY <2>2, <2>3 DEF AimInv, WithinLimits
<1>3. ASSUME Background PROVE AimInv'
  BY <1>3 DEF Background, callVars, AimInv, Checked, At, WithinLimits
<1> QED BY <1>1, <1>2, <1>3, Steps

-----------------------------------------------------------------------------
(* The other parts of the invariant. *)

\* A caller is in a moving command after a step only if it was before.
LEMMA StepOps ==
  ASSUME TypeInv, NEW t \in Callers, Step(t)
  PROVE  /\ overlapped' = overlapped
         /\ \A u \in Callers : op'[u] \in Moving => op[u] \in Moving
<1>1. OthersStay(t) /\ overlapped' = overlapped
  BY StepPlaces, StepEffect DEF Touches
<1>2. op'[t] = op[t] \/ (op[t] = "move" /\ op'[t] = "pp") \/ op'[t] = "idle"
  BY StepPlaces DEF Advances, Enters, Arrives, Leaves
<1> QED BY <1>1, <1>2 DEF OthersStay, Moving

\* A call that is not alone is recorded.
LEMMA BeginsOps ==
  ASSUME TypeInv, NEW t \in Callers, NEW o, NEW b, Begins(t, o, b), ~overlapped'
  PROVE  ~overlapped /\ (o \in Moving => \A u \in Callers : op[u] \notin Moving)
BY DEF Begins

\* A step of one caller, seen from another in a moving command: the motions are
\* left to themselves.
LEMMA Bystander ==
  ASSUME TypeInv, Alone, ~overlapped, NEW t \in Callers, Step(t),
         NEW u \in Callers, u # t, op[u] \in Moving
  PROVE  Head(todo[t]) \notin Driving /\ Drift
<1> DEFINE a == Head(todo[t])
<1>1. op[t] \notin Moving
  BY DEF Alone
<1>2. MayBeLast(op[t], a) \/ \E b : Follows(op[t], a, b)
  BY StepPlaces
<1>3. a \notin Driving
  BY <1>1, <1>2, Belongs DEF Moving, Driving
<1> QED BY <1>3, StepEffect

\* A second moving command is recorded when it begins.
LEMMA AloneStep ==
  ASSUME TypeInv, Alone, [Next]_vars
  PROVE  Alone'
<1>1. ASSUME NEW t \in Callers, Step(t) PROVE Alone'
  BY <1>1, StepOps DEF Alone
<1>2. ASSUME NEW t \in Callers, NEW o, NEW b, Begins(t, o, b), ~overlapped' PROVE Alone'
  <2>1. /\ ~overlapped /\ op'[t] = o
        /\ o \in Moving => \A u \in Callers : op[u] \notin Moving
        /\ \A u \in Callers : u # t => op'[u] = op[u]
    BY <1>2, BeginsOps, CallPlaces DEF Arrives, OthersStay
  <2> QED BY <2>1 DEF Alone
<1>3. ASSUME Background PROVE Alone'
  BY <1>3 DEF Background, callVars, Alone
<1> QED BY <1>1, <1>2, <1>3, Steps DEF Alone

\* Bit 4 stays low from the enable word of a move to its set-point.
LEMMA EdgeStep ==
  ASSUME TypeInv, Alone, EdgeIsReady, [Next]_vars
  PROVE  EdgeIsReady'
<1>1. ASSUME NEW t \in Callers, Step(t), ~overlapped', NEW u \in Callers, BeforePulse(u)'
      PROVE  ~drive'.bit4
  <2> DEFINE a == Head(todo[t])
  <2>1. /\ ~overlapped
        /\ drive'.bit4 => a = "set" \/ drive.bit4
        /\ Executes(t, a) /\ a = "unhalt" => ~drive'.bit4
    BY <1>1, StepOps, StepEffect
  <2>2. /\ OthersStay(t) /\ (\A x : At(t, x) <=> x = a)
        /\ \/ \E b : Advances(t, b)
           \/ Enters(t) /\ Arrives(t, "pp", "modePP") /\ a = "look"
           \/ Finishes(t) /\ Leaves(t)
    BY <1>1, StepPlaces
  <2>3. CASE u # t
    <3>1. BeforePulse(u) /\ op[u] \in Moving
      BY <1>1, <2>2, <2>3 DEF BeforePulse, OthersStay, Moving
    <3>2. a # "set" /\ ~drive.bit4
      BY <1>1, <2>1, <2>3, <3>1, Bystander DEF EdgeIsReady, Driving
    <3> QED BY <2>1, <3>2
  <2>4. CASE u = t /\ BeforePulse(t) /\ a # "set"
    BY <2>1, <2>4 DEF EdgeIsReady
  <2>5. CASE u = t /\ \E b : Advances(t, b)
    <3>1. PICK b : Advances(t, b)
      BY <2>5
    <3>2. Arrives(t, op[t], b) /\ Onward(op[t], a, b)
      BY <3>1 DEF Advances
    <3>3. \/ op[t] = "move" /\ b = "look"
          \/ op[t] = "pp" /\ b \in {"modePP", "verify", "configure", "target", "barrier", "set"}
      BY <1>1, <2>5, <3>2 DEF Arrives, BeforePulse
    <3>4. \/ op[t] = "move" /\ a = "unhalt"
          \/ op[t] = "pp" /\ a \in {"modePP", "verify", "configure", "target", "barrier"}
      BY <3>2, <3>3 DEF Onward, Follows
    <3>5. a = "unhalt" => Executes(t, a)
      BY <3>1 DEF Advances, Continues, Needed
    <3>6. a # "unhalt" => BeforePulse(t) /\ a # "set"
      BY <2>2, <3>4 DEF BeforePulse
    <3> QED BY <2>1, <2>4, <2>5, <3>5, <3>6
  <2>6. CASE u = t /\ Enters(t) /\ a = "look"
    <3>1. BeforePulse(t)
      BY <2>2, <2>6 DEF Enters, BeforePulse
    <3> QED BY <2>4, <2>6, <3>1
  <2>7. CASE u = t /\ Leaves(t)
    BY <1>1, <2>7 DEF Leaves, BeforePulse
  <2> QED BY <2>2, <2>3, <2>5, <2>6, <2>7
<1>2. ASSUME NEW t \in Callers, NEW o, NEW b, Begins(t, o, b), ~overlapped',
             NEW u \in Callers, BeforePulse(u)'
      PROVE  ~drive'.bit4
  <2>1. /\ ~overlapped /\ drive' = drive /\ b # "look"
        /\ Arrives(t, o, b) /\ o # "pp" /\ OthersStay(t)
    BY <1>2, BeginsOps, CallPlaces DEF Begins
  <2>2. u # t
    BY <1>2, <2>1 DEF Arrives, BeforePulse
  <2>3. BeforePulse(u)
    BY <1>2, <2>1, <2>2 DEF BeforePulse, OthersStay
  <2> QED BY <2>1, <2>3 DEF EdgeIsReady
<1>3. ASSUME Background PROVE EdgeIsReady'
  BY <1>3 DEF Background, callVars, EdgeIsReady, BeforePulse, At, Drift
<1> QED BY <1>1, <1>2, <1>3, Steps DEF EdgeIsReady

\* Mode and target stay those the handshake, or home(), has written.
LEMMA SetUpStep ==
  ASSUME TypeInv, Alone, SetUp, [Next]_vars
  PROVE  SetUp'
<1> DEFINE Good(u) == /\ InPosition(u) => drive.mode = 1
                      /\ Aimed(u) => drive.target = goal[u]
                      /\ InHoming(u) => drive.mode = 6
           Busy(u) == InPosition(u) \/ Aimed(u) \/ InHoming(u)
<1>1. ASSUME NEW t \in Callers, Step(t), ~overlapped', NEW u \in Callers, Busy(u)'
      PROVE  Good(u)'
  <2> DEFINE a == Head(todo[t])
  <2>1. /\ ~overlapped
        /\ a \notin {"modePP", "modeHM"} => drive'.mode = drive.mode
        /\ Executes(t, a) => (a = "modePP" => drive'.mode = 1) /\ (a = "modeHM" => drive'.mode = 6)
        /\ a # "target" => drive'.target = drive.target
        /\ Executes(t, a) /\ a = "target" => drive'.target = goal[t]
    BY <1>1, StepOps, StepEffect
  <2>2. /\ OthersStay(t) /\ (\A x : At(t, x) <=> x = a) /\ goal' = goal
        /\ \/ \E b : Advances(t, b)
           \/ Enters(t) /\ Arrives(t, "pp", "modePP") /\ a = "look"
           \/ Finishes(t) /\ Leaves(t)
    BY <1>1, StepPlaces
  <2>3. CASE u # t
    <3>1. /\ op[u] \in Moving
          /\ (InPosition(u)' => InPosition(u)) /\ (Aimed(u)' => Aimed(u))
          /\ (InHoming(u)' => InHoming(u))
      BY <1>1, <2>2, <2>3 DEF InPosition, Aimed, InHoming, OthersStay, Moving
    <3>2. Drift
      BY <1>1, <2>1, <2>3, <3>1, Bystander
    <3> QED BY <2>1, <2>2, <3>1, <3>2 DEF SetUp, Drift
  <2>4. CASE u = t /\ \E b : Advances(t, b)
    <3>1. PICK b : Advances(t, b)
      BY <2>4
    <3>2. op'[t] = op[t] /\ (\A x : At(t, x)' <=> x = b) /\ Onward(op[t], a, b)
      BY <3>1 DEF Advances, Arrives
    <3>3. a \in Needed => Executes(t, a)
      BY <3>1 DEF Advances, Continues
    <3>4. InPosition(t)' => drive'.mode = 1
      <4>1. CASE op[t] = "pp" /\ a = "modePP"
        BY <2>1, <3>3, <4>1 DEF Needed
      <4>2. CASE op[t] = "pp" /\ a # "modePP"
        <5>1. InPosition(t) /\ a # "modeHM"
          BY <2>2, <3>2, <4>2 DEF InPosition, Onward, Follows
        <5> QED BY <2>1, <4>2, <5>1 DEF SetUp
      <4> QED BY <3>2, <4>1, <4>2 DEF InPosition
    <3>5. Aimed(t)' => drive'.target = goal'[t]
      <4>1. CASE a = "target"
        BY <2>1, <2>2, <3>3, <4>1 DEF Needed
      <4>2. CASE a # "target" /\ Aimed(t)'
        <5>1. op[t] = "pp" /\ b \in {"barrier", "set", "clear", "ack", "delta", "clears", "wait"}
          BY <3>2, <4>2 DEF Aimed
        <5>2. a \in {"barrier", "set", "clear", "ack", "delta", "clears"}
          BY <3>2, <4>2, <5>1 DEF Onward, Follows
        <5>3. Aimed(t)
          BY <2>2, <5>1, <5>2 DEF Aimed
        <5> QED BY <2>1, <2>2, <4>2, <5>3 DEF SetUp
      <4> QED BY <4>1, <4>2
    <3>6. InHoming(t)' => drive'.mode = 6
      <4>1. CASE a = "modeHM"
        BY <2>1, <3>3, <4>1 DEF Needed
      <4>2. CASE a # "modeHM" /\ InHoming(t)'
        <5>1. op[t] = "home" /\ b \in {"configure", "barrier", "set", "clear", "done"}
          BY <3>2, <4>2 DEF InHoming
        <5>2. a \in {"configure", "barrier", "set", "clear"}
          BY <3>2, <4>2, <5>1 DEF Onward, Follows
        <5>3. InHoming(t)
          BY <2>2, <5>1, <5>2 DEF InHoming
        <5> QED BY <2>1, <5>2, <5>3 DEF SetUp
      <4> QED BY <4>1, <4>2
    <3> QED BY <2>4, <3>4, <3>5, <3>6
  <2>5. CASE u = t /\ (Arrives(t, "pp", "modePP") \/ Leaves(t))
    BY <1>1, <2>5 DEF Arrives, Leaves, InPosition, Aimed, InHoming
  <2> QED BY <2>2, <2>3, <2>4, <2>5
<1>2. ASSUME NEW t \in Callers, NEW o, NEW b, Begins(t, o, b), ~overlapped',
             NEW u \in Callers, Busy(u)'
      PROVE  Good(u)'
  <2>1. /\ ~overlapped /\ drive' = drive /\ b \in {"prepare", "ready", "halt", "fault"}
        /\ Arrives(t, o, b) /\ o # "pp" /\ OthersStay(t)
        /\ \A v \in Callers : v # t => goal'[v] = goal[v]
    BY <1>2, BeginsOps, CallPlaces DEF Begins
  <2>2. u # t
    BY <1>2, <2>1 DEF Arrives, InPosition, Aimed, InHoming
  <2>3. /\ goal'[u] = goal[u]
        /\ (InPosition(u)' => InPosition(u)) /\ (Aimed(u)' => Aimed(u))
        /\ (InHoming(u)' => InHoming(u))
    BY <2>1, <2>2 DEF InPosition, Aimed, InHoming, OthersStay
  <2> QED BY <2>1, <2>3 DEF SetUp
<1>3. ASSUME Background PROVE SetUp'
  BY <1>3 DEF Background, callVars, SetUp, InPosition, Aimed, InHoming, At, Drift
<1>4. ASSUME ~overlapped' => \A u \in Callers : Busy(u)' => Good(u)' PROVE SetUp'
  BY <1>4 DEF SetUp
<1> QED BY <1>1, <1>2, <1>3, <1>4, Steps

\* A motion to a target that is left to itself gets nearer, arrives, or has ended
\* early and is recorded.
LEMMA MotionKept ==
  ASSUME TypeInv, DriveType', Drift, NEW u \in Callers, drive.mode = 1, goal' = goal,
         drive.fault \/ u \in cut \/ Arrived(u) \/ Going(u)
  PROVE  \/ drive'.fault \/ u \in cut' \/ Arrived(u)'
         \/ Going(u) /\ Going(u)' /\ (Near(u) => Near(u)')
<1>1. CASE drive.fault \/ u \in cut \/ Arrived(u)
  BY <1>1 DEF Drift, Arrived
<1>2. CASE Going(u)
  <2>1. /\ mover' = u /\ drive.motion = "pp" /\ drive.goal = goal'[u] /\ drive'.goal = drive.goal
        /\ EndsEarly => u \in cut'
    BY <1>2 DEF Going, Drift
  <2>2. CASE drive'.motion = "none"
    <3>1. EndsEarly \/ drive'.pos = drive.goal
      BY <2>1, <2>2 DEF EndsEarly
    <3> QED BY <2>1, <2>2, <3>1 DEF Arrived
  <2>3. CASE /\ drive'.motion = "pp" /\ ~drive'.reached
             /\ drive'.pos \in Between(drive.pos, drive.goal)
    <3>1. Going(u)'
      BY <2>1, <2>3 DEF Going
    <3>2. \A g, p, q \in Int : /\ p - g \in -Window..Window
                               /\ (p <= q /\ q <= g) \/ (g <= q /\ q <= p)
                               => q - g \in -Window..Window
      OBVIOUS
    <3>3. goal[u] \in Int /\ drive.pos \in Int /\ drive'.pos \in Int
      BY <2>1 DEF TypeInv, DriveType, DriveRecord
    <3>4. \/ drive.pos <= drive'.pos /\ drive'.pos <= goal[u]
          \/ goal[u] <= drive'.pos /\ drive'.pos <= drive.pos
      BY <2>1, <2>3 DEF Between
    <3>5. Near(u) => Near(u)'
      BY <3>2, <3>3, <3>4 DEF Near
    <3> QED BY <1>2, <3>1, <3>5
  <2> QED BY <1>2, <2>2, <2>3 DEF Going, Drift
<1> QED BY <1>1, <1>2

\* So does a homing.
LEMMA HomingKept ==
  ASSUME Drift, NEW u \in Callers, drive.mode = 6, op[u] = "home",
         u \in homedIn \cup unpulsed \cup cut \/ Homing(u)
  PROVE  u \in homedIn' \cup unpulsed' \cup cut' \/ Homing(u)'
<1>1. CASE u \in homedIn \cup unpulsed \cup cut
  BY <1>1 DEF Drift
<1>2. CASE Homing(u)
  <2>1. mover' = u /\ (EndsEarly => u \in cut') /\ drive.motion = "homing" /\ ~drive.homed
    BY <1>2 DEF Homing, Drift
  <2>2. CASE drive'.motion = "none"
    <3>1. drive'.homed => u \in homedIn'
      BY <2>1 DEF Drift
    <3>2. ~drive'.homed => EndsEarly
      BY <2>1, <2>2 DEF EndsEarly
    <3> QED BY <2>1, <3>1, <3>2
  <2>3. CASE drive'.motion = "homing" /\ ~drive'.reached /\ drive'.homed = drive.homed
    BY <2>1, <2>3 DEF Homing
  <2> QED BY <1>2, <2>2, <2>3 DEF Homing, Drift
<1> QED BY <1>1, <1>2

\* What bits 10 and 12 say of a move, or a homing, under way.
LEMMA Bits ==
  ASSUME TypeInv, ~drive.reached
  PROVE  /\ Bit10 => stale
         /\ drive.mode = 1 => ~Bit12
         /\ drive.mode = 6 /\ Bit12 => drive.homed
<1>1. drive.state \in DriveStates /\ ~drive.ack
  BY DEF TypeInv, DriveType, DriveRecord
<1>2. "reached" \notin Status(drive, TRUE)
  BY <1>1 DEF Status, DriveStates
<1>3. "bit12" \in Status(drive, TRUE) => drive.mode = 6 /\ drive.homed
  BY <1>1 DEF Status, DriveStates
<1>4. (Bit10 => stale) /\ (Bit12 => drive.mode = 6 /\ drive.homed)
  BY <1>2, <1>3, Zenon DEF Bit10, Bit12
<1> QED BY <1>4

\* A move starts its motion with its own pulse, and keeps it until it waits for
\* bit 10; the wait begins when bit 10 speaks of that motion, or near the target.
LEMMA MoveStep ==
  ASSUME TypeInv, Alone, EdgeIsReady, SetUp, MoveInv, [Next]_vars
  PROVE  MoveInv'
<1> DEFINE Moves(u) == \/ drive.fault \/ u \in cut \/ Arrived(u)
                       \/ Going(u) /\ (At(u, "wait") => ~stale \/ Near(u))
<1>1. DriveType'
  BY DriveTypeStep
<1>2. ASSUME ~overlapped, Drift, goal' = goal, NEW u \in Callers, Pulsed(u),
             At(u, "wait")' => At(u, "wait") \/ ~stale \/ Near(u)
      PROVE  Moves(u)'
  <2>1. /\ Moves(u) /\ drive.mode = 1 /\ (stale' => stale)
    BY <1>2 DEF MoveInv, SetUp, Pulsed, InPosition, At, Drift
  <2>2. \/ drive'.fault \/ u \in cut' \/ Arrived(u)'
        \/ Going(u) /\ Going(u)' /\ (Near(u) => Near(u)')
    BY <1>1, <1>2, <2>1, MotionKept
  <2>3. ASSUME Going(u), ~drive.fault, u \notin cut, ~Arrived(u), At(u, "wait")'
        PROVE  ~stale \/ Near(u)
    BY <1>2, <2>1, <2>3
  <2>4. CASE drive.fault \/ u \in cut \/ Arrived(u)
    <3>1. drive'.fault \/ u \in cut' \/ Arrived(u)'
      BY <1>2, <2>1, <2>4 DEF Drift, Arrived
    <3> QED BY <3>1
  <2>5. CASE ~(drive.fault \/ u \in cut \/ Arrived(u))
    BY <2>1, <2>2, <2>3, <2>5
  <2> QED BY <2>4, <2>5
<1>3. ASSUME NEW t \in Callers, Step(t), ~overlapped', NEW u \in Callers, Pulsed(u)'
      PROVE  Moves(u)'
  <2> DEFINE a == Head(todo[t])
  <2>1. ~overlapped
    BY <1>3, StepOps
  <2>2. /\ OthersStay(t) /\ (\A x : At(t, x) <=> x = a) /\ goal' = goal
        /\ \/ \E b : Advances(t, b)
           \/ Enters(t) /\ Arrives(t, "pp", "modePP") /\ a = "look"
           \/ Finishes(t) /\ Leaves(t)
    BY <1>3, StepPlaces
  <2>3. CASE u # t
    <3>1. Pulsed(u) /\ op[u] \in Moving /\ (At(u, "wait")' => At(u, "wait"))
      BY <1>3, <2>2, <2>3 DEF Pulsed, OthersStay, Moving
    <3>2. Drift
      BY <1>3, <2>1, <2>3, <3>1, Bystander
    <3> QED BY <1>2, <2>1, <2>2, <3>1, <3>2
  <2>4. CASE u = t /\ \E b : Advances(t, b)
    <3>1. PICK b : Advances(t, b)
      BY <2>4
    <3>2. /\ op'[t] = op[t] /\ (\A x : At(t, x)' <=> x = b) /\ Onward(op[t], a, b)
          /\ b = "wait" => NotExecuted /\ StartSeen
      BY <3>1 DEF Advances, Arrives
    <3>3. op[t] = "pp" /\ b \in {"clear", "ack", "delta", "clears", "wait"}
      BY <1>3, <2>4, <3>2 DEF Pulsed
    <3>4. CASE a = "set"
      <4>1. Executes(t, a)
        BY <3>1, <3>4 DEF Advances, Continues, Needed
      <4>2. ~drive.bit4 /\ drive.mode = 1 /\ drive.target = goal[t]
        BY <2>1, <2>2, <3>3, <3>4 DEF EdgeIsReady, BeforePulse, SetUp, InPosition, Aimed
      <4>3. drive'.fault <=> drive.fault
        BY <1>3, <3>4, StepEffect
      <4>4. CASE Starts(a)
        <5>1. drive'.motion = "pp" /\ ~drive'.reached /\ drive'.goal = Clamp(goal[t])
          BY <1>3, <4>1, <4>2, <4>4, StepEffect
        <5>2. Clamp(goal[t]) = goal[t]
          <6>1. drive.target \in 0..MaxPos
            BY DEF TypeInv, DriveType
          <6> QED BY <4>2, <6>1 DEF Clamp
        <5>3. mover' = t
          BY <4>1, <4>4 DEF Executes
        <5>4. ~At(t, "wait")'
          BY <3>2, <3>4 DEF Onward, Follows
        <5> QED BY <2>2, <2>4, <5>1, <5>2, <5>3, <5>4 DEF Going
      <4>5. CASE ~Starts(a)
        BY <3>4, <4>2, <4>3, <4>5 DEF Starts
      <4> QED BY <4>4, <4>5
    <3>5. CASE a # "set"
      <4>1. a \in {"clear", "ack", "delta", "clears"}
        BY <3>2, <3>3, <3>5 DEF Onward, Follows
      <4>2. Pulsed(t) /\ Drift
        BY <1>3, <2>2, <3>3, <4>1, StepEffect DEF Pulsed, Driving
      <4>3. CASE b # "wait"
        BY <1>2, <2>1, <2>2, <2>4, <3>2, <4>2, <4>3
      <4>4. CASE b = "wait" /\ Going(t)
        <5>1. drive.mode = 1 /\ drive.target = goal[t] /\ ~drive.reached
          BY <2>1, <2>2, <3>3, <4>1, <4>4 DEF SetUp, InPosition, Aimed, Going
        <5>2. (Bit10 => stale) /\ ~Bit12
          BY <5>1, Bits
        <5>3. drive' = drive /\ stale' = stale
          BY <3>2, <4>4 DEF NotExecuted, startVars
        <5>4. ~stale \/ Near(t)
          <6>1. ~Bit10 => ~stale
            BY DEF Bit10
          <6>2. Bit12 \/ ~Bit10 \/ drive.pos - goal[t] \in -Window..Window
            BY <3>2, <4>4, <5>1 DEF StartSeen
          <6> QED BY <5>2, <6>1, <6>2 DEF Near
        <5> QED BY <1>2, <2>1, <2>2, <2>4, <4>2, <5>4
      <4>5. CASE b = "wait" /\ ~Going(t)
        <5>1. drive.fault \/ t \in cut \/ Arrived(t)
          BY <2>1, <4>2, <4>5 DEF MoveInv
        <5>2. drive'.fault \/ t \in cut' \/ Arrived(t)'
          BY <2>2, <4>2, <5>1 DEF Drift, Arrived
        <5> QED BY <2>4, <5>2
      <4> QED BY <4>3, <4>4, <4>5
    <3> QED BY <3>4, <3>5
  <2>5. CASE u = t /\ (Arrives(t, "pp", "modePP") \/ Leaves(t))
    BY <1>3, <2>5 DEF Arrives, Leaves, Pulsed
  <2> QED BY <2>2, <2>3, <2>4, <2>5
<1>4. ASSUME NEW t \in Callers, NEW o, NEW b, Begins(t, o, b), ~overlapped',
             NEW u \in Callers, Pulsed(u)'
      PROVE  Moves(u)'
  <2>1. /\ ~overlapped /\ drive' = drive /\ stale' = stale /\ cut' = cut \ {t}
        /\ Arrives(t, o, b) /\ o # "pp" /\ OthersStay(t)
        /\ \A v \in Callers : v # t => goal'[v] = goal[v]
        /\ mover # t => mover' = mover
    BY <1>4, BeginsOps, CallPlaces DEF Begins
  <2>2. u # t
    BY <1>4, <2>1 DEF Arrives, Pulsed
  <2>3. Pulsed(u) /\ (At(u, "wait")' <=> At(u, "wait")) /\ goal'[u] = goal[u]
    BY <1>4, <2>1, <2>2 DEF Pulsed, OthersStay
  <2>4. Moves(u)
    BY <2>1, <2>3 DEF MoveInv
  <2>5. CASE drive.fault \/ u \in cut \/ Arrived(u)
    BY <2>1, <2>2, <2>3, <2>5 DEF Arrived
  <2>6. CASE Going(u) /\ (At(u, "wait") => ~stale \/ Near(u))
    <3>1. Going(u)' /\ (Near(u)' <=> Near(u))
      BY <2>1, <2>2, <2>3, <2>6 DEF Going, Near
    <3> QED BY <2>1, <2>3, <2>6, <3>1
  <2> QED BY <2>4, <2>5, <2>6
<1>5. ASSUME Background, ~overlapped', NEW u \in Callers, Pulsed(u)' PROVE Moves(u)'
  <2>1. ~overlapped /\ Drift /\ goal' = goal /\ Pulsed(u) /\ (At(u, "wait")' => At(u, "wait"))
    BY <1>5 DEF Background, callVars, Pulsed, At
  <2> QED BY <1>2, <2>1
<1> QED BY <1>3, <1>4, <1>5, Steps DEF MoveInv

\* home() starts the homing with its own start bit, or is recorded, and the homing
\* goes on until it has homed.
LEMMA HomeStep ==
  ASSUME TypeInv, Alone, SetUp, HomeInv, [Next]_vars
  PROVE  HomeInv'
<1> DEFINE Done(u) == u \in homedIn \cup unpulsed \cup cut \/ Homing(u)
<1>1. ASSUME ~overlapped, Drift, NEW u \in Callers, Homes(u) PROVE Done(u)'
  <2>1. Done(u) /\ drive.mode = 6 /\ op[u] = "home"
    BY <1>1 DEF HomeInv, SetUp, Homes, InHoming
  <2> QED BY <1>1, <2>1, HomingKept
<1>2. ASSUME NEW t \in Callers, Step(t), ~overlapped', NEW u \in Callers, Homes(u)'
      PROVE  Done(u)'
  <2> DEFINE a == Head(todo[t])
  <2>1. ~overlapped
    BY <1>2, StepOps
  <2>2. /\ OthersStay(t) /\ (\A x : At(t, x) <=> x = a)
        /\ \/ \E b : Advances(t, b)
           \/ Enters(t) /\ Arrives(t, "pp", "modePP") /\ a = "look"
           \/ Finishes(t) /\ Leaves(t)
    BY <1>2, StepPlaces
  <2>3. CASE u # t
    <3>1. Homes(u) /\ op[u] \in Moving
      BY <1>2, <2>2, <2>3 DEF Homes, OthersStay, Moving
    <3>2. Drift
      BY <1>2, <2>1, <2>3, <3>1, Bystander
    <3> QED BY <1>1, <2>1, <3>1, <3>2
  <2>4. CASE u = t /\ \E b : Advances(t, b)
    <3>1. PICK b : Advances(t, b)
      BY <2>4
    <3>2. op'[t] = op[t] /\ (\A x : At(t, x)' <=> x = b) /\ Onward(op[t], a, b)
      BY <3>1 DEF Advances, Arrives
    <3>3. op[t] = "home" /\ a \in {"set", "clear"}
      BY <1>2, <2>4, <3>2 DEF Homes, Onward, Follows
    <3>4. CASE a = "set"
      <4>1. Executes(t, a) /\ drive.mode = 6
        BY <2>1, <2>2, <3>1, <3>3, <3>4 DEF Advances, Continues, Needed, SetUp, InHoming
      <4>2. CASE Starts(a)
        <5>1. drive'.motion = "homing" /\ ~drive'.reached /\ ~drive'.homed /\ mover' = t
          BY <1>2, <4>1, <4>2, StepEffect DEF Executes
        <5> QED BY <2>4, <5>1 DEF Homing
      <4>3. CASE ~Starts(a)
        BY <2>4, <3>3, <3>4, <4>1, <4>3 DEF Executes
      <4> QED BY <4>2, <4>3
    <3>5. CASE a = "clear"
      <4>1. Homes(t) /\ Drift
        BY <1>2, <2>2, <3>3, <3>5, StepEffect DEF Homes, Driving
      <4> QED BY <1>1, <2>1, <2>4, <4>1
    <3> QED BY <3>3, <3>4, <3>5
  <2>5. CASE u = t /\ (Arrives(t, "pp", "modePP") \/ Leaves(t))
    BY <1>2, <2>5 DEF Arrives, Leaves, Homes
  <2> QED BY <2>2, <2>3, <2>4, <2>5
<1>3. ASSUME NEW t \in Callers, NEW o, NEW b, Begins(t, o, b), ~overlapped',
             NEW u \in Callers, Homes(u)'
      PROVE  Done(u)'
  <2>1. /\ ~overlapped /\ drive' = drive /\ b \in {"prepare", "ready", "halt", "fault"}
        /\ cut' = cut \ {t} /\ homedIn' = homedIn \ {t} /\ unpulsed' = unpulsed \ {t}
        /\ Arrives(t, o, b) /\ OthersStay(t) /\ (mover # t => mover' = mover)
    BY <1>3, BeginsOps, CallPlaces DEF Begins
  <2>2. u # t
    BY <1>3, <2>1 DEF Arrives, Homes
  <2>3. Homes(u)
    BY <1>3, <2>1, <2>2 DEF Homes, OthersStay
  <2>4. Done(u)
    BY <2>1, <2>3 DEF HomeInv
  <2> QED BY <2>1, <2>2, <2>4 DEF Homing
<1>4. ASSUME Background, ~overlapped', NEW u \in Callers, Homes(u)' PROVE Done(u)'
  <2>1. ~overlapped /\ Drift /\ Homes(u)
    BY <1>4 DEF Background, callVars, Homes, At
  <2> QED BY <1>1, <2>1
<1> QED BY <1>2, <1>3, <1>4, Steps DEF HomeInv

-----------------------------------------------------------------------------
(* The theorems. *)

\* The invariant holds initially ...
LEMMA InitMoves == Init => MovesInv
<1> SUFFICES ASSUME Init PROVE MovesInv
  OBVIOUS
<1>1. DriveType
  BY DEF Init, DriveType, FreshDrive, DriveRecord, DriveStates, Modes
<1>2. CallerType
  BY DEF Init, CallerType, Results
<1>3. ScriptInv
  BY DEF Init, ScriptInv
<1>4. OtherType
  <2>1. calls \in 0..MaxCalls /\ faults \in 0..MaxFaults /\ upsets \in 0..MaxUpsets
    BY DEF Init
  <2> QED BY <2>1 DEF Init, OtherType
<1>5. \A t \in Callers : op[t] = "idle" /\ ~Checked(t) /\ ~BeforePulse(t) /\ ~InPosition(t)
                         /\ ~Aimed(t) /\ ~InHoming(t) /\ ~Pulsed(t) /\ ~Homes(t)
  BY DEF Init, Checked, BeforePulse, InPosition, Aimed, InHoming, Pulsed, Homes
<1>6. AimInv /\ Alone /\ EdgeIsReady /\ SetUp /\ MoveInv /\ HomeInv
  BY <1>5 DEF AimInv, Alone, EdgeIsReady, SetUp, MoveInv, HomeInv, Moving
<1> QED BY <1>1, <1>2, <1>3, <1>4, <1>6 DEF MovesInv, TypeInv

\* ... and every step preserves it.
LEMMA MovesStep == MovesInv /\ [Next]_vars => MovesInv'
<1> SUFFICES ASSUME MovesInv, [Next]_vars PROVE MovesInv'
  OBVIOUS
<1> USE DEF MovesInv
<1>1. TypeInv'
  BY CallerTypeStep, DriveTypeStep, OtherTypeStep, AimStep DEF TypeInv
<1>2. Alone' /\ EdgeIsReady' /\ SetUp' /\ MoveInv' /\ HomeInv'
  BY AloneStep, EdgeStep, SetUpStep, MoveStep, HomeStep
<1> QED BY <1>1, <1>2

\* So it always holds.
LEMMA Invariance == Spec => []MovesInv
BY InitMoves, MovesStep, PTL DEF Spec

\* Every variable keeps its type, a caller has accesses left just while it is in an
\* operation, and no target outside the limits reaches the drive, for any callers,
\* targets and limits (motion_commands.py, _validate_position_limits()).
THEOREM TypeCorrect == Spec => []TypeOK
<1>1. MovesInv => TypeOK
  <2> SUFFICES ASSUME MovesInv PROVE TypeOK
    OBVIOUS
  <2>1. \A t \in Callers : todo[t] = <<>> <=> op[t] = "idle"
    BY DEF MovesInv, TypeInv, ScriptInv, ScriptOf
  <2> QED BY <2>1 DEF MovesInv, TypeInv, DriveType, CallerType, OtherType, Results, TypeOK
<1> QED BY <1>1, Invariance, PTL

\* How a step of a caller sets its result: success is reported in two places only.
LEMMA ResultStep ==
  ASSUME TypeInv, NEW t \in Callers, Step(t)
  PROVE  \/ result' = result
         \/ \E how : /\ result' = [result EXCEPT ![t] = how]
                     /\ how = "reached" => ReachedSeen(t)
                     /\ how = "attained" => HomingDone(t)
<1>1. ASSUME NEW how, Ends(t, how), how \notin {"reached", "attained"}
      PROVE  \E h : /\ result' = [result EXCEPT ![t] = h]
                    /\ h = "reached" => ReachedSeen(t)
                    /\ h = "attained" => HomingDone(t)
  BY <1>1 DEF Ends
<1>2. ASSUME NEW s, GoOn(t, s) PROVE result' = result
  BY <1>2 DEF GoOn
<1>3. CASE Access(t) \/ Prepare(t) \/ ModeRead(t) \/ Settles(t) \/ SettlesNever(t)
           \/ TargetRefused(t) \/ EntersPp(t)
  BY <1>1, <1>2, <1>3 DEF Access, Prepare, ModeRead, Settles, SettlesNever, TargetRefused, EntersPp
<1>4. CASE ModeVerified(t) \/ Acknowledged(t) \/ NotAcknowledged(t) \/ DeltaRead(t)
           \/ ClearSeen(t) \/ AbortSeen(t) \/ WaitFails(t)
  BY <1>1, <1>2, <1>4 DEF ModeVerified, Acknowledged, NotAcknowledged, DeltaRead, ClearSeen,
                          AbortSeen, WaitFails, Waits
<1>5. CASE ReachedSeen(t)
  <2>1. result' = [result EXCEPT ![t] = "reached"]
    BY <1>5 DEF ReachedSeen, Ends
  <2>2. "reached" # "attained"
    OBVIOUS
  <2> QED BY <1>5, <2>1, <2>2, Zenon
<1>6. CASE HomeReady(t) \/ HomeReadyNow(t) \/ HomingStarted(t)
  BY <1>1, <1>2, <1>6 DEF HomeReady, HomeReadyNow, HomingStarted, Waits
<1>7. CASE HomingDone(t)
  BY <1>7 DEF HomingDone, Ends
<1>8. CASE HaltDone(t) \/ StopLooks(t) \/ LastWrite(t) \/ FaultRead(t)
  BY <1>1, <1>2, <1>8 DEF HaltDone, StopLooks, LastWrite, FaultRead
<1>9. CASE RaiseEnds(t) \/ RaiseGoesOn(t)
  BY <1>1, <1>2, <1>9 DEF RaiseEnds, RaiseGoesOn
<1> QED BY <1>3, <1>4, <1>5, <1>6, <1>7, <1>8, <1>9 DEF Step

\* Where a result becomes a success.
LEMMA Successes ==
  ASSUME TypeInv, [Next]_vars, NEW t \in Callers, result'[t] # result[t]
  PROVE  /\ result'[t] = "reached" => ReachedSeen(t)
         /\ result'[t] = "attained" => HomingDone(t)
<1>1. ASSUME NEW u \in Callers, Step(u)
      PROVE  /\ result'[t] = "reached" => ReachedSeen(t)
             /\ result'[t] = "attained" => HomingDone(t)
  <2>1. PICK how : /\ result' = [result EXCEPT ![u] = how]
                   /\ how = "reached" => ReachedSeen(u)
                   /\ how = "attained" => HomingDone(u)
    BY <1>1, ResultStep
  <2>2. t = u /\ result'[t] = how
    BY <2>1 DEF TypeInv, CallerType
  <2> QED BY <2>1, <2>2
<1>2. ASSUME NEW u \in Callers, NEW o, NEW b, Begins(u, o, b)
      PROVE  result'[t] \notin {"reached", "attained"}
  <2>1. result' = [result EXCEPT ![u] = "none"]
    BY <1>2 DEF Begins
  <2> QED BY <2>1 DEF TypeInv, CallerType
<1>3. ~Background
  BY DEF Background, callVars
<1> QED BY <1>1, <1>2, <1>3, Steps

\* A move that has seen "target reached" is within the window of its own target,
\* although nothing looks at the position: a stale bit 10 is waited out before the
\* last wait, or the move began there - unless the motion was cut short, the drive is
\* in fault, or commands overlapped (profile_position.py:272, 303-313).
THEOREM SuccessIsThere == Spec => ReachedIsThere
<1> DEFINE Fact == \A t \in Callers :
                     result[t] # "reached" /\ result'[t] = "reached"
                       => \/ drive.pos - goal[t] \in -Window..Window
                          \/ t \in cut \/ drive.fault \/ overlapped
<1>1. MovesInv /\ [Next]_vars => [Fact]_vars
  <2> SUFFICES ASSUME MovesInv, [Next]_vars, NEW t \in Callers,
                      result[t] # "reached", result'[t] = "reached",
                      t \notin cut, ~drive.fault, ~overlapped
               PROVE  drive.pos - goal[t] \in -Window..Window
    OBVIOUS
  <2> USE DEF MovesInv
  <2>1. At(t, "wait") /\ Bit10
    BY Successes DEF ReachedSeen
  <2>2. op[t] = "pp"
    <3>1. todo[t] # <<>> /\ Head(todo[t]) = "wait"
      BY <2>1 DEF At
    <3>2. MayBeLast(op[t], "wait") \/ \E b : Follows(op[t], "wait", b)
      BY <3>1, FirstAccess DEF TypeInv
    <3> QED BY <3>2, Belongs
  <2>3. Pulsed(t)
    BY <2>1, <2>2 DEF Pulsed
  <2>4. Arrived(t) \/ (Going(t) /\ (~stale \/ Near(t)))
    BY <2>1, <2>3 DEF MoveInv
  <2>5. CASE Arrived(t)
    <3>1. drive.pos = goal[t] /\ drive.pos \in Int
      BY <2>5 DEF Arrived, TypeInv, DriveType, DriveRecord
    <3> QED BY <3>1
  <2>6. CASE Going(t) /\ ~stale
    <3>1. ~Bit10
      BY <2>6, Bits DEF Going
    <3> QED BY <2>1, <3>1
  <2>7. CASE Near(t)
    BY <2>7 DEF Near
  <2> QED BY <2>4, <2>5, <2>6, <2>7
<1> QED BY <1>1, Invariance, PTL DEF Spec, ReachedIsThere

\* home() reports success only for an axis that has homed during the call, although
\* bit 10 is accepted for bit 12 - unless bit 10 was stale, the start bit met a drive
\* that could not take it, the homing was cut short, or commands overlapped
\* (homing.py:153).
THEOREM SuccessIsHomed == Spec => AttainedIsHomed
<1> DEFINE Fact == \A t \in Callers :
                     result[t] # "attained" /\ result'[t] = "attained"
                       => stale \/ t \in homedIn \cup unpulsed \cup cut \/ overlapped
<1>1. MovesInv /\ [Next]_vars => [Fact]_vars
  <2> SUFFICES ASSUME MovesInv, [Next]_vars, NEW t \in Callers,
                      result[t] # "attained", result'[t] = "attained", ~stale, ~overlapped
               PROVE  t \in homedIn \cup unpulsed \cup cut
    OBVIOUS
  <2> USE DEF MovesInv
  <2>1. At(t, "done") /\ (Bit12 \/ Bit10)
    BY Successes DEF HomingDone
  <2>2. op[t] = "home"
    <3>1. todo[t] # <<>> /\ Head(todo[t]) = "done"
      BY <2>1 DEF At
    <3>2. MayBeLast(op[t], "done") \/ \E b : Follows(op[t], "done", b)
      BY <3>1, FirstAccess DEF TypeInv
    <3> QED BY <3>2, Belongs
  <2>3. InHoming(t) /\ Homes(t)
    BY <2>1, <2>2 DEF InHoming, Homes
  <2>4. drive.mode = 6 /\ (t \in homedIn \cup unpulsed \cup cut \/ Homing(t))
    BY <2>3 DEF SetUp, HomeInv
  <2>5. ASSUME Homing(t) PROVE FALSE
    <3>1. ~drive.reached /\ ~drive.homed
      BY <2>5 DEF Homing
    <3>2. ~Bit10 /\ ~Bit12
      BY <2>4, <3>1, Bits
    <3> QED BY <2>1, <3>2
  <2> QED BY <2>4, <2>5
<1> QED BY <1>1, Invariance, PTL DEF Spec, AttainedIsHomed
=============================================================================
