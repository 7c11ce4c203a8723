---------------------------- MODULE CiA402Proofs ----------------------------
(***************************************************************************)
(* What enable, fault reset and stop promise, for any number of callers,   *)
(* raising accesses and upsets of the drive.                               *)
(***************************************************************************)
EXTENDS CiA402, SimulatedDriveProofs, SequenceTheorems

USE RunnerAssumption, DriveAssumption

-----------------------------------------------------------------------------
(* What an operation still owes. *)

Stops == {"stop", "quickStop"}

Acts == {"write", "wait", "look", "fault", "before", "recover", "raise", "status", "mode",
         "velocity", "turn", "halt"}
Bits == {"switchOn", "voltage", "quickStop", "enable", "reset", "halt", "new"}
Instructions ==
  [do : Acts, word : SUBSET Bits, states : SUBSET InferredStates, stage : Nat]
Of(kinds) == {i \in Instructions : i.do \in kinds}

RunnerKinds == {"write", "wait", "look", "fault", "raise"}
Kinds(o) ==
  IF o = "enable" THEN RunnerKinds
  ELSE IF o = "reset" THEN RunnerKinds \cup {"before", "recover"}
  ELSE IF o \in Stops THEN {"status", "mode", "write", "wait", "velocity"}
  ELSE {"write", "turn"}

Halt(n) == Do("halt", Halted(EnableWord), {}, n)
TwoAttempts == <<Halt(1), Halt(2), Ask("status"), Ask("mode")>>
OneAttempt == <<Halt(2), Ask("status"), Ask("mode")>>

\* A step after which the drive is enabled, or which is not the last one, or
\* which raises.
Pending(i) == i.do \in {"look", "raise"} \/ (i.do = "wait" /\ i.states = {"ENABLED"})

\* The drive is yet to be seen without fault, or to be sent a fault reset.
ResetDue(p) ==
  /\ Len(p) >= 2
  /\ \/ p[1].do = "fault"
     \/ p[1].do = "before" /\ p[2].do = "fault" /\ Len(p) >= 3
     \/ p[1].do = "write" /\ p[1].word = ResetWord

EnableDue(p) == p # <<>> /\ Pending(p[Len(p)])

RecoveryDue(p, w) ==
  \/ p = <<>> /\ ~w
  \/ p # <<>> /\ p[Len(p)].do = "recover"
  \/ Len(p) >= 2 /\ Pending(p[Len(p) - 1])

HaltDue(p, f) == f >= 2 \/ (f = 0 /\ p = TwoAttempts) \/ (f = 1 /\ p = OneAttempt)

\* Operation o with the steps p before it: what it promises has happened - it
\* has seen the drive enabled (e), without fault (c), at rest (r) - or is
\* still to come.  It has returned when p is empty.
Outstanding(o, p, w, e, c, r, f) ==
  /\ p \in Seq(Of(Kinds(o))) \/ (o \in Stops /\ p \in {TwoAttempts, OneAttempt})
  /\ o = "enable" => e \/ EnableDue(p)
  /\ o = "reset" => e \/ RecoveryDue(p, w)
  /\ o = "reset" => c \/ ResetDue(p)
  /\ o \in Stops => r \/ HaltDue(p, f)

Owes(t, o, p) ==
  Outstanding(o, p, was[t], sawEnabled[t], sawClear[t], sawRest[t], failed[t])

\* What is noted is up to date.
Noted(t) ==
  /\ op[t] \in {"enable", "reset"} /\ drive.state = "enabled" => sawEnabled[t]
  /\ op[t] = "reset" /\ ~drive.fault => sawClear[t]

Promise(t) ==
  /\ Noted(t)
  /\ op[t] = "idle" <=> prog[t] = <<>>
  /\ op[t] # "idle" => Owes(t, op[t], prog[t]) /\ result[t] = "none"
  /\ result[t] \in Operations => Owes(t, result[t], <<>>)
  /\ failed[t] <= faults

BaseInv ==
  /\ drive \in DriveRecord /\ remote \in BOOLEAN
  /\ op \in [Callers -> Operations \cup {"idle"}]
  /\ prog \in [Callers -> Seq(Instructions)]
  /\ was \in [Callers -> BOOLEAN]
  /\ result \in [Callers -> Operations \cup {"none", "raised"}]
  /\ calls \in 0..MaxCalls /\ faults \in 0..MaxFaults /\ upsets \in 0..MaxUpsets
  /\ sawEnabled \in [Callers -> BOOLEAN] /\ sawClear \in [Callers -> BOOLEAN]
  /\ sawRest \in [Callers -> BOOLEAN] /\ pulsed \in [Callers -> BOOLEAN]
  /\ failed \in [Callers -> Nat]

IInv == BaseInv /\ \A t \in Callers : Promise(t)

-----------------------------------------------------------------------------
(* Sequences. *)

\* What is left of a sequence without its head.
LEMMA TailOf ==
  ASSUME NEW S, NEW s \in Seq(S), s # <<>>
  PROVE  /\ Len(s) >= 1 /\ Head(s) = s[1] /\ Head(s) \in S
         /\ Tail(s) \in Seq(S) /\ Len(Tail(s)) = Len(s) - 1
         /\ \A i \in 1..(Len(s) - 1) : Tail(s)[i] = s[i + 1]
         /\ Tail(s) = <<>> <=> Len(s) = 1
<1>1. Len(s) \in Nat \ {0} /\ Head(s) = s[1]
  BY EmptySeq
<1>2. /\ Head(s) \in S /\ Tail(s) \in Seq(S) /\ Len(Tail(s)) = Len(s) - 1
      /\ \A i \in 1..Len(Tail(s)) : Tail(s)[i] = s[i + 1]
  BY HeadTailProperties
<1>3. Tail(s) = <<>> <=> Len(Tail(s)) = 0
  BY <1>2, EmptySeq
<1> QED BY <1>1, <1>2, <1>3

\* What two sequences make together.
LEMMA ConcatOf ==
  ASSUME NEW S, NEW p \in Seq(S), NEW q \in Seq(S)
  PROVE  /\ p \o q \in Seq(S) /\ Len(p \o q) = Len(p) + Len(q)
         /\ \A i \in 1..Len(p) : (p \o q)[i] = p[i]
         /\ \A i \in 1..Len(q) : (p \o q)[Len(p) + i] = q[i]
BY ConcatProperties

\* Every controlword of the facade is made of bits of the controlword.
LEMMA WordTypes ==
  /\ EnableWord \in SUBSET Bits /\ ShutdownWord \in SUBSET Bits
  /\ SwitchOnWord \in SUBSET Bits /\ QuickStopWord \in SUBSET Bits
  /\ ResetWord \in SUBSET Bits /\ DisableWord \in SUBSET Bits
  /\ Halted(EnableWord) \in SUBSET Bits /\ Halted(ShutdownWord) \in SUBSET Bits
  /\ EnableWord \cup {"new"} \in SUBSET Bits
BY DEF EnableWord, ShutdownWord, SwitchOnWord, QuickStopWord, ResetWord, DisableWord,
       Halted, Bits

\* The kinds of the steps that programs are made of.
LEMMA StepKinds ==
  /\ \A w \in SUBSET Bits : Write(w) \in Of({"write"}) /\ Write(w).word = w
  /\ \A s \in SUBSET InferredStates : Await(s) \in Of({"wait"}) /\ Await(s).states = s
  /\ \A n \in Nat : Look(n) \in Of({"look"}) /\ Look(n).stage = n
  /\ CheckFault \in Of({"fault"})
  /\ \A k \in Acts : Ask(k) \in Of({k})
  /\ \A n \in Nat : Halt(n) \in Of({"halt"}) /\ Halt(n).stage = n
                    /\ Halt(n).word = Halted(EnableWord)
<1>1. ASSUME NEW w \in SUBSET Bits PROVE Write(w) \in Of({"write"}) /\ Write(w).word = w
  BY DEF Write, Do, Of, Instructions, Acts
<1>2. ASSUME NEW s \in SUBSET InferredStates PROVE Await(s) \in Of({"wait"}) /\ Await(s).states = s
  BY DEF Await, Do, Of, Instructions, Acts
<1>3. ASSUME NEW n \in Nat PROVE Look(n) \in Of({"look"}) /\ Look(n).stage = n
  BY DEF Look, Do, Of, Instructions, Acts
<1>4. CheckFault \in Of({"fault"})
  BY DEF CheckFault, Do, Of, Instructions, Acts
<1>5. ASSUME NEW k \in Acts PROVE Ask(k) \in Of({k})
  BY DEF Ask, Do, Of, Instructions, Acts
<1>6. ASSUME NEW n \in Nat
      PROVE  /\ Halt(n) \in Of({"halt"}) /\ Halt(n).stage = n
             /\ Halt(n).word = Halted(EnableWord)
  <2> DEFINE w == Halted(EnableWord)
  <2>1. w \in SUBSET Bits
    BY WordTypes
  <2>2. Halt(n) = Do("halt", w, {}, n)
    BY DEF Halt
  <2> HIDE DEF w
  <2>3. Do("halt", w, {}, n) \in Of({"halt"})
    BY <2>1 DEF Do, Of, Instructions, Acts
  <2>4. Do("halt", w, {}, n).stage = n /\ Do("halt", w, {}, n).word = w
    BY DEF Do
  <2> QED BY <2>2, <2>3, <2>4 DEF w
<1> QED BY <1>1, <1>2, <1>3, <1>4, <1>5, <1>6

\* Programs grow by steps of their kinds only.
LEMMA Pair ==
  ASSUME NEW S, NEW a \in S, NEW b \in S
  PROVE  /\ <<a, b>> \in Seq(S) /\ Len(<<a, b>>) = 2 /\ <<a, b>>[1] = a /\ <<a, b>>[2] = b
         /\ <<a, b>> # <<>> /\ <<a>> \in Seq(S) /\ Len(<<a>>) = 1 /\ <<a>>[1] = a
         /\ <<a>> # <<>>
OBVIOUS

\* A program that is followed by another ends like the other.
LEMMA Joined ==
  ASSUME NEW S, NEW p \in Seq(S), NEW q \in Seq(S), q # <<>>
  PROVE  /\ p \o q \in Seq(S) /\ p \o q # <<>>
         /\ (p \o q)[Len(p \o q)] = q[Len(q)]
         /\ p # <<>> => (p \o q)[1] = p[1]
<1>1. Len(p) \in Nat /\ Len(q) \in Nat \ {0}
  BY EmptySeq, LenProperties
<1>2. /\ p \o q \in Seq(S) /\ Len(p \o q) = Len(p) + Len(q)
      /\ (p \o q)[Len(p) + Len(q)] = q[Len(q)]
  BY <1>1, ConcatOf
<1>3. p \o q # <<>>
  BY <1>1, <1>2, EmptySeq
<1>4. p # <<>> => (p \o q)[1] = p[1]
  BY <1>1, ConcatOf, EmptySeq
<1> QED BY <1>1, <1>2, <1>3, <1>4

\* Wherever run_to_operation_enabled() goes on from, it ends with a wait for
\* Operation Enabled, another look, an error - or has seen that state.
LEMMA OnwardEnds ==
  ASSUME NEW stage \in Nat, NEW st
  PROVE  /\ Onward(stage, st) \in Seq(Of(RunnerKinds)) /\ Onward(stage, st) # <<>>
         /\ st # "ENABLED" => Pending(Onward(stage, st)[Len(Onward(stage, st))])
<1> DEFINE R == Of(RunnerKinds)
           Good(p) == p \in Seq(R) /\ p # <<>> /\ Pending(p[Len(p)])
<1>1. /\ \A w \in SUBSET Bits : Write(w) \in R
      /\ \A s \in SUBSET InferredStates : Await(s) \in R
      /\ \A n \in Nat : Look(n) \in R /\ Pending(Look(n))
      /\ CheckFault \in R /\ Ask("raise") \in R /\ Pending(Ask("raise"))
      /\ Pending(Await({"ENABLED"}))
  BY StepKinds DEF Of, RunnerKinds, Pending, InferredStates, Acts
<1> HIDE DEF R
<1>2. /\ Shutdown \in Seq(R) /\ SwitchOn \in Seq(R) /\ SwitchOn # <<>>
      /\ Good(EnableOperation)
  BY <1>1, WordTypes, Pair DEF Shutdown, SwitchOn, EnableOperation, InferredStates
<1>3. Good(<<CheckFault, Look(2)>>) /\ Good(<<Look(3)>>) /\ Good(<<Look(5)>>)
      /\ Good(<<Await({"DISABLED", "READY"}), Look(4)>>) /\ Good(<<Ask("raise")>>)
  BY <1>1, Pair DEF InferredStates
<1>4. <<Write(EnableWord)>> \in Seq(R) /\ <<Write(EnableWord)>> # <<>>
  BY <1>1, WordTypes, Pair
<1>5. \A p \in Seq(R), q \in Seq(R) : Good(q) => Good(p \o q)
  BY Joined
<1>6. Good(Shutdown \o <<Look(3)>>) /\ Good(SwitchOn \o <<Look(5)>>)
  BY <1>2, <1>3, <1>5
<1>7. Shutdown \o SwitchOn \in Seq(R)
  BY <1>2, Joined
<1>8. Good(Shutdown \o SwitchOn \o EnableOperation)
  BY <1>2, <1>5, <1>7
<1> HIDE DEF Good
<1>9. CASE st = "ENABLED"
  <2>1. Onward(stage, st) = <<Write(EnableWord)>>
    BY <1>9 DEF Onward
  <2> QED BY <2>1, <1>4, <1>9 DEF R
<1>10. CASE st # "ENABLED"
  <2>1. Good(Onward(stage, st))
    BY <1>2, <1>3, <1>6, <1>8, <1>10 DEF Onward
  <2> QED BY <2>1 DEF Good, R
<1> QED BY <1>9, <1>10

-----------------------------------------------------------------------------
(* What the statusword tells. *)

\* Who reads Operation Enabled from the statusword has read the state of the drive
\* (od/statusword.py, infer_cia402_state).
LEMMA SeenEnabled ==
  ASSUME drive \in DriveRecord, Seen = "ENABLED"
  PROVE  drive.state = "enabled"
<1> DEFINE sw == Status(drive, remote)
<1>1. "enabled" \in sw
  BY DEF Seen, Infer
<1>2. drive.state \in DriveStates
  BY DEF DriveRecord
<1> QED BY <1>1, <1>2 DEF Status, DriveStates

\* A statusword without the fault bit is that of a drive without fault.
LEMMA SeenClear ==
  ASSUME drive \in DriveRecord, "fault" \notin Status(drive, remote)
  PROVE  ~drive.fault
BY DEF Status

-----------------------------------------------------------------------------
(* How a caller's promise survives a step. *)

Notes == SameDrive \/ \E d \in DriveRecord : Note(d)

\* What is noted is never forgotten, and always up to date.
LEMMA NotesKeep ==
  ASSUME BaseInv, Notes
  PROVE  /\ drive' \in DriveRecord
         /\ sawEnabled' \in [Callers -> BOOLEAN] /\ sawClear' \in [Callers -> BOOLEAN]
         /\ sawRest' \in [Callers -> BOOLEAN]
         /\ \A u \in Callers :
              /\ sawEnabled[u] => sawEnabled'[u]
              /\ sawClear[u] => sawClear'[u]
              /\ sawRest[u] => sawRest'[u]
              /\ Noted(u) /\ op[u] \in {"enable", "reset"} /\ drive'.state = "enabled"
                   => sawEnabled'[u]
              /\ Noted(u) /\ op[u] = "reset" /\ ~drive'.fault => sawClear'[u]
<1>1. CASE SameDrive
  BY <1>1 DEF SameDrive, BaseInv, Noted
<1>2. CASE \E d \in DriveRecord : Note(d)
  <2> PICK d \in DriveRecord : Note(d)
    BY <1>2
  <2>1. /\ drive' = d
        /\ \A u \in Callers :
             /\ sawEnabled'[u] = (sawEnabled[u] \/ (op[u] \in {"enable", "reset"} /\ d.state = "enabled"))
             /\ sawClear'[u] = (sawClear[u] \/ (op[u] = "reset" /\ ~d.fault))
             /\ sawRest'[u] = (sawRest[u] \/ (op[u] \in {"stop", "quickStop"} /\ Stands(d)))
    BY Zenon DEF Note
  <2>2. /\ sawEnabled' \in [Callers -> BOOLEAN] /\ sawClear' \in [Callers -> BOOLEAN]
        /\ sawRest' \in [Callers -> BOOLEAN]
    BY Zenon DEF Note, BaseInv
  <2> QED BY <2>1, <2>2
<1> QED BY <1>1, <1>2 DEF Notes

\* What is noted once more leaves nothing more outstanding.
LEMMA Monotone ==
  ASSUME NEW o, NEW p, NEW w, NEW e, NEW c, NEW r, NEW f, NEW e2, NEW c2, NEW r2,
         Outstanding(o, p, w, e, c, r, f), e => e2, c => c2, r => r2
  PROVE  Outstanding(o, p, w, e2, c2, r2, f)
BY DEF Outstanding

\* A step of somebody else.
LEMMA OtherKeeps ==
  ASSUME BaseInv, Notes, NEW u \in Callers, Promise(u),
         op'[u] = op[u], prog'[u] = prog[u], result'[u] = result[u], was'[u] = was[u],
         failed'[u] = failed[u], faults' \in Nat, faults <= faults'
  PROVE  Promise(u)'
<1>1. Noted(u)'
  BY NotesKeep DEF Noted, Promise
<1>2. \A o, p : Owes(u, o, p) => Owes(u, o, p)'
  BY NotesKeep, Monotone DEF Owes
<1>3. (failed[u] <= faults)'
  BY DEF BaseInv, Promise
<1> QED BY <1>1, <1>2, <1>3 DEF Promise

\* What a step of t leaves alone.
Frame(t) ==
  /\ Notes
  /\ remote' \in BOOLEAN /\ calls' = calls /\ upsets' = upsets
  /\ faults' \in 0..MaxFaults /\ faults <= faults'
  /\ pulsed' \in [Callers -> BOOLEAN]
  /\ was' \in [Callers -> BOOLEAN] /\ \A u \in Callers \ {t} : was'[u] = was[u]
  /\ failed' \in [Callers -> Nat] /\ \A u \in Callers \ {t} : failed'[u] = failed[u]
  /\ failed'[t] <= faults'

\* t's operation o with the steps p, as it stands after the step.
OwesNext(t, o, p) ==
  Outstanding(o, p, was'[t], sawEnabled'[t], sawClear'[t], sawRest'[t], failed'[t])

\* A step that ends its operation by an exception, or goes on with a program that still
\* owes what it should, keeps the invariant.
LEMMA GoOnKeeps ==
  ASSUME IInv, NEW t \in Callers, op[t] # "idle", Frame(t),
         \/ Ends(t, "raised")
         \/ \E p \in Seq(Instructions) : GoesOn(t, p) /\ OwesNext(t, op[t], p)
  PROVE  IInv'
<1>1. /\ op' \in [Callers -> Operations \cup {"idle"}]
      /\ prog' \in [Callers -> Seq(Instructions)]
      /\ result' \in [Callers -> Operations \cup {"none", "raised"}]
      /\ \A u \in Callers \ {t} : op'[u] = op[u] /\ prog'[u] = prog[u] /\ result'[u] = result[u]
      /\ \/ op'[t] = "idle" /\ prog'[t] = <<>> /\ result'[t] = "raised"
         \/ op'[t] = "idle" /\ prog'[t] = <<>> /\ result'[t] = op[t] /\ OwesNext(t, op[t], <<>>)
         \/ /\ op'[t] = op[t] /\ prog'[t] # <<>> /\ result'[t] = result[t]
            /\ OwesNext(t, op[t], prog'[t])
  <2>1. <<>> \in Seq(Instructions) /\ op[t] \in Operations
    BY EmptySeq DEF IInv, BaseInv
  <2>2. CASE Ends(t, "raised")
    BY <2>1, <2>2 DEF Ends, IInv, BaseInv
  <2>3. CASE \E p \in Seq(Instructions) : GoesOn(t, p) /\ OwesNext(t, op[t], p)
    <3> PICK p \in Seq(Instructions) : GoesOn(t, p) /\ OwesNext(t, op[t], p)
      BY <2>3
    <3>1. /\ op \in [Callers -> Operations \cup {"idle"}]
          /\ prog \in [Callers -> Seq(Instructions)]
          /\ result \in [Callers -> Operations \cup {"none", "raised"}]
      BY DEF IInv, BaseInv
    <3>2. CASE p = <<>>
      <4>1. Ends(t, op[t])
        BY <3>2 DEF GoesOn
      <4>2. OwesNext(t, op[t], <<>>)
        BY <3>2
      <4> QED BY <2>1, <3>1, <4>1, <4>2 DEF Ends
    <3>3. CASE p # <<>>
      <4>1. prog' = [prog EXCEPT ![t] = p] /\ op' = op /\ result' = result
        BY <3>3 DEF GoesOn
      <4>2. prog'[t] = p
        BY <3>1, <4>1
      <4>3. OwesNext(t, op[t], prog'[t])
        BY <4>2
      <4> QED BY <3>1, <3>3, <4>1, <4>2, <4>3
    <3> QED BY <3>2, <3>3
  <2> QED BY <2>2, <2>3
<1>2. BaseInv'
  BY <1>1, NotesKeep DEF Frame, IInv, BaseInv
<1>3. ASSUME NEW u \in Callers, u # t PROVE Promise(u)'
  BY <1>1, <1>3, OtherKeeps DEF Frame, IInv
<1>4. Promise(t)'
  <2>1. Noted(t)'
    BY <1>1, NotesKeep DEF Noted, Frame, IInv, Promise
  <2>2. result[t] = "none"
    BY DEF IInv, Promise
  <2>3. \A o, p : OwesNext(t, o, p) <=> Owes(t, o, p)'
    BY DEF OwesNext, Owes
  <2>4. op[t] \in Operations /\ {"none", "raised", "idle"} \cap Operations = {}
    BY DEF IInv, BaseInv
  <2> QED BY <1>1, <2>1, <2>2, <2>3, <2>4 DEF Promise, Frame
<1> QED BY <1>2, <1>3, <1>4 DEF IInv

-----------------------------------------------------------------------------
(* How a program goes on. *)

\* A halt is the head of the two programs of a stop only.
LEMMA HeadKind ==
  ASSUME IInv, NEW t \in Callers, prog[t] # <<>>
  PROVE  /\ op[t] # "idle" /\ op[t] \in Operations /\ Owes(t, op[t], prog[t])
         /\ prog[t] \in Seq(Instructions) /\ Len(prog[t]) >= 1 /\ Head(prog[t]) = prog[t][1]
         /\ Head(prog[t]).do = "halt"
              => op[t] \in Stops /\ prog[t] \in {TwoAttempts, OneAttempt}
         /\ Head(prog[t]).do # "halt"
              => /\ prog[t] \in Seq(Of(Kinds(op[t]))) /\ Head(prog[t]).do \in Kinds(op[t])
                 /\ Head(prog[t]).stage \in Nat
                 /\ prog[t] \notin {TwoAttempts, OneAttempt}
<1>1. /\ op[t] # "idle" /\ op[t] \in Operations /\ Owes(t, op[t], prog[t])
      /\ prog[t] \in Seq(Instructions)
  BY DEF IInv, BaseInv, Promise
<1>2. Len(prog[t]) >= 1 /\ Head(prog[t]) = prog[t][1]
  BY <1>1, TailOf
<1>3. \/ prog[t] \in Seq(Of(Kinds(op[t])))
      \/ op[t] \in Stops /\ prog[t] \in {TwoAttempts, OneAttempt}
  BY <1>1 DEF Owes, Outstanding
<1>4. prog[t] \in {TwoAttempts, OneAttempt} => Head(prog[t]).do = "halt"
  <2>1. Halt(1).do = "halt" /\ Halt(2).do = "halt"
    BY DEF Halt, Do
  <2>2. Head(TwoAttempts) = Halt(1) /\ Head(OneAttempt) = Halt(2)
    BY DEF TwoAttempts, OneAttempt
  <2> QED BY <2>1, <2>2
<1>5. prog[t] \in Seq(Of(Kinds(op[t]))) =>
        Head(prog[t]).do \in Kinds(op[t]) /\ Head(prog[t]).stage \in Nat
  BY TailOf DEF Of, Instructions
<1>6. "halt" \notin Kinds(op[t])
  BY DEF Kinds, RunnerKinds
<1> QED BY <1>1, <1>2, <1>3, <1>4, <1>5, <1>6

\* The head has been executed and has made good what only it could.
LEMMA RestOwes ==
  ASSUME IInv, NEW t \in Callers, prog[t] # <<>>, Notes,
         Head(prog[t]).do \notin {"halt", "recover"}, failed'[t] = failed[t],
         op[t] \in {"enable", "reset"} /\ Pending(Head(prog[t])) => sawEnabled'[t],
         op[t] = "reset" /\ (Head(prog[t]).do = "fault" \/
                               (Head(prog[t]).do = "write" /\ Head(prog[t]).word = ResetWord))
           => sawClear'[t]
  PROVE  Rest(t) \in Seq(Instructions) /\ OwesNext(t, op[t], Rest(t))
<1> DEFINE p == prog[t]
           q == Tail(p)
           h == Head(p)
           K == Of(Kinds(op[t]))
<1>1. /\ p \in Seq(K) /\ p # <<>> /\ Len(p) \in Nat /\ Len(p) >= 1 /\ h = p[1]
      /\ Owes(t, op[t], p) /\ p \notin {TwoAttempts, OneAttempt}
  BY HeadKind, LenProperties
<1>2. /\ q \in Seq(K) /\ Len(q) = Len(p) - 1
      /\ \A i \in 1..(Len(p) - 1) : q[i] = p[i + 1]
      /\ q = <<>> <=> Len(p) = 1
  <2> HIDE DEF p, K
  <2> QED BY <1>1, TailOf
<1>3. q \in Seq(Instructions)
  BY HeadKind, TailOf
<1>4. /\ sawEnabled[t] => sawEnabled'[t]
      /\ sawClear[t] => sawClear'[t]
      /\ sawRest[t] => sawRest'[t]
  BY NotesKeep DEF IInv
<1>9. op[t] = "reset" /\ (h.do = "fault" \/ (h.do = "write" /\ h.word = ResetWord))
        => sawClear'[t]
  OBVIOUS
<1> HIDE DEF p, q, h, K
<1>5. op[t] = "enable" => sawEnabled'[t] \/ EnableDue(q)
  <2> SUFFICES ASSUME op[t] = "enable", ~sawEnabled'[t] PROVE EnableDue(q)
    OBVIOUS
  <2>1. Pending(p[Len(p)]) /\ ~Pending(h)
    BY <1>1, <1>4 DEF Owes, Outstanding, EnableDue, p, h
  <2>2. Len(p) >= 2
    BY <1>1, <2>1
  <2>3. q[Len(q)] = p[Len(p)]
    BY <1>1, <1>2, <2>2
  <2> QED BY <1>2, <2>1, <2>2, <2>3 DEF EnableDue
<1>6. op[t] = "reset" => sawEnabled'[t] \/ RecoveryDue(q, was'[t])
  <2> SUFFICES ASSUME op[t] = "reset", ~sawEnabled'[t] PROVE RecoveryDue(q, was'[t])
    OBVIOUS
  <2>1. RecoveryDue(p, was[t]) /\ ~Pending(h) /\ h.do # "recover" /\ p # <<>>
    BY <1>4, <1>1 DEF Owes, Outstanding, p, h
  <2>2. CASE p[Len(p)].do = "recover"
    <3>1. Len(p) >= 2
      BY <1>1, <2>1, <2>2
    <3>2. q[Len(q)] = p[Len(p)]
      BY <1>1, <1>2, <3>1
    <3> QED BY <1>2, <2>2, <3>1, <3>2 DEF RecoveryDue
  <2>3. CASE Len(p) >= 2 /\ Pending(p[Len(p) - 1])
    <3>1. Len(p) >= 3
      BY <1>1, <2>1, <2>3
    <3>2. q[Len(q) - 1] = p[Len(p) - 1] /\ Len(q) >= 2
      BY <1>1, <1>2, <3>1
    <3> QED BY <2>3, <3>2 DEF RecoveryDue
  <2> QED BY <2>1, <2>2, <2>3 DEF RecoveryDue
<1>7. op[t] = "reset" => sawClear'[t] \/ ResetDue(q)
  <2> SUFFICES ASSUME op[t] = "reset", ~sawClear'[t] PROVE ResetDue(q)
    OBVIOUS
  <2>1. ResetDue(p)
    BY <1>4, <1>1 DEF Owes, Outstanding, p
  <2>2. p[1].do = "before" /\ p[2].do = "fault" /\ Len(p) >= 3
    BY <2>1, <1>1, <1>9 DEF ResetDue
  <2> QED BY <1>1, <1>2, <2>2 DEF ResetDue
<1>8. op[t] \in Stops => sawRest'[t] \/ HaltDue(q, failed'[t])
  BY <1>1, <1>4 DEF Owes, Outstanding, HaltDue, p
<1> QED BY <1>2, <1>3, <1>5, <1>6, <1>7, <1>8 DEF OwesNext, Outstanding, Rest, q, p, K

\* The head is replaced by steps that owe what it owed.
LEMMA PrefixOwes ==
  ASSUME IInv, NEW t \in Callers, prog[t] # <<>>, Notes, op[t] \in {"enable", "reset"},
         Head(prog[t]).do \notin {"halt", "recover"}, failed'[t] = failed[t],
         NEW s \in Seq(Of(RunnerKinds)), s # <<>>,
         Pending(Head(prog[t])) => Pending(s[Len(s)]) \/ sawEnabled'[t],
         op[t] = "reset" => sawClear'[t] \/ (ResetDue(prog[t]) => ResetDue(s \o Rest(t)))
  PROVE  s \o Rest(t) \in Seq(Instructions) /\ OwesNext(t, op[t], s \o Rest(t))
<1> DEFINE p == prog[t]
           q == Tail(p)
           h == Head(p)
           n == s \o q
           R == Of(Kinds(op[t]))
<1>0. /\ Len(p) = 1 \/ Len(p) >= 2
      /\ Len(p) >= 2 => Len(p) = 2 \/ Len(p) >= 3
  <2>1. Len(p) \in Nat /\ Len(p) >= 1
    BY HeadKind, LenProperties
  <2>2. \A k \in Nat : k >= 1 => (k = 1 \/ k >= 2) /\ (k >= 2 => k = 2 \/ k >= 3)
    OBVIOUS
  <2> HIDE DEF p
  <2> QED BY <2>1, <2>2
<1>1. /\ p \in Seq(R) /\ Len(p) \in Nat /\ Len(p) >= 1 /\ h = p[1]
      /\ Owes(t, op[t], p)
  BY HeadKind, LenProperties
<1>2. /\ q \in Seq(R) /\ Len(q) = Len(p) - 1
      /\ \A i \in 1..(Len(p) - 1) : q[i] = p[i + 1]
      /\ q = <<>> <=> Len(p) = 1
  BY <1>1, TailOf
<1>3. Len(s) \in Nat \ {0} /\ s \in Seq(R)
  <2>1. Of(RunnerKinds) \subseteq R
    BY DEF Of, Kinds
  <2> QED BY <2>1, EmptySeq
<1>4. /\ n \in Seq(R) /\ Len(n) = Len(s) + Len(q)
      /\ \A i \in 1..Len(s) : n[i] = s[i]
      /\ \A i \in 1..Len(q) : n[Len(s) + i] = q[i]
  BY <1>2, <1>3, ConcatOf
<1>5. n # <<>>
  BY <1>2, <1>3, <1>4, EmptySeq
<1>6. /\ sawEnabled[t] => sawEnabled'[t]
      /\ sawClear[t] => sawClear'[t]
  BY NotesKeep DEF IInv
<1>7. n \in Seq(Instructions)
  <2>1. R \subseteq Instructions
    BY DEF Of
  <2> HIDE DEF n, R
  <2> QED BY <1>4, <2>1
<1>8. op[t] = "reset" /\ ~sawEnabled'[t]
        => RecoveryDue(p, was[t]) /\ h.do # "recover" /\ p # <<>>
  BY <1>1, <1>6 DEF Owes, Outstanding, p, h
<1>9. EnableDue(p) \/ op[t] # "enable" \/ sawEnabled'[t]
  BY <1>1, <1>6 DEF Owes, Outstanding, p
<1>10. ResetDue(p) \/ op[t] # "reset" \/ sawClear'[t]
  BY <1>1, <1>6 DEF Owes, Outstanding, p
<1>11. Pending(h) => Pending(s[Len(s)]) \/ sawEnabled'[t]
  OBVIOUS
<1>12. op[t] = "reset" => sawClear'[t] \/ (ResetDue(p) => ResetDue(n))
  BY DEF Rest
<1> HIDE DEF p, q, h, n, R
<1>13. ASSUME Len(p) >= 2 PROVE n[Len(n)] = p[Len(p)]
  <2>1. /\ Len(q) \in 1..Len(q) /\ Len(q) \in 1..(Len(p) - 1) /\ Len(q) + 1 = Len(p)
        /\ Len(n) = Len(s) + Len(q)
    BY <1>1, <1>2, <1>4, <1>13
  <2>2. n[Len(n)] = q[Len(q)]
    BY <1>4, <2>1
  <2>3. q[Len(q)] = p[Len(p)]
    BY <1>2, <2>1
  <2> QED BY <2>2, <2>3
<1>14. ASSUME Len(p) = 1 PROVE n[Len(n)] = s[Len(s)]
  BY <1>1, <1>2, <1>3, <1>4, <1>14
<1>15. op[t] = "enable" => sawEnabled'[t] \/ EnableDue(n)
  <2> SUFFICES ASSUME op[t] = "enable", ~sawEnabled'[t] PROVE Pending(n[Len(n)])
    BY <1>5 DEF EnableDue
  <2>1. Pending(p[Len(p)])
    BY <1>9 DEF EnableDue
  <2>2. CASE Len(p) = 1
    BY <1>1, <1>11, <1>14, <2>1, <2>2
  <2>3. CASE Len(p) >= 2
    BY <1>13, <2>1, <2>3
  <2> QED BY <1>0, <2>2, <2>3
<1>16. op[t] = "reset" => sawEnabled'[t] \/ RecoveryDue(n, was'[t])
  <2> SUFFICES ASSUME op[t] = "reset", ~sawEnabled'[t] PROVE RecoveryDue(n, was'[t])
    OBVIOUS
  <2>1. CASE p[Len(p)].do = "recover"
    <3>1. Len(p) >= 2
      BY <1>1, <1>8, <2>1
    <3> QED BY <1>5, <1>13, <2>1, <3>1 DEF RecoveryDue
  <2>2. CASE Len(p) = 2 /\ Pending(p[Len(p) - 1])
    <3>1. Len(n) = Len(s) + 1 /\ n[Len(n) - 1] = s[Len(s)]
      BY <1>2, <1>3, <1>4, <2>2
    <3>2. Pending(s[Len(s)])
      BY <1>1, <1>11, <2>2
    <3> QED BY <1>3, <3>1, <3>2 DEF RecoveryDue
  <2>3. CASE Len(p) >= 3 /\ Pending(p[Len(p) - 1])
    <3>1. Len(q) - 1 \in 1..Len(q) /\ Len(q) - 1 \in 1..(Len(p) - 1)
          /\ Len(n) - 1 = Len(s) + (Len(q) - 1) /\ Len(n) >= 2
      BY <1>1, <1>2, <1>3, <1>4, <2>3
    <3>2. n[Len(n) - 1] = q[Len(q) - 1]
      BY <1>4, <3>1
    <3>3. q[Len(q) - 1] = p[Len(p) - 1]
      BY <1>1, <1>2, <3>1
    <3> QED BY <2>3, <3>1, <3>2, <3>3 DEF RecoveryDue
  <2>4. p[Len(p)].do = "recover" \/ (Len(p) >= 2 /\ Pending(p[Len(p) - 1]))
    BY <1>8 DEF RecoveryDue
  <2>5. Len(p) >= 2 => Len(p) = 2 \/ Len(p) >= 3
    BY <1>0
  <2> QED BY <2>1, <2>2, <2>3, <2>4, <2>5
<1>17. op[t] \notin Stops
  BY DEF Stops
<1>18. n \in Seq(Of(Kinds(op[t])))
  BY <1>1, <1>4 DEF R
<1> QED BY <1>7, <1>10, <1>12, <1>15, <1>16, <1>17, <1>18 DEF OwesNext, Outstanding, Rest, n, q, p

-----------------------------------------------------------------------------
(* The effect of an access. *)

\* The drive that an access leaves is a drive.
LEMMA AccessedType ==
  ASSUME IInv, NEW t \in Callers
  PROVE  Accessed(t) \in DriveRecord
<1>1. drive \in DriveRecord
  BY DEF IInv, BaseInv
<1>2. Apply(drive, Head(prog[t]).word) \in DriveRecord
  BY <1>1, ApplyType
<1>3. [drive EXCEPT !.tv = 1] \in DriveRecord /\ [drive EXCEPT !.tv = 0] \in DriveRecord
  BY <1>1 DEF DriveRecord
<1> QED BY <1>1, <1>2, <1>3, Zenon DEF Accessed

\* A fault reset clears the fault.
LEMMA ApplyReset == ASSUME NEW d \in DriveRecord PROVE ~Apply(d, ResetWord).fault
<1> DEFINE e == [d EXCEPT !.bit4 = "new" \in ResetWord,
                          !.ack = @ /\ ~(d.bit4 /\ "new" \notin ResetWord)]
<1>1. "reset" \in ResetWord
  BY DEF ResetWord
<1>2. Apply(d, ResetWord)
        = [AtRest(e) EXCEPT !.fault = FALSE, !.state = "disabled", !.reached = TRUE]
  BY <1>1, Zenon DEF Apply
<1>3. "fault" \in DOMAIN AtRest(e)
  BY DEF AtRest, DriveRecord
<1> HIDE DEF e
<1> QED BY <1>2, <1>3

\* A halt ends every motion.
LEMMA ApplyHalt == ASSUME NEW d \in DriveRecord PROVE Stands(Apply(d, Halted(EnableWord)))
<1> DEFINE cw == Halted(EnableWord)
           e == [d EXCEPT !.bit4 = "new" \in cw,
                          !.ack = @ /\ ~(d.bit4 /\ "new" \notin cw)]
<1>1. "reset" \notin cw /\ "halt" \in cw
  BY DEF Halted, EnableWord, SwitchOnWord
<1>2. AtRest(e).motion = "none" /\ [AtRest(e) EXCEPT !.reached = TRUE].motion = "none"
  BY DEF AtRest, DriveRecord
<1>3. Apply(d, cw) \in {AtRest(e), [AtRest(e) EXCEPT !.reached = TRUE]}
  <2> HIDE DEF cw
  <2>1. CASE e.emergency
    BY <1>1, <2>1, Zenon DEF Apply
  <2>2. CASE ~e.emergency
    BY <1>1, <2>2, Zenon DEF Apply
  <2> QED BY <2>1, <2>2
<1> QED BY <1>2, <1>3, Zenon DEF Stands

\* An executed access notes what it has done: a reset word the end of the fault, a HALT
\* the rest of the drive.
LEMMA ExecutedKeeps ==
  ASSUME IInv, NEW t \in Callers, Executed(t)
  PROVE  /\ Notes /\ pulsed' \in [Callers -> BOOLEAN]
         /\ op[t] = "reset" /\ At(t, "write") /\ Head(prog[t]).word = ResetWord => sawClear'[t]
         /\ op[t] \in Stops /\ At(t, "halt") /\ Head(prog[t]).word = Halted(EnableWord)
              => sawRest'[t]
<1>1. Accessed(t) \in DriveRecord /\ Note(Accessed(t))
  BY AccessedType DEF Executed
<1>2. pulsed' \in [Callers -> BOOLEAN]
  <2>1. pulsed \in [Callers -> BOOLEAN]
    BY DEF IInv, BaseInv
  <2> QED BY <2>1 DEF Executed
<1>3. /\ sawClear'[t] = (sawClear[t] \/ (op[t] = "reset" /\ ~Accessed(t).fault))
      /\ sawRest'[t] = (sawRest[t] \/ (op[t] \in {"stop", "quickStop"} /\ Stands(Accessed(t))))
  BY <1>1, Zenon DEF Note
<1>4. drive \in DriveRecord
  BY DEF IInv, BaseInv
<1>5. ASSUME op[t] = "reset", At(t, "write"), Head(prog[t]).word = ResetWord PROVE sawClear'[t]
  <2>1. Accessed(t) = Apply(drive, Head(prog[t]).word)
    <3>1. ~At(t, "turn") /\ ~At(t, "velocity")
      BY <1>5 DEF At
    <3> QED BY <1>5, <3>1, Zenon DEF Accessed
  <2> QED BY <1>3, <1>4, <1>5, <2>1, ApplyReset
<1>6. ASSUME op[t] \in Stops, At(t, "halt"), Head(prog[t]).word = Halted(EnableWord)
      PROVE  sawRest'[t]
  <2>1. Accessed(t) = Apply(drive, Head(prog[t]).word)
    <3>1. ~At(t, "turn") /\ ~At(t, "velocity")
      BY <1>6 DEF At
    <3> QED BY <1>6, <3>1, Zenon DEF Accessed
  <2> QED BY <1>3, <1>4, <1>6, <2>1, ApplyHalt DEF Stops
<1> QED BY <1>1, <1>2, <1>5, <1>6 DEF Notes

-----------------------------------------------------------------------------
(* Frames. *)

\* A step that only reads leaves the rest alone.
LEMMA SameFrame ==
  ASSUME IInv, NEW t \in Callers, SameDrive, UNCHANGED others,
         was' \in [Callers -> BOOLEAN], \A u \in Callers \ {t} : was'[u] = was[u]
  PROVE  Frame(t) /\ failed' = failed
<1>1. /\ remote \in BOOLEAN /\ faults \in 0..MaxFaults /\ pulsed \in [Callers -> BOOLEAN]
      /\ failed \in [Callers -> Nat] /\ failed[t] <= faults /\ faults <= faults
  BY DEF IInv, BaseInv, Promise
<1>2. remote' = remote /\ calls' = calls /\ upsets' = upsets /\ faults' = faults
      /\ pulsed' = pulsed /\ failed' = failed
  BY DEF others, environment
<1>3. Notes
  BY DEF Notes
<1> QED BY <1>1, <1>2, <1>3 DEF Frame

\* So does an access that is executed and answered.
LEMMA ExecutedFrame ==
  ASSUME IInv, NEW t \in Callers, Executed(t), UNCHANGED <<was, environment>>
  PROVE  Frame(t) /\ failed' = failed
<1>1. /\ remote \in BOOLEAN /\ faults \in 0..MaxFaults /\ was \in [Callers -> BOOLEAN]
      /\ failed \in [Callers -> Nat] /\ failed[t] <= faults /\ faults <= faults
  BY DEF IInv, BaseInv, Promise
<1>2. remote' = remote /\ calls' = calls /\ upsets' = upsets /\ faults' = faults
      /\ failed' = failed /\ was' = was
  BY DEF environment
<1>3. Notes /\ pulsed' \in [Callers -> BOOLEAN]
  BY ExecutedKeeps
<1> QED BY <1>1, <1>2, <1>3 DEF Frame

-----------------------------------------------------------------------------
(* The steps. *)

\* A stop past its halt owes nothing, or its two attempts have raised.
LEMMA StopOwes ==
  ASSUME IInv, NEW t \in Callers, prog[t] # <<>>, Notes, op[t] \in Stops,
         Head(prog[t]).do # "halt", failed'[t] = failed[t],
         NEW p \in Seq(Of(Kinds(op[t])))
  PROVE  p \in Seq(Instructions) /\ OwesNext(t, op[t], p)
<1>1. /\ Owes(t, op[t], prog[t]) /\ prog[t] \notin {TwoAttempts, OneAttempt}
  BY HeadKind
<1>2. sawRest[t] \/ failed[t] >= 2
  BY <1>1 DEF Owes, Outstanding, HaltDue
<1>3. sawRest[t] => sawRest'[t]
  BY NotesKeep DEF IInv
<1>4. op[t] \notin {"enable", "reset"}
  BY DEF Stops
<1>5. Of(Kinds(op[t])) \subseteq Instructions
  BY DEF Of
<1> QED BY <1>2, <1>3, <1>4, <1>5 DEF OwesNext, Outstanding, HaltDue

\* An exception ends the operation, which then owes nothing.
LEMMA RaisedKeeps ==
  ASSUME IInv, NEW t \in Callers, prog[t] # <<>>, Frame(t), Raised(t),
         Head(prog[t]).do # "halt", failed'[t] = failed[t]
  PROVE  IInv'
<1>1. op[t] # "idle"
  BY HeadKind
<1>2. CASE op[t] \in Stops
  <2>1. <<>> \in Seq(Of(Kinds(op[t])))
    OBVIOUS
  <2>2. <<>> \in Seq(Instructions) /\ OwesNext(t, op[t], <<>>)
    BY <1>2, <2>1, StopOwes DEF Frame
  <2>3. GoesOn(t, <<>>)
    BY <1>2 DEF Raised, GoesOn, Stops
  <2> QED BY <1>1, <2>2, <2>3, GoOnKeeps
<1>3. CASE op[t] \notin Stops
  <2>1. Ends(t, "raised")
    BY <1>3 DEF Raised, Stops
  <2> QED BY <1>1, <2>1, GoOnKeeps
<1> QED BY <1>2, <1>3

\* A controlword is written and answered.
LEMMA WriteKeeps ==
  ASSUME IInv, NEW t \in Callers, WriteControlword(t)
  PROVE  IInv'
<1>1. prog[t] # <<>> /\ Head(prog[t]).do = "write" /\ At(t, "write")
  BY DEF WriteControlword, At
<1>2. Frame(t) /\ failed' = failed
  BY ExecutedFrame DEF WriteControlword
<1>3. op[t] = "reset" /\ Head(prog[t]).word = ResetWord => sawClear'[t]
  BY <1>1, ExecutedKeeps DEF WriteControlword
<1>4. ~Pending(Head(prog[t]))
  BY <1>1 DEF Pending
<1>5. Rest(t) \in Seq(Instructions) /\ OwesNext(t, op[t], Rest(t))
  BY <1>1, <1>2, <1>3, <1>4, RestOwes DEF Frame
<1> QED BY <1>1, <1>2, <1>5, HeadKind, GoOnKeeps DEF WriteControlword

\* A motion is started in profile velocity.
LEMMA VelocityKeeps ==
  ASSUME IInv, NEW t \in Callers, SetVelocity(t)
  PROVE  IInv'
<1>1. prog[t] # <<>> /\ Head(prog[t]).do \in {"velocity", "turn"}
  BY DEF SetVelocity, At
<1>2. Frame(t) /\ failed' = failed
  BY ExecutedFrame DEF SetVelocity
<1>3. ~Pending(Head(prog[t]))
  BY <1>1 DEF Pending
<1>4. Rest(t) \in Seq(Instructions) /\ OwesNext(t, op[t], Rest(t))
  BY <1>1, <1>2, <1>3, RestOwes DEF Frame
<1> QED BY <1>1, <1>2, <1>4, HeadKind, GoOnKeeps DEF SetVelocity

\* The programs of a stop, as they shrink.
LEMMA Attempts ==
  /\ TwoAttempts \in Seq(Instructions) /\ OneAttempt \in Seq(Instructions)
  /\ <<Ask("status"), Ask("mode")>> \in Seq(Instructions)
  /\ \A o \in Stops : <<Ask("status"), Ask("mode")>> \in Seq(Of(Kinds(o)))
  /\ <<Ask("status"), Ask("mode")>> # <<>> /\ TwoAttempts # <<>> /\ OneAttempt # <<>>
  /\ Head(TwoAttempts) = Halt(1) /\ Head(OneAttempt) = Halt(2)
  /\ Tail(TwoAttempts) = OneAttempt
  /\ Tail(OneAttempt) = <<Ask("status"), Ask("mode")>>
<1>1. /\ Halt(1) \in Instructions /\ Halt(2) \in Instructions
      /\ Ask("status") \in Of({"status"}) /\ Ask("mode") \in Of({"mode"})
  BY StepKinds DEF Of, Acts
<1>2. \A o \in Stops : Ask("status") \in Of(Kinds(o)) /\ Ask("mode") \in Of(Kinds(o))
  BY <1>1 DEF Of, Kinds, Stops
<1>3. Ask("status") \in Instructions /\ Ask("mode") \in Instructions
  BY <1>1 DEF Of
<1>4. TwoAttempts \in Seq(Instructions) /\ OneAttempt \in Seq(Instructions)
      /\ <<Ask("status"), Ask("mode")>> \in Seq(Instructions)
  BY <1>1, <1>3 DEF TwoAttempts, OneAttempt
<1> QED BY <1>2, <1>4 DEF TwoAttempts, OneAttempt

\* An attempt to halt succeeds: the drive is at rest, and the decision by the mode follows.
LEMMA HaltKeeps ==
  ASSUME IInv, NEW t \in Callers, HaltMotor(t)
  PROVE  IInv'
<1> DEFINE after == <<Ask("status"), Ask("mode")>>
<1>1. prog[t] # <<>> /\ Head(prog[t]).do = "halt" /\ At(t, "halt")
  BY DEF HaltMotor, At
<1>2. op[t] # "idle" /\ op[t] \in Stops /\ prog[t] \in {TwoAttempts, OneAttempt}
  BY <1>1, HeadKind
<1>3. Frame(t) /\ failed' = failed
  BY ExecutedFrame DEF HaltMotor
<1>4. /\ Head(prog[t]).word = Halted(EnableWord)
      /\ Head(prog[t]).stage = IF prog[t] = TwoAttempts THEN 1 ELSE 2
  <2>1. Halt(1).stage = 1 /\ Halt(2).stage = 2
        /\ Halt(1).word = Halted(EnableWord) /\ Halt(2).word = Halted(EnableWord)
    BY StepKinds
  <2> QED BY <1>2, <2>1, Attempts
<1>5. sawRest'[t]
  BY <1>1, <1>2, <1>4, ExecutedKeeps DEF HaltMotor
<1>6. prog' = [prog EXCEPT ![t] = after] /\ UNCHANGED <<op, result>>
  <2>1. (IF Head(prog[t]).stage = 1 THEN Tail(Tail(prog[t])) ELSE Tail(prog[t])) = after
    <3>1. CASE prog[t] = TwoAttempts
      BY <1>4, <3>1, Attempts
    <3>2. CASE prog[t] = OneAttempt /\ prog[t] # TwoAttempts
      BY <1>4, <3>2, Attempts
    <3> QED BY <1>2, <3>1, <3>2
  <2> QED BY <2>1 DEF HaltMotor
<1>7. after \in Seq(Instructions) /\ after # <<>> /\ after \in Seq(Of(Kinds(op[t])))
  BY <1>2, Attempts
<1>8. OwesNext(t, op[t], after)
  BY <1>2, <1>5, <1>7 DEF OwesNext, Outstanding, Stops
<1>9. GoesOn(t, after)
  BY <1>6, <1>7 DEF GoesOn
<1> QED BY <1>2, <1>3, <1>7, <1>8, <1>9, GoOnKeeps

\* A missing Remote and a state with no way on are raised to the caller.
LEMMA MissingKeeps ==
  ASSUME IInv, NEW t \in Callers, RemoteMissing(t) \/ NoStateLeft(t)
  PROVE  IInv'
<1>1. prog[t] # <<>> /\ Head(prog[t]).do # "halt" /\ Raised(t) /\ SameDrive
      /\ UNCHANGED <<was, others>>
  BY DEF RemoteMissing, NoStateLeft, At
<1>2. Frame(t) /\ failed' = failed
  BY <1>1, SameFrame DEF IInv, BaseInv
<1> QED BY <1>1, <1>2, RaisedKeeps

\* A wait that sees its states goes on, one that does not is raised as a timeout.
LEMMA WaitKeeps ==
  ASSUME IInv, NEW t \in Callers, WaitSucceeds(t) \/ WaitTimesOut(t)
  PROVE  IInv'
<1>1. prog[t] # <<>> /\ Head(prog[t]).do = "wait" /\ SameDrive /\ UNCHANGED <<was, others>>
  BY DEF WaitSucceeds, WaitTimesOut, At
<1>2. Frame(t) /\ failed' = failed
  BY <1>1, SameFrame DEF IInv, BaseInv
<1>3. CASE Raised(t)
  BY <1>1, <1>2, <1>3, RaisedKeeps
<1>4. CASE /\ GoesOn(t, Rest(t))
           /\ Head(prog[t]).states = {"QUICK_STOP"} \/ Seen \in Head(prog[t]).states
  <2>1. ASSUME op[t] \in {"enable", "reset"}, Pending(Head(prog[t])) PROVE sawEnabled'[t]
    <3>1. Head(prog[t]).states = {"ENABLED"}
      BY <1>1, <2>1 DEF Pending
    <3>2. Seen = "ENABLED"
      BY <1>4, <3>1
    <3>3. drive.state = "enabled"
      BY <3>2, SeenEnabled DEF IInv, BaseInv
    <3>4. sawEnabled[t]
      BY <2>1, <3>3 DEF IInv, Promise, Noted
    <3> QED BY <1>1, <3>4 DEF SameDrive
  <2>2. Rest(t) \in Seq(Instructions) /\ OwesNext(t, op[t], Rest(t))
    BY <1>1, <1>2, <2>1, RestOwes DEF Frame
  <2> QED BY <1>1, <1>2, <1>4, <2>2, HeadKind, GoOnKeeps
<1> QED BY <1>3, <1>4 DEF WaitSucceeds, WaitTimesOut

\* After a look at the state the caller goes on by the ladder of
\* run_to_operation_enabled().
LEMMA LookKeeps ==
  ASSUME IInv, NEW t \in Callers, LookAndGoOn(t)
  PROVE  IInv'
<1> DEFINE s == Onward(Head(prog[t]).stage, Seen)
<1>1. /\ prog[t] # <<>> /\ Head(prog[t]).do = "look" /\ SameDrive /\ UNCHANGED <<was, others>>
      /\ GoesOn(t, s \o Rest(t))
  BY DEF LookAndGoOn, At
<1>2. Frame(t) /\ failed' = failed
  BY <1>1, SameFrame DEF IInv, BaseInv
<1>3. op[t] \in {"enable", "reset"} /\ Head(prog[t]).stage \in Nat
  BY <1>1, HeadKind DEF Kinds
<1>4. /\ s \in Seq(Of(RunnerKinds)) /\ s # <<>>
      /\ Seen # "ENABLED" => Pending(s[Len(s)])
  BY <1>3, OnwardEnds
<1>5. Seen = "ENABLED" => sawEnabled'[t]
  <2>1. Seen = "ENABLED" => drive.state = "enabled"
    BY SeenEnabled DEF IInv, BaseInv
  <2>2. Seen = "ENABLED" => sawEnabled[t]
    BY <1>3, <2>1 DEF IInv, Promise, Noted
  <2> QED BY <1>1, <2>2 DEF SameDrive
<1>6. ~ResetDue(prog[t])
  BY <1>1, HeadKind DEF ResetDue
<1> HIDE DEF s
<1>7. s \o Rest(t) \in Seq(Instructions) /\ OwesNext(t, op[t], s \o Rest(t))
  BY <1>1, <1>2, <1>3, <1>4, <1>5, <1>6, PrefixOwes DEF Frame
<1> QED BY <1>1, <1>2, <1>3, <1>7, GoOnKeeps

\* The reset sequence starts with the reset.
LEMMA ResetScripts ==
  ASSUME NEW S, NEW q \in Seq(S), Of({"write", "wait"}) \subseteq S
  PROVE  /\ ResetScript \in Seq(Of({"write", "wait"})) /\ ResetScript # <<>>
         /\ ResetDue(ResetScript \o q)
<1> DEFINE R == Of({"write", "wait"})
           a == Write(ResetWord)
           b == Write(ShutdownWord)
           c == Write(Halted(ShutdownWord))
           e == Await({"DISABLED", "READY", "SWITCHED_ON", "ENABLED"})
<1>1. a \in R /\ b \in R /\ c \in R /\ e \in R
  <2>1. \A i : i \in Of({"write"}) \/ i \in Of({"wait"}) => i \in R
    BY DEF Of
  <2>2. {"DISABLED", "READY", "SWITCHED_ON", "ENABLED"} \in SUBSET InferredStates
    BY DEF InferredStates
  <2> HIDE DEF R
  <2> QED BY <2>1, <2>2, StepKinds, WordTypes
<1>2. a.do = "write" /\ a.word = ResetWord
  BY DEF Write, Do
<1>3. ResetScript = <<a, b, c, e>>
  BY DEF ResetScript
<1> HIDE DEF R, a, b, c, e
<1>4. ResetScript \in Seq(R) /\ ResetScript # <<>> /\ Len(ResetScript) = 4
      /\ ResetScript[1] = a
  BY <1>1, <1>3
<1>5. R \subseteq S
  BY DEF R
<1>6. ResetScript \in Seq(S)
  BY <1>4, <1>5
<1>7. /\ Len(ResetScript \o q) = 4 + Len(q) /\ (ResetScript \o q)[1] = a
      /\ Len(q) \in Nat
  <2>1. Len(ResetScript \o q) = Len(ResetScript) + Len(q)
        /\ \A i \in 1..Len(ResetScript) : (ResetScript \o q)[i] = ResetScript[i]
    BY <1>6, ConcatOf
  <2>2. Len(q) \in Nat /\ 1 \in 1..4
    BY LenProperties
  <2> QED BY <1>4, <2>1, <2>2
<1>8. ResetDue(ResetScript \o q)
  BY <1>2, <1>7 DEF ResetDue
<1> QED BY <1>4, <1>8 DEF R

\* fault_reset() asks the drive whether there is a fault to reset.
LEMMA FaultKeeps ==
  ASSUME IInv, NEW t \in Callers, ChecksFault(t)
  PROVE  IInv'
<1>1. /\ prog[t] # <<>> /\ Head(prog[t]).do = "fault" /\ SameDrive
      /\ UNCHANGED <<was, others>>
  BY DEF ChecksFault, At
<1>2. Frame(t) /\ failed' = failed
  BY <1>1, SameFrame DEF IInv, BaseInv
<1>3. op[t] # "idle" /\ op[t] \in {"enable", "reset"} /\ ~Pending(Head(prog[t]))
  BY <1>1, HeadKind DEF Kinds, Pending
<1>4. CASE "fault" \notin Status(drive, remote)
  <2>1. GoesOn(t, Rest(t))
    BY <1>4 DEF ChecksFault
  <2>2. ~drive.fault
    BY <1>4, SeenClear DEF IInv, BaseInv
  <2>3. op[t] = "reset" => sawClear[t]
    BY <2>2 DEF IInv, Promise, Noted
  <2>4. op[t] = "reset" => sawClear'[t]
    BY <1>1, <2>3 DEF SameDrive
  <2>5. Rest(t) \in Seq(Instructions) /\ OwesNext(t, op[t], Rest(t))
    BY <1>1, <1>2, <1>3, <2>4, RestOwes DEF Frame
  <2> QED BY <1>2, <1>3, <2>1, <2>5, GoOnKeeps
<1>5. CASE "fault" \in Status(drive, remote)
  <2>1. GoesOn(t, ResetScript \o Rest(t))
    BY <1>5 DEF ChecksFault
  <2>2. Rest(t) \in Seq(Instructions)
    BY <1>1, HeadKind, TailOf DEF Rest
  <2>3. Of({"write", "wait"}) \subseteq Instructions
        /\ Of({"write", "wait"}) \subseteq Of(RunnerKinds)
    BY DEF Of, RunnerKinds
  <2>4. ResetScript \in Seq(Of(RunnerKinds)) /\ ResetScript # <<>>
        /\ ResetDue(ResetScript \o Rest(t))
    <3>1. ResetScript \in Seq(Of({"write", "wait"})) /\ ResetScript # <<>>
          /\ ResetDue(ResetScript \o Rest(t))
      BY <2>2, <2>3, ResetScripts
    <3> QED BY <3>1, <2>3
  <2>5. /\ ResetScript \o Rest(t) \in Seq(Instructions)
        /\ OwesNext(t, op[t], ResetScript \o Rest(t))
    BY <1>1, <1>2, <1>3, <2>4, PrefixOwes DEF Frame
  <2> QED BY <1>2, <1>3, <2>1, <2>5, GoOnKeeps
<1> QED BY <1>4, <1>5

\* fault_reset() takes from the snapshot whether it will have to recover.
LEMMA BeforeKeeps ==
  ASSUME IInv, NEW t \in Callers, StatusBefore(t)
  PROVE  IInv'
<1>1. /\ prog[t] # <<>> /\ Head(prog[t]).do = "before" /\ SameDrive /\ UNCHANGED others
      /\ GoesOn(t, Rest(t))
  BY DEF StatusBefore, At
<1>2. was' \in [Callers -> BOOLEAN] /\ \A u \in Callers \ {t} : was'[u] = was[u]
  BY DEF StatusBefore, IInv, BaseInv
<1>3. Frame(t) /\ failed' = failed
  BY <1>1, <1>2, SameFrame
<1>4. op[t] # "idle" /\ ~Pending(Head(prog[t]))
  BY <1>1, HeadKind DEF Pending
<1>5. Rest(t) \in Seq(Instructions) /\ OwesNext(t, op[t], Rest(t))
  BY <1>1, <1>3, <1>4, RestOwes DEF Frame
<1> QED BY <1>1, <1>3, <1>4, <1>5, GoOnKeeps

\* fault_reset() recovers, or returns.
LEMMA RecoverKeeps ==
  ASSUME IInv, NEW t \in Callers, Recover(t)
  PROVE  IInv'
<1> DEFINE again == <<Look(1), Write(Halted(EnableWord))>>
           p == IF was[t] THEN again ELSE <<>>
<1>1. /\ prog[t] # <<>> /\ Head(prog[t]).do = "recover" /\ SameDrive
      /\ UNCHANGED <<was, others>> /\ GoesOn(t, p)
  BY DEF Recover, At
<1>2. Frame(t) /\ failed' = failed
  BY <1>1, SameFrame DEF IInv, BaseInv
<1>3. op[t] = "reset" /\ Owes(t, "reset", prog[t]) /\ Head(prog[t]) = prog[t][1]
  BY <1>1, HeadKind DEF Kinds, RunnerKinds
<1>4. sawClear[t]
  <2>1. ~ResetDue(prog[t])
    BY <1>1, <1>3 DEF ResetDue
  <2> QED BY <1>3, <2>1 DEF Owes, Outstanding
<1>5. sawClear'[t] /\ was'[t] = was[t]
  BY <1>1, <1>4 DEF SameDrive
<1>6. Look(1) \in Of(Kinds("reset")) /\ Write(Halted(EnableWord)) \in Of(Kinds("reset"))
      /\ Pending(Look(1))
  BY StepKinds, WordTypes DEF Of, Kinds, RunnerKinds, Pending
<1>7. again \in Seq(Of(Kinds("reset"))) /\ Len(again) = 2 /\ again[1] = Look(1)
  BY <1>6, Pair
<1> HIDE DEF again
<1>8. p \in Seq(Of(Kinds("reset"))) /\ RecoveryDue(p, was'[t])
  <2>1. CASE was[t]
    <3>1. Len(again) >= 2 /\ Pending(again[Len(again) - 1])
      BY <1>6, <1>7
    <3> QED BY <1>7, <2>1, <3>1 DEF RecoveryDue
  <2>2. CASE ~was[t]
    <3>1. p = <<>> /\ ~was'[t] /\ p \in Seq(Of(Kinds("reset")))
      BY <1>5, <2>2
    <3> HIDE DEF p
    <3> QED BY <3>1 DEF RecoveryDue
  <2> QED BY <2>1, <2>2
<1>9. p \in Seq(Instructions)
  <2>1. Of(Kinds("reset")) \subseteq Instructions
    BY DEF Of
  <2> HIDE DEF p
  <2> QED BY <1>8, <2>1
<1> HIDE DEF p
<1>10. OwesNext(t, op[t], p)
  BY <1>3, <1>5, <1>8 DEF OwesNext, Outstanding, Stops
<1> QED BY <1>1, <1>2, <1>3, <1>9, <1>10, GoOnKeeps

\* A stop past its halt, whatever it decides.
LEMMA StopStepKeeps ==
  ASSUME IInv, NEW t \in Callers, StatusForStop(t) \/ ModeForStop(t)
  PROVE  IInv'
<1>1. /\ prog[t] # <<>> /\ Head(prog[t]).do \in {"status", "mode"} /\ SameDrive
      /\ UNCHANGED <<was, others>>
  BY DEF StatusForStop, ModeForStop, At
<1>2. Frame(t) /\ failed' = failed
  BY <1>1, SameFrame DEF IInv, BaseInv
<1>3. op[t] # "idle" /\ op[t] \in Stops /\ prog[t] \in Seq(Of(Kinds(op[t])))
  BY <1>1, HeadKind DEF Kinds, RunnerKinds
<1> DEFINE K == Of(Kinds(op[t]))
<1>4. /\ Rest(t) \in Seq(K) /\ <<>> \in Seq(K) /\ QuickStop \in Seq(K)
      /\ <<Write(Halted(EnableWord))>> \in Seq(K) /\ <<Ask("velocity")>> \in Seq(K)
  <2>1. Kinds(op[t]) = {"status", "mode", "write", "wait", "velocity"}
    BY <1>3 DEF Kinds, Stops
  <2>2. /\ \A w \in SUBSET Bits : Write(w) \in K
        /\ Await({"QUICK_STOP"}) \in K /\ Ask("velocity") \in K
    BY <2>1, StepKinds DEF Of, Acts, InferredStates
  <2> HIDE DEF K
  <2>3. Rest(t) \in Seq(K)
    BY <1>1, <1>3, TailOf DEF Rest, K
  <2> QED BY <2>2, <2>3, WordTypes, Pair DEF QuickStop
<1>5. \E p \in Seq(K) : GoesOn(t, p)
  <2> HIDE DEF K
  <2>1. CASE StatusForStop(t)
    BY <1>4, <2>1 DEF StatusForStop
  <2>2. CASE ModeForStop(t)
    <3>1. CASE drive.mode = 1
      BY <1>4, <2>2, <3>1 DEF ModeForStop
    <3>2. CASE drive.mode = 3
      BY <1>4, <2>2, <3>2 DEF ModeForStop
    <3>3. CASE drive.mode \notin {1, 3}
      BY <1>4, <2>2, <3>3 DEF ModeForStop
    <3> QED BY <3>1, <3>2, <3>3
  <2> QED BY <2>1, <2>2
<1>6. PICK p \in Seq(K) : GoesOn(t, p)
  BY <1>5
<1>7. p \in Seq(Instructions) /\ OwesNext(t, op[t], p)
  BY <1>1, <1>2, <1>3, StopOwes DEF Frame
<1> QED BY <1>2, <1>3, <1>6, <1>7, GoOnKeeps

\* An access raises, executed or not; only an attempt to halt is caught.
LEMMA RaisesKeeps ==
  ASSUME IInv, NEW t \in Callers, AccessRaises(t)
  PROVE  IInv'
<1>1. prog[t] # <<>> /\ (Head(prog[t]).do = "halt" <=> At(t, "halt"))
  BY DEF AccessRaises, At
<1>2. /\ remote \in BOOLEAN /\ was \in [Callers -> BOOLEAN] /\ faults \in 0..MaxFaults
      /\ pulsed \in [Callers -> BOOLEAN] /\ failed \in [Callers -> Nat] /\ failed[t] <= faults
  BY DEF IInv, BaseInv, Promise
<1>3. /\ remote' = remote /\ was' = was /\ calls' = calls /\ upsets' = upsets
      /\ faults < MaxFaults /\ faults' = faults + 1
  BY DEF AccessRaises
<1>4. Notes /\ pulsed' \in [Callers -> BOOLEAN]
  <2>1. CASE Executed(t)
    BY <2>1, ExecutedKeeps
  <2>2. CASE SameDrive /\ UNCHANGED pulsed
    BY <1>2, <2>2 DEF Notes
  <2> QED BY <2>1, <2>2 DEF AccessRaises
<1>5. /\ failed' \in [Callers -> Nat] /\ \A u \in Callers \ {t} : failed'[u] = failed[u]
      /\ failed'[t] = IF At(t, "halt") THEN failed[t] + 1 ELSE failed[t]
  BY <1>2 DEF AccessRaises
<1>6. failed'[t] <= faults' /\ faults' \in 0..MaxFaults /\ faults <= faults'
  BY <1>2, <1>3, <1>5
<1>7. Frame(t)
  BY <1>2, <1>3, <1>4, <1>5, <1>6 DEF Frame
<1>8. CASE Head(prog[t]).do # "halt"
  <2>1. Raised(t) /\ failed'[t] = failed[t]
    BY <1>1, <1>5, <1>8 DEF AccessRaises
  <2> QED BY <1>1, <1>7, <1>8, <2>1, RaisedKeeps
<1>9. CASE Head(prog[t]).do = "halt"
  <2>1. /\ op[t] # "idle" /\ op[t] \in Stops /\ prog[t] \in {TwoAttempts, OneAttempt}
        /\ Owes(t, op[t], prog[t])
    BY <1>1, <1>9, HeadKind
  <2>2. GoesOn(t, Rest(t)) /\ failed'[t] = failed[t] + 1 /\ failed[t] \in Nat
    BY <1>1, <1>2, <1>5, <1>9 DEF AccessRaises
  <2>3. sawRest[t] => sawRest'[t]
    BY <1>4, NotesKeep DEF IInv
  <2>4. TwoAttempts # OneAttempt
    BY DEF TwoAttempts, OneAttempt
  <2>5. Rest(t) \in Seq(Instructions)
        /\ (Rest(t) \in Seq(Of(Kinds(op[t]))) \/ Rest(t) = OneAttempt)
    BY <2>1, Attempts DEF Rest
  <2>6. sawRest'[t] \/ HaltDue(Rest(t), failed'[t])
    <3>1. CASE prog[t] = TwoAttempts
      <4>1. Rest(t) = OneAttempt
        BY <3>1, Attempts DEF Rest
      <4>2. sawRest[t] \/ failed[t] >= 2 \/ failed[t] = 0
        BY <2>1, <2>4, <3>1 DEF Owes, Outstanding, HaltDue
      <4> QED BY <2>2, <2>3, <4>1, <4>2 DEF HaltDue
    <3>2. CASE prog[t] = OneAttempt
      <4>1. sawRest[t] \/ failed[t] >= 2 \/ failed[t] = 1
        BY <2>1, <2>4, <3>2 DEF Owes, Outstanding, HaltDue
      <4> QED BY <2>2, <2>3, <4>1 DEF HaltDue
    <3> QED BY <2>1, <3>1, <3>2
  <2>7. OwesNext(t, op[t], Rest(t))
    BY <2>1, <2>5, <2>6 DEF OwesNext, Outstanding, Stops
  <2> QED BY <1>7, <2>1, <2>2, <2>5, <2>7, GoOnKeeps
<1> QED BY <1>8, <1>9

\* The elements of two pairs in a row.
LEMMA TwoAndTwo ==
  ASSUME NEW S, NEW p \in Seq(S), NEW q \in Seq(S), Len(p) = 2, Len(q) = 2
  PROVE  /\ p \o q \in Seq(S) /\ Len(p \o q) = 4
         /\ (p \o q)[1] = p[1] /\ (p \o q)[2] = p[2]
         /\ (p \o q)[3] = q[1] /\ (p \o q)[4] = q[2]
<1> DEFINE n == p \o q
<1>1. /\ n \in Seq(S) /\ Len(n) = Len(p) + Len(q)
      /\ \A i \in 1..Len(p) : n[i] = p[i]
      /\ \A i \in 1..Len(q) : n[Len(p) + i] = q[i]
  BY ONLY ConcatOf, p \in Seq(S), q \in Seq(S)
<1> HIDE DEF n
<1>2. \A i \in 1..2 : n[i] = p[i] /\ n[2 + i] = q[i]
  BY <1>1
<1>3. n[2 + 1] = q[1] /\ n[2 + 2] = q[2] /\ n[1] = p[1] /\ n[2] = p[2]
  BY <1>2
<1> QED BY <1>1, <1>3 DEF n

\* Two pairs in a row are a sequence of four.
LEMMA FourJoined ==
  ASSUME NEW S, NEW a \in S, NEW b \in S, NEW c \in S, NEW d \in S
  PROVE  <<a, b>> \o <<c, d>> = <<a, b, c, d>>
<1> DEFINE p == <<a, b>>
           q == <<c, d>>
           m == <<a, b, c, d>>
<1>1. /\ p \in Seq(S) /\ Len(p) = 2 /\ p[1] = a /\ p[2] = b
      /\ q \in Seq(S) /\ Len(q) = 2 /\ q[1] = c /\ q[2] = d
      /\ m \in Seq(S) /\ Len(m) = 4 /\ m[1] = a /\ m[2] = b /\ m[3] = c /\ m[4] = d
  OBVIOUS
<1> HIDE DEF p, q, m
<1>2. /\ p \o q \in Seq(S) /\ Len(p \o q) = 4
      /\ (p \o q)[1] = a /\ (p \o q)[2] = b /\ (p \o q)[3] = c /\ (p \o q)[4] = d
  BY <1>1, TwoAndTwo
<1>3. \A i \in 1..4 : (p \o q)[i] = m[i]
  BY <1>1, <1>2
<1>4. p \o q = m
  BY <1>1, <1>2, <1>3, SeqEqual
<1> QED BY <1>4 DEF p, q, m

\* Every operation starts with its promise before it.
LEMMA ProgramOwes ==
  ASSUME NEW o \in Operations, NEW e, NEW c, NEW r
  PROVE  /\ Program(o) \in Seq(Instructions) /\ Program(o) # <<>>
         /\ Outstanding(o, Program(o), FALSE, e, c, r, 0)
<1>1. CASE o = "enable"
  <2>1. Program(o) = <<Look(1)>>
    BY <1>1 DEF Program
  <2>2. Look(1) \in Of(Kinds(o)) /\ Look(1) \in Instructions /\ Pending(Look(1))
    BY <1>1, StepKinds DEF Of, Kinds, RunnerKinds, Pending
  <2> DEFINE i == Look(1)
  <2> HIDE DEF i
  <2>3. Program(o) \in Seq(Of(Kinds(o))) /\ Program(o) \in Seq(Instructions)
        /\ Program(o) # <<>> /\ Len(Program(o)) = 1 /\ Program(o)[1] = i
    BY <2>1, <2>2 DEF i
  <2>4. EnableDue(Program(o))
    BY <2>2, <2>3 DEF EnableDue, i
  <2> QED BY <1>1, <2>3, <2>4 DEF Outstanding, Stops
<1>2. CASE o = "reset"
  <2> DEFINE a == Ask("before")
             b == CheckFault
             d == Ask("recover")
  <2>1. Program(o) = <<a, b, d>>
    BY <1>2 DEF Program
  <2>2. /\ a \in Of(Kinds(o)) /\ b \in Of(Kinds(o)) /\ d \in Of(Kinds(o))
        /\ a \in Instructions /\ b \in Instructions /\ d \in Instructions
        /\ a.do = "before" /\ b.do = "fault" /\ d.do = "recover"
    BY <1>2, StepKinds DEF Of, Kinds, RunnerKinds, Acts
  <2> HIDE DEF a, b, d
  <2>3. /\ Program(o) \in Seq(Of(Kinds(o))) /\ Program(o) \in Seq(Instructions)
        /\ Program(o) # <<>> /\ Len(Program(o)) = 3
        /\ Program(o)[1] = a /\ Program(o)[2] = b /\ Program(o)[3] = d
    BY <2>1, <2>2
  <2>4. RecoveryDue(Program(o), FALSE) /\ ResetDue(Program(o))
    BY <2>2, <2>3 DEF RecoveryDue, ResetDue
  <2> QED BY <1>2, <2>3, <2>4 DEF Outstanding, Stops
<1>3. CASE o \in Stops
  <2>1. Program(o) = TwoAttempts
    <3>1. Program(o) = HaltAttempts \o <<Ask("status"), Ask("mode")>>
      BY <1>3 DEF Program, Stops
    <3>2. HaltAttempts = <<Halt(1), Halt(2)>>
      BY DEF HaltAttempts, Halt
    <3>3. /\ Halt(1) \in Instructions /\ Halt(2) \in Instructions
          /\ Ask("status") \in Instructions /\ Ask("mode") \in Instructions
      BY StepKinds DEF Of, Acts
    <3> QED BY <3>1, <3>2, <3>3, FourJoined DEF TwoAttempts
  <2> QED BY <1>3, <2>1, Attempts DEF Outstanding, HaltDue, Stops
<1>4. CASE o \in {"disable", "turn"}
  <2> DEFINE K == Of({"write", "turn"})
  <2>1. Kinds(o) = {"write", "turn"}
    BY <1>4 DEF Kinds, Stops
  <2>2. /\ \A w \in SUBSET Bits : Write(w) \in K
        /\ Ask("turn") \in K
    BY StepKinds DEF Of, Acts
  <2>3. K \subseteq Instructions
    BY DEF Of
  <2> HIDE DEF K
  <2>4. Program(o) \in Seq(K) /\ Program(o) # <<>>
    <3>1. CASE o = "disable"
      BY <2>2, <3>1, WordTypes DEF Program
    <3>2. CASE o = "turn"
      BY <2>2, <3>2, WordTypes DEF Program
    <3> QED BY <1>4, <3>1, <3>2
  <2>5. Program(o) \in Seq(Instructions)
    BY <2>3, <2>4
  <2> QED BY <1>4, <2>1, <2>4, <2>5 DEF Outstanding, Stops, K
<1> QED BY <1>1, <1>2, <1>3, <1>4 DEF Stops

\* A call begins: its program owes what the call promises.
LEMMA CallKeeps ==
  ASSUME IInv, NEW t \in Callers, NEW o \in Operations, CallBegins(t, o)
  PROVE  IInv'
<1>1. /\ calls' = calls + 1 /\ calls < MaxCalls
      /\ op' = [op EXCEPT ![t] = o] /\ prog' = [prog EXCEPT ![t] = Program(o)]
      /\ result' = [result EXCEPT ![t] = "none"] /\ was' = [was EXCEPT ![t] = FALSE]
      /\ pulsed' = [pulsed EXCEPT ![t] = FALSE] /\ failed' = [failed EXCEPT ![t] = 0]
      /\ UNCHANGED <<drive, remote, faults, upsets>>
  BY DEF CallBegins
<1>2. PICK e, c, r \in BOOLEAN :
        /\ e = (o \in {"enable", "reset"} /\ drive.state = "enabled")
        /\ c = (o = "reset" /\ ~drive.fault)
        /\ r = (o \in {"stop", "quickStop"} /\ Stands(drive))
  OBVIOUS
<1>3. /\ sawEnabled' = [sawEnabled EXCEPT ![t] = e] /\ sawClear' = [sawClear EXCEPT ![t] = c]
      /\ sawRest' = [sawRest EXCEPT ![t] = r]
  BY <1>2, Zenon DEF CallBegins
<1>4. BaseInv /\ Program(o) \in Seq(Instructions)
  BY ProgramOwes DEF IInv
<1>5. BaseInv'
  <2>1. /\ drive' \in DriveRecord /\ remote' \in BOOLEAN /\ calls' \in 0..MaxCalls
        /\ faults' \in 0..MaxFaults /\ upsets' \in 0..MaxUpsets
    BY <1>1, <1>4 DEF BaseInv
  <2>2. /\ op' \in [Callers -> Operations \cup {"idle"}] /\ prog' \in [Callers -> Seq(Instructions)]
        /\ was' \in [Callers -> BOOLEAN]
        /\ result' \in [Callers -> Operations \cup {"none", "raised"}]
        /\ pulsed' \in [Callers -> BOOLEAN] /\ failed' \in [Callers -> Nat]
    BY <1>1, <1>4 DEF BaseInv
  <2>3. /\ sawEnabled' \in [Callers -> BOOLEAN] /\ sawClear' \in [Callers -> BOOLEAN]
        /\ sawRest' \in [Callers -> BOOLEAN]
    BY <1>2, <1>3, <1>4 DEF BaseInv
  <2> QED BY <2>1, <2>2, <2>3 DEF BaseInv
<1>6. ASSUME NEW u \in Callers, u # t PROVE Promise(u)'
  <2>1. /\ op'[u] = op[u] /\ prog'[u] = prog[u] /\ result'[u] = result[u] /\ was'[u] = was[u]
        /\ failed'[u] = failed[u] /\ drive' = drive /\ faults' = faults
        /\ sawEnabled'[u] = sawEnabled[u] /\ sawClear'[u] = sawClear[u]
        /\ sawRest'[u] = sawRest[u]
    BY <1>1, <1>3, <1>4, <1>6 DEF BaseInv
  <2>2. Promise(u)
    BY DEF IInv
  <2> QED BY <2>1, <2>2 DEF Promise, Noted, Owes
<1>7. Promise(t)'
  <2>1. /\ op'[t] = o /\ prog'[t] = Program(o) /\ result'[t] = "none" /\ was'[t] = FALSE
        /\ failed'[t] = 0 /\ drive' = drive /\ faults' = faults
        /\ sawEnabled'[t] = e /\ sawClear'[t] = c /\ sawRest'[t] = r
    BY <1>1, <1>3, <1>4 DEF BaseInv
  <2>2. Noted(t)'
    BY <1>2, <2>1 DEF Noted
  <2>3. Program(o) # <<>> /\ Outstanding(o, Program(o), FALSE, e, c, r, 0)
    BY ProgramOwes
  <2>4. o # "idle" /\ "none" \notin Operations /\ faults >= 0
    BY <1>4 DEF BaseInv
  <2> QED BY <2>1, <2>2, <2>3, <2>4 DEF Promise, Owes
<1> QED BY <1>5, <1>6, <1>7 DEF IInv

\* A step of the drive, of its inputs or of the poller, and no step at all.
LEMMA DriveKeeps ==
  ASSUME IInv, Notes, UNCHANGED <<op, prog, result, was, calls, faults, failed, pulsed>>,
         remote' \in BOOLEAN, upsets' \in 0..MaxUpsets
  PROVE  IInv'
<1>1. BaseInv'
  BY NotesKeep DEF IInv, BaseInv
<1>2. ASSUME NEW u \in Callers PROVE Promise(u)'
  <2>1. faults' \in Nat /\ faults <= faults'
    BY DEF IInv, BaseInv
  <2> QED BY <2>1, OtherKeeps DEF IInv
<1> QED BY <1>1, <1>2 DEF IInv

\* The poller, the motion engine and the faults of the drive touch no program.
LEMMA EnvironmentKeeps ==
  ASSUME IInv,
         \/ PollReads \/ PollPublishes \/ EngineRuns \/ Upsets \/ FaultReactionEnds
         \/ UNCHANGED vars
  PROVE  IInv'
<1>1. drive \in DriveRecord /\ remote \in BOOLEAN /\ upsets \in 0..MaxUpsets
  BY DEF IInv, BaseInv
<1>2. CASE PollReads \/ PollPublishes \/ UNCHANGED vars
  BY <1>1, <1>2, DriveKeeps
     DEF PollReads, PollPublishes, vars, callVars, ghostVars, Notes, SameDrive
<1>3. CASE EngineRuns
  <2>1. Notes
    BY <1>1, <1>3, TurnType DEF EngineRuns, Notes
  <2> QED BY <1>1, <1>3, <2>1, DriveKeeps DEF EngineRuns, others, environment
<1>4. CASE Upsets
  <2>1. /\ [drive EXCEPT !.fault = TRUE] \in DriveRecord
        /\ [AtRest(drive) EXCEPT !.emergency = ~@] \in DriveRecord
    BY <1>1, RestType DEF DriveRecord
  <2>2. Notes /\ remote' \in BOOLEAN
    BY <1>1, <1>4, <2>1 DEF Upsets, Notes
  <2>3. upsets' \in 0..MaxUpsets
    BY <1>1, <1>4 DEF Upsets
  <2> QED BY <1>4, <2>2, <2>3, DriveKeeps DEF Upsets, callVars
<1>5. CASE FaultReactionEnds
  <2>1. [AtRest(drive) EXCEPT !.state = "fault"] \in DriveRecord
    BY <1>1, RestType DEF DriveRecord, DriveStates
  <2>2. Notes
    BY <1>5, <2>1 DEF FaultReactionEnds, Notes
  <2> QED BY <1>1, <1>5, <2>2, DriveKeeps DEF FaultReactionEnds, others, environment
<1> QED BY <1>2, <1>3, <1>4, <1>5

-----------------------------------------------------------------------------
(* The theorems. *)

\* The first state.
LEMMA InitHolds == ASSUME Init PROVE IInv
<1>1. FreshDrive \in DriveRecord
  BY DEF FreshDrive, DriveRecord, DriveStates, Modes
<1>2. FaultyDrive \in DriveRecord
  <2>1. "fault" \in DriveStates
    BY DEF DriveStates
  <2> QED BY <1>1, <2>1 DEF FaultyDrive, DriveRecord
<1>3. ASSUME NEW m \in {1, 3} PROVE MovingDrive(m) \in DriveRecord
  <2> DEFINE kind == IF m = 3 THEN "pv" ELSE "pp"
             v == IF m = 3 THEN 1 ELSE 0
             a == [FreshDrive EXCEPT !.state = "enabled", !.mode = m]
             b == [a EXCEPT !.motion = kind, !.tv = v]
             c == [b EXCEPT !.target = MaxPos, !.goal = MaxPos]
  <2>1. MovingDrive(m) = [c EXCEPT !.moving = TRUE, !.reached = FALSE]
    BY Zenon DEF MovingDrive
  <2>0. kind \in {"none", "pv", "pp", "homing"} /\ v \in Int /\ MaxPos \in 0..MaxPos
        /\ MaxPos \in Int
    OBVIOUS
  <2> HIDE DEF kind, v
  <2>2. a \in DriveRecord
    BY <1>1 DEF DriveRecord, DriveStates, Modes
  <2> HIDE DEF a
  <2>3. b \in DriveRecord
    BY <2>0, <2>2 DEF DriveRecord
  <2> HIDE DEF b
  <2>4. c \in DriveRecord
    BY <2>0, <2>3 DEF DriveRecord
  <2> HIDE DEF c
  <2>5. [c EXCEPT !.moving = TRUE, !.reached = FALSE] \in DriveRecord
    BY <2>4 DEF DriveRecord
  <2> QED BY <2>1, <2>5
<1>4. <<>> \in Seq(Instructions)
  OBVIOUS
<1>5. BaseInv
  BY <1>1, <1>2, <1>3, <1>4 DEF Init, BaseInv
<1>6. ASSUME NEW t \in Callers PROVE Promise(t)
  BY DEF Init, Promise, Noted
<1> QED BY <1>5, <1>6 DEF IInv

\* Every step keeps the invariant.
LEMMA NextKeeps == ASSUME IInv, [Next]_vars PROVE IInv'
<1>1. ASSUME NEW t \in Callers, Step(t) PROVE IInv'
  BY <1>1, WriteKeeps, HaltKeeps, MissingKeeps, WaitKeeps, LookKeeps, FaultKeeps,
     BeforeKeeps, RecoverKeeps, StopStepKeeps, VelocityKeeps, RaisesKeeps, Zenon DEF Step
<1>2. ASSUME NEW t \in Callers, NEW o \in Operations, CallBegins(t, o) PROVE IInv'
  BY <1>2, CallKeeps
<1> QED BY <1>1, <1>2, EnvironmentKeeps, Zenon DEF Next

\* The inductive invariant: what an operation promises has happened during it,
\* or the rest of its program cannot end without it.
THEOREM Inductive == Spec => []IInv
<1> QED BY InitHolds, NextKeeps, PTL DEF Spec

\* Type correctness of the runner, its drive and the callers.
THEOREM TypeCorrect == Spec => []TypeOK
<1>1. IInv => TypeOK
  <2> SUFFICES ASSUME IInv PROVE TypeOK
    OBVIOUS
  <2>1. \A t \in Callers : failed[t] \in 0..MaxFaults
    BY DEF IInv, BaseInv, Promise
  <2>2. failed \in [Callers -> 0..MaxFaults]
    BY <2>1 DEF IInv, BaseInv
  <2> QED BY <2>2 DEF TypeOK, IInv, BaseInv, Promise
<1> QED BY <1>1, Inductive, PTL

\* enable_operation(), and fault_reset() that recovers, return only after the
\* drive was in Operation Enabled during the call.
THEOREM EnablePromise == Spec => []EnableKeepsItsWord
<1>1. IInv => EnableKeepsItsWord
  <2> SUFFICES ASSUME IInv, NEW t \in Callers,
                      result[t] = "enable" \/ (result[t] = "reset" /\ was[t])
               PROVE  sawEnabled[t]
    BY DEF EnableKeepsItsWord
  <2>1. result[t] \in Operations
    BY DEF IInv, BaseInv
  <2>2. Owes(t, result[t], <<>>)
    BY <2>1 DEF IInv, Promise
  <2> QED BY <2>2 DEF Owes, Outstanding, EnableDue, RecoveryDue
<1> QED BY <1>1, Inductive, PTL

\* fault_reset() returns only after the drive was without a fault during it.
THEOREM ResetPromise == Spec => []ResetKeepsItsWord
<1>1. IInv => ResetKeepsItsWord
  <2> SUFFICES ASSUME IInv, NEW t \in Callers, result[t] = "reset" PROVE sawClear[t]
    BY DEF ResetKeepsItsWord
  <2>1. Owes(t, result[t], <<>>)
    BY DEF IInv, BaseInv, Promise
  <2> QED BY <2>1 DEF Owes, Outstanding, ResetDue
<1> QED BY <1>1, Inductive, PTL

\* A stop that returns has had the drive at rest, unless both attempts to halt
\* it raised.
THEOREM StopPromise == Spec => []StopKeepsItsWord
<1>1. IInv => StopKeepsItsWord
  <2> SUFFICES ASSUME IInv, NEW t \in Callers, result[t] \in Stops, failed[t] < 2
               PROVE  sawRest[t]
    BY DEF StopKeepsItsWord, Stops
  <2>1. result[t] \in Operations /\ failed[t] \in Nat
    BY DEF IInv, BaseInv, Stops
  <2>2. Owes(t, result[t], <<>>)
    BY <2>1 DEF IInv, Promise
  <2>3. <<>> \notin {TwoAttempts, OneAttempt}
    BY Attempts
  <2> QED BY <2>1, <2>2, <2>3 DEF Owes, Outstanding, HaltDue
<1> QED BY <1>1, Inductive, PTL
=============================================================================
