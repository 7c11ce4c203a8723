------------------------ MODULE JogControllerProofs ------------------------
(***************************************************************************)
(* Safety of JogController for any number of callers and watchdog          *)
(* identities, any velocities and any number of failing accesses.          *)
(***************************************************************************)
EXTENDS JogController, SequenceTheorems, TLAPS

USE JogAssumption

-----------------------------------------------------------------------------
(* The inductive invariants. *)

Accesses == {"position", "warmth", "ready", "mode", "velocity", "set", "clear",
             "cw", "pp", "halt", "slow", "zero"}

DogOps == {"idle", "sleep", "tick", "abort"}
UserOps == {"idle", "press", "keepalive", "release", "moverelease", "close",
            "invalidate", "start", "warm", "cold", "update", "stop", "move", "closing"}

\* Callers and watchdogs keep to their own operations.
RoleInv ==
  /\ op \in [Tasks -> UserOps \cup DogOps]
  /\ \A d \in Dogs : op[d] \in DogOps
  /\ \A u \in Users : op[u] \in UserOps
  /\ todo \in [Tasks -> Seq(Accesses)]

\* The lock's queue is made of the tasks in a locked operation, once each.
LockInv ==
  /\ queue \in Seq(Tasks) /\ IsInjective(queue)
  /\ \A t \in Tasks : op[t] \in LockedOps <=> \E i \in 1..Len(queue) : queue[i] = t

\* A task that is past the lock holds it.
HoldInv == \A t \in Tasks : op[t] \in LockedOps /\ todo[t] # <<>> => Holds(t)

TaskInv == RoleInv /\ LockInv /\ HoldInv

Members(q) == {q[i] : i \in 1..Len(q)}

\* Only a press and a keepalive write a velocity, and stop() ends with the
\* access that depends on the mode.
ScriptInv ==
  \A t \in Tasks :
    /\ "velocity" \in Members(todo[t]) => op[t] \in LatchOps
    /\ op[t] = "stop" =>
         todo[t] \in {<<"halt", "halt", "slow">>, <<"halt", "slow">>, <<"slow">>}

DriveType ==
  [mode : {"PV", "PP"}, tv : Velocities \cup {0}, pv : BOOLEAN, pp : BOOLEAN, bit4 : BOOLEAN]

\* The types of what is not a task.
ValueInv ==
  /\ jog \in [active : BOOLEAN, velocity : Velocities \cup {0}, expired : BOOLEAN]
  /\ modeReady \in BOOLEAN
  /\ watchTask \in Dogs \cup {NoTask}
  /\ vel \in [Tasks -> Velocities \cup {0}]
  /\ abort \in BOOLEAN /\ closed \in BOOLEAN /\ underway \subseteq Tasks
  /\ drive \in DriveType
  /\ late \subseteq Writes \X (Velocities \cup {0})
  /\ calls \in 0..MaxCalls /\ faults \in 0..MaxFaults /\ repeats \in 0..MaxFaults
  /\ pressRaised \in BOOLEAN /\ strayed \in BOOLEAN /\ clean \subseteq Users /\ owed \in BOOLEAN

\* A keepalive that has something to write refreshes an active jog.
KeepaliveInv == \A t \in Tasks : op[t] = "keepalive" /\ todo[t] # <<>> => jog.active

\* A target velocity is on the drive only for an active jog, a press that is
\* under way, one that raised, or because it came late.
VelocityInv ==
  drive.tv # 0 => \/ jog.active \/ pressRaised \/ strayed
                  \/ \E t \in Users : op[t] = "press" /\ todo[t] # <<>>

\* Task d is before every caller whose jog_start() is newer than the last stop().
Behind(d) == \A i, j \in 1..Len(queue) : queue[i] = d /\ queue[j] \in clean => i < j

\* While an abort is pending no newer jog_start() has been made; once the watchdog
\* acts on it, such calls queue up behind.
SparedInv ==
  /\ abort => clean = {} /\ ~owed
  /\ \A d \in Dogs : op[d] = "abort" => ~owed /\ Behind(d)

\* Without stop() nothing aborts the watchdog.
NoAbortInv == abort = FALSE /\ \A d \in Dogs : op[d] # "abort"

-----------------------------------------------------------------------------
(* Sequences. *)

\* A task that was not in the queue can be appended without repetition.
LEMMA AppendOnce ==
  ASSUME NEW S, NEW q \in Seq(S), NEW x \in S, IsInjective(q),
         \A i \in 1..Len(q) : q[i] # x
  PROVE  /\ Append(q, x) \in Seq(S) /\ IsInjective(Append(q, x))
         /\ \A y : (\E i \in 1..Len(Append(q, x)) : Append(q, x)[i] = y)
                     <=> (y = x \/ \E i \in 1..Len(q) : q[i] = y)
         /\ q # <<>> => Head(Append(q, x)) = Head(q)
<1> DEFINE a == Append(q, x)
<1>1. a \in Seq(S) /\ Len(a) = Len(q) + 1 /\ a[Len(q) + 1] = x
      /\ \A i \in 1..Len(q) : a[i] = q[i]
  OBVIOUS
<1>2. DOMAIN a = 1..(Len(q) + 1) /\ DOMAIN q = 1..Len(q) /\ Len(q) \in Nat
  BY <1>1
<1>3. IsInjective(a)
  BY <1>1, <1>2 DEF IsInjective
<1>4. \A y : (\E i \in 1..Len(a) : a[i] = y) <=> (y = x \/ \E i \in 1..Len(q) : q[i] = y)
  BY <1>1, <1>2
<1>5. q # <<>> => Head(a) = Head(q)
  BY <1>1, <1>2
<1> QED
  BY <1>1, <1>3, <1>4, <1>5

\* The head leaves the queue and everybody else stays.
LEMMA TailOnce ==
  ASSUME NEW S, NEW q \in Seq(S), q # <<>>, IsInjective(q)
  PROVE  /\ Tail(q) \in Seq(S) /\ IsInjective(Tail(q))
         /\ \A y : (\E i \in 1..Len(Tail(q)) : Tail(q)[i] = y)
                     <=> (y # Head(q) /\ \E i \in 1..Len(q) : q[i] = y)
<1> DEFINE r == Tail(q)
<1>1. r \in Seq(S) /\ Len(r) = Len(q) - 1 /\ \A i \in 1..Len(r) : r[i] = q[i + 1]
  OBVIOUS
<1>2. DOMAIN r = 1..(Len(q) - 1) /\ DOMAIN q = 1..Len(q) /\ Len(q) \in Nat \ {0}
  BY <1>1
<1>3. IsInjective(r)
  BY <1>1, <1>2 DEF IsInjective
<1>4. Head(q) = q[1]
  OBVIOUS
<1>5. ASSUME NEW y PROVE (\E i \in 1..Len(r) : r[i] = y)
                     <=> (y # Head(q) /\ \E i \in 1..Len(q) : q[i] = y)
  <2>1. ASSUME NEW i \in 1..Len(r), r[i] = y
        PROVE  y # Head(q) /\ \E j \in 1..Len(q) : q[j] = y
    BY <2>1, <1>1, <1>2, <1>4 DEF IsInjective
  <2>2. ASSUME y # Head(q), NEW i \in 1..Len(q), q[i] = y
        PROVE  \E j \in 1..Len(r) : r[j] = y
    <3>1. i - 1 \in 1..Len(r) /\ r[i - 1] = y
      BY <2>2, <1>1, <1>2, <1>4
    <3> QED
      BY <3>1
  <2> QED
    BY <2>1, <2>2
<1> QED
  BY <1>1, <1>3, <1>5

\* A cancelled task leaves the queue and everybody else stays.
LEMMA WithoutOnce ==
  ASSUME NEW S, NEW q \in Seq(S), NEW x, IsInjective(q)
  PROVE  /\ Without(q, x) \in Seq(S) /\ IsInjective(Without(q, x))
         /\ Members(Without(q, x)) = Members(q) \ {x}
<1> DEFINE n == Len(q)
           k == CHOOSE i \in 1..n : q[i] = x
           w == RemoveAt(q, k)
<1>0. n \in Nat /\ DOMAIN q = 1..n
  OBVIOUS
<1>1. CASE ~ \E i \in 1..n : q[i] = x
  <2>1. Without(q, x) = q
    BY <1>1 DEF Without
  <2>2. x \notin Members(q)
    BY <1>1 DEF Members
  <2> QED
    BY <2>1, <2>2
<1>2. CASE \E i \in 1..n : q[i] = x
  <2>1. k \in 1..n /\ q[k] = x
    BY <1>2
  <2>2. Without(q, x) = w
    BY <1>2 DEF Without
  <2>3. w = SubSeq(q, 1, k - 1) \o SubSeq(q, k + 1, n)
    BY DEF RemoveAt
  <2> HIDE DEF k
  <2> DEFINE u == SubSeq(q, 1, k - 1)
             v == SubSeq(q, k + 1, n)
  <2>a. k \in Int /\ n \in Int /\ k - 1 \in Int /\ k + 1 \in Int
        /\ 1 <= k /\ k <= n /\ \A i \in 1..n : q[i] \in S
    BY <2>1, <1>0
  <2>b. /\ \A i \in 1..(k - 1) : q[i] \in S
        /\ \A i \in (k + 1)..n : q[i] \in S
    BY <2>a
  <2>4. u \in Seq(S) /\ Len(u) = k - 1 /\ \A i \in 1..(k - 1) : u[i] = q[i]
    <3>1. /\ u \in Seq(S)
          /\ Len(u) = IF 1 <= k - 1 THEN (k - 1) - 1 + 1 ELSE 0
          /\ \A i \in 1..((k - 1) - 1 + 1) : u[i] = q[1 + i - 1]
      BY <2>a, <2>b, SubSeqProperties
    <3> HIDE DEF u
    <3> QED
      BY <3>1, <2>a
  <2>5. v \in Seq(S) /\ Len(v) = n - k /\ \A i \in 1..(n - k) : v[i] = q[k + i]
    <3>1. /\ v \in Seq(S)
          /\ Len(v) = IF k + 1 <= n THEN n - (k + 1) + 1 ELSE 0
          /\ \A i \in 1..(n - (k + 1) + 1) : v[i] = q[(k + 1) + i - 1]
      BY <2>a, <2>b, SubSeqProperties
    <3> HIDE DEF v
    <3>2. \A i \in 1..(n - k) : i \in 1..(n - (k + 1) + 1) /\ (k + 1) + i - 1 = k + i
      BY <2>a
    <3> QED
      BY <3>1, <3>2, <2>a
  <2> HIDE DEF u, v
  <2>6. /\ w \in Seq(S) /\ Len(w) = n - 1
        /\ \A i \in 1..(n - 1) : w[i] = IF i < k THEN q[i] ELSE q[i + 1]
    <3>1. /\ w \in Seq(S) /\ Len(w) = Len(u) + Len(v)
          /\ \A i \in 1..(Len(u) + Len(v)) : w[i] = IF i <= Len(u) THEN u[i] ELSE v[i - Len(u)]
      BY <2>3, <2>4, <2>5, ConcatProperties DEF u, v
    <3>a. Len(u) + Len(v) = n - 1
      BY <2>4, <2>5, <2>a
    <3>b. \A i \in 1..(n - 1) : w[i] = IF i <= k - 1 THEN u[i] ELSE v[i - (k - 1)]
      BY <3>1, <3>a, <2>4
    <3>2. ASSUME NEW i \in 1..(n - 1) PROVE w[i] = IF i < k THEN q[i] ELSE q[i + 1]
      <4>1. CASE i < k
        <5>1. i <= k - 1 /\ i \in 1..(k - 1)
          BY <4>1, <2>a
        <5> QED
          BY <4>1, <5>1, <3>b, <2>4
      <4>2. CASE ~ (i < k)
        <5>1. i - (k - 1) \in 1..(n - k) /\ k + (i - (k - 1)) = i + 1
          BY <4>2, <2>a
        <5>2. w[i] = v[i - (k - 1)]
          BY <4>2, <3>b, <2>a
        <5> QED
          BY <4>2, <5>1, <5>2, <2>5
      <4> QED
        BY <4>1, <4>2
    <3> QED
      BY <3>1, <3>2, <2>4, <2>5, <2>a
  <2> HIDE DEF w
  <2>7. IsInjective(w)
    <3>1. DOMAIN w = 1..(n - 1)
      BY <2>6
    <3>2. \A i, j \in 1..n : q[i] = q[j] => i = j
      BY <1>0 DEF IsInjective
    <3>3. ASSUME NEW i \in 1..(n - 1), NEW j \in 1..(n - 1), w[i] = w[j] PROVE i = j
      <4> DEFINE e(m) == IF m < k THEN m ELSE m + 1
      <4>1. w[i] = q[e(i)] /\ w[j] = q[e(j)] /\ e(i) \in 1..n /\ e(j) \in 1..n
        BY <2>6, <2>a
      <4>2. e(i) = e(j)
        BY <4>1, <3>2, <3>3
      <4> QED
        BY <4>2, <2>a
    <3> QED
      BY <3>1, <3>3 DEF IsInjective
  <2>8. ASSUME NEW y PROVE (\E i \in 1..Len(w) : w[i] = y)
                       <=> (y # x /\ \E i \in 1..n : q[i] = y)
    <3>1. ASSUME NEW i \in 1..Len(w), w[i] = y
          PROVE  y # x /\ \E j \in 1..n : q[j] = y
      <4>1. i \in 1..(n - 1)
        BY <2>6, <1>0
      <4>2. PICK j \in 1..n : j # k /\ q[j] = y
        BY <3>1, <4>1, <2>a, <2>6
      <4>3. q[j] # q[k]
        BY <4>2, <2>1, <1>0 DEF IsInjective
      <4> QED
        BY <4>2, <4>3, <2>1
    <3>2. ASSUME y # x, NEW i \in 1..n, q[i] = y PROVE \E j \in 1..Len(w) : w[j] = y
      <4>1. CASE i < k
        BY <4>1, <3>2, <2>1, <2>6, <1>0
      <4>2. CASE i > k
        <5>1. i - 1 \in 1..Len(w) /\ w[i - 1] = y
          BY <4>2, <3>2, <2>1, <2>6, <1>0
        <5> QED
          BY <5>1
      <4> QED
        BY <4>1, <4>2, <3>2, <2>1, <1>0
    <3> QED
      BY <3>1, <3>2
  <2>9. Members(w) = Members(q) \ {x}
    BY <2>8 DEF Members
  <2> QED
    BY <2>2, <2>6, <2>7, <2>9
<1> QED
  BY <1>1, <1>2

-----------------------------------------------------------------------------
(* Coming and going. *)

\* What a task may be doing.
OpsOf(t) == IF t \in Dogs THEN DogOps ELSE UserOps

\* RoleInv, task by task.
LEMMA RoleByTask ==
  RoleInv <=> /\ op \in [Tasks -> UserOps \cup DogOps]
              /\ \A t \in Tasks : op[t] \in OpsOf(t)
              /\ todo \in [Tasks -> Seq(Accesses)]
  BY DEF RoleInv, OpsOf, Tasks, JogAssumption

\* A task that is not past the lock may ask for it.
LEMMA WaitForKeeps ==
  ASSUME TaskInv, NEW t \in Tasks, NEW o \in OpsOf(t) \cap LockedOps,
         op[t] \notin LockedOps, WaitFor(t, o)
  PROVE  TaskInv'
<1>1. /\ op' = [op EXCEPT ![t] = o]
      /\ todo' = [todo EXCEPT ![t] = <<>>]
      /\ queue' = Append(queue, t)
  BY DEF WaitFor
<1>2. /\ op \in [Tasks -> UserOps \cup DogOps] /\ \A u \in Tasks : op[u] \in OpsOf(u)
      /\ todo \in [Tasks -> Seq(Accesses)]
  BY RoleByTask DEF TaskInv
<1>3. o \in UserOps \cup DogOps
  BY DEF OpsOf
<1>4. RoleInv'
  <2>1. /\ op' \in [Tasks -> UserOps \cup DogOps] /\ \A u \in Tasks : op'[u] \in OpsOf(u)
        /\ todo' \in [Tasks -> Seq(Accesses)]
    BY <1>1, <1>2, <1>3
  <2> QED
    BY <2>1 DEF RoleInv, OpsOf, Tasks, JogAssumption
<1>5. /\ queue \in Seq(Tasks) /\ IsInjective(queue)
      /\ \A u \in Tasks : op[u] \in LockedOps <=> \E i \in 1..Len(queue) : queue[i] = u
  BY DEF TaskInv, LockInv
<1>6. \A i \in 1..Len(queue) : queue[i] # t
  BY <1>5
<1>7. /\ queue' \in Seq(Tasks) /\ IsInjective(queue')
      /\ \A u : (\E i \in 1..Len(queue') : queue'[i] = u)
                  <=> (u = t \/ \E i \in 1..Len(queue) : queue[i] = u)
      /\ queue # <<>> => Head(queue') = Head(queue)
  BY <1>1, <1>5, <1>6, AppendOnce
<1>8. LockInv'
  <2>1. \A u \in Tasks : op'[u] \in LockedOps <=> \E i \in 1..Len(queue') : queue'[i] = u
    BY <1>1, <1>2, <1>5, <1>7
  <2> QED
    BY <1>7, <2>1 DEF LockInv
<1>9. HoldInv'
  <2>1. ASSUME NEW u \in Tasks, op'[u] \in LockedOps, todo'[u] # <<>>
        PROVE  queue' # <<>> /\ Head(queue') = u
    <3>1. u # t /\ op[u] \in LockedOps /\ todo[u] # <<>>
      BY <2>1, <1>1, <1>2
    <3>2. queue # <<>> /\ Head(queue) = u
      BY <3>1 DEF TaskInv, HoldInv, Holds
    <3>3. queue' # <<>>
      BY <1>1, <1>5
    <3> QED
      BY <3>2, <3>3, <1>7
  <2> QED
    BY <2>1 DEF HoldInv, Holds
<1> QED
  BY <1>4, <1>8, <1>9 DEF TaskInv

\* When t, who holds the lock, leaves, the tasks with accesses to make under
\* the lock are gone.
LEMMA HolderAlone ==
  ASSUME TaskInv, NEW t \in Tasks, Holds(t), NEW u \in Tasks, u # t, op[u] \in LockedOps
  PROVE  todo[u] = <<>>
  BY DEF TaskInv, HoldInv, Holds

\* A task outside the lock, or one that holds it, may go on outside.
LEMMA GoOnKeeps ==
  ASSUME TaskInv, NEW t \in Tasks, NEW o \in OpsOf(t), o \notin LockedOps,
         NEW script \in Seq(Accesses), op[t] \in LockedOps => Holds(t), GoOn(t, o, script)
  PROVE  TaskInv'
<1>1. /\ op' = [op EXCEPT ![t] = o]
      /\ todo' = [todo EXCEPT ![t] = script]
      /\ queue' = IF Holds(t) THEN Tail(queue) ELSE queue
  BY DEF GoOn
<1>2. /\ op \in [Tasks -> UserOps \cup DogOps] /\ \A u \in Tasks : op[u] \in OpsOf(u)
      /\ todo \in [Tasks -> Seq(Accesses)]
  BY RoleByTask DEF TaskInv
<1>3. o \in UserOps \cup DogOps
  BY DEF OpsOf
<1>4. RoleInv'
  <2>1. /\ op' \in [Tasks -> UserOps \cup DogOps] /\ \A u \in Tasks : op'[u] \in OpsOf(u)
        /\ todo' \in [Tasks -> Seq(Accesses)]
    BY <1>1, <1>2, <1>3
  <2> QED
    BY <2>1 DEF RoleInv, OpsOf, Tasks, JogAssumption
<1>5. /\ queue \in Seq(Tasks) /\ IsInjective(queue)
      /\ \A u \in Tasks : op[u] \in LockedOps <=> \E i \in 1..Len(queue) : queue[i] = u
  BY DEF TaskInv, LockInv
<1>6. CASE Holds(t)
  <2>1. queue # <<>> /\ Head(queue) = t
    BY <1>6 DEF Holds
  <2>2. /\ queue' \in Seq(Tasks) /\ IsInjective(queue')
        /\ \A u : (\E i \in 1..Len(queue') : queue'[i] = u)
                    <=> (u # t /\ \E i \in 1..Len(queue) : queue[i] = u)
    <3>1. /\ Tail(queue) \in Seq(Tasks) /\ IsInjective(Tail(queue))
          /\ \A u : (\E i \in 1..Len(Tail(queue)) : Tail(queue)[i] = u)
                      <=> (u # Head(queue) /\ \E i \in 1..Len(queue) : queue[i] = u)
      BY <1>5, <2>1, TailOnce
    <3> QED
      BY <1>1, <1>6, <2>1, <3>1
  <2>3. LockInv'
    <3>1. \A u \in Tasks : op'[u] \in LockedOps <=> \E i \in 1..Len(queue') : queue'[i] = u
      BY <1>1, <1>2, <1>5, <2>2
    <3> QED
      BY <2>2, <3>1 DEF LockInv
  <2>4. HoldInv'
    BY <1>1, <1>2, <1>6, HolderAlone DEF HoldInv
  <2> QED
    BY <1>4, <2>3, <2>4 DEF TaskInv
<1>7. CASE ~Holds(t)
  <2>1. op[t] \notin LockedOps /\ queue' = queue
    BY <1>1, <1>7
  <2>2. LockInv'
    BY <1>1, <1>2, <1>5, <2>1 DEF LockInv
  <2>3. HoldInv'
    BY <1>1, <1>2, <2>1 DEF TaskInv, HoldInv, Holds
  <2> QED
    BY <1>4, <2>2, <2>3 DEF TaskInv
<1> QED
  BY <1>6, <1>7

\* The holder of the lock, or a task outside it, may change its accesses.
LEMMA ScriptKeeps ==
  ASSUME TaskInv, NEW t \in Tasks, NEW script \in Seq(Accesses),
         op[t] \in LockedOps => Holds(t),
         todo' = [todo EXCEPT ![t] = script], UNCHANGED <<queue, op>>
  PROVE  TaskInv'
  BY DEF TaskInv, RoleInv, LockInv, HoldInv, Holds

\* A press hands over to a watchdog that was idle.
LEMMA StartWatchdogKeeps ==
  ASSUME TaskInv, NEW t \in Users, Holds(t), NEW d \in Dogs, op[d] = "idle",
         StartWatchdog(t, d)
  PROVE  TaskInv'
<1>1. /\ op' = [op EXCEPT ![t] = "idle", ![d] = "sleep"]
      /\ todo' = [todo EXCEPT ![t] = <<>>]
      /\ queue' = Tail(queue)
  BY DEF StartWatchdog
<1>2. /\ op \in [Tasks -> UserOps \cup DogOps] /\ \A u \in Tasks : op[u] \in OpsOf(u)
      /\ todo \in [Tasks -> Seq(Accesses)]
      /\ t \in Tasks /\ d \in Tasks /\ t # d /\ "idle" \in OpsOf(t) /\ "sleep" \in OpsOf(d)
      /\ {"idle", "sleep"} \cap LockedOps = {}
  BY RoleByTask DEF TaskInv, Tasks, JogAssumption, OpsOf, DogOps, UserOps,
                    LockedOps, StopOps, LatchOps
<1>4. RoleInv'
  <2>1. /\ op' \in [Tasks -> UserOps \cup DogOps] /\ \A u \in Tasks : op'[u] \in OpsOf(u)
        /\ todo' \in [Tasks -> Seq(Accesses)]
    BY <1>1, <1>2 DEF OpsOf
  <2> QED
    BY <2>1 DEF RoleInv, OpsOf, Tasks, JogAssumption
<1>5. /\ queue \in Seq(Tasks) /\ IsInjective(queue) /\ queue # <<>> /\ Head(queue) = t
      /\ \A u \in Tasks : op[u] \in LockedOps <=> \E i \in 1..Len(queue) : queue[i] = u
  BY DEF TaskInv, LockInv, Holds
<1>6. /\ queue' \in Seq(Tasks) /\ IsInjective(queue')
      /\ \A u : (\E i \in 1..Len(queue') : queue'[i] = u)
                  <=> (u # t /\ \E i \in 1..Len(queue) : queue[i] = u)
  <2>1. /\ Tail(queue) \in Seq(Tasks) /\ IsInjective(Tail(queue))
        /\ \A u : (\E i \in 1..Len(Tail(queue)) : Tail(queue)[i] = u)
                    <=> (u # Head(queue) /\ \E i \in 1..Len(queue) : queue[i] = u)
    <3>1. queue \in Seq(Tasks) /\ IsInjective(queue) /\ queue # <<>>
      BY <1>5
    <3> QED
      BY <3>1, TailOnce
  <2> QED
    BY <1>1, <1>5, <2>1
<1>7. LockInv'
  <2>1. ASSUME NEW u \in Tasks
        PROVE  op'[u] \in LockedOps <=> \E i \in 1..Len(queue') : queue'[i] = u
    <3>1. op'[u] \in LockedOps <=> (u # t /\ op[u] \in LockedOps)
      BY <1>1, <1>2
    <3>2. op[u] \in LockedOps <=> \E i \in 1..Len(queue) : queue[i] = u
      BY <1>5
    <3> QED
      BY <3>1, <3>2, <1>6
  <2> QED
    BY <1>6, <2>1 DEF LockInv
<1>8. HoldInv'
  BY <1>1, <1>2, HolderAlone DEF HoldInv
<1> QED
  BY <1>4, <1>7, <1>8 DEF TaskInv

\* close() takes the watchdog with it, wherever it is.
LEMMA CloseKeeps ==
  ASSUME TaskInv, ValueInv, NEW t \in Users, Holds(t),
         op' = [u \in Tasks |-> IF u = t THEN "closing"
                                  ELSE IF u = watchTask THEN "idle" ELSE op[u]],
         todo' = [todo EXCEPT ![t] = <<>>],
         queue' = Without(Tail(queue), watchTask)
  PROVE  TaskInv'
<1>1. /\ op \in [Tasks -> UserOps \cup DogOps] /\ \A u \in Tasks : op[u] \in OpsOf(u)
      /\ todo \in [Tasks -> Seq(Accesses)]
      /\ t \in Tasks /\ "idle" \in DogOps \cap UserOps /\ "closing" \in UserOps
      /\ {"idle", "closing"} \cap LockedOps = {}
  BY RoleByTask DEF TaskInv, Tasks, DogOps, UserOps, LockedOps, StopOps, LatchOps
<1>2. RoleInv'
  <2>1. /\ op' \in [Tasks -> UserOps \cup DogOps] /\ \A u \in Tasks : op'[u] \in OpsOf(u)
        /\ todo' \in [Tasks -> Seq(Accesses)]
    BY <1>1 DEF OpsOf
  <2> QED
    BY <2>1 DEF RoleInv, OpsOf, Tasks, JogAssumption
<1>3. /\ queue \in Seq(Tasks) /\ IsInjective(queue) /\ queue # <<>> /\ Head(queue) = t
      /\ \A u \in Tasks : op[u] \in LockedOps <=> \E i \in 1..Len(queue) : queue[i] = u
  BY DEF TaskInv, LockInv, Holds
<1> DEFINE r == Tail(queue)
<1>4. /\ r \in Seq(Tasks) /\ IsInjective(r)
      /\ \A u : (\E i \in 1..Len(r) : r[i] = u)
                  <=> (u # t /\ \E i \in 1..Len(queue) : queue[i] = u)
  <2>1. /\ Tail(queue) \in Seq(Tasks) /\ IsInjective(Tail(queue))
        /\ \A u : (\E i \in 1..Len(Tail(queue)) : Tail(queue)[i] = u)
                    <=> (u # Head(queue) /\ \E i \in 1..Len(queue) : queue[i] = u)
    BY <1>3, TailOnce
  <2> QED
    BY <1>3, <2>1
<1> HIDE DEF r
<1>5. /\ queue' \in Seq(Tasks) /\ IsInjective(queue')
      /\ \A u : (\E i \in 1..Len(queue') : queue'[i] = u)
                  <=> (u # watchTask /\ \E i \in 1..Len(r) : r[i] = u)
  <2> DEFINE w == Without(r, watchTask)
  <2>1. queue' = w
    BY DEF r
  <2>2. /\ w \in Seq(Tasks) /\ IsInjective(w)
        /\ \A u : (\E i \in 1..Len(w) : w[i] = u)
                    <=> (u # watchTask /\ \E i \in 1..Len(r) : r[i] = u)
    <3>1. r \in Seq(Tasks) /\ IsInjective(r)
      BY <1>4
    <3>2. w \in Seq(Tasks) /\ IsInjective(w)
      BY <3>1, WithoutOnce
    <3>3. Members(w) = Members(r) \ {watchTask}
      BY <3>1, WithoutOnce
    <3> HIDE DEF w
    <3> QED
      BY <3>2, <3>3 DEF Members
  <2> HIDE DEF w
  <2> QED
    BY <2>1, <2>2
<1>6. LockInv'
  <2>1. \A u \in Tasks : op'[u] \in LockedOps <=> \E i \in 1..Len(queue') : queue'[i] = u
    BY <1>1, <1>3, <1>4, <1>5
  <2> QED
    BY <1>5, <2>1 DEF LockInv
<1>7. HoldInv'
  BY <1>1, HolderAlone DEF HoldInv
<1> QED
  BY <1>2, <1>6, <1>7 DEF TaskInv

\* The end of a press.
LEMMA EnsureWatchdogKeeps ==
  ASSUME TaskInv, NEW t \in Users, Holds(t), EnsureWatchdog(t)
  PROVE  TaskInv'
<1>1. CASE Leave(t, "idle")
  <2>1. t \in Tasks /\ "idle" \in OpsOf(t) /\ "idle" \notin LockedOps /\ <<>> \in Seq(Accesses)
    BY DEF Tasks, OpsOf, DogOps, UserOps, LockedOps, StopOps, LatchOps
  <2> QED
    BY <1>1, <2>1, GoOnKeeps DEF Leave
<1>2. CASE \E d \in Dogs : IsNewTask(d) /\ StartWatchdog(t, d)
  BY <1>2, StartWatchdogKeeps DEF IsNewTask
<1> QED
  BY <1>1, <1>2 DEF EnsureWatchdog

\* The script of a move.
LEMMA MoveScriptType == MoveScript \in Seq(Accesses)
  BY DEF MoveScript, Accesses

\* The script of a press.
LEMMA PressScriptType ==
  <<"ready">> \o (IF modeReady THEN <<>> ELSE <<"mode">>) \o <<"velocity", "set", "clear">>
    \in Seq(Accesses)
<1> DEFINE a == <<"ready">>
           b == IF modeReady THEN <<>> ELSE <<"mode">>
           c == <<"velocity", "set", "clear">>
<1>1. a \in Seq(Accesses) /\ c \in Seq(Accesses)
  BY DEF Accesses
<1>2. b \in Seq(Accesses)
  <2>1. <<"mode">> \in Seq(Accesses) /\ <<>> \in Seq(Accesses)
    BY DEF Accesses
  <2> QED
    BY <2>1
<1> HIDE DEF a, b, c
<1>3. a \o b \o c \in Seq(Accesses)
  BY <1>1, <1>2, ConcatProperties
<1> QED
  BY <1>3 DEF a, b, c

\* The end of a release, of a close and of a watchdog's tick.
LEMMA AfterStopKeeps ==
  ASSUME TaskInv, ValueInv, NEW t \in Tasks, op[t] \in StopOps, Holds(t), NEW b,
         AfterStop(t, b)
  PROVE  TaskInv'
<1>0. op[t] \in OpsOf(t)
  BY RoleByTask DEF TaskInv
<1>1. CASE op[t] = "moverelease"
  <2>1. GoOn(t, "move", MoveScript)
    BY <1>1 DEF AfterStop
  <2>2. "move" \in OpsOf(t) /\ "move" \notin LockedOps
    BY <1>0, <1>1 DEF OpsOf, DogOps, UserOps, LockedOps, StopOps, LatchOps
  <2> QED
    BY <2>1, <2>2, MoveScriptType, GoOnKeeps
<1>2. CASE op[t] = "close"
  <2>1. t \in Users
    BY <1>0, <1>2 DEF OpsOf, DogOps, Tasks
  <2>2. /\ op' = [u \in Tasks |-> IF u = t THEN "closing"
                                  ELSE IF u = watchTask THEN "idle" ELSE op[u]]
        /\ todo' = [todo EXCEPT ![t] = <<>>]
        /\ queue' = Without(Tail(queue), watchTask)
    BY <1>2 DEF AfterStop
  <2> QED
    BY <2>1, <2>2, CloseKeeps
<1>3. CASE op[t] \notin {"moverelease", "close"}
  <2>1. Leave(t, Rest(t, b))
    BY <1>3 DEF AfterStop
  <2>2. Rest(t, b) \in OpsOf(t) /\ Rest(t, b) \notin LockedOps /\ <<>> \in Seq(Accesses)
    BY DEF Rest, OpsOf, DogOps, UserOps, LockedOps, StopOps, LatchOps
  <2> QED
    BY <2>1, <2>2, GoOnKeeps DEF Leave
<1> QED
  BY <1>1, <1>2, <1>3

\* Every step leaves the tasks, the lock and its queue in order.
LEMMA TaskStep ==
  ASSUME TaskInv, ValueInv, [Next]_vars
  PROVE  TaskInv'
<1> USE DEF LockedOps, StopOps, LatchOps
<1>t. /\ op \in [Tasks -> UserOps \cup DogOps] /\ \A u \in Tasks : op[u] \in OpsOf(u)
      /\ todo \in [Tasks -> Seq(Accesses)]
  BY RoleByTask DEF TaskInv
<1>u. \A t \in Tasks : OpsOf(t) \in {UserOps, DogOps}
                       /\ (t \in Users => OpsOf(t) = UserOps)
                       /\ (t \in Dogs => OpsOf(t) = DogOps)
  BY DEF OpsOf, Tasks, JogAssumption
<1>v. \A t \in Tasks : op[t] \notin DogOps => OpsOf(t) = UserOps
  BY <1>t, <1>u
<1>w. \A t \in Tasks : op[t] \in {"tick", "abort", "sleep"} => OpsOf(t) = DogOps
  BY <1>t, <1>u DEF UserOps
<1>s. /\ \A t \in Tasks : todo[t] # <<>> => Tail(todo[t]) \in Seq(Accesses)
      /\ <<>> \in Seq(Accesses) /\ \A a \in Accesses : <<a>> \in Seq(Accesses)
  BY <1>t
<1>x. Users \subseteq Tasks /\ Dogs \subseteq Tasks
  BY DEF Tasks
<1>1. ASSUME NEW t \in Users, NEW v \in Velocities, JogStart(t, v) PROVE TaskInv'
  <2>1. op[t] = "idle" /\ GoOn(t, "start", <<"position">>)
    BY <1>1 DEF JogStart, Calls
  <2>2. "start" \in OpsOf(t) /\ <<"position">> \in Seq(Accesses)
    BY <1>u, <1>s, <1>x DEF UserOps, Accesses
  <2> QED
    BY <2>1, <2>2, <1>x, GoOnKeeps
<1>2. ASSUME NEW t \in Users, NEW v \in Velocities, JogUpdate(t, v) PROVE TaskInv'
  <2>1. op[t] = "idle" /\ GoOn(t, "update", <<"position">>)
    BY <1>2 DEF JogUpdate, Calls
  <2>2. "update" \in OpsOf(t) /\ <<"position">> \in Seq(Accesses)
    BY <1>u, <1>s, <1>x DEF UserOps, Accesses
  <2> QED
    BY <2>1, <2>2, <1>x, GoOnKeeps
<1>3. ASSUME NEW t \in Users, JogStop(t) PROVE TaskInv'
  <2>1. op[t] = "idle" /\ WaitFor(t, "release") /\ "release" \in OpsOf(t)
    BY <1>3, <1>u, <1>x DEF JogStop, Calls, UserOps
  <2> QED
    BY <2>1, <1>x, WaitForKeeps
<1>4. ASSUME NEW t \in Users, Close(t) PROVE TaskInv'
  <2>1. op[t] = "idle" /\ WaitFor(t, "close") /\ "close" \in OpsOf(t)
    BY <1>4, <1>u, <1>x DEF Close, Calls, UserOps
  <2> QED
    BY <2>1, <1>x, WaitForKeeps
<1>5. ASSUME NEW t \in Users, Stop(t) PROVE TaskInv'
  <2>1. op[t] = "idle" /\ GoOn(t, "stop", <<"halt", "halt", "slow">>)
    BY <1>5 DEF Stop, Calls
  <2>2. "stop" \in OpsOf(t) /\ <<"halt", "halt", "slow">> \in Seq(Accesses)
    BY <1>u, <1>x DEF UserOps, Accesses
  <2> QED
    BY <2>1, <2>2, <1>x, GoOnKeeps
<1>6. ASSUME NEW t \in Users, Move(t) PROVE TaskInv'
  <2>1. op[t] = "idle" /\ {"move", "moverelease"} \subseteq OpsOf(t)
    BY <1>6, <1>u, <1>x DEF Move, Calls, UserOps
  <2>2. CASE WaitFor(t, "moverelease")
    BY <2>1, <2>2, <1>x, WaitForKeeps
  <2>3. CASE GoOn(t, "move", MoveScript)
    BY <2>1, <2>3, <1>x, MoveScriptType, GoOnKeeps
  <2> QED
    BY <1>6, <2>2, <2>3 DEF Move
<1>7. ASSUME NEW t \in Tasks, Access(t) PROVE TaskInv'
  <2> DEFINE script == IF Head(todo[t]) = "halt" THEN <<"slow">> ELSE Tail(todo[t])
  <2>1. /\ todo[t] # <<>> /\ (op[t] \in LockedOps => Holds(t))
        /\ todo' = [todo EXCEPT ![t] = script] /\ UNCHANGED <<queue, op>>
    BY <1>7, <1>t DEF Access, At, Answered
  <2>2. script \in Seq(Accesses)
    BY <2>1, <1>s DEF Accesses
  <2> HIDE DEF script
  <2> QED
    BY <2>1, <2>2, ScriptKeeps
<1>8. ASSUME NEW t \in Tasks, StartDecides(t) PROVE TaskInv'
  <2>1. op[t] = "start" /\ {"press", "warm"} \subseteq OpsOf(t) /\ <<"warmth">> \in Seq(Accesses)
    BY <1>8, <1>v, <1>s DEF StartDecides, UserOps, DogOps, Accesses
  <2>2. CASE WaitFor(t, "press")
    BY <2>1, <2>2, WaitForKeeps
  <2>3. CASE GoOn(t, "warm", <<"warmth">>)
    BY <2>1, <2>3, GoOnKeeps
  <2> QED
    BY <1>8, <2>2, <2>3 DEF StartDecides
<1>9. ASSUME NEW t \in Tasks, WarmDecides(t) PROVE TaskInv'
  <2>1. op[t] = "warm" /\ {"press", "invalidate"} \subseteq OpsOf(t)
    BY <1>9, <1>v DEF WarmDecides, UserOps, DogOps
  <2>2. CASE WaitFor(t, "press")
    BY <2>1, <2>2, WaitForKeeps
  <2>3. CASE WaitFor(t, "invalidate")
    BY <2>1, <2>3, WaitForKeeps
  <2> QED
    BY <1>9, <2>2, <2>3 DEF WarmDecides
<1>10. ASSUME NEW t \in Tasks, Invalidate(t) PROVE TaskInv'
  <2>1. Holds(t) /\ GoOn(t, "cold", <<"ready", "clear", "zero">>)
    BY <1>10 DEF Invalidate, Enters
  <2>2. "cold" \in OpsOf(t) /\ <<"ready", "clear", "zero">> \in Seq(Accesses)
    BY <1>10, <1>v DEF Invalidate, Enters, UserOps, DogOps, Accesses
  <2> QED
    BY <2>1, <2>2, GoOnKeeps
<1>11. ASSUME NEW t \in Tasks, ColdDone(t) PROVE TaskInv'
  <2>1. op[t] = "cold" /\ WaitFor(t, "press") /\ "press" \in OpsOf(t)
    BY <1>11, <1>v DEF ColdDone, UserOps, DogOps
  <2> QED
    BY <2>1, WaitForKeeps
<1>12. ASSUME NEW t \in Tasks, UpdateDecides(t) PROVE TaskInv'
  <2>1. op[t] = "update" /\ {"keepalive", "release", "idle"} \subseteq OpsOf(t)
    BY <1>12, <1>v DEF UpdateDecides, UserOps, DogOps
  <2>2. CASE WaitFor(t, "keepalive")
    BY <2>1, <2>2, WaitForKeeps
  <2>3. CASE WaitFor(t, "release")
    BY <2>1, <2>3, WaitForKeeps
  <2>4. CASE Leave(t, "idle")
    BY <2>1, <2>4, <1>s, GoOnKeeps DEF Leave
  <2> QED
    BY <1>12, <2>2, <2>3, <2>4 DEF UpdateDecides
<1>13. ASSUME NEW t \in Tasks, PressBegins(t) PROVE TaskInv'
  <2> DEFINE script == <<"ready">> \o (IF modeReady THEN <<>> ELSE <<"mode">>)
                                  \o <<"velocity", "set", "clear">>
  <2>1. Holds(t) /\ todo' = [todo EXCEPT ![t] = script] /\ UNCHANGED <<queue, op>>
    BY <1>13 DEF PressBegins, Enters
  <2>2. script \in Seq(Accesses)
    BY PressScriptType
  <2> HIDE DEF script
  <2> QED
    BY <2>1, <2>2, ScriptKeeps
<1>14. ASSUME NEW t \in Tasks, PressDone(t) PROVE TaskInv'
  <2>1. op[t] = "press" /\ Holds(t) /\ EnsureWatchdog(t)
    BY <1>14 DEF PressDone, At, Answered
  <2>2. t \in Users
    BY <2>1, <1>t, <1>u DEF DogOps, Tasks
  <2> QED
    BY <2>1, <2>2, EnsureWatchdogKeeps
<1>15. ASSUME NEW t \in Tasks, KeepaliveBegins(t) PROVE TaskInv'
  <2>1. Holds(t) /\ "idle" \in OpsOf(t) /\ <<"velocity", "set", "clear">> \in Seq(Accesses)
    BY <1>15, <1>u DEF KeepaliveBegins, Enters, UserOps, DogOps, Accesses
  <2>2. CASE /\ todo' = [todo EXCEPT ![t] = <<"velocity", "set", "clear">>]
             /\ UNCHANGED <<queue, op>>
    BY <2>1, <2>2, ScriptKeeps
  <2>3. CASE Leave(t, "idle")
    BY <2>1, <2>3, <1>s, GoOnKeeps DEF Leave
  <2> QED
    BY <1>15, <2>2, <2>3 DEF KeepaliveBegins
<1>16. ASSUME NEW t \in Tasks, KeepaliveDone(t) PROVE TaskInv'
  <2>1. Holds(t) /\ "idle" \in OpsOf(t) /\ Leave(t, "idle")
    BY <1>16, <1>u DEF KeepaliveDone, At, Answered, UserOps, DogOps
  <2> QED
    BY <2>1, <1>s, GoOnKeeps DEF Leave
<1>17. ASSUME NEW t \in Tasks, StopBegins(t) PROVE TaskInv'
  <2>1. op[t] \in StopOps /\ Holds(t) /\ <<"zero">> \in Seq(Accesses)
    BY <1>17, <1>s DEF StopBegins, Enters, Accesses
  <2>2. CASE todo' = [todo EXCEPT ![t] = <<"zero">>] /\ UNCHANGED <<queue, op>>
    BY <2>1, <2>2, ScriptKeeps
  <2>3. CASE AfterStop(t, jog.active)
    BY <2>1, <2>3, AfterStopKeeps
  <2> QED
    BY <1>17, <2>2, <2>3 DEF StopBegins
<1>18. ASSUME NEW t \in Tasks, StopDone(t) PROVE TaskInv'
  <2>1. op[t] \in StopOps /\ Holds(t) /\ AfterStop(t, FALSE)
    BY <1>18 DEF StopDone, At, Answered
  <2> QED
    BY <2>1, AfterStopKeeps
<1>19. ASSUME NEW t \in Tasks, FacadeDone(t) PROVE TaskInv'
  <2>1. (op[t] \in LockedOps => Holds(t)) /\ "idle" \in OpsOf(t) /\ Leave(t, "idle")
    BY <1>19, <1>u DEF FacadeDone, UserOps, DogOps
  <2> QED
    BY <2>1, <1>s, GoOnKeeps DEF Leave
<1>20. ASSUME NEW t \in Tasks, CallRaises(t) PROVE TaskInv'
  <2>1. (op[t] \in LockedOps => Holds(t)) /\ "idle" \in OpsOf(t) /\ Leave(t, "idle")
    BY <1>20, <1>u DEF CallRaises, Raises, At, Answered, UserOps, DogOps
  <2> QED
    BY <2>1, <1>s, GoOnKeeps DEF Leave
<1>21. ASSUME NEW t \in Tasks, CallGoesOn(t) PROVE TaskInv'
  <2>0. todo[t] # <<>> /\ (op[t] \in LockedOps => Holds(t))
    BY <1>21 DEF CallGoesOn, Raises, At, Answered
  <2>1. CASE op[t] = "warm" /\ WaitFor(t, "invalidate")
    BY <2>1, <1>v, WaitForKeeps DEF UserOps, DogOps
  <2>2. CASE op[t] = "stop" /\ GoOn(t, "stop", Tail(todo[t]))
    BY <2>0, <2>2, <1>v, <1>s, GoOnKeeps DEF UserOps, DogOps
  <2>3. CASE op[t] = "stop" /\ Leave(t, "idle")
    BY <2>0, <2>3, <1>v, <1>s, GoOnKeeps DEF Leave, UserOps, DogOps
  <2>4. CASE op[t] = "moverelease" /\ GoOn(t, "move", MoveScript)
    BY <2>0, <2>4, <1>v, MoveScriptType, GoOnKeeps DEF UserOps, DogOps
  <2> QED
    BY <1>21, <2>1, <2>2, <2>3, <2>4 DEF CallGoesOn
<1>22. ASSUME NEW t \in Tasks, CloseRaises(t) PROVE TaskInv'
  <2>1. (op[t] \in LockedOps => Holds(t)) /\ "closing" \in OpsOf(t) /\ Leave(t, "closing")
    BY <1>22, <1>v DEF CloseRaises, Raises, At, UserOps, DogOps
  <2> QED
    BY <2>1, <1>s, GoOnKeeps DEF Leave
<1>23. ASSUME NEW t \in Tasks, WatchdogRaises(t) PROVE TaskInv'
  <2>1. Holds(t) /\ {"idle", "sleep"} \subseteq OpsOf(t)
    BY <1>23, <1>w DEF WatchdogRaises, Raises, At, Answered, DogOps
  <2>2. Leave(t, "idle") \/ Leave(t, "sleep")
    BY <1>23 DEF WatchdogRaises
  <2> QED
    BY <2>1, <2>2, <1>s, GoOnKeeps DEF Leave
<1>24. ASSUME NEW t \in Dogs, Wake(t) PROVE TaskInv'
  <2>1. op[t] = "sleep" /\ {"idle", "tick", "abort"} \subseteq OpsOf(t) /\ t \in Tasks
    BY <1>24, <1>u, <1>x DEF Wake, DogOps
  <2>2. CASE WaitFor(t, "abort")
    BY <2>1, <2>2, WaitForKeeps
  <2>3. CASE WaitFor(t, "tick")
    BY <2>1, <2>3, WaitForKeeps
  <2>4. CASE Leave(t, "idle")
    BY <2>1, <2>4, <1>s, GoOnKeeps DEF Leave
  <2> QED
    BY <1>24, <2>2, <2>3, <2>4 DEF Wake
<1>25. CASE UNCHANGED taskVars
  BY <1>25 DEF TaskInv, RoleInv, LockInv, HoldInv, Holds, taskVars
<1>26. Expire \/ Quiet \/ UNCHANGED vars => UNCHANGED taskVars
  BY DEF Expire, Quiet, vars
<1>27. ASSUME NEW t \in Tasks, DropsSession(t) PROVE TaskInv'
  <2>1. op[t] \notin LockedOps /\ "idle" \in OpsOf(t) /\ Leave(t, "idle")
    BY <1>27, <1>u DEF DropsSession, UserOps, DogOps
  <2> QED
    BY <2>1, <1>s, GoOnKeeps DEF Leave
<1>28. ASSUME NEW t \in Tasks, AttemptFails(t) PROVE TaskInv'
  BY <1>28, <1>25 DEF AttemptFails
<1>29. ASSUME NEW w \in late, LateWrite(w) PROVE TaskInv'
  BY <1>29, <1>25 DEF LateWrite
<1> QED
  BY <1>1, <1>2, <1>3, <1>4, <1>5, <1>6, <1>7, <1>8, <1>9, <1>10, <1>11, <1>12, <1>13, <1>14, <1>15, <1>16, <1>17, <1>18, <1>19, <1>20, <1>21, <1>22, <1>23, <1>24, <1>25, <1>26, <1>27, <1>28, <1>29, <1>x DEF Next, Step

-----------------------------------------------------------------------------
(* Types. *)

\* The drive stays a drive.
LEMMA AfterType ==
  ASSUME drive \in DriveType, NEW a, NEW v \in Velocities \cup {0}
  PROVE  After(a, v) \in DriveType
<1>1. /\ [drive EXCEPT !.tv = v] \in DriveType /\ [drive EXCEPT !.tv = 0] \in DriveType
      /\ [drive EXCEPT !.mode = "PV"] \in DriveType /\ [drive EXCEPT !.mode = "PP"] \in DriveType
      /\ [drive EXCEPT !.bit4 = FALSE] \in DriveType /\ [drive EXCEPT !.pp = FALSE] \in DriveType
      /\ [drive EXCEPT !.tv = 0, !.pv = FALSE, !.pp = FALSE, !.bit4 = FALSE] \in DriveType
      /\ [drive EXCEPT !.bit4 = TRUE, !.pv = FALSE, !.pp = TRUE] \in DriveType
  BY DEF DriveType
<1>2. [drive EXCEPT !.bit4 = TRUE, !.pv = drive.tv # 0, !.pp = drive.pp /\ drive.tv = 0]
        \in DriveType
  <2> DEFINE b == drive.tv # 0
             c == drive.pp /\ drive.tv = 0
  <2>1. b \in BOOLEAN /\ c \in BOOLEAN
    BY DEF DriveType
  <2> HIDE DEF b, c
  <2>2. [drive EXCEPT !.bit4 = TRUE, !.pv = b, !.pp = c] \in DriveType
    BY <2>1 DEF DriveType
  <2> QED
    BY <2>2 DEF b, c
<1>3. /\ a = "velocity" => After(a, v) = [drive EXCEPT !.tv = v]
      /\ a = "zero" => After(a, v) = [drive EXCEPT !.tv = 0]
      /\ a = "mode" => After(a, v) = [drive EXCEPT !.mode = "PV"]
      /\ a = "pp" => After(a, v) = [drive EXCEPT !.mode = "PP"]
  BY DEF After
<1>4. /\ a \in {"clear", "cw"} => After(a, v) = [drive EXCEPT !.bit4 = FALSE]
      /\ a = "halt" =>
           After(a, v) = [drive EXCEPT !.tv = 0, !.pv = FALSE, !.pp = FALSE, !.bit4 = FALSE]
      /\ a \notin {"velocity", "zero", "mode", "pp", "set", "clear", "cw", "halt", "slow"}
           => After(a, v) = drive
  BY DEF After
<1>5. a = "slow" => After(a, v) \in {[drive EXCEPT !.tv = 0], [drive EXCEPT !.pp = FALSE]}
  BY DEF After
<1>6. a = "set" =>
        After(a, v) \in {drive,
          [drive EXCEPT !.bit4 = TRUE, !.pv = drive.tv # 0, !.pp = drive.pp /\ drive.tv = 0],
          [drive EXCEPT !.bit4 = TRUE, !.pv = FALSE, !.pp = TRUE]}
  BY DEF After
<1> QED
  BY <1>1, <1>2, <1>3, <1>4, <1>5, <1>6

\* Every step keeps the types.
LEMMA ValueStep ==
  ASSUME TaskInv, ValueInv, [Next]_vars
  PROVE  ValueInv'
<1> USE DEF ValueInv, jogVars, facadeVars, driveVars, wireVars, ghostVars, Answered, Does
<1>a. /\ \A a, t : t \in Tasks => After(a, vel[t]) \in DriveType
      /\ \A a : After(a, 0) \in DriveType
  BY AfterType
<1>x. Users \subseteq Tasks /\ Dogs \subseteq Tasks
  BY DEF Tasks
<1>j. /\ \A t \in Tasks : Refreshed(vel[t]) \in
           [active : BOOLEAN, velocity : Velocities \cup {0}, expired : BOOLEAN]
      /\ Refreshed(jog.velocity) \in
           [active : BOOLEAN, velocity : Velocities \cup {0}, expired : BOOLEAN]
      /\ Stopped \in [active : BOOLEAN, velocity : Velocities \cup {0}, expired : BOOLEAN]
  BY DEF Refreshed, Stopped
<1>n. /\ calls < MaxCalls => calls + 1 \in 0..MaxCalls
      /\ faults + repeats < MaxFaults =>
           faults + 1 \in 0..MaxFaults /\ repeats + 1 \in 0..MaxFaults
  BY DEF JogAssumption
<1>c. \A t \in Tasks : Copies(t) \subseteq Writes \X (Velocities \cup {0})
  BY DEF Copies
<1>1. ASSUME NEW t \in Users, NEW v \in Velocities, JogStart(t, v) PROVE ValueInv'
  BY <1>1, <1>x, <1>a, <1>j, <1>n DEF JogStart, Calls
<1>2. ASSUME NEW t \in Users, NEW v \in Velocities, JogUpdate(t, v) PROVE ValueInv'
  BY <1>2, <1>x, <1>a, <1>j, <1>n DEF JogUpdate, Calls
<1>3. ASSUME NEW t \in Users, JogStop(t) PROVE ValueInv'
  BY <1>3, <1>x, <1>a, <1>j, <1>n DEF JogStop, Calls
<1>4. ASSUME NEW t \in Users, Stop(t) PROVE ValueInv'
  BY <1>4, <1>x, <1>a, <1>j, <1>n DEF Stop, Calls
<1>5. ASSUME NEW t \in Users, Move(t) PROVE ValueInv'
  BY <1>5, <1>x, <1>a, <1>j, <1>n DEF Move, Calls
<1>6. ASSUME NEW t \in Users, Close(t) PROVE ValueInv'
  BY <1>6, <1>x, <1>a, <1>j, <1>n DEF Close, Calls
<1>7. ASSUME NEW t \in Tasks, Access(t) PROVE ValueInv'
  BY <1>7, <1>x, <1>a, <1>j, <1>n DEF Access
<1>8. ASSUME NEW t \in Tasks, StartDecides(t) PROVE ValueInv'
  BY <1>8, <1>x, <1>a, <1>j, <1>n DEF StartDecides
<1>9. ASSUME NEW t \in Tasks, WarmDecides(t) PROVE ValueInv'
  BY <1>9, <1>x, <1>a, <1>j, <1>n DEF WarmDecides
<1>10. ASSUME NEW t \in Tasks, Invalidate(t) PROVE ValueInv'
  BY <1>10, <1>x, <1>a, <1>j, <1>n DEF Invalidate
<1>11. ASSUME NEW t \in Tasks, ColdDone(t) PROVE ValueInv'
  BY <1>11, <1>x, <1>a, <1>j, <1>n DEF ColdDone
<1>12. ASSUME NEW t \in Tasks, UpdateDecides(t) PROVE ValueInv'
  BY <1>12, <1>x, <1>a, <1>j, <1>n DEF UpdateDecides
<1>13. ASSUME NEW t \in Tasks, PressBegins(t) PROVE ValueInv'
  BY <1>13, <1>x, <1>a, <1>j, <1>n DEF PressBegins
<1>14. ASSUME NEW t \in Tasks, PressDone(t) PROVE ValueInv'
  BY <1>14, <1>x, <1>a, <1>j, <1>n DEF PressDone, EnsureWatchdog, StartWatchdog
<1>15. ASSUME NEW t \in Tasks, KeepaliveBegins(t) PROVE ValueInv'
  BY <1>15, <1>x, <1>a, <1>j, <1>n DEF KeepaliveBegins
<1>16. ASSUME NEW t \in Tasks, KeepaliveDone(t) PROVE ValueInv'
  BY <1>16, <1>x, <1>a, <1>j, <1>n DEF KeepaliveDone
<1>17. ASSUME NEW t \in Tasks, StopBegins(t) PROVE ValueInv'
  BY <1>17, <1>x, <1>a, <1>j, <1>n DEF StopBegins, AfterStop
<1>18. ASSUME NEW t \in Tasks, StopDone(t) PROVE ValueInv'
  BY <1>18, <1>x, <1>a, <1>j, <1>n DEF StopDone, AfterStop
<1>19. ASSUME NEW t \in Tasks, FacadeDone(t) PROVE ValueInv'
  BY <1>19, <1>x, <1>a, <1>j, <1>n DEF FacadeDone
<1>20. ASSUME NEW t \in Tasks, CallRaises(t) PROVE ValueInv'
  BY <1>20, <1>x, <1>c, <1>n DEF CallRaises, Raises
<1>21. ASSUME NEW t \in Tasks, CallGoesOn(t) PROVE ValueInv'
  BY <1>21, <1>x, <1>c, <1>n DEF CallGoesOn, Raises
<1>22. ASSUME NEW t \in Tasks, CloseRaises(t) PROVE ValueInv'
  BY <1>22, <1>x, <1>c, <1>n DEF CloseRaises, Raises
<1>23. ASSUME NEW t \in Tasks, WatchdogRaises(t) PROVE ValueInv'
  BY <1>23, <1>x, <1>c, <1>n DEF WatchdogRaises, Raises
<1>24. ASSUME NEW t \in Dogs, Wake(t) PROVE ValueInv'
  BY <1>24, <1>x, <1>a, <1>j, <1>n DEF Wake
<1>25. ASSUME Expire PROVE ValueInv'
  BY <1>25, <1>x, <1>a, <1>j, <1>n DEF Expire, taskVars
<1>26. CASE Quiet \/ UNCHANGED vars
  BY <1>26 DEF Quiet, vars, taskVars
<1>27. ASSUME NEW t \in Tasks, DropsSession(t) PROVE ValueInv'
  BY <1>27, <1>x DEF DropsSession
<1>28. ASSUME NEW t \in Tasks, AttemptFails(t) PROVE ValueInv'
  BY <1>28, <1>c, <1>n DEF AttemptFails, taskVars
<1>29. ASSUME NEW w \in late, LateWrite(w) PROVE ValueInv'
  <2>1. After(w[1], w[2]) \in DriveType
    BY <1>29, AfterType
  <2> QED
    BY <1>29, <2>1 DEF LateWrite, taskVars
<1> QED
  BY <1>1, <1>2, <1>3, <1>4, <1>5, <1>6, <1>7, <1>8, <1>9, <1>10, <1>11, <1>12, <1>13, <1>14, <1>15, <1>16, <1>17, <1>18, <1>19, <1>20, <1>21, <1>22, <1>23, <1>24, <1>25, <1>26, <1>27, <1>28, <1>29, <1>x DEF Next, Step

-----------------------------------------------------------------------------
(* One watchdog. *)

\* A step that goes to the end of a press, a tick or a close leaves no second
\* watchdog.
LEMMA WatchStep ==
  ASSUME TaskInv, ValueInv, OneWatchdog, [Next]_vars
  PROVE  OneWatchdog'
<1> USE DEF OneWatchdog, LockedOps, StopOps, LatchOps, jogVars, vars, taskVars
<1>t. /\ op \in [Tasks -> UserOps \cup DogOps] /\ \A u \in Users : op[u] \in UserOps
      /\ \A d \in Dogs : op[d] \in DogOps
  BY DEF TaskInv, RoleInv
<1>x. Users \subseteq Tasks /\ Dogs \subseteq Tasks
  BY DEF Tasks
<1>d. Users \cap Dogs = {}
  BY DEF JogAssumption
<1>1. ASSUME NEW t \in Users, NEW v \in Velocities, JogStart(t, v) PROVE OneWatchdog'
  BY <1>1, <1>t, <1>x, <1>d DEF JogStart, WaitFor, GoOn, Leave, DogOps, UserOps, Calls
<1>2. ASSUME NEW t \in Users, NEW v \in Velocities, JogUpdate(t, v) PROVE OneWatchdog'
  BY <1>2, <1>t, <1>x, <1>d DEF JogUpdate, WaitFor, GoOn, Leave, DogOps, UserOps, Calls
<1>3. ASSUME NEW t \in Users, JogStop(t) PROVE OneWatchdog'
  BY <1>3, <1>t, <1>x, <1>d DEF JogStop, WaitFor, GoOn, Leave, DogOps, UserOps, Calls
<1>4. ASSUME NEW t \in Users, Stop(t) PROVE OneWatchdog'
  BY <1>4, <1>t, <1>x, <1>d DEF Stop, WaitFor, GoOn, Leave, DogOps, UserOps, Calls
<1>5. ASSUME NEW t \in Users, Move(t) PROVE OneWatchdog'
  BY <1>5, <1>t, <1>x, <1>d DEF Move, WaitFor, GoOn, Leave, DogOps, UserOps, Calls
<1>6. ASSUME NEW t \in Users, Close(t) PROVE OneWatchdog'
  BY <1>6, <1>t, <1>x, <1>d DEF Close, WaitFor, GoOn, Leave, DogOps, UserOps, Calls
<1>7. ASSUME NEW t \in Tasks, Access(t) PROVE OneWatchdog'
  BY <1>7, <1>t, <1>x, <1>d DEF Access, WaitFor, GoOn, Leave, DogOps, UserOps
<1>8. ASSUME NEW t \in Tasks, StartDecides(t) PROVE OneWatchdog'
  BY <1>8, <1>t, <1>x, <1>d DEF StartDecides, WaitFor, GoOn, Leave, DogOps, UserOps
<1>9. ASSUME NEW t \in Tasks, WarmDecides(t) PROVE OneWatchdog'
  BY <1>9, <1>t, <1>x, <1>d DEF WarmDecides, WaitFor, GoOn, Leave, DogOps, UserOps
<1>10. ASSUME NEW t \in Tasks, Invalidate(t) PROVE OneWatchdog'
  BY <1>10, <1>t, <1>x, <1>d DEF Invalidate, WaitFor, GoOn, Leave, DogOps, UserOps, Enters
<1>11. ASSUME NEW t \in Tasks, ColdDone(t) PROVE OneWatchdog'
  BY <1>11, <1>t, <1>x, <1>d DEF ColdDone, WaitFor, GoOn, Leave, DogOps, UserOps
<1>12. ASSUME NEW t \in Tasks, UpdateDecides(t) PROVE OneWatchdog'
  BY <1>12, <1>t, <1>x, <1>d DEF UpdateDecides, WaitFor, GoOn, Leave, DogOps, UserOps
<1>13. ASSUME NEW t \in Tasks, PressBegins(t) PROVE OneWatchdog'
  BY <1>13, <1>t, <1>x, <1>d DEF PressBegins, WaitFor, GoOn, Leave, DogOps, UserOps
<1>14. ASSUME NEW t \in Tasks, PressDone(t) PROVE OneWatchdog'
  BY <1>14, <1>t, <1>x, <1>d DEF PressDone, WaitFor, GoOn, Leave, DogOps, UserOps, EnsureWatchdog, IsNewTask, StartWatchdog
<1>15. ASSUME NEW t \in Tasks, KeepaliveBegins(t) PROVE OneWatchdog'
  BY <1>15, <1>t, <1>x, <1>d DEF KeepaliveBegins, WaitFor, GoOn, Leave, DogOps, UserOps, Enters
<1>16. ASSUME NEW t \in Tasks, KeepaliveDone(t) PROVE OneWatchdog'
  BY <1>16, <1>t, <1>x, <1>d DEF KeepaliveDone, WaitFor, GoOn, Leave, DogOps, UserOps
<1>17. ASSUME NEW t \in Tasks, StopBegins(t) PROVE OneWatchdog'
  BY <1>17, <1>t, <1>x, <1>d DEF StopBegins, WaitFor, GoOn, Leave, DogOps, UserOps, AfterStop, Rest
<1>18. ASSUME NEW t \in Tasks, StopDone(t) PROVE OneWatchdog'
  BY <1>18, <1>t, <1>x, <1>d DEF StopDone, WaitFor, GoOn, Leave, DogOps, UserOps, AfterStop, Rest
<1>19. ASSUME NEW t \in Tasks, FacadeDone(t) PROVE OneWatchdog'
  BY <1>19, <1>t, <1>x, <1>d DEF FacadeDone, WaitFor, GoOn, Leave, DogOps, UserOps
<1>20. ASSUME NEW t \in Tasks, CallRaises(t) PROVE OneWatchdog'
  BY <1>20, <1>t, <1>x, <1>d DEF CallRaises, WaitFor, GoOn, Leave, DogOps, UserOps
<1>21. ASSUME NEW t \in Tasks, CallGoesOn(t) PROVE OneWatchdog'
  BY <1>21, <1>t, <1>x, <1>d DEF CallGoesOn, WaitFor, GoOn, Leave, DogOps, UserOps
<1>22. ASSUME NEW t \in Tasks, CloseRaises(t) PROVE OneWatchdog'
  BY <1>22, <1>t, <1>x, <1>d DEF CloseRaises, WaitFor, GoOn, Leave, DogOps, UserOps
<1>23. ASSUME NEW t \in Tasks, WatchdogRaises(t) PROVE OneWatchdog'
  BY <1>23, <1>t, <1>x, <1>d DEF WatchdogRaises, WaitFor, GoOn, Leave, DogOps, UserOps
<1>24. ASSUME NEW t \in Dogs, Wake(t) PROVE OneWatchdog'
  BY <1>24, <1>t, <1>x, <1>d DEF Wake, WaitFor, GoOn, Leave, DogOps, UserOps
<1>25. ASSUME Expire PROVE OneWatchdog'
  BY <1>25, <1>t, <1>x, <1>d DEF Expire, WaitFor, GoOn, Leave, DogOps, UserOps
<1>26. CASE Quiet \/ UNCHANGED vars
  BY <1>26 DEF Quiet
<1>27. ASSUME NEW t \in Tasks, DropsSession(t) PROVE OneWatchdog'
  BY <1>27, <1>t, <1>x, <1>d DEF DropsSession, GoOn, Leave, DogOps, UserOps
<1>28. ASSUME NEW t \in Tasks, AttemptFails(t) PROVE OneWatchdog'
  BY <1>28 DEF AttemptFails
<1>29. ASSUME NEW w \in late, LateWrite(w) PROVE OneWatchdog'
  BY <1>29 DEF LateWrite
<1> QED
  BY <1>1, <1>2, <1>3, <1>4, <1>5, <1>6, <1>7, <1>8, <1>9, <1>10, <1>11, <1>12, <1>13, <1>14, <1>15, <1>16, <1>17, <1>18, <1>19, <1>20, <1>21, <1>22, <1>23, <1>24, <1>25, <1>26, <1>27, <1>28, <1>29, <1>x DEF Next, Step

-----------------------------------------------------------------------------
(* Scripts. *)

\* What is left of a script is part of it.
LEMMA MembersTail ==
  ASSUME NEW S, NEW s \in Seq(S), s # <<>>
  PROVE  /\ Members(Tail(s)) \subseteq Members(s) /\ Head(s) \in Members(s)
<1>1. /\ Len(s) \in Nat /\ Len(s) # 0 /\ Tail(s) \in Seq(S) /\ Len(Tail(s)) = Len(s) - 1
      /\ \A i \in 1..Len(Tail(s)) : Tail(s)[i] = s[i + 1]
      /\ Head(s) = s[1]
  BY HeadTailProperties
<1>2. \A i \in 1..Len(Tail(s)) : i + 1 \in 1..Len(s)
  BY <1>1
<1> QED
  BY <1>1, <1>2 DEF Members

\* No script but those of a press and a keepalive has a velocity in it.
LEMMA ScriptsWithoutVelocity ==
  /\ "velocity" \notin Members(<<>>)
  /\ "velocity" \notin Members(<<"position">>) /\ "velocity" \notin Members(<<"warmth">>)
  /\ "velocity" \notin Members(<<"zero">>) /\ "velocity" \notin Members(<<"slow">>)
  /\ "velocity" \notin Members(<<"halt", "slow">>)
  /\ "velocity" \notin Members(<<"halt", "halt", "slow">>)
  /\ "velocity" \notin Members(<<"ready", "clear", "zero">>)
  /\ "velocity" \notin Members(MoveScript)
  BY DEF Members, MoveScript

\* The end of a release, of a close or of a tick.
LEMMA AfterStopScripts ==
  ASSUME TaskInv, ValueInv, ScriptInv, NEW t \in Tasks, op[t] \in StopOps, NEW b, AfterStop(t, b)
  PROVE  ScriptInv'
<1> USE DEF TaskInv, RoleInv, LockedOps, StopOps, LatchOps, UserOps, DogOps, Leave, GoOn
<1>1. CASE op[t] = "moverelease"
  BY <1>1, ScriptsWithoutVelocity DEF AfterStop, ScriptInv
<1>2. CASE op[t] = "close"
  <2>1. /\ op' = [u \in Tasks |-> IF u = t THEN "closing"
                                  ELSE IF u = watchTask THEN "idle" ELSE op[u]]
        /\ todo' = [todo EXCEPT ![t] = <<>>]
    BY <1>2 DEF AfterStop
  <2>2. ASSUME NEW u \in Tasks PROVE
          /\ "velocity" \in Members(todo'[u]) => op'[u] \in LatchOps
          /\ op'[u] = "stop" =>
               todo'[u] \in {<<"halt", "halt", "slow">>, <<"halt", "slow">>, <<"slow">>}
    <3>1. CASE u = t
      BY <2>1, <3>1, ScriptsWithoutVelocity
    <3>2. CASE u # t /\ u = watchTask
      <4>1. u \in Dogs
        BY <3>2 DEF ValueInv, Tasks, JogAssumption
      <4>2. "velocity" \notin Members(todo[u])
        BY <4>1 DEF ScriptInv
      <4> QED
        BY <2>1, <3>2, <4>2
    <3>3. CASE u # t /\ u # watchTask
      BY <2>1, <3>3 DEF ScriptInv
    <3> QED
      BY <3>1, <3>2, <3>3
  <2> QED
    BY <2>2 DEF ScriptInv
<1>3. CASE op[t] \notin {"moverelease", "close"}
  BY <1>3, ScriptsWithoutVelocity DEF AfterStop, Rest, ScriptInv
<1> QED
  BY <1>1, <1>2, <1>3

\* No step writes a velocity into the script of anything but a press or a
\* keepalive.
LEMMA ScriptStep ==
  ASSUME TaskInv, ValueInv, ScriptInv, [Next]_vars
  PROVE  ScriptInv'
<1> USE DEF LockedOps, StopOps, LatchOps
<1>t. /\ op \in [Tasks -> UserOps \cup DogOps] /\ \A u \in Users : op[u] \in UserOps
      /\ \A d \in Dogs : op[d] \in DogOps
      /\ todo \in [Tasks -> Seq(Accesses)]
  BY DEF TaskInv, RoleInv
<1>x. Users \subseteq Tasks /\ Dogs \subseteq Tasks
  BY DEF Tasks
<1>g. \A t \in Tasks : \A o : Leave(t, o) /\ o # "stop" => ScriptInv'
  BY <1>t, ScriptsWithoutVelocity DEF ScriptInv, Leave, GoOn
<1>h. \A t \in Tasks : \A o : WaitFor(t, o) /\ o # "stop" => ScriptInv'
  BY <1>t, ScriptsWithoutVelocity DEF ScriptInv, WaitFor
<1>1. ASSUME NEW t \in Users, NEW v \in Velocities, JogStart(t, v) PROVE ScriptInv'
  BY <1>1, <1>t, <1>x, ScriptsWithoutVelocity DEF JogStart, Calls, GoOn, ScriptInv
<1>2. ASSUME NEW t \in Users, NEW v \in Velocities, JogUpdate(t, v) PROVE ScriptInv'
  BY <1>2, <1>t, <1>x, ScriptsWithoutVelocity DEF JogUpdate, Calls, GoOn, ScriptInv
<1>3. ASSUME NEW t \in Users, JogStop(t) PROVE ScriptInv'
  BY <1>3, <1>g, <1>h, <1>x DEF JogStop
<1>4. ASSUME NEW t \in Users, Stop(t) PROVE ScriptInv'
  BY <1>4, <1>t, <1>x, ScriptsWithoutVelocity DEF Stop, Calls, GoOn, ScriptInv
<1>5. ASSUME NEW t \in Users, Move(t) PROVE ScriptInv'
  <2>1. GoOn(t, "move", MoveScript) => ScriptInv'
    BY <1>t, <1>x, ScriptsWithoutVelocity DEF GoOn, ScriptInv
  <2> QED
    BY <1>5, <2>1, <1>h, <1>x DEF Move
<1>6. ASSUME NEW t \in Users, Close(t) PROVE ScriptInv'
  BY <1>6, <1>g, <1>h, <1>x DEF Close
<1>7. ASSUME NEW t \in Tasks, Access(t) PROVE ScriptInv'
  <2>1. /\ todo[t] # <<>> /\ UNCHANGED op
        /\ todo' = [todo EXCEPT ![t] =
                      IF Head(todo[t]) = "halt" THEN <<"slow">> ELSE Tail(todo[t])]
    BY <1>7, <1>t DEF Access, At, Answered
  <2>2. Members(Tail(todo[t])) \subseteq Members(todo[t])
    BY <2>1, <1>t, MembersTail
  <2>3. op[t] = "stop" /\ Head(todo[t]) # "halt" => Len(todo[t]) = 1
    BY DEF ScriptInv
  <2>4. Len(todo[t]) > 1
    BY <1>7 DEF Access
  <2> QED
    BY <2>1, <2>2, <2>3, <2>4, <1>t, ScriptsWithoutVelocity DEF ScriptInv
<1>8. ASSUME NEW t \in Tasks, StartDecides(t) PROVE ScriptInv'
  BY <1>8, <1>h, <1>t, ScriptsWithoutVelocity DEF StartDecides, GoOn, ScriptInv
<1>9. ASSUME NEW t \in Tasks, WarmDecides(t) PROVE ScriptInv'
  BY <1>9, <1>g, <1>h, <1>x DEF WarmDecides
<1>10. ASSUME NEW t \in Tasks, Invalidate(t) PROVE ScriptInv'
  BY <1>10, <1>t, ScriptsWithoutVelocity DEF Invalidate, GoOn, ScriptInv
<1>11. ASSUME NEW t \in Tasks, ColdDone(t) PROVE ScriptInv'
  BY <1>11, <1>g, <1>h, <1>x DEF ColdDone
<1>12. ASSUME NEW t \in Tasks, UpdateDecides(t) PROVE ScriptInv'
  BY <1>12, <1>g, <1>h, <1>x DEF UpdateDecides
<1>13. ASSUME NEW t \in Tasks, PressBegins(t) PROVE ScriptInv'
  BY <1>13, <1>t DEF PressBegins, Enters, ScriptInv
<1>14. ASSUME NEW t \in Tasks, PressDone(t) PROVE ScriptInv'
  <2>1. ASSUME NEW d \in Dogs, StartWatchdog(t, d) PROVE ScriptInv'
    BY <2>1, <1>t, <1>x, ScriptsWithoutVelocity DEF StartWatchdog, ScriptInv, DogOps
  <2> QED
    BY <1>14, <2>1, <1>g DEF PressDone, EnsureWatchdog
<1>15. ASSUME NEW t \in Tasks, KeepaliveBegins(t) PROVE ScriptInv'
  BY <1>15, <1>g, <1>t DEF KeepaliveBegins, Enters, ScriptInv
<1>16. ASSUME NEW t \in Tasks, KeepaliveDone(t) PROVE ScriptInv'
  BY <1>16, <1>g, <1>h, <1>x DEF KeepaliveDone
<1>17. ASSUME NEW t \in Tasks, StopBegins(t) PROVE ScriptInv'
  <2>1. todo' = [todo EXCEPT ![t] = <<"zero">>] /\ UNCHANGED op => ScriptInv'
    BY <1>17, <1>t, ScriptsWithoutVelocity DEF StopBegins, ScriptInv
  <2> QED
    BY <1>17, <2>1, AfterStopScripts DEF StopBegins
<1>18. ASSUME NEW t \in Tasks, StopDone(t) PROVE ScriptInv'
  BY <1>18, AfterStopScripts DEF StopDone
<1>19. ASSUME NEW t \in Tasks, FacadeDone(t) PROVE ScriptInv'
  BY <1>19, <1>g, <1>h, <1>x DEF FacadeDone
<1>20. ASSUME NEW t \in Tasks, CallRaises(t) PROVE ScriptInv'
  BY <1>20, <1>g, <1>h, <1>x DEF CallRaises
<1>21. ASSUME NEW t \in Tasks, CallGoesOn(t) PROVE ScriptInv'
  <2>1. CASE op[t] = "warm"
    BY <1>21, <2>1, <1>h DEF CallGoesOn
  <2>2. CASE op[t] = "stop"
    <3>1. Len(todo[t]) > 1 =>
            Tail(todo[t]) \in {<<"halt", "halt", "slow">>, <<"halt", "slow">>, <<"slow">>}
      <4>1. /\ Tail(<<"halt", "halt", "slow">>) = <<"halt", "slow">>
            /\ Tail(<<"halt", "slow">>) = <<"slow">>
            /\ Len(<<"slow">>) = 1
        OBVIOUS
      <4>2. todo[t] \in {<<"halt", "halt", "slow">>, <<"halt", "slow">>, <<"slow">>}
        BY <2>2 DEF ScriptInv
      <4>3. CASE todo[t] = <<"halt", "halt", "slow">>
        <5>1. Tail(todo[t]) = <<"halt", "slow">>
          BY ONLY <4>1, <4>3
        <5> QED
          BY <5>1
      <4>4. CASE todo[t] = <<"halt", "slow">>
        <5>1. Tail(todo[t]) = <<"slow">>
          BY ONLY <4>1, <4>4
        <5> QED
          BY <5>1
      <4>5. CASE todo[t] = <<"slow">>
        BY ONLY <4>1, <4>5
      <4> QED
        BY <4>2, <4>3, <4>4, <4>5
    <3>2. Len(todo[t]) > 1 /\ GoOn(t, "stop", Tail(todo[t])) => ScriptInv'
      BY <3>1, <1>t, ScriptsWithoutVelocity DEF GoOn, ScriptInv
    <3> QED
      BY <1>21, <2>2, <3>2, <1>g DEF CallGoesOn
  <2>3. CASE op[t] = "moverelease"
    BY <1>21, <2>3, <1>t, ScriptsWithoutVelocity DEF CallGoesOn, GoOn, ScriptInv
  <2> QED
    BY <1>21, <2>1, <2>2, <2>3 DEF CallGoesOn
<1>22. ASSUME NEW t \in Tasks, CloseRaises(t) PROVE ScriptInv'
  BY <1>22, <1>g, <1>h, <1>x DEF CloseRaises
<1>23. ASSUME NEW t \in Tasks, WatchdogRaises(t) PROVE ScriptInv'
  BY <1>23, <1>g, <1>h, <1>x DEF WatchdogRaises
<1>24. ASSUME NEW t \in Dogs, Wake(t) PROVE ScriptInv'
  BY <1>24, <1>g, <1>h, <1>x DEF Wake
<1>25. ASSUME Expire PROVE ScriptInv'
  BY <1>25 DEF Expire, ScriptInv, taskVars
<1>26. CASE Quiet \/ UNCHANGED vars
  BY <1>26 DEF Quiet, vars, taskVars, ScriptInv
<1>27. ASSUME NEW t \in Tasks, DropsSession(t) PROVE ScriptInv'
  BY <1>27, <1>g DEF DropsSession
<1>28. ASSUME NEW t \in Tasks, AttemptFails(t) PROVE ScriptInv'
  BY <1>28 DEF AttemptFails, ScriptInv, taskVars
<1>29. ASSUME NEW w \in late, LateWrite(w) PROVE ScriptInv'
  BY <1>29 DEF LateWrite, ScriptInv, taskVars
<1> QED
  BY <1>1, <1>2, <1>3, <1>4, <1>5, <1>6, <1>7, <1>8, <1>9, <1>10, <1>11, <1>12, <1>13, <1>14, <1>15, <1>16, <1>17, <1>18, <1>19, <1>20, <1>21, <1>22, <1>23, <1>24, <1>25, <1>26, <1>27, <1>28, <1>29, <1>x DEF Next, Step

-----------------------------------------------------------------------------
(* Keepalives. *)

\* A jog ends only under the lock, and the lock keeps keepalives away.
LEMMA KeepaliveStep ==
  ASSUME TaskInv, ValueInv, KeepaliveInv, [Next]_vars
  PROVE  KeepaliveInv'
<1> USE DEF KeepaliveInv, LockedOps, StopOps, LatchOps, jogVars, vars, taskVars
<1>t. /\ op \in [Tasks -> UserOps \cup DogOps] /\ \A u \in Users : op[u] \in UserOps
      /\ \A d \in Dogs : op[d] \in DogOps
      /\ todo \in [Tasks -> Seq(Accesses)]
  BY DEF TaskInv, RoleInv
<1>x. Users \subseteq Tasks /\ Dogs \subseteq Tasks
  BY DEF Tasks
<1>1. ASSUME NEW t \in Users, NEW v \in Velocities, JogStart(t, v) PROVE KeepaliveInv'
  BY <1>1, <1>x, <1>t DEF JogStart, WaitFor, GoOn, Leave, Calls
<1>2. ASSUME NEW t \in Users, NEW v \in Velocities, JogUpdate(t, v) PROVE KeepaliveInv'
  BY <1>2, <1>x, <1>t DEF JogUpdate, WaitFor, GoOn, Leave, Calls
<1>3. ASSUME NEW t \in Users, JogStop(t) PROVE KeepaliveInv'
  BY <1>3, <1>x, <1>t DEF JogStop, WaitFor, GoOn, Leave, Calls
<1>4. ASSUME NEW t \in Users, Stop(t) PROVE KeepaliveInv'
  BY <1>4, <1>x, <1>t DEF Stop, WaitFor, GoOn, Leave, Calls
<1>5. ASSUME NEW t \in Users, Move(t) PROVE KeepaliveInv'
  BY <1>5, <1>x, <1>t DEF Move, WaitFor, GoOn, Leave, Calls
<1>6. ASSUME NEW t \in Users, Close(t) PROVE KeepaliveInv'
  BY <1>6, <1>x, <1>t DEF Close, WaitFor, GoOn, Leave, Calls
<1>7. ASSUME NEW t \in Tasks, Access(t) PROVE KeepaliveInv'
  BY <1>7, <1>x, <1>t DEF Access, WaitFor, GoOn, Leave, At, Answered
<1>8. ASSUME NEW t \in Tasks, StartDecides(t) PROVE KeepaliveInv'
  BY <1>8, <1>x, <1>t DEF StartDecides, WaitFor, GoOn, Leave
<1>9. ASSUME NEW t \in Tasks, WarmDecides(t) PROVE KeepaliveInv'
  BY <1>9, <1>x, <1>t DEF WarmDecides, WaitFor, GoOn, Leave
<1>10. ASSUME NEW t \in Tasks, Invalidate(t) PROVE KeepaliveInv'
  BY <1>10, <1>x, <1>t DEF Invalidate, WaitFor, GoOn, Leave
<1>11. ASSUME NEW t \in Tasks, ColdDone(t) PROVE KeepaliveInv'
  BY <1>11, <1>x, <1>t DEF ColdDone, WaitFor, GoOn, Leave
<1>12. ASSUME NEW t \in Tasks, UpdateDecides(t) PROVE KeepaliveInv'
  BY <1>12, <1>x, <1>t DEF UpdateDecides, WaitFor, GoOn, Leave
<1>13. ASSUME NEW t \in Tasks, PressBegins(t) PROVE KeepaliveInv'
  BY <1>13, <1>x, <1>t DEF PressBegins, WaitFor, GoOn, Leave, Enters
<1>14. ASSUME NEW t \in Tasks, PressDone(t) PROVE KeepaliveInv'
  BY <1>14, <1>x, <1>t DEF PressDone, WaitFor, GoOn, Leave, EnsureWatchdog, IsNewTask, StartWatchdog, Refreshed
<1>15. ASSUME NEW t \in Tasks, KeepaliveBegins(t) PROVE KeepaliveInv'
  BY <1>15, <1>x, <1>t DEF KeepaliveBegins, WaitFor, GoOn, Leave, Refreshed
<1>16. ASSUME NEW t \in Tasks, KeepaliveDone(t) PROVE KeepaliveInv'
  BY <1>16, <1>x, <1>t DEF KeepaliveDone, WaitFor, GoOn, Leave, Refreshed
<1>17. ASSUME NEW t \in Tasks, StopBegins(t) PROVE KeepaliveInv'
  BY <1>17, <1>x, <1>t DEF StopBegins, WaitFor, GoOn, Leave, AfterStop, Rest, Enters
<1>18. ASSUME NEW t \in Tasks, StopDone(t) PROVE KeepaliveInv'
  <2>1. Holds(t) /\ op[t] \in StopOps /\ AfterStop(t, FALSE)
    BY <1>18 DEF StopDone, At, Answered
  <2>2. \A u \in Tasks : u # t /\ op[u] \in LockedOps => todo[u] = <<>>
    BY <2>1, HolderAlone
  <2>3. \A u \in Tasks : op'[u] = "keepalive" => u # t /\ op[u] = "keepalive" /\ todo'[u] = todo[u]
    BY <2>1, <1>t DEF AfterStop, GoOn, Leave, Rest
  <2> QED
    BY <2>2, <2>3
<1>19. ASSUME NEW t \in Tasks, FacadeDone(t) PROVE KeepaliveInv'
  BY <1>19, <1>x, <1>t DEF FacadeDone, WaitFor, GoOn, Leave
<1>20. ASSUME NEW t \in Tasks, CallRaises(t) PROVE KeepaliveInv'
  BY <1>20, <1>x, <1>t DEF CallRaises, WaitFor, GoOn, Leave
<1>21. ASSUME NEW t \in Tasks, CallGoesOn(t) PROVE KeepaliveInv'
  BY <1>21, <1>x, <1>t DEF CallGoesOn, WaitFor, GoOn, Leave, Raises, MoveScript
<1>22. ASSUME NEW t \in Tasks, CloseRaises(t) PROVE KeepaliveInv'
  BY <1>22, <1>x, <1>t DEF CloseRaises, WaitFor, GoOn, Leave
<1>23. ASSUME NEW t \in Tasks, WatchdogRaises(t) PROVE KeepaliveInv'
  BY <1>23, <1>x, <1>t DEF WatchdogRaises, WaitFor, GoOn, Leave
<1>24. ASSUME NEW t \in Dogs, Wake(t) PROVE KeepaliveInv'
  BY <1>24, <1>x, <1>t DEF Wake, WaitFor, GoOn, Leave
<1>25. ASSUME Expire PROVE KeepaliveInv'
  BY <1>25 DEF ValueInv, Expire
<1>26. CASE Quiet \/ UNCHANGED vars
  BY <1>26 DEF Quiet
<1>27. ASSUME NEW t \in Tasks, DropsSession(t) PROVE KeepaliveInv'
  BY <1>27, <1>x, <1>t DEF DropsSession, GoOn, Leave
<1>28. ASSUME NEW t \in Tasks, AttemptFails(t) PROVE KeepaliveInv'
  BY <1>28 DEF AttemptFails
<1>29. ASSUME NEW w \in late, LateWrite(w) PROVE KeepaliveInv'
  BY <1>29 DEF LateWrite
<1> QED
  BY <1>1, <1>2, <1>3, <1>4, <1>5, <1>6, <1>7, <1>8, <1>9, <1>10, <1>11, <1>12, <1>13, <1>14, <1>15, <1>16, <1>17, <1>18, <1>19, <1>20, <1>21, <1>22, <1>23, <1>24, <1>25, <1>26, <1>27, <1>28, <1>29, <1>x DEF Next, Step

-----------------------------------------------------------------------------
(* Motion. *)

\* An access changes the target velocity by writing it or zeroes it.
LEMMA TargetAfter ==
  ASSUME drive \in DriveType, NEW a, NEW v
  PROVE  /\ a # "velocity" => After(a, v).tv \in {drive.tv, 0}
         /\ a \in {"halt", "zero"} => After(a, v).tv = 0
         /\ a = "slow" /\ drive.mode = "PV" => After(a, v).tv = 0
<1>1. CASE a \in {"velocity", "zero", "mode", "pp"}
  BY <1>1 DEF After, DriveType
<1>2. CASE a \in {"clear", "cw", "halt"}
  BY <1>2 DEF After, DriveType
<1>3. CASE a = "set"
  <2>1. After(a, v) \in {drive,
          [drive EXCEPT !.bit4 = TRUE, !.pv = drive.tv # 0, !.pp = drive.pp /\ drive.tv = 0],
          [drive EXCEPT !.bit4 = TRUE, !.pv = FALSE, !.pp = TRUE]}
    BY <1>3 DEF After
  <2> QED
    BY <1>3, <2>1 DEF DriveType
<1>4. CASE a = "slow"
  BY <1>4 DEF After, DriveType
<1>5. CASE a \notin {"velocity", "zero", "mode", "pp", "clear", "cw", "halt", "set", "slow"}
  BY <1>5 DEF After
<1> QED
  BY <1>1, <1>2, <1>3, <1>4, <1>5

\* A script with accesses in it is not empty.
LEMMA Lengths ==
  ASSUME NEW S, NEW s \in Seq(S)
  PROVE  /\ Len(s) = 1 => s # <<>>
         /\ Len(s) > 1 => Tail(s) # <<>>
<1>1. Len(s) = 1 => s # <<>>
  OBVIOUS
<1> DEFINE r == Tail(s)
<1>2. ASSUME Len(s) > 1 PROVE r \in Seq(S) /\ Len(r) > 0
  <2>1. s # <<>> /\ Len(s) \in Nat
    BY <1>2
  <2>2. r \in Seq(S) /\ Len(r) = Len(s) - 1
    BY <2>1, HeadTailProperties
  <2> HIDE DEF r
  <2> QED
    BY <1>2, <2>1, <2>2
<1> HIDE DEF r
<1>3. r \in Seq(S) /\ Len(r) > 0 => r # <<>>
  OBVIOUS
<1> QED
  BY <1>1, <1>2, <1>3 DEF r

\* Only a press and a keepalive are at an access that writes a velocity.
LEMMA VelocityBy ==
  ASSUME TaskInv, ScriptInv, NEW t \in Tasks, todo[t] # <<>>, Head(todo[t]) = "velocity"
  PROVE  op[t] \in LatchOps
<1>1. todo[t] \in Seq(Accesses)
  BY DEF TaskInv, RoleInv
<1>2. "velocity" \in Members(todo[t])
  BY <1>1, MembersTail
<1> QED
  BY <1>2 DEF ScriptInv

\* No step leaves a target velocity on the drive that nobody answers for.
LEMMA VelocityStep ==
  ASSUME TaskInv, ValueInv, ScriptInv, KeepaliveInv, VelocityInv, [Next]_vars
  PROVE  VelocityInv'
<1> USE DEF VelocityInv, LockedOps, StopOps, LatchOps, jogVars, vars, taskVars,
            facadeVars, driveVars, ghostVars, Does
<1>t. /\ op \in [Tasks -> UserOps \cup DogOps] /\ \A u \in Users : op[u] \in UserOps
      /\ \A d \in Dogs : op[d] \in DogOps
      /\ todo \in [Tasks -> Seq(Accesses)]
  BY DEF TaskInv, RoleInv
<1>x. Users \subseteq Tasks /\ Dogs \subseteq Tasks
  BY DEF Tasks
<1>d. Users \cap Dogs = {}
  BY DEF JogAssumption
<1>p. \A t \in Tasks : op[t] = "press" => t \in Users
  BY <1>t DEF DogOps, Tasks
<1>a. /\ \A a, v : a # "velocity" => After(a, v).tv \in {drive.tv, 0}
      /\ \A a, v : a \in {"halt", "zero"} => After(a, v).tv = 0
      /\ \A a, v : a = "slow" /\ drive.mode = "PV" => After(a, v).tv = 0
  BY TargetAfter DEF ValueInv
<1>m. /\ \A a : a \in {"halt", "zero"} => Aims(a)
      /\ \A a, v : Aims(a) /\ a # "velocity" => After(a, v).tv = 0
  BY <1>a DEF Aims
<1>v. \A t \in Tasks : todo[t] # <<>> /\ Head(todo[t]) = "velocity" => op[t] \in LatchOps
  BY VelocityBy
<1>1. ASSUME NEW t \in Users, NEW v \in Velocities, JogStart(t, v) PROVE VelocityInv'
  BY <1>1, <1>x, <1>t, <1>d DEF JogStart, WaitFor, GoOn, Leave, Calls
<1>2. ASSUME NEW t \in Users, NEW v \in Velocities, JogUpdate(t, v) PROVE VelocityInv'
  BY <1>2, <1>x, <1>t, <1>d DEF JogUpdate, WaitFor, GoOn, Leave, Calls
<1>3. ASSUME NEW t \in Users, JogStop(t) PROVE VelocityInv'
  BY <1>3, <1>x, <1>t, <1>d DEF JogStop, WaitFor, GoOn, Leave, Calls
<1>4. ASSUME NEW t \in Users, Stop(t) PROVE VelocityInv'
  BY <1>4, <1>x, <1>t, <1>d DEF Stop, WaitFor, GoOn, Leave, Calls
<1>5. ASSUME NEW t \in Users, Move(t) PROVE VelocityInv'
  BY <1>5, <1>x, <1>t, <1>d DEF Move, WaitFor, GoOn, Leave, Calls
<1>6. ASSUME NEW t \in Users, Close(t) PROVE VelocityInv'
  BY <1>6, <1>x, <1>t, <1>d DEF Close, WaitFor, GoOn, Leave, Calls
<1>7. ASSUME NEW t \in Tasks, Access(t) PROVE VelocityInv'
  <2> DEFINE a == Head(todo[t])
  <2>1. /\ todo[t] # <<>> /\ Does(a, vel[t]) /\ Len(todo[t]) > 1
        /\ todo' = [todo EXCEPT ![t] = IF a = "halt" THEN <<"slow">> ELSE Tail(@)]
        /\ (a # "halt" => pressRaised' = pressRaised) /\ UNCHANGED <<op, jog>>
    BY <1>7, <1>t DEF Access, At, Answered, ValueInv
  <2>2. todo'[t] # <<>>
    <3>1. Tail(todo[t]) # <<>>
      <4>1. todo[t] \in Seq(Accesses) /\ Len(todo[t]) > 1
        BY <2>1, <1>t
      <4> QED
        BY <4>1, Lengths
    <3>2. <<"slow">> # <<>>
      OBVIOUS
    <3>3. todo'[t] = IF a = "halt" THEN <<"slow">> ELSE Tail(todo[t])
      BY <2>1, <1>t
    <3> QED
      BY <3>1, <3>2, <3>3
  <2>3. CASE a = "velocity"
    <3>1. op[t] = "press" \/ jog.active
      BY <2>1, <2>3, <1>v DEF KeepaliveInv
    <3> QED
      BY <3>1, <2>1, <2>2, <1>p
  <2>4. CASE a = "halt"
    BY <2>1, <2>4, <1>a
  <2>5. CASE a \notin {"velocity", "halt"}
    <3>1. drive'.tv \in {drive.tv, 0}
      BY <2>1, <2>5, <1>a
    <3>2. \A u \in Users : todo[u] # <<>> => todo'[u] # <<>>
      BY <2>1, <2>2, <1>t, <1>x
    <3>3. strayed' = (strayed /\ ~Aims(a)) /\ (Aims(a) => drive'.tv = 0)
      BY <2>1, <2>5, <1>m
    <3>4. strayed /\ drive'.tv # 0 => strayed'
      BY <3>3 DEF ValueInv
    <3> QED
      BY <3>1, <3>2, <3>4, <2>1, <2>5
  <2> QED
    BY <2>3, <2>4, <2>5
<1>8. ASSUME NEW t \in Tasks, StartDecides(t) PROVE VelocityInv'
  BY <1>8, <1>x, <1>t, <1>d DEF StartDecides, WaitFor, GoOn, Leave
<1>9. ASSUME NEW t \in Tasks, WarmDecides(t) PROVE VelocityInv'
  BY <1>9, <1>x, <1>t, <1>d DEF WarmDecides, WaitFor, GoOn, Leave
<1>10. ASSUME NEW t \in Tasks, Invalidate(t) PROVE VelocityInv'
  BY <1>10, <1>x, <1>t, <1>d DEF Invalidate, Enters, WaitFor, GoOn, Leave
<1>11. ASSUME NEW t \in Tasks, ColdDone(t) PROVE VelocityInv'
  BY <1>11, <1>a DEF ColdDone
<1>12. ASSUME NEW t \in Tasks, UpdateDecides(t) PROVE VelocityInv'
  BY <1>12, <1>x, <1>t, <1>d DEF UpdateDecides, WaitFor, GoOn, Leave
<1>13. ASSUME NEW t \in Tasks, PressBegins(t) PROVE VelocityInv'
  BY <1>13, <1>x, <1>t, <1>d DEF PressBegins, WaitFor, GoOn, Leave, Enters
<1>14. ASSUME NEW t \in Tasks, PressDone(t) PROVE VelocityInv'
  BY <1>14 DEF PressDone, Refreshed
<1>15. ASSUME NEW t \in Tasks, KeepaliveBegins(t) PROVE VelocityInv'
  BY <1>15, <1>x, <1>t, <1>d DEF KeepaliveBegins, WaitFor, GoOn, Leave, Refreshed, Enters
<1>16. ASSUME NEW t \in Tasks, KeepaliveDone(t) PROVE VelocityInv'
  BY <1>16 DEF KeepaliveDone, Refreshed
<1>17. ASSUME NEW t \in Tasks, StopBegins(t) PROVE VelocityInv'
  <2>1. jog' = jog /\ UNCHANGED <<drive, strayed, pressRaised>> /\ op[t] \in StopOps
    BY <1>17 DEF StopBegins
  <2>2. \A u \in Users : op[u] = "press" /\ todo[u] # <<>> =>
                           op'[u] = "press" /\ todo'[u] # <<>>
    <3>1. CASE todo' = [todo EXCEPT ![t] = <<"zero">>] /\ op' = op
      BY <3>1, <2>1, <1>t, <1>x
    <3>2. CASE AfterStop(t, jog.active)
      BY <3>2, <2>1, <1>t, <1>x, <1>d DEF AfterStop, Leave, GoOn, ValueInv, JogAssumption
    <3> QED
      BY <1>17, <3>1, <3>2 DEF StopBegins
  <2> QED
    BY <2>1, <2>2
<1>18. ASSUME NEW t \in Tasks, StopDone(t) PROVE VelocityInv'
  BY <1>18, <1>a DEF StopDone
<1>19. ASSUME NEW t \in Tasks, FacadeDone(t) PROVE VelocityInv'
  <2>0. Len(todo[t]) = 1 => todo[t] # <<>>
    <3>1. todo[t] \in Seq(Accesses)
      BY <1>t
    <3> QED
      BY <3>1, Lengths
  <2>1. /\ op[t] \in {"stop", "move"} /\ Len(todo[t]) = 1 /\ todo[t] # <<>>
        /\ Does(Head(todo[t]), 0) /\ Leave(t, "idle") /\ jog' = jog
        /\ pressRaised' = (pressRaised /\ ~(op[t] = "stop" /\ drive.mode = "PV"))
    BY <1>19, <2>0 DEF FacadeDone
  <2>2. drive'.tv \in {drive.tv, 0}
    BY <2>1, <1>a, <1>v
  <2>3. op[t] = "stop" => Head(todo[t]) = "slow"
    BY <2>1 DEF ScriptInv
  <2>4. op[t] = "stop" /\ drive.mode = "PV" => drive'.tv = 0
    BY <2>1, <2>3, <1>a
  <2>5. \A u \in Users : op[u] = "press" /\ todo[u] # <<>> =>
                           op'[u] = "press" /\ todo'[u] # <<>>
    BY <2>1, <1>t, <1>x DEF Leave, GoOn
  <2> QED
    BY <2>1, <2>2, <2>4, <2>5, <1>m, <1>v, <2>3 DEF ValueInv
<1>20. ASSUME NEW t \in Tasks, CallRaises(t) PROVE VelocityInv'
  <2>1. /\ UNCHANGED driveVars /\ Leave(t, "idle") /\ jog' = jog
        /\ pressRaised' = (pressRaised \/ op[t] = "press")
    BY <1>20 DEF CallRaises, Raises
  <2>2. CASE op[t] = "press"
    BY <2>1, <2>2
  <2>3. CASE op[t] # "press"
    BY <2>1, <2>3, <1>t, <1>x DEF Leave, GoOn
  <2> QED
    BY <2>2, <2>3
<1>21. ASSUME NEW t \in Tasks, CallGoesOn(t) PROVE VelocityInv'
  BY <1>21, <1>t, <1>x DEF CallGoesOn, Raises, WaitFor, Leave, GoOn
<1>22. ASSUME NEW t \in Tasks, CloseRaises(t) PROVE VelocityInv'
  BY <1>22, <1>t, <1>x DEF CloseRaises, Raises, WaitFor, Leave, GoOn
<1>23. ASSUME NEW t \in Tasks, WatchdogRaises(t) PROVE VelocityInv'
  BY <1>23, <1>t, <1>x DEF WatchdogRaises, Raises, WaitFor, Leave, GoOn
<1>24. ASSUME NEW t \in Dogs, Wake(t) PROVE VelocityInv'
  BY <1>24, <1>x, <1>t, <1>d DEF Wake, WaitFor, GoOn, Leave
<1>25. ASSUME Expire PROVE VelocityInv'
  BY <1>25 DEF ValueInv, Expire
<1>26. CASE Quiet \/ UNCHANGED vars
  BY <1>26 DEF Quiet
<1>27. ASSUME NEW t \in Tasks, DropsSession(t) PROVE VelocityInv'
  BY <1>27, <1>x, <1>t, <1>d DEF DropsSession, GoOn, Leave
<1>28. ASSUME NEW t \in Tasks, AttemptFails(t) PROVE VelocityInv'
  BY <1>28 DEF AttemptFails
<1>29. ASSUME NEW w \in late, LateWrite(w) PROVE VelocityInv'
  <2>1. CASE w[1] = "velocity"
    BY <1>29, <2>1 DEF LateWrite
  <2>2. CASE w[1] # "velocity"
    BY <1>29, <2>2, <1>a, <1>m DEF LateWrite
  <2> QED
    BY <2>1, <2>2
<1> QED
  BY <1>1, <1>2, <1>3, <1>4, <1>5, <1>6, <1>7, <1>8, <1>9, <1>10, <1>11, <1>12, <1>13, <1>14, <1>15, <1>16, <1>17, <1>18, <1>19, <1>20, <1>21, <1>22, <1>23, <1>24, <1>25, <1>26, <1>27, <1>28, <1>29, <1>x DEF Next, Step

-----------------------------------------------------------------------------
(* The watchdog on duty. *)

\* A watchdog goes idle only when the jog is over, as long as nobody stops the
\* drive behind its back.
LEMMA GuardStep ==
  ASSUME TaskInv, ValueInv, KeepaliveInv, NoAbortInv, WatchdogGuards,
         "stop" \notin Operations, [Next]_vars
  PROVE  NoAbortInv' /\ WatchdogGuards'
<1> USE DEF NoAbortInv, WatchdogGuards, LockedOps, StopOps, LatchOps, jogVars, vars,
            taskVars, facadeVars
<1>t. /\ op \in [Tasks -> UserOps \cup DogOps] /\ \A u \in Users : op[u] \in UserOps
      /\ \A d \in Dogs : op[d] \in DogOps
  BY DEF TaskInv, RoleInv
<1>x. Users \subseteq Tasks /\ Dogs \subseteq Tasks
  BY DEF Tasks
<1>d. Users \cap Dogs = {} /\ NoTask \notin Dogs
  BY DEF JogAssumption
<1>w. watchTask \in Dogs \cup {NoTask} /\ jog.active \in BOOLEAN
  BY DEF ValueInv
<1>y. \A t \in Tasks : t \in Users \/ t \in Dogs
  BY DEF Tasks
<1>1. ASSUME NEW t \in Users, NEW v \in Velocities, JogStart(t, v) PROVE NoAbortInv' /\ WatchdogGuards'
  BY <1>1, <1>x, <1>t, <1>d, <1>w, <1>y DEF JogStart, WaitFor, GoOn, Leave, UserOps, DogOps, Calls
<1>2. ASSUME NEW t \in Users, NEW v \in Velocities, JogUpdate(t, v) PROVE NoAbortInv' /\ WatchdogGuards'
  BY <1>2, <1>x, <1>t, <1>d, <1>w, <1>y DEF JogUpdate, WaitFor, GoOn, Leave, UserOps, DogOps, Calls
<1>3. ASSUME NEW t \in Users, JogStop(t) PROVE NoAbortInv' /\ WatchdogGuards'
  BY <1>3, <1>x, <1>t, <1>d, <1>w, <1>y DEF JogStop, WaitFor, GoOn, Leave, UserOps, DogOps, Calls
<1>4. ASSUME NEW t \in Users, Stop(t) PROVE NoAbortInv' /\ WatchdogGuards'
  BY <1>4 DEF Stop, Calls
<1>5. ASSUME NEW t \in Users, Move(t) PROVE NoAbortInv' /\ WatchdogGuards'
  BY <1>5, <1>x, <1>t, <1>d, <1>w, <1>y DEF Move, WaitFor, GoOn, Leave, UserOps, DogOps, Calls
<1>6. ASSUME NEW t \in Users, Close(t) PROVE NoAbortInv' /\ WatchdogGuards'
  BY <1>6, <1>x, <1>t, <1>d, <1>w, <1>y DEF Close, WaitFor, GoOn, Leave, UserOps, DogOps, Calls
<1>7. ASSUME NEW t \in Tasks, Access(t) PROVE NoAbortInv' /\ WatchdogGuards'
  BY <1>7, <1>x, <1>t, <1>d, <1>w, <1>y DEF Access, WaitFor, GoOn, Leave, UserOps, DogOps
<1>8. ASSUME NEW t \in Tasks, StartDecides(t) PROVE NoAbortInv' /\ WatchdogGuards'
  BY <1>8, <1>x, <1>t, <1>d, <1>w, <1>y DEF StartDecides, WaitFor, GoOn, Leave, UserOps, DogOps
<1>9. ASSUME NEW t \in Tasks, WarmDecides(t) PROVE NoAbortInv' /\ WatchdogGuards'
  BY <1>9, <1>x, <1>t, <1>d, <1>w, <1>y DEF WarmDecides, WaitFor, GoOn, Leave, UserOps, DogOps
<1>10. ASSUME NEW t \in Tasks, Invalidate(t) PROVE NoAbortInv' /\ WatchdogGuards'
  BY <1>10, <1>x, <1>t, <1>d, <1>w, <1>y DEF Invalidate, WaitFor, GoOn, Leave, UserOps, DogOps
<1>11. ASSUME NEW t \in Tasks, ColdDone(t) PROVE NoAbortInv' /\ WatchdogGuards'
  BY <1>11, <1>x, <1>t, <1>d, <1>w, <1>y DEF ColdDone, WaitFor, GoOn, Leave, UserOps, DogOps
<1>12. ASSUME NEW t \in Tasks, UpdateDecides(t) PROVE NoAbortInv' /\ WatchdogGuards'
  BY <1>12, <1>x, <1>t, <1>d, <1>w, <1>y DEF UpdateDecides, WaitFor, GoOn, Leave, UserOps, DogOps
<1>13. ASSUME NEW t \in Tasks, PressBegins(t) PROVE NoAbortInv' /\ WatchdogGuards'
  BY <1>13, <1>x, <1>t, <1>d, <1>w, <1>y DEF PressBegins, WaitFor, GoOn, Leave, UserOps, DogOps
<1>14. ASSUME NEW t \in Tasks, PressDone(t) PROVE NoAbortInv' /\ WatchdogGuards'
  <2>1. t \in Users /\ abort' = abort /\ EnsureWatchdog(t)
    BY <1>14, <1>t, <1>y DEF PressDone, DogOps
  <2>2. CASE watchTask # NoTask /\ op[watchTask] # "idle"
    BY <2>1, <2>2, <1>t, <1>x, <1>d, <1>w DEF EnsureWatchdog, Leave, GoOn
  <2>3. ASSUME NEW d \in Dogs, StartWatchdog(t, d) PROVE NoAbortInv' /\ WatchdogGuards'
    BY <2>1, <2>3, <1>t, <1>x, <1>d DEF StartWatchdog
  <2> QED
    BY <2>1, <2>2, <2>3 DEF EnsureWatchdog
<1>15. ASSUME NEW t \in Tasks, KeepaliveBegins(t) PROVE NoAbortInv' /\ WatchdogGuards'
  BY <1>15, <1>x, <1>t, <1>d, <1>w, <1>y DEF KeepaliveBegins, WaitFor, GoOn, Leave, UserOps, DogOps, Refreshed, Enters
<1>16. ASSUME NEW t \in Tasks, KeepaliveDone(t) PROVE NoAbortInv' /\ WatchdogGuards'
  BY <1>16, <1>x, <1>t, <1>d, <1>w, <1>y DEF KeepaliveDone, WaitFor, GoOn, Leave, UserOps, DogOps, Refreshed, At, Answered, KeepaliveInv
<1>17. ASSUME NEW t \in Tasks, StopBegins(t) PROVE NoAbortInv' /\ WatchdogGuards'
  <2>1. op[t] \in StopOps /\ jog' = jog /\ abort' = abort
    BY <1>17 DEF StopBegins
  <2>2. CASE UNCHANGED <<queue, op, modeReady, watchTask>>
    BY <2>1, <2>2
  <2>3. CASE AfterStop(t, jog.active) /\ (jog.active => op[t] = "tick")
    <3>1. CASE jog.active
      BY <2>1, <2>3, <3>1, <1>t, <1>x, <1>d, <1>w, <1>y
         DEF AfterStop, Leave, GoOn, Rest, UserOps, DogOps
    <3>2. CASE ~jog.active
      BY <2>1, <2>3, <3>2, <1>t, <1>x, <1>d, <1>w, <1>y
         DEF AfterStop, Leave, GoOn, Rest, UserOps, DogOps
    <3> QED
      BY <3>1, <3>2
  <2> QED
    BY <1>17, <2>2, <2>3 DEF StopBegins
<1>18. ASSUME NEW t \in Tasks, StopDone(t) PROVE NoAbortInv' /\ WatchdogGuards'
  <2>1. op[t] \in StopOps /\ ~jog'.active /\ abort' = abort /\ AfterStop(t, FALSE)
    BY <1>18 DEF StopDone, Stopped
  <2> QED
    BY <2>1, <1>t, <1>x, <1>y DEF AfterStop, Leave, GoOn, Rest
<1>19. ASSUME NEW t \in Tasks, FacadeDone(t) PROVE NoAbortInv' /\ WatchdogGuards'
  BY <1>19, <1>x, <1>t, <1>d, <1>w, <1>y DEF FacadeDone, WaitFor, GoOn, Leave, UserOps, DogOps
<1>20. ASSUME NEW t \in Tasks, CallRaises(t) PROVE NoAbortInv' /\ WatchdogGuards'
  BY <1>20, <1>x, <1>t, <1>d, <1>w, <1>y DEF CallRaises, WaitFor, GoOn, Leave, UserOps, DogOps, Raises
<1>21. ASSUME NEW t \in Tasks, CallGoesOn(t) PROVE NoAbortInv' /\ WatchdogGuards'
  BY <1>21, <1>x, <1>t, <1>d, <1>w, <1>y DEF CallGoesOn, WaitFor, GoOn, Leave, UserOps, DogOps, Raises
<1>22. ASSUME NEW t \in Tasks, CloseRaises(t) PROVE NoAbortInv' /\ WatchdogGuards'
  BY <1>22, <1>x, <1>t, <1>d, <1>w, <1>y DEF CloseRaises, WaitFor, GoOn, Leave, UserOps, DogOps, Raises
<1>23. ASSUME NEW t \in Tasks, WatchdogRaises(t) PROVE NoAbortInv' /\ WatchdogGuards'
  BY <1>23, <1>x, <1>t, <1>d, <1>w, <1>y DEF WatchdogRaises, WaitFor, GoOn, Leave, UserOps, DogOps, Raises
<1>24. ASSUME NEW t \in Dogs, Wake(t) PROVE NoAbortInv' /\ WatchdogGuards'
  BY <1>24, <1>x, <1>t, <1>d, <1>w, <1>y DEF Wake, WaitFor, GoOn, Leave, UserOps, DogOps
<1>25. ASSUME Expire PROVE NoAbortInv' /\ WatchdogGuards'
  BY <1>25, <1>w DEF ValueInv, Expire
<1>26. CASE Quiet \/ UNCHANGED vars
  BY <1>26 DEF Quiet
<1>27. ASSUME NEW t \in Tasks, DropsSession(t) PROVE NoAbortInv' /\ WatchdogGuards'
  BY <1>27, <1>x, <1>t, <1>d, <1>w, <1>y DEF DropsSession, GoOn, Leave, UserOps, DogOps
<1>28. ASSUME NEW t \in Tasks, AttemptFails(t) PROVE NoAbortInv' /\ WatchdogGuards'
  BY <1>28 DEF AttemptFails
<1>29. ASSUME NEW w \in late, LateWrite(w) PROVE NoAbortInv' /\ WatchdogGuards'
  BY <1>29 DEF LateWrite
<1> QED
  BY <1>1, <1>2, <1>3, <1>4, <1>5, <1>6, <1>7, <1>8, <1>9, <1>10, <1>11, <1>12, <1>13, <1>14, <1>15, <1>16, <1>17, <1>18, <1>19, <1>20, <1>21, <1>22, <1>23, <1>24, <1>25, <1>26, <1>27, <1>28, <1>29, <1>x DEF Next, Step

-----------------------------------------------------------------------------
(* Aborts. *)

\* The queue of the lock loses its head or gets one more task.
Queues(d) ==
  \/ queue' \in {queue, Tail(queue)}
  \/ \E t \in Tasks : t # d /\ queue' = Append(queue, t)

\* What a step does to the abort event, to the two ghosts that remember who is newer
\* than the last stop(), and to a watchdog that acts on an abort.
Forward ==
  /\ abort' => abort \/ (clean' = {} /\ ~owed')
  /\ \/ clean' \in {clean, {}}
     \/ ~abort' /\ \E t \in Users : op'[t] = "start" /\ clean' = clean \cup {t}
  /\ owed' => owed \/ \E t \in clean : Holds(t)
  /\ \A d \in Dogs :
       op'[d] = "abort" => (op[d] = "abort" /\ Queues(d)) \/ (abort /\ UNCHANGED <<clean, owed>>)

\* Every step goes this way.
LEMMA ForwardStep ==
  ASSUME TaskInv, ValueInv, OneWatchdog, [Next]_vars
  PROVE  Forward
<1> USE DEF Forward, Queues, OneWatchdog, StopOps, jogVars, facadeVars, ghostVars, taskVars, vars
<1>t. /\ op \in [Tasks -> UserOps \cup DogOps] /\ \A u \in Users : op[u] \in UserOps
      /\ \A d \in Dogs : op[d] \in DogOps
  BY DEF TaskInv, RoleInv
<1>x. Users \subseteq Tasks /\ Dogs \subseteq Tasks
  BY DEF Tasks
<1>d. Users \cap Dogs = {}
  BY DEF JogAssumption
<1>1. ASSUME NEW t \in Users, NEW v \in Velocities, JogStart(t, v) PROVE Forward
  BY <1>1, <1>t, <1>x, <1>d DEF JogStart, GoOn, Calls
<1>2. ASSUME NEW t \in Users, NEW v \in Velocities, JogUpdate(t, v) PROVE Forward
  BY <1>2, <1>t, <1>x, <1>d DEF JogUpdate, GoOn, Calls
<1>3. ASSUME NEW t \in Users, JogStop(t) PROVE Forward
  BY <1>3, <1>t, <1>x, <1>d DEF JogStop, WaitFor, Calls
<1>4. ASSUME NEW t \in Users, Stop(t) PROVE Forward
  BY <1>4, <1>t, <1>x, <1>d DEF Stop, GoOn, Calls
<1>5. ASSUME NEW t \in Users, Move(t) PROVE Forward
  BY <1>5, <1>t, <1>x, <1>d DEF Move, WaitFor, GoOn, Calls
<1>6. ASSUME NEW t \in Users, Close(t) PROVE Forward
  BY <1>6, <1>t, <1>x, <1>d DEF Close, WaitFor, Calls
<1>7. ASSUME NEW t \in Tasks, Access(t) PROVE Forward
  BY <1>7, <1>t, <1>x, <1>d DEF Access
<1>8. ASSUME NEW t \in Tasks, StartDecides(t) PROVE Forward
  BY <1>8, <1>t, <1>x, <1>d DEF StartDecides, WaitFor, GoOn
<1>9. ASSUME NEW t \in Tasks, WarmDecides(t) PROVE Forward
  BY <1>9, <1>t, <1>x, <1>d DEF WarmDecides, WaitFor
<1>10. ASSUME NEW t \in Tasks, Invalidate(t) PROVE Forward
  BY <1>10, <1>t, <1>x, <1>d DEF Invalidate, GoOn, Enters
<1>11. ASSUME NEW t \in Tasks, ColdDone(t) PROVE Forward
  BY <1>11, <1>t, <1>x, <1>d DEF ColdDone, WaitFor
<1>12. ASSUME NEW t \in Tasks, UpdateDecides(t) PROVE Forward
  BY <1>12, <1>t, <1>x, <1>d DEF UpdateDecides, WaitFor, GoOn, Leave
<1>13. ASSUME NEW t \in Tasks, PressBegins(t) PROVE Forward
  BY <1>13, <1>t, <1>x, <1>d DEF PressBegins
<1>14. ASSUME NEW t \in Tasks, PressDone(t) PROVE Forward
  <2>1. /\ op[t] = "press" /\ At(t, "clear") /\ EnsureWatchdog(t)
        /\ owed' = (t \in clean) /\ abort' = abort /\ clean' = clean
    BY <1>14 DEF PressDone, Answered
  <2>2. Holds(t)
    BY <2>1 DEF At, LockedOps, LatchOps
  <2>3. owed' => \E u \in clean : Holds(u)
    BY <2>1, <2>2
  <2>4. /\ queue' \in {queue, Tail(queue)}
        /\ \A d \in Tasks : op'[d] \in {op[d], "idle", "sleep"}
    <3>1. CASE Leave(t, "idle")
      BY <3>1, <1>t DEF Leave, GoOn
    <3>2. ASSUME NEW e \in Dogs, StartWatchdog(t, e)
          PROVE  /\ queue' \in {queue, Tail(queue)}
                 /\ \A d \in Tasks : op'[d] \in {op[d], "idle", "sleep"}
      BY <3>2, <1>t DEF StartWatchdog
    <3> QED
      BY <2>1, <3>1, <3>2 DEF EnsureWatchdog
  <2>5. \A d \in Dogs : op'[d] = "abort" => op[d] = "abort" /\ Queues(d)
    BY <2>4, <1>x
  <2> QED
    BY <2>1, <2>3, <2>5
<1>15. ASSUME NEW t \in Tasks, KeepaliveBegins(t) PROVE Forward
  BY <1>15, <1>t, <1>x, <1>d DEF KeepaliveBegins, GoOn, Leave
<1>16. ASSUME NEW t \in Tasks, KeepaliveDone(t) PROVE Forward
  BY <1>16, <1>t, <1>x, <1>d DEF KeepaliveDone, GoOn, Leave
<1>17. ASSUME NEW t \in Tasks, StopBegins(t) PROVE Forward
  BY <1>17, <1>t, <1>x, <1>d DEF StopBegins, AfterStop, GoOn, Leave, Rest
<1>18. ASSUME NEW t \in Tasks, StopDone(t) PROVE Forward
  BY <1>18, <1>t, <1>x, <1>d DEF StopDone, AfterStop, GoOn, Leave, Rest
<1>19. ASSUME NEW t \in Tasks, FacadeDone(t) PROVE Forward
  BY <1>19, <1>t, <1>x, <1>d DEF FacadeDone, GoOn, Leave
<1>20. ASSUME NEW t \in Tasks, CallRaises(t) PROVE Forward
  BY <1>20, <1>t, <1>x, <1>d DEF CallRaises, GoOn, Leave
<1>21. ASSUME NEW t \in Tasks, CallGoesOn(t) PROVE Forward
  BY <1>21, <1>t, <1>x, <1>d DEF CallGoesOn, WaitFor, GoOn, Leave
<1>22. ASSUME NEW t \in Tasks, CloseRaises(t) PROVE Forward
  BY <1>22, <1>t, <1>x, <1>d DEF CloseRaises, GoOn, Leave
<1>23. ASSUME NEW t \in Tasks, WatchdogRaises(t) PROVE Forward
  BY <1>23, <1>t, <1>x, <1>d DEF WatchdogRaises, GoOn, Leave
<1>24. ASSUME NEW t \in Dogs, Wake(t) PROVE Forward
  BY <1>24, <1>t, <1>x, <1>d DEF Wake, WaitFor, GoOn, Leave
<1>25. ASSUME Expire PROVE Forward
  BY <1>25 DEF Expire
<1>26. CASE Quiet \/ UNCHANGED vars
  BY <1>26 DEF Quiet
<1>27. ASSUME NEW t \in Tasks, DropsSession(t) PROVE Forward
  BY <1>27, <1>t, <1>x, <1>d DEF DropsSession, GoOn, Leave
<1>28. ASSUME NEW t \in Tasks, AttemptFails(t) PROVE Forward
  BY <1>28 DEF AttemptFails
<1>29. ASSUME NEW w \in late, LateWrite(w) PROVE Forward
  BY <1>29 DEF LateWrite
<1> QED
  BY <1>1, <1>2, <1>3, <1>4, <1>5, <1>6, <1>7, <1>8, <1>9, <1>10, <1>11, <1>12, <1>13, <1>14, <1>15, <1>16, <1>17, <1>18, <1>19, <1>20, <1>21, <1>22, <1>23, <1>24, <1>25, <1>26, <1>27, <1>28, <1>29, <1>x DEF Next, Step

\* A watchdog that acts on an abort stays ahead of the newer callers: whoever becomes
\* one of them is outside the lock.
LEMMA BehindKeeps ==
  ASSUME TaskInv, TaskInv', NEW d \in Dogs, Behind(d), Queues(d),
         \A t \in Tasks : t \in clean' => t \in clean \/ op'[t] \notin LockedOps
  PROVE  Behind(d)'
<1>1. /\ queue \in Seq(Tasks) /\ queue' \in Seq(Tasks) /\ Len(queue) \in Nat /\ Len(queue') \in Nat
      /\ \A t \in Tasks : op'[t] \in LockedOps <=> \E i \in 1..Len(queue') : queue'[i] = t
  BY DEF TaskInv, LockInv
<1>2. SUFFICES ASSUME NEW i \in 1..Len(queue'), NEW j \in 1..Len(queue'),
                      queue'[i] = d, queue'[j] \in clean'
               PROVE  i < j
  BY DEF Behind
<1>3. queue'[j] \in clean
  BY <1>1, <1>2
<1>4. CASE queue' = queue
  BY <1>2, <1>3, <1>4 DEF Behind
<1>5. CASE queue' = Tail(queue) /\ queue # <<>>
  <2>1. /\ Len(queue') = Len(queue) - 1
        /\ \A k \in 1..Len(queue') : queue'[k] = queue[k + 1]
    BY <1>1, <1>5, HeadTailProperties
  <2>2. i + 1 \in 1..Len(queue) /\ j + 1 \in 1..Len(queue)
    BY <1>1, <1>2, <2>1
  <2>3. queue[i + 1] = d /\ queue[j + 1] \in clean
    BY <1>2, <1>3, <2>1
  <2>4. i + 1 < j + 1
    BY <2>2, <2>3 DEF Behind
  <2> QED
    BY <2>4
<1>6. CASE queue' = Tail(queue) /\ queue = <<>>
  <2>1. Tail(<<>>) = <<>>
    OBVIOUS
  <2> QED
    BY <1>2, <1>4, <1>6, <2>1
<1>7. ASSUME NEW t \in Tasks, t # d, queue' = Append(queue, t) PROVE i < j
  <2>1. /\ Len(queue') = Len(queue) + 1 /\ queue'[Len(queue) + 1] = t
        /\ \A k \in 1..Len(queue) : queue'[k] = queue[k]
    BY <1>1, <1>7
  <2>2. i \in 1..Len(queue) /\ queue[i] = d
    BY <1>1, <1>2, <1>7, <2>1
  <2>3. CASE j \in 1..Len(queue)
    BY <1>3, <2>1, <2>2, <2>3 DEF Behind
  <2>4. CASE j = Len(queue) + 1
    BY <1>1, <2>2, <2>4
  <2> QED
    BY <1>1, <1>2, <2>1, <2>3, <2>4
<1> QED
  BY <1>4, <1>5, <1>6, <1>7 DEF Queues

\* The lock is first come, first served: a press of a newer caller comes after the
\* watchdog's abort.
LEMMA SparedStep ==
  ASSUME TaskInv, ValueInv, OneWatchdog, SparedInv, [Next]_vars
  PROVE  SparedInv'
<1>1. Forward /\ TaskInv' /\ clean \subseteq Users
  BY ForwardStep, TaskStep DEF ValueInv
<1>2. abort' => clean' = {} /\ ~owed'
  BY <1>1 DEF Forward, SparedInv
<1>3. ASSUME NEW d \in Dogs, op[d] = "abort", Queues(d) PROVE ~owed' /\ Behind(d)'
  <2>1. ~owed /\ Behind(d)
    BY <1>3 DEF SparedInv
  <2>2. ASSUME NEW t \in clean, Holds(t) PROVE FALSE
    <3>1. PICK i \in 1..Len(queue) : queue[i] = d
      BY <1>3 DEF TaskInv, LockInv, Tasks, LockedOps, StopOps
    <3>2. queue \in Seq(Tasks) /\ Len(queue) \in Nat /\ 1 \in 1..Len(queue) /\ queue[1] = t
      BY <2>2, <3>1 DEF TaskInv, LockInv, Holds
    <3>3. i < 1
      BY <2>1, <3>1, <3>2 DEF Behind
    <3> QED
      BY <3>1, <3>3
  <2>3. ~owed'
    BY <1>1, <2>1, <2>2 DEF Forward
  <2>4. ASSUME NEW t \in Tasks, t \in clean' PROVE t \in clean \/ op'[t] \notin LockedOps
    BY <1>1, <2>4 DEF Forward, LockedOps, StopOps, LatchOps
  <2> QED
    BY <1>1, <1>3, <2>1, <2>3, <2>4, BehindKeeps
<1>4. ASSUME NEW d \in Dogs, abort, UNCHANGED <<clean, owed>> PROVE ~owed' /\ Behind(d)'
  BY <1>4 DEF SparedInv, Behind
<1> QED
  BY <1>1, <1>2, <1>3, <1>4 DEF Forward, SparedInv

-----------------------------------------------------------------------------
(* Theorems. *)

\* The first state.
LEMMA InitInv ==
  ASSUME Init
  PROVE  /\ TaskInv /\ ValueInv /\ OneWatchdog /\ ScriptInv /\ KeepaliveInv /\ VelocityInv
         /\ NoAbortInv /\ WatchdogGuards /\ SparedInv
<1>x. Users \subseteq Tasks /\ Dogs \subseteq Tasks /\ "idle" \in UserOps \cap DogOps
      /\ "idle" \notin LockedOps \cup {"stop", "keepalive", "press", "abort"}
  BY DEF Tasks, UserOps, DogOps, LockedOps, StopOps, LatchOps
<1>1. TaskInv
  <2>1. RoleInv /\ HoldInv
    BY <1>x DEF Init, RoleInv, HoldInv
  <2>2. <<>> \in Seq(Tasks) /\ IsInjective(<<>>) /\ Len(<<>>) = 0
    BY DEF IsInjective
  <2>3. LockInv
    BY <1>x, <2>2 DEF Init, LockInv
  <2> QED
    BY <2>1, <2>3 DEF TaskInv
<1>2. ValueInv
  <2>1. /\ jog \in [active : BOOLEAN, velocity : Velocities \cup {0}, expired : BOOLEAN]
        /\ modeReady \in BOOLEAN /\ watchTask \in Dogs \cup {NoTask}
        /\ vel \in [Tasks -> Velocities \cup {0}]
    BY DEF Init, Stopped
  <2>2. drive \in DriveType
    BY DEF Init, DriveType
  <2>3. calls \in 0..MaxCalls /\ faults \in 0..MaxFaults /\ repeats \in 0..MaxFaults
    BY DEF Init, JogAssumption
  <2>4. /\ abort \in BOOLEAN /\ closed \in BOOLEAN /\ underway \subseteq Tasks
        /\ late \subseteq Writes \X (Velocities \cup {0})
        /\ pressRaised \in BOOLEAN /\ strayed \in BOOLEAN /\ clean \subseteq Users /\ owed \in BOOLEAN
    BY DEF Init
  <2> QED
    BY <2>1, <2>2, <2>3, <2>4 DEF ValueInv
<1>3. OneWatchdog /\ KeepaliveInv /\ VelocityInv
  BY <1>x DEF Init, OneWatchdog, KeepaliveInv, VelocityInv
<1>4. ScriptInv
  BY <1>x, ScriptsWithoutVelocity DEF Init, ScriptInv
<1>5. NoAbortInv /\ WatchdogGuards
  BY <1>x DEF Init, NoAbortInv, WatchdogGuards, Stopped
<1>6. SparedInv
  BY <1>x DEF Init, SparedInv
<1> QED
  BY <1>1, <1>2, <1>3, <1>4, <1>5, <1>6

\* The two invariants all the others rest on.
THEOREM TasksAndTypes == Spec => [](TaskInv /\ ValueInv)
<1>1. Init => TaskInv /\ ValueInv
  BY InitInv
<1>2. TaskInv /\ ValueInv /\ [Next]_vars => (TaskInv /\ ValueInv)'
  BY TaskStep, ValueStep
<1> QED
  BY <1>1, <1>2, PTL DEF Spec

\* Every variable keeps its type, and no task waits twice for the lock or is
\* left in its queue by a close that cancelled it (jog.py:119-205).
THEOREM TypeCorrect == Spec => []TypeOK
<1>1. TaskInv /\ ValueInv => TypeOK
  BY DEF TaskInv, ValueInv, RoleInv, LockInv, TypeOK, DriveType, UserOps, DogOps,
         LockedOps, StopOps, LatchOps
<1> QED
  BY <1>1, TasksAndTypes, PTL

\* However many callers press, release, stop and close, at most one watchdog
\* runs, and it is the one the controller knows (jog.py:182-185, 174-177).
THEOREM AtMostOneWatchdog == Spec => []OneWatchdog
<1>1. Init => OneWatchdog
  BY InitInv
<1>2. TaskInv /\ ValueInv /\ OneWatchdog /\ [Next]_vars => OneWatchdog'
  BY WatchStep
<1> QED
  BY <1>1, <1>2, TasksAndTypes, PTL DEF Spec

\* Scripts and keepalives stay in order.
THEOREM ScriptsAndKeepalives == Spec => [](ScriptInv /\ KeepaliveInv)
<1>1. Init => ScriptInv /\ KeepaliveInv
  BY InitInv
<1>2. TaskInv /\ ValueInv /\ ScriptInv /\ KeepaliveInv /\ [Next]_vars
        => (ScriptInv /\ KeepaliveInv)'
  BY ScriptStep, KeepaliveStep
<1> QED
  BY <1>1, <1>2, TasksAndTypes, PTL DEF Spec

\* A drive turns for a jog only under an active jog, during a press, after a
\* press that raised, or because the write of a failed attempt came after the
\* newer ones, whatever the callers do (jog.py:100-117, 222-234,
\* session.py:194-203).
THEOREM MotionAccounted == Spec => []MotionIsAccounted
<1>1. Init => VelocityInv
  BY InitInv
<1>2. TaskInv /\ ValueInv /\ ScriptInv /\ KeepaliveInv /\ VelocityInv /\ [Next]_vars
        => VelocityInv'
  BY VelocityStep
<1>3. VelocityInv => MotionIsAccounted
  BY DEF VelocityInv, MotionIsAccounted, Jogging, Pressing
<1> QED
  BY <1>1, <1>2, <1>3, TasksAndTypes, ScriptsAndKeepalives, PTL DEF Spec

\* As long as no caller uses stop(), an active jog always has its watchdog:
\* the deadline is looked at however often accesses raise (jog.py:182-205).
THEOREM WatchdogOnDuty ==
  ASSUME "stop" \notin Operations
  PROVE  Spec => []WatchdogGuards
<1>1. Init => NoAbortInv /\ WatchdogGuards
  BY InitInv
<1>2. TaskInv /\ ValueInv /\ KeepaliveInv /\ NoAbortInv /\ WatchdogGuards /\ [Next]_vars
        => (NoAbortInv /\ WatchdogGuards)'
  BY GuardStep
<1> QED
  BY <1>1, <1>2, TasksAndTypes, ScriptsAndKeepalives, PTL DEF Spec

\* However late the watchdog acts on a stop(), the jog it ends is not one begun by a
\* jog_start() that came after it (jog.py:194-198, motion_commands.py:454).
THEOREM NewJogSpared == Spec => StaleAbortSparesNewJog
<1> DEFINE Fact == \A d \in Dogs : op[d] = "abort" /\ jog.active /\ ~jog'.active => ~owed
<1>1. Init => OneWatchdog /\ SparedInv
  BY InitInv
<1>2. TaskInv /\ ValueInv /\ OneWatchdog /\ SparedInv /\ [Next]_vars
        => (OneWatchdog /\ SparedInv)'
  BY WatchStep, SparedStep
<1>3. SparedInv => [Fact]_vars
  BY DEF SparedInv
<1> QED
  BY <1>1, <1>2, <1>3, TasksAndTypes, PTL DEF Spec, StaleAbortSparesNewJog
=============================================================================
