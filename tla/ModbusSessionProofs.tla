------------------------ MODULE ModbusSessionProofs ------------------------
(***************************************************************************)
(* Safety of ModbusSession for any number of callers and keepalive         *)
(* threads, any retry budget and any range of transaction ids, and that it *)
(* implements DriveCalls: the ghosts of each request are counted, wherever *)
(* a copy of it may still be.                                              *)
(***************************************************************************)
EXTENDS ModbusSession, SequenceTheorems, FiniteSetTheorems, TLAPS

USE SessionAssumption

-----------------------------------------------------------------------------
(* The inductive invariant. *)

\* The opener only connects, before any caller works.
OpenerInv ==
  /\ pc[Opener] \in {"connect", "connected", "idle", "dead"}
  /\ pc[Opener] # "idle" => \A t \in Callers : pc[t] = "idle"
  /\ pc[Opener] = "connect" => sock = 0

\* A caller inside transceive() works on a request that was issued, and has
\* an attempt left whenever it waits for the lock.
CallerInv ==
  \A t \in Callers :
    /\ pc[t] # "dead"
    /\ pc[t] = "idle" => attempts[t] = 0
    /\ pc[t] = "lock" => attempts[t] < MaxAttempts
    /\ pc[t] # "idle" => req[t] \in Requests /\ req[t].id \in 1..issued

\* A keepalive cycle under way has a request of its own.
BeaterInv ==
  \A k \in Beaters :
    kaPc[k] \in {"lock", "recv"} => kaReq[k] \in Requests /\ kaReq[k].id = 0

\* Without a socket there is nothing on the connection.
QueueInv == sock = 0 => outq = <<>> /\ inq = <<>>

\* Two requests in play that carry the same transaction id are the same.
TidUnique == \A r1, r2 \in InPlay : r1.tid = r2.tid => r1.id = r2.id

TypeInv == TypeOK /\ OpenerInv /\ CallerInv /\ BeaterInv /\ QueueInv

SafetyInv == TypeInv /\ SerializedIo /\ TidUnique /\ (~Tolerant => OwnAnswer)

-----------------------------------------------------------------------------
(* Queues. *)

\* Appending an element adds it to the elements of a sequence and keeps its
\* type; used where a request is sent or answered.
LEMMA AppendElements ==
  ASSUME NEW S, NEW s \in Seq(S), NEW e \in S
  PROVE  /\ Append(s, e) \in Seq(S)
         /\ Append(s, e) # <<>>
         /\ Range(Append(s, e)) = Range(s) \cup {e}
<1>1. Append(s, e) \in Seq(S) /\ Append(s, e) # <<>>
  OBVIOUS
<1>2. /\ DOMAIN Append(s, e) = 1..(Len(s) + 1) /\ DOMAIN s = 1..Len(s)
      /\ \A i \in 1..Len(s) : Append(s, e)[i] = s[i]
      /\ Append(s, e)[Len(s) + 1] = e /\ Len(s) \in Nat
  OBVIOUS
<1>3. Range(Append(s, e)) \subseteq Range(s) \cup {e}
  BY <1>2 DEF Range
<1>4. Range(s) \cup {e} \subseteq Range(Append(s, e))
  BY <1>2 DEF Range
<1> QED
  BY <1>1, <1>3, <1>4

\* The head and the tail of a queue hold elements of the queue only; used
\* where the drive reads a request and a thread reads an answer.
LEMMA HeadTailElements ==
  ASSUME NEW S, NEW s \in Seq(S), s # <<>>
  PROVE  /\ Head(s) \in S /\ Head(s) \in Range(s)
         /\ Tail(s) \in Seq(S)
         /\ Range(Tail(s)) \subseteq Range(s)
<1>1. Head(s) \in S /\ Tail(s) \in Seq(S)
  OBVIOUS
<1>2. /\ Len(s) \in Nat /\ Len(s) > 0 /\ DOMAIN s = 1..Len(s)
      /\ Head(s) = s[1] /\ DOMAIN Tail(s) = 1..(Len(s) - 1)
      /\ \A i \in 1..(Len(s) - 1) : Tail(s)[i] = s[i + 1]
  OBVIOUS
<1> QED
  BY <1>1, <1>2 DEF Range

\* The elements of a queue of requests are requests.
LEMMA RangeElements ==
  ASSUME NEW S, NEW s \in Seq(S)
  PROVE  Range(s) \subseteq S
  BY DEF Range

\* Both functions of the generator stay in 1..MaxTid: next() and align()
\* never leave 0 behind (session.py:38-51).
LEMMA TidRange ==
  ASSUME NEW tid \in 1..MaxTid
  PROVE  FollowingTid(tid) \in 1..MaxTid /\ AlignedTid(tid + 1) \in 1..MaxTid
<1>1. FollowingTid(tid) \in 1..MaxTid
  BY DEF FollowingTid
<1>2. (tid + 1) % 65536 \in Nat
  OBVIOUS
<1>3. ((tid + 1) % 65536) % (MaxTid + 1) \in 0..MaxTid
  BY <1>2
<1> QED
  BY <1>1, <1>3 DEF AlignedTid

-----------------------------------------------------------------------------
(* Type correctness. *)

\* The session starts well typed: no socket, no request, ids from 1
\* (session.py:75-106).
LEMMA TypeInit == Init => TypeInv
<1> SUFFICES ASSUME Init PROVE TypeInv
  OBVIOUS
<1> USE DEF Workers
<1>1. WorkerType
  BY DEF Init, WorkerType
<1>2. BeaterType
  <2>1. stop \in BOOLEAN
    BY Zenon DEF Init
  <2> QED
    BY <2>1 DEF Init, BeaterType
<1>3. NetType
  <2>1. ever \in BOOLEAN
    BY Zenon DEF Init
  <2> QED
    BY <2>1 DEF Init, NetType
<1>4. CallType
  BY DEF Init, CallType
<1>5. OpenerInv /\ CallerInv /\ BeaterInv /\ QueueInv
  BY DEF Init, OpenerInv, CallerInv, BeaterInv, QueueInv
<1> QED
  BY <1>1, <1>2, <1>3, <1>4, <1>5 DEF TypeInv, TypeOK

\* What closing the socket leaves is well typed: in particular a request can
\* only be late on a connection that existed.
LEMMA CloseSocketType ==
  ASSUME TypeInv, CloseSocket, UNCHANGED signalVars
  PROVE  NetType' /\ QueueInv'
<1>1. \A r \in Range(outq) : r \in Requests /\ sock # 0
  BY RangeElements DEF TypeInv, TypeOK, NetType, QueueInv, Range
<1>2. \A r \in Range(outq) : r.id > 0 => <<sock, r.id>> \in (1..MaxConns) \X Ids
  BY <1>1 DEF TypeInv, TypeOK, NetType, Requests, Ids
<1> QED
  BY <1>2 DEF CloseSocket, TypeInv, TypeOK, NetType, QueueInv, signalVars

\* Sending keeps the connection well typed (modbus_tcp_client.py:108-109).
LEMMA TransmitType ==
  ASSUME TypeInv, sock # 0, NEW r \in Requests, Transmit(r), UNCHANGED signalVars
  PROVE  NetType' /\ QueueInv'
BY AppendElements DEF Transmit, TypeInv, TypeOK, NetType, QueueInv, signalVars

\* Reading an answer keeps the connection well typed
\* (modbus_tcp_client.py:111-122).
LEMMA TakeAnswerType ==
  ASSUME TypeInv, TakeAnswer, UNCHANGED signalVars
  PROVE  NetType' /\ QueueInv' /\ Head(inq) \in Requests
BY HeadTailElements DEF TakeAnswer, TypeInv, TypeOK, NetType, QueueInv, signalVars

\* A finished worker is idle with a fresh budget, and its call has a result.
LEMMA FinishType ==
  ASSUME TypeInv, NEW t \in Callers, pc[t] # "idle",
         NEW result \in {"ok", "err", "foreign"}, Finish(t, result),
         lock' = lock \/ lock' = NoThread, UNCHANGED <<issued, executed>>,
         nextTid' \in 1..MaxTid
  PROVE  WorkerType' /\ CallType' /\ OpenerInv' /\ CallerInv'
<1> USE DEF TypeInv, TypeOK, Workers
<1>1. WorkerType'
  BY DEF WorkerType, Finish
<1>2. CallType'
  BY DEF CallType, Finish
<1>3. OpenerInv' /\ CallerInv'
  BY DEF OpenerInv, CallerInv, Finish, WorkerType
<1> QED
  BY <1>1, <1>2, <1>3

\* A worker that gave the lock up after an exception has no new result.
LEMMA FailType ==
  ASSUME TypeInv, NEW t \in Callers, pc[t] # "idle", Fail(t), UNCHANGED tidVars,
         UNCHANGED executed
  PROVE  WorkerType' /\ CallType' /\ OpenerInv' /\ CallerInv'
BY DEF TypeInv, TypeOK, Workers, WorkerType, CallType, OpenerInv, CallerInv, Fail, tidVars

\* Every step of a caller, a keepalive thread, close() or the drive keeps
\* the types and what is known of each thread's place in the code.
LEMMA TypeNext == TypeInv /\ [Next]_vars => TypeInv'
<1> SUFFICES ASSUME TypeInv, [Next]_vars PROVE TypeInv'
  OBVIOUS
<1> USE DEF TypeInv, TypeOK, Workers, lockVars, workerVars, beatVars,
            closeVars, netVars, tidVars, signalVars, callVars
<1> DEFINE Same == /\ UNCHANGED <<beatVars, closeVars>> => BeaterType' /\ BeaterInv'
                   /\ UNCHANGED <<netVars, signalVars>> => NetType' /\ QueueInv'
                   /\ UNCHANGED <<tidVars, callVars>> => CallType'
                   /\ UNCHANGED <<lockVars, workerVars, issued>> => WorkerType' /\ CallerInv'
                   /\ UNCHANGED workerVars /\ sock' \in {sock, 0} => OpenerInv'
<1>0. Same
  BY DEF BeaterType, BeaterInv, NetType, QueueInv, CallType, WorkerType,
         OpenerInv, CallerInv
<1> HIDE DEF Same
<1>1. ASSUME NEW t \in Callers, Call(t) PROVE TypeInv'
  <2>1. /\ nextTid \in 1..MaxTid /\ issued' \in 1..MaxRequests
        /\ issued' = issued + 1 /\ issued \in Nat
    BY <1>1 DEF Call, CallType
  <2>2. PICK r \in Requests : r.id = issued + 1 /\ req' = [req EXCEPT ![t] = r]
    <3>1. PICK x \in Indexes :
            req' = [req EXCEPT ![t] = [id |-> issued + 1, tid |-> nextTid, index |-> x]]
      BY <1>1 DEF Call
    <3>2. [id |-> issued + 1, tid |-> nextTid, index |-> x] \in Requests
      BY <2>1 DEF Requests
    <3> QED
      BY <3>1, <3>2
  <2>3. WorkerType' /\ OpenerInv'
    BY <1>1, <2>2 DEF Call, WorkerType, OpenerInv
  <2>4. CallerInv'
    BY <1>1, <2>1, <2>2 DEF Call, WorkerType, CallerInv, Requests
  <2>5. CallType'
    <3>1. nextTid' \in 1..MaxTid
      BY <1>1, <2>1, TidRange DEF Call
    <3>2. issued + 1 \in Ids
      BY <2>1 DEF Ids
    <3> QED
      BY <1>1, <2>1, <3>1, <3>2 DEF Call, CallType
  <2> QED
    BY <1>1, <1>0, <2>3, <2>4, <2>5 DEF Call, Same
<1>2. ASSUME NEW t \in Callers, Abandon(t) PROVE TypeInv'
  <2>1. CallType'
    BY <1>2 DEF Abandon, CallType
  <2> QED
    BY <1>2, <1>0, <2>1 DEF Abandon, Same
<1>3. ASSUME NEW t \in Workers, Acquire(t) PROVE TypeInv'
  <2>1. WorkerType' /\ OpenerInv' /\ CallerInv'
    BY <1>3 DEF Acquire, WorkerType, OpenerInv, CallerInv
  <2> QED
    BY <1>3, <1>0, <2>1 DEF Acquire, Same
<1>4. ASSUME NEW t \in Workers, ReuseSocket(t) PROVE TypeInv'
  <2>1. WorkerType' /\ OpenerInv' /\ CallerInv'
    <3>1. sock \in 0..MaxConns /\ t \in Callers
      BY <1>4 DEF ReuseSocket, NetType, OpenerInv
    <3> QED
      BY <1>4, <3>1 DEF ReuseSocket, WorkerType, OpenerInv, CallerInv
  <2> QED
    BY <1>4, <1>0, <2>1 DEF ReuseSocket, Same
<1>5. ASSUME NEW t \in Workers, OpenSocket(t) PROVE TypeInv'
  <2>1. WorkerType' /\ OpenerInv' /\ CallerInv'
    BY <1>5 DEF OpenSocket, WorkerType, NetType, OpenerInv, CallerInv
  <2>2. NetType' /\ QueueInv'
    BY <1>5 DEF OpenSocket, NetType, QueueInv
  <2> QED
    BY <1>5, <1>0, <2>1, <2>2 DEF OpenSocket, Same
<1>6. ASSUME NEW t \in Workers, OpenFails(t) PROVE TypeInv'
  <2>1. CASE t = Opener
    <3>1. WorkerType' /\ CallType' /\ OpenerInv' /\ CallerInv'
      BY <1>6, <2>1 DEF OpenFails, WorkerType, CallType, OpenerInv, CallerInv
    <3> QED
      BY <1>6, <1>0, <3>1 DEF OpenFails, Same
  <2>2. CASE t \in Callers
    BY <1>6, <1>0, <2>2, FailType DEF OpenFails, Same
  <2> QED
    BY <2>1, <2>2
<1>7. ASSUME NEW t \in Workers, ConnectDone(t) PROVE TypeInv'
  <2>1. WorkerType' /\ OpenerInv' /\ CallerInv'
    BY <1>7 DEF ConnectDone, WorkerType, OpenerInv, CallerInv
  <2>2. BeaterType' /\ BeaterInv'
    <3>1. CASE kaThread = NoThread
      BY <1>7, <3>1 DEF ConnectDone, StartKeepalive, BeaterType, BeaterInv
    <3>2. CASE kaThread # NoThread
      BY <1>7, <3>2, <1>0 DEF ConnectDone, Same
    <3> QED
      BY <3>1, <3>2
  <2>3. NetType' /\ QueueInv'
    BY <1>7 DEF ConnectDone, NetType, QueueInv
  <2> QED
    BY <1>7, <1>0, <2>1, <2>2, <2>3 DEF ConnectDone, Same
<1>8. ASSUME NEW t \in Workers, Send(t) PROVE TypeInv'
  <2>1. t \in Callers /\ req[t] \in Requests
    BY <1>8 DEF Send, OpenerInv, CallerInv
  <2>2. NetType' /\ QueueInv'
    BY <1>8, <2>1, TransmitType DEF Send
  <2>3. WorkerType' /\ OpenerInv' /\ CallerInv'
    BY <1>8 DEF Send, WorkerType, OpenerInv, CallerInv
  <2> QED
    BY <1>8, <1>0, <2>2, <2>3 DEF Send, Same
<1>9. ASSUME NEW t \in Workers, IoFails(t) PROVE TypeInv'
  <2>1. t \in Callers
    BY <1>9 DEF IoFails, OpenerInv
  <2> QED
    BY <1>9, <1>0, <2>1, FailType DEF IoFails, Same
<1>10. ASSUME NEW t \in Workers, IoRaises(t) PROVE TypeInv'
  <2>1. t \in Callers
    BY <1>10 DEF IoRaises, OpenerInv
  <2>2. nextTid \in 1..MaxTid
    BY DEF CallType
  <2>3. WorkerType' /\ CallType' /\ OpenerInv' /\ CallerInv'
    BY <1>10, <2>1, <2>2, FinishType DEF IoRaises
  <2> QED
    BY <1>10, <1>0, <2>3 DEF IoRaises, Same
<1>11. ASSUME NEW t \in Workers, Receive(t) PROVE TypeInv'
  <2>1. t \in Callers /\ req[t] \in Requests
    BY <1>11 DEF Receive, OpenerInv, CallerInv
  <2>2. NetType' /\ QueueInv' /\ Head(inq) \in Requests
    BY <1>11, TakeAnswerType DEF Receive
  <2>3. nextTid' \in 1..MaxTid
    BY <1>11, <2>2, TidRange DEF Receive, CallType, Requests
  <2>4. PICK result \in {"ok", "err", "foreign"} : Finish(t, result)
    BY <1>11 DEF Receive
  <2>5. WorkerType' /\ CallType' /\ OpenerInv' /\ CallerInv'
    BY <1>11, <2>1, <2>3, <2>4, FinishType DEF Receive
  <2> QED
    BY <1>11, <1>0, <2>2, <2>5 DEF Receive, Same
<1>12. ASSUME NEW t \in Workers, Reclose(t) PROVE TypeInv'
  <2>1. t \in Callers
    BY <1>12 DEF Reclose, OpenerInv
  <2>2. NetType' /\ QueueInv'
    BY <1>12, CloseSocketType DEF Reclose
  <2>3. WorkerType' /\ CallType' /\ OpenerInv' /\ CallerInv'
    <3>1. CASE stop \/ ~CanRetry(t)
      <4>1. nextTid \in 1..MaxTid
        BY DEF CallType
      <4> QED
        BY <1>12, <2>1, <3>1, <4>1, FinishType DEF Reclose
    <3>2. CASE ~(stop \/ ~CanRetry(t))
      BY <1>12, <2>1, <3>2 DEF Reclose, CanRetry, WorkerType, CallType,
                               OpenerInv, CallerInv
    <3> QED
      BY <3>1, <3>2
  <2> QED
    BY <1>12, <1>0, <2>2, <2>3 DEF Reclose, Same
<1>13. ASSUME NEW k \in Beaters, KaCycle(k) PROVE TypeInv'
  <2>1. BeaterType' /\ BeaterInv'
    BY <1>13 DEF KaCycle, BeaterType, BeaterInv, CallType, Requests
  <2>2. CallType'
    BY <1>13, TidRange DEF KaCycle, CallType
  <2> QED
    BY <1>13, <1>0, <2>1, <2>2 DEF KaCycle, Same
<1>14. ASSUME NEW k \in Beaters, KaExit(k) PROVE TypeInv'
  <2>1. BeaterType' /\ BeaterInv'
    BY <1>14 DEF KaExit, BeaterType, BeaterInv
  <2> QED
    BY <1>14, <1>0, <2>1 DEF KaExit, Same
<1>15. ASSUME NEW k \in Beaters, KaRest(k), UNCHANGED closeVars PROVE BeaterType' /\ BeaterInv'
  BY <1>15 DEF KaRest, BeaterType, BeaterInv
<1>16. ASSUME NEW k \in Beaters, KaSkip(k) PROVE TypeInv'
  BY <1>16, <1>15, <1>0 DEF KaSkip, Same
<1>17. ASSUME NEW k \in Beaters, KaSend(k) PROVE TypeInv'
  <2>1. CASE lock' = k /\ sock # 0 /\ Transmit(kaReq[k])
              /\ kaPc' = [kaPc EXCEPT ![k] = "recv"]
              /\ UNCHANGED <<kaReq, kaThread, beats>>
    <3>1. kaReq[k] \in Requests
      BY <1>17 DEF KaSend, BeaterInv
    <3>2. NetType' /\ QueueInv'
      BY <1>17, <2>1, <3>1, TransmitType DEF KaSend
    <3>3. BeaterType' /\ BeaterInv'
      BY <1>17, <2>1 DEF KaSend, BeaterType, BeaterInv
    <3>4. WorkerType' /\ OpenerInv' /\ CallerInv'
      BY <1>17, <2>1 DEF KaSend, WorkerType, OpenerInv, CallerInv
    <3> QED
      BY <1>17, <1>0, <3>2, <3>3, <3>4 DEF KaSend, Same
  <2>2. CASE CloseSocket /\ KaRest(k) /\ UNCHANGED lock
    BY <1>17, <1>15, <1>0, <2>2, CloseSocketType DEF KaSend, CloseSocket, Same
  <2> QED
    BY <1>17, <2>1, <2>2 DEF KaSend
<1>18. ASSUME NEW k \in Beaters, KaReceive(k) PROVE TypeInv'
  <2>1. NetType' /\ QueueInv'
    BY <1>18, CloseSocketType, TakeAnswerType DEF KaReceive
  <2>2. WorkerType' /\ OpenerInv' /\ CallerInv'
    BY <1>18 DEF KaReceive, TakeAnswer, CloseSocket, WorkerType, OpenerInv, CallerInv
  <2> QED
    BY <1>18, <1>15, <1>0, <2>1, <2>2 DEF KaReceive, Same
<1>19. CASE CloserStep
  <2>1. BeaterType' /\ BeaterInv'
    BY <1>19 DEF CloserStep, CloseSetStop, CloseJoined, CloseDone, BeaterType, BeaterInv
  <2>2. NetType' /\ QueueInv'
    BY <1>19, <1>0, CloseSocketType DEF CloserStep, CloseSetStop, CloseJoined, CloseDone, Same
  <2> QED
    BY <1>19, <1>0, <2>1, <2>2 DEF CloserStep, CloseSetStop, CloseJoined,
                                   CloseDone, CloseSocket, Same
<1>20. CASE Serve
  <2>1. Head(outq) \in Requests /\ Tail(outq) \in Seq(Requests)
    BY <1>20, HeadTailElements DEF Serve, NetType
  <2>2. NetType' /\ QueueInv'
    BY <1>20, <2>1, AppendElements DEF Serve, NetType, QueueInv
  <2>3. CallType'
    BY <1>20, <2>1 DEF Serve, CallType, Requests, Ids
  <2> QED
    BY <1>20, <1>0, <2>2, <2>3 DEF Serve, Same
<1>21. CASE ServeLate
  <2>1. NetType' /\ QueueInv'
    BY <1>21 DEF ServeLate, NetType, QueueInv
  <2>2. CallType'
    BY <1>21 DEF ServeLate, CallType, NetType, Ids
  <2> QED
    BY <1>21, <1>0, <2>1, <2>2 DEF ServeLate, Same
<1>22. CASE UNCHANGED vars
  BY <1>22, <1>0 DEF vars, Same
<1> QED
  BY <1>1, <1>2, <1>3, <1>4, <1>5, <1>6, <1>7, <1>8, <1>9, <1>10, <1>11,
     <1>12, <1>13, <1>14, <1>16, <1>17, <1>18, <1>19, <1>20, <1>21, <1>22
     DEF Next, WorkerStep, BeaterStep, Rest

\* No variable leaves its type, whatever the threads and the drive do; in
\* particular no request carries transaction id 0 and no call is attempted
\* more often than the budget allows (session.py:38-51, retry.py:52-57).
THEOREM TypeCorrect == Spec => []TypeOK
<1>1. TypeInv => TypeOK
  BY DEF TypeInv
<1> QED
  BY <1>1, TypeInit, TypeNext, PTL DEF Spec

-----------------------------------------------------------------------------
(* Mutual exclusion on the socket. *)

\* No step lets a second thread in: the lock is taken only when it is free
\* and given up only by the thread that leaves (session.py:168, 194, 248-266).
LEMMA SerializedNext == TypeInv /\ SerializedIo /\ [Next]_vars => SerializedIo'
<1> SUFFICES ASSUME TypeInv, SerializedIo, [Next]_vars PROVE SerializedIo'
  OBVIOUS
<1> USE DEF TypeInv, TypeOK, WorkerType, Workers, SerializedIo, InIo
<1>0. Opener \notin Callers
  OBVIOUS
<1>1. ASSUME UNCHANGED <<lock, pc, kaPc>> PROVE SerializedIo'
  BY <1>1
<1>2. ASSUME NEW t \in Callers, Call(t) \/ Abandon(t) PROVE SerializedIo'
  BY <1>2 DEF Call, Abandon, lockVars, workerVars, beatVars
<1>3. ASSUME NEW t \in Workers, Acquire(t) PROVE SerializedIo'
  BY <1>3 DEF Acquire, OpenerInv, lockVars, beatVars, BeaterType
<1>4. ASSUME NEW t \in Workers, ReuseSocket(t) \/ OpenSocket(t) \/ Send(t)
      PROVE  SerializedIo'
  BY <1>4 DEF ReuseSocket, OpenSocket, Send, OpenerInv, lockVars, beatVars
<1>5. ASSUME NEW t \in Callers, InIo(t), lock' = NoThread,
             pc' = [pc EXCEPT ![t] = "failed"] \/ pc' = [pc EXCEPT ![t] = "idle"],
             kaPc' = kaPc
      PROVE  SerializedIo'
  BY <1>5
<1>6. ASSUME NEW t \in Workers, OpenFails(t) PROVE SerializedIo'
  <2>1. CASE t = Opener
    BY <1>6, <2>1, <1>0 DEF OpenFails, lockVars, beatVars
  <2>2. CASE t \in Callers
    BY <1>6, <2>2, <1>5 DEF OpenFails, Fail, beatVars
  <2> QED
    BY <2>1, <2>2
<1>7. ASSUME NEW t \in Workers, ConnectDone(t) PROVE SerializedIo'
  <2>1. \A k \in Beaters : kaPc'[k] = "recv" <=> kaPc[k] = "recv"
    BY <1>7 DEF ConnectDone, StartKeepalive, beatVars, BeaterType
  <2>2. lock' = lock /\ \A u \in Callers : InIo(u)' <=> InIo(u)
    BY <1>7 DEF ConnectDone, lockVars
  <2> QED
    BY <2>1, <2>2
<1>8. ASSUME NEW t \in Workers, IoFails(t) \/ IoRaises(t) \/ Receive(t)
      PROVE  SerializedIo'
  <2>1. t \in Callers
    BY <1>8 DEF IoFails, IoRaises, Receive, OpenerInv
  <2> QED
    BY <1>8, <2>1, <1>5 DEF IoFails, IoRaises, Receive, Fail, Finish, beatVars
<1>9. ASSUME NEW t \in Workers, Reclose(t) PROVE SerializedIo'
  BY <1>9 DEF Reclose, Finish, OpenerInv, lockVars, beatVars
<1>10. ASSUME NEW k \in Beaters, KaCycle(k) \/ KaExit(k) \/ KaSkip(k)
       PROVE  SerializedIo'
  BY <1>10 DEF KaCycle, KaExit, KaSkip, KaRest, lockVars, workerVars, BeaterType
<1>11. ASSUME NEW k \in Beaters, KaSend(k) PROVE SerializedIo'
  BY <1>11 DEF KaSend, KaRest, workerVars, BeaterType
<1>12. ASSUME NEW k \in Beaters, KaReceive(k) PROVE SerializedIo'
  BY <1>12 DEF KaReceive, KaRest, workerVars, BeaterType
<1>13. CASE CloserStep
  BY <1>13, <1>1 DEF CloserStep, CloseSetStop, CloseJoined, CloseDone,
                     lockVars, workerVars, beatVars
<1>14. CASE Serve \/ ServeLate \/ UNCHANGED vars
  BY <1>14, <1>1 DEF Serve, ServeLate, vars, lockVars, workerVars, beatVars
<1> QED
  BY <1>2, <1>3, <1>4, <1>6, <1>7, <1>8, <1>9, <1>10, <1>11, <1>12, <1>13, <1>14
     DEF Next, WorkerStep, BeaterStep, Rest

-----------------------------------------------------------------------------
(* Answers. *)

\* Requests that only go out of play keep transaction ids apart.
LEMMA TidUniqueShrinks ==
  ASSUME TidUnique,
         CallerRequests' \subseteq InPlay, BeaterRequests' \subseteq InPlay,
         Range(outq') \subseteq InPlay, Range(inq') \subseteq InPlay
  PROVE  TidUnique'
BY DEF TidUnique, InPlay

\* A request that takes a fresh transaction id keeps them apart.
LEMMA TidUniqueGrows ==
  ASSUME TidUnique, TidFresh, NEW r, r.tid = nextTid,
         CallerRequests' \subseteq InPlay \cup {r},
         BeaterRequests' \subseteq InPlay \cup {r},
         UNCHANGED <<outq, inq>>
  PROVE  TidUnique'
<1>1. InPlay' \subseteq InPlay \cup {r}
  BY DEF InPlay
<1> QED
  BY <1>1 DEF TidUnique, TidFresh

\* A request of a caller inside transceive() is in play.
LEMMA CallerInPlay ==
  ASSUME NEW t \in Callers, pc[t] # "idle"
  PROVE  req[t] \in InPlay
BY DEF InPlay, CallerRequests

\* Requests in play keep different transaction ids: an id is drawn under the
\* generator's own lock and only while it is not in play (session.py:38-44).
LEMMA TidUniqueNext == TypeInv /\ TidUnique /\ [Next]_vars => TidUnique'
<1> SUFFICES ASSUME TypeInv, TidUnique, [Next]_vars PROVE TidUnique'
  OBVIOUS
<1> USE DEF TypeInv, TypeOK, Workers
<1>0. /\ CallerRequests \subseteq InPlay /\ BeaterRequests \subseteq InPlay
      /\ Range(outq) \subseteq InPlay /\ Range(inq) \subseteq InPlay
  BY DEF InPlay
<1>1. ASSUME UNCHANGED <<req, pc>> PROVE CallerRequests' = CallerRequests
  BY <1>1 DEF CallerRequests
<1>2. ASSUME UNCHANGED beatVars PROVE BeaterRequests' = BeaterRequests
  BY <1>2 DEF beatVars, BeaterRequests
<1>3. ASSUME CloseSocket PROVE Range(outq') = {} /\ Range(inq') = {}
  BY <1>3 DEF CloseSocket, Range
<1>4. ASSUME TakeAnswer PROVE outq' = outq /\ Range(inq') \subseteq Range(inq)
  BY <1>4, HeadTailElements DEF TakeAnswer, NetType
<1>5. ASSUME NEW t \in Callers, NEW result, Finish(t, result) PROVE CallerRequests' \subseteq CallerRequests
  BY <1>5 DEF Finish, WorkerType, CallerRequests
<1>6. ASSUME NEW k \in Beaters, KaRest(k) PROVE BeaterRequests' \subseteq BeaterRequests
  BY <1>6 DEF KaRest, BeaterType, BeaterRequests
<1>7. ASSUME NEW t \in Callers, Call(t) PROVE TidUnique'
  <2>1. PICK x \in Indexes :
          req' = [req EXCEPT ![t] = [id |-> issued + 1, tid |-> nextTid, index |-> x]]
    BY <1>7 DEF Call
  <2> DEFINE r == [id |-> issued + 1, tid |-> nextTid, index |-> x]
  <2>2. CallerRequests' \subseteq CallerRequests \cup {r}
    BY <1>7, <2>1 DEF Call, WorkerType, CallerRequests
  <2>3. r.tid = nextTid /\ TidFresh /\ UNCHANGED <<outq, inq, beatVars>>
    BY <1>7 DEF Call, netVars
  <2> HIDE DEF r
  <2> QED
    BY <1>0, <1>2, <2>2, <2>3, TidUniqueGrows
<1>8. ASSUME NEW t \in Callers, Abandon(t) PROVE TidUnique'
  BY <1>8, <1>0, <1>1, <1>2, TidUniqueShrinks DEF Abandon, workerVars, netVars
<1>9. ASSUME NEW t \in Workers, Acquire(t) \/ ReuseSocket(t) \/ OpenSocket(t)
      PROVE  TidUnique'
  <2>1. CallerRequests' \subseteq CallerRequests
    BY <1>9 DEF Acquire, ReuseSocket, OpenSocket, WorkerType, CallerRequests
  <2> QED
    BY <1>9, <1>0, <1>2, <2>1, TidUniqueShrinks DEF Acquire, ReuseSocket, OpenSocket, netVars
<1>10. ASSUME NEW t \in Workers, OpenFails(t) \/ IoFails(t) PROVE TidUnique'
  <2>1. CallerRequests' \subseteq CallerRequests
    BY <1>10 DEF OpenFails, IoFails, Fail, WorkerType, CallerRequests
  <2> QED
    BY <1>10, <1>0, <1>2, <2>1, TidUniqueShrinks DEF OpenFails, IoFails, netVars
<1>11. ASSUME NEW t \in Workers, ConnectDone(t) PROVE TidUnique'
  <2>1. CallerRequests' \subseteq CallerRequests
    BY <1>11 DEF ConnectDone, WorkerType, OpenerInv, CallerRequests
  <2>2. BeaterRequests' \subseteq BeaterRequests
    BY <1>11 DEF ConnectDone, StartKeepalive, beatVars, BeaterType, BeaterRequests
  <2> QED
    BY <1>11, <1>0, <2>1, <2>2, TidUniqueShrinks DEF ConnectDone, netVars
<1>12. ASSUME NEW t \in Workers, Send(t) PROVE TidUnique'
  <2>1. t \in Callers /\ req[t] \in InPlay /\ req[t] \in Requests
    BY <1>12, CallerInPlay DEF Send, OpenerInv, CallerInv
  <2>2. CallerRequests' \subseteq CallerRequests
    BY <1>12 DEF Send, WorkerType, CallerRequests
  <2>3. Range(outq') = Range(outq) \cup {req[t]} /\ inq' = inq
    BY <1>12, <2>1, AppendElements DEF Send, Transmit, NetType
  <2> QED
    BY <1>12, <1>0, <1>2, <2>1, <2>2, <2>3, TidUniqueShrinks DEF Send
<1>13. ASSUME NEW t \in Workers, IoRaises(t) \/ Receive(t) PROVE TidUnique'
  <2>1. t \in Callers
    BY <1>13 DEF IoRaises, Receive, OpenerInv
  <2>2. CallerRequests' \subseteq CallerRequests
    BY <1>13, <1>5, <2>1 DEF IoRaises, Receive
  <2> QED
    BY <1>13, <1>0, <1>2, <1>4, <2>2, TidUniqueShrinks DEF IoRaises, Receive, netVars
<1>14. ASSUME NEW t \in Workers, Reclose(t) PROVE TidUnique'
  <2>1. t \in Callers
    BY <1>14 DEF Reclose, OpenerInv
  <2>2. CallerRequests' \subseteq CallerRequests
    BY <1>14, <1>5, <2>1 DEF Reclose, WorkerType, CallerRequests
  <2> QED
    BY <1>14, <1>0, <1>2, <1>3, <2>2, TidUniqueShrinks DEF Reclose
<1>15. ASSUME NEW k \in Beaters, KaCycle(k) PROVE TidUnique'
  <2> DEFINE r == [id |-> 0, tid |-> nextTid, index |-> StatusIndex]
  <2>1. BeaterRequests' \subseteq BeaterRequests \cup {r}
    BY <1>15 DEF KaCycle, BeaterType, BeaterRequests
  <2>2. r.tid = nextTid /\ TidFresh /\ UNCHANGED <<outq, inq, req, pc>>
    BY <1>15 DEF KaCycle, workerVars, netVars
  <2> HIDE DEF r
  <2> QED
    BY <1>0, <1>1, <2>1, <2>2, TidUniqueGrows
<1>16. ASSUME NEW k \in Beaters, KaExit(k) \/ KaSkip(k) PROVE TidUnique'
  <2>1. BeaterRequests' \subseteq BeaterRequests
    BY <1>16, <1>6 DEF KaExit, KaSkip, BeaterType, BeaterRequests
  <2> QED
    BY <1>16, <1>0, <1>1, <2>1, TidUniqueShrinks DEF KaExit, KaSkip, workerVars, netVars
<1>17. ASSUME NEW k \in Beaters, KaSend(k) PROVE TidUnique'
  <2>1. CASE Transmit(kaReq[k]) /\ kaReq' = kaReq /\ kaPc' = [kaPc EXCEPT ![k] = "recv"]
    <3>1. kaReq[k] \in BeaterRequests /\ kaReq[k] \in Requests
      BY <1>17 DEF KaSend, BeaterInv, BeaterRequests
    <3>2. BeaterRequests' \subseteq BeaterRequests
      BY <1>17, <2>1 DEF KaSend, BeaterType, BeaterRequests
    <3>3. Range(outq') = Range(outq) \cup {kaReq[k]} /\ inq' = inq
      BY <2>1, <3>1, AppendElements DEF Transmit, NetType
    <3> QED
      BY <1>17, <1>0, <1>1, <3>1, <3>2, <3>3, TidUniqueShrinks DEF KaSend, workerVars
  <2>2. CASE CloseSocket /\ KaRest(k)
    BY <1>17, <2>2, <1>0, <1>1, <1>3, <1>6, TidUniqueShrinks DEF KaSend, workerVars
  <2> QED
    BY <1>17, <2>1, <2>2 DEF KaSend
<1>18. ASSUME NEW k \in Beaters, KaReceive(k) PROVE TidUnique'
  <2>1. Range(outq') \subseteq Range(outq) /\ Range(inq') \subseteq Range(inq)
    BY <1>18, <1>3, <1>4 DEF KaReceive
  <2> QED
    BY <1>18, <1>0, <1>1, <1>6, <2>1, TidUniqueShrinks DEF KaReceive, workerVars
<1>19. CASE CloserStep
  <2>1. CallerRequests' = CallerRequests /\ BeaterRequests' = BeaterRequests
    BY <1>19 DEF CloserStep, CloseSetStop, CloseJoined, CloseDone, workerVars,
                 beatVars, CallerRequests, BeaterRequests
  <2>2. Range(outq') \subseteq Range(outq) /\ Range(inq') \subseteq Range(inq)
    BY <1>19, <1>3 DEF CloserStep, CloseSetStop, CloseJoined, CloseDone, netVars
  <2> QED
    BY <1>0, <2>1, <2>2, TidUniqueShrinks
<1>20. CASE Serve
  <2>1. Head(outq) \in Requests /\ Head(outq) \in Range(outq)
        /\ Range(Tail(outq)) \subseteq Range(outq)
    BY <1>20, HeadTailElements DEF Serve, NetType
  <2>2. Range(outq') \subseteq Range(outq) /\ Range(inq') = Range(inq) \cup {Head(outq)}
    BY <1>20, <2>1, AppendElements DEF Serve, NetType
  <2> QED
    BY <1>20, <1>0, <1>1, <1>2, <2>1, <2>2, TidUniqueShrinks DEF Serve, workerVars
<1>21. CASE ServeLate \/ UNCHANGED vars
  BY <1>21, <1>0, <1>1, <1>2, TidUniqueShrinks DEF ServeLate, vars, workerVars, netVars
<1> QED
  BY <1>7, <1>8, <1>9, <1>10, <1>11, <1>12, <1>13, <1>14, <1>15, <1>16, <1>17,
     <1>18, <1>19, <1>20, <1>21 DEF Next, WorkerStep, BeaterStep, Rest

\* With strict ids, an answer that is accepted is the caller's own.
LEMMA OwnAnswerNext ==
  ASSUME TypeInv, TidUnique, OwnAnswer, ~Tolerant, [Next]_vars
  PROVE  OwnAnswer'
<1> USE DEF TypeInv, TypeOK, Workers
<1>1. ASSUME NEW t \in Callers, pc[t] # "idle", NEW result \in {"ok", "err"},
             Finish(t, result)
      PROVE  OwnAnswer'
  BY <1>1 DEF Finish, OwnAnswer, CallType
<1>2. ASSUME NEW t \in Callers, Call(t) \/ Abandon(t) PROVE OwnAnswer'
  BY <1>2 DEF Call, Abandon, OwnAnswer, CallType
<1>3. ASSUME NEW t \in Workers, Receive(t) PROVE OwnAnswer'
  <2>1. t \in Callers /\ pc[t] # "idle"
    BY <1>3 DEF Receive, OpenerInv
  <2>2. req[t] \in InPlay
    BY <2>1, CallerInPlay
  <2>3. Head(inq) \in InPlay
    BY <1>3, HeadTailElements DEF Receive, TakeAnswer, NetType, InPlay
  <2>4. Accepts(req[t], Head(inq)) => Head(inq).id = req[t].id
    BY <2>2, <2>3 DEF Accepts, TidUnique
  <2>5. Finish(t, "ok") \/ Finish(t, "err")
    BY <1>3, <2>4 DEF Receive
  <2> QED
    BY <2>1, <2>5, <1>1
<1>4. ASSUME NEW t \in Workers, IoRaises(t) PROVE OwnAnswer'
  BY <1>4, <1>1 DEF IoRaises, OpenerInv
<1>5. ASSUME NEW t \in Workers, Reclose(t) PROVE OwnAnswer'
  <2>1. t \in Callers /\ pc[t] # "idle"
    BY <1>5 DEF Reclose, OpenerInv
  <2>2. Finish(t, "err") \/ outcome' = outcome
    BY <1>5 DEF Reclose
  <2> QED
    BY <2>1, <2>2, <1>1 DEF OwnAnswer
<1>6. ASSUME NEW t \in Workers, OpenFails(t) \/ IoFails(t) PROVE outcome' = outcome
  BY <1>6 DEF OpenFails, IoFails, Fail
<1>7. ASSUME UNCHANGED outcome PROVE OwnAnswer'
  BY <1>7 DEF OwnAnswer
<1> QED
  BY <1>2, <1>3, <1>4, <1>5, <1>6, <1>7
     DEF Next, WorkerStep, BeaterStep, CloserStep, Rest, Acquire, ReuseSocket,
         OpenSocket, ConnectDone, Send, KaCycle, KaExit, KaSkip, KaSend,
         KaReceive, CloseSetStop, CloseJoined, CloseDone, Serve, ServeLate,
         vars, callVars

\* The safety invariant holds in a new session.
LEMMA SafetyInit == Init => SafetyInv
<1> SUFFICES ASSUME Init PROVE SafetyInv
  OBVIOUS
<1>1. SerializedIo
  BY DEF Init, SerializedIo, InIo, Workers
<1>2. InPlay = {}
  <2>1. CallerRequests = {} /\ BeaterRequests = {}
    BY DEF Init, CallerRequests, BeaterRequests, Workers
  <2>2. Range(outq) = {} /\ Range(inq) = {}
    BY DEF Init, Range
  <2> QED
    BY <2>1, <2>2 DEF InPlay
<1>3. OwnAnswer
  BY DEF Init, OwnAnswer
<1> QED
  BY <1>1, <1>2, <1>3, TypeInit DEF SafetyInv, TidUnique

\* The safety invariant is inductive.
LEMMA SafetyNext == SafetyInv /\ [Next]_vars => SafetyInv'
BY TypeNext, SerializedNext, TidUniqueNext, OwnAnswerNext DEF SafetyInv

\* The safety invariant holds throughout every behaviour of the session.
LEMMA SafetyInvariant == Spec => []SafetyInv
BY SafetyInit, SafetyNext, PTL DEF Spec

\* At most one thread - caller or keepalive - is inside an attempt, and it
\* is the one that holds the lock (session.py:168, 248).
THEOREM OneThreadInIo == Spec => []SerializedIo
<1>1. SafetyInv => SerializedIo
  BY DEF SafetyInv
<1> QED
  BY <1>1, SafetyInvariant, PTL

\* Under strict transaction ids no call ever returns the answer to another
\* request, although the lock alone does not keep requests apart: leftovers
\* are recognised by their id (gateway_telegram.py:265-290).
THEOREM StrictIdsSuffice == ~Tolerant => (Spec => []OwnAnswer)
<1> SUFFICES ASSUME ~Tolerant PROVE Spec => []OwnAnswer
  OBVIOUS
<1>1. SafetyInv => OwnAnswer
  BY DEF SafetyInv
<1> QED
  BY <1>1, SafetyInvariant, PTL

-----------------------------------------------------------------------------
(* Reconnection. *)

\* The keepalive threads start after the opener is done: until then nobody
\* else can send on the first connection (session.py:111-127).
BeforeOpen == pc[Opener] # "idle" => \A k \in Beaters : kaPc[k] = "off"

\* Keepalive threads leave "off" only when a connection is established.
LEMMA BeforeOpenNext ==
  ASSUME TypeInv, BeforeOpen, [Next]_vars
  PROVE  BeforeOpen'
<1> USE DEF TypeInv, TypeOK, WorkerType, BeaterType, Workers, BeforeOpen
<1>1. ASSUME UNCHANGED <<pc, kaPc>> PROVE BeforeOpen'
  BY <1>1
<1>2. ASSUME NEW t \in Callers, NEW label, label \in STRING,
             pc' = [pc EXCEPT ![t] = label], kaPc' = kaPc
      PROVE  BeforeOpen'
  BY <1>2
<1>3. ASSUME NEW t \in Callers, Call(t) \/ Abandon(t) PROVE BeforeOpen'
  BY <1>3 DEF Call, Abandon, workerVars, beatVars
<1>4. ASSUME NEW t \in Workers, Acquire(t) \/ ReuseSocket(t) \/ Send(t)
                                \/ IoFails(t) \/ IoRaises(t) \/ Receive(t) \/ Reclose(t)
      PROVE  BeforeOpen'
  <2>1. t \in Callers /\ kaPc' = kaPc
    BY <1>4 DEF Acquire, ReuseSocket, Send, IoFails, IoRaises, Receive, Reclose,
                OpenerInv, beatVars
  <2>2. \E label \in {"connect", "send", "recv", "failed", "idle", "lock"} :
          pc' = [pc EXCEPT ![t] = label]
    BY <1>4 DEF Acquire, ReuseSocket, Send, IoFails, IoRaises, Receive, Reclose,
                Fail, Finish
  <2> QED
    BY <2>1, <2>2, <1>2
<1>5. ASSUME NEW t \in Workers, OpenSocket(t) \/ OpenFails(t) PROVE BeforeOpen'
  BY <1>5 DEF OpenSocket, OpenFails, Fail, beatVars
<1>6. ASSUME NEW t \in Workers, ConnectDone(t) PROVE BeforeOpen'
  BY <1>6 DEF ConnectDone, OpenerInv
<1>7. ASSUME NEW k \in Beaters, BeaterStep(k) PROVE BeforeOpen'
  BY <1>7 DEF BeaterStep, KaCycle, KaExit, KaSkip, KaSend, KaReceive, KaRest, workerVars
<1>8. CASE CloserStep \/ Serve \/ ServeLate \/ UNCHANGED vars
  BY <1>8, <1>1 DEF CloserStep, CloseSetStop, CloseJoined, CloseDone, Serve,
                    ServeLate, vars, workerVars, beatVars
<1> QED
  BY <1>3, <1>4, <1>5, <1>6, <1>7, <1>8 DEF Next, WorkerStep, Rest

\* Nobody but the thread that connects is inside an attempt.
LEMMA OneConnecter ==
  ASSUME TypeInv, SerializedIo, BeforeOpen, NEW t \in Workers,
         pc[t] \in {"connect", "connected"}
  PROVE  /\ \A u \in Workers : pc[u] \in {"connect", "connected", "send", "recv"} => u = t
         /\ \A k \in Beaters : kaPc[k] # "recv"
         /\ t # Opener => lock = t
         /\ t = Opener => \A k \in Beaters : kaPc[k] = "off"
BY DEF TypeInv, OpenerInv, SerializedIo, InIo, BeforeOpen, Workers

\* A connection is counted before it is announced, by the thread that made
\* it, and nothing is sent in between (session.py:111-127).
LEMMA ReconnectNext ==
  ASSUME TypeInv, SerializedIo, BeforeOpen, ReconnectAnnounced, [Next]_vars
  PROVE  ReconnectAnnounced'
<1> USE DEF TypeInv, TypeOK, WorkerType, BeaterType, NetType, Workers
<1>0. ASSUME UNCHANGED <<conns, ever, signals>>, Connecting' <=> Connecting,
             Connecting => UNCHANGED <<outq, inq>> \/ (outq' = <<>> /\ inq' = <<>>)
      PROVE  ReconnectAnnounced'
  BY <1>0 DEF ReconnectAnnounced
<1>1. ASSUME UNCHANGED <<pc, conns, ever, signals>>,
             Connecting => UNCHANGED <<outq, inq>> \/ (outq' = <<>> /\ inq' = <<>>)
      PROVE  ReconnectAnnounced'
  BY <1>1, <1>0 DEF Connecting
<1>2. ASSUME NEW t \in Workers, pc[t] # "connected", NEW label, label # "connected",
             pc' = [pc EXCEPT ![t] = label]
      PROVE  Connecting' <=> Connecting
  BY <1>2 DEF Connecting
<1>3. ASSUME NEW t \in Callers, Call(t) \/ Abandon(t) PROVE ReconnectAnnounced'
  BY <1>3, <1>0, <1>1, <1>2 DEF Call, Abandon, workerVars, netVars, signalVars
<1>4. ASSUME NEW t \in Workers, Acquire(t) \/ ReuseSocket(t) \/ OpenFails(t) \/ IoFails(t)
      PROVE  ReconnectAnnounced'
  <2>1. pc[t] # "connected" /\ UNCHANGED <<netVars, signalVars>>
    BY <1>4 DEF Acquire, ReuseSocket, OpenFails, IoFails
  <2>2. \E label \in {"connect", "send", "failed", "dead"} : pc' = [pc EXCEPT ![t] = label]
    BY <1>4 DEF Acquire, ReuseSocket, OpenFails, IoFails, Fail
  <2> QED
    BY <2>1, <2>2, <1>0, <1>2 DEF netVars, signalVars
<1>5. ASSUME NEW t \in Workers, OpenSocket(t) PROVE ReconnectAnnounced'
  <2>1. ~Connecting /\ outq = <<>> /\ inq = <<>>
    BY <1>5, OneConnecter DEF OpenSocket, Connecting, QueueInv
  <2>2. Connecting' /\ conns' = conns + 1 /\ UNCHANGED <<outq, inq, ever, signals>>
    BY <1>5 DEF OpenSocket, Connecting, signalVars
  <2> QED
    BY <2>1, <2>2 DEF ReconnectAnnounced
<1>6. ASSUME NEW t \in Workers, ConnectDone(t) PROVE ReconnectAnnounced'
  <2>1. Connecting /\ ~Connecting'
    BY <1>6, OneConnecter DEF ConnectDone, Connecting
  <2>2. ever' /\ signals' = (IF ever THEN signals + 1 ELSE signals) /\ conns' = conns
    BY <1>6 DEF ConnectDone, netVars
  <2> QED
    BY <2>1, <2>2 DEF ReconnectAnnounced
<1>7. ASSUME NEW t \in Workers, Send(t) \/ IoRaises(t) \/ Receive(t) PROVE ReconnectAnnounced'
  <2>1. ~Connecting
    BY <1>7, OneConnecter DEF Connecting, Send, IoRaises, Receive
  <2>2. ~Connecting' /\ UNCHANGED <<conns, ever, signals>>
    BY <1>7, <2>1 DEF Connecting, Send, IoRaises, Receive, Finish, Transmit,
                      TakeAnswer, netVars, signalVars
  <2> QED
    BY <2>1, <2>2, <1>0
<1>8. ASSUME NEW t \in Workers, Reclose(t) PROVE ReconnectAnnounced'
  <2>1. Connecting' <=> Connecting
    BY <1>8, <1>2 DEF Reclose, Finish
  <2> QED
    BY <1>8, <2>1, <1>0 DEF Reclose, CloseSocket, signalVars
<1>9. ASSUME NEW k \in Beaters, KaCycle(k) \/ KaExit(k) \/ KaSkip(k) PROVE ReconnectAnnounced'
  BY <1>9, <1>1 DEF KaCycle, KaExit, KaSkip, workerVars, netVars, signalVars
<1>10. ASSUME NEW k \in Beaters, KaSend(k) \/ KaReceive(k) PROVE ReconnectAnnounced'
  <2>1. ~Connecting
    BY <1>10, OneConnecter DEF Connecting, KaSend, KaReceive
  <2> QED
    BY <1>10, <2>1, <1>1 DEF KaSend, KaReceive, Transmit, TakeAnswer, CloseSocket,
                             workerVars, signalVars
<1>11. CASE CloserStep \/ ServeLate \/ UNCHANGED vars
  BY <1>11, <1>1 DEF CloserStep, CloseSetStop, CloseJoined, CloseDone, CloseSocket,
                     ServeLate, vars, workerVars, netVars, signalVars
<1>12. CASE Serve
  BY <1>12, <1>1 DEF Serve, ReconnectAnnounced, workerVars, signalVars
<1> QED
  BY <1>3, <1>4, <1>5, <1>6, <1>7, <1>8, <1>9, <1>10, <1>11, <1>12
     DEF Next, WorkerStep, BeaterStep, Rest

\* Every connection but the first is announced exactly once, and before
\* anything is sent on it, for any number of callers and keepalive threads
\* and however often the connection is lost (session.py:111-127).
THEOREM EveryReconnectAnnounced == Spec => []ReconnectAnnounced
<1>1. Init => BeforeOpen /\ ReconnectAnnounced
  <2> SUFFICES ASSUME Init PROVE BeforeOpen /\ ReconnectAnnounced
    OBVIOUS
  <2>1. ~ever /\ conns = 0 /\ signals = 0 /\ outq = <<>> /\ inq = <<>>
    BY Zenon DEF Init
  <2>2. ~Connecting /\ BeforeOpen
    BY DEF Init, Connecting, BeforeOpen, Workers
  <2> QED
    BY <2>1, <2>2 DEF ReconnectAnnounced
<1>2. SafetyInv /\ BeforeOpen /\ ReconnectAnnounced /\ [Next]_vars
        => BeforeOpen' /\ ReconnectAnnounced'
  BY BeforeOpenNext, ReconnectNext DEF SafetyInv
<1> QED
  BY <1>1, <1>2, SafetyInvariant, PTL DEF Spec

-----------------------------------------------------------------------------
(* Leftovers. *)

\* Somebody waits for an answer.
Awaiting ==
  \/ \E t \in Callers : pc[t] = "recv"
  \/ \E k \in Beaters : kaPc[k] = "recv"

\* An attempt that has not sent yet shares the socket with nobody who waits.
LEMMA AloneInIo ==
  ASSUME TypeInv, SerializedIo
  PROVE  /\ \A t \in Callers : pc[t] = "send" => ~Awaiting
         /\ \A t \in Callers : pc[t] = "recv" =>
              /\ \A u \in Callers : pc[u] = "recv" => u = t
              /\ \A k \in Beaters : kaPc[k] # "recv"
         /\ \A k \in Beaters : kaPc[k] = "recv" =>
              /\ \A b \in Beaters : kaPc[b] = "recv" => b = k
              /\ \A t \in Callers : pc[t] # "recv"
         /\ lock = NoThread => ~Awaiting
BY DEF TypeInv, SerializedIo, InIo, Awaiting

\* Sending adds one to what is on the connection and reading takes one away.
LEMMA InFlightCount ==
  ASSUME TypeInv
  PROVE  /\ InFlight \in Nat
         /\ \A r \in Requests : Transmit(r) => InFlight' = InFlight + 1
         /\ TakeAnswer => InFlight > 0 /\ InFlight' = InFlight - 1
         /\ CloseSocket => InFlight' = 0
         /\ Serve => InFlight' = InFlight
<1> USE DEF TypeInv, TypeOK, NetType, InFlight
<1>1. Len(inq) \in Nat /\ Len(outq) \in Nat
  OBVIOUS
<1>2. ASSUME NEW r \in Requests, Transmit(r) PROVE InFlight' = InFlight + 1
  BY <1>2, <1>1 DEF Transmit
<1>3. ASSUME TakeAnswer PROVE InFlight > 0 /\ InFlight' = InFlight - 1
  BY <1>3, <1>1 DEF TakeAnswer
<1>4. ASSUME CloseSocket PROVE InFlight' = 0
  BY <1>4 DEF CloseSocket
<1>5. ASSUME Serve PROVE InFlight' = InFlight
  <2>1. Head(outq) \in Requests /\ Len(outq) > 0
    BY <1>5, <1>1, HeadTailElements DEF Serve
  <2>2. Len(Tail(outq)) = Len(outq) - 1
    BY <2>1, <1>1
  <2>3. Len(Append(inq, Head(outq))) = Len(inq) + 1
    BY <2>1, <1>1
  <2> QED
    BY <1>5, <1>1, <2>2, <2>3 DEF Serve
<1> QED
  BY <1>1, <1>2, <1>3, <1>4, <1>5

\* An answer that nobody waits for appears only when an attempt fails, and
\* what fails stays "failed" until it has closed the socket
\* (session.py:186-198, 254-266).
LEMMA LeftoversNext ==
  ASSUME TypeInv, SerializedIo, LeftoversAreDoomed, [Next]_vars
  PROVE  LeftoversAreDoomed'
<1> USE DEF TypeInv, TypeOK, WorkerType, BeaterType, Workers
<1>a. InFlight \in Nat /\ (Leftover <=> InFlight > IF Awaiting THEN 1 ELSE 0)
  BY InFlightCount DEF Leftover, Awaiting
<1>b. InFlight' \in Nat => (Leftover' <=> InFlight' > IF Awaiting' THEN 1 ELSE 0)
  BY DEF Leftover, Awaiting
<1>c. ASSUME InFlight' = 0 PROVE LeftoversAreDoomed'
  BY <1>c, <1>b DEF LeftoversAreDoomed
<1>d. ASSUME NEW t \in Callers, pc' = [pc EXCEPT ![t] = "failed"]
      PROVE  LeftoversAreDoomed'
  BY <1>d DEF LeftoversAreDoomed
<1>e. ASSUME Leftover' => Leftover,
             \A t \in Callers : pc[t] = "failed" => pc'[t] = "failed"
      PROVE  LeftoversAreDoomed'
  BY <1>e DEF LeftoversAreDoomed
<1>f. ASSUME InFlight' = InFlight, Awaiting' <=> Awaiting PROVE Leftover' => Leftover
  BY <1>f, <1>a, <1>b
<1>g. ASSUME UNCHANGED <<pc, kaPc>> PROVE Awaiting' <=> Awaiting
  BY <1>g DEF Awaiting
<1>h. ASSUME UNCHANGED <<outq, inq>> PROVE InFlight' = InFlight
  BY <1>h DEF InFlight
<1>1. ASSUME NEW t \in Callers, Call(t) \/ Abandon(t) PROVE LeftoversAreDoomed'
  <2>1. (Awaiting' <=> Awaiting) /\ \A u \in Callers : pc[u] = "failed" => pc'[u] = "failed"
    BY <1>1 DEF Call, Abandon, Awaiting, workerVars, beatVars
  <2> QED
    BY <1>1, <2>1, <1>e, <1>f, <1>h DEF Call, Abandon, netVars
<1>2. ASSUME NEW t \in Workers, Acquire(t) \/ ReuseSocket(t) \/ OpenSocket(t) \/ ConnectDone(t)
      PROVE  LeftoversAreDoomed'
  <2>1. (Awaiting' <=> Awaiting) /\ \A u \in Callers : pc[u] = "failed" => pc'[u] = "failed"
    <3>1. \A k \in Beaters : kaPc'[k] = "recv" <=> kaPc[k] = "recv"
      BY <1>2 DEF Acquire, ReuseSocket, OpenSocket, ConnectDone, StartKeepalive, beatVars
    <3>2. \A u \in Callers : /\ pc'[u] = "recv" <=> pc[u] = "recv"
                             /\ pc[u] = "failed" => pc'[u] = "failed"
      BY <1>2 DEF Acquire, ReuseSocket, OpenSocket, ConnectDone
    <3> QED
      BY <3>1, <3>2 DEF Awaiting
  <2> QED
    BY <1>2, <2>1, <1>e, <1>f, <1>h DEF Acquire, ReuseSocket, OpenSocket, ConnectDone, netVars
<1>3. ASSUME NEW t \in Workers, OpenFails(t) PROVE LeftoversAreDoomed'
  <2>1. CASE t = Opener
    <3>1. (Awaiting' <=> Awaiting) /\ \A u \in Callers : pc[u] = "failed" => pc'[u] = "failed"
      BY <1>3, <2>1 DEF OpenFails, Awaiting, beatVars
    <3> QED
      BY <1>3, <3>1, <1>e, <1>f, <1>h DEF OpenFails, netVars
  <2>2. CASE t \in Callers
    BY <1>3, <2>2, <1>d DEF OpenFails, Fail
  <2> QED
    BY <2>1, <2>2
<1>4. ASSUME NEW t \in Workers, Send(t) PROVE LeftoversAreDoomed'
  <2>1. t \in Callers /\ req[t] \in Requests
    BY <1>4 DEF Send, OpenerInv, CallerInv
  <2>2. ~Awaiting
    BY <1>4, <2>1, AloneInIo DEF Send
  <2>3. InFlight' = InFlight + 1
    BY <1>4, <2>1, InFlightCount DEF Send
  <2>4. Leftover' => Leftover
    <3>1. Awaiting'
      BY <1>4, <2>1 DEF Send, Awaiting
    <3> QED
      BY <2>2, <2>3, <3>1, <1>a, <1>b
  <2>5. \A u \in Callers : pc[u] = "failed" => pc'[u] = "failed"
    BY <1>4, <2>1 DEF Send
  <2> QED
    BY <2>4, <2>5, <1>e
<1>5. ASSUME NEW t \in Workers, IoFails(t) PROVE LeftoversAreDoomed'
  BY <1>5, <1>d DEF IoFails, Fail, OpenerInv
<1>6. ASSUME NEW t \in Workers, IoRaises(t) PROVE LeftoversAreDoomed'
  BY <1>6, <1>c DEF IoRaises, QueueInv, netVars, InFlight
<1>7. ASSUME NEW t \in Workers, Receive(t) PROVE LeftoversAreDoomed'
  <2>1. t \in Callers /\ Awaiting /\ pc[t] = "recv"
    BY <1>7 DEF Receive, OpenerInv, Awaiting
  <2>2. ~Awaiting' /\ \A u \in Callers : pc[u] = "failed" => pc'[u] = "failed"
    <3>1. pc' = [pc EXCEPT ![t] = "idle"] /\ kaPc' = kaPc
      BY <1>7 DEF Receive, Finish, beatVars
    <3> QED
      BY <2>1, <3>1, AloneInIo DEF Awaiting
  <2>3. InFlight' = InFlight - 1
    BY <1>7, InFlightCount DEF Receive
  <2>4. Leftover' => Leftover
    BY <2>1, <2>2, <2>3, <1>a, <1>b, InFlightCount, <1>7 DEF Receive
  <2> QED
    BY <2>2, <2>4, <1>e
<1>8. ASSUME NEW t \in Workers, Reclose(t) PROVE LeftoversAreDoomed'
  BY <1>8, <1>c, InFlightCount DEF Reclose
<1>9. ASSUME NEW k \in Beaters, KaCycle(k) \/ KaExit(k) \/ KaSkip(k) PROVE LeftoversAreDoomed'
  <2>1. Awaiting' <=> Awaiting
    BY <1>9 DEF KaCycle, KaExit, KaSkip, KaRest, Awaiting, workerVars
  <2> QED
    BY <1>9, <2>1, <1>e, <1>f, <1>h DEF KaCycle, KaExit, KaSkip, workerVars, netVars
<1>10. ASSUME NEW k \in Beaters, KaSend(k) PROVE LeftoversAreDoomed'
  <2>1. CASE Transmit(kaReq[k]) /\ kaPc' = [kaPc EXCEPT ![k] = "recv"]
    <3>1. kaReq[k] \in Requests
      BY <1>10 DEF KaSend, BeaterInv
    <3>2. ~Awaiting /\ Awaiting'
      BY <1>10, <2>1, AloneInIo DEF KaSend, Awaiting
    <3>3. InFlight' = InFlight + 1
      BY <2>1, <3>1, InFlightCount
    <3>4. Leftover' => Leftover
      BY <3>2, <3>3, <1>a, <1>b
    <3> QED
      BY <1>10, <3>4, <1>e DEF KaSend, workerVars
  <2>2. CASE CloseSocket
    BY <2>2, <1>c, InFlightCount
  <2> QED
    BY <1>10, <2>1, <2>2 DEF KaSend
<1>11. ASSUME NEW k \in Beaters, KaReceive(k) PROVE LeftoversAreDoomed'
  <2>1. CASE TakeAnswer
    <3>1. Awaiting /\ ~Awaiting'
      <4>1. kaPc[k] = "recv" /\ kaPc' = [kaPc EXCEPT ![k] = "loop"] /\ pc' = pc
        BY <1>11 DEF KaReceive, KaRest, workerVars
      <4> QED
        BY <4>1, AloneInIo DEF Awaiting
    <3>2. Leftover' => Leftover
      BY <2>1, <3>1, <1>a, <1>b, InFlightCount
    <3> QED
      BY <1>11, <3>2, <1>e DEF KaReceive, workerVars
  <2>2. CASE CloseSocket
    BY <2>2, <1>c, InFlightCount
  <2> QED
    BY <1>11, <2>1, <2>2 DEF KaReceive
<1>12. CASE CloseSetStop \/ CloseJoined \/ ServeLate \/ UNCHANGED vars
  <2>1. UNCHANGED <<pc, kaPc, outq, inq>>
    BY <1>12 DEF CloseSetStop, CloseJoined, ServeLate, vars, workerVars, beatVars, netVars
  <2> QED
    BY <2>1, <1>e, <1>f, <1>g, <1>h
<1>13. CASE CloseDone
  BY <1>13, <1>c, InFlightCount DEF CloseDone
<1>14. CASE Serve
  BY <1>14, <1>e, <1>f, <1>g, InFlightCount DEF Serve, workerVars, beatVars
<1> QED
  BY <1>1, <1>2, <1>3, <1>4, <1>5, <1>6, <1>7, <1>8, <1>9, <1>10, <1>11,
     <1>12, <1>13, <1>14 DEF Next, WorkerStep, BeaterStep, CloserStep, Rest

\* The connection is out of step only while a failed attempt waits to close
\* it: no way out of transceive() or of a keepalive cycle leaves an unread
\* answer on a socket that stays in use (session.py:186-198, 254-266).
THEOREM NoAnswerIsLeftBehind == Spec => []LeftoversAreDoomed
<1>1. Init => LeftoversAreDoomed
  <2> SUFFICES ASSUME Init PROVE ~Leftover
    BY DEF LeftoversAreDoomed
  <2>1. InFlight = 0
    BY DEF Init, InFlight
  <2> QED
    BY <2>1 DEF Leftover
<1>2. SafetyInv /\ LeftoversAreDoomed /\ [Next]_vars => LeftoversAreDoomed'
  BY LeftoversNext DEF SafetyInv
<1> QED
  BY <1>1, <1>2, SafetyInvariant, PTL DEF Spec

-----------------------------------------------------------------------------
(* The refinement: the inductive invariant. *)

\* The requests of calls that are under way are different requests.
OwnRequests ==
  \A t, u \in Callers :
    pc[t] # "idle" /\ pc[u] # "idle" /\ req[t].id = req[u].id => t = u

\* The drive has at most one unread copy of a request on the connection.
OneCopy ==
  \A j, k \in 1..Len(outq) : outq[j].id = outq[k].id /\ outq[j].id > 0 => j = k

\* The drive may still read request i on the open connection.
OnWire(i) == \E r \in Range(outq) : r.id = i

\* The closed connections that may still deliver request i.
Stray(i) == {p \in late : p[2] = i}

\* How often the drive has executed request i or may still execute it.
Sendings(i) == executed[i] + Cardinality(Stray(i)) + (IF OnWire(i) THEN 1 ELSE 0)

\* Calls are numbered in their order, and only calls that were made have an
\* outcome or a trace on the wire.
Numbered ==
  \A i \in Ids :
    /\ i <= issued <=> outcome[i] # "none"
    /\ i > issued => Sendings(i) = 0

\* A caller between taking the lock and sending.
AboutToSend == {"connect", "connected", "send"}

\* An attempt accounts for at most one execution, and one that has not sent
\* yet for none.
WithinBudget ==
  /\ \A i \in Ids : Sendings(i) <= MaxAttempts
  /\ \A t \in Callers, i \in Ids :
       pc[t] # "idle" /\ req[t].id = i =>
         /\ Sendings(i) <= attempts[t]
         /\ pc[t] \in AboutToSend => Sendings(i) < attempts[t]
         /\ pc[t] \in {"lock"} \cup AboutToSend => ~OnWire(i)

\* What was answered was executed.
Answered == \A r \in Range(inq) : r.id > 0 => executed[r.id] > 0

CallsInv == OwnRequests /\ OneCopy /\ Numbered /\ WithinBudget /\ Answered

-----------------------------------------------------------------------------
(* Copies of a request. *)

\* Only finitely many connections are ever closed, so what they may still
\* deliver can be counted.
LEMMA SendingsType ==
  ASSUME TypeInv, NEW i \in Ids
  PROVE  /\ IsFiniteSet(Stray(i)) /\ Cardinality(Stray(i)) \in Nat
         /\ Sendings(i) \in Nat
         /\ executed[i] \in Nat /\ executed[i] <= Sendings(i)
         /\ OnWire(i) => executed[i] < Sendings(i)
<1> USE DEF TypeInv, TypeOK, NetType, CallType
<1>1. IsFiniteSet((1..MaxConns) \X Ids)
  <2>0. 1 \in Int /\ MaxConns \in Int /\ MaxRequests \in Int
    BY SessionAssumption
  <2>1. IsFiniteSet(1..MaxConns) /\ IsFiniteSet(1..MaxRequests)
    BY ONLY <2>0, FS_Interval
  <2> QED
    BY <2>1, FS_Product DEF Ids
<1>2. IsFiniteSet(Stray(i)) /\ Cardinality(Stray(i)) \in Nat
  BY <1>1, FS_Subset, FS_CardinalityType DEF Stray
<1> QED
  BY <1>2 DEF Sendings

\* No request gains a copy: it stays, is executed, or becomes a stray.
NoNewCopies ==
  \A i \in Ids : /\ Sendings(i)' \in Nat /\ Sendings(i)' <= Sendings(i)
                 /\ OnWire(i)' => OnWire(i)

\* Nothing about the copies changes.
LEMMA CopiesSame ==
  ASSUME TypeInv, UNCHANGED <<outq, late, executed>>
  PROVE  NoNewCopies
<1>1. \A i \in Ids : Sendings(i)' = Sendings(i) /\ OnWire(i)' = OnWire(i)
  BY DEF Sendings, OnWire, Stray
<1> QED
  BY <1>1, SendingsType DEF NoNewCopies

\* Sending adds one copy of the request that is sent.
LEMMA CopiesTransmit ==
  ASSUME TypeInv, NEW r \in Requests, Transmit(r), UNCHANGED executed, NEW i \in Ids
  PROVE  /\ OnWire(i)' <=> OnWire(i) \/ r.id = i
         /\ Sendings(i)' \in Nat
         /\ r.id # i => Sendings(i)' = Sendings(i)
         /\ Sendings(i)' <= Sendings(i) + 1
<1>1. Range(outq') = Range(outq) \cup {r}
  BY AppendElements DEF Transmit, TypeInv, TypeOK, NetType
<1>2. OnWire(i)' <=> OnWire(i) \/ r.id = i
  BY <1>1 DEF OnWire
<1>3. Stray(i)' = Stray(i) /\ executed'[i] = executed[i]
  BY DEF Stray, Transmit
<1>4. executed[i] \in Nat /\ Cardinality(Stray(i)) \in Nat
  BY SendingsType
<1> QED
  BY <1>2, <1>3, <1>4 DEF Sendings

\* Closing the socket turns the unread copies into strays: a set of pairs,
\* so one for each request at most (modbus_tcp_client.py:88-97).
LEMMA CopiesClose ==
  ASSUME TypeInv, CloseSocket, UNCHANGED executed
  PROVE  NoNewCopies /\ \A i \in Ids : ~OnWire(i)'
<1>1. Range(outq') = {}
  BY DEF CloseSocket, Range
<1> SUFFICES ASSUME NEW i \in Ids
             PROVE  Sendings(i)' \in Nat /\ Sendings(i)' <= Sendings(i) /\ ~OnWire(i)'
  BY DEF NoNewCopies
<1>2. ~OnWire(i)'
  BY <1>1 DEF OnWire
<1>3. i > 0 /\ executed[i] \in Nat /\ Cardinality(Stray(i)) \in Nat /\ IsFiniteSet(Stray(i))
  BY SendingsType DEF Ids
<1>4. CASE OnWire(i)
  <2>1. Stray(i)' = Stray(i) \cup {<<sock, i>>}
    <3>1. PICK r \in Range(outq) : r.id = i
      BY <1>4 DEF OnWire
    <3>2. late' = late \cup {<<sock, q.id>> : q \in {x \in Range(outq) : x.id > 0}}
      BY DEF CloseSocket
    <3>3. <<sock, i>> \in late'
      BY <3>1, <3>2, <1>3
    <3> QED
      BY <3>2, <3>3 DEF Stray
  <2>2. \/ Cardinality(Stray(i)') = Cardinality(Stray(i))
        \/ Cardinality(Stray(i)') = Cardinality(Stray(i)) + 1
    <3>1. Cardinality(Stray(i) \cup {<<sock, i>>}) =
            IF <<sock, i>> \in Stray(i) THEN Cardinality(Stray(i)) ELSE Cardinality(Stray(i)) + 1
      BY ONLY <1>3, FS_AddElement
    <3> QED
      BY ONLY <3>1, <2>1
  <2> QED
    BY <1>2, <1>3, <1>4, <2>2 DEF Sendings
<1>5. CASE ~OnWire(i)
  <2>1. Stray(i)' = Stray(i)
    BY <1>5 DEF Stray, OnWire, CloseSocket
  <2> QED
    BY <1>2, <1>3, <1>5, <2>1 DEF Sendings
<1> QED
  BY <1>4, <1>5

\* The drive reads the oldest request: it was the only copy.
LEMMA CopiesServe ==
  ASSUME TypeInv, OneCopy, Serve
  PROVE  NoNewCopies
<1> USE DEF TypeInv, TypeOK, NetType
<1> DEFINE h == Head(outq)
<1>1. h \in Requests /\ h \in Range(outq) /\ Range(Tail(outq)) \subseteq Range(outq)
  BY HeadTailElements DEF Serve
<1>2. outq' = Tail(outq) /\ late' = late
      /\ executed' = IF h.id = 0 THEN executed ELSE [executed EXCEPT ![h.id] = @ + 1]
  BY DEF Serve
<1>3. h.id > 0 => \A r \in Range(Tail(outq)) : r.id # h.id
  <2> SUFFICES ASSUME h.id > 0, NEW r \in Range(Tail(outq)), r.id = h.id PROVE FALSE
    OBVIOUS
  <2>1. /\ Len(outq) \in Nat /\ Len(outq) > 0 /\ Head(outq) = outq[1]
        /\ DOMAIN Tail(outq) = 1..(Len(outq) - 1)
        /\ \A k \in 1..(Len(outq) - 1) : Tail(outq)[k] = outq[k + 1]
    BY DEF Serve
  <2>2. PICK k \in 1..(Len(outq) - 1) : r = outq[k + 1]
    BY <2>1 DEF Range
  <2> QED
    BY <2>1, <2>2 DEF OneCopy
<1> SUFFICES ASSUME NEW i \in Ids
             PROVE  /\ Sendings(i)' \in Nat /\ Sendings(i)' <= Sendings(i)
                    /\ OnWire(i)' => OnWire(i)
  BY DEF NoNewCopies
<1>4. OnWire(i)' => OnWire(i)
  BY <1>1, <1>2 DEF OnWire
<1>5. i > 0 /\ executed[i] \in Nat /\ Cardinality(Stray(i)) \in Nat /\ Stray(i)' = Stray(i)
  <2>1. Stray(i)' = Stray(i)
    BY <1>2 DEF Stray
  <2> QED
    BY <2>1, SendingsType DEF Ids
<1>6. CASE h.id = i
  <2>1. OnWire(i) /\ ~OnWire(i)'
    BY <1>1, <1>2, <1>3, <1>5, <1>6 DEF OnWire
  <2>2. executed'[i] = executed[i] + 1
    BY <1>2, <1>5, <1>6 DEF CallType
  <2> QED
    BY <1>5, <2>1, <2>2 DEF Sendings
<1>7. CASE h.id # i
  <2>1. executed'[i] = executed[i]
    BY <1>1, <1>2, <1>7 DEF CallType, Requests
  <2> QED
    BY <1>4, <1>5, <2>1 DEF Sendings
<1> QED
  BY <1>6, <1>7

\* A stray that arrives is gone.
LEMMA CopiesServeLate ==
  ASSUME TypeInv, ServeLate
  PROVE  /\ NoNewCopies
         /\ \E i \in Ids : /\ executed[i] < Sendings(i)
                           /\ executed' = [executed EXCEPT ![i] = @ + 1]
<1> USE DEF TypeInv, TypeOK, NetType
<1>1. PICK p \in late : /\ late' = late \ {p}
                        /\ executed' = [executed EXCEPT ![p[2]] = @ + 1]
  BY DEF ServeLate
<1>2. p[2] \in Ids /\ outq' = outq
  BY <1>1 DEF ServeLate
<1>3. ASSUME NEW i \in Ids
      PROVE  /\ Sendings(i)' \in Nat /\ Sendings(i)' <= Sendings(i)
             /\ OnWire(i)' => OnWire(i)
             /\ i = p[2] => executed[i] < Sendings(i)
  <2>1. /\ executed[i] \in Nat /\ IsFiniteSet(Stray(i)) /\ Cardinality(Stray(i)) \in Nat
        /\ OnWire(i)' = OnWire(i)
    BY <1>2, SendingsType DEF OnWire
  <2>2. CASE i = p[2]
    <3>1. Stray(i)' = Stray(i) \ {p} /\ p \in Stray(i)
      BY <1>1, <2>2 DEF Stray
    <3>2. Cardinality(Stray(i)') = Cardinality(Stray(i)) - 1 /\ Cardinality(Stray(i)) # 0
      <4>1. Cardinality(Stray(i) \ {p}) =
              IF p \in Stray(i) THEN Cardinality(Stray(i)) - 1 ELSE Cardinality(Stray(i))
        BY ONLY <2>1, FS_RemoveElement
      <4>2. Cardinality(Stray(i)) # 0
        BY ONLY <2>1, <3>1, FS_EmptySet
      <4> QED
        BY ONLY <3>1, <4>1, <4>2
    <3>3. executed'[i] = executed[i] + 1
      BY <1>1, <2>2 DEF CallType
    <3>4. /\ Sendings(i) = executed[i] + Cardinality(Stray(i)) + (IF OnWire(i) THEN 1 ELSE 0)
          /\ Sendings(i)' = executed'[i] + Cardinality(Stray(i)') + (IF OnWire(i)' THEN 1 ELSE 0)
      BY DEF Sendings
    <3> QED
      BY ONLY <2>1, <2>2, <3>2, <3>3, <3>4
  <2>3. CASE i # p[2]
    <3>1. Stray(i)' = Stray(i) /\ executed'[i] = executed[i]
      BY <1>1, <1>2, <2>3 DEF Stray, CallType
    <3> QED
      BY <2>1, <2>3, <3>1 DEF Sendings
  <2> QED
    BY <2>2, <2>3
<1> QED
  BY <1>1, <1>2, <1>3 DEF NoNewCopies

-----------------------------------------------------------------------------
(* What a step shows of a call. *)

\* A coroutine that still waits is told a result.
Ends(i) ==
  /\ outcome[i] = "pending"
  /\ \/ outcome' = [outcome EXCEPT ![i] = "err"]
     \/ outcome' = [outcome EXCEPT ![i] = "ok"] /\ executed[i] > 0
  /\ UNCHANGED <<executed, issued>>

\* The drive carries out a copy of a request.
Executes(i) ==
  /\ executed[i] < Sendings(i)
  /\ executed' = [executed EXCEPT ![i] = @ + 1]
  /\ UNCHANGED <<outcome, issued>>

\* Nothing is to be seen.
Silent == UNCHANGED <<outcome, executed, issued>>

\* Of all the steps of the session, a call is made, ends, is executed, or
\* sees nothing; strict ids and the copies left on the wire justify success.
LEMMA VisibleStep ==
  ASSUME ~Tolerant, SafetyInv, Answered, [Next]_vars
  PROVE  \/ \E t \in Callers : Call(t)
         \/ \E i \in Ids : Ends(i) \/ Executes(i)
         \/ Silent
<1> DEFINE Shown == (\E i \in Ids : Ends(i) \/ Executes(i)) \/ Silent
<1> SUFFICES (\E t \in Callers : Call(t)) \/ Shown
  OBVIOUS
<1> USE DEF SafetyInv, TypeInv, TypeOK, Workers
<1>0. ASSUME NEW t \in Callers, pc[t] # "idle" PROVE req[t].id \in Ids
  BY <1>0 DEF CallerInv, CallType, Ids
<1>1. ASSUME NEW t \in Callers, pc[t] # "idle", NEW result \in {"ok", "err"},
             Finish(t, result), result = "ok" => executed[req[t].id] > 0,
             UNCHANGED <<executed, issued>>
      PROVE  Shown
  BY <1>0, <1>1 DEF Finish, Ends, Silent
<1>2. ASSUME NEW t \in Callers, Abandon(t) PROVE Shown
  BY <1>0, <1>2 DEF Abandon, Ends, tidVars
<1>3. ASSUME NEW t \in Workers, Receive(t) PROVE Shown
  <2>1. t \in Callers /\ pc[t] # "idle" /\ UNCHANGED <<executed, issued>>
    BY <1>3 DEF Receive, OpenerInv
  <2>2. /\ req[t] \in InPlay /\ Head(inq) \in InPlay
        /\ Head(inq) \in Requests /\ Head(inq) \in Range(inq)
    BY <1>3, <2>1, CallerInPlay, HeadTailElements DEF Receive, TakeAnswer, NetType, InPlay
  <2>3. Accepts(req[t], Head(inq)) => Head(inq).id = req[t].id
    BY <2>2 DEF Accepts, TidUnique
  <2>4. req[t].id \in 1..MaxRequests
    BY <1>0, <2>1 DEF Ids
  <2>5. \/ Finish(t, "err")
        \/ Finish(t, "ok") /\ executed[req[t].id] > 0
    BY <1>3, <2>2, <2>3, <2>4 DEF Receive, Answered
  <2> QED
    BY <1>1, <2>1, <2>5
<1>4. ASSUME NEW t \in Workers, IoRaises(t) PROVE Shown
  BY <1>1, <1>4 DEF IoRaises, OpenerInv, tidVars
<1>5. ASSUME NEW t \in Workers, Reclose(t) PROVE Shown
  <2>1. t \in Callers /\ pc[t] # "idle" /\ UNCHANGED <<executed, issued>>
    BY <1>5 DEF Reclose, OpenerInv, tidVars
  <2>2. Finish(t, "err") \/ outcome' = outcome
    BY <1>5 DEF Reclose
  <2> QED
    BY <1>1, <2>1, <2>2 DEF Silent
<1>6. ASSUME NEW t \in Workers, OpenFails(t) \/ IoFails(t) PROVE Shown
  BY <1>6 DEF OpenFails, IoFails, Fail, Silent, tidVars
<1>7. CASE Serve
  <2>1. Head(outq) \in Requests /\ Head(outq) \in Range(outq)
    BY <1>7, HeadTailElements DEF Serve, NetType
  <2>2. CASE Head(outq).id = 0
    BY <1>7, <2>2 DEF Serve, Silent, tidVars
  <2>3. CASE Head(outq).id # 0
    <3>1. Head(outq).id \in Ids /\ OnWire(Head(outq).id)
      BY <2>1, <2>3 DEF Requests, Ids, OnWire
    <3>2. executed[Head(outq).id] < Sendings(Head(outq).id)
      BY <3>1, SendingsType
    <3> QED
      BY <1>7, <2>3, <3>1, <3>2 DEF Serve, Executes, tidVars
  <2> QED
    BY <2>2, <2>3
<1>8. CASE ServeLate
  BY <1>8, CopiesServeLate DEF ServeLate, Executes, tidVars
<1>9. ASSUME UNCHANGED <<tidVars, callVars>> \/ (UNCHANGED <<issued, callVars>>) PROVE Shown
  BY <1>9 DEF Silent, tidVars, callVars
<1> HIDE DEF Shown
<1>10. ASSUME NEW t \in Workers, Acquire(t) \/ ReuseSocket(t) \/ OpenSocket(t)
                                 \/ ConnectDone(t) \/ Send(t)
       PROVE  Shown
  BY <1>9, <1>10 DEF Acquire, ReuseSocket, OpenSocket, ConnectDone, Send, signalVars, tidVars, callVars
<1>11. ASSUME NEW k \in Beaters, BeaterStep(k) PROVE Shown
  BY <1>9, <1>11 DEF BeaterStep, KaCycle, KaExit, KaSkip, KaSend, KaReceive
<1>12. CASE CloserStep \/ UNCHANGED vars
  BY <1>9, <1>12 DEF CloserStep, CloseSetStop, CloseJoined, CloseDone, vars
<1> QED
  BY <1>2, <1>3, <1>4, <1>5, <1>6, <1>7, <1>8, <1>10, <1>11, <1>12
     DEF Next, WorkerStep, Rest

\* Only sending adds a copy, and only of the sender's request.
LEMMA CopiesNext ==
  ASSUME TypeInv, OneCopy, [Next]_vars
  PROVE  NoNewCopies \/ \E t \in Callers : Send(t)
<1> USE DEF TypeInv, TypeOK, Workers
<1>1. ASSUME NEW t \in Callers, Call(t) \/ Abandon(t) PROVE NoNewCopies
  BY <1>1, CopiesSame DEF Call, Abandon, netVars
<1>2. ASSUME NEW t \in Workers, Acquire(t) \/ ReuseSocket(t) \/ OpenSocket(t) \/ OpenFails(t)
                                \/ ConnectDone(t) \/ IoFails(t) \/ IoRaises(t)
      PROVE  NoNewCopies
  BY <1>2, CopiesSame DEF Acquire, ReuseSocket, OpenSocket, OpenFails, ConnectDone,
                          IoFails, IoRaises, Finish, netVars, callVars
<1>3. ASSUME NEW t \in Workers, Send(t) PROVE t \in Callers
  BY <1>3 DEF Send, OpenerInv
<1>4. ASSUME NEW t \in Workers, Receive(t) PROVE NoNewCopies
  BY <1>4, CopiesSame DEF Receive, TakeAnswer
<1>5. ASSUME NEW t \in Workers, Reclose(t) PROVE NoNewCopies
  BY <1>5, CopiesClose DEF Reclose
<1>6. ASSUME NEW k \in Beaters, KaCycle(k) \/ KaExit(k) \/ KaSkip(k) PROVE NoNewCopies
  BY <1>6, CopiesSame DEF KaCycle, KaExit, KaSkip, netVars, callVars
<1>7. ASSUME NEW k \in Beaters, KaSend(k) PROVE NoNewCopies
  <2>1. UNCHANGED executed
    BY <1>7 DEF KaSend, callVars
  <2>2. CASE Transmit(kaReq[k])
    <3>1. kaReq[k] \in Requests /\ kaReq[k].id = 0
      BY <1>7 DEF KaSend, BeaterInv
    <3>2. \A i \in Ids : kaReq[k].id # i
      BY <3>1 DEF Ids
    <3> QED
      BY <2>1, <2>2, <3>1, <3>2, CopiesTransmit, SendingsType DEF NoNewCopies
  <2>3. CASE CloseSocket
    BY <2>1, <2>3, CopiesClose
  <2> QED
    BY <1>7, <2>2, <2>3 DEF KaSend
<1>8. ASSUME NEW k \in Beaters, KaReceive(k) PROVE NoNewCopies
  BY <1>8, CopiesSame, CopiesClose DEF KaReceive, TakeAnswer, callVars
<1>9. CASE CloserStep
  BY <1>9, CopiesSame, CopiesClose DEF CloserStep, CloseSetStop, CloseJoined, CloseDone,
                                       netVars, callVars
<1>10. CASE UNCHANGED vars
  BY <1>10, CopiesSame DEF vars, netVars, callVars
<1> QED
  BY <1>1, <1>2, <1>3, <1>4, <1>5, <1>6, <1>7, <1>8, <1>9, <1>10,
     CopiesServe, CopiesServeLate DEF Next, WorkerStep, BeaterStep, Rest

\* How a step moves a caller that it does not start: its request stays, it
\* comes to sending only through another attempt, and it is ready for
\* another attempt only when the connection has been closed.
MovesOn(u) ==
  pc'[u] # "idle" =>
    /\ pc[u] # "idle" /\ req'[u] = req[u] /\ attempts'[u] >= attempts[u]
    /\ pc'[u] \in AboutToSend => pc[u] \in AboutToSend \/ attempts'[u] > attempts[u]
    /\ pc'[u] \in {"lock"} \cup AboutToSend =>
         pc[u] \in {"lock"} \cup AboutToSend \/ (CloseSocket /\ UNCHANGED executed)

\* Unless a call is made, every caller moves on.
LEMMA CallersNext ==
  ASSUME TypeInv, [Next]_vars
  PROVE  (\E t \in Callers : Call(t)) \/ \A u \in Callers : MovesOn(u)
<1> USE DEF TypeInv, TypeOK, WorkerType, Workers, AboutToSend
<1>1. ASSUME UNCHANGED workerVars PROVE \A u \in Callers : MovesOn(u)
  BY <1>1 DEF MovesOn, workerVars
<1>2. ASSUME NEW t \in Workers, NEW result, Finish(t, result) PROVE \A u \in Callers : MovesOn(u)
  BY <1>2 DEF Finish, MovesOn
<1>3. ASSUME NEW t \in Workers, Acquire(t) PROVE \A u \in Callers : MovesOn(u)
  BY <1>3 DEF Acquire, MovesOn
<1>4. ASSUME NEW t \in Workers, ReuseSocket(t) \/ OpenSocket(t) \/ ConnectDone(t)
      PROVE  \A u \in Callers : MovesOn(u)
  BY <1>4 DEF ReuseSocket, OpenSocket, ConnectDone, MovesOn
<1>5. ASSUME NEW t \in Workers, OpenFails(t) \/ IoFails(t) PROVE \A u \in Callers : MovesOn(u)
  BY <1>5 DEF OpenFails, IoFails, Fail, MovesOn
<1>6. ASSUME NEW t \in Workers, Send(t) PROVE \A u \in Callers : MovesOn(u)
  BY <1>6 DEF Send, MovesOn
<1>7. ASSUME NEW t \in Workers, Reclose(t) PROVE \A u \in Callers : MovesOn(u)
  <2>1. CASE \E result : Finish(t, result)
    BY <2>1, <1>2
  <2>2. CASE pc' = [pc EXCEPT ![t] = "lock"] /\ UNCHANGED <<req, attempts, used>>
    BY <1>7, <2>2 DEF Reclose, MovesOn
  <2> QED
    BY <1>7, <2>1, <2>2 DEF Reclose
<1>8. ASSUME NEW t \in Workers, IoRaises(t) \/ Receive(t) PROVE \A u \in Callers : MovesOn(u)
  BY <1>2, <1>8 DEF IoRaises, Receive
<1>9. ASSUME NEW k \in Beaters, BeaterStep(k) PROVE UNCHANGED workerVars
  BY <1>9 DEF BeaterStep, KaCycle, KaExit, KaSkip, KaSend, KaReceive
<1>10. ASSUME NEW t \in Callers, Abandon(t) PROVE UNCHANGED workerVars
  BY <1>10 DEF Abandon
<1>11. CASE CloserStep \/ Serve \/ ServeLate \/ UNCHANGED vars
  BY <1>1, <1>11 DEF CloserStep, CloseSetStop, CloseJoined, CloseDone, Serve, ServeLate, vars
<1> QED
  BY <1>1, <1>3, <1>4, <1>5, <1>6, <1>7, <1>8, <1>9, <1>10, <1>11
     DEF Next, WorkerStep, Rest

-----------------------------------------------------------------------------
(* The invariant is inductive. *)

\* A call takes the next number, and no copy of its request exists.
LEMMA CallKeeps ==
  ASSUME SafetyInv, CallsInv, NEW t \in Callers, Call(t)
  PROVE  CallsInv'
<1> USE DEF SafetyInv, TypeInv, TypeOK, WorkerType, CallType, Workers, CallsInv
<1>1. /\ UNCHANGED <<outq, inq, late, executed, attempts>>
      /\ issued' = issued + 1 /\ issued + 1 \in Ids
      /\ outcome' = [outcome EXCEPT ![issued + 1] = "pending"]
      /\ pc' = [pc EXCEPT ![t] = "lock"] /\ pc[t] = "idle"
  BY DEF Call, netVars, Ids
<1>2. /\ req'[t].id = issued + 1
      /\ \A u \in Callers : u # t => pc'[u] = pc[u] /\ req'[u] = req[u]
  BY <1>1 DEF Call
<1>3. \A i \in Ids : Sendings(i)' = Sendings(i) /\ OnWire(i)' = OnWire(i)
  BY <1>1 DEF Sendings, OnWire, Stray
<1>4. OwnRequests'
  BY <1>1, <1>2 DEF OwnRequests, CallerInv
<1>5. OneCopy' /\ Answered'
  BY <1>1 DEF OneCopy, Answered
<1>6. Numbered'
  BY <1>1, <1>3 DEF Numbered, Ids
<1>7. WithinBudget'
  <2>1. Sendings(issued + 1) = 0 /\ ~OnWire(issued + 1)
    BY <1>1, SendingsType DEF Numbered
  <2>2. attempts'[t] \in Nat
    BY <1>1
  <2>3. ASSUME NEW u \in Callers, NEW i \in Ids, pc'[u] # "idle", req'[u].id = i
        PROVE  /\ Sendings(i)' <= attempts'[u]
               /\ pc'[u] \in AboutToSend => Sendings(i)' < attempts'[u]
               /\ pc'[u] \in {"lock"} \cup AboutToSend => ~OnWire(i)'
    <3>1. CASE u = t
      BY ONLY <1>1, <1>2, <1>3, <2>1, <2>2, <2>3, <3>1 DEF AboutToSend, WorkerType
    <3>2. CASE u # t
      BY <1>1, <1>2, <1>3, <2>3, <3>2 DEF WithinBudget
    <3> QED
      BY <3>1, <3>2
  <2>4. \A i \in Ids : Sendings(i)' <= MaxAttempts
    BY <1>3 DEF WithinBudget
  <2> QED
    BY <2>3, <2>4 DEF WithinBudget
<1> QED
  BY <1>4, <1>5, <1>6, <1>7

\* Sending uses up the attempt: its copy is the only one.
LEMMA SendKeeps ==
  ASSUME SafetyInv, CallsInv, NEW t \in Callers, Send(t)
  PROVE  OwnRequests' /\ OneCopy' /\ WithinBudget'
         /\ \A i \in Ids : i > issued => Sendings(i)' = Sendings(i)
<1> USE DEF SafetyInv, TypeInv, TypeOK, WorkerType, CallType, NetType, Workers, CallsInv
<1>1. /\ req[t] \in Requests /\ req[t].id \in 1..issued /\ req[t].id \in Ids
      /\ Transmit(req[t]) /\ UNCHANGED <<executed, req, attempts>>
      /\ pc[t] = "send" /\ pc' = [pc EXCEPT ![t] = "recv"]
  BY DEF Send, CallerInv, Ids, callVars
<1>2. \A i \in Ids : i # req[t].id =>
        Sendings(i)' = Sendings(i) /\ (OnWire(i)' => OnWire(i))
  BY <1>1, CopiesTransmit
<1>3. \A i \in Ids : i = req[t].id =>
        /\ Sendings(i)' \in Nat /\ Sendings(i) \in Nat
        /\ Sendings(i)' <= Sendings(i) + 1
  BY <1>1, CopiesTransmit, SendingsType
<1>4. Sendings(req[t].id) < attempts[t] /\ ~OnWire(req[t].id)
  BY <1>1 DEF WithinBudget, AboutToSend
<1>5. OwnRequests'
  BY <1>1 DEF OwnRequests
<1>6. OneCopy'
  <2>1. /\ Len(outq') = Len(outq) + 1 /\ outq'[Len(outq) + 1] = req[t]
        /\ \A k \in 1..Len(outq) : outq'[k] = outq[k]
        /\ Len(outq) \in Nat
    BY <1>1 DEF Transmit
  <2>2. \A k \in 1..Len(outq) : outq[k].id # req[t].id
    BY <1>4 DEF OnWire, Range
  <2>3. OneCopy
    OBVIOUS
  <2> QED
    BY ONLY <2>1, <2>2, <2>3 DEF OneCopy
<1>7. WithinBudget'
  <2>0. attempts[t] \in Nat /\ attempts[t] <= MaxAttempts
    OBVIOUS
  <2>1. ASSUME NEW i \in Ids PROVE Sendings(i)' <= MaxAttempts
    <3>1. CASE i = req[t].id
      BY ONLY <1>3, <1>4, <2>0, <2>1, <3>1, SessionAssumption
    <3>2. CASE i # req[t].id
      BY <1>2, <3>2 DEF WithinBudget
    <3> QED
      BY <3>1, <3>2
  <2>2. ASSUME NEW u \in Callers, NEW i \in Ids, pc'[u] # "idle", req'[u].id = i
        PROVE  /\ Sendings(i)' <= attempts'[u]
               /\ pc'[u] \in AboutToSend => Sendings(i)' < attempts'[u]
               /\ pc'[u] \in {"lock"} \cup AboutToSend => ~OnWire(i)'
    <3>1. CASE u = t
      <4>1. pc'[u] = "recv" /\ attempts'[u] = attempts[t] /\ i = req[t].id
        BY <1>1, <2>2, <3>1
      <4> QED
        BY ONLY <1>3, <1>4, <2>0, <2>2, <4>1 DEF AboutToSend
    <3>2. CASE u # t
      <4>1. pc'[u] = pc[u] /\ attempts'[u] = attempts[u] /\ req'[u] = req[u]
        BY <1>1, <3>2
      <4>2. i # req[t].id
        BY <1>1, <2>2, <3>2, <4>1 DEF OwnRequests
      <4>3. WithinBudget
        OBVIOUS
      <4> QED
        BY ONLY <1>2, <2>2, <4>1, <4>2, <4>3 DEF WithinBudget
    <3> QED
      BY <3>1, <3>2
  <2> QED
    BY <2>1, <2>2 DEF WithinBudget
<1> QED
  BY <1>1, <1>2, <1>5, <1>6, <1>7

\* The order of the copies on the connection never brings two together.
LEMMA OneCopyNext ==
  ASSUME TypeInv, OneCopy, [Next]_vars
  PROVE  OneCopy' \/ \E t \in Callers : Send(t)
<1> USE DEF TypeInv, TypeOK, NetType, Workers
<1>1. ASSUME UNCHANGED outq PROVE OneCopy'
  BY <1>1 DEF OneCopy
<1>2. ASSUME CloseSocket PROVE OneCopy'
  BY <1>2 DEF CloseSocket, OneCopy
<1>3. ASSUME outq # <<>>, outq' = Tail(outq) PROVE OneCopy'
  BY <1>3 DEF OneCopy
<1>4. ASSUME NEW t \in Callers, Call(t) \/ Abandon(t) PROVE OneCopy'
  BY <1>1, <1>4 DEF Call, Abandon, netVars
<1>5. ASSUME NEW t \in Workers, Acquire(t) \/ ReuseSocket(t) \/ OpenSocket(t) \/ OpenFails(t)
                                \/ ConnectDone(t) \/ IoFails(t) \/ IoRaises(t) \/ Receive(t)
      PROVE  OneCopy'
  BY <1>1, <1>5 DEF Acquire, ReuseSocket, OpenSocket, OpenFails, ConnectDone,
                    IoFails, IoRaises, Receive, TakeAnswer, netVars
<1>6. ASSUME NEW t \in Workers, Reclose(t) PROVE OneCopy'
  BY <1>2, <1>6 DEF Reclose
<1>7. ASSUME NEW t \in Workers, Send(t) PROVE t \in Callers
  BY <1>7 DEF Send, OpenerInv
<1>8. ASSUME NEW k \in Beaters, KaSend(k) PROVE OneCopy'
  <2>1. CASE Transmit(kaReq[k])
    <3>1. kaReq[k] \in Requests /\ kaReq[k].id = 0
      BY <1>8 DEF KaSend, BeaterInv
    <3>2. /\ Len(outq') = Len(outq) + 1 /\ outq'[Len(outq) + 1] = kaReq[k]
          /\ \A j \in 1..Len(outq) : outq'[j] = outq[j]
      BY <2>1, <3>1 DEF Transmit
    <3>3. Len(outq) \in Nat /\ \A j \in 1..Len(outq) : outq[j].id \in Nat
      <4>1. outq \in Seq(Requests)
        OBVIOUS
      <4>2. Len(outq) \in Nat /\ \A j \in 1..Len(outq) : outq[j] \in Requests
        BY ONLY <4>1
      <4>3. \A q \in Requests : q.id \in Nat
        BY DEF Requests
      <4> QED
        BY <4>2, <4>3
    <3> QED
      BY <3>1, <3>2, <3>3 DEF OneCopy
  <2> QED
    BY <1>2, <1>8, <2>1 DEF KaSend
<1>9. ASSUME NEW k \in Beaters, KaCycle(k) \/ KaExit(k) \/ KaSkip(k) \/ KaReceive(k)
      PROVE  OneCopy'
  BY <1>1, <1>2, <1>9 DEF KaCycle, KaExit, KaSkip, KaReceive, TakeAnswer, netVars
<1>10. CASE CloserStep \/ Serve \/ ServeLate \/ UNCHANGED vars
  BY <1>1, <1>2, <1>3, <1>10 DEF CloserStep, CloseSetStop, CloseJoined, CloseDone,
                                 Serve, ServeLate, vars, netVars
<1> QED
  BY <1>4, <1>5, <1>6, <1>7, <1>8, <1>9, <1>10 DEF Next, WorkerStep, BeaterStep, Rest

\* An answer appears only when the drive executes the request.
LEMMA AnsweredNext ==
  ASSUME ~Tolerant, SafetyInv, Answered, [Next]_vars
  PROVE  Answered'
<1> USE DEF SafetyInv, TypeInv, TypeOK, NetType, CallType, Workers
<1>0. Range(inq) \subseteq Requests
  BY RangeElements
<1>a. \A q \in Requests : q.id \in Nat /\ (q.id > 0 => q.id \in Ids)
  BY DEF Requests, Ids
<1>b. \A i \in Ids : executed[i] \in Nat
  OBVIOUS
<1>1. \A i \in Ids : executed'[i] >= executed[i]
  BY VisibleStep DEF Call, Ends, Executes, Silent
<1>2. ASSUME Range(inq') \subseteq Range(inq) PROVE Answered'
  <2>1. Answered
    OBVIOUS
  <2>2. executed' \in [Ids -> Nat]
    <3>1. TypeInv'
      BY TypeNext
    <3> QED
      BY <3>1
  <2> QED
    BY ONLY <1>0, <1>a, <1>b, <1>1, <1>2, <2>1, <2>2 DEF Answered
<1>3. ASSUME UNCHANGED inq PROVE Answered'
  BY <1>2, <1>3
<1>4. ASSUME CloseSocket \/ TakeAnswer PROVE Answered'
  <2>1. CASE CloseSocket
    BY <1>2, <2>1 DEF CloseSocket, Range
  <2>2. CASE TakeAnswer
    BY <1>2, <2>2, HeadTailElements DEF TakeAnswer
  <2> QED
    BY <1>4, <2>1, <2>2
<1>5. CASE Serve
  <2>1. Head(outq) \in Requests /\ inq' = Append(inq, Head(outq))
    BY <1>5, HeadTailElements DEF Serve
  <2>2. Range(inq') = Range(inq) \cup {Head(outq)}
    BY <2>1, AppendElements
  <2>3. Head(outq).id > 0 => executed'[Head(outq).id] > 0
    BY <1>5, <2>1 DEF Serve, Requests, Ids
  <2> QED
    <3>1. Answered
      OBVIOUS
    <3>2. executed' \in [Ids -> Nat]
      <4>1. TypeInv'
        BY TypeNext
      <4> QED
        BY <4>1
    <3> QED
      BY ONLY <1>0, <1>a, <1>b, <1>1, <2>2, <2>3, <3>1, <3>2 DEF Answered
<1>6. ASSUME NEW t \in Callers, Call(t) \/ Abandon(t) PROVE Answered'
  BY <1>3, <1>6 DEF Call, Abandon, netVars
<1>7. ASSUME NEW t \in Workers, WorkerStep(t) PROVE Answered'
  BY <1>3, <1>4, <1>7 DEF WorkerStep, Acquire, ReuseSocket, OpenSocket, OpenFails,
       ConnectDone, Send, Transmit, IoFails, IoRaises, Receive, Reclose, netVars
<1>8. ASSUME NEW k \in Beaters, BeaterStep(k) PROVE Answered'
  BY <1>3, <1>4, <1>8 DEF BeaterStep, KaCycle, KaExit, KaSkip, KaSend, KaReceive,
       Transmit, netVars
<1>9. CASE CloserStep \/ ServeLate \/ UNCHANGED vars
  BY <1>3, <1>4, <1>9 DEF CloserStep, CloseSetStop, CloseJoined, CloseDone, ServeLate,
       vars, netVars
<1> QED
  BY <1>5, <1>6, <1>7, <1>8, <1>9 DEF Next, Rest

\* No step breaks the account of a call: executions and copies never exceed
\* its attempts (retry.py:52-57, session.py:161-203).
LEMMA CallsNextInv ==
  ASSUME ~Tolerant, SafetyInv, CallsInv, [Next]_vars
  PROVE  CallsInv'
<1> USE DEF SafetyInv, TypeInv, TypeOK, Workers, CallsInv
<1>1. CASE \E t \in Callers : Call(t)
  BY <1>1, CallKeeps
<1>2. CASE ~\E t \in Callers : Call(t)
  <2>1. Answered'
    BY AnsweredNext
  <2>2. \A u \in Callers : MovesOn(u)
    BY <1>2, CallersNext
  <2>3. \A i \in Ids : /\ outcome'[i] = "none" <=> outcome[i] = "none"
                       /\ issued' = issued
    BY <1>2, VisibleStep DEF Ends, Executes, Silent, CallType, Ids
  <2>4. issued' = issued
    BY <1>2, VisibleStep DEF Ends, Executes, Silent
  <2>5. CASE \E t \in Callers : Send(t)
    <3>1. OwnRequests' /\ OneCopy' /\ WithinBudget'
          /\ \A i \in Ids : i > issued => Sendings(i)' = Sendings(i)
      BY <2>5, SendKeeps
    <3>2. Numbered'
      BY <2>3, <2>4, <3>1 DEF Numbered
    <3> QED
      BY <2>1, <3>1, <3>2
  <2>6. CASE ~\E t \in Callers : Send(t)
    <3>1. NoNewCopies
      BY <2>6, CopiesNext
    <3>2. \A i \in Ids : Sendings(i) \in Nat
      BY SendingsType
    <3>3. OneCopy'
      BY <2>6, OneCopyNext
    <3>4. OwnRequests'
      BY <2>2 DEF MovesOn, OwnRequests
    <3>5. Numbered'
      BY <2>3, <2>4, <3>1, <3>2 DEF Numbered, NoNewCopies
    <3>6. WithinBudget'
      <4>1. \A i \in Ids : Sendings(i)' <= MaxAttempts
        BY <3>1, <3>2 DEF WithinBudget, NoNewCopies
      <4>2. ASSUME NEW u \in Callers, NEW i \in Ids, pc'[u] # "idle", req'[u].id = i
            PROVE  /\ Sendings(i)' <= attempts'[u]
                   /\ pc'[u] \in AboutToSend => Sendings(i)' < attempts'[u]
                   /\ pc'[u] \in {"lock"} \cup AboutToSend => ~OnWire(i)'
        <5>1. pc[u] # "idle" /\ req[u].id = i
          BY <2>2, <4>2 DEF MovesOn
        <5>2. attempts[u] \in Nat /\ attempts'[u] \in Nat
          <6>1. WorkerType /\ WorkerType'
            BY TypeNext
          <6> QED
            BY <6>1 DEF WorkerType
        <5>3. /\ Sendings(i) <= attempts[u]
              /\ pc[u] \in AboutToSend => Sendings(i) < attempts[u]
              /\ pc[u] \in {"lock"} \cup AboutToSend => ~OnWire(i)
          BY <5>1 DEF WithinBudget
        <5>4. /\ Sendings(i)' \in Nat /\ Sendings(i) \in Nat
              /\ Sendings(i)' <= Sendings(i)
              /\ OnWire(i)' => OnWire(i)
              /\ CloseSocket /\ UNCHANGED executed => ~OnWire(i)'
          BY <3>1, <3>2, CopiesClose DEF NoNewCopies
        <5>5. MovesOn(u)
          BY <2>2
        <5> QED
          BY ONLY <4>2, <5>2, <5>3, <5>4, <5>5 DEF MovesOn
      <4> QED
        BY <4>1, <4>2 DEF WithinBudget
    <3> QED
      BY <2>1, <3>3, <3>4, <3>5, <3>6
  <2> QED
    BY <2>5, <2>6
<1> QED
  BY <1>1, <1>2

-----------------------------------------------------------------------------
(* The refinement. *)

\* A new session has made no call.
LEMMA CallsInit == Init => CallsInv
<1> SUFFICES ASSUME Init PROVE CallsInv
  OBVIOUS
<1>1. OwnRequests /\ OneCopy /\ Answered
  BY DEF Init, OwnRequests, OneCopy, Answered, Range, Workers
<1>2. ASSUME NEW i \in Ids PROVE Sendings(i) = 0 /\ ~OnWire(i)
  <2>1. Stray(i) = {} /\ ~OnWire(i) /\ executed[i] = 0
    BY DEF Init, Stray, OnWire, Range
  <2>2. Cardinality(Stray(i)) = 0
    BY <2>1, FS_EmptySet
  <2> QED
    BY <2>1, <2>2 DEF Sendings
<1>3. Numbered
  BY <1>2 DEF Init, Numbered, Ids
<1>4. WithinBudget
  BY <1>2 DEF Init, WithinBudget, Workers, AboutToSend
<1> QED
  BY <1>1, <1>3, <1>4 DEF CallsInv

\* The account of every call holds throughout.
LEMMA CallsInvariant == ~Tolerant => (Spec => []CallsInv)
<1> SUFFICES ASSUME ~Tolerant PROVE Spec => []CallsInv
  OBVIOUS
<1>1. SafetyInv /\ CallsInv /\ [Next]_vars => CallsInv'
  BY CallsNextInv
<1> QED
  BY <1>1, CallsInit, SafetyInvariant, PTL DEF Spec

\* A step of the session is a step of DriveCalls or none at all.
LEMMA CallsStep ==
  ASSUME ~Tolerant, SafetyInv, CallsInv, [Next]_vars
  PROVE  [Calls!CallsNext]_(Calls!callVars)
<1> USE DEF CallsInv, SafetyInv, TypeInv, TypeOK, CallType
<1>0. Calls!Ids = Ids
  BY DEF Calls!Ids, Ids
<1>1. ASSUME NEW t \in Callers, Call(t) PROVE Calls!CallsNext
  <2>1. /\ issued + 1 \in Ids /\ UNCHANGED executed
        /\ outcome' = [outcome EXCEPT ![issued + 1] = "pending"]
    BY <1>1 DEF Call, Ids
  <2>2. outcome[issued + 1] = "none"
    BY <2>1 DEF Numbered
  <2>3. Calls!Submit(issued + 1)
    BY <2>1, <2>2 DEF Calls!Submit
  <2> QED
    BY <1>0, <2>1, <2>3 DEF Calls!CallsNext
<1>2. ASSUME NEW i \in Ids, Ends(i) PROVE Calls!CallsNext
  <2>1. Calls!GiveUp(i) \/ Calls!Complete(i)
    BY <1>2 DEF Ends, Calls!GiveUp, Calls!Complete
  <2> QED
    BY <1>0, <2>1 DEF Calls!CallsNext
<1>3. ASSUME NEW i \in Ids, Executes(i) PROVE Calls!CallsNext
  <2>1. /\ executed[i] \in Nat /\ Sendings(i) \in Nat /\ executed[i] < Sendings(i)
        /\ Sendings(i) <= MaxAttempts
    BY <1>3, SendingsType DEF Executes, WithinBudget
  <2>2. executed[i] < MaxAttempts /\ Sendings(i) # 0
    BY ONLY <2>1, SessionAssumption
  <2>3. outcome[i] # "none"
    BY <2>2 DEF Numbered, Ids
  <2>4. Calls!Execute(i)
    BY <1>3, <2>2, <2>3 DEF Executes, Calls!Execute
  <2> QED
    BY <1>0, <2>4 DEF Calls!CallsNext
<1>4. CASE Silent
  BY <1>4 DEF Silent, Calls!callVars
<1> QED
  BY <1>1, <1>2, <1>3, <1>4, VisibleStep

\* With strict transaction ids the session keeps the promise of DriveCalls,
\* for any number of callers and any retry budget: a call ends once, succeeds
\* only if the drive executed it, and is executed at most once per attempt,
\* wherever its copies end up (retry.py:52-57, session.py:161-203).
THEOREM SessionImplementsCalls == ~Tolerant => (Spec => ImplementsDriveCalls)
<1> SUFFICES ASSUME ~Tolerant PROVE Spec => ImplementsDriveCalls
  OBVIOUS
<1>1. Init => Calls!CallsInit
  BY DEF Init, Calls!CallsInit, Calls!Ids, Ids
<1>2. SafetyInv /\ CallsInv /\ [Next]_vars => [Calls!CallsNext]_(Calls!callVars)
  BY CallsStep
<1>3. Spec => []CallsInv
  BY CallsInvariant
<1> QED
  BY <1>1, <1>2, <1>3, SafetyInvariant, PTL DEF Spec, ImplementsDriveCalls, Calls!CallsSpec

=============================================================================
