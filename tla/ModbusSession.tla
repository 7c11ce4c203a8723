--------------------------- MODULE ModbusSession ---------------------------
(***************************************************************************)
(* The transport session (transport/session.py, modbus_tcp_client.py,      *)
(* retry.py) as the drive facade uses it: the worker threads of the        *)
(* executor run transceive(), a keepalive thread polls the drive on the    *)
(* same socket, and one worker runs close().  The lock protects one        *)
(* attempt at a time; a failed attempt gives the lock up and takes it      *)
(* again to close the socket, and close() does not take it at all.         *)
(*                                                                         *)
(* A step is a stretch of code that no other thread can observe half done: *)
(* an attempt is split at the lock, at connecting, sending and receiving.  *)
(* The TCP connection is two queues, and the drive may answer late.  The   *)
(* payload of a telegram is left out: a request is its object index and    *)
(* transaction id, and id is a ghost that tells requests apart (0 for a    *)
(* keepalive).                                                             *)
(***************************************************************************)
EXTENDS Integers, SequencesExt

CONSTANTS
  Callers,       \* worker threads of the executor that run transceive()
  Beaters,       \* identities of keepalive threads
  Opener,        \* the worker that runs the first connect()
  NoThread,      \* "None"
  Indexes,       \* the object indexes that are accessed
  StatusIndex,   \* 0x6041, which the keepalive reads
  MaxTid,        \* TransactionIdGenerator.max_value
  MaxAttempts,   \* RetryPolicy.max_attempts
  Tolerant,      \* allow_tid_mismatch()
  MayClose,      \* whether drive.close() is called
  MaxRequests,   \* bound: calls made
  MaxConns,      \* bound: connections established
  MaxBeats       \* bound: keepalive cycles

ASSUME SessionAssumption ==
  /\ MaxTid \in Nat \ {0} /\ MaxAttempts \in Nat \ {0}
  /\ MaxRequests \in Nat /\ MaxConns \in Nat /\ MaxBeats \in Nat
  /\ Tolerant \in BOOLEAN /\ MayClose \in BOOLEAN
  /\ StatusIndex \in Indexes
  /\ NoThread \notin Callers \cup Beaters \cup {Opener}
  /\ Opener \notin Callers \cup Beaters
  /\ Callers \cap Beaters = {}

VARIABLES
  lock,          \* ModbusSession._lock: its holder
  pc,            \* where each worker thread is
  req,           \* the request a caller is working on
  attempts,      \* RetryBudget.attempts
  used,          \* ghost: the connection of the caller's attempt
  kaPc,          \* where each keepalive thread is
  kaReq,         \* the request of its cycle
  kaThread,      \* ModbusSession._keepalive_thread
  beats,         \* keepalive cycles so far (bounded)
  stop,          \* ModbusSession._stop_event
  closer,        \* progress of close()
  sock,          \* ModbusTcpClient._sock: 0 for None, else which connection
  conns,         \* connections established so far
  outq,          \* requests on the open connection the drive has not read
  inq,           \* answers on the open connection nobody has read
  late,          \* requests a closed connection may still deliver
  nextTid,       \* TransactionIdGenerator._next
  issued,        \* calls so far (bounded)
  ever,          \* ModbusSession._ever_connected
  signals,       \* calls of on_reconnect
  outcome,       \* what each call's coroutine has seen
  executed       \* ghost: how often the drive executed each request

lockVars == <<lock>>
workerVars == <<pc, req, attempts, used>>
beatVars == <<kaPc, kaReq, kaThread, beats>>
closeVars == <<stop, closer>>
netVars == <<sock, conns, outq, inq, late>>
tidVars == <<nextTid, issued>>
signalVars == <<ever, signals>>
callVars == <<outcome, executed>>
vars == <<lockVars, workerVars, beatVars, closeVars, netVars, tidVars,
          signalVars, callVars>>

Workers == Callers \cup {Opener}
Ids == 1..MaxRequests
Requests == [id : 0..MaxRequests, tid : 1..MaxTid, index : Indexes]
NoRequest == [id |-> 0, tid |-> 0, index |-> StatusIndex]

-----------------------------------------------------------------------------
(* Transaction ids. *)

\* A generator that forgets to skip 0 when it wraps (mutant).
FollowingTidFromZero(tid) == (tid + 1) % (MaxTid + 1)

\* The id that next() leaves for the following request: 0 is skipped.
FollowingTid(tid) == IF tid = MaxTid THEN 1 ELSE tid + 1

\* align(): a 16-bit value reduced to the generator's range, 0 becoming 1.
AlignedTid(value) ==
  LET reduced == (value % 65536) % (MaxTid + 1)
  IN  IF reduced = 0 THEN 1 ELSE reduced

CallerRequests == {req[t] : t \in {u \in Callers : pc[u] # "idle"}}
BeaterRequests == {kaReq[k] : k \in {b \in Beaters : kaPc[b] \in {"lock", "recv"}}}

\* Every request that still has a copy somewhere.
InPlay == CallerRequests \cup BeaterRequests \cup Range(outq) \cup Range(inq)

\* Bound: a transaction id is not issued again while a request that carries
\* it is in play.  The generator has 255 values and does not check this.
TidFresh == \A r \in InPlay : r.tid # nextTid

-----------------------------------------------------------------------------
(* The connection. *)

\* client.close(): the answers nobody read are gone, and requests the drive
\* has not read yet may still reach it.
CloseSocket ==
  /\ sock' = 0
  /\ outq' = <<>>
  /\ inq' = <<>>
  /\ late' = late \cup {<<sock, r.id>> : r \in {q \in Range(outq) : q.id > 0}}
  /\ UNCHANGED conns

\* sendall() on the open connection.
Transmit(r) ==
  /\ outq' = Append(outq, r)
  /\ UNCHANGED <<sock, conns, inq, late>>

\* recv(): the oldest answer on the connection, whoever asked for it.
TakeAnswer ==
  /\ inq # <<>>
  /\ inq' = Tail(inq)
  /\ UNCHANGED <<sock, conns, outq, late>>

\* The gateway answers the requests of a connection in their order.
Serve ==
  /\ outq # <<>>
  /\ outq' = Tail(outq)
  /\ inq' = Append(inq, Head(outq))
  /\ executed' = IF Head(outq).id = 0 THEN executed
                 ELSE [executed EXCEPT ![Head(outq).id] = @ + 1]
  /\ UNCHANGED <<lockVars, workerVars, beatVars, closeVars, sock, conns, late,
                 tidVars, signalVars, outcome>>

\* A request sent on a connection that is closed by now is executed.
ServeLate ==
  /\ \E p \in late :
       /\ late' = late \ {p}
       /\ executed' = [executed EXCEPT ![p[2]] = @ + 1]
  /\ UNCHANGED <<lockVars, workerVars, beatVars, closeVars, sock, conns, outq,
                 inq, tidVars, signalVars, outcome>>

-----------------------------------------------------------------------------
(* Calls: OdAccessorMixin on the event loop. *)

\* A coroutine reads or writes an object: the transaction id is taken on the
\* event loop and transceive() is handed to a worker.  drive.close() unsets
\* _session before it runs session.close(), so no call starts after that.
Call(t) ==
  /\ pc[t] = "idle" /\ pc[Opener] = "idle" /\ closer = "no"
  /\ issued < MaxRequests /\ TidFresh
  /\ issued' = issued + 1
  /\ nextTid' = FollowingTid(nextTid)
  /\ \E x \in Indexes :
       req' = [req EXCEPT ![t] = [id |-> issued + 1, tid |-> nextTid, index |-> x]]
  /\ outcome' = [outcome EXCEPT ![issued + 1] = "pending"]
  /\ pc' = [pc EXCEPT ![t] = "lock"]
  /\ UNCHANGED <<lockVars, attempts, used, beatVars, closeVars, netVars,
                 signalVars, executed>>

\* asyncio.wait_for gives up, or the coroutine is cancelled: the call fails,
\* but its worker cannot be interrupted and goes on.
Abandon(t) ==
  /\ pc[t] # "idle" /\ outcome[req[t].id] = "pending"
  /\ outcome' = [outcome EXCEPT ![req[t].id] = "err"]
  /\ UNCHANGED <<lockVars, workerVars, beatVars, closeVars, netVars, tidVars,
                 signalVars, executed>>

\* A result is delivered although the coroutine has gone (mutant).
FinishAfterAll(t, result) ==
  /\ pc' = [pc EXCEPT ![t] = "idle"]
  /\ req' = [req EXCEPT ![t] = NoRequest]
  /\ attempts' = [attempts EXCEPT ![t] = 0]
  /\ used' = [used EXCEPT ![t] = 0]
  /\ outcome' = [outcome EXCEPT ![req[t].id] = result]

\* The worker is done with its request; the coroutine sees the result unless
\* it has gone.
Finish(t, result) ==
  /\ pc' = [pc EXCEPT ![t] = "idle"]
  /\ req' = [req EXCEPT ![t] = NoRequest]
  /\ attempts' = [attempts EXCEPT ![t] = 0]
  /\ used' = [used EXCEPT ![t] = 0]
  /\ outcome' = IF outcome[req[t].id] = "pending"
                THEN [outcome EXCEPT ![req[t].id] = result] ELSE outcome

\* Every answer on the right object is accepted (mutant).
AcceptsAnyTid(r, resp) == resp.index = r.index

\* parse_adu() on the caller's side: the answer must be about the requested
\* object, and carry the request's id unless mismatches are tolerated.
Accepts(r, resp) ==
  /\ resp.index = r.index
  /\ Tolerant \/ resp.tid = r.tid

-----------------------------------------------------------------------------
(* One attempt of transceive(), by worker t. *)

\* An attempt starts without waiting for the lock (mutant).
AcquireUnlocked(t) ==
  /\ pc[t] = "lock"
  /\ lock' = t
  /\ attempts' = [attempts EXCEPT ![t] = @ + 1]
  /\ pc' = [pc EXCEPT ![t] = "connect"]
  /\ UNCHANGED <<req, used, beatVars, closeVars, netVars, tidVars, signalVars,
                 callVars>>

\* budget.attempts += 1; with self._lock
Acquire(t) ==
  /\ pc[t] = "lock" /\ lock = NoThread
  /\ lock' = t
  /\ attempts' = [attempts EXCEPT ![t] = @ + 1]
  /\ pc' = [pc EXCEPT ![t] = "connect"]
  /\ UNCHANGED <<req, used, beatVars, closeVars, netVars, tidVars, signalVars,
                 callVars>>

\* A failed attempt keeps the lock (mutant).
FailKeepsLock(t) ==
  /\ pc' = [pc EXCEPT ![t] = "failed"]
  /\ UNCHANGED <<lock, req, attempts, used, outcome>>

\* An exception of retry_on leaves the with block; the socket stays open.
Fail(t) ==
  /\ lock' = NoThread
  /\ pc' = [pc EXCEPT ![t] = "failed"]
  /\ UNCHANGED <<req, attempts, used, outcome>>

\* connect(): nothing to do when a socket is there.
ReuseSocket(t) ==
  /\ pc[t] = "connect" /\ sock # 0
  /\ used' = [used EXCEPT ![t] = sock]
  /\ pc' = [pc EXCEPT ![t] = "send"]
  /\ UNCHANGED <<lockVars, req, attempts, beatVars, closeVars, netVars,
                 tidVars, signalVars, callVars>>

\* connect(): client.connect() establishes a new connection.
OpenSocket(t) ==
  /\ pc[t] = "connect" /\ sock = 0 /\ conns < MaxConns
  /\ conns' = conns + 1
  /\ sock' = conns'
  /\ used' = [used EXCEPT ![t] = conns']
  /\ pc' = [pc EXCEPT ![t] = "connected"]
  /\ UNCHANGED <<lockVars, req, attempts, beatVars, closeVars, outq, inq, late,
                 tidVars, signalVars, callVars>>

\* connect(): the drive cannot be reached.  drive.connect() then raises and
\* the session is never used.
OpenFails(t) ==
  /\ pc[t] = "connect" /\ sock = 0
  /\ IF t = Opener
     THEN /\ pc' = [pc EXCEPT ![t] = "dead"]
          /\ UNCHANGED <<lockVars, req, attempts, used, outcome>>
     ELSE Fail(t)
  /\ UNCHANGED <<beatVars, closeVars, netVars, tidVars, signalVars, executed>>

\* _start_keepalive_thread(): note that it clears the stop event.
StartKeepalive ==
  /\ \E k \in Beaters :
       /\ kaPc[k] = "off"
       /\ kaThread' = k
       /\ kaPc' = [kaPc EXCEPT ![k] = "loop"]
  /\ stop' = FALSE
  /\ UNCHANGED <<kaReq, beats, closer>>

\* Every connection fires on_reconnect, the first one too (mutant).
ConnectDoneAlwaysSignals(t) ==
  /\ pc[t] = "connected"
  /\ signals' = signals + 1
  /\ ever' = TRUE
  /\ IF kaThread = NoThread THEN StartKeepalive
     ELSE UNCHANGED <<beatVars, closeVars>>
  /\ pc' = [pc EXCEPT ![t] = IF t = Opener THEN "idle" ELSE "send"]
  /\ UNCHANGED <<lockVars, req, attempts, used, netVars, tidVars, callVars>>

\* The rest of connect(): on_reconnect for every connection but the first,
\* and the keepalive thread if there is none.
ConnectDone(t) ==
  /\ pc[t] = "connected"
  /\ signals' = IF ever THEN signals + 1 ELSE signals
  /\ ever' = TRUE
  /\ IF kaThread = NoThread THEN StartKeepalive
     ELSE UNCHANGED <<beatVars, closeVars>>
  /\ pc' = [pc EXCEPT ![t] = IF t = Opener THEN "idle" ELSE "send"]
  /\ UNCHANGED <<lockVars, req, attempts, used, netVars, tidVars, callVars>>

Send(t) ==
  /\ pc[t] = "send" /\ sock # 0
  /\ Transmit(req[t])
  /\ pc' = [pc EXCEPT ![t] = "recv"]
  /\ UNCHANGED <<lockVars, req, attempts, used, beatVars, closeVars, tidVars,
                 signalVars, callVars>>

\* sendall() fails, or recv() times out or finds the connection closed by
\* the peer or by close(): the exception is one that is retried.
IoFails(t) ==
  /\ \/ pc[t] = "send"
     \/ pc[t] = "recv" /\ inq = <<>>
  /\ Fail(t)
  /\ UNCHANGED <<beatVars, closeVars, netVars, tidVars, signalVars, executed>>

\* close() unset _sock between the check and the use of it: AttributeError
\* is not in retry_on and ends the call at once.
IoRaises(t) ==
  /\ pc[t] \in {"send", "recv"} /\ sock = 0
  /\ lock' = NoThread
  /\ Finish(t, "err")
  /\ UNCHANGED <<beatVars, closeVars, netVars, tidVars, signalVars, executed>>

\* transceive() returns the answer it read; the caller parses it.  Under
\* the tolerant policy the generator is first aligned to the answer's id.
Receive(t) ==
  /\ pc[t] = "recv"
  /\ TakeAnswer
  /\ lock' = NoThread
  /\ LET resp == Head(inq)
     IN  /\ nextTid' = IF Tolerant /\ resp.tid # req[t].tid
                       THEN AlignedTid(resp.tid + 1) ELSE nextTid
         /\ Finish(t, IF ~Accepts(req[t], resp) THEN "err"
                      ELSE IF resp.id = req[t].id THEN "ok" ELSE "foreign")
  /\ UNCHANGED <<beatVars, closeVars, issued, signalVars, executed>>

\* can_retry(): no deadline is ever passed, so only attempts count.
CanRetry(t) == attempts[t] < MaxAttempts

\* The socket of a failed attempt is left open (mutant).
RecloseKeepsSocket(t) ==
  /\ pc[t] = "failed" /\ lock = NoThread
  /\ UNCHANGED netVars
  /\ IF stop \/ ~CanRetry(t)
     THEN Finish(t, "err")
     ELSE /\ pc' = [pc EXCEPT ![t] = "lock"]
          /\ UNCHANGED <<req, attempts, used, outcome>>
  /\ UNCHANGED <<lockVars, beatVars, closeVars, tidVars, signalVars, executed>>

\* The except clause: the lock is taken again to close the socket - the one
\* that is open now - and the call is retried, after a pause, or given up.
Reclose(t) ==
  /\ pc[t] = "failed" /\ lock = NoThread
  /\ CloseSocket
  /\ IF stop \/ ~CanRetry(t)
     THEN Finish(t, "err")
     ELSE /\ pc' = [pc EXCEPT ![t] = "lock"]
          /\ UNCHANGED <<req, attempts, used, outcome>>
  /\ UNCHANGED <<lockVars, beatVars, closeVars, tidVars, signalVars, executed>>

-----------------------------------------------------------------------------
(* The keepalive thread k. *)

\* build(): the telegram takes its id before the lock is asked for.
KaCycle(k) ==
  /\ kaPc[k] = "loop" /\ ~stop
  /\ beats < MaxBeats /\ TidFresh
  /\ beats' = beats + 1
  /\ kaReq' = [kaReq EXCEPT ![k] = [id |-> 0, tid |-> nextTid, index |-> StatusIndex]]
  /\ nextTid' = FollowingTid(nextTid)
  /\ kaPc' = [kaPc EXCEPT ![k] = "lock"]
  /\ UNCHANGED <<lockVars, workerVars, kaThread, closeVars, netVars, issued,
                 signalVars, callVars>>

\* The loop condition fails and the thread ends.
KaExit(k) ==
  /\ kaPc[k] = "loop" /\ stop
  /\ kaPc' = [kaPc EXCEPT ![k] = "off"]
  /\ UNCHANGED <<lockVars, workerVars, kaReq, kaThread, beats, closeVars,
                 netVars, tidVars, signalVars, callVars>>

\* The end of a cycle: back to the loop condition.
KaRest(k) ==
  /\ kaPc' = [kaPc EXCEPT ![k] = "loop"]
  /\ kaReq' = [kaReq EXCEPT ![k] = NoRequest]
  /\ UNCHANGED <<kaThread, beats>>

\* lock.acquire(timeout=0.5) times out: the cycle is skipped.
KaSkip(k) ==
  /\ kaPc[k] = "lock" /\ lock # NoThread
  /\ KaRest(k)
  /\ UNCHANGED <<lockVars, workerVars, closeVars, netVars, tidVars, signalVars,
                 callVars>>

\* The lock is free: send, unless there is no socket; a failure closes it.
KaSend(k) ==
  /\ kaPc[k] = "lock" /\ lock = NoThread
  /\ \/ /\ sock # 0
        /\ Transmit(kaReq[k])
        /\ lock' = k
        /\ kaPc' = [kaPc EXCEPT ![k] = "recv"]
        /\ UNCHANGED <<kaReq, kaThread, beats>>
     \/ /\ CloseSocket
        /\ KaRest(k)
        /\ UNCHANGED lock
  /\ UNCHANGED <<workerVars, closeVars, tidVars, signalVars, callVars>>

\* Read one answer, of whatever request, or close the socket on a timeout.
KaReceive(k) ==
  /\ kaPc[k] = "recv"
  /\ TakeAnswer \/ (inq = <<>> /\ CloseSocket)
  /\ lock' = NoThread
  /\ KaRest(k)
  /\ UNCHANGED <<workerVars, closeVars, tidVars, signalVars, callVars>>

-----------------------------------------------------------------------------
(* session.close(), run by a worker of the executor, without the lock. *)

\* The keepalive thread is not told to stop (mutant).
CloseForgetsStop ==
  /\ MayClose /\ closer = "no" /\ pc[Opener] = "idle"
  /\ closer' = "join"
  /\ UNCHANGED <<lockVars, workerVars, beatVars, stop, netVars, tidVars,
                 signalVars, callVars>>

CloseSetStop ==
  /\ MayClose /\ closer = "no" /\ pc[Opener] = "idle"
  /\ closer' = "join"
  /\ stop' = TRUE
  /\ UNCHANGED <<lockVars, workerVars, beatVars, netVars, tidVars, signalVars,
                 callVars>>

\* t.join(timeout=2.0) returns because the thread has ended, or because a
\* cycle that waits for the lock and the drive outlasts it.
CloseJoined ==
  /\ closer = "join"
  /\ closer' = "socket"
  /\ kaThread' = NoThread
  /\ UNCHANGED <<lockVars, workerVars, kaPc, kaReq, beats, stop, netVars,
                 tidVars, signalVars, callVars>>

CloseDone ==
  /\ closer = "socket"
  /\ closer' = "done"
  /\ CloseSocket
  /\ UNCHANGED <<lockVars, workerVars, beatVars, stop, tidVars, signalVars,
                 callVars>>

-----------------------------------------------------------------------------
Init ==
  /\ lock = NoThread
  /\ pc = [t \in Workers |-> IF t = Opener THEN "connect" ELSE "idle"]
  /\ req = [t \in Workers |-> NoRequest]
  /\ attempts = [t \in Workers |-> 0]
  /\ used = [t \in Workers |-> 0]
  /\ kaPc = [k \in Beaters |-> "off"]
  /\ kaReq = [k \in Beaters |-> NoRequest]
  /\ kaThread = NoThread
  /\ beats = 0
  /\ stop = FALSE
  /\ closer = "no"
  /\ sock = 0
  /\ conns = 0
  /\ outq = <<>>
  /\ inq = <<>>
  /\ late = {}
  /\ nextTid = 1
  /\ issued = 0
  /\ ever = FALSE
  /\ signals = 0
  /\ outcome = [i \in Ids |-> "none"]
  /\ executed = [i \in Ids |-> 0]

\* One step of a worker inside transceive() or connect().
WorkerStep(t) ==
  \/ Acquire(t) \/ ReuseSocket(t) \/ OpenSocket(t) \/ OpenFails(t)
  \/ ConnectDone(t) \/ Send(t) \/ IoFails(t) \/ IoRaises(t) \/ Receive(t)
  \/ Reclose(t)

BeaterStep(k) ==
  KaCycle(k) \/ KaExit(k) \/ KaSkip(k) \/ KaSend(k) \/ KaReceive(k)

CloserStep == CloseSetStop \/ CloseJoined \/ CloseDone

\* Nobody calls any more: the system may rest.
Rest == (\A t \in Callers : pc[t] = "idle") /\ UNCHANGED vars

Next ==
  \/ \E t \in Callers : Call(t) \/ Abandon(t)
  \/ \E t \in Workers : WorkerStep(t)
  \/ \E k \in Beaters : BeaterStep(k)
  \/ CloserStep
  \/ Serve \/ ServeLate
  \/ Rest

\* Threads are scheduled; a thread that waits for a lock that is free again
\* and again gets it in the end; close() runs to its end once it has begun.
\* Neither the drive nor the callers are obliged to anything.
Fairness ==
  /\ \A t \in Workers : WF_vars(WorkerStep(t))
  /\ \A t \in Callers : SF_vars(Acquire(t) \/ Reclose(t))
  /\ \A k \in Beaters : WF_vars(BeaterStep(k))
  /\ WF_vars(CloseJoined \/ CloseDone)

Spec == Init /\ [][Next]_vars
FairSpec == Spec /\ Fairness

-----------------------------------------------------------------------------
(* Properties. *)

WorkerType ==
  /\ lock \in Callers \cup Beaters \cup {NoThread}
  /\ pc \in [Workers -> {"idle", "lock", "connect", "connected", "send",
                         "recv", "failed", "dead"}]
  /\ req \in [Workers -> Requests \cup {NoRequest}]
  /\ attempts \in [Workers -> 0..MaxAttempts]
  /\ used \in [Workers -> 0..MaxConns]

BeaterType ==
  /\ kaPc \in [Beaters -> {"off", "loop", "lock", "recv"}]
  /\ kaReq \in [Beaters -> Requests \cup {NoRequest}]
  /\ kaThread \in Beaters \cup {NoThread}
  /\ beats \in 0..MaxBeats
  /\ stop \in BOOLEAN
  /\ closer \in {"no", "join", "socket", "done"}

NetType ==
  /\ conns \in 0..MaxConns /\ sock \in 0..conns
  /\ outq \in Seq(Requests) /\ inq \in Seq(Requests)
  /\ late \subseteq ((1..MaxConns) \X Ids)
  /\ ever \in BOOLEAN
  /\ signals \in Nat

CallType ==
  /\ nextTid \in 1..MaxTid
  /\ issued \in 0..MaxRequests
  /\ outcome \in [Ids -> {"none", "pending", "ok", "err", "foreign"}]
  /\ executed \in [Ids -> Nat]

\* Every variable has its type.  In particular the generator never issues
\* transaction id 0 (session.py:38-51), and no attempt exceeds the budget.
TypeOK == WorkerType /\ BeaterType /\ NetType /\ CallType

InIo(t) == pc[t] \in {"connect", "connected", "send", "recv"}

\* At most one thread is between taking the lock and giving it up, and it is
\* the one the lock names: no two attempts, and no attempt and keepalive,
\* use the socket at the same time (session.py:168, 248).
SerializedIo ==
  /\ \A t \in Callers : InIo(t) <=> lock = t
  /\ \A k \in Beaters : kaPc[k] = "recv" <=> lock = k

\* A call that succeeds returns the answer to its own request: an answer
\* that a timed-out request left on the socket never passes for another's
\* (parse_adu's strict transaction ids, gateway_telegram.py:265-290).
OwnAnswer == \A i \in Ids : outcome[i] # "foreign"

InFlight == Len(outq) + Len(inq)

\* What is on the connection beyond the request that is being waited for.
Leftover ==
  InFlight > IF \/ \E t \in Callers : pc[t] = "recv"
                \/ \E k \in Beaters : kaPc[k] = "recv"
             THEN 1 ELSE 0

\* The connection is out of step - an answer on it is nobody's - only while
\* a failed attempt is still waiting for the lock to close it
\* (session.py:194-198): no exit of transceive() or of the keepalive cycle
\* leaves an unread answer behind on a socket that stays in use.
LeftoversAreDoomed == Leftover => \E t \in Callers : pc[t] = "failed"

Connecting == \E t \in Workers : pc[t] = "connected"

\* Every connection but the first is announced by one on_reconnect call, and
\* nothing is sent on a connection before that call: the safety stop is
\* scheduled before any other traffic (session.py:111-127).
ReconnectAnnounced ==
  /\ conns = signals + (IF ever THEN 1 ELSE 0) + (IF Connecting THEN 1 ELSE 0)
  /\ Connecting => outq = <<>> /\ inq = <<>>

\* "Stop keepalive and close socket." (session.py:133): once close() has
\* returned and no call is under way, the socket is closed.
ClosedStaysClosed ==
  closer = "done" /\ (\A t \in Callers : pc[t] = "idle") => sock = 0

\* transceive() always returns: no attempt hangs, no lock stays taken, no
\* call is retried for ever (session.py:161-203).
EveryCallReturns == \A t \in Callers : pc[t] # "idle" ~> pc[t] = "idle"

\* When no call is under way as close() begins, the session ends for good:
\* socket closed, every keepalive thread gone, and it stays so
\* (session.py:132-139, 241-272).
CloseEndsSession ==
  (closer = "join" /\ \A t \in Callers : pc[t] = "idle")
    ~> [](sock = 0 /\ \A k \in Beaters : kaPc[k] = "off")

\* Whatever is lost, repeated or abandoned, each call keeps the promise of
\* DriveCalls.  The refinement mapping: the threads, the lock, the sockets and
\* their queues are hidden, and what the coroutine saw and the drive did remains.
Calls == INSTANCE DriveCalls WITH
  MaxRequests <- MaxRequests, MaxAttempts <- MaxAttempts,
  outcome <- outcome, executed <- executed

\* The session implements DriveCalls: one result per call, success only for
\* a request the drive executed, at most max_attempts executions.
ImplementsDriveCalls == Calls!CallsSpec
=============================================================================
