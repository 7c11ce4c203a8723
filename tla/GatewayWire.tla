---------------------------- MODULE GatewayWire ----------------------------
(***************************************************************************)
(* Reads and writes of the object dictionary from api/od_accessor.py down  *)
(* to the gateway and back, with the values they carry.  The session makes *)
(* one request at a time; what ModbusSession shows of it is taken over     *)
(* here: a call may give up while its answer is still to come, the next    *)
(* one may use the connection before it is replaced, a retry repeats the   *)
(* telegram on a new connection, and the old connection may still deliver. *)
(* The gateway is the server of simulator.py, or an external one.          *)
(***************************************************************************)
EXTENDS GatewayCodec, SequencesExt

CONSTANTS
  Values,        \* values callers write
  TidOk,         \* allow_tid_mismatch()
  MaxRequests,   \* bound: calls
  MaxRepeats     \* bound: attempts beyond the first

ASSUME WireAssumption ==
  /\ Values \subseteq Int /\ TidOk \in BOOLEAN
  /\ MaxRequests \in Nat /\ MaxRepeats \in Nat

VARIABLES
  od,            \* the object dictionary: object -> its bytes
  gateway,       \* "simulator" or "field"
  unitOk,        \* allow_unit_id_wildcard()
  link,          \* the connection: "up" or "closed" by the gateway
  outq, inq,     \* requests and answers on the connection
  old,           \* requests that closed connections may still deliver
  call,          \* the request of the call under way, or NoCall
  last,          \* how the last call ended
  calls, repeats,   \* bounded counters; calls is the transaction id too
  executed,      \* ghost: requests the gateway has executed
  meant,         \* ghost: the last request each object was written by
  seen           \* ghost: the values the object has had during the call

envVars == <<gateway, unitOk>>
netVars == <<link, outq, inq, old>>
ghostVars == <<executed, meant, seen>>
vars == <<od, envVars, netVars, call, last, calls, repeats, ghostVars>>

NoCall == Request(0, "unit", CHOOSE o \in Objects : TRUE, FALSE, 1, FALSE, 0)
NoResult == [outcome |-> "none", of |-> NoCall, value |-> 0, own |-> TRUE]

-----------------------------------------------------------------------------
(* The accessor. *)

Begins(r) ==
  /\ call = NoCall /\ calls < MaxRequests
  /\ calls' = calls + 1
  /\ call' = r
  /\ outq' = Append(outq, r)
  /\ seen' = {od[r.object]}
  /\ last' = NoResult
  /\ UNCHANGED <<od, envVars, link, inq, old, repeats, executed, meant>>

\* Width and signedness of read_u16(), read_i32(), read_u32() and read_i8(), and
\* of write_u16(), write_u32(), write_i32() and write_u8().
Readers == {<<2, FALSE>>, <<4, TRUE>>, <<4, FALSE>>, <<1, TRUE>>}
Writers == {<<2, FALSE>>, <<4, FALSE>>, <<4, TRUE>>, <<1, FALSE>>}

Read(o, w, signed) == link = "up" /\ Begins(Request(calls + 1, "unit", o, FALSE, w, signed, 0))

Write(o, w, signed, v) ==
  /\ link = "up" /\ InRange(v, w, signed)
  /\ Begins(Request(calls + 1, "unit", o, TRUE, w, signed, v))

\* pack_int() refuses the value: nothing is sent.
WriteRefused(w, signed, v) ==
  /\ call = NoCall /\ calls < MaxRequests
  /\ ~InRange(v, w, signed)
  /\ calls' = calls + 1
  /\ last' = [NoResult EXCEPT !.outcome = "error"]
  /\ UNCHANGED <<od, envVars, netVars, call, repeats, ghostVars>>

\* The call ends; m is what it was answered.
Receive ==
  /\ call # NoCall /\ inq # <<>>
  /\ inq' = Tail(inq)
  /\ LET m == Head(inq)
         how == Parsed(m, call, TidOk, unitOk)
     IN  last' = [outcome |-> how, of |-> call, own |-> m.about = call.id,
                  value |-> IF how = "ok" /\ ~call.write THEN Decoded(m, call) ELSE 0]
  /\ call' = NoCall
  /\ UNCHANGED <<od, envVars, link, outq, old, calls, repeats, ghostVars>>

\* The retries are used up, or the caller gave up; the answer may still come.
GiveUp ==
  /\ call # NoCall
  /\ last' = [NoResult EXCEPT !.outcome = "error"]
  /\ call' = NoCall /\ seen' = {}
  /\ UNCHANGED <<od, envVars, netVars, calls, repeats, executed, meant>>

\* The connection is replaced; what was sent may still be delivered.
NewLink ==
  /\ link' = "up" /\ inq' = <<>>
  /\ old' = old \cup Range(outq)

Reconnect ==
  /\ call = NoCall
  /\ link = "closed" \/ outq # <<>> \/ inq # <<>>
  /\ NewLink /\ outq' = <<>>
  /\ UNCHANGED <<od, envVars, call, last, calls, repeats, ghostVars>>

\* A failed attempt is repeated: the same telegram, a new connection.
Repeat ==
  /\ call # NoCall /\ repeats < MaxRepeats
  /\ repeats' = repeats + 1
  /\ NewLink /\ outq' = <<call>>
  /\ UNCHANGED <<od, envVars, call, last, calls, ghostVars>>

-----------------------------------------------------------------------------
(* The gateway. *)

Executed(r) ==
  /\ od' = IF r.write THEN [od EXCEPT ![r.object] = WriteData(r)] ELSE od
  /\ executed' = executed \cup {r.id}
  /\ meant' = IF r.write THEN [meant EXCEPT ![r.object] = r] ELSE meant
  /\ seen' = IF call # NoCall THEN seen \cup {od'[call.object]} ELSE seen

Untouched == UNCHANGED <<od, ghostVars>>

\* The next request is taken from the connection and answered with m.
Answers(m) ==
  /\ outq' = Tail(outq) /\ inq' = Append(inq, m)
  /\ UNCHANGED <<envVars, old, call, last, calls, repeats>>

\* modbus_handle_client(): a request it serves
Serve ==
  /\ gateway = "simulator" /\ link = "up" /\ outq # <<>>
  /\ StrictlyServed(Head(outq))
  /\ Executed(Head(outq))
  /\ Answers(ServerAnswer(od[Head(outq).object], Head(outq)))
  /\ UNCHANGED link

\* The write is done before its size is checked (mutant).
RefuseAfterwards ==
  /\ gateway = "simulator" /\ link = "up" /\ outq # <<>>
  /\ ~StrictlyServed(Head(outq))
  /\ Executed(Head(outq))
  /\ Answers(ExceptionAnswer(Head(outq), Head(outq).id, Head(outq).unit))
  /\ link' = "closed"

\* ... and one it refuses: exception 03, and the connection is closed.
Refuse ==
  /\ gateway = "simulator" /\ link = "up" /\ outq # <<>>
  /\ ~StrictlyServed(Head(outq))
  /\ Answers(ExceptionAnswer(Head(outq), Head(outq).id, Head(outq).unit))
  /\ link' = "closed"
  /\ Untouched

\* External: a gateway in the field executes and answers in its own way,
FieldServe ==
  /\ gateway = "field" /\ outq # <<>>
  /\ Executed(Head(outq))
  /\ \E m \in FieldAnswers(od[Head(outq).object], Head(outq)) : Answers(m)
  /\ UNCHANGED link

\* ... or is busy.
FieldBusy ==
  /\ gateway = "field" /\ outq # <<>>
  /\ Answers(ExceptionAnswer(Head(outq), Head(outq).id, Head(outq).unit))
  /\ UNCHANGED link
  /\ Untouched

\* A request sent on a connection that has been replaced is executed.
ServeLate(r) ==
  /\ r \in old
  /\ old' = old \ {r}
  /\ IF gateway = "field" \/ StrictlyServed(r) THEN Executed(r) ELSE Untouched
  /\ UNCHANGED <<envVars, link, outq, inq, call, last, calls, repeats>>

-----------------------------------------------------------------------------
Init ==
  /\ od = [o \in Objects |-> 0]
  /\ gateway \in {"simulator", "field"}
  /\ unitOk \in BOOLEAN
  /\ link = "up" /\ outq = <<>> /\ inq = <<>> /\ old = {}
  /\ call = NoCall /\ last = NoResult
  /\ calls = 0 /\ repeats = 0
  /\ executed = {} /\ meant = [o \in Objects |-> NoCall] /\ seen = {}

\* No call is under way: the system may rest.
Rest == call = NoCall /\ UNCHANGED vars

Next ==
  \/ \E o \in Objects, a \in Readers : Read(o, a[1], a[2])
  \/ \E o \in Objects, a \in Writers, v \in Values : Write(o, a[1], a[2], v)
  \/ \E a \in Writers, v \in Values : WriteRefused(a[1], a[2], v)
  \/ Receive \/ GiveUp \/ Reconnect \/ Repeat
  \/ Serve \/ Refuse \/ FieldServe \/ FieldBusy
  \/ \E r \in old : ServeLate(r)
  \/ Rest

Spec == Init /\ [][Next]_vars

-----------------------------------------------------------------------------
(* Properties. *)

ResultIs(outcome) == last.outcome = outcome

\* Every variable has its type; what an object holds fits its width.
TypeOK ==
  /\ \A o \in Objects : od[o] \in 0..(Modulus[SizeOf[o]] - 1)
  /\ DOMAIN od = Objects /\ DOMAIN meant = Objects
  /\ gateway \in {"simulator", "field"} /\ unitOk \in BOOLEAN
  /\ link \in {"up", "closed"}
  /\ \A i \in 1..Len(outq) : outq[i].id \in 1..calls
  /\ \A i \in 1..Len(inq) : inq[i].about \in 1..calls
  /\ \A r \in old \cup {call, last.of} : r.id \in 0..calls
  /\ last.outcome \in {"none", "ok", "refused", "mismatch", "invalid", "error"}
  /\ calls \in 0..MaxRequests /\ repeats \in 0..MaxRepeats
  /\ executed \subseteq 1..calls

\* With strict transaction ids a write that succeeds has been executed by the
\* gateway, whatever answers are left over from calls that gave up, and however
\* the gateway words its acknowledgements (gateway_telegram.py:262-290,
\* sdo.py:162-177).
WriteAckMeansWritten ==
  ~TidOk /\ ResultIs("ok") /\ last.of.write => last.of.id \in executed

\* The value stored is what the last write meant: pack_int() and the server's
\* own unpacking agree on every width and sign, whatever the width of the object,
\* as long as the object can hold the value (codec.py:17-33,
\* simulator.py:613-667).
StoredIsMeant ==
  \A o \in Objects :
    LET r == meant[o]
    IN  r.id > 0 /\ InRange(r.value, SizeOf[o], r.signed)
          => Unpacked(od[o], SizeOf[o], r.signed) = r.value

\* With strict transaction ids a read returns a value the object had during
\* the call, cut to the width that was asked for, whatever has been left over,
\* padded or sent too wide - except a signed read of an object of another
\* width (gateway_telegram.py:298-324, od_accessor.py:54, 72).
ReadsWhatIsStored ==
  ~TidOk /\ ResultIs("ok") /\ ~last.of.write
    => LET r == last.of
           size == SizeOf[r.object]
       IN  \E u \in seen :
             IF r.signed
             THEN r.width = size => last.value = Unpacked(u, size, TRUE)
             ELSE last.value = u % Modulus[r.width]

\* A call that is told its request was refused has not been executed, unless
\* the exception answers another request: parse_adu() raises an exception
\* answer before it compares anything (gateway_telegram.py:200-208) - or an
\* attempt before has been delivered.
RefusedIsNotExecuted ==
  ResultIs("refused") /\ last.own /\ repeats = 0 => last.of.id \notin executed
=============================================================================
