------------------------- MODULE GatewayWireProofs -------------------------
(***************************************************************************)
(* Safety of the gateway's wire for any width of a byte, any objects and   *)
(* values and any number of calls and repeats: what is stored is what was  *)
(* meant, what is read is what was stored, and what is answered is so.     *)
(***************************************************************************)
EXTENDS GatewayWire, SequenceTheorems, TLAPS

USE CodecAssumption, WireAssumption

-----------------------------------------------------------------------------
(* Integers of one to four bytes. *)

\* The number of values of a width is positive and even, so half of them is
\* half of them exactly (codec.py:_range_for).
LEMMA ModulusType ==
  ASSUME NEW w \in 1..4
  PROVE  /\ Modulus[w] \in Nat \ {0}
         /\ Half(w) \in Nat \ {0}
         /\ Modulus[w] = 2 * Half(w)
<1>1. Modulus[w] \in Nat \ {0}
  BY DEF Modulus
<1>2. PICK h \in Nat : Byte = 2 * h
  <2>1. (Byte \div 2) \in Nat /\ Byte = 2 * (Byte \div 2)
    OBVIOUS
  <2> QED
    BY <2>1
<1>3. /\ Modulus[1] = 2 * h
      /\ Modulus[2] = 2 * (h * Byte)
      /\ Modulus[3] = 2 * (h * Byte * Byte)
      /\ Modulus[4] = 2 * (h * Byte * Byte * Byte)
  BY <1>2 DEF Modulus
<1>4. Modulus[w] % 2 = 0
  BY <1>2, <1>3
<1> QED
  BY ONLY <1>1, <1>4 DEF Half

\* Four bytes hold a whole number of fields of any width.
LEMMA FieldsOfLong ==
  ASSUME NEW w \in 1..4
  PROVE  \E k \in Nat \ {0} : Modulus[4] = k * Modulus[w]
<1>1. CASE w = 1
  <2>1. Modulus[4] = (Byte * Byte * Byte) * Modulus[w] /\ Byte * Byte * Byte \in Nat \ {0}
    BY <1>1 DEF Modulus
  <2> QED
    BY <2>1
<1>2. CASE w = 2
  <2>1. Modulus[4] = (Byte * Byte) * Modulus[w] /\ Byte * Byte \in Nat \ {0}
    BY <1>2 DEF Modulus
  <2> QED
    BY <2>1
<1>3. CASE w = 3
  <2>1. Modulus[4] = Byte * Modulus[w]
    BY <1>3 DEF Modulus
  <2> QED
    BY <2>1
<1>4. CASE w = 4
  <2>1. Modulus[4] = 1 * Modulus[w]
    BY <1>4, ModulusType
  <2> QED
    BY <2>1
<1> QED
  BY <1>1, <1>2, <1>3, <1>4

\* Whatever multiple of y is added to it, a number below y is its own remainder.
LEMMA Remainder ==
  ASSUME NEW y \in Nat \ {0}, NEW q \in Nat, NEW r \in 0..(y - 1)
  PROVE  (q * y + r) % y = r
<1> DEFINE x == q * y + r
           p == x \div y
           s == x % y
<1>1. x \in Nat /\ p \in Nat /\ s \in 0..(y - 1) /\ x = p * y + s
  OBVIOUS
<1>2. (q - p) * y = s - r /\ (p - q) * y = r - s
  BY <1>1
<1> HIDE DEF p, s, x
<1>3. ~(q > p)
  <2> SUFFICES ASSUME q > p PROVE FALSE
    OBVIOUS
  <2>1. q - p >= 1
    BY <1>1
  <2>2. (q - p) * y >= y
    BY <2>1, <1>1
  <2> QED
    BY <2>2, <1>2, <1>1
<1>4. ~(q < p)
  <2> SUFFICES ASSUME q < p PROVE FALSE
    OBVIOUS
  <2>1. p - q >= 1
    BY <1>1
  <2>2. (p - q) * y >= y
    BY <2>1, <1>1
  <2> QED
    BY <2>2, <1>2, <1>1
<1>5. q = p
  BY <1>3, <1>4, <1>1
<1>6. s = r
  <2>1. q - p = 0 /\ 0 * y = 0
    BY <1>5, <1>1
  <2> QED
    BY <2>1, <1>2, <1>1
<1> QED
  BY <1>6 DEF s, x

\* What a writer packs is a number of bytes (codec.py:pack_int).
LEMMA PackedType ==
  ASSUME NEW w \in 1..4, NEW signed \in BOOLEAN, NEW v \in Int, InRange(v, w, signed)
  PROVE  Packed(v, w, signed) \in 0..(Modulus[w] - 1)
<1>1. Modulus[w] \in Nat \ {0} /\ Half(w) \in Nat \ {0} /\ Modulus[w] = 2 * Half(w)
  BY ModulusType
<1> QED
  BY ONLY <1>1, v \in Int, signed \in BOOLEAN, InRange(v, w, signed) DEF InRange, Packed

\* pack_int() of one width, the server's cut to another, and unpack_int() of
\* that one give the value back if the object can hold it; a signed value has to
\* be packed as four bytes, as write_i32() does, for the sign is not extended.
LEMMA PackCutUnpack ==
  ASSUME NEW w \in 1..4, NEW size \in 1..4, NEW signed \in BOOLEAN, NEW v \in Int,
         signed => w = 4,
         InRange(v, w, signed), InRange(v, size, signed)
  PROVE  Unpacked(Packed(v, w, signed) % Modulus[size], size, signed) = v
<1> DEFINE m == Modulus[size]
           d == Packed(v, w, signed)
<1>1. m \in Nat \ {0} /\ Half(size) \in Nat \ {0} /\ m = 2 * Half(size)
  BY ModulusType
<1>2. CASE v >= 0
  <2>1. d = v
    BY <1>2 DEF Packed
  <2>2. v \in 0..(m - 1) /\ (signed => v < Half(size))
    BY ONLY <1>1, <1>2, v \in Int, signed \in BOOLEAN, InRange(v, size, signed) DEF InRange
  <2>3. (0 * m + v) % m = v
    BY <1>1, <2>2, Remainder
  <2>4. 0 * m + v = v
    BY <1>1, <2>2
  <2> QED
    BY <2>1, <2>2, <2>3, <2>4, <1>1 DEF Unpacked
<1>3. CASE v < 0
  <2>1. signed /\ v >= -Half(size)
    BY ONLY <1>1, <1>3, v \in Int, signed \in BOOLEAN, InRange(v, size, signed) DEF InRange
  <2>2. d = v + Modulus[4]
    BY <1>3, <2>1 DEF Packed
  <2>3. PICK k \in Nat \ {0} : Modulus[4] = k * m
    BY FieldsOfLong
  <2>4. v + m \in 0..(m - 1) /\ v + m >= Half(size)
    BY ONLY <1>1, <1>3, <2>1, v \in Int
  <2>5. d = (k - 1) * m + (v + m)
    BY <1>1, <2>2, <2>3
  <2>6. d % m = v + m
    <3>1. k - 1 \in Nat
      OBVIOUS
    <3> QED
      BY <1>1, <2>4, <2>5, <3>1, Remainder
  <2>7. Unpacked(v + m, size, signed) = (v + m) - m
    BY <2>1, <2>4 DEF Unpacked
  <2> QED
    BY <1>1, <2>6, <2>7
<1> QED
  BY <1>2, <1>3

-----------------------------------------------------------------------------
(* The inductive invariant. *)

\* What a caller can ask: a written value is in the range of its width and
\* packed as that, and only write_i32() writes signed values.
Requests ==
  {r \in [id : Nat \ {0}, unit : {"unit"}, object : Objects, write : BOOLEAN,
          width : 1..4, signed : BOOLEAN, value : Int, data : Nat] :
     r.write => /\ InRange(r.value, r.width, r.signed)
                /\ r.data = Packed(r.value, r.width, r.signed)
                /\ r.signed => r.width = 4}

\* What a gateway can answer: it echoes the transaction id, or does not.
Replies ==
  {m \in [about : Nat \ {0}, tid : Nat, unit : {"unit", "wildcard"}, exception : BOOLEAN,
          ctrl : {0, 1}, object : Objects, count : 0..4, data : Nat] :
     m.tid \in {0, m.about}}

Outcomes == {"none", "ok", "refused", "mismatch", "invalid", "error"}

\* Requests the gateway may still execute.
InFlight == Range(outq) \cup old

\* The types TypeOK gives, with those of what is sent, answered and remembered.
WireType ==
  /\ od \in [Objects -> Nat] /\ \A o \in Objects : od[o] \in 0..(Modulus[SizeOf[o]] - 1)
  /\ gateway \in {"simulator", "field"} /\ unitOk \in BOOLEAN
  /\ link \in {"up", "closed"}
  /\ outq \in Seq(Requests) /\ old \in SUBSET Requests /\ inq \in Seq(Replies)
  /\ call \in Requests \cup {NoCall}
  /\ last.outcome \in Outcomes /\ last.of \in Requests \cup {NoCall}
  /\ meant \in [Objects -> Requests \cup {NoCall}]
  /\ calls \in 0..MaxRequests /\ repeats \in 0..MaxRepeats

\* No id is used before its call.
IdsUsed ==
  /\ \A r \in InFlight \cup {call, last.of} : r.id \in 0..calls
  /\ \A m \in Range(inq) : m.about \in 1..calls
  /\ executed \subseteq 1..calls

TypeInv == WireType /\ IdsUsed

\* Every copy of a request is the request: a repeat sends the same telegram.
CopiesAreEqual ==
  \A r, q \in InFlight \cup {call} : r.id = q.id => r = q

\* What was answered other than by an exception was executed.
AnswersWereExecuted ==
  \A m \in Range(inq) : ~m.exception => m.about \in executed

\* Whatever the width the caller asks for, an answer to a read carries a value
\* the object had during the call, at the width of the object.
AnswersWereSeen ==
  call # NoCall /\ ~call.write =>
    /\ od[call.object] \in seen
    /\ \A m \in Range(inq) : m.about = call.id /\ ~m.exception =>
         m.data \in seen /\ m.count = SizeOf[call.object]

\* Without repeats a request is sent once, so it is not executed while it is
\* under way, nor after it was refused.
SentOnce ==
  repeats = 0 =>
    /\ \A j, k \in 1..Len(outq) : outq[j].id = outq[k].id => j = k
    /\ \A r \in Range(outq), q \in old : r.id # q.id
    /\ \A r \in InFlight : r.id \notin executed

\* A request with this id was refused: it was not executed and will not be.
Refused(i) == i \notin executed /\ \A r \in InFlight : r.id # i

RefusalsAreFinal ==
  repeats = 0 =>
    /\ \A m \in Range(inq) : m.exception => Refused(m.about)
    /\ ResultIs("refused") /\ last.own => Refused(last.of.id)

\* An object holds the low bytes of the last request it was written by.
StoredAsWritten ==
  \A o \in Objects : meant[o].id > 0 =>
    meant[o].write /\ meant[o].object = o /\ od[o] = WriteData(meant[o])

WireInv ==
  /\ TypeInv /\ CopiesAreEqual /\ AnswersWereExecuted /\ AnswersWereSeen
  /\ SentOnce /\ RefusalsAreFinal /\ StoredAsWritten
  /\ WriteAckMeansWritten /\ ReadsWhatIsStored

-----------------------------------------------------------------------------
(* Queues. *)

\* What is put at the end of a queue is the one new element of it.
LEMMA PutElements ==
  ASSUME NEW S, NEW s \in Seq(S), NEW e \in S
  PROVE  Append(s, e) \in Seq(S) /\ Range(Append(s, e)) = Range(s) \cup {e}
<1>1. /\ Append(s, e) \in Seq(S) /\ Len(s) \in Nat
      /\ DOMAIN Append(s, e) = 1..(Len(s) + 1) /\ DOMAIN s = 1..Len(s)
      /\ \A i \in 1..Len(s) : Append(s, e)[i] = s[i]
      /\ Append(s, e)[Len(s) + 1] = e
  OBVIOUS
<1>2. Range(Append(s, e)) \subseteq Range(s) \cup {e}
  BY <1>1 DEF Range
<1>3. Range(s) \cup {e} \subseteq Range(Append(s, e))
  BY <1>1 DEF Range
<1> QED
  BY <1>1, <1>2, <1>3

\* What is taken from the head of a queue was in it, and the rest stays.
LEMMA TakeElements ==
  ASSUME NEW S, NEW s \in Seq(S), s # <<>>
  PROVE  /\ Head(s) \in S /\ Head(s) \in Range(s) /\ Head(s) = s[1]
         /\ Tail(s) \in Seq(S) /\ Len(Tail(s)) = Len(s) - 1 /\ Len(s) \in Nat \ {0}
         /\ \A i \in 1..(Len(s) - 1) : Tail(s)[i] = s[i + 1]
         /\ Range(Tail(s)) \subseteq Range(s)
<1>1. Head(s) \in S /\ Tail(s) \in Seq(S)
  OBVIOUS
<1>2. /\ Len(s) \in Nat /\ Len(s) > 0 /\ DOMAIN s = 1..Len(s)
      /\ Head(s) = s[1] /\ DOMAIN Tail(s) = 1..(Len(s) - 1) /\ Len(Tail(s)) = Len(s) - 1
      /\ \A i \in 1..(Len(s) - 1) : Tail(s)[i] = s[i + 1]
  OBVIOUS
<1> QED
  BY <1>1, <1>2 DEF Range

\* The elements of a queue have its type.
LEMMA QueueElements ==
  ASSUME NEW S, NEW s \in Seq(S)
  PROVE  Range(s) \subseteq S /\ \A i \in 1..Len(s) : s[i] \in Range(s)
BY DEF Range

-----------------------------------------------------------------------------
(* Requests and answers. *)

\* A read asks with no value, and a write packs one in range.
LEMMA ReadRequest ==
  ASSUME NEW id \in Nat \ {0}, NEW o \in Objects, NEW a \in Readers
  PROVE  Request(id, "unit", o, FALSE, a[1], a[2], 0) \in Requests
<1>1. PICK w \in {1, 2, 4}, s \in BOOLEAN : a = <<w, s>>
  BY Zenon DEF Readers
<1>2. a[1] = w /\ a[2] = s
  BY <1>1
<1>3. a[1] \in 1..4 /\ a[2] \in BOOLEAN
  BY <1>1, <1>2
<1> QED
  BY <1>3 DEF Request, Requests

\* A write in range makes a request.
LEMMA WriteRequest ==
  ASSUME NEW id \in Nat \ {0}, NEW o \in Objects, NEW a \in Writers, NEW v \in Values,
         InRange(v, a[1], a[2])
  PROVE  Request(id, "unit", o, TRUE, a[1], a[2], v) \in Requests
<1>1. PICK w \in {1, 2, 4}, s \in BOOLEAN : a = <<w, s>> /\ (s => w = 4)
  BY Zenon DEF Writers
<1>2. a[1] = w /\ a[2] = s
  BY <1>1
<1>3. a[1] \in 1..4 /\ a[2] \in BOOLEAN /\ (a[2] => a[1] = 4) /\ v \in Int
  BY <1>1, <1>2
<1>4. Packed(v, a[1], a[2]) \in Nat
  BY <1>3, PackedType, ModulusType
<1> QED
  BY <1>3, <1>4 DEF Request, Requests

\* An answer to request r that is no exception, when the object holds stored.
TrueAnswer(m, r, stored) ==
  /\ m \in Replies /\ m.about = r.id /\ ~m.exception
  /\ ~r.write => m.data = stored /\ m.count = SizeOf[r.object]

\* The simulator serves a read of exactly the object's width, and so answers
\* what the object holds (simulator.py:613-667).
LEMMA SimulatorAnswer ==
  ASSUME NEW r \in Requests, NEW stored \in 0..(Modulus[SizeOf[r.object]] - 1),
         StrictlyServed(r)
  PROVE  TrueAnswer(ServerAnswer(stored, r), r, stored)
<1>0. /\ r.id \in Nat \ {0} /\ r.unit = "unit" /\ r.object \in Objects
      /\ r.width \in 1..4 /\ r.width = SizeOf[r.object]
  BY DEF Requests, StrictlyServed
<1>1. Modulus[r.width] \in Nat \ {0}
  BY <1>0, ModulusType
<1>2. ReadData(stored, r) = stored /\ stored \in Nat
  BY <1>0, <1>1 DEF ReadData
<1> QED
  BY <1>0, <1>2 DEF ServerAnswer, Answer, TrueAnswer, Replies

\* A gateway in the field words its answer in its own way; a read answer still
\* carries what the object holds.
LEMMA FieldAnswer ==
  ASSUME NEW r \in Requests, NEW stored \in 0..(Modulus[SizeOf[r.object]] - 1),
         NEW m \in FieldAnswers(stored, r)
  PROVE  TrueAnswer(m, r, stored)
<1>0. /\ r.id \in Nat \ {0} /\ r.unit = "unit" /\ r.object \in Objects /\ r.data \in Nat
      /\ r.width \in 1..4 /\ SizeOf[r.object] \in 1..4 /\ stored \in Nat
  <2>1. r.object \in Objects
    BY DEF Requests
  <2>2. Modulus[SizeOf[r.object]] \in Nat \ {0} /\ SizeOf[r.object] \in 1..4
    BY <2>1, ModulusType DEF Objects
  <2> QED
    BY <2>1, <2>2 DEF Requests
<1> DEFINE echoes == {<<r.id, r.unit>>, <<0, r.unit>>, <<r.id, "wildcard">>}
<1>1. \A e \in echoes : e[1] \in {0, r.id} /\ e[1] \in Nat /\ e[2] \in {"unit", "wildcard"}
  BY <1>0
<1>2. CASE r.write
  <2>1. PICK e \in echoes, c \in {0, 1}, n \in {0, r.width} :
          m = Answer(r, e[1], e[2], c, n, IF n = 0 THEN 0 ELSE r.data)
    BY <1>2 DEF FieldAnswers
  <2>2. (IF n = 0 THEN 0 ELSE r.data) \in Nat /\ n \in 0..4
    BY <1>0
  <2> QED
    BY <1>0, <1>1, <1>2, <2>1, <2>2 DEF Answer, TrueAnswer, Replies
<1>3. CASE ~r.write
  <2>1. PICK e \in echoes : m = Answer(r, e[1], e[2], 0, SizeOf[r.object], stored)
    BY <1>3 DEF FieldAnswers
  <2> QED
    BY <1>0, <1>1, <1>3, <2>1 DEF Answer, TrueAnswer, Replies
<1> QED
  BY <1>2, <1>3

-----------------------------------------------------------------------------
(* The steps of the gateway, by what they do to the request they take. *)

ServesFirst ==
  /\ outq # <<>> /\ link' \in {"up", "closed"}
  /\ \E m \in Replies : /\ TrueAnswer(m, Head(outq), od[Head(outq).object])
                        /\ Answers(m)
  /\ Executed(Head(outq))

RefusesFirst ==
  /\ outq # <<>> /\ link' \in {"up", "closed"}
  /\ \E m \in Replies : m.exception /\ m.about = Head(outq).id /\ Answers(m)
  /\ Untouched

\* Every answer is one of these, the simulator's and those in the field.
LEMMA GatewaySteps ==
  ASSUME WireType
  PROVE  /\ Serve \/ FieldServe => ServesFirst
         /\ Refuse \/ FieldBusy => RefusesFirst
<1> DEFINE r == Head(outq)
<1>1. ASSUME outq # <<>>
      PROVE  /\ r \in Requests /\ r.object \in Objects /\ r.id \in Nat \ {0} /\ r.unit = "unit"
             /\ od[r.object] \in 0..(Modulus[SizeOf[r.object]] - 1)
  <2>1. r \in Requests
    BY <1>1, TakeElements DEF WireType
  <2> QED
    BY <2>1 DEF Requests, WireType
<1>2. ASSUME outq # <<>> PROVE ExceptionAnswer(r, r.id, r.unit) \in Replies
  BY <1>1, <1>2 DEF ExceptionAnswer, Replies
<1>3. Serve => ServesFirst
  <2> SUFFICES ASSUME Serve PROVE ServesFirst
    OBVIOUS
  <2>1. TrueAnswer(ServerAnswer(od[r.object], r), r, od[r.object])
    BY <1>1, SimulatorAnswer DEF Serve
  <2> QED
    BY <2>1 DEF Serve, ServesFirst, TrueAnswer, WireType
<1>4. FieldServe => ServesFirst
  <2> SUFFICES ASSUME FieldServe PROVE ServesFirst
    OBVIOUS
  <2>1. PICK m \in FieldAnswers(od[r.object], r) : Answers(m)
    BY DEF FieldServe
  <2>2. TrueAnswer(m, r, od[r.object])
    BY <1>1, FieldAnswer DEF FieldServe
  <2> QED
    BY <2>1, <2>2 DEF FieldServe, ServesFirst, TrueAnswer, WireType
<1>5. Refuse => RefusesFirst
  BY <1>2 DEF Refuse, RefusesFirst, ExceptionAnswer
<1>6. FieldBusy => RefusesFirst
  BY <1>2 DEF FieldBusy, RefusesFirst, ExceptionAnswer, WireType
<1> QED
  BY <1>3, <1>4, <1>5, <1>6

-----------------------------------------------------------------------------
(* What each step does to the requests and answers under way. *)

\* A call under way has a request; no call has id 0.
LEMMA CallType ==
  ASSUME WireType
  PROVE  /\ call # NoCall <=> call \in Requests
         /\ call # NoCall <=> call.id # 0
         /\ NoCall.id = 0 /\ ~NoCall.write
BY DEF WireType, NoCall, Request, Requests

\* A call puts its request on the connection.
LEMMA BeginsFlow ==
  ASSUME WireType, NEW r \in Requests, Begins(r)
  PROVE  /\ outq' \in Seq(Requests)
         /\ Range(outq') = Range(outq) \cup {r} /\ InFlight' = InFlight \cup {r}
<1>1. Append(outq, r) \in Seq(Requests) /\ Range(Append(outq, r)) = Range(outq) \cup {r}
  BY PutElements DEF WireType
<1> QED
  BY <1>1 DEF Begins, InFlight

\* A receive takes one answer from the connection.
LEMMA ReceiveFlow ==
  ASSUME WireType, Receive
  PROVE  /\ inq' \in Seq(Replies) /\ Range(inq') \subseteq Range(inq)
         /\ Head(inq) \in Replies /\ Head(inq) \in Range(inq)
         /\ InFlight' = InFlight /\ call \in Requests
<1>1. inq # <<>> /\ inq \in Seq(Replies) /\ inq' = Tail(inq) /\ call \in Requests
  BY CallType DEF Receive, WireType
<1>2. InFlight' = InFlight
  BY DEF Receive, InFlight
<1> QED
  BY <1>1, <1>2, TakeElements

\* A new connection is empty; the requests of the old one may still arrive.
LEMMA ReconnectFlow ==
  ASSUME WireType, Reconnect
  PROVE  /\ Range(outq') = {} /\ outq' \in Seq(Requests) /\ Len(outq') = 0
         /\ Range(inq') = {} /\ inq' \in Seq(Replies)
         /\ old' = InFlight /\ old' \in SUBSET Requests /\ InFlight' = InFlight
<1>1. outq' = <<>> /\ inq' = <<>> /\ old' = old \cup Range(outq)
  BY DEF Reconnect, NewLink
<1>2. Range(outq') = {} /\ Range(inq') = {}
  BY <1>1 DEF Range
<1>3. Range(outq) \subseteq Requests
  BY QueueElements DEF WireType
<1> QED
  BY <1>1, <1>2, <1>3 DEF InFlight, WireType

\* A repeat sends the same request on a new connection.
LEMMA RepeatFlow ==
  ASSUME WireType, Repeat
  PROVE  /\ call \in Requests /\ outq' \in Seq(Requests) /\ Range(outq') = {call}
         /\ Range(inq') = {} /\ inq' \in Seq(Replies)
         /\ old' \in SUBSET Requests /\ InFlight' = InFlight \cup {call}
<1>1. outq' = <<call>> /\ inq' = <<>> /\ old' = old \cup Range(outq) /\ call \in Requests
  BY CallType DEF Repeat, NewLink
<1>2. Range(outq') = {call} /\ Range(inq') = {}
  BY <1>1 DEF Range
<1>3. Range(outq) \subseteq Requests
  BY QueueElements DEF WireType
<1> QED
  BY <1>1, <1>2, <1>3 DEF InFlight, WireType

\* The request that is answered leaves the connection, and the answer enters it.
LEMMA AnswersFlow ==
  ASSUME WireType, NEW m \in Replies, outq # <<>>, Answers(m)
  PROVE  /\ Head(outq) \in Requests /\ Head(outq) \in Range(outq) /\ Head(outq) \in InFlight
         /\ outq' \in Seq(Requests) /\ Range(outq') \subseteq Range(outq)
         /\ inq' \in Seq(Replies) /\ Range(inq') = Range(inq) \cup {m}
         /\ InFlight' \subseteq InFlight /\ old' = old
<1>1. /\ outq' = Tail(outq) /\ inq' = Append(inq, m) /\ old' = old
      /\ outq \in Seq(Requests) /\ inq \in Seq(Replies)
  BY DEF Answers, WireType
<1>2. /\ Head(outq) \in Requests /\ Head(outq) \in Range(outq)
      /\ Tail(outq) \in Seq(Requests) /\ Range(Tail(outq)) \subseteq Range(outq)
  BY <1>1, TakeElements
<1>3. Append(inq, m) \in Seq(Replies) /\ Range(Append(inq, m)) = Range(inq) \cup {m}
  BY <1>1, PutElements
<1> QED
  BY <1>1, <1>2, <1>3 DEF InFlight

\* A request of a closed connection arrives.
LEMMA ServeLateFlow ==
  ASSUME WireType, NEW r \in old, ServeLate(r)
  PROVE  /\ r \in Requests /\ r \in InFlight /\ outq' = outq /\ inq' = inq
         /\ old' = old \ {r} /\ InFlight' \subseteq InFlight
BY DEF ServeLate, InFlight, WireType

-----------------------------------------------------------------------------
(* Types. *)

\* Executing a request keeps the dictionary within the widths of the objects.
LEMMA ExecutedType ==
  ASSUME WireType, NEW r \in Requests, Executed(r)
  PROVE  /\ od' \in [Objects -> Nat] /\ \A o \in Objects : od'[o] \in 0..(Modulus[SizeOf[o]] - 1)
         /\ meant' \in [Objects -> Requests \cup {NoCall}]
<1>1. r.object \in Objects /\ r.data \in Nat /\ SizeOf[r.object] \in 1..4
  BY DEF Requests, Objects
<1>2. Modulus[SizeOf[r.object]] \in Nat \ {0}
  BY <1>1, ModulusType
<1>3. WriteData(r) \in 0..(Modulus[SizeOf[r.object]] - 1) /\ WriteData(r) \in Nat
  BY <1>1, <1>2 DEF WriteData
<1> QED
  BY <1>1, <1>3 DEF Executed, WireType

\* The initial states have their types; an object is zero, which fits it.
LEMMA TypeInit == Init => TypeInv
<1> SUFFICES ASSUME Init PROVE TypeInv
  OBVIOUS
<1>1. \A o \in Objects : od[o] \in 0..(Modulus[SizeOf[o]] - 1)
  <2> SUFFICES ASSUME NEW o \in Objects PROVE od[o] \in 0..(Modulus[SizeOf[o]] - 1)
    OBVIOUS
  <2>1. od[o] = 0 /\ Modulus[SizeOf[o]] \in Nat \ {0}
    BY ModulusType DEF Init, Objects
  <2> QED
    BY <2>1
<1>2. last.outcome = "none" /\ last.of = NoCall /\ NoCall.id = 0
  BY DEF Init, NoResult, NoCall, Request
<1>3. Range(outq) = {} /\ Range(inq) = {}
  BY DEF Init, Range
<1>4. WireType
  BY <1>1, <1>2 DEF Init, WireType, Outcomes
<1> QED
  BY <1>2, <1>3, <1>4 DEF Init, TypeInv, IdsUsed, InFlight

\* What a caller does keeps the types, and takes ids in their order.
LEMMA BeginsType ==
  ASSUME TypeInv, NEW r \in Requests, r.id = calls + 1, Begins(r)
  PROVE  TypeInv'
<1> USE DEF TypeInv
<1>0. last' = NoResult /\ NoResult.outcome = "none" /\ NoResult.of = NoCall /\ NoCall.id = 0
  BY DEF Begins, NoResult, NoCall, Request
<1>1. WireType'
  BY <1>0, BeginsFlow DEF Begins, WireType, envVars, Outcomes
<1>2. calls \in Nat /\ calls' = calls + 1 /\ inq' = inq /\ executed' = executed /\ call' = r
  BY DEF Begins, WireType
<1>3. IdsUsed'
  BY <1>0, <1>2, BeginsFlow DEF IdsUsed
<1> QED
  BY <1>1, <1>3

\* The caller's steps keep the types.
LEMMA CallsType ==
  ASSUME TypeInv
  PROVE  /\ \A a \in Writers, v \in Values : WriteRefused(a[1], a[2], v) => TypeInv'
         /\ Receive \/ GiveUp \/ Reconnect \/ Repeat => TypeInv'
<1> USE DEF TypeInv
<1>0. NoResult.of = NoCall /\ NoResult.outcome = "none" /\ NoCall.id = 0 /\ calls \in Nat
  BY DEF NoResult, NoCall, Request, WireType
<1>1. ASSUME NEW a \in Writers, NEW v \in Values, WriteRefused(a[1], a[2], v) PROVE TypeInv'
  <2>1. last'.outcome = "error" /\ last'.of = NoCall
    BY <1>0, <1>1 DEF WriteRefused, NoResult
  <2>2. WireType'
    BY <1>1, <2>1 DEF WriteRefused, WireType, envVars, netVars, ghostVars, Outcomes
  <2>3. InFlight' = InFlight /\ inq' = inq /\ executed' = executed /\ call' = call /\ calls' = calls + 1
    BY <1>1 DEF WriteRefused, netVars, ghostVars, InFlight
  <2> QED
    BY <1>0, <2>1, <2>2, <2>3 DEF IdsUsed
<1>2. ASSUME Receive PROVE TypeInv'
  <2>1. last'.outcome \in Outcomes /\ last'.of = call
    BY <1>2 DEF Receive, Parsed, Outcomes
  <2>2. call' = NoCall
    BY <1>2 DEF Receive
  <2>3. WireType'
    BY <1>2, <2>1, <2>2, ReceiveFlow DEF Receive, WireType, envVars, ghostVars
  <2>4. IdsUsed'
    BY <1>0, <1>2, <2>1, <2>2, ReceiveFlow DEF IdsUsed, Receive, ghostVars
  <2> QED
    BY <2>3, <2>4
<1>3. ASSUME GiveUp PROVE TypeInv'
  <2>1. last'.outcome = "error" /\ last'.of = NoCall /\ call' = NoCall
    BY <1>0, <1>3 DEF GiveUp, NoResult
  <2>2. WireType'
    BY <1>3, <2>1 DEF GiveUp, WireType, envVars, netVars, Outcomes
  <2>3. InFlight' = InFlight /\ inq' = inq /\ executed' = executed /\ calls' = calls
    BY <1>3 DEF GiveUp, netVars, InFlight
  <2> QED
    BY <1>0, <2>1, <2>2, <2>3 DEF IdsUsed
<1>4. ASSUME Reconnect PROVE TypeInv'
  <2>1. link' = "up" /\ UNCHANGED <<od, envVars, call, last, calls, repeats, ghostVars>>
    BY <1>4 DEF Reconnect, NewLink
  <2>2. WireType'
    BY <1>4, <2>1, ReconnectFlow DEF WireType, envVars, ghostVars
  <2>3. IdsUsed'
    BY <1>4, <2>1, ReconnectFlow DEF IdsUsed, ghostVars
  <2> QED
    BY <2>2, <2>3
<1>5. ASSUME Repeat PROVE TypeInv'
  <2>1. /\ link' = "up" /\ UNCHANGED <<od, envVars, call, last, calls, ghostVars>>
        /\ repeats' = repeats + 1 /\ repeats < MaxRepeats
    BY <1>5 DEF Repeat, NewLink
  <2>2. WireType'
    BY <1>5, <2>1, RepeatFlow DEF WireType, envVars, ghostVars
  <2>3. IdsUsed'
    BY <1>5, <2>1, RepeatFlow DEF IdsUsed, ghostVars
  <2> QED
    BY <2>2, <2>3
<1> QED
  BY <1>1, <1>2, <1>3, <1>4, <1>5

\* What the gateway does keeps the types.
LEMMA GatewayType ==
  ASSUME TypeInv
  PROVE  /\ ServesFirst \/ RefusesFirst => TypeInv'
         /\ \A r \in old : ServeLate(r) => TypeInv'
<1> USE DEF TypeInv
<1>1. ASSUME NEW m \in Replies, outq # <<>>, link' \in {"up", "closed"}, Answers(m),
             m.about = Head(outq).id, Executed(Head(outq)) \/ Untouched
      PROVE  TypeInv'
  <2>1. /\ od' \in [Objects -> Nat] /\ \A o \in Objects : od'[o] \in 0..(Modulus[SizeOf[o]] - 1)
        /\ meant' \in [Objects -> Requests \cup {NoCall}]
    BY <1>1, ExecutedType, AnswersFlow DEF Untouched, ghostVars, WireType
  <2>2. WireType'
    BY <1>1, <2>1, AnswersFlow DEF Answers, WireType, envVars
  <2>3. Head(outq).id \in 1..calls
    <3>1. Head(outq) \in Requests /\ Head(outq) \in InFlight
      BY <1>1, AnswersFlow
    <3>2. Head(outq).id \in 0..calls /\ Head(outq).id \in Nat \ {0}
      BY <3>1 DEF IdsUsed, Requests
    <3> QED
      BY <3>2
  <2>4. executed' \subseteq 1..calls
    BY <1>1, <2>3 DEF IdsUsed, Executed, Untouched, ghostVars
  <2>5. IdsUsed'
    BY <1>1, <2>3, <2>4, AnswersFlow DEF IdsUsed, Answers
  <2> QED
    BY <2>2, <2>5
<1>2. ASSUME NEW r \in old, ServeLate(r) PROVE TypeInv'
  <2>1. Executed(r) \/ Untouched
    BY <1>2 DEF ServeLate
  <2>2. /\ od' \in [Objects -> Nat] /\ \A o \in Objects : od'[o] \in 0..(Modulus[SizeOf[o]] - 1)
        /\ meant' \in [Objects -> Requests \cup {NoCall}]
    BY <1>2, <2>1, ExecutedType, ServeLateFlow DEF Untouched, ghostVars, WireType
  <2>3. WireType'
    BY <1>2, <2>2, ServeLateFlow DEF ServeLate, WireType, envVars
  <2>4. r.id \in 1..calls
    BY <1>2, ServeLateFlow DEF IdsUsed, Requests, WireType
  <2>5. executed' \subseteq 1..calls
    BY <2>1, <2>4 DEF IdsUsed, Executed, Untouched, ghostVars
  <2>6. IdsUsed'
    BY <1>2, <2>5, ServeLateFlow DEF IdsUsed, ServeLate
  <2> QED
    BY <2>3, <2>6
<1> QED
  BY <1>1, <1>2 DEF ServesFirst, RefusesFirst, TrueAnswer

\* Every step keeps the types.
LEMMA TypeNext == TypeInv /\ [Next]_vars => TypeInv'
<1> SUFFICES ASSUME TypeInv, [Next]_vars PROVE TypeInv'
  OBVIOUS
<1>1. ASSUME NEW o \in Objects, NEW a \in Readers, Read(o, a[1], a[2]) PROVE TypeInv'
  <2>1. calls + 1 \in Nat \ {0}
    BY DEF TypeInv, WireType
  <2> QED
    BY <1>1, <2>1, ReadRequest, BeginsType DEF Read, Request
<1>2. ASSUME NEW o \in Objects, NEW a \in Writers, NEW v \in Values, Write(o, a[1], a[2], v)
      PROVE  TypeInv'
  <2>1. calls + 1 \in Nat \ {0}
    BY DEF TypeInv, WireType
  <2> QED
    BY <1>2, <2>1, WriteRequest, BeginsType DEF Write, Request
<1>3. ASSUME Serve \/ FieldServe \/ Refuse \/ FieldBusy PROVE TypeInv'
  BY <1>3, GatewaySteps, GatewayType DEF TypeInv
<1>4. CASE UNCHANGED vars
  <2>1. UNCHANGED <<InFlight, Range(inq)>>
    BY <1>4 DEF vars, netVars, InFlight
  <2> QED
    BY <1>4, <2>1 DEF vars, envVars, netVars, ghostVars, TypeInv, WireType, IdsUsed
<1> QED
  BY <1>1, <1>2, <1>3, <1>4, CallsType, GatewayType DEF Next, Rest

\* Every variable has its type, whatever the widths and values; an object never
\* holds more than its width.
THEOREM TypeCorrect == Spec => []TypeOK
<1>1. TypeInv => TypeOK
  <2> SUFFICES ASSUME TypeInv PROVE TypeOK
    OBVIOUS
  <2>1. /\ \A i \in 1..Len(outq) : outq[i] \in Requests /\ outq[i] \in InFlight
        /\ \A i \in 1..Len(inq) : inq[i] \in Range(inq)
    BY QueueElements DEF TypeInv, WireType, InFlight
  <2>2. \A i \in 1..Len(outq) : outq[i].id \in 1..calls
    <3> SUFFICES ASSUME NEW i \in 1..Len(outq) PROVE outq[i].id \in 1..calls
      OBVIOUS
    <3>1. outq[i].id \in 0..calls /\ outq[i].id \in Nat \ {0}
      BY <2>1 DEF TypeInv, IdsUsed, Requests
    <3> QED
      BY <3>1
  <2>3. \A r \in old \cup {call, last.of} : r.id \in 0..calls
    BY DEF TypeInv, IdsUsed, InFlight
  <2> QED
    BY <2>1, <2>2, <2>3 DEF TypeOK, TypeInv, WireType, IdsUsed, Outcomes
<1> QED
  BY <1>1, TypeInit, TypeNext, PTL DEF Spec

-----------------------------------------------------------------------------
(* Every step is one of these. *)

CallBegins == \E r \in Requests : r.id = calls + 1 /\ Begins(r)
WriteRaises == \E a \in Writers, v \in Values : WriteRefused(a[1], a[2], v)
LateServe == \E r \in old : ServeLate(r)

\* Every step is one of these.
LEMMA Steps ==
  ASSUME TypeInv, [Next]_vars
  PROVE  \/ CallBegins \/ WriteRaises \/ Receive \/ GiveUp \/ Reconnect \/ Repeat
         \/ ServesFirst \/ RefusesFirst \/ LateServe \/ UNCHANGED vars
<1>0. calls + 1 \in Nat \ {0}
  BY DEF TypeInv, WireType
<1>1. ASSUME NEW o \in Objects, NEW a \in Readers, Read(o, a[1], a[2]) PROVE CallBegins
  BY <1>0, <1>1, ReadRequest DEF Read, Request, CallBegins
<1>2. ASSUME NEW o \in Objects, NEW a \in Writers, NEW v \in Values, Write(o, a[1], a[2], v)
      PROVE  CallBegins
  BY <1>0, <1>2, WriteRequest DEF Write, Request, CallBegins
<1>3. (Serve \/ FieldServe => ServesFirst) /\ (Refuse \/ FieldBusy => RefusesFirst)
  BY GatewaySteps DEF TypeInv
<1> QED
  BY <1>1, <1>2, <1>3 DEF Next, Rest, WriteRaises, LateServe

\* Only a call that begins adds a request, and its id is new.
LEMMA RequestsUnderWay ==
  ASSUME TypeInv, [Next]_vars
  PROVE  \/ InFlight' \cup {call'} \subseteq InFlight \cup {call, NoCall}
         \/ \E r \in Requests : /\ r.id = calls + 1 /\ call' = r
                                /\ InFlight' = InFlight \cup {r}
<1>0. WireType
  BY DEF TypeInv
<1>1. CASE CallBegins
  BY <1>0, <1>1, BeginsFlow DEF CallBegins, Begins
<1>2. CASE WriteRaises \/ GiveUp
  BY <1>2 DEF WriteRaises, WriteRefused, GiveUp, netVars, InFlight
<1>3. CASE Receive
  BY <1>0, <1>3, ReceiveFlow DEF Receive
<1>4. CASE Reconnect
  BY <1>0, <1>4, ReconnectFlow DEF Reconnect
<1>5. CASE Repeat
  BY <1>0, <1>5, RepeatFlow DEF Repeat
<1>6. CASE ServesFirst
  BY <1>0, <1>6, AnswersFlow DEF ServesFirst, Answers
<1>7. CASE RefusesFirst
  BY <1>0, <1>7, AnswersFlow DEF RefusesFirst, Answers
<1>8. CASE LateServe
  BY <1>0, <1>8, ServeLateFlow DEF LateServe, ServeLate
<1>9. CASE UNCHANGED vars
  BY <1>9 DEF vars, netVars, InFlight
<1> QED
  BY <1>1, <1>2, <1>3, <1>4, <1>5, <1>6, <1>7, <1>8, <1>9, Steps

\* Copies of a request stay equal: a new one has an id of its own.
LEMMA CopiesNext == TypeInv /\ CopiesAreEqual /\ [Next]_vars => CopiesAreEqual'
<1> SUFFICES ASSUME TypeInv, CopiesAreEqual, [Next]_vars PROVE CopiesAreEqual'
  OBVIOUS
<1>0. /\ \A r \in InFlight : r.id \in 0..calls /\ r.id # 0
      /\ call # NoCall => call.id # 0
      /\ NoCall.id = 0 /\ calls \in Nat
  <2>1. InFlight \subseteq Requests
    BY QueueElements DEF TypeInv, WireType, InFlight
  <2> QED
    BY <2>1, CallType DEF TypeInv, WireType, IdsUsed, Requests
<1>1. CASE InFlight' \cup {call'} \subseteq InFlight \cup {call, NoCall}
  BY <1>0, <1>1 DEF CopiesAreEqual
<1>2. ASSUME NEW r \in Requests, r.id = calls + 1, call' = r, InFlight' = InFlight \cup {r}
      PROVE  CopiesAreEqual'
  BY <1>0, <1>2 DEF CopiesAreEqual
<1> QED
  BY <1>1, <1>2, RequestsUnderWay

-----------------------------------------------------------------------------
(* Answers. *)

\* What a step may do to the answers that are to be read.
LEMMA AnswersUnderWay ==
  ASSUME TypeInv, [Next]_vars
  PROVE  /\ executed \subseteq executed'
         /\ \/ Range(inq') \subseteq Range(inq)
            \/ /\ ServesFirst
               /\ \E m \in Replies : /\ TrueAnswer(m, Head(outq), od[Head(outq).object])
                                     /\ Range(inq') = Range(inq) \cup {m}
               /\ Head(outq).id \in executed'
            \/ /\ RefusesFirst
               /\ \E m \in Replies : /\ m.exception /\ m.about = Head(outq).id
                                     /\ Range(inq') = Range(inq) \cup {m}
<1>0. WireType
  BY DEF TypeInv
<1>1. CASE CallBegins
  BY <1>1 DEF CallBegins, Begins
<1>2. CASE WriteRaises \/ GiveUp
  BY <1>2 DEF WriteRaises, WriteRefused, GiveUp, netVars, ghostVars
<1>3. CASE Receive
  BY <1>0, <1>3, ReceiveFlow DEF Receive, ghostVars
<1>4. CASE Reconnect
  BY <1>0, <1>4, ReconnectFlow DEF Reconnect, ghostVars
<1>5. CASE Repeat
  BY <1>0, <1>5, RepeatFlow DEF Repeat, ghostVars
<1>6. CASE ServesFirst
  BY <1>0, <1>6, AnswersFlow DEF ServesFirst, Executed
<1>7. CASE RefusesFirst
  BY <1>0, <1>7, AnswersFlow DEF RefusesFirst, Untouched, ghostVars
<1>8. CASE LateServe
  BY <1>0, <1>8, ServeLateFlow DEF LateServe, ServeLate, Executed, Untouched, ghostVars
<1>9. CASE UNCHANGED vars
  BY <1>9 DEF vars, netVars, ghostVars
<1> QED
  BY <1>1, <1>2, <1>3, <1>4, <1>5, <1>6, <1>7, <1>8, <1>9, Steps

\* An answer that is no exception is put on the connection as the request is executed.
LEMMA ExecutedNext ==
  TypeInv /\ AnswersWereExecuted /\ [Next]_vars => AnswersWereExecuted'
BY AnswersUnderWay DEF AnswersWereExecuted, TrueAnswer

\* A strict transaction id leaves only the answer to this very request, for a
\* gateway answers with that id or with none (gateway_telegram.py:262-290).
LEMMA StrictIds ==
  ASSUME ~TidOk, NEW m \in Replies, NEW r \in Requests, Parsed(m, r, TidOk, unitOk) = "ok"
  PROVE  m.about = r.id /\ ~m.exception
<1>1. ~m.exception /\ TidMatches(m, r, TidOk)
  BY DEF Parsed
<1>2. m.tid = r.id /\ r.id # 0 /\ m.tid \in {0, m.about}
  BY <1>1 DEF TidMatches, Replies, Requests
<1> QED
  BY <1>1, <1>2

\* The answer a write accepts is its own, so it was executed.
LEMMA WriteAckNext ==
  TypeInv /\ AnswersWereExecuted /\ WriteAckMeansWritten /\ [Next]_vars => WriteAckMeansWritten'
<1> SUFFICES ASSUME TypeInv, AnswersWereExecuted, WriteAckMeansWritten, [Next]_vars,
                    ~TidOk, last'.outcome = "ok", last'.of.write
             PROVE  last'.of.id \in executed'
  BY DEF WriteAckMeansWritten, ResultIs
<1>0. WireType
  BY DEF TypeInv
<1>1. executed \subseteq executed'
  BY AnswersUnderWay
<1>2. CASE last' = last
  BY <1>1, <1>2 DEF WriteAckMeansWritten, ResultIs
<1>3. CASE Receive
  <2>1. Head(inq) \in Range(inq) /\ Head(inq) \in Replies /\ call \in Requests
    BY <1>0, <1>3, ReceiveFlow
  <2>2. last'.of = call /\ Parsed(Head(inq), call, TidOk, unitOk) = "ok"
    BY <1>3 DEF Receive
  <2> QED
    BY <1>1, <2>1, <2>2, StrictIds DEF AnswersWereExecuted
<1>4. ASSUME CallBegins \/ WriteRaises \/ GiveUp PROVE FALSE
  BY <1>4 DEF CallBegins, Begins, WriteRaises, WriteRefused, GiveUp, NoResult
<1>5. CASE Reconnect \/ Repeat \/ ServesFirst \/ RefusesFirst \/ LateServe \/ UNCHANGED vars
  BY <1>2, <1>5 DEF Reconnect, Repeat, ServesFirst, RefusesFirst, LateServe, ServeLate, Answers, vars
<1> QED
  BY <1>3, <1>4, <1>5, Steps

-----------------------------------------------------------------------------
(* Reads. *)

\* Executing a request only adds to the values seen, and adds the present one.
LEMMA SeenGrows ==
  ASSUME NEW r, Executed(r) \/ Untouched
  PROVE  /\ seen \subseteq seen'
         /\ call # NoCall /\ od[call.object] \in seen => od'[call.object] \in seen'
BY DEF Executed, Untouched, ghostVars

\* The values of an object during a read include each one that an answer carries.
LEMMA SeenNext ==
  TypeInv /\ CopiesAreEqual /\ AnswersWereSeen /\ [Next]_vars => AnswersWereSeen'
<1> SUFFICES ASSUME TypeInv, CopiesAreEqual, AnswersWereSeen, [Next]_vars
             PROVE  AnswersWereSeen'
  OBVIOUS
<1>0. WireType
  BY DEF TypeInv
<1>1. ASSUME NEW r \in Requests, r.id = calls + 1, Begins(r) PROVE AnswersWereSeen'
  <2>1. call' = r /\ od' = od /\ inq' = inq /\ seen' = {od[r.object]}
    BY <1>1 DEF Begins
  <2>2. \A m \in Range(inq) : m.about # r.id
    BY <1>1 DEF TypeInv, WireType, IdsUsed
  <2> QED
    BY <2>1, <2>2 DEF AnswersWereSeen
<1>2. CASE WriteRaises \/ GiveUp \/ Receive
  BY <1>2 DEF WriteRaises, WriteRefused, GiveUp, Receive, AnswersWereSeen
<1>3. CASE Reconnect
  BY <1>3 DEF Reconnect, AnswersWereSeen
<1>4. CASE Repeat
  BY <1>0, <1>4, RepeatFlow DEF Repeat, AnswersWereSeen, ghostVars
<1>5. CASE ServesFirst
  <2>1. PICK m \in Replies : /\ TrueAnswer(m, Head(outq), od[Head(outq).object])
                             /\ Answers(m)
    BY <1>5 DEF ServesFirst
  <2>2. /\ Range(inq') = Range(inq) \cup {m} /\ Head(outq) \in InFlight
        /\ call' = call /\ Executed(Head(outq))
    BY <1>0, <1>5, <2>1, AnswersFlow DEF ServesFirst, Answers
  <2>3. ASSUME call # NoCall, ~call.write, m.about = call.id
        PROVE  m.data = od[call.object] /\ m.count = SizeOf[call.object]
    BY <2>1, <2>2, <2>3 DEF TrueAnswer, CopiesAreEqual
  <2> QED
    BY <2>2, <2>3, SeenGrows DEF AnswersWereSeen
<1>6. CASE RefusesFirst
  <2>1. PICK m \in Replies : m.exception /\ Answers(m)
    BY <1>6 DEF RefusesFirst
  <2>2. Range(inq') = Range(inq) \cup {m} /\ call' = call /\ Untouched
    BY <1>0, <1>6, <2>1, AnswersFlow DEF RefusesFirst, Answers
  <2> QED
    BY <2>1, <2>2, SeenGrows DEF AnswersWereSeen
<1>7. ASSUME NEW r \in old, ServeLate(r) PROVE AnswersWereSeen'
  <2>1. inq' = inq /\ call' = call /\ (Executed(r) \/ Untouched)
    BY <1>7 DEF ServeLate
  <2> QED
    BY <2>1, SeenGrows DEF AnswersWereSeen
<1>8. CASE UNCHANGED vars
  BY <1>8 DEF vars, netVars, ghostVars, AnswersWereSeen
<1> QED
  BY <1>1, <1>2, <1>3, <1>4, <1>5, <1>6, <1>7, <1>8, Steps DEF CallBegins, LateServe

\* An answer as wide as the object decodes to what the object held: padding and
\* cutting lose nothing of an unsigned value, and a signed one is decoded at
\* the object's width if that was asked for (gateway_telegram.py:298-324).
LEMMA DecodedIsStored ==
  ASSUME NEW r \in Requests, NEW m \in Replies, m.count = SizeOf[r.object]
  PROVE  IF r.signed
         THEN r.width = SizeOf[r.object] => Decoded(m, r) = Unpacked(m.data, SizeOf[r.object], TRUE)
         ELSE Decoded(m, r) = m.data % Modulus[r.width]
<1>0. SizeOf[r.object] \in 1..4 /\ r.width \in 1..4 /\ r.signed \in BOOLEAN
  BY DEF Requests, Objects
<1>1. CASE r.signed
  <2> SUFFICES ASSUME r.width = SizeOf[r.object]
               PROVE  Decoded(m, r) = Unpacked(m.data, SizeOf[r.object], TRUE)
    BY <1>1
  <2>1. DataWidth(m, r) = SizeOf[r.object]
    BY <1>0 DEF DataWidth
  <2> QED
    BY <1>1, <2>1 DEF Decoded, Unpacked
<1>2. CASE ~r.signed
  BY <1>2 DEF Decoded, Unpacked, Masked
<1> QED
  BY <1>0, <1>1, <1>2

\* What a read decodes was stored during the call.
LEMMA ReadsNext ==
  TypeInv /\ AnswersWereSeen /\ ReadsWhatIsStored /\ [Next]_vars => ReadsWhatIsStored'
<1> DEFINE Shows(r, value, values) ==
             LET size == SizeOf[r.object]
             IN  \E u \in values :
                   IF r.signed
                   THEN r.width = size => value = Unpacked(u, size, TRUE)
                   ELSE value = u % Modulus[r.width]
<1>1. /\ ReadsWhatIsStored <=>
           (~TidOk /\ ResultIs("ok") /\ ~last.of.write => Shows(last.of, last.value, seen))
      /\ ReadsWhatIsStored' <=>
           (~TidOk /\ ResultIs("ok")' /\ ~last'.of.write => Shows(last'.of, last'.value, seen'))
  BY DEF ReadsWhatIsStored
<1>2. \A r, value : seen \subseteq seen' /\ Shows(r, value, seen) => Shows(r, value, seen')
  OBVIOUS
<1> SUFFICES ASSUME TypeInv, AnswersWereSeen, ReadsWhatIsStored, [Next]_vars,
                    ~TidOk, last'.outcome = "ok", ~last'.of.write
             PROVE  Shows(last'.of, last'.value, seen')
  BY <1>1 DEF ResultIs
<1>0. WireType
  BY DEF TypeInv
<1>3. CASE last' = last /\ seen \subseteq seen'
  BY <1>1, <1>2, <1>3 DEF ResultIs
<1>4. CASE Receive
  <2> DEFINE m == Head(inq)
  <2>1. m \in Range(inq) /\ m \in Replies /\ call \in Requests /\ call # NoCall
    BY <1>0, <1>4, ReceiveFlow DEF Receive
  <2>2. /\ Parsed(m, call, TidOk, unitOk) = "ok" /\ seen' = seen
        /\ last'.of = call /\ last'.value = Decoded(m, call) /\ ~call.write
    BY <1>4 DEF Receive, ghostVars
  <2>3. m.about = call.id /\ ~m.exception
    BY <2>1, <2>2, StrictIds
  <2>4. m.data \in seen /\ m.count = SizeOf[call.object]
    BY <2>1, <2>2, <2>3 DEF AnswersWereSeen
  <2> QED
    BY <2>1, <2>2, <2>4, DecodedIsStored
<1>5. ASSUME CallBegins \/ WriteRaises \/ GiveUp PROVE FALSE
  BY <1>5 DEF CallBegins, Begins, WriteRaises, WriteRefused, GiveUp, NoResult
<1>6. CASE Reconnect \/ Repeat \/ UNCHANGED vars
  BY <1>3, <1>6 DEF Reconnect, Repeat, ghostVars, vars
<1>7. CASE ServesFirst \/ RefusesFirst \/ LateServe
  <2>1. last' = last /\ \E r : Executed(r) \/ Untouched
    BY <1>7 DEF ServesFirst, RefusesFirst, LateServe, ServeLate, Answers
  <2> QED
    BY <1>3, <2>1, SeenGrows
<1> QED
  BY <1>4, <1>5, <1>6, <1>7, Steps

-----------------------------------------------------------------------------
(* Refusals. *)

\* Without repeats no other copy of the request that is taken is under way.
LEMMA TakenOnce ==
  ASSUME TypeInv, SentOnce, repeats = 0, outq # <<>>,
         outq' = Tail(outq), old' = old
  PROVE  /\ \A r \in InFlight' : r.id # Head(outq).id
         /\ Head(outq).id \notin executed
         /\ \A j, k \in 1..Len(outq') : outq'[j].id = outq'[k].id => j = k
<1>0. outq \in Seq(Requests)
  BY DEF TypeInv, WireType
<1>1. /\ Head(outq) = outq[1] /\ Head(outq) \in Range(outq)
      /\ Len(outq') = Len(outq) - 1 /\ Len(outq) \in Nat \ {0} /\ outq' \in Seq(Requests)
      /\ \A i \in 1..(Len(outq) - 1) : outq'[i] = outq[i + 1]
  BY <1>0, TakeElements
<1>2. \A j, k \in 1..Len(outq) : outq[j].id = outq[k].id => j = k
  BY DEF SentOnce
<1>3. ASSUME NEW r \in Range(outq') PROVE r.id # Head(outq).id
  <2>1. PICK i \in 1..(Len(outq) - 1) : r = outq[i + 1]
    BY <1>1, <1>3 DEF Range
  <2>2. i + 1 \in 1..Len(outq) /\ 1 \in 1..Len(outq) /\ i + 1 # 1
    BY <1>1
  <2> QED
    BY <1>1, <1>2, <2>1, <2>2
<1>4. \A q \in old : q.id # Head(outq).id
  BY <1>1 DEF SentOnce
<1>5. ASSUME NEW j \in 1..Len(outq'), NEW k \in 1..Len(outq'), outq'[j].id = outq'[k].id
      PROVE  j = k
  <2>1. j + 1 \in 1..Len(outq) /\ k + 1 \in 1..Len(outq) /\ j \in Int /\ k \in Int
    BY <1>1
  <2>2. outq[j + 1].id = outq[k + 1].id
    BY <1>1, <1>5
  <2>3. j + 1 = k + 1
    BY <1>2, <2>1, <2>2
  <2> QED
    BY <2>1, <2>3
<1>6. Head(outq).id \notin executed
  BY <1>1 DEF SentOnce, InFlight
<1> QED
  BY <1>3, <1>4, <1>5, <1>6 DEF InFlight

\* A request leaves the connection when it is executed.
LEMMA SentOnceNext ==
  TypeInv /\ CopiesAreEqual /\ SentOnce /\ [Next]_vars => SentOnce'
<1> SUFFICES ASSUME TypeInv, CopiesAreEqual, SentOnce, [Next]_vars, repeats' = 0
             PROVE  SentOnce'
  BY DEF SentOnce
<1>0. WireType
  BY DEF TypeInv
<1>1. CASE Repeat
  BY <1>0, <1>1 DEF Repeat, WireType
<1>2. ASSUME ~Repeat PROVE repeats = 0
  BY <1>2, Steps DEF CallBegins, Begins, WriteRaises, WriteRefused, Receive, GiveUp, Reconnect,
     ServesFirst, RefusesFirst, Answers, LateServe, ServeLate, vars
<1>3. ASSUME NEW r \in Requests, r.id = calls + 1, Begins(r), repeats = 0 PROVE SentOnce'
  <2>1. /\ outq' = Append(outq, r) /\ old' = old /\ executed' = executed
        /\ Range(outq') = Range(outq) \cup {r} /\ InFlight' = InFlight \cup {r}
    BY <1>0, <1>3, BeginsFlow DEF Begins
  <2>2. (\A q \in InFlight : q.id # r.id) /\ r.id \notin executed
    BY <1>3 DEF TypeInv, WireType, IdsUsed
  <2>3. ASSUME NEW j \in 1..Len(outq'), NEW k \in 1..Len(outq'), outq'[j].id = outq'[k].id
        PROVE  j = k
    <3>1. /\ outq \in Seq(Requests) /\ Len(outq') = Len(outq) + 1 /\ Len(outq) \in Nat
          /\ outq'[Len(outq) + 1] = r
          /\ \A i \in 1..Len(outq) : outq'[i] = outq[i]
      BY <1>0, <2>1 DEF WireType
    <3>2. \A i \in 1..Len(outq) : outq[i].id # r.id
      BY <2>2, <3>1, QueueElements DEF InFlight
    <3> QED
      BY <1>3, <2>3, <3>1, <3>2 DEF SentOnce
  <2> QED
    BY <1>3, <2>1, <2>2, <2>3 DEF SentOnce, InFlight
<1>4. CASE (WriteRaises \/ GiveUp \/ Receive \/ UNCHANGED vars) /\ repeats = 0
  BY <1>4 DEF WriteRaises, WriteRefused, GiveUp, Receive, vars, netVars, ghostVars,
     SentOnce, InFlight
<1>5. CASE Reconnect /\ repeats = 0
  BY <1>0, <1>5, ReconnectFlow DEF Reconnect, ghostVars, SentOnce
<1>6. CASE (ServesFirst \/ RefusesFirst) /\ repeats = 0
  <2>1. PICK m \in Replies : outq # <<>> /\ Answers(m)
    BY <1>6 DEF ServesFirst, RefusesFirst
  <2>2. outq' = Tail(outq) /\ old' = old /\ Range(outq') \subseteq Range(outq) /\ InFlight' \subseteq InFlight
    BY <1>0, <2>1, AnswersFlow DEF Answers
  <2>3. executed' \subseteq executed \cup {Head(outq).id}
    BY <1>6 DEF ServesFirst, RefusesFirst, Executed, Untouched, ghostVars
  <2> QED
    BY <1>6, <2>1, <2>2, <2>3, TakenOnce DEF SentOnce
<1>7. ASSUME NEW r \in old, ServeLate(r), repeats = 0 PROVE SentOnce'
  <2>1. outq' = outq /\ old' = old \ {r} /\ r \in InFlight /\ InFlight' \subseteq InFlight
    BY <1>0, <1>7, ServeLateFlow
  <2>2. executed' \subseteq executed \cup {r.id}
    BY <1>7 DEF ServeLate, Executed, Untouched, ghostVars
  <2>3. ASSUME NEW q \in InFlight' PROVE q.id # r.id
    BY <1>7, <2>1, <2>3 DEF SentOnce, CopiesAreEqual, InFlight
  <2> QED
    BY <1>7, <2>1, <2>2, <2>3 DEF SentOnce
<1> QED
  BY <1>1, <1>2, <1>3, <1>4, <1>5, <1>6, <1>7, Steps DEF CallBegins, LateServe

\* A refused request has left the connection unexecuted.
LEMMA RefusalsNext ==
  TypeInv /\ SentOnce /\ RefusalsAreFinal /\ [Next]_vars => RefusalsAreFinal'
<1> SUFFICES ASSUME TypeInv, SentOnce, RefusalsAreFinal, [Next]_vars, repeats' = 0
             PROVE  RefusalsAreFinal'
  BY DEF RefusalsAreFinal
<1>0. WireType
  BY DEF TypeInv
<1>1. CASE Repeat
  BY <1>0, <1>1 DEF Repeat, WireType
<1>2. ASSUME ~Repeat PROVE repeats = 0
  BY <1>2, Steps DEF CallBegins, Begins, WriteRaises, WriteRefused, Receive, GiveUp, Reconnect,
     ServesFirst, RefusesFirst, Answers, LateServe, ServeLate, vars
<1>3. ASSUME NEW r \in Requests, r.id = calls + 1, Begins(r), repeats = 0 PROVE RefusalsAreFinal'
  <2>1. /\ inq' = inq /\ executed' = executed /\ last' = NoResult
        /\ InFlight' = InFlight \cup {r}
    BY <1>0, <1>3, BeginsFlow DEF Begins
  <2>2. \A m \in Range(inq) : m.about # r.id
    BY <1>3 DEF TypeInv, WireType, IdsUsed
  <2>3. last'.outcome = "none"
    BY <2>1 DEF NoResult
  <2> QED
    BY <1>3, <2>1, <2>2, <2>3 DEF RefusalsAreFinal, Refused, ResultIs
<1>4. CASE (WriteRaises \/ GiveUp) /\ repeats = 0
  <2>1. inq' = inq /\ executed' = executed /\ InFlight' = InFlight /\ last'.outcome = "error"
    BY <1>4 DEF WriteRaises, WriteRefused, GiveUp, netVars, ghostVars, InFlight, NoResult
  <2> QED
    BY <1>4, <2>1 DEF RefusalsAreFinal, Refused, ResultIs
<1>5. CASE Receive /\ repeats = 0
  <2>1. /\ Range(inq') \subseteq Range(inq) /\ Head(inq) \in Range(inq) /\ InFlight' = InFlight
        /\ executed' = executed
    BY <1>0, <1>5, ReceiveFlow DEF Receive, ghostVars
  <2>2. ASSUME last'.outcome = "refused", last'.own
        PROVE  Head(inq).exception /\ Head(inq).about = last'.of.id
    BY <1>5, <2>2 DEF Receive, Parsed
  <2> QED
    BY <1>5, <2>1, <2>2 DEF RefusalsAreFinal, Refused, ResultIs
<1>6. CASE Reconnect /\ repeats = 0
  <2>1. Range(inq') = {} /\ InFlight' = InFlight /\ last' = last /\ executed' = executed
    BY <1>0, <1>6, ReconnectFlow DEF Reconnect, ghostVars
  <2> QED
    BY <1>6, <2>1 DEF RefusalsAreFinal, Refused, ResultIs
<1>7. CASE ServesFirst /\ repeats = 0
  <2>1. PICK m \in Replies : ~m.exception /\ Answers(m) /\ outq # <<>>
    BY <1>7 DEF ServesFirst, TrueAnswer
  <2>2. /\ Head(outq) \in InFlight /\ InFlight' \subseteq InFlight
        /\ Range(inq') = Range(inq) \cup {m} /\ last' = last
        /\ executed' = executed \cup {Head(outq).id}
    BY <1>0, <1>7, <2>1, AnswersFlow DEF ServesFirst, Answers, Executed
  <2>3. \A i : Refused(i) => Refused(i)'
    BY <2>2 DEF Refused
  <2> QED
    BY <1>7, <2>1, <2>2, <2>3 DEF RefusalsAreFinal, ResultIs
<1>8. CASE RefusesFirst /\ repeats = 0
  <2>1. PICK m \in Replies : m.exception /\ m.about = Head(outq).id /\ Answers(m) /\ outq # <<>>
    BY <1>8 DEF RefusesFirst
  <2>2. /\ InFlight' \subseteq InFlight /\ Range(inq') = Range(inq) \cup {m} /\ last' = last
        /\ executed' = executed /\ outq' = Tail(outq) /\ old' = old
    BY <1>0, <1>8, <2>1, AnswersFlow DEF RefusesFirst, Answers, Untouched, ghostVars
  <2>3. \A i : Refused(i) => Refused(i)'
    BY <2>2 DEF Refused
  <2>4. Refused(m.about)'
    BY <1>8, <2>1, <2>2, TakenOnce DEF Refused
  <2> QED
    BY <1>8, <2>2, <2>3, <2>4 DEF RefusalsAreFinal, ResultIs
<1>9. ASSUME NEW r \in old, ServeLate(r), repeats = 0 PROVE RefusalsAreFinal'
  <2>1. r \in InFlight /\ InFlight' \subseteq InFlight /\ inq' = inq /\ last' = last
    BY <1>0, <1>9, ServeLateFlow DEF ServeLate
  <2>2. executed' \subseteq executed \cup {r.id}
    BY <1>9 DEF ServeLate, Executed, Untouched, ghostVars
  <2>3. \A i : Refused(i) => Refused(i)'
    BY <2>1, <2>2 DEF Refused
  <2> QED
    BY <1>9, <2>1, <2>3 DEF RefusalsAreFinal, ResultIs
<1>10. CASE UNCHANGED vars
  BY <1>10 DEF vars, netVars, ghostVars, RefusalsAreFinal, Refused, ResultIs, InFlight
<1> QED
  BY <1>1, <1>2, <1>3, <1>4, <1>5, <1>6, <1>7, <1>8, <1>9, <1>10, Steps DEF CallBegins, LateServe

-----------------------------------------------------------------------------
(* What is stored. *)

\* Only the execution of a write changes an object.
LEMMA StoredNext == TypeInv /\ StoredAsWritten /\ [Next]_vars => StoredAsWritten'
<1> SUFFICES ASSUME TypeInv, StoredAsWritten, [Next]_vars PROVE StoredAsWritten'
  OBVIOUS
<1>0. WireType
  BY DEF TypeInv
<1>1. ASSUME UNCHANGED <<od, meant>> PROVE StoredAsWritten'
  BY <1>1 DEF StoredAsWritten, WriteData
<1>2. ASSUME NEW r \in Requests, Executed(r) PROVE StoredAsWritten'
  <2>1. CASE ~r.write
    BY <1>1, <1>2, <2>1 DEF Executed
  <2>2. CASE r.write
    <3>1. od' = [od EXCEPT ![r.object] = WriteData(r)] /\ meant' = [meant EXCEPT ![r.object] = r]
      BY <1>2, <2>2 DEF Executed
    <3> QED
      BY <1>0, <2>2, <3>1 DEF StoredAsWritten, WireType, WriteData
  <2> QED
    BY <2>1, <2>2
<1>3. CASE ServesFirst
  <2>1. Head(outq) \in Requests /\ Executed(Head(outq))
    BY <1>0, <1>3, TakeElements DEF ServesFirst, WireType
  <2> QED
    BY <1>2, <2>1
<1>4. CASE LateServe
  <2>1. PICK r \in old : Executed(r) \/ Untouched
    BY <1>4 DEF LateServe, ServeLate
  <2>2. r \in Requests
    BY <1>0 DEF WireType
  <2> QED
    BY <1>1, <1>2, <2>1, <2>2 DEF Untouched, ghostVars
<1>5. CASE \/ CallBegins \/ WriteRaises \/ Receive \/ GiveUp \/ Reconnect \/ Repeat
           \/ RefusesFirst \/ UNCHANGED vars
  BY <1>1, <1>5 DEF CallBegins, Begins, WriteRaises, WriteRefused, Receive, GiveUp, Reconnect,
     Repeat, RefusesFirst, Untouched, ghostVars, vars
<1> QED
  BY <1>3, <1>4, <1>5, Steps

-----------------------------------------------------------------------------
(* The theorems. *)

\* The first state.
LEMMA WireInit == Init => WireInv
<1> SUFFICES ASSUME Init PROVE WireInv
  OBVIOUS
<1>1. TypeInv
  BY TypeInit
<1>2. InFlight = {} /\ Range(inq) = {} /\ Range(outq) = {} /\ Len(outq) = 0
  BY DEF Init, Range, InFlight
<1>3. last.outcome = "none"
  BY DEF Init, NoResult
<1>4. CopiesAreEqual /\ AnswersWereExecuted /\ AnswersWereSeen /\ SentOnce
  BY <1>2 DEF Init, CopiesAreEqual, AnswersWereExecuted, AnswersWereSeen, SentOnce
<1>5. RefusalsAreFinal /\ WriteAckMeansWritten /\ ReadsWhatIsStored
  BY <1>2, <1>3 DEF RefusalsAreFinal, WriteAckMeansWritten, ReadsWhatIsStored, ResultIs
<1>6. StoredAsWritten
  BY DEF Init, StoredAsWritten, NoCall, Request
<1> QED
  BY <1>1, <1>4, <1>5, <1>6 DEF WireInv

\* The invariant of the wire, from which the theorems follow.
LEMMA WireInvariant == Spec => []WireInv
<1>1. WireInv /\ [Next]_vars => WireInv'
  BY TypeNext, CopiesNext, ExecutedNext, SeenNext, SentOnceNext, RefusalsNext, StoredNext,
     WriteAckNext, ReadsNext DEF WireInv
<1> QED
  BY <1>1, WireInit, PTL DEF Spec

\* A write that succeeds under strict transaction ids has been executed, whatever
\* answers are left over and for any number of calls and repeats: what is on the
\* connection other than exceptions answers requests that were executed.
THEOREM AcknowledgedIsWritten == Spec => []WriteAckMeansWritten
<1>1. WireInv => WriteAckMeansWritten
  BY DEF WireInv
<1> QED
  BY <1>1, WireInvariant, PTL

\* An object holds what its last write meant, for any base of a byte and for
\* every width and value that can be written: the object's cut of the packed
\* value unpacks to it (codec.py:17-33, simulator.py:613-667).
THEOREM WrittenIsMeant == Spec => []StoredIsMeant
<1>1. WireInv => StoredIsMeant
  <2> SUFFICES ASSUME WireInv, NEW o \in Objects, meant[o].id > 0,
                      InRange(meant[o].value, SizeOf[o], meant[o].signed)
               PROVE  Unpacked(od[o], SizeOf[o], meant[o].signed) = meant[o].value
    BY DEF StoredIsMeant
  <2> DEFINE r == meant[o]
  <2>1. r \in Requests /\ r.write /\ r.object = o /\ od[o] = WriteData(r)
    <3>1. r \in Requests \cup {NoCall}
      BY DEF WireInv, TypeInv, WireType
    <3>2. NoCall.id = 0
      BY DEF NoCall, Request
    <3>3. r \in Requests
      BY <3>1, <3>2
    <3> QED
      BY <3>3 DEF WireInv, StoredAsWritten
  <2>2. /\ r.width \in 1..4 /\ r.signed \in BOOLEAN /\ r.value \in Int /\ (r.signed => r.width = 4)
        /\ InRange(r.value, r.width, r.signed) /\ r.data = Packed(r.value, r.width, r.signed)
    BY <2>1 DEF Requests
  <2>3. SizeOf[o] \in 1..4 /\ od[o] = Packed(r.value, r.width, r.signed) % Modulus[SizeOf[o]]
    BY <2>1, <2>2 DEF WriteData, Objects
  <2> QED
    BY <2>2, <2>3, PackCutUnpack
<1> QED
  BY <1>1, WireInvariant, PTL

\* A read that succeeds under strict transaction ids returns a value the object
\* had during the call, cut to the width asked for (gateway_telegram.py:298-324,
\* od_accessor.py:54, 72).
THEOREM ReadIsStored == Spec => []ReadsWhatIsStored
<1>1. WireInv => ReadsWhatIsStored
  BY DEF WireInv
<1> QED
  BY <1>1, WireInvariant, PTL

\* A request that was refused, was sent once and was answered itself is not
\* executed, then or later (gateway_telegram.py:200-208).
THEOREM RefusalIsFinal == Spec => []RefusedIsNotExecuted
<1>1. WireInv => RefusedIsNotExecuted
  BY DEF WireInv, RefusalsAreFinal, RefusedIsNotExecuted, Refused
<1> QED
  BY <1>1, WireInvariant, PTL
=============================================================================
