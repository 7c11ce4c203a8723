---------------------------- MODULE GatewayCodec ----------------------------
(***************************************************************************)
(* The telegrams of the Modbus TCP gateway: the integers of protocol/      *)
(* codec.py, the checks of validator.py, parse_adu() of                    *)
(* gateway_telegram.py with the two parsers of sdo.py on top of it, and    *)
(* the server side of simulator.py.  A data field is the number its bytes  *)
(* spell, low byte first, together with their count, so padding with zero  *)
(* bytes leaves the number alone and cutting it keeps the low bytes.       *)
(* Transaction ids, unit ids and objects are members of small sets.        *)
(***************************************************************************)
EXTENDS Integers

CONSTANTS
  Byte,          \* values of a byte: 256, fewer for TLC
  SizeOf         \* OBJECT_SIZES: the bytes of each object

ASSUME CodecAssumption ==
  /\ Byte \in Nat \ {0} /\ Byte % 2 = 0
  /\ \A o \in DOMAIN SizeOf : SizeOf[o] \in 1..4

Objects == DOMAIN SizeOf

-----------------------------------------------------------------------------
(* Integers. *)

\* 1 << (size * 8), written out: the provers know products, not powers
Modulus == LET two == Byte * Byte IN <<Byte, two, two * Byte, two * two>>
Half(w) == Modulus[w] \div 2

\* _range_for()
InRange(v, w, signed) ==
  IF signed THEN v \in -Half(w)..(Half(w) - 1) ELSE v \in 0..(Modulus[w] - 1)

\* pack_int() of a value in range: two's complement
Packed(v, w, signed) == IF signed /\ v < 0 THEN v + Modulus[w] ELSE v

\* The sign bit itself counts as positive (mutant).
UnpackedLate(u, w, signed) == IF signed /\ u > Half(w) THEN u - Modulus[w] ELSE u

\* unpack_int()
Unpacked(u, w, signed) == IF signed /\ u >= Half(w) THEN u - Modulus[w] ELSE u

-----------------------------------------------------------------------------
(* Requests, as build_read_int() and build_write_int() make them.  The      *)
(* signedness and the value are the caller's, they are not sent.            *)

Request(id, unit, o, isWrite, w, signed, v) ==
  [id |-> id, unit |-> unit, object |-> o, write |-> isWrite, width |-> w,
   signed |-> signed, value |-> v, data |-> IF isWrite THEN Packed(v, w, signed) ELSE 0]

-----------------------------------------------------------------------------
(* Answers; about is a ghost, the request that is answered. *)

Answer(r, tid, unit, ctrl, count, data) ==
  [about |-> r.id, tid |-> tid, unit |-> unit, exception |-> FALSE, ctrl |-> ctrl,
   object |-> r.object, count |-> count, data |-> data]

ExceptionAnswer(r, tid, unit) ==
  [about |-> r.id, tid |-> tid, unit |-> unit, exception |-> TRUE, ctrl |-> 0,
   object |-> r.object, count |-> 0, data |-> 0]

\* validate_gateway_response(), the data field being as long as count says
ValidResponse(m) == m.exception \/ m.count \in (IF m.ctrl = 0 THEN 1..4 ELSE 0..4)

UnitMatches(m, r, unitOk) == m.unit = r.unit \/ (m.unit = "wildcard" /\ unitOk)

\* Transaction ids are not compared (mutant).
AnyTid(m, r, tidOk) == TRUE
TidMatches(m, r, tidOk) == m.tid = r.id \/ tidOk

\* parse_read_response() wants a read answer; parse_write_response() takes both.
DirectionMatches(m, r) == r.write \/ m.ctrl = 0

\* The width of the data after parse_adu() has padded a short read answer.
DataWidth(m, r) == IF m.count < r.width THEN r.width ELSE m.count

\* A wide answer is not cut to the width that was asked for (mutant).
Uncut(u, w) == u

\* The mask of read_u16() and read_u32().
Masked(u, w) == u % Modulus[w]

\* decode_read_int() and the accessor's mask
Decoded(m, r) ==
  LET v == Unpacked(m.data, DataWidth(m, r), r.signed)
  IN  IF r.signed THEN v ELSE Masked(v, r.width)

\* What the accessor makes of answer m to request r: an exception answer is
\* raised before anything of it is compared with the request.
Parsed(m, r, tidOk, unitOk) ==
  IF ~ValidResponse(m) THEN "invalid"
  ELSE IF m.exception THEN "refused"
  ELSE IF /\ UnitMatches(m, r, unitOk) /\ m.object = r.object
          /\ TidMatches(m, r, tidOk) /\ DirectionMatches(m, r)
       THEN "ok" ELSE "mismatch"

-----------------------------------------------------------------------------
(* The server side of simulator.py. *)

\* parse_gateway_request() under STRICT_OBJECT_SIZE
StrictlyServed(r) == r.width = SizeOf[r.object]

\* sdo_read(), cut or padded to the width that was asked for
ReadData(stored, r) == stored % Modulus[r.width]

\* All bytes are stored (mutant).
WriteWhole(r) == r.data

\* sdo_write(): the low bytes, zero-extended to the width of the object
WriteData(r) == r.data % Modulus[SizeOf[r.object]]

\* build_gateway_response()
ServerAnswer(stored, r) ==
  IF r.write THEN Answer(r, r.id, r.unit, 1, 0, 0)
  ELSE Answer(r, r.id, r.unit, 0, r.width, ReadData(stored, r))

\* External: what the code says of gateways in the field.  A read answer has
\* the width of the object, a write answer may echo the request, the
\* transaction id may not be echoed (0) and the unit id may be a wildcard.
FieldAnswers(stored, r) ==
  LET echoes == {<<r.id, r.unit>>, <<0, r.unit>>, <<r.id, "wildcard">>}
  IN  IF r.write
      THEN {Answer(r, e[1], e[2], c, n, IF n = 0 THEN 0 ELSE r.data) :
              e \in echoes, c \in {0, 1}, n \in {0, r.width}}
      ELSE {Answer(r, e[1], e[2], 0, SizeOf[r.object], stored) : e \in echoes}
=============================================================================
