----------------------------- MODULE WireCodec ------------------------------
(***************************************************************************)
(* The messages of wire.c under the header of proto.c, byte by byte: one   *)
(* message is encoded, sent as header and payload, and decoded.  What the  *)
(* decoder gets may be the encoded payload, a part of it or more than it,  *)
(* under its own header or a damaged one: the other end is another         *)
(* program, of another version.                                            *)
(*                                                                         *)
(* A byte is a number below Base; a text is a sequence of bytes.  The      *)
(* encoders check other limits than the decoders, and not in one place.    *)
(***************************************************************************)
EXTENDS Buffer, SequencesExt

CONSTANTS
    Base,       \* bytes are 0 .. Base - 1, 256 in the code
    Messages,   \* the messages that are encoded
    Cap,        \* room for the payload at the encoder's caller
    Limit,      \* record of the *_MAX and *_SIZE limits, see LimitAssumption
    Magic, Version

LimitNames == {"version_text", "node_id", "username", "password", "tap_name",
               "bridge_name", "direct_mode", "direct_addr", "direct_token",
               "host", "nonce", "sign", "minFrame", "minMtu", "maxMtu",
               "defaultMtu", "tapExtra", "control", "socks"}

ASSUME LimitAssumption == Limit \in [LimitNames -> Nat \ {0}]
ASSUME BaseAssumption == Base \in Nat /\ Base > 14

(* The arrays that AUTH_OK and SOCKS_CLOSE are written to are as long as    *)
(* what is written; the other encoders are told how long theirs is.         *)
ASSUME CapAssumption == Cap \in Nat /\ Cap >= 20

VARIABLES
    msg,        \* the message: its kind and its fields
    pc,
    buf,        \* the encoder's buffer
    at,         \* the next piece to append, or the next field to read
    out,        \* the caller's payload once it is encoded
    hdr,        \* the header received
    payload,    \* the payload received
    pos,        \* the decoder's position: how far it has read
    got         \* the decoder's result

vars == <<msg, pc, buf, at, out, hdr, payload, pos, got>>

-----------------------------------------------------------------------------
(* put_be and get_be: big-endian numbers of w bytes *)
Shifted(n, k) == LET shift[j \in 0 .. k] == IF j = 0 THEN n ELSE shift[j - 1] \div Base
                 IN  shift[k]
Put(n, w) == [i \in 1 .. w |-> Shifted(n, w - i) % Base]
Get(bytes) == LET upTo[i \in 0 .. Len(bytes)] ==
                      IF i = 0 THEN 0 ELSE upTo[i - 1] * Base + bytes[i]
              IN  upTo[Len(bytes)]

(* An unsigned number of w bytes: nothing is left of it behind the last. *)
Fits(n, w) == Shifted(n, w) = 0

Num(f, w)  == [name |-> f, as |-> "num", size |-> w]
Raw(f, n)  == [name |-> f, as |-> "raw", size |-> n]
Text(f)    == [name |-> f, as |-> "text", size |-> Limit[f]]
Rest(f)    == [name |-> f, as |-> "rest", size |-> 0]
TextMax    == Base * Base - 1     \* what a two-byte length can say, 65535

(* The fields of each message, in the order both sides use. *)
Layout ==
  [ HELLO       |-> <<Num("role", 1), Text("version_text"), Num("feature_bits", 4),
                      Raw("nonce", Limit.nonce)>>,
    AUTH_NODE   |-> <<Text("node_id"), Raw("client_nonce", Limit.nonce),
                      Raw("sign", Limit.sign)>>,
    AUTH_TAP    |-> <<Text("username"), Text("password"), Num("network_id", 4),
                      Raw("client_nonce", Limit.nonce)>>,
    AUTH_OK     |-> <<Num("session_id", 4), Num("network_id", 4),
                      Num("server_time", 8), Num("feature_bits", 4)>>,
    CONFIG_PUSH |-> <<Num("config_version", 4), Num("network_id", 4),
                      Num("tap_enabled", 1), Num("socks_enabled", 1),
                      Num("direct_enabled", 1), Text("tap_name"),
                      Text("bridge_name"), Num("mtu", 2), Num("direct_port", 2),
                      Num("flags", 4), Text("direct_mode"), Text("direct_addr"),
                      Text("direct_token")>>,
    TAP_FRAME   |-> <<Num("network_id", 4), Num("frame_len", 2), Rest("frame")>>,
    SOCKS_OPEN  |-> <<Num("stream_id", 4), Text("host"), Num("port", 2)>>,
    SOCKS_DATA  |-> <<Num("stream_id", 4), Rest("data")>>,
    SOCKS_CLOSE |-> <<Num("stream_id", 4)>>,
    SOCKS_CLOSE_REASON |-> <<Num("stream_id", 4), Num("reason_code", 2),
                             Num("flags", 2)>> ]

Kinds == DOMAIN Layout
Bytes == 0 .. Base - 1
TypeOf == [HELLO |-> 1, AUTH_NODE |-> 2, AUTH_TAP |-> 3, AUTH_OK |-> 4,
           CONFIG_PUSH |-> 6, TAP_FRAME |-> 7, SOCKS_OPEN |-> 12,
           SOCKS_DATA |-> 13, SOCKS_CLOSE |-> 14, SOCKS_CLOSE_REASON |-> 14]
Socks == {"SOCKS_OPEN", "SOCKS_DATA", "SOCKS_CLOSE", "SOCKS_CLOSE_REASON"}
Direct == {"AUTH_OK", "TAP_FRAME", "SOCKS_DATA", "SOCKS_CLOSE",
           "SOCKS_CLOSE_REASON"}  \* written without a buffer

Fields(k) == Layout[k]
Names(k) == {Fields(k)[i].name : i \in DOMAIN Fields(k)}

(* The header's length has four bytes; a caller's array is far shorter. *)
ASSUME HeaderAssumption ==
    /\ Magic \in Nat /\ Fits(Magic, 4)
    /\ Version \in Bytes
    /\ \A n \in 0 .. Cap + 1 : Fits(n, 4)

(* The encoders' arguments as C passes them: unsigned numbers of a fixed    *)
(* width, arrays of a fixed size, texts of any length, and data with its    *)
(* length.                                                                  *)
IsField(f, v) ==
    CASE f.as = "num" -> v \in Nat /\ Fits(v, f.size)
      [] f.as = "raw" -> v \in Seq(Bytes) /\ Len(v) = f.size
      [] OTHER        -> v \in Seq(Bytes)

IsMessage(m) ==
    /\ m.kind \in Kinds
    /\ m.field = [f \in Names(m.kind) |-> m.field[f]]
    /\ \A i \in DOMAIN Fields(m.kind) :
         IsField(Fields(m.kind)[i], m.field[Fields(m.kind)[i].name])
    /\ m.kind = "TAP_FRAME" => Len(m.field.frame) = m.field.frame_len

ASSUME MessagesAssumption == \A m \in Messages : IsMessage(m)

-----------------------------------------------------------------------------
(* The encoders *)

(* append_string appends the length, then the text. *)
PiecesOf(f, v) ==
    CASE f.as = "num"  -> <<Put(v, f.size)>>
      [] f.as = "text" -> <<Put(Len(v), 2), v>>
      [] OTHER         -> <<v>>

Pieces(m) ==
    FlattenSeq([i \in DOMAIN Fields(m.kind) |->
                  PiecesOf(Fields(m.kind)[i], m.field[Fields(m.kind)[i].name])])

Encoding(m) == FlattenSeq(Pieces(m))

(* What an encoder checks before it writes.  SOCKS_OPEN does not look at    *)
(* the stream, CONFIG_PUSH at nothing.                                      *)
ArgumentsOk(m) ==
    CASE m.kind = "TAP_FRAME"  -> /\ m.field.frame_len >= Limit.minFrame
                                  /\ 6 + m.field.frame_len <= Cap
      [] m.kind = "SOCKS_OPEN" -> m.field.host # <<>> /\ m.field.port # 0
      [] m.kind = "SOCKS_DATA" -> /\ m.field.stream_id # 0
                                  /\ Len(m.field.data) \in 1 .. Limit.socks - 4
                                  /\ 4 + Len(m.field.data) <= Cap
      [] m.kind \in {"SOCKS_CLOSE", "SOCKS_CLOSE_REASON"} -> m.field.stream_id # 0
      [] OTHER -> TRUE

(* append_string refuses a text whose length does not fit two bytes. *)
TooLong(m, i) ==
    /\ i < Len(Pieces(m))
    /\ Len(Pieces(m)[i + 1]) > TextMax

Start(m) ==
    /\ pc = "IDLE"
    /\ msg' = m
    /\ \/ ~ArgumentsOk(m) /\ pc' = "NOT_ENCODED" /\ UNCHANGED out
       \/ /\ ArgumentsOk(m) /\ m.kind \in Direct
          /\ out' = Encoding(m) /\ pc' = "ENCODED"
       \/ ArgumentsOk(m) /\ m.kind \notin Direct /\ pc' = "APPEND" /\ UNCHANGED out
    /\ UNCHANGED <<buf, at, hdr, payload, pos, got>>

Free == buf' = Empty            \* ntap_buffer_free

AppendPiece(memory) ==
    /\ pc = "APPEND" /\ at <= Len(Pieces(msg))
    /\ ~TooLong(msg, at) /\ ~AppendFails(buf, Pieces(msg)[at], memory)
    /\ buf' = Appended(buf, Pieces(msg)[at], memory)
    /\ at' = at + 1
    /\ UNCHANGED <<msg, pc, out, hdr, payload, pos, got>>

AppendPieceFails(memory) ==
    /\ pc = "APPEND" /\ at <= Len(Pieces(msg))
    /\ TooLong(msg, at) \/ AppendFails(buf, Pieces(msg)[at], memory)
    /\ Free
    /\ pc' = "NOT_ENCODED"
    /\ UNCHANGED <<msg, at, out, hdr, payload, pos, got>>

(* The buffer is copied to the caller if it fits there. *)
Finish ==
    /\ pc = "APPEND" /\ at > Len(Pieces(msg))
    /\ LET fits == /\ Len(buf.data) <= Cap
                   /\ msg.kind \in Socks => Len(buf.data) <= Limit.socks
       IN  IF fits THEN out' = buf.data /\ pc' = "ENCODED"
                   ELSE pc' = "NOT_ENCODED" /\ UNCHANGED out
    /\ Free
    /\ at' = 1
    /\ UNCHANGED <<msg, hdr, payload, pos, got>>

-----------------------------------------------------------------------------
(* Header and transport *)
Session == 1

HdrEncode(h) ==
    Put(h.magic, 4) \o Put(h.version, 1) \o Put(h.type, 1) \o Put(0, 2)
    \o Put(Session, 4) \o Put(h.length, 4)

HdrDecode(b) ==
    [magic |-> Get(SubSeq(b, 1, 4)), version |-> b[5], type |-> b[6],
     flags |-> Get(SubSeq(b, 7, 8)), session_id |-> Get(SubSeq(b, 9, 12)),
     length |-> Get(SubSeq(b, 13, 16))]

TypeValid(t) == t \in 1 .. 14   \* ntap_msg_type_is_valid

HdrOk(h) == h.magic = Magic /\ h.version = Version /\ TypeValid(h.type)

(* ntap_payload_length_allowed with the default MTU *)
LengthAllowed(t, n) ==
    CASE t = TypeOf["TAP_FRAME"] -> n <= Limit.defaultMtu + Limit.tapExtra
      [] t \in 12 .. 14          -> n <= Limit.socks
      [] OTHER                   -> n <= Limit.control

TrueHdr(n) == [magic |-> Magic, version |-> Version, type |-> TypeOf[msg.kind],
               length |-> n]
Damaged(n) == {[TrueHdr(n) EXCEPT !.magic = Magic - 1],
               [TrueHdr(n) EXCEPT !.version = Version + 1],
               [TrueHdr(n) EXCEPT !.type = 0], [TrueHdr(n) EXCEPT !.type = 15]}

(* The other end sends the first n bytes of the encoding, or one byte more  *)
(* than all of it.                                                          *)
Deliver ==
    /\ pc = "ENCODED"
    /\ \E n \in 0 .. Len(out) + 1 :
         /\ payload' = [i \in 1 .. n |-> IF i <= Len(out) THEN out[i] ELSE 1]
         /\ \E h \in {TrueHdr(n)} \union (IF n = Len(out) THEN Damaged(n) ELSE {}) :
              hdr' = HdrEncode(h)
    /\ pc' = "RECEIVED"
    /\ UNCHANGED <<msg, buf, at, out, pos, got>>

(* The callers pick the decoder by the header's type. *)
RemoteClosed == 2               \* the reason of a SOCKS_CLOSE that states none

Zeroed(k) ==
    IF k = "SOCKS_CLOSE"
    THEN [stream_id |-> 0, reason_code |-> RemoteClosed, flags |-> 0]
    ELSE [f \in Names(k) |-> IF \E i \in DOMAIN Fields(k) :
                                Fields(k)[i].name = f /\ Fields(k)[i].as = "num"
                             THEN 0 ELSE <<>>]

(* What a decoder checks before it reads at all: bytes it is going to read, *)
(* or the whole length where it is fixed.                                   *)
LengthOk(k, n) ==
    CASE k = "HELLO"       -> n >= 1
      [] k = "AUTH_OK"     -> n = 20
      [] k = "CONFIG_PUSH" -> n >= 4 + 4 + 3 + 2 + 2 + 4
      [] k = "TAP_FRAME"   -> n >= 6
      [] k = "SOCKS_OPEN"  -> n >= 4 + 2 + 2
      [] k = "SOCKS_DATA"  -> n > 4 /\ n <= Limit.socks
      [] k \in {"SOCKS_CLOSE", "SOCKS_CLOSE_REASON"} -> n \in {4, 8}
      [] OTHER             -> TRUE

(* One decoder takes both forms of SOCKS_CLOSE. *)
DecodedAs ==
    IF msg.kind \notin {"SOCKS_CLOSE", "SOCKS_CLOSE_REASON"} THEN msg.kind
    ELSE IF Len(payload) = 8 THEN "SOCKS_CLOSE_REASON" ELSE "SOCKS_CLOSE"

(* ntap_recv_msg, then the decoder's first check. *)
Receive ==
    /\ pc = "RECEIVED"
    /\ LET h == HdrDecode(hdr)
           taken == /\ HdrOk(h) /\ LengthAllowed(h.type, h.length)
                    /\ LengthOk(msg.kind, Len(payload))
       IN  pc' = IF taken THEN "DECODE" ELSE "REFUSED"
    /\ got' = Zeroed(DecodedAs)
    /\ at' = 1 /\ pos' = 0
    /\ UNCHANGED <<msg, buf, out, hdr, payload>>

-----------------------------------------------------------------------------
(* The decoders, one field at a time *)
Field == Fields(DecodedAs)[at]
Left == Len(payload) - pos
BytesAt(p, n) == [i \in 1 .. n |-> IF p + i \in DOMAIN payload THEN payload[p + i] ELSE 0]

(* Checked before the numbers that follow the last text are read. *)
RestFits ==
    LET k == msg.kind
        f == Field.name
    IN  CASE k = "HELLO" /\ f = "feature_bits"     -> Left = 4 + Limit.nonce
          [] k = "AUTH_NODE" /\ f = "client_nonce" -> Left = Limit.nonce + Limit.sign
          [] k = "AUTH_TAP" /\ f = "network_id"    -> Left = 4 + Limit.nonce
          [] k = "CONFIG_PUSH" /\ f = "mtu"        -> Left >= 2 + 2 + 4
          [] k = "SOCKS_OPEN" /\ f = "port"        -> Left = 2
          [] k = "TAP_FRAME" /\ f = "frame"        ->
                got.frame_len >= Limit.minFrame /\ Left = got.frame_len
          [] OTHER -> TRUE

(* Fault: the text is not held against what is left of the payload. *)
TextFitsBuffer == Left >= 2 /\ Get(BytesAt(pos, 2)) < Field.size

(* Fault: no room is kept for the final NUL. *)
TextFitsExactly == Left >= 2 /\ Get(BytesAt(pos, 2)) \in 0 .. Field.size
                   /\ Left >= 2 + Get(BytesAt(pos, 2))

(* read_string: the length, the text behind it, and room for the final NUL. *)
TextFits ==
    /\ Left >= 2
    /\ Left >= 2 + Get(BytesAt(pos, 2))
    /\ Get(BytesAt(pos, 2)) < Field.size

Reads(n, v) ==
    /\ got' = [got EXCEPT ![Field.name] = v]
    /\ pos' = pos + n
    /\ at' = at + 1
    /\ UNCHANGED <<msg, pc, buf, out, hdr, payload>>

(* The CONFIG_PUSH decoder checks the settings before it goes on to the     *)
(* direct fields, which an older server does not send.                      *)
AtDirectFields == msg.kind = "CONFIG_PUSH" /\ Field.name = "direct_mode"
SettingsOk == got.network_id # 0 /\ got.mtu \in Limit.minMtu .. Limit.maxMtu

NothingLeft == Left = 0

ReadNumber ==
    /\ pc = "DECODE" /\ at <= Len(Fields(DecodedAs))
    /\ Field.as \in {"num", "raw", "rest"}
    /\ RestFits
    /\ LET n == IF Field.as = "rest" THEN Left ELSE Field.size
           bytes == BytesAt(pos, n)
       IN  Reads(n, IF Field.as = "num" THEN Get(bytes) ELSE bytes)

ReadText ==
    /\ pc = "DECODE" /\ at <= Len(Fields(DecodedAs))
    /\ Field.as = "text"
    /\ AtDirectFields => SettingsOk /\ ~NothingLeft
    /\ TextFits
    /\ LET n == Get(BytesAt(pos, 2)) IN Reads(2 + n, BytesAt(pos + 2, n))

Refuse ==
    /\ pc = "DECODE" /\ at <= Len(Fields(DecodedAs))
    /\ IF Field.as # "text" THEN ~RestFits
       ELSE IF AtDirectFields THEN ~SettingsOk \/ (~NothingLeft /\ ~TextFits)
       ELSE ~TextFits
    /\ pc' = "REFUSED"
    /\ UNCHANGED <<msg, buf, at, out, hdr, payload, pos, got>>

(* Fault: the payload may go on behind the last field. *)
ValuesOkAnyEnd ==
    IF msg.kind = "CONFIG_PUSH" THEN SettingsOk
    ELSE msg.kind \in Socks => got.stream_id # 0

(* What is checked of the values once all is read. *)
ValuesOk ==
    CASE msg.kind = "CONFIG_PUSH" -> SettingsOk /\ Left = 0
      [] msg.kind = "SOCKS_OPEN"  -> got.stream_id # 0 /\ got.host # <<>> /\ got.port # 0
      [] msg.kind \in Socks \ {"SOCKS_OPEN"} -> got.stream_id # 0
      [] OTHER -> TRUE

Decoded ==
    /\ pc = "DECODE"
    /\ \/ at > Len(Fields(DecodedAs)) /\ pc' = IF ValuesOk THEN "ACCEPTED" ELSE "REFUSED"
       \/ /\ at <= Len(Fields(DecodedAs)) /\ AtDirectFields
          /\ SettingsOk /\ NothingLeft
          /\ pc' = "ACCEPTED"
    /\ UNCHANGED <<msg, buf, at, out, hdr, payload, pos, got>>

-----------------------------------------------------------------------------
Init ==
    /\ msg = [kind |-> "none"] /\ pc = "IDLE"
    /\ buf = Empty /\ at = 1
    /\ out = <<>> /\ hdr = <<>> /\ payload = <<>> /\ pos = 0 /\ got = <<>>

Next ==
    \/ \E m \in Messages : Start(m)
    \/ \E memory \in BOOLEAN : AppendPiece(memory) \/ AppendPieceFails(memory)
    \/ Finish \/ Deliver \/ Receive
    \/ ReadNumber \/ ReadText \/ Refuse \/ Decoded

Spec == Init /\ [][Next]_vars

-----------------------------------------------------------------------------
(* What a message means to its reader, and which ones a reader takes. *)
Meaning(m) ==
    IF m.kind = "SOCKS_CLOSE"
    THEN [stream_id |-> m.field.stream_id, reason_code |-> RemoteClosed, flags |-> 0]
    ELSE m.field

TextsShort(m, names) ==
    \A i \in DOMAIN Fields(m.kind) :
        LET f == Fields(m.kind)[i]
        IN  f.as = "text" /\ f.name \in names => Len(m.field[f.name]) < f.size

Settings(m) ==
    m.kind = "CONFIG_PUSH" =>
        /\ m.field.network_id # 0
        /\ m.field.mtu \in Limit.minMtu .. Limit.maxMtu

Readable(m) ==
    /\ TextsShort(m, Names(m.kind))
    /\ Settings(m)
    /\ m.kind = "SOCKS_OPEN" => m.field.stream_id # 0
    /\ LengthAllowed(TypeOf[m.kind], Len(Encoding(m)))

DirectFields == {"direct_mode", "direct_addr", "direct_token"}
WithoutDirect(m) ==
    [f \in DOMAIN m.field |-> IF f \in DirectFields THEN <<>> ELSE m.field[f]]

(* Where the direct fields of a CONFIG_PUSH begin in its encoding. *)
DirectAt(m) ==
    Len(Encoding(m)) - Len(FlattenSeq([i \in 1 .. 6 |->
                          Pieces(m)[Len(Pieces(m)) - 6 + i]]))

Judged == pc \in {"ACCEPTED", "REFUSED"}

(* The encoders hand out the whole message or nothing.  While they build it *)
(* the buffer holds exactly the pieces appended, within its capacity,       *)
(* however often it grows and whichever allocation fails, and afterwards it *)
(* is freed on every path.                                                  *)
BufferSound ==
    /\ Len(buf.data) <= buf.cap /\ buf.cap <= SizeMax
    /\ \A i \in DOMAIN buf.data : buf.data[i] \in 0 .. Base - 1
    /\ pc = "APPEND" => buf.data = FlattenSeq(SubSeq(Pieces(msg), 1, at - 1))
    /\ pc # "APPEND" => ~Held(buf)
    /\ out # <<>> => out = Encoding(msg) /\ Len(out) <= Cap

(* A message that arrives as it was encoded is accepted exactly if its      *)
(* texts are below the reader's limits and its settings in range, and then  *)
(* every field is what was sent.  The encoders do not check these limits.   *)
RoundTrip ==
    Judged /\ payload = out /\ hdr = HdrEncode(TrueHdr(Len(out))) =>
        /\ pc = "ACCEPTED" <=> Readable(msg)
        /\ pc = "ACCEPTED" => got = Meaning(msg)

(* Of the payloads that are shorter or longer than their message only three *)
(* kinds are accepted: a CONFIG_PUSH without all of its direct fields, which*)
(* then read as empty, a SOCKS_DATA with less or more data, and the short   *)
(* form of SOCKS_CLOSE.  A damaged header refuses every payload.            *)
OnlyOptionalCutsPass ==
    /\ Judged /\ payload # out =>
        (pc = "ACCEPTED" <=>
           \/ /\ msg.kind = "CONFIG_PUSH" /\ Len(payload) = DirectAt(msg)
              /\ Settings(msg) /\ TextsShort(msg, {"tap_name", "bridge_name"})
              /\ got = WithoutDirect(msg)
           \/ /\ msg.kind = "SOCKS_DATA" /\ Len(payload) \in 5 .. Limit.socks
              /\ got.data = SubSeq(payload, 5, Len(payload))
           \/ /\ msg.kind = "SOCKS_CLOSE_REASON" /\ Len(payload) = 4
              /\ got = Meaning([kind |-> "SOCKS_CLOSE", field |-> msg.field]))
    /\ pc = "ACCEPTED" => HdrOk(HdrDecode(hdr))

(* No decoder reads behind the payload, whatever lengths the payload states.*)
ReadsInside == pos <= Len(payload)
=============================================================================
