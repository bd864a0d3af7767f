----------------------------- MODULE FrameCodec -----------------------------
(***************************************************************************)
(* A frame on the wire: the binary layout both ends write and parse        *)
(* (client/src/net/binary_frame.cpp, server/app/protocol.py), in base64 as *)
(* the body of a request or of a response (client/src/crypto/base64.cpp,   *)
(* decode_response; main._run with Python's base64), over a network that   *)
(* may change the body.                                                    *)
(*                                                                         *)
(* Bits come in pairs: a pair has Quarter values, a byte is four pairs and *)
(* a character three, so that three bytes fill four characters, and all    *)
(* shifts are by pairs.  The fields have the lengths SZ gives.             *)
(***************************************************************************)
EXTENDS Integers, Sequences, SequencesExt

CONSTANTS
  Quarter,        \* 4, the values of two bits
  SZ,             \* lengths of the fields: SZ_SESSION_ID, SZ_COUNTER, ...
  MaxPayload,     \* 1 << 20, the largest payload parse takes
  Sent,           \* the frames that may be sent
  MaxDamage       \* bound on the changes the network makes to a body

VARIABLES
  sent,     \* the frame that was sent
  body,     \* the characters of the body
  damage    \* how many changes were made to it

vars == <<sent, body, damage>>

\* A shift by e pairs of bits.
Power[e \in Nat] == IF e = 0 THEN 1 ELSE Quarter * Power[e - 1]

ByteBase == Power[4]
CharBase == Power[3]

Byte == 0 .. ByteBase - 1

\* The payload a sender has must fit what the receiver takes, and what the
\* length field can say.
ASSUME CodecAssumption ==
  /\ Quarter \in Nat \ {0, 1}
  /\ SZ \in [{"session_id", "counter", "nonce", "paylen", "tag", "mac"} -> Nat]
  /\ MaxPayload \in 0 .. Power[4 * SZ.paylen] - 1
  /\ MaxDamage \in Nat

\* The fields of class Frame.
Frame ==
  [message_type      : Byte,
   session_id        : [1 .. SZ.session_id -> Byte],
   counter           : 0 .. Power[4 * SZ.counter] - 1,
   nonce             : [1 .. SZ.nonce -> Byte],
   encrypted_payload : Seq(Byte),
   auth_tag          : [1 .. SZ.tag -> Byte],
   transcript_mac    : [1 .. SZ.mac -> Byte]]

ASSUME SentAssumption ==
  \A f \in Sent : f \in Frame /\ Len(f.encrypted_payload) <= MaxPayload

\* "RG6" and a zero; two bytes stand for the four.
MAGIC == <<6, 0>>
PROTO_VERSION == 6

HEADER_SIZE ==
  Len(MAGIC) + 2 + SZ.session_id + SZ.counter + SZ.nonce + SZ.paylen
-----------------------------------------------------------------------------
(***************************************************************************)
(* The binary layout.                                                      *)
(***************************************************************************)
\* Big-endian bytes of n, and back.
BigEndian(n, size) == [i \in 1 .. size |-> (n \div Power[4 * (size - i)]) % ByteBase]

FromBigEndian(bytes) ==
  LET read[i \in 0 .. Len(bytes)] ==
        IF i = 0 THEN 0 ELSE read[i - 1] * ByteBase + bytes[i]
  IN read[Len(bytes)]

Header(f) ==
  MAGIC \o <<PROTO_VERSION, f.message_type>> \o f.session_id
    \o BigEndian(f.counter, SZ.counter) \o f.nonce
    \o BigEndian(Len(f.encrypted_payload), SZ.paylen)

PreMac(f) == Header(f) \o f.encrypted_payload \o f.auth_tag

Serialize(f) == PreMac(f) \o f.transcript_mac

\* The n bytes at offset off.
Take(buf, off, n) == SubSeq(buf, off + 1, off + n)

PayloadLength(buf) == FromBigEndian(Take(buf, HEADER_SIZE - SZ.paylen, SZ.paylen))

\* Mutant: what follows the frame is not looked at.
WellFormedPrefix(buf) ==
  /\ Len(buf) >= HEADER_SIZE + SZ.tag + SZ.mac
  /\ Take(buf, 0, Len(MAGIC)) = MAGIC
  /\ buf[Len(MAGIC) + 1] = PROTO_VERSION
  /\ PayloadLength(buf) <= MaxPayload
  /\ HEADER_SIZE + PayloadLength(buf) + SZ.tag + SZ.mac <= Len(buf)

\* None of parse's checks fails: length, magic, version, payload length,
\* truncated, trailing.
WellFormed(buf) ==
  /\ Len(buf) >= HEADER_SIZE + SZ.tag + SZ.mac
  /\ Take(buf, 0, Len(MAGIC)) = MAGIC
  /\ buf[Len(MAGIC) + 1] = PROTO_VERSION
  /\ PayloadLength(buf) <= MaxPayload
  /\ HEADER_SIZE + PayloadLength(buf) + SZ.tag + SZ.mac = Len(buf)

\* The frame in buf, or none.
Parse(buf) ==
  LET id      == Len(MAGIC) + 2
      counter == id + SZ.session_id
      nonce   == counter + SZ.counter
      tag     == HEADER_SIZE + PayloadLength(buf)
  IN IF ~WellFormed(buf) THEN {}
     ELSE {[message_type      |-> buf[id],
            session_id        |-> Take(buf, id, SZ.session_id),
            counter           |-> FromBigEndian(Take(buf, counter, SZ.counter)),
            nonce             |-> Take(buf, nonce, SZ.nonce),
            encrypted_payload |-> Take(buf, HEADER_SIZE, PayloadLength(buf)),
            auth_tag          |-> Take(buf, tag, SZ.tag),
            transcript_mac    |-> Take(buf, tag + SZ.tag, SZ.mac)]}
-----------------------------------------------------------------------------
(***************************************************************************)
(* base64.  A character of the alphabet is its number; others follow.      *)
(***************************************************************************)
Alphabet == 0 .. CharBase - 1

Pad   == CharBase        \* =
Blank == CharBase + 1    \* white space
Brace == CharBase + 2    \* {, the first character of an error
Other == CharBase + 3    \* in no alphabet

Symbols == Alphabet \cup {Pad, Blank, Brace, Other}

\* The first k of the four characters that three bytes fill.
Characters(n, k) ==
  [i \in 1 .. k |-> (n \div Power[3 * (4 - i)]) % CharBase]

\* The bytes of row and zeros for those that are missing to three.
Filled(row) == FromBigEndian(row) * Power[4 * (3 - Len(row))]

\* Mutant: two bytes that are left over fill two characters.
EncodeRestShort(rest) ==
  IF rest = <<>> THEN <<>> ELSE Characters(Filled(rest), 2) \o <<Pad, Pad>>

\* The one or two bytes that are left over.
EncodeRest(rest) ==
  IF rest = <<>> THEN <<>>
  ELSE Characters(Filled(rest), Len(rest) + 1) \o [i \in 1 .. 3 - Len(rest) |-> Pad]

b64encode(data) ==
  LET whole == Len(data) \div 3
  IN FlattenSeq([i \in 1 .. whole |-> Characters(Filled(Take(data, 3 * i - 3, 3)), 4)])
       \o EncodeRest(Take(data, 3 * whole, Len(data) % 3))

\* What a decoder has read: the bytes, bits in its buffer that are not in one
\* yet (in pairs), the pads since the last digit, and how it ended.
Nothing ==
  [out |-> <<>>, buf |-> 0, bits |-> 0, pads |-> 0, over |-> FALSE, bad |-> FALSE]

\* A digit is shifted into buf, of 32 bits, and a byte out of it once it is there.
Pushed(d, v) ==
  LET buf  == (d.buf * CharBase + v) % Power[16]
      bits == d.bits + 3
  IN IF bits < 4 THEN [d EXCEPT !.buf = buf, !.bits = bits, !.pads = 0]
     ELSE [d EXCEPT !.buf = buf, !.bits = bits - 4, !.pads = 0,
             !.out = Append(@, (buf \div Power[bits - 4]) % ByteBase)]

\* The client's b64decode ends at a pad, and throws at anything else.
ClientStops(d, c) == [d EXCEPT !.over = TRUE, !.bad = (c # Pad)]

\* How many digits of a group of four were read.
QuadPos(d) == (4 - d.bits) % 4

\* Python's b64decode with validate=False passes over what is in no alphabet;
\* pads end the text once they complete a group of four.
PythonPasses(d, c) ==
  IF c = Pad /\ QuadPos(d) >= 2
  THEN [d EXCEPT !.pads = @ + 1, !.over = (QuadPos(d) + d.pads + 1 >= 4)]
  ELSE d

Takes(end, d, c) ==
  CASE d.over \/ c = Blank       -> d
    [] ~d.over /\ c \in Alphabet -> Pushed(d, c)
    [] OTHER -> IF end = "client" THEN ClientStops(d, c) ELSE PythonPasses(d, c)

\* The loop of either end over the characters of a text.
Reads(end, text) ==
  LET read[i \in 0 .. Len(text)] ==
        IF i = 0 THEN Nothing ELSE Takes(end, read[i - 1], text[i])
  IN read[Len(text)]

b64decode(text) ==
  LET d == Reads("client", text) IN IF d.bad THEN {} ELSE {d.out}

\* A group that is never completed is an error.
PythonDecode(text) ==
  LET d == Reads("server", text)
  IN IF d.over \/ QuadPos(d) = 0 THEN {d.out} ELSE {}

\* The text without the white space around it.
Stripped(text) ==
  LET inner == {i \in DOMAIN text : text[i] # Blank}
  IN IF inner = {} THEN <<>>
     ELSE SubSeq(text, CHOOSE i \in inner : \A j \in inner : i <= j,
                       CHOOSE i \in inner : \A j \in inner : j <= i)

\* decode_response of the client, and _run of the server, up to the frame.
ClientBytes(text) ==
  LET s == Stripped(text)
  IN IF s = <<>> \/ Head(s) = Brace THEN {} ELSE b64decode(s)

ServerBytes(text) == PythonDecode(Stripped(text))

ClientReads(text) == UNION {Parse(bytes) : bytes \in ClientBytes(text)}

ServerReads(text) == UNION {Parse(bytes) : bytes \in ServerBytes(text)}
-----------------------------------------------------------------------------
Init ==
  /\ sent \in Sent
  /\ body = b64encode(Serialize(sent))
  /\ damage = 0

Damages(text) ==
  /\ damage < MaxDamage
  /\ damage' = damage + 1
  /\ body' = text
  /\ UNCHANGED sent

Alter(i, c) == Damages([body EXCEPT ![i] = c])

Drop(i) == Damages(RemoveAt(body, i))

Insert(i, c) == Damages(InsertAt(body, i, c))

CutOff(i) == Damages(SubSeq(body, 1, i - 1))

Next ==
  \E i \in DOMAIN body :
    \/ \E c \in Symbols : Alter(i, c) \/ Insert(i, c)
    \/ Drop(i)
    \/ CutOff(i)

Spec == Init /\ [][Next]_vars
-----------------------------------------------------------------------------
\* What is left of a text without its white space.
Dense(text) ==
  LET kept[i \in 0 .. Len(text)] ==
        IF i = 0 THEN <<>>
        ELSE IF text[i] = Blank THEN kept[i - 1] ELSE Append(kept[i - 1], text[i])
  IN kept[Len(text)]

\* "Byte-for-byte identical": a body to which at most white space was added is
\* read by either end as the frame that was sent, whatever its length modulo
\* three and wherever the white space is.
Delivered ==
  Dense(body) = b64encode(Serialize(sent)) =>
    ClientReads(body) = {sent} /\ ServerReads(body) = {sent}

\* A frame stands for the bytes it was parsed from: open_frame recomputes the
\* MAC over pre_mac() of what it parsed, so parse must not take two rows of
\* bytes for one frame, or bytes would go by that no MAC covers.
MacCoversAll ==
  \A bytes \in ClientBytes(body) \cup ServerBytes(body) :
    \A f \in Parse(bytes) : Serialize(f) = bytes
=============================================================================
