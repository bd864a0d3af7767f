---------------------------- MODULE LicenseText ----------------------------
(***************************************************************************)
(* A license from its author to the person who types it in: build and      *)
(* encode (server/app/verifier.py, as tools/generate_license.py calls      *)
(* them), the two decoders and the two normalisers (license_format.cpp,    *)
(* verifier.py), and validate_license.                                     *)
(*                                                                         *)
(* The texts and the 25 bytes are the real ones.  The keyed hashes are     *)
(* stand-ins of the right length.                                          *)
(***************************************************************************)
EXTENDS Integers, Sequences, SequencesExt, BitOps

CONSTANTS
  Names,              \* the spellings of user names, as typed
  Noise,              \* the characters a text may be edited to
  VM_USERNAME_CAP,    \* the longest name
  MaxEdits            \* bound on the edits of a text

ASSUME LicenseAssumption ==
  /\ Names \subseteq Seq(Nat) /\ Noise \subseteq Nat
  /\ VM_USERNAME_CAP \in Nat /\ MaxEdits \in Nat

VARIABLES
  author,   \* the spelling the license was made for
  name,     \* the spelling that is typed
  text,     \* the license that is typed
  edits

vars == <<author, name, text, edits>>
-----------------------------------------------------------------------------
(***************************************************************************)
(* Names: sequences of character codes.                                    *)
(***************************************************************************)
White == {9, 10, 13, 32}

Trimmed(s, space) ==
  LET inner == {i \in DOMAIN s : s[i] \notin space}
  IN IF inner = {} THEN <<>>
     ELSE SubSeq(s, CHOOSE i \in inner : \A j \in inner : i <= j,
                    CHOOSE i \in inner : \A j \in inner : j <= i)

Lowered(s) == [i \in DOMAIN s |-> IF s[i] \in 65 .. 90 THEN s[i] + 32 ELSE s[i]]

\* unicodedata.normalize("NFC", s), as far as a name can be accepted behind it: the
\* three characters that stand for one of ASCII become it.  Whatever else it
\* composes or replaces gives characters beyond ASCII, which are refused.
NFC(s) ==
  [i \in DOMAIN s |-> CASE s[i] = 8490 -> 75  \* U+212A, KELVIN SIGN
                        [] s[i] = 894  -> 59  \* U+037E, GREEK QUESTION MARK
                        [] s[i] = 8175 -> 96  \* U+1FEF, GREEK VARIA
                        [] OTHER       -> s[i]]

\* normalize_username of the server and of the author's tool.
ServerNormalizes(raw) ==
  LET s == Trimmed(NFC(raw), White)
  IN IF Len(s) \in 1 .. VM_USERNAME_CAP /\ ToSet(s) \subseteq 32 .. 126
     THEN {Lowered(s)} ELSE {}

\* Mutant: upper case is left to the server.
ClientNormalizesCased(raw) ==
  LET s == Trimmed(raw, White)
  IN IF Len(s) \in 1 .. VM_USERNAME_CAP /\ ToSet(s) \subseteq 32 .. 126
     THEN {s} ELSE {}

\* normalize_username of the client, which has no NFC.  It reads bytes: a character
\* beyond ASCII stands for its own, all of them beyond 126 and refused like it.
ClientNormalizes(raw) ==
  LET s == Trimmed(raw, White)
  IN IF Len(s) \in 1 .. VM_USERNAME_CAP /\ ToSet(s) \subseteq 32 .. 126
     THEN {Lowered(s)} ELSE {}
-----------------------------------------------------------------------------
(***************************************************************************)
(* The 25 bytes.                                                           *)
(***************************************************************************)
LICENSE_VERSION == 6

\* The stand-in for a keyed hash: size bytes that depend on every byte of data.
Hash(key, data, size) ==
  [k \in 1 .. size |->
     FoldLeft(LAMBDA acc, b : (acc * (2 * k + 5) + b + 1) % 256, key, data)]

Fragment(user) == Hash(11, user, 4)

Checksum(payload21) == Hash(12, payload21, 4)

Parity(bytes) == FoldLeft(LAMBDA acc, b : acc ^^ b, 0, bytes)

build_license_struct(user) ==
  LET payload17 == <<LICENSE_VERSION>> \o Fragment(user) \o Hash(13, user, 8)
                     \o Hash(14, user, 4)
      payload21 == payload17 \o <<Parity(payload17)>> \o Hash(15, user, 3)
  IN payload21 \o Checksum(payload21)

\* Mutant: the checksum is not compared.
validate_license_unkeyed(user, struct) ==
  /\ struct[1] = LICENSE_VERSION
  /\ SubSeq(struct, 2, 5) = Fragment(user)
  /\ struct[18] = Parity(SubSeq(struct, 1, 17))

\* Mutant: the version is left out of the parity.
validate_license_unversioned(user, struct) ==
  /\ struct[1] = LICENSE_VERSION
  /\ SubSeq(struct, 2, 5) = Fragment(user)
  /\ struct[18] = Parity(SubSeq(struct, 2, 17))
  /\ SubSeq(struct, 22, 25) = Checksum(SubSeq(struct, 1, 21))

validate_license(user, struct) ==
  /\ struct[1] = LICENSE_VERSION
  /\ SubSeq(struct, 2, 5) = Fragment(user)
  /\ struct[18] = Parity(SubSeq(struct, 1, 17))
  /\ SubSeq(struct, 22, 25) = Checksum(SubSeq(struct, 1, 21))
-----------------------------------------------------------------------------
(***************************************************************************)
(* The text.  A character of the base32 alphabet is its number; others     *)
(* follow, lower case and = among the last.                                *)
(***************************************************************************)
Dash  == 32
Blank == 33     \* space, tab, CR, LF
Other == 34
Wide  == 35     \* what str.strip drops and is_ws does not know: VT, FF, NEL, NBSP, ...

LICENSE_PREFIX == <<17, 6, 30>>    \* R, G, 6

\* The bits of values of from bits each, cut into pieces of to bits.
Regrouped(values, from, to) ==
  LET bit(n) == (values[(n \div from) + 1] \div Power[from - 1 - (n % from)]) % 2
  IN [i \in 1 .. (Len(values) * from) \div to |->
        FoldLeft(LAMBDA acc, k : 2 * acc + bit((i - 1) * to + k - 1), 0,
                 [k \in 1 .. to |-> k])]

encode_license(struct) ==
  LICENSE_PREFIX \o FlattenSeq([block \in 1 .. 5 |->
    <<Dash>> \o Regrouped(SubSeq(struct, 5 * block - 4, 5 * block), 8, 5)])

\* A character is passed over, ends a part, or is put to the last one.
Takes(parts, c, passed) ==
  CASE c \in passed                 -> parts
    [] c \notin passed /\ c = Dash -> Append(parts, <<>>)
    [] OTHER -> [parts EXCEPT ![Len(parts)] = Append(@, c)]

\* The parts of s between its dashes.
Split(s, passed) ==
  LET parts[i \in 0 .. Len(s)] ==
        IF i = 0 THEN << <<>> >> ELSE Takes(parts[i - 1], s[i], passed)
  IN parts[Len(s)]

\* Six parts, the prefix, and blocks of eight base32 characters.  A padded block
\* is shorter, and decode_license refuses the total.
Layout(parts) ==
  /\ Len(parts) = 6
  /\ parts[1] = LICENSE_PREFIX
  /\ \A i \in 2 .. 6 : Len(parts[i]) = 8 /\ ToSet(parts[i]) \subseteq 0 .. 31

\* b32decode of the five blocks.
Blocks(parts) ==
  FlattenSeq([i \in 1 .. 5 |-> Regrouped(SubSeq(parts[i + 1], 1, 8), 5, 8)])

\* verifier.decode_license: str.strip drops every kind of white space around.
ServerDecodes(s) ==
  LET parts == Split(Trimmed(s, {Blank, Wide}), {})
  IN IF Layout(parts) THEN {Blocks(parts)} ELSE {}

\* Mutant: the version is left to the server.
ClientDecodesAny(s) ==
  LET parts == Split(s, {Blank})
  IN IF Layout(parts) THEN {Blocks(parts)} ELSE {}

\* decode_license of the client: its four kinds of white space are dropped wherever
\* they are, any other is a bad character, and the version is looked at.
ClientDecodes(s) ==
  LET parts == Split(s, {Blank})
  IN IF Layout(parts) /\ Blocks(parts)[1] = LICENSE_VERSION
     THEN {Blocks(parts)} ELSE {}
-----------------------------------------------------------------------------
\* generate_license for the author's spelling of the name.
Init ==
  /\ author \in {n \in Names : ServerNormalizes(n) # {}}
  /\ name \in Names
  /\ \E user \in ServerNormalizes(author) :
       text = encode_license(build_license_struct(user))
  /\ edits = 0

Edits(s) ==
  /\ edits < MaxEdits
  /\ edits' = edits + 1
  /\ text' = s
  /\ UNCHANGED <<author, name>>

Alter(i, c) == Edits([text EXCEPT ![i] = c])

Insert(i, c) == Edits(InsertAt(text, i, c))

Drop(i) == Edits(RemoveAt(text, i))

AppendChar(c) == Edits(Append(text, c))

Next ==
  \/ \E i \in DOMAIN text, c \in Noise : Alter(i, c) \/ Insert(i, c)
  \/ \E i \in DOMAIN text : Drop(i)
  \/ \E c \in Noise : AppendChar(c)
-----------------------------------------------------------------------------
\* What reaches the server for a name and a license as typed: the name normalised
\* on both ends, and the 25 bytes the client decoded.
Accepts(typedName, s) ==
  \E sentName \in ClientNormalizes(typedName), struct \in ClientDecodes(s) :
    \E user \in ServerNormalizes(sentName) : validate_license(user, struct)

Accepted == Accepts(name, text)

\* "ASCII-only so the C++ client reproduces it without an ICU dependency": what the
\* client sends for a spelling is what a license is made for, and the server's own
\* normalisation of it changes nothing more.  Only a spelling with a character
\* beyond ASCII, one that NFC takes into it, has a license and no client.
NormalizersAgree ==
  LET sent == ClientNormalizes(name)
      made == ServerNormalizes(name)
  IN /\ sent \subseteq made
     /\ made # sent => \E c \in ToSet(name) : c > 127
     /\ \A user \in sent : ServerNormalizes(user) = sent

\* The typed spelling is, but for case and white space around it, the author's in
\* ASCII.
SameName == Lowered(Trimmed(name, White)) = Lowered(Trimmed(NFC(author), White))

\* A license opens for every spelling of its name in ASCII, and however the text is
\* surrounded by white space of the client's kinds.
LicenseOpens ==
  /\ SameName
  /\ Trimmed(text, {Blank}) =
       encode_license(build_license_struct(CHOOSE u \in ServerNormalizes(author) : TRUE))
  => Accepted

\* "The same license therefore does not validate for a different username", and
\* no text but the one that was made for a name opens for it, white space aside.
OnlyItsOwn ==
  Accepted =>
    \E user \in ClientNormalizes(name) :
      SelectSeq(text, LAMBDA c : c # Blank) =
        encode_license(build_license_struct(user))

\* The two decoders take the same texts for the same bytes, when white space is
\* only around them and the version is the one the client knows; but white space
\* of the kinds that is_ws does not have, which the server drops around a text, is
\* refused by the client wherever it is.
DecodersAgree ==
  ~Contains(Trimmed(text, {Blank, Wide}), Blank) =>
    ClientDecodes(text) =
      IF Contains(text, Wide) THEN {}
      ELSE {s \in ServerDecodes(text) : s[1] = LICENSE_VERSION}
=============================================================================
