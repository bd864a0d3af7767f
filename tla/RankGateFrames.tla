--------------------------- MODULE RankGateFrames ---------------------------
(***************************************************************************)
(* The binary frames and the rolling transcript both ends of the protocol  *)
(* compute (server/app/protocol.py, client/src/challenge/transcript.cpp),  *)
(* the keys and the proofs, and the license check.                         *)
(*                                                                         *)
(* Hashes, MACs, signatures and ciphers are free terms: equal only for     *)
(* equal inputs.  A transcript state T_i is the sequence of the frames it  *)
(* absorbed.  The MAC and the nonce of a frame are left out of what is     *)
(* absorbed: the first is a function of the rest, the second is drawn anew *)
(* for every frame and read by nobody.                                     *)
(***************************************************************************)
EXTENDS Naturals, Sequences

CONSTANTS
  User,        \* normalized usernames
  License      \* records [version, owner, parity, checksum], see below

LICENSE_VERSION == 6

\* username_norm before HELLO was parsed, and one no check would let through.
NoUser == ""

\* A public key x25519_shared refuses.
WeakPub == "weak"
-----------------------------------------------------------------------------
\* T0
Transcript0 == <<>>

\* The key bundle HKDF expands from (salt = T2, shared secret).  T2 contains
\* both public keys, so it stands for the bundle.
DeriveKeys(t2) == t2

\* sha256(BOOTSTRAP_MAC_LABEL): no bundle has the empty salt.
BootstrapKey == Transcript0

\* Transcript.seal_frame: the MAC commits to key, transcript and body.  layer
\* is the AEAD key of the payload: none, client to server or the reverse.
SealFrame(t, key, layer, type, sid, counter, payload) ==
  [body   |-> [type |-> type, session_id |-> sid, counter |-> counter,
               layer |-> layer, payload |-> payload],
   prev   |-> t,
   key    |-> key,
   intact |-> TRUE]

\* Mutant: the result of the MAC comparison is not used.
OpensUnchecked(t, key, layer, frame) ==
  /\ frame.prev = t
  /\ frame.key = key
  /\ frame.body.layer = layer

\* Transcript.open_frame, then the AEAD: a wrong key, another history or any
\* changed byte fails one of the two.
Opens(t, key, layer, frame) ==
  /\ frame.intact
  /\ frame.prev = t
  /\ frame.key = key
  /\ frame.body.layer = layer

\* The helpers of both ends: a bootstrap frame in clear, or a payload in the
\* AEAD layer of one direction.
PlainSeal(t, type, sid, counter, payload) ==
  SealFrame(t, BootstrapKey, "plain", type, sid, counter, payload)

PlainOpen(t, frame) == Opens(t, BootstrapKey, "plain", frame)

AeadSeal(t, keys, layer, type, sid, counter, plaintext) ==
  SealFrame(t, keys, layer, type, sid, counter, plaintext)

AeadOpen(t, keys, layer, frame) == Opens(t, keys, layer, frame)

\* Transcript.absorb
Absorb(t, frame) == Append(t, frame.body)

\* The transcript an endpoint that sealed or opened the frame is left with.
After(frame) == Absorb(frame.prev, frame)

\* Bytes changed on the way.  The header is in clear and is read before the MAC
\* is checked, so a changed session id or counter is what the server acts on.
Garbled(frame, sid, counter) ==
  [frame EXCEPT !.intact = FALSE,
                !.body.session_id = sid,
                !.body.counter = counter]

\* Bytes changed so that Frame.parse, or the type check after it, fails.
Unparsable(frame) ==
  [frame EXCEPT !.intact = FALSE, !.body.type = "UNKNOWN"]

\* Payload bytes no handler gets to read.
NoPayload == [unread |-> TRUE]

\* {"ok": false, "error": "invalid proof"}
GenericError ==
  Unparsable(PlainSeal(Transcript0, "UNKNOWN", NoUser, 0, NoPayload))
-----------------------------------------------------------------------------
\* What the values kept next to a transcript are, as functions of it.
Salt(t) == SubSeq(t, 1, 2)                          \* T2
ServerRandom(t) == t[2].payload.server_random
LicenseOf(t) == t[3].payload.license
VmDigest(t) == t[3].payload.vm
Challenge2(t) == t[4].payload.challenge2

\* Ed25519 over SIGN_CONTEXT || T1 || server_pub || server_random
Signature(t1, random) == <<t1, random>>

\* The result of the embedded bytecode program.  engine tells apart a client
\* built from the server's bytecode and one built from another release of it.
RunVm(engine, user, license, random, sid, salt) ==
  [engine |-> engine, user |-> user, license |-> license, random |-> random,
   session_id |-> sid, salt |-> salt]

Engine == {"current", "other"}

Proof1(keys, user, license, vm, random, sid, salt) ==
  <<keys, user, license, vm, random, sid, salt>>

ServerProof1(keys, t3, vm, challenge2) == <<keys, t3, vm, challenge2>>

Proof2(keys, challenge2, random, vm, salt) ==
  <<keys, challenge2, random, vm, salt>>

\* The inner layer of the flag, keyed by T5 and the seal key.
SealedInner(t5, keys) == <<t5, keys>>
-----------------------------------------------------------------------------
(***************************************************************************)
(* A decoded license: its version byte, the user whose fragment it         *)
(* carries, and whether the parity byte and the keyed checksum are those   *)
(* of its other bytes.                                                     *)
(***************************************************************************)
LicenseFields ==
  [version : Nat, owner : User, parity : BOOLEAN, checksum : BOOLEAN]

\* verifier.validate_license
ValidLicense(user, license) ==
  /\ license.version = LICENSE_VERSION
  /\ license.owner = user
  /\ license.parity
  /\ license.checksum
=============================================================================
