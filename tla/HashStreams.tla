---------------------------- MODULE HashStreams ----------------------------
(***************************************************************************)
(* The hashing the client does by hand (client/src/crypto/crypto.cpp,      *)
(* kdf.cpp): BLAKE2b, fed one byte at a time through a buffer of one block *)
(* and a counter of two words, the keystream of BLAKE2b blocks, and the    *)
(* blocks of HKDF.  The server takes the first from hashlib and has loops  *)
(* of its own for the others (server/app/crypto_box.py).                   *)
(*                                                                         *)
(* The compression function and HMAC are free terms: the state h is the    *)
(* sequence of what was compressed, begun with the parameter block.        *)
(***************************************************************************)
EXTENDS Naturals, SequencesExt

CONSTANTS
  BlockSize,   \* 128
  KeyMax,      \* 64
  HashLen,     \* bytes of a keystream block (64) and of an HMAC (32)
  WordBase,    \* 2^64, the values of a word of the byte counter
  ByteBase,    \* 256, the values of a byte
  CounterLen,  \* 8, the bytes of be64
  Calls        \* [kind, key, data, length]: the calls that are made

ASSUME HashAssumption ==
  /\ {BlockSize, KeyMax, HashLen, WordBase, ByteBase, CounterLen} \subseteq Nat \ {0}
  /\ KeyMax <= BlockSize /\ BlockSize < WordBase /\ ByteBase > 1

Byte == 0 .. ByteBase - 1

\* The powers of ByteBase.
Power[e \in Nat] == IF e = 0 THEN 1 ELSE ByteBase * Power[e - 1]

\* No message comes near 2^128 bytes, and no stream near 2^64 blocks.
ASSUME CallsAssumption ==
  \A c \in Calls :
    /\ c.kind \in {"digest", "keystream", "expand"}
    /\ c.key \in Seq(Byte) /\ c.data \in Seq(Byte) /\ c.length \in Nat
    /\ BlockSize + Len(c.key) + Len(c.data) + CounterLen < WordBase * WordBase
    /\ c.kind = "keystream" => c.length <= HashLen * Power[CounterLen]

VARIABLES
  call,      \* the call being made, from Calls
  stage,     \* where it is: "loop", "hashing", "returned" or "raised"
  st,        \* the Blake2b object: h, t, buf, buflen
  todo,      \* the bytes update() still has to take
  out,       \* what the call has put out so far
  counter,   \* blocks put out; in hkdf_expand a byte, from 1
  last       \* the previous block of hkdf_expand

vars == <<call, stage, st, todo, out, counter, last>>

Zeros(n) == [i \in 1 .. n |-> 0]

\* The bytes of a digest, or of a block of a stream.
Bytes(term, n) == [k \in 1 .. n |-> <<term, k>>]

\* be64 and to_bytes(8, "big").
be64(n) ==
  [k \in 1 .. CounterLen |-> (n \div Power[CounterLen - k]) % ByteBase]

\* Blake2b::init: digest length and key length are part of the parameters, so
\* that a short digest is no prefix of a long one.
Params(size, keylen) == <<"params", size, keylen>>

\* The key takes a block of its own, unless there is none.
KeyBlock(key) == IF key = <<>> THEN <<>> ELSE key \o Zeros(BlockSize - Len(key))
-----------------------------------------------------------------------------
(***************************************************************************)
(* BLAKE2b.                                                                *)
(***************************************************************************)
\* Blake2b::inc
inc(t, n) ==
  LET low == (t[1] + n) % WordBase
  IN <<low, IF low < n THEN (t[2] + 1) % WordBase ELSE t[2]>>

\* Blake2b::compress of the buffer, n bytes of which are new.
Compressed(s, n, final) ==
  [s EXCEPT !.t = inc(@, n),
            !.h = Append(@, [block |-> s.buf, t |-> inc(s.t, n), last |-> final]),
            !.buflen = 0]

Store(s, b) == [s EXCEPT !.buf[s.buflen + 1] = b, !.buflen = @ + 1]

\* Mutant: a block is compressed as soon as it is full.
FedEagerly(s, b) ==
  LET stored == Store(s, b)
  IN IF stored.buflen = BlockSize THEN Compressed(stored, BlockSize, FALSE)
                                  ELSE stored

\* Blake2b::update for one byte: a full buffer is kept until another byte comes,
\* for it may be the last block.
Fed(s, b) ==
  Store(IF s.buflen = BlockSize THEN Compressed(s, BlockSize, FALSE) ELSE s, b)

Padded(s) ==
  [s EXCEPT !.buf = [i \in 1 .. BlockSize |-> IF i <= s.buflen THEN @[i] ELSE 0]]

\* Blake2b::final
Finished(s) == Compressed(Padded(s), s.buflen, TRUE)

\* What a digest of the given size is a function of: h, of which the last block
\* only its first size bytes are put out.
Digest(s) == s.h

\* Begins blake2b(message, key, size).  buf is not initialised: garbage is what
\* the stack held.
Begins(message, key, size) ==
  /\ \E garbage \in {[i \in 1 .. BlockSize |-> b] : b \in Byte} :
       st' = [h |-> <<Params(size, Len(key))>>, t |-> <<0, 0>>,
              buf |-> garbage, buflen |-> 0]
  /\ todo' = KeyBlock(key) \o message
  /\ stage' = "hashing"
  /\ UNCHANGED <<call, out, counter, last>>

Update ==
  /\ stage = "hashing" /\ todo # <<>>
  /\ st' = Fed(st, Head(todo))
  /\ todo' = Tail(todo)
  /\ UNCHANGED <<call, stage, out, counter, last>>

Hashed == stage = "hashing" /\ todo = <<>> /\ st' = Finished(st)
-----------------------------------------------------------------------------
(***************************************************************************)
(* The three functions.                                                    *)
(***************************************************************************)
Init ==
  /\ call \in Calls
  /\ stage = "loop"
  /\ st = [h |-> <<>>, t |-> <<0, 0>>, buf |-> Zeros(BlockSize), buflen |-> 0]
  /\ todo = <<>>
  /\ out = <<>>
  /\ counter = IF call.kind = "expand" THEN 1 ELSE 0
  /\ last = <<>>

\* blake2b checks both lengths first.
Throws(size) == size \notin 1 .. HashLen \/ Len(call.key) > KeyMax

Refuse ==
  /\ stage = "loop"
  /\ \/ call.kind = "digest" /\ Throws(call.length)
     \/ call.kind = "keystream" /\ Len(out) < call.length /\ Throws(HashLen)
  /\ stage' = "raised"
  /\ UNCHANGED <<call, st, todo, out, counter, last>>

BeginDigest ==
  /\ call.kind = "digest" /\ stage = "loop" /\ ~Throws(call.length)
  /\ Begins(call.data, call.key, call.length)

EndDigest ==
  /\ call.kind = "digest" /\ Hashed
  /\ out' = Bytes(Digest(st'), call.length)
  /\ stage' = "returned"
  /\ UNCHANGED <<call, todo, counter, last>>

\* blake2b_ctr_keystream: data is the domain.
BeginBlock ==
  /\ call.kind = "keystream" /\ stage = "loop" /\ Len(out) < call.length
  /\ ~Throws(HashLen)
  /\ Begins(call.data \o be64(counter), call.key, HashLen)

EndBlock ==
  /\ call.kind = "keystream" /\ Hashed
  /\ out' = out \o Bytes(Digest(st'), HashLen)
  /\ counter' = counter + 1
  /\ stage' = "loop"
  /\ UNCHANGED <<call, todo, last>>

\* Mutant: the blocks are not chained.
BlockUnchained == <<"hmac", <<>>, counter>>

\* HMAC(prk, t || info || counter); a call has one prk and one info.
Block == <<"hmac", last, counter>>

\* hkdf_expand
ExpandBlock ==
  /\ call.kind = "expand" /\ stage = "loop" /\ Len(out) < call.length
  /\ last' = Block
  /\ out' = out \o Bytes(Block, HashLen)
  /\ counter' = (counter + 1) % ByteBase
  /\ UNCHANGED <<call, stage, st, todo>>

\* out.resize(length)
Resize ==
  /\ call.kind # "digest" /\ stage = "loop" /\ Len(out) >= call.length
  /\ out' = SubSeq(out, 1, call.length)
  /\ stage' = "returned"
  /\ UNCHANGED <<call, st, todo, counter, last>>

Next ==
  \/ Refuse \/ BeginDigest \/ Update \/ EndDigest
  \/ BeginBlock \/ EndBlock \/ ExpandBlock \/ Resize

Spec == Init /\ [][Next]_vars
-----------------------------------------------------------------------------
(***************************************************************************)
(* The server's side: hashlib.blake2b, which is RFC 7693 on a whole        *)
(* message, and the loops of crypto_box.py.                                *)
(***************************************************************************)
BlocksOf(length, size) == (length + size - 1) \div size

hashlib(message, key, size) ==
  LET whole == KeyBlock(key) \o message
      n     == Max({1, BlocksOf(Len(whole), BlockSize)})
      full  == whole \o Zeros(n * BlockSize - Len(whole))
      Count(i) == IF i < n THEN i * BlockSize ELSE Len(whole)
  IN <<Params(size, Len(key))>> \o
     [i \in 1 .. n |->
        [block |-> SubSeq(full, (i - 1) * BlockSize + 1, i * BlockSize),
         t     |-> <<Count(i) % WordBase, Count(i) \div WordBase>>,
         last  |-> i = n]]

ServerKeystream(key, domain, length) ==
  SubSeq(FlattenSeq([i \in 1 .. BlocksOf(length, HashLen) |->
                       Bytes(hashlib(domain \o be64(i - 1), key, HashLen), HashLen)]),
         1, length)

\* bytes([counter]) raises at ByteBase, so no more blocks than that are made.
ServerExpands(length) == BlocksOf(length, HashLen) < ByteBase

\* T(i) of RFC 5869
T[i \in Nat] == IF i = 0 THEN <<>> ELSE <<"hmac", T[i - 1], i>>

ServerExpand(length) ==
  SubSeq(FlattenSeq([i \in 1 .. BlocksOf(length, HashLen) |-> Bytes(T[i], HashLen)]),
         1, length)
-----------------------------------------------------------------------------
\* Client and server "compute byte-identical results" (crypto_box.py:4): for every
\* split of a message into blocks, with or without a key, whatever the buffer
\* held before, the client's BLAKE2b compresses what RFC 7693 says.
DigestsAgree ==
  call.kind = "digest" /\ stage = "returned" =>
    out = Bytes(hashlib(call.data, call.key, call.length), call.length)

\* The same for keystreams and derived keys of every length the server derives,
\* and no byte of a stream is put out twice.
StreamsAgree ==
  stage = "returned" =>
    /\ call.kind = "keystream" =>
         out = ServerKeystream(call.key, call.data, call.length)
    /\ call.kind = "expand" /\ ServerExpands(call.length) =>
         out = ServerExpand(call.length)
    /\ \A i, j \in DOMAIN out : out[i] = out[j] => i = j
=============================================================================
