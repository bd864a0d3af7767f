-------------------------- MODULE HashStreamsProofs --------------------------
(***************************************************************************)
(* The client's hashing agrees with the server's, for every message, key,  *)
(* size, domain and length, and for every size of a block, a word, a byte  *)
(* and a counter that HashAssumption allows.                               *)
(*                                                                         *)
(* Blake2b: after every byte the object Holds some n blocks of the message *)
(* and has what follows them in its buffer, of which more than nothing     *)
(* once a block was compressed (Within).  That is why the last block is    *)
(* still in the buffer when final() comes, and why final() compresses what *)
(* RFC 7693 does (FinishedIsHashlib).  Streams: what was put out is some   *)
(* number of whole blocks, each the server's (StreamHeld), cut at the end. *)
(***************************************************************************)
EXTENDS HashStreams, DataTheorems

\* Blake2b::inc adds to a counter kept in two words, carry and all, as long as
\* the sum fits in them.
LEMMA IncCounts ==
  ASSUME NEW c \in Nat, NEW n \in Nat, n < WordBase, c + n < WordBase * WordBase
  PROVE  inc(<<c % WordBase, c \div WordBase>>, n) =
           <<(c + n) % WordBase, (c + n) \div WordBase>>
  <1>0. WordBase \in Nat \ {0}
    BY HashAssumption
  <1> DEFINE q == c \div WordBase
             r == c % WordBase
  <1>1. q \in Nat /\ r \in 0 .. WordBase - 1 /\ c = q * WordBase + r
    BY <1>0, DivMod
  <1>2. inc(<<r, q>>, n) = <<(r + n) % WordBase,
                             IF (r + n) % WordBase < n THEN (q + 1) % WordBase ELSE q>>
    BY DEF inc
  <1> HIDE DEF q, r
  <1>3. CASE r + n < WordBase
    <2>1. (c + n) \div WordBase = q /\ (c + n) % WordBase = r + n
      <3>1. r + n \in 0 .. WordBase - 1
        BY <1>1, <1>3, <1>0
      <3>2. c + n = q * WordBase + (r + n)
        BY <1>1, <1>0
      <3> QED BY <1>0, <1>1, <3>1, <3>2, DivModUnique
    <2>2. (r + n) % WordBase = r + n
      <3>1. r + n = 0 * WordBase + (r + n)
        BY <1>0, <1>1
      <3> QED BY <1>0, <1>1, <1>3, <3>1, DivModUnique
    <2> QED BY <1>1, <1>2, <2>1, <2>2 DEF q, r
  <1>4. CASE r + n >= WordBase
    <2> DEFINE s == r + n - WordBase
    <2>1. s \in 0 .. WordBase - 1 /\ s < n
      BY <1>0, <1>1, <1>4
    <2>2. (c + n) \div WordBase = q + 1 /\ (c + n) % WordBase = s
      <3>2. c + n = (q + 1) * WordBase + s
        BY <1>1, <1>0
      <3> HIDE DEF s
      <3> QED BY <1>0, <1>1, <2>1, <3>2, DivModUnique
    <2>3. (r + n) % WordBase = s
      <3>1. r + n = 1 * WordBase + s
        BY <1>0, <1>1
      <3> HIDE DEF s
      <3> QED BY <1>0, <1>1, <2>1, <3>1, DivModUnique
    <2>4. (q + 1) % WordBase = q + 1
      <3>1. q + 1 < WordBase
        <4>1. (q + 1) * WordBase <= c + n
          BY <1>0, <1>1, <1>4
        <4>2. CASE q + 1 >= WordBase
          <5>1. (q + 1) * WordBase >= WordBase * WordBase
            BY <4>2, <1>0, <1>1
          <5> QED BY <5>1, <4>1, <1>0, <1>1
        <4> QED BY <4>2, <1>0, <1>1
      <3>2. q + 1 = 0 * WordBase + (q + 1)
        BY <1>0, <1>1
      <3> QED BY <1>0, <1>1, <3>1, <3>2, DivModUnique
    <2> QED BY <1>1, <1>2, <2>1, <2>2, <2>3, <2>4 DEF q, r
  <1> QED BY <1>0, <1>1, <1>3, <1>4

\* The number of a block from the length of what it ends.
LEMMA LastBlock ==
  ASSUME NEW n \in Nat, NEW b \in 0 .. BlockSize, n > 0 => b > 0
  PROVE  Max({1, BlocksOf(n * BlockSize + b, BlockSize)}) = n + 1
  <1>0. BlockSize \in Nat \ {0}
    BY HashAssumption
  <1>1. CASE b = 0
    <2>1. n = 0 /\ BlocksOf(n * BlockSize + b, BlockSize) = (BlockSize - 1) \div BlockSize
      BY <1>0, <1>1 DEF BlocksOf
    <2>2. (0 * BlockSize + (BlockSize - 1)) \div BlockSize = 0
      BY <1>0, DivModUnique
    <2>3. BlocksOf(n * BlockSize + b, BlockSize) = 0
      BY <2>1, <2>2, <1>0
    <2> QED BY <2>1, <2>3 DEF Max
  <1>2. CASE b # 0
    <2>1. n * BlockSize + b + BlockSize - 1 = (n + 1) * BlockSize + (b - 1)
      BY <1>0
    <2>2. b - 1 \in 0 .. BlockSize - 1
      BY <1>0, <1>2
    <2>3. BlocksOf(n * BlockSize + b, BlockSize) = n + 1
      BY <1>0, <2>1, <2>2, DivModUnique DEF BlocksOf
    <2> QED BY <2>3 DEF Max
  <1> QED BY <1>1, <1>2
-----------------------------------------------------------------------------
\* Where the n-th block ends.
At(n) == n * BlockSize

\* Blocks end where they should.
LEMMA AtFacts ==
  /\ BlockSize \in Nat \ {0} /\ WordBase \in Nat \ {0} /\ BlockSize < WordBase
  /\ At(0) = 0
  /\ \A n \in Nat : At(n) \in Nat /\ At(n + 1) = At(n) + BlockSize
  BY HashAssumption DEF At

\* What RFC 7693 compresses for the i-th block of w, which is not the last.
Chunk(w, i) ==
  [block |-> SubSeq(w, At(i - 1) + 1, At(i)),
   t     |-> <<At(i) % WordBase, At(i) \div WordBase>>,
   last  |-> FALSE]

\* The state after parameters p and the first n blocks of w.
Compressions(w, p, n) == [i \in 1 .. n + 1 |-> IF i = 1 THEN p ELSE Chunk(w, i - 1)]

IsObject(s) ==
  DOMAIN s = {"h", "t", "buf", "buflen"} /\ s = [x \in DOMAIN s |-> s[x]]

\* The object holds n blocks of w, and in its buffer what follows them.
Holds(s, w, p, n) ==
  /\ IsObject(s)
  /\ s.buflen \in 0 .. BlockSize /\ At(n) + s.buflen <= Len(w)
  /\ s.h = Compressions(w, p, n)
  /\ s.t = <<At(n) % WordBase, At(n) \div WordBase>>
  /\ s.buf = [i \in 1 .. BlockSize |-> s.buf[i]]
  /\ \A i \in 1 .. s.buflen : s.buf[i] = w[At(n) + i]

\* The object after one more byte, and after a block.
Stored(s, b) ==
  [h |-> s.h, t |-> s.t, buf |-> [s.buf EXCEPT ![s.buflen + 1] = b], buflen |-> s.buflen + 1]

\* Store, field by field.
LEMMA StoreIs ==
  ASSUME NEW s, IsObject(s), NEW b
  PROVE  Store(s, b) = Stored(s, b)
  <1>1. DOMAIN s = {"h", "t", "buf", "buflen"}
    BY DEF IsObject
  <1>2. Store(s, b) = [x \in DOMAIN s |->
                        IF x = "buf" THEN [s.buf EXCEPT ![s.buflen + 1] = b]
                        ELSE IF x = "buflen" THEN s.buflen + 1 ELSE s[x]]
    BY <1>1 DEF Store
  <1> QED BY <1>1, <1>2 DEF Stored

Record(s, n, final) == [block |-> s.buf, t |-> inc(s.t, n), last |-> final]

\* Compressed, field by field.
LEMMA CompressedIs ==
  ASSUME NEW s, IsObject(s),
         NEW n, NEW final
  PROVE  Compressed(s, n, final) =
           [h |-> Append(s.h, Record(s, n, final)), t |-> inc(s.t, n), buf |-> s.buf,
            buflen |-> 0]
  <1>1. DOMAIN s = {"h", "t", "buf", "buflen"}
    BY DEF IsObject
  <1>2. Compressed(s, n, final) =
          [x \in DOMAIN s |-> IF x = "h" THEN Append(s.h, Record(s, n, final))
                              ELSE IF x = "t" THEN inc(s.t, n)
                              ELSE IF x = "buflen" THEN 0 ELSE s[x]]
    BY <1>1 DEF Compressed, Record
  <1> QED BY <1>1, <1>2

\* A byte stored in a buffer that has room is the next byte of the message.
LEMMA StoreHolds ==
  ASSUME NEW s, NEW w, NEW p, NEW n \in Nat, Len(w) \in Nat, Holds(s, w, p, n),
         s.buflen < BlockSize, At(n) + s.buflen < Len(w), NEW b, b = w[At(n) + s.buflen + 1]
  PROVE  Holds(Store(s, b), w, p, n) /\ Store(s, b).buflen = s.buflen + 1
  <1>1. s.buflen \in 0 .. BlockSize /\ Store(s, b) = Stored(s, b)
    BY StoreIs DEF Holds
  <1>2. s.buflen \in 0 .. BlockSize - 1 /\ At(n) \in Nat /\ BlockSize \in Nat \ {0}
    <2>1. At(n) \in Nat /\ BlockSize \in Nat \ {0}
      BY AtFacts
    <2> QED BY <1>1, <2>1
  <1> DEFINE r == Stored(s, b)
  <1>3. /\ r.h = s.h /\ r.t = s.t /\ r.buflen = s.buflen + 1
        /\ r.buf = [s.buf EXCEPT ![s.buflen + 1] = b]
        /\ IsObject(r)
    BY DEF Stored, IsObject
  <1> HIDE DEF r
  <1>4. s.buf = [i \in 1 .. BlockSize |-> s.buf[i]] /\ s.buflen + 1 \in 1 .. BlockSize
    BY <1>2 DEF Holds
  <1>5. /\ r.buf = [i \in 1 .. BlockSize |-> r.buf[i]] /\ r.buf[s.buflen + 1] = b
        /\ \A i \in 1 .. s.buflen : r.buf[i] = s.buf[i]
    <2> DEFINE k == s.buflen + 1
    <2>1. \A i \in 1 .. s.buflen : i \in 1 .. BlockSize /\ i # k
      BY <1>2
    <2>2. k \in 1 .. BlockSize /\ r.buf = [s.buf EXCEPT ![k] = b]
      BY <1>3, <1>4
    <2> HIDE DEF k
    <2>3. r.buf = [i \in 1 .. BlockSize |-> IF i = k THEN b ELSE s.buf[i]]
      BY <2>2, <1>4
    <2> QED BY <2>1, <2>2, <2>3 DEF k
  <1>6. \A i \in 1 .. s.buflen : s.buf[i] = w[At(n) + i]
    BY DEF Holds
  <1>7. \A i \in 1 .. s.buflen + 1 : r.buf[i] = w[At(n) + i]
    <2> SUFFICES ASSUME NEW i \in 1 .. s.buflen + 1 PROVE r.buf[i] = w[At(n) + i]
      OBVIOUS
    <2>1. CASE i = s.buflen + 1
      <3>1. At(n) + i = At(n) + s.buflen + 1
        BY <1>2, <2>1
      <3> QED BY <2>1, <3>1, <1>5
    <2>2. CASE i # s.buflen + 1
      <3>1. i \in 1 .. s.buflen
        BY <1>2, <2>2
      <3> QED BY <3>1, <1>5, <1>6
    <2> QED BY <2>1, <2>2
  <1>8. r.buflen \in 0 .. BlockSize /\ At(n) + r.buflen <= Len(w)
    BY <1>2, <1>3, SMTT(30)
  <1>9. s.h = Compressions(w, p, n) /\ s.t = <<At(n) % WordBase, At(n) \div WordBase>>
    BY DEF Holds
  <1>10. Holds(r, w, p, n)
    BY <1>3, <1>5, <1>7, <1>8, <1>9 DEF Holds
  <1> QED BY <1>1, <1>3, <1>10 DEF r

\* The full buffer is the next block.
LEMMA BufferIsBlock ==
  ASSUME NEW s, NEW w, NEW p, NEW n \in Nat, w = [i \in 1 .. Len(w) |-> w[i]],
         Len(w) \in Nat, Holds(s, w, p, n), s.buflen = BlockSize
  PROVE  s.buf = SubSeq(w, At(n) + 1, At(n + 1))
  <1> DEFINE m == At(n)
             e == At(n + 1)
  <1>1. m \in Nat /\ e = m + BlockSize /\ e \in Nat /\ BlockSize \in Nat \ {0}
    BY AtFacts
  <1>2. m + BlockSize <= Len(w)
    BY DEF Holds
  <1>3. /\ s.buf = [i \in 1 .. BlockSize |-> s.buf[i]]
        /\ \A i \in 1 .. BlockSize : s.buf[i] = w[m + i]
    BY DEF Holds
  <1> HIDE DEF m, e
  <1>4. m + 1 \in Nat /\ m + 1 >= 1 /\ e <= Len(w) /\ m + 1 <= e + 1
    BY <1>1, <1>2
  <1>5. SubSeq(w, m + 1, e) = [i \in 1 .. e - (m + 1) + 1 |-> w[(m + 1) + i - 1]]
    <2>1. PICK a \in Nat : a = m + 1
      BY <1>4
    <2>2. SubSeq(w, a, e) = [i \in 1 .. e - a + 1 |-> w[a + i - 1]]
      BY <1>1, <1>4, <2>1, SubSeqFunction, SMTT(30)
    <2> QED BY <2>1, <2>2
  <1>6. e - (m + 1) + 1 = BlockSize /\ \A i \in 1 .. BlockSize : (m + 1) + i - 1 = m + i
    BY <1>1
  <1>7. SubSeq(w, m + 1, e) = s.buf
    BY <1>3, <1>5, <1>6
  <1> QED BY <1>7 DEF m, e

\* Compressing a full buffer compresses the next block of the message.
LEMMA CompressHolds ==
  ASSUME NEW s, NEW w, NEW p, NEW n \in Nat, w = [i \in 1 .. Len(w) |-> w[i]],
         Len(w) \in Nat, Len(w) < WordBase * WordBase, Holds(s, w, p, n),
         s.buflen = BlockSize
  PROVE  /\ Holds(Compressed(s, BlockSize, FALSE), w, p, n + 1)
         /\ Compressed(s, BlockSize, FALSE).buflen = 0
  <1> DEFINE t == inc(s.t, BlockSize)
             x == Record(s, BlockSize, FALSE)
             r == Compressed(s, BlockSize, FALSE)
  <1>0. /\ At(n) \in Nat /\ At(n + 1) = At(n) + BlockSize /\ At(n) + BlockSize <= Len(w)
        /\ BlockSize \in Nat \ {0} /\ BlockSize < WordBase
    <2>1. At(n) + s.buflen <= Len(w)
      BY DEF Holds
    <2> QED BY <2>1, AtFacts
  <1>1. r = [h |-> Append(s.h, x), t |-> t, buf |-> s.buf, buflen |-> 0]
    <2>1. IsObject(s)
      BY DEF Holds
    <2> QED BY <2>1, CompressedIs
  <1> HIDE DEF r
  <1>2. t = <<At(n + 1) % WordBase, At(n + 1) \div WordBase>>
    <2>1. s.t = <<At(n) % WordBase, At(n) \div WordBase>>
      BY DEF Holds
    <2>2. At(n) + BlockSize < WordBase * WordBase
      <3> DEFINE q == WordBase * WordBase
      <3>1. q \in Nat /\ Len(w) < q
        BY AtFacts
      <3> HIDE DEF q
      <3> QED BY <1>0, <3>1 DEF q
    <2> QED BY <1>0, <2>1, <2>2, IncCounts
  <1>4. x = Chunk(w, n + 1)
    <2>1. (n + 1) - 1 = n
      OBVIOUS
    <2>2. x = [block |-> s.buf, t |-> t, last |-> FALSE]
      BY DEF Record
    <2> HIDE DEF x, t
    <2> QED BY <1>2, <2>1, <2>2, BufferIsBlock DEF Chunk
  <1> HIDE DEF x, t
  <1>5. Append(s.h, x) = Compressions(w, p, n + 1)
    <2>0. s.h = Compressions(w, p, n)
      BY DEF Holds
    <2>1. Append(s.h, x) = [i \in 1 .. (n + 1) + 1 |-> IF i = (n + 1) + 1 THEN x ELSE s.h[i]]
      <3>1. s.h = [i \in 1 .. n + 1 |-> s.h[i]]
        BY <2>0 DEF Compressions
      <3> QED BY <3>1, AppendFunction
    <2>2. ASSUME NEW i \in 1 .. (n + 1) + 1
          PROVE  (IF i = (n + 1) + 1 THEN x ELSE s.h[i]) =
                   IF i = 1 THEN p ELSE Chunk(w, i - 1)
      <3>1. CASE i = (n + 1) + 1
        BY <3>1, <1>4
      <3>2. CASE i # (n + 1) + 1
        BY <3>2, <2>0 DEF Compressions
      <3> QED BY <3>1, <3>2
    <2> QED BY <2>1, <2>2 DEF Compressions
  <1>6. /\ r.h = Compressions(w, p, n + 1) /\ r.t = t /\ r.buflen = 0 /\ r.buf = s.buf
        /\ IsObject(r)
    BY <1>1, <1>5 DEF IsObject
  <1>7. s.buf = [i \in 1 .. BlockSize |-> s.buf[i]]
    BY DEF Holds
  <1>8. At(n + 1) + 0 <= Len(w)
    BY <1>0
  <1>9. Holds(r, w, p, n + 1)
    BY <1>0, <1>2, <1>6, <1>7, <1>8 DEF Holds
  <1> QED BY <1>6, <1>9 DEF r
-----------------------------------------------------------------------------
\* Blocks end one after the other.
LEMMA AtGrows == ASSUME NEW i \in Nat, NEW n \in Nat, i <= n PROVE At(i) <= At(n)
  BY HashAssumption DEF At

\* w padded to n blocks, and what RFC 7693 compresses for the i-th of them.
Full(w, n) == w \o Zeros(At(n) - Len(w))

\* The bytes counted when the i-th of n blocks of w is compressed.
Counted(w, n, i) == IF i < n THEN At(i) ELSE Len(w)

RfcRecord(w, n, i) ==
  [block |-> SubSeq(Full(w, n), At(i - 1) + 1, At(i)),
   t     |-> <<Counted(w, n, i) % WordBase, Counted(w, n, i) \div WordBase>>,
   last  |-> i = n]

\* All of them.
RfcRecords(w, n) == [i \in 1 .. n |-> RfcRecord(w, n, i)]

\* hashlib, record by record.
LEMMA HashlibIs ==
  ASSUME NEW message, NEW key, NEW size
  PROVE  LET w == KeyBlock(key) \o message
         IN  hashlib(message, key, size) =
               <<Params(size, Len(key))>> \o RfcRecords(w, Max({1, BlocksOf(Len(w), BlockSize)}))
  BY DEF hashlib, RfcRecords, RfcRecord, Full, Counted, At

\* A block of the padded message within the message.
LEMMA FullWithin ==
  ASSUME NEW w, Len(w) \in Nat, w = [i \in 1 .. Len(w) |-> w[i]],
         NEW n \in Nat, At(n) <= Len(w), Len(w) <= At(n + 1), NEW i \in 1 .. n
  PROVE  SubSeq(Full(w, n + 1), At(i - 1) + 1, At(i)) = SubSeq(w, At(i - 1) + 1, At(i))
  <1> DEFINE a == At(i - 1) + 1
             e == At(i)
             k == At(n + 1) - Len(w)
             f == Full(w, n + 1)
  <1>1. a \in Nat /\ e \in Nat /\ a >= 1 /\ e = a - 1 + BlockSize /\ BlockSize \in Nat
    <2>1. PICK h \in Nat : h = i - 1
      OBVIOUS
    <2>2. h + 1 = i
      BY <2>1
    <2>3. At(h) \in Nat /\ At(h + 1) = At(h) + BlockSize /\ BlockSize \in Nat
      BY AtFacts
    <2> QED BY <2>1, <2>2, <2>3
  <1>2. e <= Len(w)
    <2>1. At(i) <= At(n)
      BY AtGrows
    <2> QED BY <2>1, <1>1, AtFacts
  <1>3. k \in Nat /\ Zeros(k) = [j \in 1 .. k |-> Zeros(k)[j]]
    BY AtFacts DEF Zeros
  <1>4. f = [j \in 1 .. Len(w) + k |-> IF j <= Len(w) THEN w[j] ELSE Zeros(k)[j - Len(w)]]
    <2> HIDE DEF k
    <2>1. f = w \o Zeros(k)
      BY DEF Full, k
    <2> HIDE DEF f
    <2> QED BY <1>3, <2>1, ConcatFunction
  <1> HIDE DEF a, e, k, f
  <1>5. f = [j \in 1 .. Len(w) + k |-> f[j]] /\ Len(w) + k \in Nat
    BY <1>3, <1>4
  <1>10. a \in Nat /\ e \in Nat /\ a >= 1 /\ a <= e + 1 /\ e <= Len(w) + k
    BY <1>1, <1>2, <1>3
  <1>6. SubSeq(f, a, e) = Slice(f, a, e)
    BY <1>5, <1>10, SubSeqFunction, ZenonT(60)
  <1>7. SubSeq(w, a, e) = Slice(w, a, e)
    BY <1>2, <1>10, SubSeqFunction, SMTT(30)
  <1>8. \A j \in 1 .. e - a + 1 : f[a + j - 1] = w[a + j - 1]
    <2> SUFFICES ASSUME NEW j \in 1 .. e - a + 1 PROVE f[a + j - 1] = w[a + j - 1]
      OBVIOUS
    <2>1. a + j - 1 \in 1 .. Len(w)
      BY <1>1, <1>2, SMTT(30)
    <2> QED BY <1>3, <1>4, <2>1
  <1>9. SubSeq(f, a, e) = SubSeq(w, a, e)
    BY <1>6, <1>7, <1>8 DEF Slice
  <1> QED BY <1>9 DEF a, e, f

\* The last block, padded.
LastOf(w, n) ==
  [j \in 1 .. BlockSize |-> IF j <= Len(w) - At(n) THEN w[At(n) + j] ELSE 0]

\* The last block: what is left of the message, and zeros.
LEMMA FullLast ==
  ASSUME NEW w, Len(w) \in Nat, w = [i \in 1 .. Len(w) |-> w[i]],
         NEW n \in Nat, At(n) <= Len(w), Len(w) <= At(n + 1)
  PROVE  SubSeq(Full(w, n + 1), At(n) + 1, At(n + 1)) = LastOf(w, n)
  <1> DEFINE a == At(n) + 1
             e == At(n + 1)
             k == At(n + 1) - Len(w)
             f == Full(w, n + 1)
  <1>1. a \in Nat /\ e \in Nat /\ a >= 1 /\ e = a - 1 + BlockSize /\ BlockSize \in Nat
    BY AtFacts
  <1>3. k \in Nat /\ Len(w) + k = e /\ Zeros(k) = [j \in 1 .. k |-> Zeros(k)[j]]
    BY AtFacts DEF Zeros
  <1>4. f = [j \in 1 .. Len(w) + k |-> IF j <= Len(w) THEN w[j] ELSE Zeros(k)[j - Len(w)]]
    <2> HIDE DEF k
    <2>1. f = w \o Zeros(k)
      BY DEF Full, k
    <2> HIDE DEF f
    <2> QED BY <1>3, <2>1, ConcatFunction
  <1>2. At(n) = a - 1 /\ a - 1 <= Len(w)
    BY AtFacts
  <1> HIDE DEF a, e, k, f
  <1>5. f = [j \in 1 .. e |-> f[j]]
    BY <1>3, <1>4
  <1>6. SubSeq(f, a, e) = Slice(f, a, e)
    <2>1. a \in Nat /\ e \in Nat /\ a >= 1 /\ a <= e + 1 /\ e <= e
      BY <1>1
    <2> QED BY <1>5, <2>1, SubSeqFunction, ZenonT(60)
  <1>7. e - a + 1 = BlockSize
    BY <1>1
  <1>8. ASSUME NEW j \in 1 .. BlockSize
        PROVE  f[a + j - 1] = IF j <= Len(w) - (a - 1) THEN w[(a - 1) + j] ELSE 0
    <2>1. a + j - 1 \in 1 .. Len(w) + k /\ a + j - 1 = (a - 1) + j
      BY <1>1, <1>3
    <2>2. CASE j <= Len(w) - (a - 1)
      <3>1. a + j - 1 <= Len(w)
        BY <2>2, <1>1, <1>2
      <3> QED BY <1>4, <2>1, <2>2, <3>1
    <2>3. CASE ~ (j <= Len(w) - (a - 1))
      <3>1. ~ (a + j - 1 <= Len(w)) /\ (a + j - 1) - Len(w) \in 1 .. k
        BY <2>3, <1>1, <1>2, <1>3, SMTT(30)
      <3> QED BY <1>4, <2>1, <2>3, <3>1 DEF Zeros
    <2> QED BY <2>2, <2>3
  <1>9. SubSeq(f, a, e) =
          [j \in 1 .. BlockSize |-> IF j <= Len(w) - (a - 1) THEN w[(a - 1) + j] ELSE 0]
    BY <1>6, <1>7, <1>8 DEF Slice
  <1> QED BY <1>2, <1>9 DEF a, e, f, LastOf

\* final() pads the buffer.
LEMMA PaddedIs ==
  ASSUME NEW s, IsObject(s)
  PROVE  /\ IsObject(Padded(s))
         /\ Padded(s).h = s.h /\ Padded(s).t = s.t /\ Padded(s).buflen = s.buflen
         /\ Padded(s).buf = [i \in 1 .. BlockSize |-> IF i <= s.buflen THEN s.buf[i] ELSE 0]
  <1>1. DOMAIN s = {"h", "t", "buf", "buflen"}
    BY DEF IsObject
  <1>2. Padded(s) = [x \in DOMAIN s |->
          IF x = "buf" THEN [i \in 1 .. BlockSize |-> IF i <= s.buflen THEN s.buf[i] ELSE 0]
          ELSE s[x]]
    BY <1>1 DEF Padded
  <1> QED BY <1>1, <1>2 DEF IsObject

\* A message taken in to its end is hashed as RFC 7693 hashes it.
LEMMA FinishedIsHashlib ==
  ASSUME NEW message, NEW key, NEW size, NEW s, NEW n \in Nat, NEW w,
         w = KeyBlock(key) \o message, Len(w) \in Nat, w = [i \in 1 .. Len(w) |-> w[i]],
         Len(w) < WordBase * WordBase, Holds(s, w, Params(size, Len(key)), n),
         n > 0 => s.buflen > 0, At(n) + s.buflen = Len(w)
  PROVE  Finished(s).h = hashlib(message, key, size)
  <1> DEFINE p == Params(size, Len(key))
             b == s.buflen
             x == Record(Padded(s), b, TRUE)
  <1>1. Max({1, BlocksOf(Len(w), BlockSize)}) = n + 1
    <2>1. b \in 0 .. BlockSize
      BY DEF Holds
    <2> HIDE DEF b
    <2>2. Max({1, BlocksOf(n * BlockSize + b, BlockSize)}) = n + 1
      BY <2>1, LastBlock DEF b
    <2> QED BY <2>2 DEF At, b
  <1>2. hashlib(message, key, size) = <<p>> \o RfcRecords(w, n + 1)
    BY <1>1, HashlibIs
  <1>3. Finished(s).h = Append(s.h, x)
    <2>1. IsObject(s)
      BY DEF Holds
    <2>2. IsObject(Padded(s)) /\ Padded(s).h = s.h
      BY <2>1, PaddedIs
    <2>3. Compressed(Padded(s), b, TRUE) =
            [h |-> Append(Padded(s).h, x), t |-> inc(Padded(s).t, b), buf |-> Padded(s).buf,
             buflen |-> 0]
      BY <2>2, CompressedIs
    <2>4. Finished(s) = Compressed(Padded(s), b, TRUE)
      BY DEF Finished
    <2>5. Compressed(Padded(s), b, TRUE).h = Append(Padded(s).h, x)
      <3> DEFINE c == Compressed(Padded(s), b, TRUE)
                 a == Append(Padded(s).h, x)
                 t == inc(Padded(s).t, b)
      <3>1. c = [h |-> a, t |-> t, buf |-> Padded(s).buf, buflen |-> 0]
        BY <2>3
      <3> HIDE DEF a, t, c
      <3>2. c.h = a
        BY <3>1
      <3> QED BY <3>2 DEF c, a
    <2> HIDE DEF x
    <2> QED BY <2>2, <2>4, <2>5
  <1> HIDE DEF p
  <1>4. /\ At(n) \in Nat /\ At(n) <= Len(w) /\ Len(w) <= At(n + 1) /\ b = Len(w) - At(n)
        /\ b \in 0 .. BlockSize /\ b < WordBase
    <2>1. b \in 0 .. BlockSize
      BY DEF Holds
    <2>2. At(n) \in Nat /\ At(n + 1) = At(n) + BlockSize
      BY AtFacts
    <2>3. BlockSize \in Nat /\ WordBase \in Nat /\ BlockSize < WordBase
      BY AtFacts
    <2>4. At(n) + b = Len(w)
      OBVIOUS
    <2> HIDE DEF b
    <2> QED BY <2>1, <2>2, <2>3, <2>4
  <1>5. x = RfcRecord(w, n + 1, n + 1)
    <2>1. x = [block |-> Padded(s).buf, t |-> inc(Padded(s).t, b), last |-> TRUE]
      BY DEF Record
    <2>2. IsObject(s) /\ s.t = <<At(n) % WordBase, At(n) \div WordBase>>
          /\ \A i \in 1 .. b : s.buf[i] = w[At(n) + i]
      BY DEF Holds
    <2>3. inc(Padded(s).t, b) = <<Len(w) % WordBase, Len(w) \div WordBase>>
      <3>1. Padded(s).t = <<At(n) % WordBase, At(n) \div WordBase>>
        BY <2>2, PaddedIs
      <3>2. At(n) + b = Len(w) /\ At(n) + b < WordBase * WordBase /\ b \in Nat
        BY AtFacts, <1>4
      <3> QED BY <1>4, <3>1, <3>2, IncCounts
    <2>4. Padded(s).buf = SubSeq(Full(w, n + 1), At(n) + 1, At(n + 1))
      <3>1. Padded(s).buf = [i \in 1 .. BlockSize |-> IF i <= b THEN s.buf[i] ELSE 0]
        BY <2>2, PaddedIs
      <3>2. \A i \in 1 .. BlockSize : (IF i <= b THEN s.buf[i] ELSE 0) =
                                     IF i <= Len(w) - At(n) THEN w[At(n) + i] ELSE 0
        BY <1>4, <2>2, SMTT(30)
      <3>3. Padded(s).buf = LastOf(w, n)
        BY <3>1, <3>2 DEF LastOf
      <3> QED BY <1>4, <3>3, FullLast
    <2>5. (n + 1) - 1 = n /\ ~ (n + 1 < n + 1)
      OBVIOUS
    <2>6. Counted(w, n + 1, n + 1) = Len(w)
      BY <2>5 DEF Counted
    <2> HIDE DEF x
    <2> QED BY <2>1, <2>3, <2>4, <2>5, <2>6 DEF RfcRecord
  <1>6. ASSUME NEW i \in 1 .. n PROVE Chunk(w, i) = RfcRecord(w, n + 1, i)
    <2>1. i < n + 1 /\ i # n + 1
      OBVIOUS
    <2>2. Counted(w, n + 1, i) = At(i)
      BY <2>1 DEF Counted
    <2>3. SubSeq(Full(w, n + 1), At(i - 1) + 1, At(i)) = SubSeq(w, At(i - 1) + 1, At(i))
      BY <1>4, FullWithin
    <2> QED BY <2>1, <2>2, <2>3 DEF Chunk, RfcRecord
  <1> HIDE DEF x, b
  <1>7. s.h = Compressions(w, p, n)
    BY DEF Holds, p
  <1>8. Append(s.h, x) = [i \in 1 .. (n + 1) + 1 |-> IF i = (n + 1) + 1 THEN x ELSE s.h[i]]
    <2>1. s.h = [i \in 1 .. n + 1 |-> s.h[i]]
      BY <1>7 DEF Compressions
    <2> QED BY <2>1, AppendFunction
  <1>9. <<p>> \o RfcRecords(w, n + 1) =
          [i \in 1 .. (n + 1) + 1 |-> IF i <= 1 THEN <<p>>[i] ELSE RfcRecords(w, n + 1)[i - 1]]
    <2>1. <<p>> = [i \in 1 .. 1 |-> <<p>>[i]]
      OBVIOUS
    <2>2. RfcRecords(w, n + 1) = [i \in 1 .. n + 1 |-> RfcRecords(w, n + 1)[i]]
      BY DEF RfcRecords
    <2>3. 1 + (n + 1) = (n + 1) + 1
      OBVIOUS
    <2>4. <<p>> \o RfcRecords(w, n + 1) =
            [i \in 1 .. 1 + (n + 1) |-> IF i <= 1 THEN <<p>>[i]
                                        ELSE RfcRecords(w, n + 1)[i - 1]]
      BY <2>1, <2>2, ConcatFunction
    <2> QED BY <2>3, <2>4
  <1>10. ASSUME NEW i \in 1 .. (n + 1) + 1
         PROVE  (IF i = (n + 1) + 1 THEN x ELSE s.h[i]) =
                  IF i <= 1 THEN <<p>>[i] ELSE RfcRecords(w, n + 1)[i - 1]
    <2>1. CASE i = 1
      <3>1. s.h[1] = p /\ <<p>>[1] = p /\ 1 # (n + 1) + 1
        BY <1>7 DEF Compressions
      <3> QED BY <2>1, <3>1
    <2>2. CASE i = (n + 1) + 1
      <3>1. ~ (i <= 1) /\ i - 1 = n + 1 /\ n + 1 \in 1 .. n + 1
        BY <2>2
      <3>2. RfcRecords(w, n + 1)[i - 1] = RfcRecord(w, n + 1, n + 1)
        BY <3>1 DEF RfcRecords
      <3> QED BY <2>2, <3>1, <3>2, <1>5
    <2>3. CASE i # 1 /\ i # (n + 1) + 1
      <3>1. i - 1 \in 1 .. n /\ i - 1 \in 1 .. n + 1 /\ ~ (i <= 1) /\ i \in 1 .. n + 1
        BY <2>3
      <3>2. s.h[i] = Chunk(w, i - 1)
        BY <1>7, <2>3, <3>1 DEF Compressions
      <3>3. RfcRecords(w, n + 1)[i - 1] = RfcRecord(w, n + 1, i - 1)
        BY <3>1 DEF RfcRecords
      <3> QED BY <2>3, <3>1, <3>2, <3>3, <1>6
    <2> QED BY <2>1, <2>2, <2>3
  <1>11. Append(s.h, x) = <<p>> \o RfcRecords(w, n + 1)
    BY <1>8, <1>9, <1>10
  <1> QED BY <1>2, <1>3, <1>11
-----------------------------------------------------------------------------
PowerEquation(f) == f = [e \in Nat |-> IF e = 0 THEN 1 ELSE ByteBase * f[e - 1]]

\* Power satisfies its equation.
LEMMA PowerExists == PowerEquation(Power)
  <1> DEFINE step == [x \in Nat \X Nat |-> ByteBase * x[1]]
  <1>1. step \in [Nat \X Nat -> Nat]
    BY HashAssumption
  <1>2. PICK f \in [Nat -> Nat] : f[0] = 1 /\ \A n \in Nat : f[n + 1] = step[<<f[n], n>>]
    <2> HIDE DEF step
    <2>1. PICK A : A = Nat
      OBVIOUS
    <2>2. PICK a \in A : a = 1
      BY <2>1
    <2>3. step \in [A \X Nat -> A]
      BY <1>1, <2>1
    <2>4. PICK f : Follows(f, A, a, step)
      BY <2>3, Recursion
    <2> QED BY <2>1, <2>2, <2>4 DEF Follows
  <1>3. ASSUME NEW e \in Nat PROVE f[e] = IF e = 0 THEN 1 ELSE ByteBase * f[e - 1]
    <2>1. CASE e = 0
      BY <1>2, <2>1
    <2>2. CASE e # 0
      <3>1. PICK n \in Nat : n = e - 1
        BY <2>2
      <3>2. f[n + 1] = step[<<f[n], n>>] /\ f[n] \in Nat
        BY <1>2
      <3>3. step[<<f[n], n>>] = ByteBase * f[n] /\ n + 1 = e
        BY <3>1, <3>2
      <3> QED BY <2>2, <3>1, <3>2, <3>3
    <2> QED BY <2>1, <2>2
  <1>4. PowerEquation(f)
    BY <1>2, <1>3 DEF PowerEquation
  <1>5. Power = CHOOSE g : PowerEquation(g)
    BY DEF Power, PowerEquation
  <1> HIDE DEF PowerEquation
  <1> QED BY <1>4, <1>5

\* The powers of ByteBase.
LEMMA PowerFacts ==
  /\ Power[0] = 1
  /\ \A e \in Nat : Power[e] \in Nat \ {0} /\ Power[e + 1] = ByteBase * Power[e]
  <1>1. Power[0] = 1
    BY PowerExists DEF PowerEquation
  <1>2. ASSUME NEW e \in Nat PROVE Power[e + 1] = ByteBase * Power[e]
    <2>1. e + 1 \in Nat /\ e + 1 # 0 /\ (e + 1) - 1 = e
      OBVIOUS
    <2> QED BY <2>1, PowerExists DEF PowerEquation
  <1> DEFINE Good == {e \in Nat : Power[e] \in Nat \ {0}}
  <1>3. 0 \in Good
    BY <1>1
  <1>4. ASSUME NEW e \in Good PROVE e + 1 \in Good
    <2>1. ByteBase \in Nat \ {0} /\ Power[e] \in Nat \ {0} /\ Power[e + 1] = ByteBase * Power[e]
      BY <1>2, HashAssumption
    <2> QED BY <2>1
  <1>5. Nat \subseteq Good
    <2> HIDE DEF Good
    <2> QED BY <1>3, <1>4, SetInduction
  <1> QED BY <1>1, <1>2, <1>5

\* be64 is CounterLen bytes.
LEMMA CounterBytes ==
  ASSUME NEW n \in Nat
  PROVE  be64(n) \in Seq(Byte) /\ Len(be64(n)) = CounterLen
  <1>1. CounterLen \in Nat /\ ByteBase \in Nat \ {0}
    BY HashAssumption
  <1>2. ASSUME NEW k \in 1 .. CounterLen
        PROVE  (n \div Power[CounterLen - k]) % ByteBase \in Byte
    <2>1. CounterLen - k \in Nat
      BY <1>1
    <2>2. Power[CounterLen - k] \in Nat \ {0}
      BY <2>1, PowerFacts
    <2>3. n \div Power[CounterLen - k] \in Nat
      BY <2>2, DivMod
    <2> QED BY <1>1, <2>3, DivMod DEF Byte
  <1>3. be64(n) \in [1 .. CounterLen -> Byte]
    BY <1>2 DEF be64
  <1> QED BY <1>1, <1>3

\* Padding is bytes.
LEMMA ZeroRow ==
  ASSUME NEW k \in Int
  PROVE  Zeros(k) \in Seq(Byte) /\ Len(Zeros(k)) = IF k > 0 THEN k ELSE 0
  <1>1. 0 \in Byte
    BY HashAssumption DEF Byte
  <1>2. CASE k > 0
    BY <1>1, <1>2 DEF Zeros
  <1>3. CASE ~ (k > 0)
    <2>1. 1 .. k = {}
      BY <1>3
    <2>2. Zeros(k) = <<>>
      BY <2>1 DEF Zeros
    <2> QED BY <1>3, <2>2
  <1> QED BY <1>2, <1>3

\* The block of the key is bytes, and at most a block more than the key.
LEMMA KeyBlockRow ==
  ASSUME NEW key \in Seq(Byte)
  PROVE  KeyBlock(key) \in Seq(Byte) /\ Len(KeyBlock(key)) <= BlockSize + Len(key)
  <1>1. BlockSize \in Nat /\ Len(key) \in Nat
    BY HashAssumption
  <1>2. CASE key = <<>>
    BY <1>1, <1>2 DEF KeyBlock
  <1>3. CASE key # <<>>
    <2> DEFINE z == Zeros(BlockSize - Len(key))
    <2>1. z \in Seq(Byte) /\ Len(z) <= BlockSize
      BY <1>1, ZeroRow
    <2> HIDE DEF z
    <2>2. key \o z \in Seq(Byte) /\ Len(key \o z) = Len(key) + Len(z)
      BY <2>1, ConcatProperties
    <2>3. KeyBlock(key) = key \o z
      BY <1>3 DEF KeyBlock, z
    <2> QED BY <1>1, <2>1, <2>2, <2>3
  <1> QED BY <1>2, <1>3
-----------------------------------------------------------------------------
\* What a call hashes next, and to how many bytes.
MessageOf(c, i) == IF c.kind = "digest" THEN c.data ELSE c.data \o be64(i)

SizeOf(c) == IF c.kind = "digest" THEN c.length ELSE HashLen

WholeOf(c, i) == KeyBlock(c.key) \o MessageOf(c, i)

IsRow(w) == Len(w) \in Nat /\ w = [i \in 1 .. Len(w) |-> w[i]]

\* What is hashed is bytes, and no more than the counter can count.
LEMMA WholeRow ==
  ASSUME NEW c \in Calls, NEW i \in Nat
  PROVE  /\ WholeOf(c, i) \in Seq(Byte)
         /\ IsRow(WholeOf(c, i))
         /\ Len(WholeOf(c, i)) < WordBase * WordBase
  <1>1. c.key \in Seq(Byte) /\ c.data \in Seq(Byte)
        /\ BlockSize + Len(c.key) + Len(c.data) + CounterLen < WordBase * WordBase
    BY CallsAssumption
  <1>2. CounterLen \in Nat /\ BlockSize \in Nat /\ WordBase * WordBase \in Nat
    BY HashAssumption
  <1> DEFINE k == KeyBlock(c.key)
             m == MessageOf(c, i)
  <1>3. k \in Seq(Byte) /\ Len(k) <= BlockSize + Len(c.key)
    BY <1>1, KeyBlockRow
  <1>4. m \in Seq(Byte) /\ Len(m) <= Len(c.data) + CounterLen
    <2>1. be64(i) \in Seq(Byte) /\ Len(be64(i)) = CounterLen
      BY CounterBytes
    <2>2. c.data \o be64(i) \in Seq(Byte) /\ Len(c.data \o be64(i)) = Len(c.data) + CounterLen
      BY <1>1, <2>1, ConcatProperties
    <2>3. Len(c.data) \in Nat
      BY <1>1
    <2> QED BY <1>1, <1>2, <2>2, <2>3 DEF MessageOf
  <1> HIDE DEF k, m
  <1>5. k \o m \in Seq(Byte) /\ Len(k \o m) = Len(k) + Len(m)
    BY <1>3, <1>4, ConcatProperties
  <1>6. Len(k) \in Nat /\ Len(m) \in Nat /\ Len(c.key) \in Nat /\ Len(c.data) \in Nat
    BY <1>1, <1>3, <1>4
  <1>7. Len(k) + Len(m) < WordBase * WordBase
    <2> DEFINE q == WordBase * WordBase
    <2>1. q \in Nat /\ BlockSize + Len(c.key) + Len(c.data) + CounterLen < q
      BY <1>1, <1>2
    <2> HIDE DEF q
    <2>2. \A a, b, x, y, u, v \in Nat :
            a <= u + x /\ b <= y + v /\ u + x + y + v < q => a + b < q
      BY <2>1
    <2>3. Len(k) <= BlockSize + Len(c.key) /\ Len(m) <= Len(c.data) + CounterLen
      BY <1>3, <1>4
    <2>4. Len(k) + Len(m) < q
      BY <1>2, <1>6, <2>1, <2>2, <2>3
    <2> QED BY <2>4 DEF q
  <1>8. WholeOf(c, i) = k \o m
    BY DEF WholeOf, k, m
  <1>9. IsRow(k \o m)
    <2>1. PICK w \in Seq(Byte) : w = k \o m
      BY <1>5
    <2>2. IsRow(w)
      BY SeqIs DEF IsRow
    <2> QED BY <2>1, <2>2
  <1> QED BY <1>5, <1>7, <1>8, <1>9
-----------------------------------------------------------------------------
\* What is left of w after d bytes.
Rest(w, d) == [i \in 1 .. Len(w) - d |-> w[d + i]]

\* blake2b is in the middle of w: some blocks compressed, a buffer that is not
\* empty after the first of them, and the rest to come.
Within(s, rest, w, p, n) ==
  /\ Holds(s, w, p, n)
  /\ n > 0 => s.buflen > 0
  /\ rest = Rest(w, At(n) + s.buflen)

\* The next byte is the head of the rest.
LEMMA RestFacts ==
  ASSUME NEW w, IsRow(w), NEW d \in Nat, d <= Len(w)
  PROVE  /\ Rest(w, d) = <<>> <=> d = Len(w)
         /\ d < Len(w) => Head(Rest(w, d)) = w[d + 1] /\ Tail(Rest(w, d)) = Rest(w, d + 1)
  <1>0. Len(w) \in Nat
    BY DEF IsRow
  <1> DEFINE r == Rest(w, d)
             k == Len(w) - d
  <1>1. k \in Nat /\ r = [i \in 1 .. k |-> w[d + i]]
    BY <1>0 DEF Rest
  <1>2. r = [i \in 1 .. k |-> r[i]]
    BY <1>1
  <1>3. r \in Seq({r[i] : i \in 1 .. k}) /\ Len(r) = k
    <2> HIDE DEF r, k
    <2> QED BY <1>1, <1>2, IsSeq, SMTT(30)
  <1>4. r = <<>> <=> k = 0
    <2> DEFINE S == {r[i] : i \in 1 .. k}
    <2> HIDE DEF r, k
    <2>1. r \in Seq(S) /\ Len(r) = k
      BY <1>3
    <2> HIDE DEF S
    <2> QED BY <2>1, EmptySeq
  <1>5. ASSUME d < Len(w)
        PROVE  Head(r) = w[d + 1] /\ Tail(r) = Rest(w, d + 1)
    <2>1. k \in Nat \ {0} /\ k - 1 = Len(w) - (d + 1)
      BY <1>0, <1>5
    <2>2. Head(r) = r[1]
      BY DEF Head
    <2>3. Tail(r) = [i \in 1 .. k - 1 |-> r[i + 1]]
      <3> DEFINE S == {r[i] : i \in 1 .. k}
      <3> HIDE DEF k, r
      <3>1. r \in Seq(S) /\ Len(r) = k
        BY <1>3
      <3> HIDE DEF S
      <3>2. r # <<>>
        BY <1>4, <2>1
      <3>3. Tail(r) \in Seq(S) /\ Len(Tail(r)) = k - 1
            /\ \A i \in 1 .. k - 1 : Tail(r)[i] = r[i + 1]
        BY <3>1, <3>2, HeadTailProperties
      <3>4. Tail(r) = [i \in 1 .. Len(Tail(r)) |-> Tail(r)[i]]
        BY <3>3, SeqIs
      <3> QED BY <3>3, <3>4
    <2>4. r[1] = w[d + 1]
      <3> HIDE DEF k, r
      <3> QED BY <1>1, <2>1
    <2>5. \A i \in 1 .. k - 1 : r[i + 1] = w[(d + 1) + i]
      <3> SUFFICES ASSUME NEW i \in 1 .. k - 1 PROVE r[i + 1] = w[(d + 1) + i]
        OBVIOUS
      <3> HIDE DEF k, r
      <3>1. i + 1 \in 1 .. k /\ d + (i + 1) = (d + 1) + i
        BY <2>1
      <3> QED BY <1>1, <3>1
    <2>6. Tail(r) = Rest(w, d + 1)
      <3> HIDE DEF r
      <3> QED BY <2>1, <2>3, <2>5 DEF Rest
    <2> QED BY <2>2, <2>4, <2>6
  <1>6. k = 0 <=> d = Len(w)
    BY <1>0
  <1> QED BY <1>4, <1>5, <1>6

\* The parameters alone are compressed when a message begins.
LEMMA BeginsWithin ==
  ASSUME NEW w, IsRow(w), NEW p, NEW g
  PROVE  Within([h |-> <<p>>, t |-> <<0, 0>>, buf |-> [i \in 1 .. BlockSize |-> g],
                 buflen |-> 0], w, w, p, 0)
  <1> DEFINE s == [h |-> <<p>>, t |-> <<0, 0>>, buf |-> [i \in 1 .. BlockSize |-> g],
                   buflen |-> 0]
  <1>1. At(0) = 0 /\ Len(w) \in Nat /\ WordBase \in Nat \ {0} /\ BlockSize \in Nat
    BY AtFacts DEF IsRow
  <1>2. <<p>> = Compressions(w, p, 0)
    BY DEF Compressions
  <1>3. 0 % WordBase = 0 /\ 0 \div WordBase = 0
    <2>1. 0 * WordBase + 0 = 0 /\ 0 \in 0 .. WordBase - 1
      BY <1>1
    <2> QED BY <1>1, <2>1, DivModUnique
  <1>4. IsObject(s)
    BY DEF IsObject
  <1>5. s.h = <<p>> /\ s.t = <<0, 0>> /\ s.buflen = 0
        /\ s.buf = [i \in 1 .. BlockSize |-> s.buf[i]]
    OBVIOUS
  <1> HIDE DEF s
  <1>6. Holds(s, w, p, 0)
    BY <1>1, <1>2, <1>3, <1>4, <1>5 DEF Holds
  <1>7. w = Rest(w, 0)
    BY <1>1 DEF Rest, IsRow
  <1>8. At(0) + s.buflen = 0
    BY <1>1, <1>5
  <1>9. Within(s, w, w, p, 0)
    BY <1>6, <1>7, <1>8 DEF Within
  <1> QED BY <1>9 DEF s

\* Every byte that update() takes leaves the object in the middle of w.
LEMMA FedWithin ==
  ASSUME NEW s, NEW rest, NEW w, NEW p, NEW n \in Nat, IsRow(w),
         Len(w) < WordBase * WordBase, Within(s, rest, w, p, n), rest # <<>>
  PROVE  \E k \in Nat : Within(Fed(s, Head(rest)), Tail(rest), w, p, k)
  <1>1. Len(w) \in Nat /\ w = [i \in 1 .. Len(w) |-> w[i]]
    BY DEF IsRow
  <1>2. Holds(s, w, p, n) /\ rest = Rest(w, At(n) + s.buflen)
    BY DEF Within
  <1>3. At(n) \in Nat /\ At(n + 1) = At(n) + BlockSize /\ BlockSize \in Nat \ {0}
    BY AtFacts
  <1>4. s.buflen \in 0 .. BlockSize /\ At(n) + s.buflen <= Len(w)
    BY <1>2 DEF Holds
  <1> DEFINE d == At(n) + s.buflen
  <1>5. d \in Nat /\ d < Len(w)
    <2>1. d \in Nat /\ d <= Len(w)
      BY <1>3, <1>4
    <2>2. d # Len(w)
      <3> HIDE DEF d
      <3> QED BY <1>2, <2>1, RestFacts DEF d
    <2> HIDE DEF d
    <2> QED BY <1>1, <2>1, <2>2
  <1>6. Head(rest) = w[d + 1] /\ Tail(rest) = Rest(w, d + 1)
    <2> HIDE DEF d
    <2>1. rest = Rest(w, d) /\ d <= Len(w)
      BY <1>1, <1>2, <1>5 DEF d
    <2> QED BY <1>5, <2>1, RestFacts
  <1>7. CASE s.buflen = BlockSize
    <2> DEFINE c == Compressed(s, BlockSize, FALSE)
    <2>1. Holds(c, w, p, n + 1) /\ c.buflen = 0
      BY <1>1, <1>2, <1>7, CompressHolds
    <2>2. Fed(s, Head(rest)) = Store(c, Head(rest))
      BY <1>7 DEF Fed
    <2> HIDE DEF c
    <2>3. d = At(n + 1) + c.buflen
      BY <1>3, <1>7, <2>1
    <2>4. c.buflen < BlockSize /\ At(n + 1) + c.buflen < Len(w)
          /\ Head(rest) = w[At(n + 1) + c.buflen + 1]
      <3> HIDE DEF d
      <3> QED BY <1>3, <1>5, <1>6, <2>1, <2>3
    <2>5. n + 1 \in Nat
      OBVIOUS
    <2> DEFINE r == Store(c, Head(rest))
    <2>6. Holds(r, w, p, n + 1) /\ r.buflen = c.buflen + 1
      BY <1>1, <2>1, <2>4, <2>5, StoreHolds
    <2> HIDE DEF r
    <2>7. At(n + 1) + r.buflen = d + 1 /\ r.buflen > 0
      BY <1>3, <1>7, <2>1, <2>6
    <2>8. Within(r, Tail(rest), w, p, n + 1)
      <3> HIDE DEF d
      <3> QED BY <1>6, <2>6, <2>7 DEF Within
    <2> QED BY <2>2, <2>5, <2>8 DEF r
  <1>8. CASE s.buflen # BlockSize
    <2>1. Fed(s, Head(rest)) = Store(s, Head(rest))
      BY <1>8 DEF Fed
    <2>2. s.buflen < BlockSize
      BY <1>3, <1>4, <1>8
    <2> DEFINE r == Store(s, Head(rest))
    <2>6. At(n) + s.buflen < Len(w) /\ Head(rest) = w[At(n) + s.buflen + 1]
      BY <1>5, <1>6
    <2>3. Holds(r, w, p, n) /\ r.buflen = s.buflen + 1
      <3> HIDE DEF d
      <3> QED BY <1>1, <1>2, <2>2, <2>6, StoreHolds
    <2> HIDE DEF r
    <2>4. At(n) + r.buflen = d + 1 /\ r.buflen > 0
      BY <1>3, <1>4, <2>3
    <2>5. Within(r, Tail(rest), w, p, n)
      <3> HIDE DEF d
      <3> QED BY <1>6, <2>3, <2>4 DEF Within
    <2> QED BY <2>1, <2>5 DEF r
  <1> QED BY <1>7, <1>8

\* When nothing is left, final() makes of it what hashlib makes of the message.
LEMMA FinishedWithin ==
  ASSUME NEW message, NEW key, NEW size, NEW s, NEW n \in Nat,
         IsRow(KeyBlock(key) \o message),
         Len(KeyBlock(key) \o message) < WordBase * WordBase,
         Within(s, <<>>, KeyBlock(key) \o message, Params(size, Len(key)), n)
  PROVE  Digest(Finished(s)) = hashlib(message, key, size)
  <1>1. PICK w : w = KeyBlock(key) \o message
    OBVIOUS
  <1>2. /\ IsRow(w) /\ Len(w) < WordBase * WordBase
        /\ Holds(s, w, Params(size, Len(key)), n) /\ (n > 0 => s.buflen > 0)
        /\ <<>> = Rest(w, At(n) + s.buflen)
    BY <1>1 DEF Within
  <1>3. Len(w) \in Nat /\ w = [i \in 1 .. Len(w) |-> w[i]]
    BY <1>2 DEF IsRow
  <1>4. At(n) + s.buflen \in Nat /\ At(n) + s.buflen <= Len(w)
    <2>1. s.buflen \in 0 .. BlockSize /\ At(n) + s.buflen <= Len(w)
      BY <1>2 DEF Holds
    <2>2. At(n) \in Nat /\ BlockSize \in Nat
      BY AtFacts
    <2> QED BY <2>1, <2>2
  <1>5. At(n) + s.buflen = Len(w)
    <2>1. PICK d \in Nat : d = At(n) + s.buflen
      BY <1>4
    <2> QED BY <1>2, <1>4, <2>1, RestFacts
  <1>6. Finished(s).h = hashlib(message, key, size)
    BY <1>1, <1>2, <1>3, <1>5, FinishedIsHashlib
  <1> QED BY <1>6 DEF Digest
-----------------------------------------------------------------------------
\* The first n of the server's T, as one function.
ChainRun(n, g) ==
  g = [i \in 0 .. n |-> IF i = 0 THEN <<>> ELSE <<"hmac", g[i - 1], i>>]

ChainEquation(g) ==
  g = [i \in Nat |-> IF i = 0 THEN <<>> ELSE <<"hmac", g[i - 1], i>>]

\* The first n blocks of the chain are those of a longer run.
LEMMA ChainRunsAgree ==
  ASSUME NEW n \in Nat, NEW g, NEW h, ChainRun(n, g), ChainRun(n + 1, h)
  PROVE  g[n] = h[n]
  <1> DEFINE U == {k \in Nat : k <= n => g[k] = h[k]}
  <1>1. 0 \in U
    BY DEF ChainRun
  <1>2. ASSUME NEW k \in U PROVE k + 1 \in U
    <2>1. SUFFICES ASSUME k + 1 <= n PROVE g[k + 1] = h[k + 1]
      OBVIOUS
    <2>2. /\ g[k] = h[k] /\ k + 1 \in 0 .. n /\ k + 1 \in 0 .. n + 1
          /\ k + 1 # 0 /\ (k + 1) - 1 = k
      BY <2>1
    <2>3. g[k + 1] = <<"hmac", g[k], k + 1>>
      BY <2>2 DEF ChainRun
    <2>4. h[k + 1] = <<"hmac", h[k], k + 1>>
      BY <2>2 DEF ChainRun
    <2> QED BY <2>2, <2>3, <2>4
  <1>3. Nat \subseteq U
    <2> HIDE DEF U
    <2> QED BY <1>1, <1>2, SetInduction
  <1> QED BY <1>3

\* The chain can go one block on.
LEMMA ChainRunExtends ==
  ASSUME NEW n \in Nat, NEW g, ChainRun(n, g)
  PROVE  ChainRun(n + 1, [i \in 0 .. n + 1 |->
                            IF i = n + 1 THEN <<"hmac", g[n], n + 1>> ELSE g[i]])
  <1> DEFINE h == [i \in 0 .. n + 1 |-> IF i = n + 1 THEN <<"hmac", g[n], n + 1>> ELSE g[i]]
  <1>1. ASSUME NEW i \in 0 .. n + 1
        PROVE  h[i] = IF i = 0 THEN <<>> ELSE <<"hmac", h[i - 1], i>>
    <2>1. CASE i = 0
      <3>1. 0 \in 0 .. n /\ 0 # n + 1
        OBVIOUS
      <3>2. h[0] = g[0]
        BY <3>1
      <3>3. g[0] = <<>>
        BY <3>1 DEF ChainRun
      <3> HIDE DEF h
      <3> QED BY <2>1, <3>2, <3>3
    <2>2. CASE i = n + 1
      <3>1. i - 1 = n /\ n \in 0 .. n + 1 /\ n # n + 1 /\ i # 0
        BY <2>2
      <3>2. h[i] = <<"hmac", g[n], n + 1>> /\ h[n] = g[n]
        BY <2>2, <3>1
      <3> HIDE DEF h
      <3> QED BY <2>2, <3>1, <3>2
    <2>3. CASE i # 0 /\ i # n + 1
      <3>1. i \in 0 .. n /\ i - 1 \in 0 .. n + 1 /\ i - 1 # n + 1
        BY <2>3
      <3>2. h[i] = g[i] /\ h[i - 1] = g[i - 1]
        BY <2>3, <3>1
      <3>3. g[i] = <<"hmac", g[i - 1], i>>
        BY <2>3, <3>1 DEF ChainRun
      <3> HIDE DEF h
      <3> QED BY <2>3, <3>2, <3>3
    <2> QED BY <2>1, <2>2, <2>3
  <1>2. h = [i \in 0 .. n + 1 |-> h[i]]
    OBVIOUS
  <1> HIDE DEF h
  <1>3. ChainRun(n + 1, h)
    BY <1>1, <1>2 DEF ChainRun
  <1> QED BY <1>3 DEF h

\* The server's chain is well defined.
LEMMA ChainFacts ==
  /\ T[0] = <<>>
  /\ \A i \in Nat : T[i + 1] = <<"hmac", T[i], i + 1>>
  <1> DEFINE U == {n \in Nat : \E g : ChainRun(n, g)}
  <1>1. 0 \in U
    <2>1. ChainRun(0, [i \in 0 .. 0 |-> <<>>])
      BY DEF ChainRun
    <2> QED BY <2>1
  <1>2. ASSUME NEW n \in U PROVE n + 1 \in U
    <2>1. PICK g : ChainRun(n, g)
      OBVIOUS
    <2>2. \E h : ChainRun(n + 1, h)
      BY <2>1, ChainRunExtends
    <2> QED BY <2>2
  <1>3. Nat \subseteq U
    <2> HIDE DEF U
    <2> QED BY <1>1, <1>2, SetInduction
  <1> DEFINE G(n) == CHOOSE g : ChainRun(n, g)
  <1>4. ASSUME NEW n \in Nat PROVE ChainRun(n, G(n))
    BY <1>3
  <1> HIDE DEF G
  <1>5. ASSUME NEW n \in Nat PROVE G(n + 1)[n] = G(n)[n]
    <2>1. ChainRun(n, G(n)) /\ ChainRun(n + 1, G(n + 1))
      BY <1>4
    <2> QED BY <2>1, ChainRunsAgree
  <1> DEFINE f == [n \in Nat |-> G(n)[n]]
  <1>6. ASSUME NEW i \in Nat
        PROVE  f[i] = IF i = 0 THEN <<>> ELSE <<"hmac", f[i - 1], i>>
    <2>1. CASE i = 0
      <3>1. 0 \in 0 .. 0 /\ ChainRun(0, G(0))
        BY <1>4
      <3>2. G(0)[0] = <<>>
        BY <3>1 DEF ChainRun
      <3> QED BY <2>1, <3>2
    <2>2. CASE i # 0
      <3>1. PICK n \in Nat : n = i - 1
        BY <2>2
      <3>2. i = n + 1 /\ i \in 0 .. i /\ ChainRun(i, G(i))
        BY <1>4, <3>1
      <3>3. G(i)[i] = <<"hmac", G(i)[i - 1], i>>
        BY <2>2, <3>2 DEF ChainRun
      <3>4. G(i)[n] = G(n)[n]
        BY <1>5, <3>2
      <3>5. f[i] = G(i)[i] /\ f[n] = G(n)[n]
        OBVIOUS
      <3> HIDE DEF f
      <3> QED BY <2>2, <3>1, <3>3, <3>4, <3>5
    <2> QED BY <2>1, <2>2
  <1>7. f = [i \in Nat |-> f[i]]
    OBVIOUS
  <1> HIDE DEF f
  <1>8. ChainEquation(f)
    BY <1>6, <1>7 DEF ChainEquation
  <1>9. T = CHOOSE g : ChainEquation(g)
    BY DEF T, ChainEquation
  <1>10. ChainEquation(T)
    <2> HIDE DEF ChainEquation
    <2> QED BY <1>8, <1>9
  <1>11. ASSUME NEW i \in Nat PROVE T[i + 1] = <<"hmac", T[i], i + 1>>
    <2>1. i + 1 \in Nat /\ i + 1 # 0 /\ (i + 1) - 1 = i
      OBVIOUS
    <2> QED BY <1>10, <2>1 DEF ChainEquation
  <1> QED BY <1>10, <1>11 DEF ChainEquation
-----------------------------------------------------------------------------
\* The blocks of a stream as rows of bytes, and the stream of the first n.
Rows(ts, n) == [i \in 1 .. n |-> Bytes(ts[i], HashLen)]

Stream(ts, n) == Joined(Rows(ts, n), HashLen, n)

\* The rows of a stream are blocks of HashLen bytes.
LEMMA RowFacts ==
  ASSUME NEW ts, NEW n \in Nat
  PROVE  /\ Rows(ts, n) = [i \in 1 .. n |-> Rows(ts, n)[i]]
         /\ \A i \in 1 .. n : /\ Rows(ts, n)[i] = Bytes(ts[i], HashLen)
                               /\ Rows(ts, n)[i] = [k \in 1 .. HashLen |-> Rows(ts, n)[i][k]]
  <1>1. Rows(ts, n) = [i \in 1 .. n |-> Rows(ts, n)[i]]
    BY DEF Rows
  <1>2. ASSUME NEW i \in 1 .. n
        PROVE  /\ Rows(ts, n)[i] = Bytes(ts[i], HashLen)
               /\ Rows(ts, n)[i] = [k \in 1 .. HashLen |-> Rows(ts, n)[i][k]]
    <2>1. Rows(ts, n)[i] = Bytes(ts[i], HashLen)
      BY DEF Rows
    <2>2. Bytes(ts[i], HashLen) = [k \in 1 .. HashLen |-> Bytes(ts[i], HashLen)[k]]
      BY DEF Bytes
    <2> QED BY <2>1, <2>2
  <1> QED BY <1>1, <1>2

\* Where the j-th of the bytes of a stream is.
LEMMA BytePlace ==
  ASSUME NEW n \in Nat, NEW j \in 1 .. n * HashLen
  PROVE  /\ (j - 1) \div HashLen \in 0 .. n - 1 /\ ((j - 1) % HashLen) \in 0 .. HashLen - 1
         /\ j - 1 = ((j - 1) \div HashLen) * HashLen + ((j - 1) % HashLen)
  <1>1. HashLen \in Nat \ {0} /\ n * HashLen \in Nat
    BY HashAssumption
  <1> DEFINE q == (j - 1) \div HashLen
             r == (j - 1) % HashLen
  <1>2. j - 1 \in Nat /\ j - 1 < n * HashLen
    BY <1>1
  <1>3. q \in Nat /\ r \in 0 .. HashLen - 1 /\ j - 1 = q * HashLen + r
    BY <1>1, <1>2, DivMod
  <1> HIDE DEF q, r
  <1>4. q < n
    <2>1. CASE q >= n
      <3>1. q * HashLen >= n * HashLen
        BY <1>1, <1>3, <2>1
      <3>2. q * HashLen \in Nat
        BY <1>1, <1>3
      <3> QED BY <1>1, <1>2, <1>3, <3>1, <3>2
    <2> QED BY <2>1, <1>3
  <1> QED BY <1>3, <1>4 DEF q, r

\* The stream, byte by byte.
LEMMA StreamIs ==
  ASSUME NEW ts, NEW n \in Nat
  PROVE  Stream(ts, n) =
           [j \in 1 .. n * HashLen |->
              <<ts[((j - 1) \div HashLen) + 1], ((j - 1) % HashLen) + 1>>]
  <1>1. ASSUME NEW j \in 1 .. n * HashLen
        PROVE  Rows(ts, n)[((j - 1) \div HashLen) + 1][((j - 1) % HashLen) + 1] =
                 <<ts[((j - 1) \div HashLen) + 1], ((j - 1) % HashLen) + 1>>
    <2> DEFINE q == (j - 1) \div HashLen
               r == (j - 1) % HashLen
    <2>1. q \in 0 .. n - 1 /\ r \in 0 .. HashLen - 1 /\ HashLen \in Nat
      BY BytePlace, HashAssumption
    <2> HIDE DEF q, r
    <2>2. q + 1 \in 1 .. n /\ r + 1 \in 1 .. HashLen
      BY <2>1
    <2>3. Rows(ts, n)[q + 1] = Bytes(ts[q + 1], HashLen)
      BY <2>2, RowFacts
    <2>4. Bytes(ts[q + 1], HashLen)[r + 1] = <<ts[q + 1], r + 1>>
      BY <2>2 DEF Bytes
    <2>5. Rows(ts, n)[q + 1][r + 1] = <<ts[q + 1], r + 1>>
      BY <2>3, <2>4
    <2> QED BY <2>5 DEF q, r
  <1> QED BY <1>1 DEF Stream, Joined

\* One more block.
LEMMA StreamGrows ==
  ASSUME NEW ts, NEW n \in Nat, NEW us, \A i \in 1 .. n : us[i] = ts[i]
  PROVE  Stream(ts, n) \o Bytes(us[n + 1], HashLen) = Stream(us, n + 1)
  <1>0. HashLen \in Nat \ {0} /\ n + 1 \in Nat /\ n + 1 \in 1 .. n + 1
    BY HashAssumption
  <1> DEFINE R == Rows(us, n + 1)
  <1>1. R[n + 1] = Bytes(us[n + 1], HashLen) /\ R[n + 1] = [k \in 1 .. HashLen |-> R[n + 1][k]]
    BY <1>0, RowFacts
  <1>2. Stream(us, n + 1) = Joined(R, HashLen, n + 1)
    BY DEF Stream
  <1>3. Joined(R, HashLen, n) = Stream(ts, n)
    <2>1. ASSUME NEW j \in 1 .. n * HashLen
          PROVE  R[((j - 1) \div HashLen) + 1][((j - 1) % HashLen) + 1] =
                   Rows(ts, n)[((j - 1) \div HashLen) + 1][((j - 1) % HashLen) + 1]
      <3>1. (j - 1) \div HashLen \in 0 .. n - 1
        BY BytePlace
      <3>2. PICK i \in 1 .. n : i = ((j - 1) \div HashLen) + 1
        BY <3>1
      <3>3. i \in 1 .. n + 1
        OBVIOUS
      <3>4. R[i] = Bytes(us[i], HashLen)
        BY <1>0, <3>3, RowFacts
      <3>5. Rows(ts, n)[i] = Bytes(ts[i], HashLen) /\ us[i] = ts[i]
        BY RowFacts
      <3> HIDE DEF R
      <3> QED BY <3>2, <3>4, <3>5
    <2> HIDE DEF R
    <2> QED BY <2>1 DEF Stream, Joined
  <1> HIDE DEF R
  <1>4. Joined(R, HashLen, n) \o R[n + 1] = Joined(R, HashLen, n + 1)
    BY <1>0, <1>1, ConcatBlocks
  <1> QED BY <1>1, <1>2, <1>3, <1>4

\* What the server puts out of n blocks.
LEMMA FlattenStream ==
  ASSUME NEW ts, NEW n \in Nat
  PROVE  FlattenSeq(Rows(ts, n)) = Stream(ts, n)
  <1>1. HashLen \in Nat \ {0}
    BY HashAssumption
  <1>2. PICK R : R = Rows(ts, n)
    OBVIOUS
  <1>3. /\ R = [i \in 1 .. n |-> R[i]]
        /\ \A i \in 1 .. n : R[i] = [k \in 1 .. HashLen |-> R[i][k]]
    BY <1>2, RowFacts
  <1>4. FlattenSeq(R) = Joined(R, HashLen, n)
    BY <1>1, <1>3, FlattenBlocks
  <1> QED BY <1>2, <1>4 DEF Stream

\* How many blocks a length takes.
LEMMA BlocksNeeded ==
  ASSUME NEW length \in Nat, NEW n \in Nat, length <= n * HashLen,
         n > 0 => (n - 1) * HashLen < length
  PROVE  BlocksOf(length, HashLen) = n
  <1>0. HashLen \in Nat \ {0}
    BY HashAssumption
  <1>1. CASE n = 0
    <2>1. length = 0
      BY <1>0, <1>1
    <2>2. (0 * HashLen + (HashLen - 1)) \div HashLen = 0
      BY <1>0, DivModUnique
    <2>3. length + HashLen - 1 = 0 * HashLen + (HashLen - 1)
      BY <1>0, <2>1
    <2> QED BY <1>1, <2>2, <2>3 DEF BlocksOf
  <1>2. CASE n # 0
    <2>1. PICK m \in Nat : m = n - 1
      BY <1>2
    <2>2. m * HashLen < length /\ length <= (m + 1) * HashLen
      BY <1>2, <2>1
    <2> DEFINE p == m * HashLen
    <2>3. p \in Nat /\ (m + 1) * HashLen = p + HashLen /\ n * HashLen = p + HashLen
      BY <1>0, <2>1
    <2> HIDE DEF p
    <2>4. PICK r \in 0 .. HashLen - 1 : length = p + r + 1
      <3>1. length - p - 1 \in 0 .. HashLen - 1
        BY <1>0, <2>2, <2>3 DEF p
      <3> QED BY <3>1, <2>3
    <2>5. length + HashLen - 1 = n * HashLen + r
      BY <1>0, <2>3, <2>4
    <2>6. (n * HashLen + r) \div HashLen = n
      BY <1>0, DivModUnique
    <2> QED BY <2>5, <2>6 DEF BlocksOf
  <1> QED BY <1>1, <1>2
-----------------------------------------------------------------------------
\* The blocks of a keystream, and a chain of HMACs counted in a byte.
KeystreamTerms(c, n) == [i \in 1 .. n |-> hashlib(c.data \o be64(i - 1), c.key, HashLen)]

LastTerm(ts, n) == IF n = 0 THEN <<>> ELSE ts[n]

IsChain(ts, n) ==
  ts = [i \in 1 .. n |-> <<"hmac", LastTerm(ts, i - 1), i % ByteBase>>]

\* A stream after the n blocks ts.
StreamHeld(n, ts) ==
  /\ call.kind = "keystream" => counter = n /\ ts = KeystreamTerms(call, n)
  /\ call.kind = "expand" =>
       IsChain(ts, n) /\ counter = (n + 1) % ByteBase /\ last = LastTerm(ts, n)
  /\ n > 0 => (n - 1) * HashLen < call.length
  /\ stage \in {"loop", "hashing"} => out = Stream(ts, n)
  /\ stage = "hashing" => n * HashLen < call.length
  /\ stage = "returned" =>
       out = SubSeq(Stream(ts, n), 1, call.length) /\ call.length <= n * HashLen

StageInv ==
  /\ call \in Calls /\ counter \in Nat
  /\ stage \in {"loop", "hashing", "returned", "raised"}

\* blake2b is within the message it was begun with.
HashingInv ==
  stage = "hashing" =>
    /\ call.kind # "expand"
    /\ \E n \in Nat : Within(st, todo, WholeOf(call, counter),
                             Params(SizeOf(call), Len(call.key)), n)

StreamInv == call.kind # "digest" => \E n \in Nat : \E ts : StreamHeld(n, ts)

HashInv == StageInv /\ HashingInv /\ DigestsAgree /\ StreamInv
-----------------------------------------------------------------------------
\* One more block of the chain of hkdf_expand.
LEMMA ChainGrows ==
  ASSUME NEW ts, NEW n \in Nat, IsChain(ts, n), NEW us,
         us = [i \in 1 .. n + 1 |->
                 IF i = n + 1 THEN <<"hmac", LastTerm(ts, n), (n + 1) % ByteBase>> ELSE ts[i]]
  PROVE  IsChain(us, n + 1)
  <1>1. \A i \in 0 .. n : LastTerm(us, i) = LastTerm(ts, i)
    BY DEF LastTerm
  <1>2. ASSUME NEW i \in 1 .. n + 1
        PROVE  us[i] = <<"hmac", LastTerm(us, i - 1), i % ByteBase>>
    <2>1. LastTerm(us, i - 1) = LastTerm(ts, i - 1)
      BY <1>1
    <2>2. CASE i = n + 1
      <3>1. i - 1 = n
        BY <2>2
      <3>2. us[i] = <<"hmac", LastTerm(ts, n), (n + 1) % ByteBase>>
        BY <2>2
      <3> QED BY <2>1, <2>2, <3>1, <3>2
    <2>3. CASE i # n + 1
      <3>1. i \in 1 .. n
        BY <2>3
      <3>2. ts[i] = <<"hmac", LastTerm(ts, i - 1), i % ByteBase>>
        BY <3>1 DEF IsChain
      <3> QED BY <2>1, <2>3, <3>2
    <2> QED BY <2>2, <2>3
  <1>3. us = [i \in 1 .. n + 1 |-> us[i]]
    OBVIOUS
  <1> QED BY <1>2, <1>3 DEF IsChain

\* The stream of n blocks is n * HashLen bytes long.
LEMMA StreamLength ==
  ASSUME NEW ts, NEW n \in Nat
  PROVE  /\ n * HashLen \in Nat
         /\ Len(Stream(ts, n)) = n * HashLen
         /\ Stream(ts, n) = [j \in 1 .. n * HashLen |-> Stream(ts, n)[j]]
  <1>1. n * HashLen \in Nat
    BY HashAssumption
  <1>2. Stream(ts, n) = [j \in 1 .. n * HashLen |-> Stream(ts, n)[j]]
    BY StreamIs
  <1>3. PICK m \in Nat : m = n * HashLen
    BY <1>1
  <1>4. PICK s : s = Stream(ts, n)
    OBVIOUS
  <1>5. s = [j \in 1 .. m |-> s[j]]
    BY <1>2, <1>3, <1>4
  <1>6. Len(s) = m
    BY <1>5, IsSeq
  <1> QED BY <1>1, <1>2, <1>3, <1>4, <1>6

\* The invariant holds before the first step.
LEMMA InitHolds == Init => HashInv
  <1> SUFFICES ASSUME Init PROVE HashInv
    OBVIOUS
  <1>1. StageInv
    BY DEF Init, StageInv
  <1>2. HashingInv /\ DigestsAgree
    BY DEF Init, HashingInv, DigestsAgree
  <1>3. StreamInv
    <2> SUFFICES ASSUME call.kind # "digest" PROVE \E n \in Nat : \E ts : StreamHeld(n, ts)
      BY DEF StreamInv
    <2>1. <<>> = KeystreamTerms(call, 0)
      BY DEF KeystreamTerms
    <2>2. IsChain(<<>>, 0) /\ LastTerm(<<>>, 0) = <<>>
      BY DEF IsChain, LastTerm
    <2>3. Stream(<<>>, 0) = <<>>
      <3>1. 0 * HashLen = 0
        BY HashAssumption
      <3> QED BY <3>1 DEF Stream, Joined
    <2>4. (0 + 1) % ByteBase = 1
      <3>1. ByteBase \in Nat \ {0} /\ 1 \in 0 .. ByteBase - 1 /\ 0 * ByteBase + 1 = 0 + 1
        BY HashAssumption
      <3> QED BY <3>1, DivModUnique
    <2>5. StreamHeld(0, <<>>)
      BY <2>1, <2>2, <2>3, <2>4 DEF StreamHeld, Init
    <2> QED BY <2>5
  <1> QED BY <1>1, <1>2, <1>3 DEF HashInv

\* Refuse preserves the invariant: nothing was put out by the call that is refused.
LEMMA RefuseHolds == HashInv /\ Refuse => HashInv'
  <1> SUFFICES ASSUME HashInv, Refuse PROVE HashInv'
    OBVIOUS
  <1>1. /\ stage = "loop" /\ stage' = "raised"
        /\ call' = call /\ counter' = counter /\ out' = out /\ last' = last
    BY DEF Refuse
  <1>2. StageInv' /\ HashingInv' /\ DigestsAgree'
    BY <1>1 DEF HashInv, StageInv, HashingInv, DigestsAgree
  <1>3. StreamInv'
    <2>1. SUFFICES ASSUME call.kind # "digest"
                   PROVE  \E n \in Nat : \E ts : StreamHeld(n, ts)'
      BY <1>1 DEF StreamInv
    <2>2. PICK n \in Nat : \E ts : StreamHeld(n, ts)
      BY <2>1 DEF HashInv, StreamInv
    <2>3. PICK ts : StreamHeld(n, ts)
      BY <2>2
    <2>4. StreamHeld(n, ts)'
      BY <1>1, <2>3 DEF StreamHeld
    <2> QED BY <2>2, <2>4
  <1> QED BY <1>2, <1>3 DEF HashInv

\* A message begun is a message to be hashed whole.
LEMMA BeginsHolds ==
  ASSUME StageInv, NEW message, NEW key, NEW size, Begins(message, key, size),
         call.kind # "expand", message = MessageOf(call, counter), key = call.key,
         size = SizeOf(call)
  PROVE  StageInv' /\ HashingInv'
  <1>1. PICK b : st' = [h |-> <<Params(size, Len(key))>>, t |-> <<0, 0>>,
                        buf |-> [i \in 1 .. BlockSize |-> b], buflen |-> 0]
    BY DEF Begins
  <1>2. PICK w : w = WholeOf(call, counter)
    OBVIOUS
  <1>3. IsRow(w)
    BY <1>2, WholeRow DEF StageInv
  <1>4. todo' = w /\ stage' = "hashing" /\ call' = call /\ counter' = counter
    BY <1>2 DEF Begins, WholeOf
  <1>5. Within(st', w, w, Params(size, Len(key)), 0)
    BY <1>1, <1>3, BeginsWithin
  <1>6. HashingInv'
    BY <1>2, <1>4, <1>5 DEF HashingInv
  <1> QED BY <1>4, <1>6 DEF StageInv

\* BeginDigest preserves the invariant.
LEMMA BeginDigestHolds == HashInv /\ BeginDigest => HashInv'
  <1> SUFFICES ASSUME HashInv, BeginDigest PROVE HashInv'
    OBVIOUS
  <1>1. call.kind = "digest" /\ call' = call /\ stage' = "hashing"
    BY DEF BeginDigest, Begins
  <1>2. StageInv' /\ HashingInv'
    <2>1. call.data = MessageOf(call, counter) /\ call.length = SizeOf(call)
      BY <1>1 DEF MessageOf, SizeOf
    <2>2. Begins(call.data, call.key, call.length)
      BY DEF BeginDigest
    <2> QED BY <1>1, <2>1, <2>2, BeginsHolds DEF HashInv
  <1>3. DigestsAgree' /\ StreamInv'
    BY <1>1 DEF DigestsAgree, StreamInv
  <1> QED BY <1>2, <1>3 DEF HashInv

\* Update preserves the invariant, whether the buffer was full or not.
LEMMA UpdateHolds == HashInv /\ Update => HashInv'
  <1> SUFFICES ASSUME HashInv, Update PROVE HashInv'
    OBVIOUS
  <1>1. /\ stage = "hashing" /\ todo # <<>> /\ st' = Fed(st, Head(todo)) /\ todo' = Tail(todo)
        /\ call' = call /\ stage' = stage /\ out' = out /\ counter' = counter /\ last' = last
    BY DEF Update
  <1>2. HashingInv'
    <2>0. PICK w, p : w = WholeOf(call, counter) /\ p = Params(SizeOf(call), Len(call.key))
      OBVIOUS
    <2>1. PICK n \in Nat : Within(st, todo, w, p, n)
      BY <1>1, <2>0 DEF HashInv, HashingInv
    <2>2. IsRow(w) /\ Len(w) < WordBase * WordBase
      BY <2>0, WholeRow DEF HashInv, StageInv
    <2>3. \E k \in Nat : Within(st', todo', w, p, k)
      BY <1>1, <2>1, <2>2, FedWithin
    <2> QED BY <1>1, <2>0, <2>3 DEF HashInv, HashingInv
  <1>3. StageInv' /\ DigestsAgree'
    BY <1>1 DEF HashInv, StageInv, DigestsAgree
  <1>4. StreamInv'
    BY <1>1 DEF HashInv, StreamInv, StreamHeld
  <1> QED BY <1>2, <1>3, <1>4 DEF HashInv

\* What is hashed is what hashlib makes of the message.
LEMMA HashedIs ==
  ASSUME HashInv, Hashed
  PROVE  Digest(st') = hashlib(MessageOf(call, counter), call.key, SizeOf(call))
  <1>1. PICK n \in Nat : Within(st, <<>>, KeyBlock(call.key) \o MessageOf(call, counter),
                                Params(SizeOf(call), Len(call.key)), n)
    BY DEF HashInv, HashingInv, Hashed, WholeOf
  <1>2. /\ IsRow(KeyBlock(call.key) \o MessageOf(call, counter))
        /\ Len(KeyBlock(call.key) \o MessageOf(call, counter)) < WordBase * WordBase
    BY WholeRow DEF HashInv, StageInv, WholeOf
  <1>3. st' = Finished(st)
    BY DEF Hashed
  <1> QED BY <1>1, <1>2, <1>3, FinishedWithin

\* EndDigest puts out what hashlib puts out.
LEMMA EndDigestHolds == HashInv /\ EndDigest => HashInv'
  <1> SUFFICES ASSUME HashInv, EndDigest PROVE HashInv'
    OBVIOUS
  <1>1. /\ call.kind = "digest" /\ call' = call /\ stage' = "returned" /\ counter' = counter
        /\ out' = Bytes(Digest(st'), call.length)
    BY DEF EndDigest
  <1>2. Digest(st') = hashlib(call.data, call.key, call.length)
    BY <1>1, HashedIs DEF EndDigest, MessageOf, SizeOf
  <1>3. StageInv' /\ HashingInv' /\ StreamInv'
    BY <1>1 DEF HashInv, StageInv, HashingInv, StreamInv
  <1>4. DigestsAgree'
    BY <1>1, <1>2 DEF DigestsAgree
  <1> QED BY <1>3, <1>4 DEF HashInv

\* BeginBlock preserves the invariant: the stream is still short.
LEMMA BeginBlockHolds == HashInv /\ BeginBlock => HashInv'
  <1> SUFFICES ASSUME HashInv, BeginBlock PROVE HashInv'
    OBVIOUS
  <1>1. /\ call.kind = "keystream" /\ stage = "loop" /\ Len(out) < call.length
        /\ call' = call /\ stage' = "hashing" /\ out' = out /\ counter' = counter /\ last' = last
    BY DEF BeginBlock, Begins
  <1>2. StageInv' /\ HashingInv'
    <2>1. call.data \o be64(counter) = MessageOf(call, counter) /\ HashLen = SizeOf(call)
      BY <1>1 DEF MessageOf, SizeOf
    <2>2. Begins(call.data \o be64(counter), call.key, HashLen)
      BY DEF BeginBlock
    <2> QED BY <1>1, <2>1, <2>2, BeginsHolds DEF HashInv
  <1>3. StreamInv'
    <2>0. PICK n \in Nat : \E ts : StreamHeld(n, ts)
      BY <1>1 DEF HashInv, StreamInv
    <2>1. PICK ts : StreamHeld(n, ts)
      BY <2>0
    <2>2. out = Stream(ts, n)
      BY <1>1, <2>1 DEF StreamHeld
    <2>3. n * HashLen < call.length
      BY <1>1, <2>2, StreamLength
    <2>4. StreamHeld(n, ts)'
      BY <1>1, <2>1, <2>2, <2>3 DEF StreamHeld
    <2> QED BY <2>4 DEF StreamInv
  <1>4. DigestsAgree'
    BY <1>1 DEF DigestsAgree
  <1> QED BY <1>2, <1>3, <1>4 DEF HashInv

\* EndBlock adds the keystream's next block.
LEMMA EndBlockHolds == HashInv /\ EndBlock => HashInv'
  <1> SUFFICES ASSUME HashInv, EndBlock PROVE HashInv'
    OBVIOUS
  <1>1. /\ call.kind = "keystream" /\ stage = "hashing" /\ call' = call /\ stage' = "loop"
        /\ out' = out \o Bytes(Digest(st'), HashLen) /\ counter' = counter + 1 /\ counter \in Nat
    BY DEF EndBlock, Hashed, HashInv, StageInv
  <1>2. Digest(st') = hashlib(call.data \o be64(counter), call.key, HashLen)
    BY <1>1, HashedIs DEF EndBlock, MessageOf, SizeOf
  <1>3. StageInv' /\ HashingInv' /\ DigestsAgree'
    BY <1>1 DEF HashInv, StageInv, HashingInv, DigestsAgree
  <1>4. StreamInv'
    <2>0. PICK n \in Nat : \E ts : StreamHeld(n, ts)
      BY <1>1 DEF HashInv, StreamInv
    <2>1. PICK ts : StreamHeld(n, ts)
      BY <2>0
    <2>2. counter = n /\ ts = KeystreamTerms(call, n) /\ out = Stream(ts, n)
          /\ n * HashLen < call.length
      BY <1>1, <2>1 DEF StreamHeld
    <2>3. PICK us : us = KeystreamTerms(call, n + 1)
      OBVIOUS
    <2>4. /\ \A i \in 1 .. n : us[i] = ts[i]
          /\ us[n + 1] = hashlib(call.data \o be64(n), call.key, HashLen)
      <3>1. n + 1 \in 1 .. n + 1 /\ (n + 1) - 1 = n
        OBVIOUS
      <3>2. \A i \in 1 .. n : i \in 1 .. n + 1
        OBVIOUS
      <3> QED BY <2>2, <2>3, <3>1, <3>2 DEF KeystreamTerms
    <2>5. out' = Stream(us, n + 1)
      <3>1. Stream(ts, n) \o Bytes(us[n + 1], HashLen) = Stream(us, n + 1)
        BY <2>4, StreamGrows
      <3>2. out' = Stream(ts, n) \o Bytes(us[n + 1], HashLen)
        BY <1>1, <1>2, <2>2, <2>4
      <3> QED BY <3>1, <3>2
    <2>6. ((n + 1) - 1) * HashLen < call.length /\ n + 1 \in Nat
      BY <2>2
    <2>7. StreamHeld(n + 1, us)'
      BY <1>1, <2>2, <2>3, <2>5, <2>6 DEF StreamHeld
    <2> QED BY <2>6, <2>7 DEF StreamInv
  <1> QED BY <1>3, <1>4 DEF HashInv

\* ExpandBlock adds the next block of the chain, and its counter wraps as a byte.
LEMMA ExpandBlockHolds == HashInv /\ ExpandBlock => HashInv'
  <1> SUFFICES ASSUME HashInv, ExpandBlock PROVE HashInv'
    OBVIOUS
  <1>1. /\ call.kind = "expand" /\ stage = "loop" /\ Len(out) < call.length
        /\ call' = call /\ stage' = stage /\ last' = <<"hmac", last, counter>>
        /\ out' = out \o Bytes(<<"hmac", last, counter>>, HashLen)
        /\ counter' = (counter + 1) % ByteBase
    BY DEF ExpandBlock, Block
  <1>0. PICK n \in Nat : \E ts : StreamHeld(n, ts)
    BY <1>1 DEF HashInv, StreamInv
  <1>2. PICK ts : StreamHeld(n, ts)
    BY <1>0
  <1>3. /\ IsChain(ts, n) /\ counter = (n + 1) % ByteBase /\ last = LastTerm(ts, n)
        /\ out = Stream(ts, n)
    BY <1>1, <1>2 DEF StreamHeld
  <1>4. ByteBase \in Nat \ {0}
    BY HashAssumption
  <1>5. counter' = ((n + 1) + 1) % ByteBase /\ counter' \in Nat
    <2>1. PICK m \in Nat : m = n + 1
      OBVIOUS
    <2>2. m = (m \div ByteBase) * ByteBase + counter /\ m \div ByteBase \in Nat
          /\ counter \in 0 .. ByteBase - 1
      BY <1>3, <1>4, <2>1, DivMod
    <2>3. PICK q \in Nat : q = m \div ByteBase
      BY <2>2
    <2>4. CASE counter + 1 < ByteBase
      <3>1. PICK c \in 0 .. ByteBase - 1 : c = counter + 1
        BY <1>4, <2>2, <2>4
      <3>2. (q * ByteBase + c) % ByteBase = c /\ (0 * ByteBase + c) % ByteBase = c
        BY <1>4, <3>1, DivModUnique
      <3>3. m + 1 = q * ByteBase + c /\ counter + 1 = 0 * ByteBase + c
        BY <1>4, <2>2, <2>3, <3>1
      <3> QED BY <1>1, <1>4, <2>1, <3>2, <3>3
    <2>5. CASE counter + 1 = ByteBase
      <3>1. 0 \in 0 .. ByteBase - 1 /\ q + 1 \in Nat
        BY <1>4, <2>3
      <3>2. ((q + 1) * ByteBase + 0) % ByteBase = 0 /\ (1 * ByteBase + 0) % ByteBase = 0
        BY <1>4, <3>1, DivModUnique
      <3>3. m + 1 = (q + 1) * ByteBase + 0 /\ counter + 1 = 1 * ByteBase + 0
        BY <1>4, <2>2, <2>3, <2>5
      <3> QED BY <1>1, <1>4, <2>1, <3>2, <3>3
    <2> QED BY <1>4, <2>2, <2>4, <2>5
  <1>6. n * HashLen < call.length
    BY <1>1, <1>3, StreamLength
  <1>7. StageInv' /\ HashingInv' /\ DigestsAgree'
    BY <1>1, <1>5 DEF HashInv, StageInv, HashingInv, DigestsAgree
  <1>8. StreamInv'
    <2>1. PICK us : us = [i \in 1 .. n + 1 |->
                            IF i = n + 1 THEN <<"hmac", LastTerm(ts, n), (n + 1) % ByteBase>>
                            ELSE ts[i]]
      OBVIOUS
    <2>2. IsChain(us, n + 1)
      BY <1>3, <2>1, ChainGrows
    <2>3. us[n + 1] = <<"hmac", last, counter>> /\ \A i \in 1 .. n : us[i] = ts[i]
      BY <1>3, <2>1
    <2>4. Stream(ts, n) \o Bytes(us[n + 1], HashLen) = Stream(us, n + 1)
      BY <2>3, StreamGrows
    <2>5. out' = Stream(us, n + 1)
      BY <1>1, <1>3, <2>3, <2>4
    <2>6. ((n + 1) - 1) * HashLen < call.length /\ n + 1 \in Nat
      BY <1>6
    <2>7. last' = LastTerm(us, n + 1)
      BY <1>1, <2>3 DEF LastTerm
    <2>8. StreamHeld(n + 1, us)'
      BY <1>1, <1>5, <2>2, <2>5, <2>6, <2>7 DEF StreamHeld
    <2> QED BY <2>6, <2>8 DEF StreamInv
  <1> QED BY <1>7, <1>8 DEF HashInv

\* Resize cuts a stream that is long enough, and not a block too long.
LEMMA ResizeHolds == HashInv /\ Resize => HashInv'
  <1> SUFFICES ASSUME HashInv, Resize PROVE HashInv'
    OBVIOUS
  <1>1. /\ call.kind # "digest" /\ stage = "loop" /\ Len(out) >= call.length
        /\ out' = SubSeq(out, 1, call.length) /\ stage' = "returned"
        /\ call' = call /\ counter' = counter /\ last' = last
    BY DEF Resize
  <1>2. StageInv' /\ HashingInv' /\ DigestsAgree'
    BY <1>1 DEF HashInv, StageInv, HashingInv, DigestsAgree
  <1>0. PICK n \in Nat : \E ts : StreamHeld(n, ts)
    BY <1>1 DEF HashInv, StreamInv
  <1>3. PICK ts : StreamHeld(n, ts)
    BY <1>0
  <1>4. out = Stream(ts, n)
    BY <1>1, <1>3 DEF StreamHeld
  <1>5. call.length <= n * HashLen
    <2>1. Len(out) = n * HashLen /\ n * HashLen \in Nat
      BY <1>4, StreamLength
    <2>2. call.length \in Nat
      BY CallsAssumption DEF HashInv, StageInv
    <2> QED BY <1>1, <2>1, <2>2
  <1>6. StreamHeld(n, ts)'
    BY <1>1, <1>3, <1>4, <1>5 DEF StreamHeld
  <1>7. StreamInv'
    BY <1>6 DEF StreamInv
  <1> QED BY <1>2, <1>7 DEF HashInv

\* The invariant is about the variables alone.
LEMMA StutterHolds == HashInv /\ UNCHANGED vars => HashInv'
  BY ZenonT(60) DEF HashInv, StageInv, HashingInv, DigestsAgree, StreamInv, StreamHeld, vars

\* The inductive invariant of the three functions.
LEMMA HashInvHolds == Spec => []HashInv
  <1>1. HashInv /\ [Next]_vars => HashInv'
    BY RefuseHolds, BeginDigestHolds, UpdateHolds, EndDigestHolds, BeginBlockHolds,
       EndBlockHolds, ExpandBlockHolds, ResizeHolds, StutterHolds DEF Next
  <1> QED BY InitHolds, <1>1, PTL DEF Spec

\* For every message, key and size, the client's BLAKE2b compresses what RFC 7693
\* says.
THEOREM ClientDigestsAgree == Spec => []DigestsAgree
  <1>1. HashInv => DigestsAgree
    BY DEF HashInv
  <1> QED BY HashInvHolds, <1>1, PTL
-----------------------------------------------------------------------------
\* A quotient of a quotient.
LEMMA DivDiv ==
  ASSUME NEW a \in Nat, NEW p \in Nat \ {0}, NEW b \in Nat \ {0}
  PROVE  (a \div p) \div b = a \div (b * p)
  <1> DEFINE q == a \div p
             u == q \div b
             v == q % b
             r == a % p
             z == b * p
  <1>1. q \in Nat /\ r \in 0 .. p - 1 /\ a = q * p + r
    BY DivMod
  <1>2. u \in Nat /\ v \in 0 .. b - 1 /\ q = u * b + v
    <2> HIDE DEF q
    <2> QED BY <1>1, DivMod
  <1>3. z \in Nat \ {0}
    OBVIOUS
  <1> HIDE DEF q, r, u, v
  <1>4. a = u * z + (v * p + r)
    <2>1. q * p = u * (b * p) + v * p
      BY <1>1, <1>2
    <2> QED BY <1>1, <1>2, <2>1
  <1>5. v * p + r \in 0 .. z - 1
    <2>1. (v + 1) * p <= b * p
      BY <1>2
    <2>2. (v + 1) * p = v * p + p /\ v * p \in Nat
      BY <1>2
    <2> QED BY <1>1, <1>2, <2>1, <2>2
  <1>6. a \div z = u
    <2> DEFINE w == v * p + r
    <2>1. w \in 0 .. z - 1 /\ a = u * z + w
      BY <1>4, <1>5
    <2> HIDE DEF w, z
    <2> QED BY <1>2, <1>3, <2>1, DivModUnique
  <1> QED BY <1>6 DEF u, q

\* be64 is injective on the counters that fit in its bytes.
LEMMA CounterInjective ==
  ASSUME NEW a \in 0 .. Power[CounterLen] - 1, NEW b \in 0 .. Power[CounterLen] - 1,
         be64(a) = be64(b)
  PROVE  a = b
  <1>0. CounterLen \in Nat /\ ByteBase \in Nat \ {0}
    BY HashAssumption
  <1>1. Power[CounterLen] \in Nat \ {0} /\ a \in Nat /\ b \in Nat
    BY <1>0, PowerFacts
  <1> DEFINE U == {k \in Nat : k <= CounterLen =>
                     a \div Power[CounterLen - k] = b \div Power[CounterLen - k]}
  <1>2. 0 \in U
    <2>1. ASSUME NEW x \in 0 .. Power[CounterLen] - 1 PROVE x \div Power[CounterLen] = 0
      <3>1. x = 0 * Power[CounterLen] + x
        BY <1>1
      <3> QED BY <1>1, <3>1, DivModUnique
    <2>2. CounterLen - 0 = CounterLen
      BY <1>0
    <2> QED BY <2>1, <2>2
  <1>3. ASSUME NEW k \in U PROVE k + 1 \in U
    <2>1. SUFFICES ASSUME k + 1 <= CounterLen
                   PROVE  a \div Power[CounterLen - (k + 1)] = b \div Power[CounterLen - (k + 1)]
      OBVIOUS
    <2>2. PICK e \in Nat : e = CounterLen - (k + 1)
      BY <1>0, <2>1
    <2>3. e + 1 = CounterLen - k /\ k + 1 \in 1 .. CounterLen /\ k <= CounterLen
      BY <1>0, <2>1, <2>2
    <2>4. /\ Power[e] \in Nat \ {0} /\ Power[e + 1] = ByteBase * Power[e]
      BY PowerFacts
    <2>5. a \div Power[e + 1] = b \div Power[e + 1]
      BY <2>3
    <2>6. (a \div Power[e]) % ByteBase = (b \div Power[e]) % ByteBase
      <3>1. be64(a)[k + 1] = be64(b)[k + 1]
        OBVIOUS
      <3>2. be64(a)[k + 1] = (a \div Power[e]) % ByteBase
        BY <2>2, <2>3 DEF be64
      <3>3. be64(b)[k + 1] = (b \div Power[e]) % ByteBase
        BY <2>2, <2>3 DEF be64
      <3> QED BY <3>1, <3>2, <3>3
    <2>7. ASSUME NEW x \in Nat
          PROVE  /\ x \div Power[e] \in Nat
                 /\ x \div Power[e] = (x \div Power[e + 1]) * ByteBase
                                      + ((x \div Power[e]) % ByteBase)
      <3>1. PICK q \in Nat : q = x \div Power[e]
        BY <2>4, DivMod
      <3>2. q = (q \div ByteBase) * ByteBase + (q % ByteBase)
        BY <1>0, DivMod
      <3>3. q \div ByteBase = x \div Power[e + 1]
        BY <1>0, <2>4, <3>1, DivDiv
      <3> QED BY <3>1, <3>2, <3>3
    <2>8. a \div Power[e] = b \div Power[e]
      BY <1>1, <2>5, <2>6, <2>7
    <2> QED BY <2>2, <2>8
  <1>4. Nat \subseteq U
    <2> HIDE DEF U
    <2> QED BY <1>2, <1>3, SetInduction
  <1>5. a \div Power[0] = b \div Power[0]
    <2>1. CounterLen \in U /\ CounterLen - CounterLen = 0
      BY <1>0, <1>4
    <2> QED BY <1>0, <2>1
  <1>6. ASSUME NEW x \in Nat PROVE x \div Power[0] = x
    <2>1. x = x * 1 + 0 /\ 0 \in 0 .. 1 - 1 /\ 1 \in Nat \ {0}
      OBVIOUS
    <2>2. (x * 1 + 0) \div 1 = x
      BY DivModUnique
    <2> QED BY <2>1, <2>2, PowerFacts
  <1> QED BY <1>1, <1>5, <1>6

\* The number of blocks, and how far they reach.
LEMMA BlocksReach ==
  ASSUME NEW m \in Nat
  PROVE  \E n \in Nat : n + 1 = Max({1, BlocksOf(m, BlockSize)}) /\ m <= At(n + 1)
  <1>0. BlockSize \in Nat \ {0}
    BY HashAssumption
  <1> DEFINE q == m \div BlockSize
             r == m % BlockSize
  <1>1. q \in Nat /\ r \in 0 .. BlockSize - 1 /\ m = q * BlockSize + r
    BY <1>0, DivMod
  <1> HIDE DEF q, r
  <1>2. CASE r > 0
    <2>1. r \in 0 .. BlockSize /\ (q > 0 => r > 0)
      BY <1>0, <1>1, <1>2
    <2>2. Max({1, BlocksOf(q * BlockSize + r, BlockSize)}) = q + 1
      BY <1>1, <2>1, LastBlock
    <2>3. m <= At(q + 1)
      BY <1>0, <1>1 DEF At
    <2> QED BY <1>1, <2>2, <2>3
  <1>3. CASE r = 0 /\ q = 0
    <2>1. 0 \in 0 .. BlockSize /\ (0 > 0 => 0 > 0) /\ 0 \in Nat
      BY <1>0
    <2>2. Max({1, BlocksOf(0 * BlockSize + 0, BlockSize)}) = 0 + 1
      BY <2>1, LastBlock
    <2>3. m = 0 * BlockSize + 0 /\ m <= At(0 + 1)
      BY <1>0, <1>1, <1>3 DEF At
    <2> QED BY <2>2, <2>3
  <1>4. CASE r = 0 /\ q > 0
    <2>1. PICK n \in Nat : n = q - 1
      BY <1>1, <1>4
    <2>2. BlockSize \in 0 .. BlockSize /\ (n > 0 => BlockSize > 0)
      BY <1>0
    <2>3. Max({1, BlocksOf(n * BlockSize + BlockSize, BlockSize)}) = n + 1
      BY <2>2, LastBlock
    <2>4. m = n * BlockSize + BlockSize
      <3>1. q = n + 1
        BY <1>1, <2>1
      <3> QED BY <1>0, <1>1, <1>4, <3>1
    <2>5. m <= At(n + 1)
      BY <1>0, <2>4 DEF At
    <2> QED BY <2>3, <2>4, <2>5
  <1>5. r > 0 \/ (r = 0 /\ q = 0) \/ (r = 0 /\ q > 0)
    BY <1>0, <1>1
  <1> QED BY <1>2, <1>3, <1>4, <1>5

\* Every byte of a message is in one of the blocks that are compressed.
LEMMA BlockByte ==
  ASSUME NEW w, IsRow(w), NEW n \in Nat, Len(w) <= At(n + 1), NEW j \in 1 .. Len(w)
  PROVE  \E i \in 1 .. n + 1 : \E o : RfcRecords(w, n + 1)[i].block[o] = w[j]
                                    /\ i = ((j - 1) \div BlockSize) + 1
                                    /\ o = ((j - 1) % BlockSize) + 1
  <1>0. BlockSize \in Nat \ {0} /\ Len(w) \in Nat /\ w = [x \in 1 .. Len(w) |-> w[x]]
    BY HashAssumption DEF IsRow
  <1> DEFINE q == (j - 1) \div BlockSize
             r == (j - 1) % BlockSize
  <1>1. j - 1 \in Nat
    BY <1>0
  <1>2. q \in Nat /\ r \in 0 .. BlockSize - 1 /\ j - 1 = q * BlockSize + r
    BY <1>0, <1>1, DivMod
  <1> HIDE DEF q, r
  <1>3. At(q) \in Nat /\ At(q + 1) = At(q) + BlockSize /\ j = At(q) + r + 1
        /\ At(n + 1) \in Nat
    <2>1. j = q * BlockSize + r + 1
      BY <1>0, <1>2
    <2>2. At(q) = q * BlockSize
      BY DEF At
    <2>3. At(q) \in Nat /\ At(q + 1) = At(q) + BlockSize
      BY <1>2, AtFacts
    <2>4. At(n) \in Nat /\ At(n + 1) = At(n) + BlockSize
      BY AtFacts
    <2>5. At(n + 1) \in Nat
      BY <1>0, <2>4
    <2> QED BY <2>1, <2>2, <2>3, <2>5
  <1>4. q <= n
    <2>1. CASE n + 1 <= q
      <3>1. At(n + 1) <= At(q)
        BY <1>2, <2>1, AtGrows
      <3> QED BY <1>0, <1>2, <1>3, <3>1, SMTT(30)
    <2> QED BY <1>2, <2>1
  <1> DEFINE k == At(n + 1) - Len(w)
             f == Full(w, n + 1)
             e == At(q + 1)
  <1>5. k \in Nat /\ Len(w) + k = At(n + 1) /\ Zeros(k) = [x \in 1 .. k |-> Zeros(k)[x]]
    BY <1>0, <1>3 DEF Zeros
  <1>6. f = [x \in 1 .. Len(w) + k |-> IF x <= Len(w) THEN w[x] ELSE Zeros(k)[x - Len(w)]]
    <2> HIDE DEF k
    <2>1. f = w \o Zeros(k)
      BY DEF Full, k
    <2> HIDE DEF f
    <2> QED BY <1>0, <1>5, <2>1, ConcatFunction
  <1>7. e <= At(n + 1)
    BY <1>2, <1>4, AtGrows
  <1>8. PICK a \in Nat : a = At(q) + 1
    BY <1>3
  <1>9. e \in Nat /\ a >= 1 /\ a <= e + 1 /\ e - a + 1 = BlockSize
    BY <1>0, <1>3, <1>8
  <1> HIDE DEF k, f, e
  <1>10. SubSeq(f, a, e) = Slice(f, a, e)
    <2>1. PICK l \in Nat : l = At(n + 1)
      BY <1>3
    <2>2. f = [x \in 1 .. l |-> f[x]] /\ e <= l
      BY <1>5, <1>6, <1>7, <2>1
    <2> QED BY <1>8, <1>9, <2>2, SubSeqFunction, ZenonT(60)
  <1>11. SubSeq(f, a, e)[r + 1] = f[j]
    <2>3. r + 1 \in 1 .. BlockSize
      BY <1>0, <1>2
    <2>4. a + (r + 1) - 1 = j
      BY <1>2, <1>3, <1>8
    <2>1. r + 1 \in 1 .. e - a + 1 /\ a + (r + 1) - 1 = j
      BY <1>9, <2>3, <2>4
    <2>2. Slice(f, a, e)[r + 1] = f[a + (r + 1) - 1]
      BY <2>1 DEF Slice
    <2> QED BY <1>10, <2>1, <2>2
  <1>12. f[j] = w[j]
    BY <1>0, <1>5, <1>6
  <1>13. RfcRecords(w, n + 1)[q + 1].block = SubSeq(f, a, e) /\ q + 1 \in 1 .. n + 1
    <2>1. q + 1 \in 1 .. n + 1 /\ (q + 1) - 1 = q
      BY <1>2, <1>4
    <2>2. RfcRecords(w, n + 1)[q + 1] = RfcRecord(w, n + 1, q + 1)
      BY <2>1 DEF RfcRecords
    <2>3. RfcRecord(w, n + 1, q + 1).block = SubSeq(Full(w, n + 1), At((q + 1) - 1) + 1, At(q + 1))
      BY DEF RfcRecord
    <2> QED BY <1>8, <2>1, <2>2, <2>3 DEF f, e
  <1> QED BY <1>11, <1>12, <1>13 DEF q, r

\* hashlib's term tells messages of one length apart.
LEMMA HashlibInjective ==
  ASSUME NEW key, NEW size, NEW m1, NEW m2,
         IsRow(KeyBlock(key) \o m1), IsRow(KeyBlock(key) \o m2),
         Len(KeyBlock(key) \o m1) = Len(KeyBlock(key) \o m2),
         hashlib(m1, key, size) = hashlib(m2, key, size)
  PROVE  \A j \in 1 .. Len(KeyBlock(key) \o m1) :
           (KeyBlock(key) \o m1)[j] = (KeyBlock(key) \o m2)[j]
  <1>1. PICK w1, w2 : w1 = KeyBlock(key) \o m1 /\ w2 = KeyBlock(key) \o m2
    OBVIOUS
  <1>2. IsRow(w1) /\ IsRow(w2) /\ Len(w1) = Len(w2) /\ Len(w1) \in Nat
    BY <1>1 DEF IsRow
  <1>3. PICK n \in Nat : n + 1 = Max({1, BlocksOf(Len(w1), BlockSize)}) /\ Len(w1) <= At(n + 1)
    BY <1>2, BlocksReach
  <1> DEFINE p == Params(size, Len(key))
  <1>4. ASSUME NEW m, NEW w, w = KeyBlock(key) \o m, IsRow(w), Len(w) = Len(w1)
        PROVE  /\ hashlib(m, key, size) = <<p>> \o RfcRecords(w, n + 1)
               /\ \A i \in 1 .. n + 1 :
                    (<<p>> \o RfcRecords(w, n + 1))[i + 1] = RfcRecords(w, n + 1)[i]
    <2>1. hashlib(m, key, size) = <<p>> \o RfcRecords(w, n + 1)
      BY <1>3, <1>4, HashlibIs
    <2>2. <<p>> = [i \in 1 .. 1 |-> <<p>>[i]]
      OBVIOUS
    <2>3. RfcRecords(w, n + 1) = [i \in 1 .. n + 1 |-> RfcRecords(w, n + 1)[i]]
      BY DEF RfcRecords
    <2>4. <<p>> \o RfcRecords(w, n + 1) =
            [i \in 1 .. 1 + (n + 1) |-> IF i <= 1 THEN <<p>>[i]
                                        ELSE RfcRecords(w, n + 1)[i - 1]]
      BY <2>2, <2>3, ConcatFunction
    <2>5. ASSUME NEW i \in 1 .. n + 1
          PROVE  (<<p>> \o RfcRecords(w, n + 1))[i + 1] = RfcRecords(w, n + 1)[i]
      <3>1. i + 1 \in 1 .. 1 + (n + 1) /\ ~ (i + 1 <= 1) /\ (i + 1) - 1 = i
        OBVIOUS
      <3> QED BY <2>4, <3>1
    <2> QED BY <2>1, <2>5
  <1> HIDE DEF p
  <1>5. ASSUME NEW i \in 1 .. n + 1 PROVE RfcRecords(w1, n + 1)[i] = RfcRecords(w2, n + 1)[i]
    <2>1. <<p>> \o RfcRecords(w1, n + 1) = <<p>> \o RfcRecords(w2, n + 1)
      BY <1>1, <1>2, <1>4
    <2>2. (<<p>> \o RfcRecords(w1, n + 1))[i + 1] = RfcRecords(w1, n + 1)[i]
      BY <1>1, <1>2, <1>4
    <2>3. (<<p>> \o RfcRecords(w2, n + 1))[i + 1] = RfcRecords(w2, n + 1)[i]
      BY <1>1, <1>2, <1>4
    <2> QED BY <2>1, <2>2, <2>3
  <1>6. ASSUME NEW j \in 1 .. Len(w1) PROVE w1[j] = w2[j]
    <2>1. \E i \in 1 .. n + 1 : \E o : RfcRecords(w1, n + 1)[i].block[o] = w1[j]
                                      /\ i = ((j - 1) \div BlockSize) + 1
                                      /\ o = ((j - 1) % BlockSize) + 1
      BY <1>2, <1>3, BlockByte
    <2>2. \E i \in 1 .. n + 1 : \E o : RfcRecords(w2, n + 1)[i].block[o] = w2[j]
                                      /\ i = ((j - 1) \div BlockSize) + 1
                                      /\ o = ((j - 1) % BlockSize) + 1
      BY <1>2, <1>3, BlockByte
    <2> QED BY <2>1, <2>2, <1>5
  <1> QED BY <1>1, <1>6

\* No two blocks of a keystream are of one term.
LEMMA KeystreamInjective ==
  ASSUME NEW c \in Calls, NEW a \in 0 .. Power[CounterLen] - 1,
         NEW b \in 0 .. Power[CounterLen] - 1,
         hashlib(c.data \o be64(a), c.key, HashLen) = hashlib(c.data \o be64(b), c.key, HashLen)
  PROVE  a = b
  <1>0. CounterLen \in Nat /\ Power[CounterLen] \in Nat
    BY HashAssumption, PowerFacts
  <1>1. c.key \in Seq(Byte) /\ c.data \in Seq(Byte)
    BY CallsAssumption
  <1>2. PICK k : k = KeyBlock(c.key)
    OBVIOUS
  <1>3. k \in Seq(Byte) /\ Len(k) \in Nat /\ Len(c.data) \in Nat
    <2>1. k \in Seq(Byte)
      BY <1>1, <1>2, KeyBlockRow
    <2> QED BY <1>1, <2>1
  <1>4. ASSUME NEW i \in Nat
        PROVE  /\ IsRow(k \o (c.data \o be64(i)))
               /\ Len(k \o (c.data \o be64(i))) = Len(k) + (Len(c.data) + CounterLen)
               /\ \A x \in 1 .. CounterLen :
                    (k \o (c.data \o be64(i)))[Len(k) + (Len(c.data) + x)] = be64(i)[x]
    <2>1. PICK y : y = be64(i)
      OBVIOUS
    <2>2. y \in Seq(Byte) /\ Len(y) = CounterLen
      BY <2>1, CounterBytes
    <2>3. PICK d : d = c.data \o y
      OBVIOUS
    <2>4. d \in Seq(Byte) /\ Len(d) = Len(c.data) + CounterLen
      BY <1>1, <2>2, <2>3, ConcatProperties
    <2>5. PICK w : w = k \o d
      OBVIOUS
    <2>6. w \in Seq(Byte) /\ Len(w) = Len(k) + Len(d)
      BY <1>3, <2>4, <2>5, ConcatProperties
    <2>7. IsRow(w)
      BY <2>6, SeqIs DEF IsRow
    <2>8. ASSUME NEW x \in 1 .. CounterLen PROVE w[Len(k) + (Len(c.data) + x)] = y[x]
      <3>1. PICK l \in Nat, m \in Nat : l = Len(c.data) /\ m = Len(k)
        BY <1>3
      <3>2. d[l + x] = y[x]
        BY <1>1, <2>2, <2>3, <3>1, ConcatAt
      <3>3. l + x \in 1 .. Len(d)
        BY <1>0, <2>4, <3>1
      <3>4. PICK z \in 1 .. Len(d) : z = l + x
        BY <3>3
      <3>5. w[m + z] = d[z]
        BY <1>3, <2>4, <2>5, <3>1, ConcatAt
      <3> QED BY <3>1, <3>2, <3>4, <3>5
    <2> QED BY <2>1, <2>3, <2>4, <2>5, <2>6, <2>7, <2>8
  <1>5. a \in Nat /\ b \in Nat
    OBVIOUS
  <1>6. PICK m1, m2 : m1 = c.data \o be64(a) /\ m2 = c.data \o be64(b)
    OBVIOUS
  <1>7. \A j \in 1 .. Len(k \o m1) : (k \o m1)[j] = (k \o m2)[j]
    <2>1. IsRow(k \o m1) /\ IsRow(k \o m2) /\ Len(k \o m1) = Len(k \o m2)
      BY <1>4, <1>5, <1>6
    <2>2. hashlib(m1, c.key, HashLen) = hashlib(m2, c.key, HashLen)
      BY <1>6
    <2> QED BY <1>2, <2>1, <2>2, HashlibInjective
  <1>8. ASSUME NEW x \in 1 .. CounterLen PROVE be64(a)[x] = be64(b)[x]
    <2>1. Len(k) + (Len(c.data) + x) \in 1 .. Len(k \o m1)
      <3>1. Len(k \o m1) = Len(k) + (Len(c.data) + CounterLen)
        BY <1>4, <1>5, <1>6
      <3> QED BY <1>0, <1>3, <3>1
    <2>2. (k \o m1)[Len(k) + (Len(c.data) + x)] = be64(a)[x]
      BY <1>4, <1>5, <1>6
    <2>3. (k \o m2)[Len(k) + (Len(c.data) + x)] = be64(b)[x]
      BY <1>4, <1>5, <1>6
    <2> QED BY <1>7, <2>1, <2>2, <2>3
  <1>9. be64(a) = be64(b)
    <2>1. be64(a) = [x \in 1 .. CounterLen |-> be64(a)[x]]
      BY DEF be64
    <2>2. be64(b) = [x \in 1 .. CounterLen |-> be64(b)[x]]
      BY DEF be64
    <2> QED BY <1>8, <2>1, <2>2
  <1> QED BY <1>9, CounterInjective

\* No two blocks of a chain are of one term, whatever the counters are.
LEMMA ChainInjective ==
  ASSUME NEW ts, NEW n \in Nat, IsChain(ts, n), NEW i \in 1 .. n, NEW j \in 1 .. n, i < j
  PROVE  ts[i] # ts[j]
  <1> DEFINE d == j - i
             U == {k \in Nat : \A x \in 1 .. n, y \in 1 .. n :
                                 x = k + 1 /\ x < y => ts[x] # ts[y]}
  <1>1. ASSUME NEW x \in 1 .. n
        PROVE  /\ ts[x] = <<"hmac", LastTerm(ts, x - 1), x % ByteBase>>
               /\ ts[x] # <<>>
    <2>1. ts[x] = <<"hmac", LastTerm(ts, x - 1), x % ByteBase>>
      BY DEF IsChain
    <2>2. \A u, v : <<"hmac", u, v>> # <<>>
      OBVIOUS
    <2> QED BY <2>1, <2>2
  <1>2. 0 \in U
    <2> SUFFICES ASSUME NEW x \in 1 .. n, NEW y \in 1 .. n, x = 0 + 1, x < y
                 PROVE  ts[x] # ts[y]
      OBVIOUS
    <2>1. LastTerm(ts, x - 1) = <<>>
      BY DEF LastTerm
    <2>2. LastTerm(ts, y - 1) = ts[y - 1] /\ y - 1 \in 1 .. n
      BY DEF LastTerm
    <2>3. LastTerm(ts, y - 1) # <<>>
      BY <1>1, <2>2
    <2> QED BY <1>1, <2>1, <2>3
  <1>3. ASSUME NEW k \in U PROVE k + 1 \in U
    <2> SUFFICES ASSUME NEW x \in 1 .. n, NEW y \in 1 .. n, x = (k + 1) + 1, x < y
                 PROVE  ts[x] # ts[y]
      OBVIOUS
    <2>1. x - 1 \in 1 .. n /\ y - 1 \in 1 .. n /\ x - 1 = k + 1 /\ x - 1 < y - 1
      OBVIOUS
    <2>2. ts[x - 1] # ts[y - 1]
      BY <2>1
    <2>3. LastTerm(ts, x - 1) = ts[x - 1] /\ LastTerm(ts, y - 1) = ts[y - 1]
      BY <2>1 DEF LastTerm
    <2> QED BY <1>1, <2>2, <2>3
  <1>4. Nat \subseteq U
    <2> HIDE DEF U
    <2> QED BY <1>2, <1>3, SetInduction
  <1>5. PICK k \in Nat : i = k + 1
    <2>1. i - 1 \in Nat /\ i = (i - 1) + 1
      OBVIOUS
    <2> QED BY <2>1
  <1> QED BY <1>4, <1>5

\* The server's blocks, as far as its counter goes.
LEMMA ChainIsServers ==
  ASSUME NEW ts, NEW n \in Nat, IsChain(ts, n), n < ByteBase
  PROVE  \A i \in 1 .. n : ts[i] = T[i]
  <1>0. ByteBase \in Nat \ {0}
    BY HashAssumption
  <1> DEFINE U == {k \in Nat : k + 1 \in 1 .. n => ts[k + 1] = T[k + 1]}
  <1>1. ASSUME NEW k \in Nat, k + 1 \in 1 .. n
        PROVE  /\ ts[k + 1] = <<"hmac", LastTerm(ts, k), k + 1>>
               /\ T[k + 1] = <<"hmac", T[k], k + 1>>
    <2>1. PICK i \in 1 .. n : i = k + 1
      BY <1>1
    <2>2. i % ByteBase = i
      <3>1. i \in 0 .. ByteBase - 1 /\ i = 0 * ByteBase + i
        BY <1>0
      <3> QED BY <1>0, <3>1, DivModUnique
    <2>3. ts[i] = <<"hmac", LastTerm(ts, i - 1), i % ByteBase>>
      BY DEF IsChain
    <2>4. i - 1 = k
      BY <2>1
    <2>5. T[k + 1] = <<"hmac", T[k], k + 1>>
      BY ChainFacts
    <2> QED BY <2>1, <2>2, <2>3, <2>4, <2>5
  <1>2. 0 \in U
    <2> SUFFICES ASSUME 0 + 1 \in 1 .. n PROVE ts[0 + 1] = T[0 + 1]
      OBVIOUS
    <2>1. LastTerm(ts, 0) = <<>> /\ T[0] = <<>>
      BY ChainFacts DEF LastTerm
    <2> QED BY <1>1, <2>1
  <1>3. ASSUME NEW k \in U PROVE k + 1 \in U
    <2> SUFFICES ASSUME (k + 1) + 1 \in 1 .. n PROVE ts[(k + 1) + 1] = T[(k + 1) + 1]
      OBVIOUS
    <2>1. k + 1 \in 1 .. n /\ k + 1 \in Nat /\ k + 1 # 0
      OBVIOUS
    <2>2. LastTerm(ts, k + 1) = ts[k + 1] /\ ts[k + 1] = T[k + 1]
      BY <2>1 DEF LastTerm
    <2> QED BY <1>1, <2>1, <2>2
  <1>4. Nat \subseteq U
    <2> HIDE DEF U
    <2> QED BY <1>2, <1>3, SetInduction
  <1>5. ASSUME NEW i \in 1 .. n PROVE ts[i] = T[i]
    <2>1. i - 1 \in U /\ (i - 1) + 1 = i
      BY <1>4
    <2> QED BY <2>1
  <1> QED BY <1>5

\* No byte of a stream of different blocks is put out twice.
LEMMA StreamInjective ==
  ASSUME NEW ts, NEW n \in Nat, \A i, j \in 1 .. n : i # j => ts[i] # ts[j],
         NEW a \in 1 .. n * HashLen, NEW b \in 1 .. n * HashLen,
         Stream(ts, n)[a] = Stream(ts, n)[b]
  PROVE  a = b
  <1>0. HashLen \in Nat \ {0} /\ n * HashLen \in Nat
    BY HashAssumption
  <1>1. ASSUME NEW x \in 1 .. n * HashLen
        PROVE  /\ Stream(ts, n)[x] = <<ts[((x - 1) \div HashLen) + 1], ((x - 1) % HashLen) + 1>>
               /\ (x - 1) \div HashLen \in 0 .. n - 1 /\ ((x - 1) % HashLen) \in 0 .. HashLen - 1
               /\ x - 1 = ((x - 1) \div HashLen) * HashLen + ((x - 1) % HashLen)
    BY StreamIs, BytePlace
  <1>2. PICK p \in 0 .. n - 1, r \in 0 .. HashLen - 1 :
          Stream(ts, n)[a] = <<ts[p + 1], r + 1>> /\ a - 1 = p * HashLen + r
    BY <1>1
  <1>3. PICK q \in 0 .. n - 1, s \in 0 .. HashLen - 1 :
          Stream(ts, n)[b] = <<ts[q + 1], s + 1>> /\ b - 1 = q * HashLen + s
    BY <1>1
  <1>4. ts[p + 1] = ts[q + 1] /\ r + 1 = s + 1
    <2>1. PICK u, v : u = ts[p + 1] /\ v = ts[q + 1]
      OBVIOUS
    <2>2. <<u, r + 1>> = <<v, s + 1>>
      BY <1>2, <1>3, <2>1
    <2>3. u = v /\ r + 1 = s + 1
      BY <2>2
    <2> QED BY <2>1, <2>3
  <1>5. p + 1 = q + 1
    <2>1. p + 1 \in 1 .. n /\ q + 1 \in 1 .. n
      OBVIOUS
    <2> QED BY <1>4, <2>1
  <1>6. p = q /\ r = s
    BY <1>4, <1>5
  <1> QED BY <1>0, <1>2, <1>3, <1>6
-----------------------------------------------------------------------------
\* The blocks of the call that has returned.
LEMMA Returned ==
  ASSUME HashInv, stage = "returned", call.kind # "digest"
  PROVE  \E n \in Nat : \E ts : /\ StreamHeld(n, ts)
                               /\ out = SubSeq(Stream(ts, n), 1, call.length)
                               /\ n = BlocksOf(call.length, HashLen)
                               /\ call.length <= n * HashLen
                               /\ call.length \in Nat
  <1>0. PICK n \in Nat : \E ts : StreamHeld(n, ts)
    BY DEF HashInv, StreamInv
  <1>1. PICK ts : StreamHeld(n, ts)
    BY <1>0
  <1>2. /\ out = SubSeq(Stream(ts, n), 1, call.length) /\ call.length <= n * HashLen
        /\ (n > 0 => (n - 1) * HashLen < call.length)
    BY <1>1 DEF StreamHeld
  <1>3. call.length \in Nat
    BY CallsAssumption DEF HashInv, StageInv
  <1>4. n = BlocksOf(call.length, HashLen)
    BY <1>2, <1>3, BlocksNeeded
  <1> QED BY <1>1, <1>2, <1>3, <1>4

\* A keystream returned is the server's.
LEMMA KeystreamIsServers ==
  ASSUME HashInv, stage = "returned", call.kind = "keystream"
  PROVE  out = ServerKeystream(call.key, call.data, call.length)
  <1>0. PICK n \in Nat : \E ts : /\ StreamHeld(n, ts)
                                 /\ out = SubSeq(Stream(ts, n), 1, call.length)
                                 /\ n = BlocksOf(call.length, HashLen)
    BY Returned
  <1>1. PICK ts : /\ StreamHeld(n, ts)
                  /\ out = SubSeq(Stream(ts, n), 1, call.length)
                  /\ n = BlocksOf(call.length, HashLen)
    BY <1>0
  <1>2. ts = KeystreamTerms(call, n)
    BY <1>1 DEF StreamHeld
  <1>3. Rows(ts, n) =
          [i \in 1 .. n |-> Bytes(hashlib(call.data \o be64(i - 1), call.key, HashLen), HashLen)]
    BY <1>2 DEF Rows, KeystreamTerms
  <1>4. ServerKeystream(call.key, call.data, call.length) =
          SubSeq(FlattenSeq(Rows(ts, n)), 1, call.length)
    BY <1>1, <1>3 DEF ServerKeystream
  <1> QED BY <1>1, <1>4, FlattenStream

\* A derived key returned is the server's, for the lengths the server derives.
LEMMA ExpandIsServers ==
  ASSUME HashInv, stage = "returned", call.kind = "expand", ServerExpands(call.length)
  PROVE  out = ServerExpand(call.length)
  <1>0. PICK n \in Nat : \E ts : /\ StreamHeld(n, ts)
                                 /\ out = SubSeq(Stream(ts, n), 1, call.length)
                                 /\ n = BlocksOf(call.length, HashLen)
    BY Returned
  <1>1. PICK ts : /\ StreamHeld(n, ts)
                  /\ out = SubSeq(Stream(ts, n), 1, call.length)
                  /\ n = BlocksOf(call.length, HashLen)
    BY <1>0
  <1>2. IsChain(ts, n) /\ n < ByteBase
    BY <1>1 DEF StreamHeld, ServerExpands
  <1>3. Rows(ts, n) = [i \in 1 .. n |-> Bytes(T[i], HashLen)]
    BY <1>2, ChainIsServers DEF Rows
  <1>4. ServerExpand(call.length) = SubSeq(FlattenSeq(Rows(ts, n)), 1, call.length)
    BY <1>1, <1>3 DEF ServerExpand
  <1> QED BY <1>1, <1>4, FlattenStream

\* A keystream is cut before its counter runs out of be64.
LEMMA TermsDiffer ==
  ASSUME HashInv, stage = "returned", NEW n \in Nat, NEW ts, StreamHeld(n, ts),
         call.kind # "digest"
  PROVE  \A i, j \in 1 .. n : i # j => ts[i] # ts[j]
  <1>1. call \in Calls /\ call.kind \in {"digest", "keystream", "expand"}
    BY CallsAssumption DEF HashInv, StageInv
  <1>2. CASE call.kind = "expand"
    <2>1. IsChain(ts, n)
      BY <1>2 DEF StreamHeld
    <2>2. ASSUME NEW i \in 1 .. n, NEW j \in 1 .. n, i # j PROVE ts[i] # ts[j]
      <3>1. i < j \/ j < i
        BY <2>2
      <3> QED BY <2>1, <3>1, ChainInjective
    <2> QED BY <2>2
  <1>3. CASE call.kind = "keystream"
    <2>0. HashLen \in Nat \ {0} /\ CounterLen \in Nat
      BY HashAssumption
    <2>1. PICK m \in Nat : m = Power[CounterLen]
      BY <2>0, PowerFacts
    <2>2. call.length <= HashLen * m /\ call.length \in Nat
      BY <1>1, <1>3, <2>1, CallsAssumption
    <2>3. n <= m
      <3>1. CASE n > m
        <4>1. (n - 1) * HashLen < call.length
          BY <3>1, <2>1 DEF StreamHeld
        <4>2. (n - 1) * HashLen >= m * HashLen
          BY <3>1, <2>0
        <4>3. m * HashLen = HashLen * m /\ (n - 1) * HashLen \in Int /\ m * HashLen \in Nat
          BY <2>0
        <4> QED BY <2>2, <4>1, <4>2, <4>3
      <3> QED BY <3>1
    <2>4. ts = KeystreamTerms(call, n)
      BY <1>3 DEF StreamHeld
    <2>5. ASSUME NEW i \in 1 .. n, NEW j \in 1 .. n, ts[i] = ts[j] PROVE i = j
      <3>1. /\ hashlib(call.data \o be64(i - 1), call.key, HashLen) =
                  hashlib(call.data \o be64(j - 1), call.key, HashLen)
        BY <2>4, <2>5 DEF KeystreamTerms
      <3>2. PICK a \in 0 .. Power[CounterLen] - 1, b \in 0 .. Power[CounterLen] - 1 :
              a = i - 1 /\ b = j - 1
        BY <2>1, <2>3
      <3>3. a = b
        BY <1>1, <3>1, <3>2, KeystreamInjective
      <3> QED BY <3>2, <3>3
    <2> QED BY <2>5
  <1> QED BY <1>1, <1>2, <1>3

\* No byte of what is returned is put out twice.
LEMMA NothingTwice ==
  ASSUME HashInv, stage = "returned"
  PROVE  \A i, j \in DOMAIN out : out[i] = out[j] => i = j
  <1>1. call \in Calls /\ call.length \in Nat
    BY CallsAssumption DEF HashInv, StageInv
  <1>2. CASE call.kind = "digest"
    <2>1. out = Bytes(hashlib(call.data, call.key, call.length), call.length)
      BY <1>2 DEF HashInv, DigestsAgree
    <2>2. PICK h : h = hashlib(call.data, call.key, call.length)
      OBVIOUS
    <2>3. out = [k \in 1 .. call.length |-> <<h, k>>]
      BY <2>1, <2>2 DEF Bytes
    <2> QED BY <2>3
  <1>3. CASE call.kind # "digest"
    <2>0. PICK n \in Nat : \E ts : /\ StreamHeld(n, ts)
                                   /\ out = SubSeq(Stream(ts, n), 1, call.length)
                                   /\ call.length <= n * HashLen
      BY <1>3, Returned
    <2>1. PICK ts : /\ StreamHeld(n, ts)
                    /\ out = SubSeq(Stream(ts, n), 1, call.length)
                    /\ call.length <= n * HashLen
      BY <2>0
    <2>2. \A i, j \in 1 .. n : i # j => ts[i] # ts[j]
      BY <1>3, <2>1, TermsDiffer
    <2>3. PICK m \in Nat : m = n * HashLen
      BY StreamLength
    <2>4. PICK s : s = Stream(ts, n)
      OBVIOUS
    <2>5. s = [j \in 1 .. m |-> s[j]]
      BY <2>3, <2>4, StreamLength
    <2>6. PICK l \in Nat : l = call.length
      BY <1>1
    <2>7. out = Slice(s, 1, l)
      <3>0. PICK k \in Nat : k = 1
        OBVIOUS
      <3>2. k >= 1 /\ l <= m /\ k <= l + 1
        BY <2>1, <2>3, <2>6, <3>0
      <3>1. SubSeq(s, k, l) = Slice(s, k, l)
        BY <2>5, <3>2, SubSeqFunction, ZenonT(60)
      <3> QED BY <2>1, <2>4, <2>6, <3>0, <3>1
    <2>8. DOMAIN out = 1 .. l /\ \A i \in 1 .. l : out[i] = s[i]
      <3>1. l - 1 + 1 = l /\ \A i \in 1 .. l : 1 + i - 1 = i
        OBVIOUS
      <3> QED BY <2>7, <3>1 DEF Slice
    <2>9. ASSUME NEW i \in 1 .. l, NEW j \in 1 .. l, s[i] = s[j] PROVE i = j
      <3>1. i \in 1 .. n * HashLen /\ j \in 1 .. n * HashLen
        BY <2>1, <2>3, <2>6
      <3>2. Stream(ts, n)[i] = Stream(ts, n)[j]
        BY <2>4, <2>9
      <3> QED BY <2>2, <3>1, <3>2, StreamInjective
    <2> QED BY <2>8, <2>9
  <1> QED BY <1>2, <1>3

\* For every domain, key and length, the client's keystreams and derived keys are
\* the server's, and no byte of one is put out twice.
THEOREM ClientStreamsAgree == Spec => []StreamsAgree
  <1>1. HashInv => StreamsAgree
    BY KeystreamIsServers, ExpandIsServers, NothingTwice DEF StreamsAgree
  <1> QED BY HashInvHolds, <1>1, PTL
=============================================================================
