-------------------------- MODULE FrameCodecProofs --------------------------
(***************************************************************************)
(* The frame on the wire, for every width of a byte, every length of the   *)
(* fields and every frame.                                                 *)
(***************************************************************************)
EXTENDS FrameCodec, DataTheorems
-----------------------------------------------------------------------------
(***************************************************************************)
(* Powers and shifts.                                                      *)
(***************************************************************************)
PowerEquation(f) == f = [e \in Nat |-> IF e = 0 THEN 1 ELSE Quarter * f[e - 1]]

LEMMA PowerExists == PowerEquation(Power)
  <1> DEFINE step == [z \in Nat \X Nat |-> Quarter * z[1]]
  <1>1. Quarter \in Nat /\ step \in [Nat \X Nat -> Nat]
    BY CodecAssumption
  <1>2. PICK f : Follows(f, Nat, 1, step)
    <2>1. PICK A, a : A = Nat /\ a = 1
      OBVIOUS
    <2>2. a \in A /\ step \in [A \X Nat -> A]
      BY <1>1, <2>1
    <2> HIDE DEF step
    <2>3. \E f : Follows(f, A, a, step)
      BY <2>2, Recursion
    <2> QED BY <2>1, <2>3
  <1>3. ASSUME NEW e \in Nat PROVE f[e] = IF e = 0 THEN 1 ELSE Quarter * f[e - 1]
    <2>1. CASE e = 0
      BY <1>2, <2>1 DEF Follows
    <2>2. CASE e # 0
      <3>1. PICK n \in Nat : n = e - 1
        BY <2>2
      <3>2. f[n + 1] = step[<<f[n], n>>] /\ f[n] \in Nat
        BY <1>2 DEF Follows
      <3>3. step[<<f[n], n>>] = Quarter * f[n] /\ n + 1 = e
        BY <3>1, <3>2
      <3> QED BY <2>2, <3>1, <3>2, <3>3
    <2> QED BY <2>1, <2>2
  <1>4. f = [e \in Nat |-> f[e]]
    BY <1>2 DEF Follows
  <1>5. PowerEquation(f)
    BY <1>3, <1>4 DEF PowerEquation
  <1>6. Power = CHOOSE g : PowerEquation(g)
    BY DEF Power, PowerEquation
  <1> HIDE DEF PowerEquation
  <1> QED BY <1>5, <1>6

LEMMA PowerFacts ==
  /\ Power[0] = 1
  /\ \A e \in Nat : Power[e] \in Nat \ {0} /\ Power[e + 1] = Quarter * Power[e]
  <1>1. Power[0] = 1
    BY PowerExists DEF PowerEquation
  <1>2. ASSUME NEW e \in Nat PROVE Power[e + 1] = Quarter * Power[e]
    <2>1. e + 1 \in Nat /\ e + 1 # 0 /\ (e + 1) - 1 = e
      OBVIOUS
    <2> QED BY <2>1, PowerExists DEF PowerEquation
  <1> DEFINE Good == {e \in Nat : Power[e] \in Nat \ {0}}
  <1>3. 0 \in Good
    BY <1>1
  <1>4. ASSUME NEW e \in Good PROVE e + 1 \in Good
    <2>1. Quarter \in Nat \ {0} /\ Power[e] \in Nat \ {0}
          /\ Power[e + 1] = Quarter * Power[e]
      BY <1>2, CodecAssumption
    <2> QED BY <2>1
  <1>5. Nat \subseteq Good
    <2> HIDE DEF Good
    <2> QED BY <1>3, <1>4, SetInduction
  <1> QED BY <1>1, <1>2, <1>5

LEMMA PowerNat ==
  ASSUME NEW e \in Nat
  PROVE  Power[e] \in Nat \ {0}
  BY PowerFacts

\* A shift by a and by b is one by their sum.
LEMMA PowerAdd ==
  ASSUME NEW a \in Nat, NEW b \in Nat
  PROVE  Power[a + b] = Power[a] * Power[b]
  <1> DEFINE Good == {e \in Nat : Power[a + e] = Power[a] * Power[e]}
  <1>1. 0 \in Good
    BY PowerFacts
  <1>2. ASSUME NEW e \in Good PROVE e + 1 \in Good
    <2>1. PICK x \in Nat, y \in Nat, z \in Nat, q \in Nat :
            x = Power[a] /\ y = Power[e] /\ z = Power[a + e] /\ q = Quarter
      BY PowerNat, CodecAssumption
    <2>2. Power[e + 1] = q * y /\ Power[a + (e + 1)] = q * z
      <3>1. a + e \in Nat /\ (a + e) + 1 = a + (e + 1)
        OBVIOUS
      <3>2. Power[(a + e) + 1] = Quarter * Power[a + e]
        BY <3>1, PowerFacts
      <3> QED BY <2>1, <3>1, <3>2, PowerFacts
    <2>3. z = x * y
      BY <2>1
    <2>4. q * z = x * (q * y)
      BY <2>3
    <2> QED BY <2>1, <2>2, <2>4
  <1>3. Nat \subseteq Good
    <2> HIDE DEF Good
    <2> QED BY <1>1, <1>2, SetInduction
  <1> QED BY <1>3

\* A number n as a row of three digits q, s, r.
Digits(n, u, v, q, s, r) ==
  /\ q \in Nat /\ s \in 0 .. v - 1 /\ r \in 0 .. u - 1
  /\ n \div u = q * v + s /\ n % u = r
  /\ n = q * (u * v) + (s * u + r) /\ s * u + r \in 0 .. (u * v) - 1

LEMMA HasDigits ==
  ASSUME NEW n \in Nat, NEW u \in Nat \ {0}, NEW v \in Nat \ {0}
  PROVE  \E q, s, r : Digits(n, u, v, q, s, r)
  <1>0. n \div u \in Nat /\ n % u \in Nat
    BY DivMod
  <1>1. PICK m \in Nat, r \in Nat : m = n \div u /\ r = n % u
    BY <1>0
  <1>2. r \in 0 .. u - 1 /\ n = m * u + r
    BY <1>1, DivMod
  <1>11. m \div v \in Nat /\ m % v \in Nat
    BY DivMod
  <1>3. PICK q \in Nat, s \in Nat : q = m \div v /\ s = m % v
    BY <1>11
  <1>4. s \in 0 .. v - 1 /\ m = q * v + s
    BY <1>3, DivMod
  <1>5. PICK w \in Nat \ {0} : w = u * v
    OBVIOUS
  <1>6. PICK k \in Nat : k = s * u + r
    OBVIOUS
  <1>7. k \in 0 .. w - 1
    <2>1. s + 1 <= v /\ s + 1 \in Nat
      BY <1>4
    <2>2. (s + 1) * u <= v * u
      BY <2>1
    <2>3. (s + 1) * u = s * u + u /\ v * u = w
      BY <1>5
    <2>4. PICK x \in Nat : x = s * u
      OBVIOUS
    <2>5. x + u <= w
      BY <2>2, <2>3, <2>4
    <2> QED BY <1>2, <1>6, <2>4, <2>5
  <1>8. n = q * w + k
    <2>1. m * u = (q * v + s) * u
      BY <1>4
    <2>2. (q * v + s) * u = q * (u * v) + s * u
      OBVIOUS
    <2> QED BY <1>2, <1>5, <1>6, <2>1, <2>2
  <1>9. Digits(n, u, v, q, s, r)
    BY <1>1, <1>2, <1>4, <1>5, <1>6, <1>7, <1>8 DEF Digits
  <1> QED BY <1>9

\* Two shifts are one.
LEMMA ShiftTwice ==
  ASSUME NEW n \in Nat, NEW u \in Nat \ {0}, NEW v \in Nat \ {0}
  PROVE  (n \div u) \div v = n \div (u * v)
  <1>1. PICK q, s, r : Digits(n, u, v, q, s, r)
    BY HasDigits
  <1>2. PICK w \in Nat \ {0}, k \in Nat : w = u * v /\ k = s * u + r
    BY <1>1 DEF Digits
  <1>3. q \in Nat /\ k \in 0 .. w - 1 /\ n = q * w + k
        /\ s \in 0 .. v - 1 /\ n \div u = q * v + s
    BY <1>1, <1>2 DEF Digits
  <1>4. n \div w = q
    BY <1>3, DivModUnique
  <1>5. (q * v + s) \div v = q
    BY <1>3, DivModUnique
  <1> QED BY <1>2, <1>3, <1>4, <1>5

\* What a shift leaves of the lower bits.
LEMMA ShiftOfLow ==
  ASSUME NEW n \in Nat, NEW u \in Nat \ {0}, NEW v \in Nat \ {0}
  PROVE  (n % (u * v)) \div u = (n \div u) % v
  <1>1. PICK q, s, r : Digits(n, u, v, q, s, r)
    BY HasDigits
  <1>2. PICK w \in Nat \ {0}, k \in Nat : w = u * v /\ k = s * u + r
    BY <1>1 DEF Digits
  <1>3. q \in Nat /\ k \in 0 .. w - 1 /\ n = q * w + k
        /\ s \in 0 .. v - 1 /\ n \div u = q * v + s /\ r \in 0 .. u - 1
    BY <1>1, <1>2 DEF Digits
  <1>4. n % w = k
    BY <1>3, DivModUnique
  <1>5. (q * v + s) % v = s
    BY <1>3, DivModUnique
  <1>6. (s * u + r) \div u = s
    BY <1>3, DivModUnique
  <1> QED BY <1>2, <1>3, <1>4, <1>5, <1>6

\* The lower bits of the lower bits.
LEMMA LowOfLow ==
  ASSUME NEW n \in Nat, NEW u \in Nat \ {0}, NEW v \in Nat \ {0}
  PROVE  (n % (u * v)) % u = n % u
  <1>1. PICK q, s, r : Digits(n, u, v, q, s, r)
    BY HasDigits
  <1>2. PICK w \in Nat \ {0}, k \in Nat : w = u * v /\ k = s * u + r
    BY <1>1 DEF Digits
  <1>3. q \in Nat /\ k \in 0 .. w - 1 /\ n = q * w + k
        /\ s \in 0 .. v - 1 /\ n % u = r /\ r \in 0 .. u - 1
    BY <1>1, <1>2 DEF Digits
  <1>4. n % w = k
    BY <1>3, DivModUnique
  <1>5. (s * u + r) % u = r
    BY <1>3, DivModUnique
  <1> QED BY <1>2, <1>3, <1>4, <1>5

LEMMA ShiftByNone ==
  ASSUME NEW n \in Nat
  PROVE  n \div Power[0] = n
  <1>1. Power[0] = 1
    BY PowerFacts
  <1>2. (n * 1 + 0) \div 1 = n
    BY DivModUnique
  <1> QED BY <1>1, <1>2

LEMMA ByteFacts ==
  /\ ByteBase \in Nat /\ CharBase \in Nat /\ ByteBase >= 16 /\ CharBase >= 8
  /\ ByteBase = Power[4] /\ CharBase = Power[3]
  <1>1. ASSUME NEW e \in Nat PROVE Power[e + 1] >= 2 * Power[e]
    <2>1. PICK q \in Nat, x \in Nat : q = Quarter /\ x = Power[e]
      BY PowerNat, CodecAssumption
    <2>2. q >= 2
      BY <2>1, CodecAssumption
    <2>3. q * x >= 2 * x
      BY <2>2
    <2> QED BY <2>1, <2>3, PowerFacts
  <1>2. /\ Power[1] >= 2 * Power[0] /\ Power[2] >= 2 * Power[1]
        /\ Power[3] >= 2 * Power[2] /\ Power[4] >= 2 * Power[3]
    <2>1. /\ Power[0 + 1] >= 2 * Power[0] /\ Power[1 + 1] >= 2 * Power[1]
          /\ Power[2 + 1] >= 2 * Power[2] /\ Power[3 + 1] >= 2 * Power[3]
      BY <1>1
    <2> QED BY <2>1
  <1>3. /\ Power[0] = 1 /\ Power[1] \in Nat /\ Power[2] \in Nat
        /\ Power[3] \in Nat /\ Power[4] \in Nat
    BY PowerFacts, PowerNat
  <1>4. Power[3] >= 8 /\ Power[4] >= 16
    BY <1>2, <1>3
  <1> QED BY <1>3, <1>4 DEF ByteBase, CharBase
-----------------------------------------------------------------------------
(***************************************************************************)
(* Numbers as rows of bytes.                                               *)
(***************************************************************************)
\* The values of the loop of FromBigEndian.
BytesRead(bytes, g) ==
  g = [i \in 0 .. Len(bytes) |->
         IF i = 0 THEN 0 ELSE g[i - 1] * ByteBase + bytes[i]]

LEMMA BytesReadExists ==
  ASSUME NEW bytes \in Seq(Byte)
  PROVE  \E g : /\ BytesRead(bytes, g)
                /\ g \in [0 .. Len(bytes) -> Nat]
                /\ FromBigEndian(bytes) = g[Len(bytes)]
  <1>1. PICK n \in Nat : n = Len(bytes)
    OBVIOUS
  <1> DEFINE digit(i) == IF i \in 1 .. n THEN bytes[i] ELSE 0
             step == [z \in Nat \X Nat |-> z[1] * ByteBase + digit(z[2])]
  <1>2. ASSUME NEW i \in Nat PROVE digit(i) \in Nat
    <2>0. Byte \subseteq Nat
      BY ByteFacts DEF Byte
    <2>1. CASE i \in 1 .. n
      <3>1. bytes[i] \in Byte
        BY <1>1, <2>1
      <3> QED BY <2>0, <2>1, <3>1
    <2> QED BY <2>1
  <1>3. step \in [Nat \X Nat -> Nat]
    <2> HIDE DEF digit
    <2>1. ASSUME NEW z \in Nat \X Nat PROVE z[1] * ByteBase + digit(z[2]) \in Nat
      <3>1. z[1] \in Nat /\ digit(z[2]) \in Nat
        BY <1>2
      <3>2. PICK x \in Nat, d \in Nat, c \in Nat :
              x = z[1] /\ d = digit(z[2]) /\ c = ByteBase
        BY <3>1, ByteFacts
      <3>3. x * c + d \in Nat
        OBVIOUS
      <3> QED BY <3>2, <3>3
    <2> QED BY <2>1
  <1>4. PICK g : Loops(g, Nat, 0, step, n)
    <2>1. PICK A, a : A = Nat /\ a = 0
      OBVIOUS
    <2>2. a \in A /\ step \in [A \X Nat -> A]
      BY <1>3, <2>1
    <2> HIDE DEF step
    <2>3. \E g : Loops(g, A, a, step, n)
      BY <2>2, LoopExists
    <2> QED BY <2>1, <2>3
  <1>5. g \in [0 .. n -> Nat] /\ g[0] = 0
    BY <1>4 DEF Loops
  <1>6. ASSUME NEW i \in 1 .. n
        PROVE  g[i] = g[i - 1] * ByteBase + bytes[i]
    <2>1. i - 1 \in 0 .. n /\ i \in Nat /\ g[i - 1] \in Nat
      BY <1>5
    <2>2. g[i] = step[<<g[i - 1], i>>]
      BY <1>4 DEF Loops
    <2>3. step[<<g[i - 1], i>>] = g[i - 1] * ByteBase + digit(i)
      <3> HIDE DEF digit
      <3> QED BY <2>1
    <2> QED BY <2>2, <2>3
  <1>7. BytesRead(bytes, g)
    <2>1. g = [i \in 0 .. n |-> g[i]]
      BY <1>5
    <2>2. ASSUME NEW i \in 0 .. n
          PROVE  g[i] = IF i = 0 THEN 0 ELSE g[i - 1] * ByteBase + bytes[i]
      BY <1>5, <1>6
    <2> QED BY <1>1, <2>1, <2>2 DEF BytesRead
  <1> DEFINE h == CHOOSE f : BytesRead(bytes, f)
  <1>8. BytesRead(bytes, h)
    BY <1>7
  <1>9. FromBigEndian(bytes) = h[n]
    BY <1>1 DEF FromBigEndian, BytesRead
  <1> HIDE DEF h
  <1> DEFINE Same == {i \in Nat : i <= n => h[i] = g[i]}
  <1>10. 0 \in Same
    BY <1>1, <1>5, <1>8 DEF BytesRead
  <1>11. ASSUME NEW i \in Same PROVE i + 1 \in Same
    <2>1. SUFFICES ASSUME i + 1 <= n PROVE h[i + 1] = g[i + 1]
      OBVIOUS
    <2>2. i + 1 \in 1 .. n /\ (i + 1) - 1 = i /\ h[i] = g[i] /\ i + 1 \in 0 .. n
      BY <2>1
    <2>3. h[i + 1] = h[(i + 1) - 1] * ByteBase + bytes[i + 1]
      BY <1>1, <1>8, <2>2 DEF BytesRead
    <2> QED BY <1>6, <2>2, <2>3
  <1>12. Nat \subseteq Same
    <2> HIDE DEF Same
    <2> QED BY <1>10, <1>11, SetInduction
  <1>13. h[n] = g[n]
    BY <1>12
  <1> QED BY <1>1, <1>5, <1>7, <1>9, <1>13

\* The first k of the bytes read: the number and each of its bytes.
LEMMA BytesReadHold ==
  ASSUME NEW bytes \in Seq(Byte), NEW g, BytesRead(bytes, g),
         g \in [0 .. Len(bytes) -> Nat], NEW k \in 0 .. Len(bytes)
  PROVE  /\ g[k] < Power[4 * k]
         /\ \A i \in 1 .. k : (g[k] \div Power[4 * (k - i)]) % ByteBase = bytes[i]
  <1>1. PICK n \in Nat : n = Len(bytes)
    OBVIOUS
  <1> DEFINE holds(e) ==
        /\ g[e] < Power[4 * e]
        /\ \A i \in 1 .. e : (g[e] \div Power[4 * (e - i)]) % ByteBase = bytes[i]
  <1> DEFINE Good == {e \in Nat : e <= n => holds(e)}
  <1>2. 0 \in Good
    <2>1. g[0] = 0
      BY <1>1 DEF BytesRead
    <2>2. 4 * 0 = 0
      OBVIOUS
    <2>3. Power[4 * 0] = 1
      BY <2>2, PowerFacts
    <2>4. g[0] < Power[4 * 0]
      BY <2>1, <2>3
    <2>5. holds(0)
      BY <2>4
    <2> HIDE DEF holds
    <2> QED BY <2>5
  <1>3. ASSUME NEW e \in Good PROVE e + 1 \in Good
    <2>1. SUFFICES ASSUME e + 1 <= n PROVE holds(e + 1)
      BY DEF holds
    <2>2. e + 1 \in 1 .. n /\ e \in 0 .. n /\ (e + 1) - 1 = e /\ holds(e)
      BY <2>1
    <2>3. g[e + 1] = g[e] * ByteBase + bytes[e + 1]
      BY <1>1, <2>2 DEF BytesRead
    <2>4. PICK x \in Nat, b \in Nat, p \in Nat \ {0}, c \in Nat \ {0} :
            x = g[e] /\ b = bytes[e + 1] /\ p = Power[4 * e] /\ c = ByteBase
      <3>0. Byte \subseteq Nat
        BY ByteFacts DEF Byte
      <3>1. bytes[e + 1] \in Nat
        <4>1. bytes[e + 1] \in Byte
          BY <1>1, <2>2
        <4> QED BY <3>0, <4>1
      <3>2. g[e] \in Nat
        BY <1>1, <2>2
      <3>3. Power[4 * e] \in Nat \ {0}
        BY <2>2, PowerNat
      <3>4. ByteBase \in Nat \ {0}
        BY ByteFacts
      <3> QED BY <3>1, <3>2, <3>3, <3>4
    <2>5. b \in 0 .. c - 1
      BY <1>1, <2>2, <2>4 DEF Byte
    <2>6. x < p
      BY <2>2, <2>4
    <2>7. g[e + 1] = x * c + b
      BY <2>3, <2>4
    <2>8. (x * c + b) \div c = x /\ (x * c + b) % c = b
      BY <2>5, DivModUnique
    <2>9. Power[4 * (e + 1)] = p * c
      <3>1. 4 * (e + 1) = 4 * e + 4
        OBVIOUS
      <3> QED BY <2>4, <3>1, PowerAdd, ByteFacts
    <2>10. g[e + 1] < Power[4 * (e + 1)]
      <3>1. (x + 1) * c <= p * c
        BY <2>6
      <3>2. x * c + b < (x + 1) * c
        BY <2>5
      <3> QED BY <2>7, <2>9, <3>1, <3>2
    <2>11. ASSUME NEW i \in 1 .. e + 1
           PROVE  (g[e + 1] \div Power[4 * ((e + 1) - i)]) % ByteBase = bytes[i]
      <3>1. CASE i = e + 1
        <4>1. 4 * ((e + 1) - i) = 0
          BY <3>1
        <4>2. g[e + 1] \div Power[4 * ((e + 1) - i)] = x * c + b
          BY <2>7, <4>1, ShiftByNone
        <4> QED BY <2>4, <2>8, <3>1, <4>2
      <3>2. CASE i # e + 1
        <4>1. i \in 1 .. e /\ e - i \in Nat /\ 4 * (e - i) \in Nat
              /\ 4 * ((e + 1) - i) = 4 + 4 * (e - i)
          BY <3>2
        <4>2. PICK r \in Nat \ {0} : r = Power[4 * (e - i)]
          BY <4>1, PowerNat
        <4>3. Power[4 * ((e + 1) - i)] = c * r
          BY <2>4, <4>1, <4>2, PowerAdd, ByteFacts
        <4>4. ((x * c + b) \div c) \div r = (x * c + b) \div (c * r)
          <5>1. PICK y \in Nat : y = x * c + b
            OBVIOUS
          <5>2. (y \div c) \div r = y \div (c * r)
            BY ShiftTwice
          <5> QED BY <5>1, <5>2
        <4>5. g[e + 1] \div Power[4 * ((e + 1) - i)] = x \div r
          BY <2>7, <2>8, <4>3, <4>4
        <4>6. (x \div r) % ByteBase = bytes[i]
          BY <2>2, <2>4, <4>1, <4>2
        <4> QED BY <4>5, <4>6
      <3> QED BY <3>1, <3>2
    <2> QED BY <2>10, <2>11
  <1>4. Nat \subseteq Good
    <2> HIDE DEF Good
    <2> QED BY <1>2, <1>3, SetInduction
  <1>5. holds(k)
    BY <1>1, <1>4
  <1> QED BY <1>5

\* A row of bytes read as a number is a number of that many bytes, and these.
LEMMA FromBigEndianIs ==
  ASSUME NEW bytes \in Seq(Byte)
  PROVE  LET x == FromBigEndian(bytes)
             n == Len(bytes)
         IN /\ x \in Nat /\ x < Power[4 * n]
            /\ \A i \in 1 .. n : (x \div Power[4 * (n - i)]) % ByteBase = bytes[i]
  <1>1. PICK g : /\ BytesRead(bytes, g) /\ g \in [0 .. Len(bytes) -> Nat]
                 /\ FromBigEndian(bytes) = g[Len(bytes)]
    BY BytesReadExists
  <1>2. PICK n \in Nat : n = Len(bytes)
    OBVIOUS
  <1>3. n \in 0 .. n
    OBVIOUS
  <1>4. PICK x : x = FromBigEndian(bytes)
    OBVIOUS
  <1>5. x = g[n]
    BY <1>1, <1>2, <1>4
  <1>6. /\ x \in Nat /\ x < Power[4 * n]
        /\ \A i \in 1 .. n : (x \div Power[4 * (n - i)]) % ByteBase = bytes[i]
    BY <1>1, <1>2, <1>3, <1>5, BytesReadHold
  <1> QED BY <1>2, <1>4, <1>6, Zenon

LEMMA BigEndianBack ==
  ASSUME NEW bytes \in Seq(Byte)
  PROVE  BigEndian(FromBigEndian(bytes), Len(bytes)) = bytes
  <1>1. PICK n, x : n = Len(bytes) /\ x = FromBigEndian(bytes)
    OBVIOUS
  <1>2. \A i \in 1 .. n : (x \div Power[4 * (n - i)]) % ByteBase = bytes[i]
    BY <1>1, FromBigEndianIs
  <1>3. bytes = [i \in 1 .. n |-> bytes[i]]
    BY <1>1
  <1> QED BY <1>1, <1>2, <1>3 DEF BigEndian

\* The bytes of a number.
LEMMA BigEndianType ==
  ASSUME NEW x \in Nat, NEW size \in Nat
  PROVE  BigEndian(x, size) \in [1 .. size -> Byte]
  <1>1. ASSUME NEW i \in 1 .. size
        PROVE  (x \div Power[4 * (size - i)]) % ByteBase \in Byte
    <2>1. size - i \in Nat /\ 4 * (size - i) \in Nat
      OBVIOUS
    <2>2. x \div Power[4 * (size - i)] \in Nat
      BY <2>1, PowerNat, DivMod
    <2>3. ByteBase \in Nat \ {0}
      BY ByteFacts
    <2> QED BY <2>2, <2>3, DivMod DEF Byte
  <1> QED BY <1>1 DEF BigEndian

\* A number that fits is read back from its bytes.
LEMMA BigEndianRead ==
  ASSUME NEW size \in Nat, NEW x \in Nat, x < Power[4 * size]
  PROVE  FromBigEndian(BigEndian(x, size)) = x
  <1>1. PICK bytes : bytes = BigEndian(x, size)
    OBVIOUS
  <1>2. bytes \in [1 .. size -> Byte]
    BY <1>1, BigEndianType
  <1>3. bytes \in Seq(Byte) /\ Len(bytes) = size
    BY <1>2
  <1>4. PICK g : /\ BytesRead(bytes, g) /\ g \in [0 .. size -> Nat]
                 /\ FromBigEndian(bytes) = g[size]
    BY <1>3, BytesReadExists
  <1> DEFINE Good == {k \in Nat : k <= size => g[k] = x \div Power[4 * (size - k)]}
  <1>5. 0 \in Good
    <2>1. g[0] = 0
      BY <1>3, <1>4 DEF BytesRead
    <2>2. PICK p \in Nat \ {0} : p = Power[4 * size] /\ p = Power[4 * (size - 0)]
      BY PowerNat
    <2>3. (0 * p + x) \div p = 0
      BY <2>2, DivModUnique
    <2>4. x \div p = 0
      BY <2>3
    <2> QED BY <2>1, <2>2, <2>4
  <1>6. ASSUME NEW k \in Good PROVE k + 1 \in Good
    <2>1. SUFFICES ASSUME k + 1 <= size
                   PROVE  g[k + 1] = x \div Power[4 * (size - (k + 1))]
      OBVIOUS
    <2>2. PICK j \in Nat : j = size - (k + 1)
      BY <2>1
    <2>3. /\ size - k = j + 1 /\ k + 1 \in 1 .. size /\ (k + 1) - 1 = k
          /\ 4 * (j + 1) = 4 * j + 4 /\ g[k] = x \div Power[4 * (j + 1)]
          /\ k + 1 \in 0 .. size
      BY <2>1, <2>2
    <2>4. PICK p \in Nat \ {0}, c \in Nat \ {0} : p = Power[4 * j] /\ c = ByteBase
      BY PowerNat, ByteFacts
    <2>5. Power[4 * (j + 1)] = p * c
      BY <2>3, <2>4, PowerAdd, ByteFacts
    <2>6. PICK y \in Nat : y = x \div p
      BY DivMod
    <2>7. g[k] = y \div c
      <3>1. (x \div p) \div c = x \div (p * c)
        BY ShiftTwice
      <3> QED BY <2>3, <2>5, <2>6, <3>1
    <2>8. bytes[k + 1] = y % c
      BY <1>1, <2>2, <2>3, <2>4, <2>6 DEF BigEndian
    <2>9. g[k + 1] = g[k] * c + bytes[k + 1]
      <3>1. BytesRead(bytes, g) /\ k + 1 \in 0 .. Len(bytes) /\ k + 1 # 0
        BY <1>3, <1>4, <2>3
      <3>2. g[k + 1] = g[(k + 1) - 1] * ByteBase + bytes[k + 1]
        BY <3>1 DEF BytesRead
      <3> QED BY <2>3, <2>4, <3>2
    <2>10. y = (y \div c) * c + (y % c)
      BY DivMod
    <2> QED BY <2>2, <2>4, <2>6, <2>7, <2>8, <2>9, <2>10
  <1>7. Nat \subseteq Good
    <2> HIDE DEF Good
    <2> QED BY <1>5, <1>6, SetInduction
  <1>8. g[size] = x \div Power[4 * (size - size)] /\ 4 * (size - size) = 0
    BY <1>7
  <1>9. g[size] = x
    BY <1>8, ShiftByNone
  <1> QED BY <1>1, <1>4, <1>9
-----------------------------------------------------------------------------
(***************************************************************************)
(* The layout of a frame.                                                  *)
(***************************************************************************)
LEMMA TakeIs ==
  ASSUME NEW S, NEW s \in Seq(S), NEW off \in Nat, NEW n \in Nat,
         off + n <= Len(s)
  PROVE  /\ Take(s, off, n) = [i \in 1 .. n |-> s[off + i]]
         /\ Take(s, off, n) \in Seq(S) /\ Len(Take(s, off, n)) = n
  <1>1. PICK l \in Nat : l = Len(s)
    OBVIOUS
  <1>2. s = [i \in 1 .. l |-> s[i]] /\ \A i \in 1 .. l : s[i] \in S
    BY <1>1
  <1>3. PICK a, b : a = off + 1 /\ b = off + n
    OBVIOUS
  <1>4. a \in Nat /\ b \in Nat /\ a >= 1 /\ b <= l /\ a <= b + 1
    BY <1>1, <1>3
  <1>4a. b - a + 1 = n /\ \A i \in 1 .. n : a + i - 1 = off + i
    BY <1>3
  <1>5. SubSeq(s, a, b) = Slice(s, a, b)
    <2>1. PICK f : f = s
      OBVIOUS
    <2>3. SubSeq(f, a, b) = Slice(f, a, b)
      <3>1. f \in Seq(S) /\ Len(f) = l
        BY <1>1, <2>1
      <3> QED BY <1>4, <3>1, SubSeqSlice
    <2> QED BY <2>1, <2>3
  <1>6. Take(s, off, n) = [i \in 1 .. n |-> s[off + i]]
    BY <1>3, <1>4a, <1>5 DEF Take, Slice
  <1>7. \A i \in 1 .. n : s[off + i] \in S
    <2>1. \A i \in 1 .. n : off + i \in 1 .. l
      BY <1>1
    <2> QED BY <1>2, <2>1
  <1> QED BY <1>6, <1>7

\* Two pieces that meet.
LEMMA TakeJoin ==
  ASSUME NEW S, NEW s \in Seq(S), NEW k \in Nat, NEW n \in Nat,
         k + n <= Len(s)
  PROVE  Take(s, 0, k) \o Take(s, k, n) = Take(s, 0, k + n)
  <1>1. PICK f, g : f = Take(s, 0, k) /\ g = Take(s, k, n)
    OBVIOUS
  <1>2. /\ f = [i \in 1 .. k |-> s[0 + i]]
        /\ g = [i \in 1 .. n |-> s[k + i]]
        /\ Take(s, 0, k + n) = [i \in 1 .. k + n |-> s[0 + i]]
    <2>1. Take(s, 0, k) = [i \in 1 .. k |-> s[0 + i]]
      BY TakeIs
    <2>2. Take(s, k, n) = [i \in 1 .. n |-> s[k + i]]
      BY TakeIs
    <2>3. PICK o \in Nat, m \in Nat : o = 0 /\ m = k + n
      OBVIOUS
    <2>3a. o + m <= Len(s)
      BY <2>3
    <2>3b. Take(s, o, m) = [i \in 1 .. m |-> s[o + i]]
      BY <2>3a, TakeIs
    <2>4. Take(s, 0, k + n) = [i \in 1 .. k + n |-> s[0 + i]]
      BY <2>3, <2>3b
    <2> QED BY <1>1, <2>1, <2>2, <2>4
  <1>3. f \o g = [i \in 1 .. k + n |-> IF i <= k THEN f[i] ELSE g[i - k]]
    <2>1. f = [i \in 1 .. k |-> f[i]] /\ g = [i \in 1 .. n |-> g[i]]
      BY <1>2
    <2> QED BY <2>1, ConcatFunction
  <1>4. ASSUME NEW i \in 1 .. k + n
        PROVE  (IF i <= k THEN f[i] ELSE g[i - k]) = s[0 + i]
    <2>1. CASE i <= k
      BY <1>2, <2>1
    <2>2. CASE ~ (i <= k)
      <3>1. i - k \in 1 .. n /\ k + (i - k) = 0 + i
        BY <2>2
      <3> QED BY <1>2, <2>2, <3>1
    <2> QED BY <2>1, <2>2
  <1> QED BY <1>1, <1>2, <1>3, <1>4

\* The same, with the end of the longer piece named.
LEMMA TakeJoinAt ==
  ASSUME NEW S, NEW s \in Seq(S), NEW k \in Nat, NEW n \in Nat, NEW m,
         m = k + n, m <= Len(s)
  PROVE  Take(s, 0, k) \o Take(s, k, n) = Take(s, 0, m)
  BY TakeJoin

LEMMA TakeAll ==
  ASSUME NEW S, NEW s \in Seq(S)
  PROVE  Take(s, 0, Len(s)) = s
  <1>1. PICK l \in Nat : l = Len(s)
    OBVIOUS
  <1>2. Take(s, 0, l) = [i \in 1 .. l |-> s[0 + i]]
    <2>1. 0 + l <= Len(s)
      BY <1>1
    <2> QED BY <2>1, TakeIs
  <1>3. s = [i \in 1 .. l |-> s[i]]
    BY <1>1
  <1>4. \A i \in 1 .. l : s[0 + i] = s[i]
    OBVIOUS
  <1>5. [i \in 1 .. l |-> s[0 + i]] = [i \in 1 .. l |-> s[i]]
    BY <1>4
  <1> QED BY <1>1, <1>2, <1>3, <1>5

\* A piece of the first of two sequences, and the second.
LEMMA TakeLeft ==
  ASSUME NEW S, NEW s \in Seq(S), NEW t \in Seq(S), NEW off \in Nat, NEW n \in Nat,
         off + n <= Len(s)
  PROVE  Take(s \o t, off, n) = Take(s, off, n)
  <1>1. PICK l \in Nat, m \in Nat : l = Len(s) /\ m = Len(t)
    OBVIOUS
  <1>2. PICK u \in Seq(S) : u = s \o t
    BY ConcatProperties
  <1>3. /\ Len(u) = l + m
        /\ \A j \in 1 .. l + m : u[j] = IF j <= l THEN s[j] ELSE t[j - l]
    BY <1>1, <1>2, ConcatProperties
  <1>4. /\ Take(u, off, n) = [i \in 1 .. n |-> u[off + i]]
        /\ Take(s, off, n) = [i \in 1 .. n |-> s[off + i]]
    <2>1. off + n <= Len(u)
      BY <1>1, <1>3
    <2> QED BY <2>1, TakeIs
  <1>5. \A i \in 1 .. n : off + i \in 1 .. l + m /\ off + i <= l
    BY <1>1
  <1> QED BY <1>2, <1>3, <1>4, <1>5

\* The first of two sequences, out of the two.
LEMMA TakeFirst ==
  ASSUME NEW S, NEW s \in Seq(S), NEW t \in Seq(S)
  PROVE  Take(s \o t, 0, Len(s)) = s
  <1>1. PICK none \in Nat, n \in Nat : none = 0 /\ n = Len(s)
    OBVIOUS
  <1>2. none + n <= Len(s)
    BY <1>1
  <1>3. Take(s \o t, none, n) = Take(s, none, n)
    BY <1>2, TakeLeft
  <1> QED BY <1>1, <1>3, TakeAll

LEMMA TakeRight ==
  ASSUME NEW S, NEW s \in Seq(S), NEW t \in Seq(S)
  PROVE  Take(s \o t, Len(s), Len(t)) = t
  <1>1. PICK l \in Nat, m \in Nat : l = Len(s) /\ m = Len(t)
    OBVIOUS
  <1>2. PICK u \in Seq(S) : u = s \o t
    BY ConcatProperties
  <1>3. /\ Len(u) = l + m
        /\ \A j \in 1 .. l + m : u[j] = IF j <= l THEN s[j] ELSE t[j - l]
    BY <1>1, <1>2, ConcatProperties
  <1>4. Take(u, l, m) = [i \in 1 .. m |-> u[l + i]]
    <2>1. l + m <= Len(u)
      BY <1>3
    <2> QED BY <2>1, TakeIs
  <1>5. \A i \in 1 .. m : l + i \in 1 .. l + m /\ ~ (l + i <= l) /\ (l + i) - l = i
    OBVIOUS
  <1>6. t = [i \in 1 .. m |-> t[i]]
    BY <1>1
  <1> QED BY <1>1, <1>2, <1>3, <1>4, <1>5, <1>6

\* The offsets of the fields.
AtCounter == 4 + SZ.session_id
AtNonce == AtCounter + SZ.counter
AtLength == AtNonce + SZ.nonce

LEMMA Offsets ==
  /\ SZ.session_id \in Nat /\ SZ.counter \in Nat /\ SZ.nonce \in Nat
  /\ SZ.paylen \in Nat /\ SZ.tag \in Nat /\ SZ.mac \in Nat
  /\ AtCounter \in Nat /\ AtNonce \in Nat /\ AtLength \in Nat
  /\ Len(MAGIC) = 2 /\ HEADER_SIZE = AtLength + SZ.paylen
  /\ HEADER_SIZE \in Nat /\ AtLength >= 4
  <1>1. /\ SZ.session_id \in Nat /\ SZ.counter \in Nat /\ SZ.nonce \in Nat
        /\ SZ.paylen \in Nat /\ SZ.tag \in Nat /\ SZ.mac \in Nat
    BY CodecAssumption
  <1>2. Len(MAGIC) = 2
    BY DEF MAGIC
  <1> QED BY <1>1, <1>2 DEF AtCounter, AtNonce, AtLength, HEADER_SIZE

\* A row of bytes that is long enough for a frame holds each of its fields.
LEMMA FieldsWithin ==
  ASSUME NEW l \in Nat, l >= HEADER_SIZE + SZ.tag + SZ.mac
  PROVE  /\ AtCounter <= l /\ AtCounter + SZ.counter <= l /\ AtNonce + SZ.nonce <= l
         /\ AtLength + SZ.paylen <= l /\ HEADER_SIZE - SZ.paylen = AtLength
         /\ 4 <= l /\ HEADER_SIZE + SZ.tag + SZ.mac \in Nat
  <1>1. PICK a \in Nat : a = SZ.session_id
    BY Offsets
  <1>2. PICK b \in Nat : b = SZ.counter
    BY Offsets
  <1>3. PICK c \in Nat : c = SZ.nonce
    BY Offsets
  <1>4. PICK d \in Nat : d = SZ.paylen
    BY Offsets
  <1>5. PICK e \in Nat : e = SZ.tag
    BY Offsets
  <1>6. PICK g \in Nat : g = SZ.mac
    BY Offsets
  <1>7. /\ AtCounter = 4 + a /\ AtNonce = AtCounter + b /\ AtLength = AtNonce + c
        /\ HEADER_SIZE = AtLength + d
    BY <1>1, <1>2, <1>3, <1>4, Offsets DEF AtCounter, AtNonce, AtLength
  <1>8. PICK h \in Nat : h = HEADER_SIZE
    BY Offsets
  <1>9. l >= h + e + g
    BY <1>5, <1>6, <1>8
  <1> QED BY <1>1, <1>2, <1>3, <1>4, <1>5, <1>6, <1>7, <1>8, <1>9

\* The magic, the version and the message type.
LEMMA FixedBytes ==
  ASSUME NEW type \in Byte
  PROVE  /\ MAGIC \in Seq(Byte) /\ <<PROTO_VERSION, type>> \in Seq(Byte)
         /\ PROTO_VERSION \in Byte
  <1>1. 6 \in Byte /\ 0 \in Byte
    BY ByteFacts DEF Byte
  <1> QED BY <1>1 DEF MAGIC, PROTO_VERSION

\* What parse makes of a row of bytes is a frame that stands for these bytes.
LEMMA SerializeParsed ==
  ASSUME NEW buf \in Seq(Byte), NEW f \in Parse(buf)
  PROVE  Serialize(f) = buf
  <1> DEFINE N == PayloadLength(buf)
             lenBytes == Take(buf, AtLength, SZ.paylen)
             tag == HEADER_SIZE + N
  <1>1. WellFormed(buf)
    BY DEF Parse
  <1>2. PICK l \in Nat : l = Len(buf)
    OBVIOUS
  <1>3. l >= HEADER_SIZE + SZ.tag + SZ.mac
    BY <1>1, <1>2 DEF WellFormed
  <1>4. HEADER_SIZE - SZ.paylen = AtLength /\ AtLength + SZ.paylen <= l
    BY <1>3, FieldsWithin
  <1>5. N = FromBigEndian(lenBytes) /\ lenBytes \in Seq(Byte)
        /\ Len(lenBytes) = SZ.paylen
    <2>1. N = FromBigEndian(lenBytes)
      BY <1>4 DEF PayloadLength
    <2>2. AtLength + SZ.paylen <= Len(buf) /\ AtLength \in Nat /\ SZ.paylen \in Nat
      BY <1>2, <1>4, Offsets
    <2>3. lenBytes \in Seq(Byte) /\ Len(lenBytes) = SZ.paylen
      BY <2>2, TakeIs
    <2> QED BY <2>1, <2>3
  <1>6. N \in Nat /\ BigEndian(N, SZ.paylen) = lenBytes
    <2> HIDE DEF lenBytes, N
    <2> QED BY <1>5, FromBigEndianIs, BigEndianBack
  <1>7. tag \in Nat /\ tag + SZ.tag + SZ.mac = l
    <2>1. HEADER_SIZE + N + SZ.tag + SZ.mac = Len(buf)
      BY <1>1 DEF WellFormed
    <2> HIDE DEF N
    <2>2. tag \in Nat
      BY <1>6, Offsets
    <2> QED BY <1>2, <2>1, <2>2
  <1>8. /\ f.message_type = buf[4]
        /\ f.session_id = Take(buf, 4, SZ.session_id)
        /\ f.counter = FromBigEndian(Take(buf, AtCounter, SZ.counter))
        /\ f.nonce = Take(buf, AtNonce, SZ.nonce)
        /\ f.encrypted_payload = Take(buf, HEADER_SIZE, N)
        /\ f.auth_tag = Take(buf, tag, SZ.tag)
        /\ f.transcript_mac = Take(buf, tag + SZ.tag, SZ.mac)
    <2>1. Len(MAGIC) + 2 = 4
      BY Offsets
    <2> QED BY <1>1, <2>1 DEF Parse, AtCounter, AtNonce
  <1>9. BigEndian(f.counter, SZ.counter) = Take(buf, AtCounter, SZ.counter)
    <2>1. PICK c : c = Take(buf, AtCounter, SZ.counter)
      OBVIOUS
    <2>2. c \in Seq(Byte) /\ Len(c) = SZ.counter
      <3>1. AtCounter + SZ.counter <= Len(buf)
        BY <1>2, <1>3, FieldsWithin
      <3> QED BY <2>1, <3>1, Offsets, TakeIs
    <2> QED BY <1>8, <2>1, <2>2, BigEndianBack
  <1>10. BigEndian(Len(f.encrypted_payload), SZ.paylen) = lenBytes
    <2>1. HEADER_SIZE + N <= Len(buf)
      BY <1>2, <1>7, Offsets
    <2>2. Len(f.encrypted_payload) = N
      <3> HIDE DEF N
      <3> QED BY <1>6, <1>8, <2>1, Offsets, TakeIs
    <2> HIDE DEF N, lenBytes
    <2> QED BY <1>6, <2>2
  <1>11. MAGIC = Take(buf, 0, 2)
    BY <1>1, Offsets DEF WellFormed
  <1>12. <<PROTO_VERSION, f.message_type>> = Take(buf, 2, 2)
    <2>1. Take(buf, 2, 2) = [i \in 1 .. 2 |-> buf[2 + i]]
      <3>1. 2 + 2 <= Len(buf)
        BY <1>2, <1>3, FieldsWithin
      <3>2. PICK two \in Nat : two = 2
        OBVIOUS
      <3>3. Take(buf, two, two) = [i \in 1 .. two |-> buf[two + i]]
        <4>1. two + two <= Len(buf)
          BY <3>1, <3>2
        <4> HIDE <3>2
        <4> QED BY <4>1, TakeIs
      <3> QED BY <3>2, <3>3
    <2>2. buf[3] = PROTO_VERSION
      BY <1>1, Offsets DEF WellFormed
    <2>3. PICK a, b : a = PROTO_VERSION /\ b = f.message_type
      OBVIOUS
    <2>4. a = buf[2 + 1] /\ b = buf[2 + 2]
      BY <1>8, <2>2, <2>3
    <2>5. <<a, b>> = [i \in 1 .. 2 |-> buf[2 + i]]
      BY <2>4
    <2> QED BY <2>1, <2>3, <2>5
  <1> HIDE DEF N, lenBytes, tag
  <1>13. Header(f) = Take(buf, 0, HEADER_SIZE)
    <2>0. PICK two \in Nat, four \in Nat, c \in Nat, d \in Nat, n \in Nat, h \in Nat :
            /\ two = 2 /\ four = 4 /\ c = AtCounter /\ d = AtNonce
            /\ n = AtLength /\ h = HEADER_SIZE
      BY Offsets
    <2>0a. PICK id \in Nat, co \in Nat, no \in Nat, pl \in Nat :
             id = SZ.session_id /\ co = SZ.counter /\ no = SZ.nonce /\ pl = SZ.paylen
      BY Offsets
    <2>0b. /\ four = two + two /\ c = four + id /\ d = c + co /\ n = d + no /\ h = n + pl
      BY <2>0, <2>0a, Offsets DEF AtCounter, AtNonce, AtLength
    <2>0c. h <= Len(buf)
      BY <1>2, <1>4, <2>0, <2>0a, <2>0b
    <2>0d. four <= Len(buf) /\ c <= Len(buf) /\ d <= Len(buf) /\ n <= Len(buf)
      BY <2>0b, <2>0c
    <2>1. Take(buf, 0, 2) \o Take(buf, 2, 2) = Take(buf, 0, 4)
      <3>1. Take(buf, 0, two) \o Take(buf, two, two) = Take(buf, 0, four)
        BY <2>0b, <2>0d, TakeJoinAt
      <3> QED BY <2>0, <3>1
    <2>2. Take(buf, 0, 4) \o Take(buf, 4, SZ.session_id) = Take(buf, 0, AtCounter)
      <3>1. Take(buf, 0, four) \o Take(buf, four, id) = Take(buf, 0, c)
        BY <2>0b, <2>0d, TakeJoinAt
      <3> QED BY <2>0, <2>0a, <3>1
    <2>3. Take(buf, 0, AtCounter) \o Take(buf, AtCounter, SZ.counter)
            = Take(buf, 0, AtNonce)
      <3>1. Take(buf, 0, c) \o Take(buf, c, co) = Take(buf, 0, d)
        BY <2>0b, <2>0d, TakeJoinAt
      <3> QED BY <2>0, <2>0a, <3>1
    <2>4. Take(buf, 0, AtNonce) \o Take(buf, AtNonce, SZ.nonce)
            = Take(buf, 0, AtLength)
      <3>1. Take(buf, 0, d) \o Take(buf, d, no) = Take(buf, 0, n)
        BY <2>0b, <2>0d, TakeJoinAt
      <3> QED BY <2>0, <2>0a, <3>1
    <2>5. Take(buf, 0, AtLength) \o Take(buf, AtLength, SZ.paylen)
            = Take(buf, 0, HEADER_SIZE)
      <3>1. Take(buf, 0, n) \o Take(buf, n, pl) = Take(buf, 0, h)
        BY <2>0b, <2>0c, TakeJoinAt
      <3> QED BY <2>0, <2>0a, <3>1
    <2>6. Header(f) = ((((Take(buf, 0, 2) \o Take(buf, 2, 2))
                           \o Take(buf, 4, SZ.session_id))
                          \o Take(buf, AtCounter, SZ.counter))
                         \o Take(buf, AtNonce, SZ.nonce)) \o lenBytes
      BY <1>8, <1>9, <1>10, <1>11, <1>12, Zenon DEF Header
    <2> QED BY <2>1, <2>2, <2>3, <2>4, <2>5, <2>6, Zenon DEF lenBytes
  <1>7a. PICK h \in Nat, m \in Nat, p \in Nat, e \in Nat :
           h = HEADER_SIZE /\ m = N /\ p = SZ.tag /\ e = SZ.mac
    BY <1>6, Offsets
  <1>7b. h + m + p + e = l /\ tag = h + m /\ tag + SZ.tag = h + m + p
    BY <1>7, <1>7a DEF tag
  <1>14. Take(buf, 0, HEADER_SIZE) \o Take(buf, HEADER_SIZE, N) = Take(buf, 0, tag)
    <2>1. HEADER_SIZE + N <= Len(buf)
      BY <1>2, <1>7a, <1>7b
    <2>2. Take(buf, 0, h) \o Take(buf, h, m) = Take(buf, 0, h + m)
      BY <1>7a, <2>1, TakeJoin
    <2> QED BY <1>7a, <1>7b, <2>2
  <1>15. Take(buf, 0, tag) \o Take(buf, tag, SZ.tag) = Take(buf, 0, tag + SZ.tag)
    <2>0. tag \in Nat
      <3>1. tag = h + m
        BY <1>7b
      <3> QED BY <3>1
    <2>1. PICK k \in Nat, z \in Nat : k = tag /\ z = p
      BY <2>0
    <2>2. k + z <= Len(buf)
      BY <1>2, <1>7a, <1>7b, <2>1
    <2>3. Take(buf, 0, k) \o Take(buf, k, z) = Take(buf, 0, k + z)
      BY <2>2, TakeJoin
    <2> QED BY <1>7a, <2>1, <2>3
  <1>16. Take(buf, 0, tag + SZ.tag) \o Take(buf, tag + SZ.tag, SZ.mac) = buf
    <2>1. PICK k \in Nat : k = tag + SZ.tag
      BY <1>7, Offsets
    <2>2. k + SZ.mac = Len(buf)
      BY <1>2, <1>7, <2>1
    <2>3. Take(buf, 0, k) \o Take(buf, k, SZ.mac) = Take(buf, 0, k + SZ.mac)
      <3>1. k + SZ.mac <= Len(buf) /\ SZ.mac \in Nat
        BY <1>2, <1>7a, <1>7b, <2>1
      <3> QED BY <3>1, TakeJoin
    <2> QED BY <2>1, <2>2, <2>3, TakeAll
  <1>17. Serialize(f) = ((Header(f) \o f.encrypted_payload) \o f.auth_tag)
                          \o f.transcript_mac
    BY DEF Serialize, PreMac
  <1> QED BY <1>8, <1>13, <1>14, <1>15, <1>16, <1>17, Zenon
-----------------------------------------------------------------------------
(***************************************************************************)
(* The loops over a text, as folds.                                        *)
(***************************************************************************)
LEMMA SymbolFacts ==
  /\ CharBase \in Nat \ {0} /\ Alphabet \subseteq Nat
  /\ Symbols = 0 .. CharBase + 3
  /\ Pad \in Symbols /\ Blank \in Symbols /\ Brace \in Symbols
  /\ Pad \notin Alphabet /\ Blank \notin Alphabet /\ Brace \notin Alphabet
  /\ Pad # Blank /\ Pad # Brace /\ Blank # Brace
  <1>1. PICK c \in Nat \ {0} : c = CharBase
    BY PowerFacts DEF CharBase
  <1> QED BY <1>1 DEF Alphabet, Symbols, Pad, Blank, Brace, Other

\* What a decoder can have read.
Decoder ==
  [out : Seq(Byte), buf : Nat, bits : 0 .. 3, pads : Nat,
   over : BOOLEAN, bad : BOOLEAN]

LEMMA NothingType == Nothing \in Decoder
  BY DEF Nothing, Decoder

LEMMA PushedType ==
  ASSUME NEW d \in Decoder, NEW v \in Alphabet
  PROVE  Pushed(d, v) \in Decoder
  <1>1. PICK buf \in Nat : buf = (d.buf * CharBase + v) % Power[16]
    <2>1. d.buf \in Nat /\ v \in Nat /\ CharBase \in Nat
      BY SymbolFacts DEF Decoder
    <2>2. PICK x \in Nat : x = d.buf * CharBase + v
      BY <2>1
    <2>3. PICK p \in Nat \ {0} : p = Power[16]
      BY PowerFacts
    <2>4. x % p \in Nat
      BY DivMod
    <2> QED BY <2>2, <2>3, <2>4
  <1>2. PICK bits \in Nat : bits = d.bits + 3 /\ bits <= 6
    BY DEF Decoder
  <1>3. CASE bits < 4
    <2>1. Pushed(d, v) = [d EXCEPT !.buf = buf, !.bits = bits, !.pads = 0]
      BY <1>1, <1>2, <1>3 DEF Pushed
    <2>2. bits \in 0 .. 3
      BY <1>2, <1>3
    <2>3. [d EXCEPT !.buf = buf, !.bits = bits, !.pads = 0] \in Decoder
      BY <2>2 DEF Decoder
    <2> QED BY <2>1, <2>3, Zenon
  <1>4. CASE ~ (bits < 4)
    <2>1. PICK b \in Byte : b = (buf \div Power[bits - 4]) % ByteBase
      <3>1. bits - 4 \in Nat
        BY <1>4
      <3>2. PICK p \in Nat \ {0} : p = Power[bits - 4]
        BY <3>1, PowerFacts
      <3>3. PICK q \in Nat : q = buf \div p
        BY DivMod
      <3>4. PICK w \in Nat \ {0} : w = ByteBase
        BY PowerFacts DEF ByteBase
      <3>5. q % w \in 0 .. w - 1
        BY DivMod
      <3> QED BY <3>2, <3>3, <3>4, <3>5 DEF Byte
    <2>2. Pushed(d, v) = [d EXCEPT !.buf = buf, !.bits = bits - 4, !.pads = 0,
                            !.out = Append(@, b)]
      BY <1>1, <1>2, <1>4, <2>1 DEF Pushed
    <2>3. Append(d.out, b) \in Seq(Byte)
      BY AppendProperties DEF Decoder
    <2>4. bits - 4 \in 0 .. 3
      BY <1>2, <1>4
    <2>5. PICK t \in 0 .. 3, o \in Seq(Byte) : t = bits - 4 /\ o = Append(d.out, b)
      BY <2>3, <2>4
    <2>6. Pushed(d, v) = [d EXCEPT !.buf = buf, !.bits = t, !.pads = 0, !.out = o]
      BY <2>2, <2>5 DEF Decoder
    <2>7. [d EXCEPT !.buf = buf, !.bits = t, !.pads = 0, !.out = o] \in Decoder
      BY DEF Decoder
    <2> QED BY <2>6, <2>7, Zenon
  <1> QED BY <1>3, <1>4

LEMMA TakesType ==
  ASSUME NEW end, NEW d \in Decoder, NEW c \in Symbols
  PROVE  Takes(end, d, c) \in Decoder
  <1>1. CASE d.over \/ c = Blank
    <2>1. ~ (~ d.over /\ c \in Alphabet)
      BY <1>1, SymbolFacts
    <2>2. Takes(end, d, c) = d
      BY <1>1, <2>1 DEF Takes
    <2> QED BY <2>2
  <1>2. CASE ~ d.over /\ c \in Alphabet
    <2>1. Takes(end, d, c) = Pushed(d, c)
      BY <1>2, SymbolFacts DEF Takes
    <2> QED BY <1>2, <2>1, PushedType
  <1>3. CASE ~ (d.over \/ c = Blank) /\ ~ (~ d.over /\ c \in Alphabet)
    <2>1. Takes(end, d, c) = IF end = "client" THEN ClientStops(d, c) ELSE PythonPasses(d, c)
      BY <1>3 DEF Takes
    <2>2. ClientStops(d, c) \in Decoder
      BY DEF ClientStops, Decoder
    <2>3. PythonPasses(d, c) \in Decoder
      <3>1. PICK o \in BOOLEAN : o = (QuadPos(d) + d.pads + 1 >= 4)
        <4>1. (QuadPos(d) + d.pads + 1 >= 4) \in BOOLEAN
          BY DEF Decoder, QuadPos
        <4> QED BY <4>1, Zenon
      <3>2. d.pads + 1 \in Nat
        BY DEF Decoder
      <3>3. PICK p \in Nat : p = d.pads + 1
        BY <3>2
      <3>4. [d EXCEPT !.pads = @ + 1, !.over = o] = [d EXCEPT !.pads = p, !.over = o]
        BY <3>3
      <3>5. PythonPasses(d, c) \in {d, [d EXCEPT !.pads = p, !.over = o]}
        BY <3>1, <3>4, Zenon DEF PythonPasses
      <3>6. [d EXCEPT !.pads = p, !.over = o] \in Decoder
        BY DEF Decoder
      <3> QED BY <3>5, <3>6, Zenon
    <2> QED BY <2>1, <2>2, <2>3
  <1> QED BY <1>1, <1>2, <1>3

ReadStep(end) == [z \in Decoder \X Symbols |-> Takes(end, z[1], z[2])]

LEMMA ReadStepOn ==
  ASSUME NEW end PROVE StepOn(ReadStep(end), Decoder, Symbols)
  <1>1. ASSUME NEW z \in Decoder \X Symbols PROVE Takes(end, z[1], z[2]) \in Decoder
    BY TakesType
  <1> QED BY <1>1 DEF StepOn, ReadStep

LEMMA ReadStepIs ==
  ASSUME NEW end, NEW d \in Decoder, NEW c \in Symbols
  PROVE  ReadStep(end)[<<d, c>>] = Takes(end, d, c)
  BY DEF ReadStep

ReadLoop(f, end, text) ==
  f = [i \in 0 .. Len(text) |->
         IF i = 0 THEN Nothing ELSE Takes(end, f[i - 1], text[i])]

LEMMA ReadsIs ==
  ASSUME NEW end, NEW text \in Seq(Symbols)
  PROVE  Reads(end, text) = Folded(Nothing, ReadStep(end), text)
  <1>1. PICK n \in Nat : n = Len(text)
    OBVIOUS
  <1>2. PICK step : step = ReadStep(end) /\ StepOn(step, Decoder, Symbols)
    BY ReadStepOn
  <1>3. PICK f : LoopOver(f, Nothing, step, text)
    BY <1>2, NothingType, LoopOverExists
  <1>4. /\ f[0] = Nothing
        /\ \A i \in 1 .. n : f[i] = step[<<f[i - 1], text[i]>>] /\ f[i - 1] \in Decoder
    BY <1>1, <1>2, <1>3, NothingType, LoopOverAt
  <1>5. ASSUME NEW i \in 1 .. n PROVE f[i] = Takes(end, f[i - 1], text[i])
    <2>1. text[i] \in Symbols
      BY <1>1
    <2>2. f[i - 1] \in Decoder /\ f[i] = step[<<f[i - 1], text[i]>>]
      BY <1>4
    <2> QED BY <1>2, <2>1, <2>2, ReadStepIs
  <1>6. f = [i \in 0 .. n |-> IF i = 0 THEN Nothing ELSE step[<<f[i - 1], text[i]>>]]
    BY <1>1, <1>3 DEF LoopOver
  <1>7. ReadLoop(f, end, text)
    <2>1. \A i \in 0 .. n : i # 0 => i \in 1 .. n
      OBVIOUS
    <2>2. f = [i \in 0 .. n |-> IF i = 0 THEN Nothing ELSE Takes(end, f[i - 1], text[i])]
      BY <1>4, <1>5, <1>6, <2>1
    <2> QED BY <1>1, <2>2 DEF ReadLoop
  <1>8. PICK g : g = CHOOSE r : ReadLoop(r, end, text)
    OBVIOUS
  <1>9. ReadLoop(g, end, text)
    BY <1>7, <1>8
  <1>10. g[0] = Nothing /\ \A i \in 1 .. n : g[i] = Takes(end, g[i - 1], text[i])
    <2>1. g = [i \in 0 .. n |-> IF i = 0 THEN Nothing ELSE Takes(end, g[i - 1], text[i])]
      BY <1>1, <1>9 DEF ReadLoop
    <2> QED BY <2>1
  <1> DEFINE Good == {i \in Nat : i <= n => f[i] = g[i]}
  <1>11. 0 \in Good
    BY <1>4, <1>10
  <1>12. ASSUME NEW i \in Good PROVE i + 1 \in Good
    <2>1. SUFFICES ASSUME i + 1 <= n PROVE f[i + 1] = g[i + 1]
      OBVIOUS
    <2>2. i + 1 \in 1 .. n /\ (i + 1) - 1 = i /\ f[i] = g[i]
      BY <2>1
    <2> QED BY <1>5, <1>10, <2>2
  <1>13. Nat \subseteq Good
    <2> HIDE DEF Good
    <2> QED BY <1>11, <1>12, SetInduction
  <1>14. f[n] = g[n]
    BY <1>13
  <1>15. Reads(end, text) = g[n]
    BY <1>1, <1>8 DEF Reads, ReadLoop
  <1>16. Folded(Nothing, step, text) = f[n]
    BY <1>1, <1>2, <1>3, NothingType, FoldedIs
  <1> QED BY <1>2, <1>14, <1>15, <1>16

LEMMA ReadsType ==
  ASSUME NEW end, NEW text \in Seq(Symbols)
  PROVE  Reads(end, text) \in Decoder
  BY ReadsIs, ReadStepOn, NothingType, FoldedType

\* A row of bytes that either end reads from a text is one.
LEMMA DecodedType ==
  ASSUME NEW text \in Seq(Symbols)
  PROVE  ClientBytes(text) \subseteq Seq(Byte) /\ ServerBytes(text) \subseteq Seq(Byte)
  <1>1. PICK s \in Seq(Symbols) : s = Stripped(text)
    <2> DEFINE inner == {i \in DOMAIN text : text[i] # Blank}
               first == CHOOSE i \in inner : \A j \in inner : i <= j
               last == CHOOSE i \in inner : \A j \in inner : j <= i
    <2>1. CASE inner = {}
      <3>1. Stripped(text) = <<>> /\ <<>> \in Seq(Symbols)
        BY <2>1, EmptySeq DEF Stripped
      <3> QED BY <3>1
    <2>2. CASE inner # {}
      <3>1. inner \subseteq Nat /\ inner \subseteq 1 .. Len(text)
        OBVIOUS
      <3>2. first \in inner /\ \A j \in inner : first <= j
        <4>1. \E i \in inner : \A j \in inner : i <= j
          <5> HIDE DEF inner
          <5> QED BY <2>2, <3>1, NatMin
        <4> HIDE DEF inner
        <4> QED BY <4>1
      <3>3. last \in inner
        <4>1. \E i \in inner : \A j \in inner : j <= i
          <5> HIDE DEF inner
          <5>1. PICK n \in Nat : n = Len(text)
            OBVIOUS
          <5> QED BY <2>2, <3>1, <5>1, NatMax
        <4> HIDE DEF inner
        <4> QED BY <4>1
      <3>4. SubSeq(text, first, last) \in Seq(Symbols)
        <4>1. PICK a \in 1 .. Len(text), b \in 1 .. Len(text) : a = first /\ b = last
          BY <3>1, <3>2, <3>3
        <4>2. \A i \in a .. b : text[i] \in Symbols
          OBVIOUS
        <4> HIDE DEF first, last
        <4> QED BY <4>1, <4>2, SubSeqProperties
      <3>5. Stripped(text) = SubSeq(text, first, last)
        BY <2>2 DEF Stripped
      <3> QED BY <3>4, <3>5
    <2> QED BY <2>1, <2>2
  <1>2. Reads("client", s) \in Decoder /\ Reads("server", s) \in Decoder
    BY ReadsType
  <1>3. \A d \in Decoder : d.out \in Seq(Byte)
    BY DEF Decoder
  <1>4. b64decode(s) \subseteq Seq(Byte)
    BY <1>2, <1>3 DEF b64decode
  <1>5. PythonDecode(s) \subseteq Seq(Byte)
    BY <1>2, <1>3 DEF PythonDecode
  <1> QED BY <1>1, <1>4, <1>5 DEF ClientBytes, ServerBytes
-----------------------------------------------------------------------------
(***************************************************************************)
(* Three bytes and the four characters they fill.                          *)
(***************************************************************************)
\* The i-th byte of the three that n stands for.
ByteAt(n, i) == (n \div Power[4 * (3 - i)]) % ByteBase

\* The i-th of its four characters.
CharAt(n, i) == (n \div Power[3 * (4 - i)]) % CharBase

LEMMA FilledFacts ==
  ASSUME NEW row \in Seq(Byte), Len(row) \in 1 .. 3
  PROVE  /\ Filled(row) \in Nat /\ Filled(row) < Power[12]
         /\ \A i \in 1 .. Len(row) : ByteAt(Filled(row), i) = row[i]
  <1>1. PICK r \in 1 .. 3 : r = Len(row)
    OBVIOUS
  <1>2. PICK F \in Nat : /\ F = FromBigEndian(row) /\ F < Power[4 * r]
                         /\ \A i \in 1 .. r : (F \div Power[4 * (r - i)]) % ByteBase = row[i]
    BY <1>1, FromBigEndianIs
  <1>3. 4 * (3 - r) \in Nat /\ 4 * r \in Nat /\ 4 * (3 - r) + 4 * r = 12
    <2>1. r = 1 \/ r = 2 \/ r = 3
      OBVIOUS
    <2> QED BY <2>1
  <1>4. PICK z \in Nat \ {0}, y \in Nat \ {0} : z = Power[4 * (3 - r)] /\ y = Power[4 * r]
    BY <1>3, PowerNat
  <1>5. Power[12] = z * y
    BY <1>3, <1>4, PowerAdd
  <1>6. PICK n \in Nat : n = F * z
    OBVIOUS
  <1>7. Filled(row) = n
    BY <1>1, <1>2, <1>4, <1>6 DEF Filled
  <1>8. n < Power[12]
    <2>1. F + 1 <= y
      BY <1>2, <1>4
    <2>2. (F + 1) * z <= y * z
      BY <2>1
    <2>3. (F + 1) * z = n + z /\ y * z = z * y
      BY <1>6
    <2>4. PICK t \in Nat : t = z * y
      OBVIOUS
    <2>5. n + z <= t
      BY <2>2, <2>3, <2>4
    <2> QED BY <1>5, <2>4, <2>5
  <1>9. n \div z = F
    <2>1. (F * z + 0) \div z = F
      BY DivModUnique
    <2> QED BY <1>6, <2>1
  <1>10. ASSUME NEW i \in 1 .. r PROVE ByteAt(n, i) = row[i]
    <2>1. 4 * (r - i) \in Nat /\ 4 * (3 - r) + 4 * (r - i) = 4 * (3 - i)
      BY <1>1
    <2>2. PICK w \in Nat \ {0} : w = Power[4 * (r - i)]
      BY <2>1, PowerNat
    <2>3. Power[4 * (3 - i)] = z * w
      BY <1>3, <1>4, <2>1, <2>2, PowerAdd
    <2>4. n \div (z * w) = F \div w
      BY <1>9, ShiftTwice
    <2> QED BY <1>2, <2>2, <2>3, <2>4 DEF ByteAt
  <1> QED BY <1>1, <1>7, <1>8, <1>10

LEMMA CharType ==
  ASSUME NEW n \in Nat, NEW i \in 1 .. 4
  PROVE  CharAt(n, i) \in Alphabet
  <1>1. 3 * (4 - i) \in Nat
    OBVIOUS
  <1>2. PICK w \in Nat \ {0} : w = Power[3 * (4 - i)]
    BY <1>1, PowerNat
  <1>3. PICK q \in Nat : q = n \div w
    BY DivMod
  <1>4. PICK c \in Nat \ {0} : c = CharBase
    BY SymbolFacts
  <1>5. q % c \in 0 .. c - 1
    BY DivMod
  <1> QED BY <1>2, <1>3, <1>4, <1>5 DEF CharAt, Alphabet

LEMMA CharactersIs ==
  ASSUME NEW n \in Nat, NEW k \in 0 .. 4
  PROVE  /\ Characters(n, k) = [i \in 1 .. k |-> CharAt(n, i)]
         /\ Characters(n, k) \in Seq(Alphabet) /\ Len(Characters(n, k)) = k
  <1>1. Characters(n, k) = [i \in 1 .. k |-> CharAt(n, i)]
    BY DEF Characters, CharAt
  <1>2. \A i \in 1 .. k : CharAt(n, i) \in Alphabet
    BY CharType
  <1> QED BY <1>1, <1>2

LEMMA CharactersAppend ==
  ASSUME NEW n \in Nat, NEW k \in 0 .. 3
  PROVE  Characters(n, k + 1) = Append(Characters(n, k), CharAt(n, k + 1))
  <1>1. PICK f : f = Characters(n, k)
    OBVIOUS
  <1>2. f = [i \in 1 .. k |-> CharAt(n, i)]
    <2>1. k \in 0 .. 4
      OBVIOUS
    <2> QED BY <1>1, <2>1, CharactersIs
  <1>3. k + 1 \in 0 .. 4
    OBVIOUS
  <1>4. Characters(n, k + 1) = [i \in 1 .. k + 1 |-> CharAt(n, i)]
    BY <1>3, CharactersIs
  <1>5. Append(f, CharAt(n, k + 1))
          = [i \in 1 .. k + 1 |-> IF i = k + 1 THEN CharAt(n, k + 1) ELSE f[i]]
    <2>1. f = [i \in 1 .. k |-> f[i]]
      BY <1>2
    <2> QED BY <2>1, AppendFunction
  <1>6. \A i \in 1 .. k + 1 :
          (IF i = k + 1 THEN CharAt(n, k + 1) ELSE f[i]) = CharAt(n, i)
    BY <1>2
  <1> QED BY <1>1, <1>4, <1>5, <1>6

\* One more character: what comes into the buffer under it.
LEMMA PushedBuffer ==
  ASSUME NEW b \in Nat, NEW n \in Nat, NEW k \in 0 .. 3,
         b % Power[3 * k] = n \div Power[3 * (4 - k)]
  PROVE  ((b * CharBase + CharAt(n, k + 1)) % Power[16]) % Power[3 * (k + 1)]
           = n \div Power[3 * (4 - (k + 1))]
  <1>1. PICK c \in Nat \ {0} : c = CharBase /\ c = Power[3]
    BY SymbolFacts, ByteFacts
  <1>2. 3 * k \in Nat /\ 3 * (k + 1) = 3 * k + 3 /\ 3 * (4 - k) = 3 * (4 - (k + 1)) + 3
        /\ 3 * (4 - (k + 1)) \in Nat /\ 16 - 3 * (k + 1) \in Nat
        /\ 3 * (k + 1) + (16 - 3 * (k + 1)) = 16 /\ 3 * (k + 1) \in Nat
        /\ 3 * (4 - k) \in Nat
    OBVIOUS
  <1>3. PICK p \in Nat \ {0}, w \in Nat \ {0} :
          p = Power[3 * k] /\ w = Power[3 * (4 - (k + 1))]
    BY <1>2, PowerNat
  <1>4. Power[3 * (k + 1)] = p * c /\ Power[3 * (4 - k)] = w * c
    <2>1. Power[3 * k + 3] = Power[3 * k] * Power[3]
      BY <1>2, PowerAdd
    <2>2. Power[3 * (4 - (k + 1)) + 3] = Power[3 * (4 - (k + 1))] * Power[3]
      BY <1>2, PowerAdd
    <2> QED BY <1>1, <1>2, <1>3, <2>1, <2>2
  <1>5. PICK m \in Nat : m = n \div w
    BY DivMod
  <1>6. n \div (w * c) = m \div c
    BY <1>5, ShiftTwice
  <1>7. PICK v \in 0 .. c - 1 : v = CharAt(n, k + 1) /\ v = m % c
    <2>1. m % c \in 0 .. c - 1
      BY DivMod
    <2>2. CharAt(n, k + 1) = m % c
      BY <1>1, <1>3, <1>5 DEF CharAt
    <2> QED BY <2>1, <2>2
  <1>8. PICK q \in Nat, r \in 0 .. p - 1 : b = q * p + r /\ r = b % p
    BY DivMod
  <1>9. r = m \div c /\ m = r * c + v
    <2>1. r = m \div c
      BY <1>3, <1>4, <1>6, <1>8
    <2> QED BY <1>7, <2>1, DivMod
  <1>10. PICK x \in Nat, pc \in Nat \ {0} : x = b * c + v /\ pc = p * c
    OBVIOUS
  <1>11. x = q * pc + m
    <2>1. b * c = (q * p + r) * c
      BY <1>8
    <2>2. (q * p + r) * c = q * (p * c) + r * c
      OBVIOUS
    <2> QED BY <1>9, <1>10, <2>1, <2>2
  <1>12. m \in 0 .. pc - 1
    <2>1. r + 1 <= p /\ r + 1 \in Nat
      BY <1>8
    <2>2. (r + 1) * c <= p * c
      BY <2>1
    <2>3. (r + 1) * c = r * c + c
      OBVIOUS
    <2>4. PICK y \in Nat : y = r * c
      OBVIOUS
    <2>5. y + c <= pc /\ m = y + v
      BY <1>9, <1>10, <2>2, <2>3, <2>4
    <2> QED BY <1>7, <2>5
  <1>13. x % pc = m
    BY <1>11, <1>12, DivModUnique
  <1>14. PICK e \in Nat \ {0} : e = Power[16 - 3 * (k + 1)]
    BY <1>2, PowerNat
  <1>15. Power[16] = pc * e
    BY <1>2, <1>4, <1>10, <1>14, PowerAdd
  <1>16. (x % (pc * e)) % pc = x % pc
    BY LowOfLow
  <1> QED BY <1>1, <1>3, <1>4, <1>5, <1>7, <1>10, <1>13, <1>15, <1>16

\* The byte that is shifted out with the character after the k-th.
LEMMA PushedByte ==
  ASSUME NEW b \in Nat, NEW n \in Nat, NEW k \in 1 .. 3,
         b % Power[3 * (k + 1)] = n \div Power[3 * (4 - (k + 1))]
  PROVE  (b \div Power[3 - k]) % ByteBase = ByteAt(n, k)
  <1>1. /\ 3 - k \in Nat /\ 3 * (4 - (k + 1)) \in Nat /\ 4 * k - 4 \in Nat
        /\ (3 - k) + 4 \in Nat
        /\ ((3 - k) + 4) + (4 * k - 4) = 3 * (k + 1)
        /\ 3 * (4 - (k + 1)) + (3 - k) = 4 * (3 - k)
    OBVIOUS
  <1>2. PICK u \in Nat \ {0}, c \in Nat \ {0}, h \in Nat \ {0}, w \in Nat \ {0} :
          /\ u = Power[3 - k] /\ c = Power[4] /\ h = Power[4 * k - 4]
          /\ w = Power[3 * (4 - (k + 1))]
    BY <1>1, PowerNat
  <1>3. PICK uc \in Nat \ {0} : uc = u * c
    OBVIOUS
  <1>4. Power[3 * (k + 1)] = uc * h /\ Power[4 * (3 - k)] = w * u
    <2>1. Power[(3 - k) + 4] = uc
      BY <1>1, <1>2, <1>3, PowerAdd
    <2>2. Power[((3 - k) + 4) + (4 * k - 4)] = Power[(3 - k) + 4] * Power[4 * k - 4]
      BY <1>1, PowerAdd
    <2>3. Power[3 * (4 - (k + 1)) + (3 - k)] = Power[3 * (4 - (k + 1))] * Power[3 - k]
      BY <1>1, PowerAdd
    <2> QED BY <1>1, <1>2, <2>1, <2>2, <2>3
  <1>5. PICK m \in Nat : m = n \div w
    BY DivMod
  <1>6. b % (uc * h) = m
    BY <1>2, <1>4, <1>5
  <1>7. b % uc = m % uc
    <2>1. (b % (uc * h)) % uc = b % uc
      BY LowOfLow
    <2> QED BY <1>6, <2>1
  <1>8. (b \div u) % c = (b % uc) \div u
    BY <1>3, ShiftOfLow
  <1>9. (m \div u) % c = (m % uc) \div u
    BY <1>3, ShiftOfLow
  <1>10. m \div u = n \div (w * u)
    BY <1>5, ShiftTwice
  <1>11. ByteBase = c
    BY <1>2, ByteFacts
  <1> QED BY <1>2, <1>4, <1>7, <1>8, <1>9, <1>10, <1>11 DEF ByteAt
-----------------------------------------------------------------------------
(***************************************************************************)
(* A decoder that reads a group of characters.                             *)
(***************************************************************************)
\* The first m of the bytes n stands for.
FirstBytes(n, m) == [i \in 1 .. m |-> ByteAt(n, i)]

\* After k characters there are 3 * k pairs, of which so many are not in a byte
\* that was shifted out, and so many bytes.
HeldBits(k) == IF k = 0 THEN 0 ELSE 4 - k
HeldBytes(k) == IF k = 0 THEN 0 ELSE k - 1

\* A decoder that is not at its end, and read no pad since the last digit.
Ready(d) == d \in Decoder /\ d.over = FALSE /\ d.bad = FALSE /\ d.pads = 0

\* d is what is left of a decoder with out after k characters of n.
Group(out, n, k, d) ==
  /\ Ready(d)
  /\ d.bits = HeldBits(k)
  /\ d.buf % Power[3 * k] = n \div Power[3 * (4 - k)]
  /\ d.out = out \o FirstBytes(n, HeldBytes(k))

LEMMA FirstBytesType ==
  ASSUME NEW n \in Nat, NEW m \in 0 .. 3
  PROVE  FirstBytes(n, m) \in Seq(Byte) /\ Len(FirstBytes(n, m)) = m
  <1>1. ASSUME NEW i \in 1 .. m PROVE ByteAt(n, i) \in Byte
    <2>1. 4 * (3 - i) \in Nat
      OBVIOUS
    <2>2. PICK w \in Nat \ {0} : w = Power[4 * (3 - i)]
      BY <2>1, PowerNat
    <2>3. PICK q \in Nat : q = n \div w
      BY DivMod
    <2>4. PICK c \in Nat \ {0} : c = ByteBase
      BY ByteFacts
    <2>5. q % c \in 0 .. c - 1
      BY DivMod
    <2> QED BY <2>2, <2>3, <2>4, <2>5 DEF ByteAt, Byte
  <1>2. PICK f : f = FirstBytes(n, m)
    OBVIOUS
  <1>3. f = [i \in 1 .. m |-> f[i]] /\ \A i \in 1 .. m : f[i] \in Byte
    BY <1>1, <1>2 DEF FirstBytes
  <1> QED BY <1>2, <1>3

LEMMA FirstBytesAppend ==
  ASSUME NEW n \in Nat, NEW m \in 0 .. 2
  PROVE  Append(FirstBytes(n, m), ByteAt(n, m + 1)) = FirstBytes(n, m + 1)
  <1>1. PICK f : f = FirstBytes(n, m)
    OBVIOUS
  <1>2. f = [i \in 1 .. m |-> ByteAt(n, i)]
    BY <1>1 DEF FirstBytes
  <1>3. f = [i \in 1 .. m |-> f[i]]
    BY <1>2
  <1>4. Append(f, ByteAt(n, m + 1))
          = [i \in 1 .. m + 1 |-> IF i = m + 1 THEN ByteAt(n, m + 1) ELSE f[i]]
    BY <1>3, AppendFunction
  <1>5. \A i \in 1 .. m + 1 :
          (IF i = m + 1 THEN ByteAt(n, m + 1) ELSE f[i]) = ByteAt(n, i)
    BY <1>2
  <1> QED BY <1>1, <1>4, <1>5 DEF FirstBytes

LEMMA OutAppend ==
  ASSUME NEW out \in Seq(Byte), NEW n \in Nat, NEW m \in 0 .. 2
  PROVE  Append(out \o FirstBytes(n, m), ByteAt(n, m + 1)) = out \o FirstBytes(n, m + 1)
  <1>1. PICK f \in Seq(Byte) : f = FirstBytes(n, m)
    <2>1. m \in 0 .. 3
      OBVIOUS
    <2> QED BY <2>1, FirstBytesType
  <1>2. PICK b \in Byte : b = ByteAt(n, m + 1)
    <2>1. m + 1 \in 0 .. 3
      OBVIOUS
    <2>2. FirstBytes(n, m + 1) \in Seq(Byte) /\ Len(FirstBytes(n, m + 1)) = m + 1
      BY <2>1, FirstBytesType
    <2>3. FirstBytes(n, m + 1)[m + 1] = ByteAt(n, m + 1)
      BY DEF FirstBytes
    <2>4. FirstBytes(n, m + 1)[m + 1] \in Byte
      BY <2>2
    <2> QED BY <2>3, <2>4
  <1>3. Append(f, b) = FirstBytes(n, m + 1)
    BY <1>1, <1>2, FirstBytesAppend
  <1>4. <<b>> \in Seq(Byte) /\ out \o f \in Seq(Byte)
    BY ConcatProperties
  <1>5. Append(f, b) = f \o <<b>>
    BY AppendIsConcat
  <1>6. Append(out \o f, b) = (out \o f) \o <<b>>
    BY <1>4, AppendIsConcat
  <1>7. (out \o f) \o <<b>> = out \o (f \o <<b>>)
    BY <1>4, ConcatAssociative
  <1> QED BY <1>1, <1>2, <1>3, <1>5, <1>6, <1>7

LEMMA GroupNext ==
  ASSUME NEW out \in Seq(Byte), NEW n \in Nat, NEW k \in 0 .. 3, NEW d,
         Group(out, n, k, d)
  PROVE  Group(out, n, k + 1, Pushed(d, CharAt(n, k + 1)))
  <1> DEFINE v == CharAt(n, k + 1)
             p == Pushed(d, v)
  <1>1. /\ d \in Decoder /\ d.over = FALSE /\ d.bad = FALSE /\ d.bits = HeldBits(k)
        /\ d.buf % Power[3 * k] = n \div Power[3 * (4 - k)]
        /\ d.out = out \o FirstBytes(n, HeldBytes(k)) /\ d.buf \in Nat
    BY DEF Group, Ready, Decoder
  <1>2. k + 1 \in 1 .. 4
    OBVIOUS
  <1>3. v \in Alphabet
    BY <1>2, CharType
  <1>4. p \in Decoder
    <2> HIDE DEF v
    <2> QED BY <1>1, <1>3, PushedType
  <1>5. PICK buf \in Nat : buf = (d.buf * CharBase + v) % Power[16]
    <2>1. d.buf \in Nat /\ v \in Nat /\ CharBase \in Nat
      BY <1>1, <1>3, SymbolFacts
    <2> HIDE DEF v
    <2>2. PICK x \in Nat : x = d.buf * CharBase + v
      BY <2>1
    <2>3. PICK q \in Nat \ {0} : q = Power[16]
      BY PowerFacts
    <2>4. x % q \in Nat
      BY DivMod
    <2> QED BY <2>2, <2>3, <2>4
  <1>6. buf % Power[3 * (k + 1)] = n \div Power[3 * (4 - (k + 1))]
    BY <1>1, <1>5, PushedBuffer
  <1> SUFFICES Group(out, n, k + 1, p)
    OBVIOUS
  <1>7. CASE k = 0
    <2>1. d.bits + 3 = 3
      BY <1>1, <1>7 DEF HeldBits
    <2>2. p = [d EXCEPT !.buf = buf, !.bits = 3, !.pads = 0]
      <3>1. PICK bits : bits = d.bits + 3
        OBVIOUS
      <3>2. bits = 3 /\ bits < 4
        BY <2>1, <3>1
      <3> HIDE DEF v
      <3>3. p = [d EXCEPT !.buf = buf, !.bits = bits, !.pads = 0]
        BY <1>5, <3>1, <3>2 DEF Pushed
      <3> QED BY <3>2, <3>3
    <2>3. /\ p.over = FALSE /\ p.bad = FALSE /\ p.pads = 0 /\ p.bits = 3
          /\ p.buf = buf /\ p.out = d.out
      <3> HIDE DEF p
      <3> QED BY <1>1, <2>2 DEF Decoder
    <2>4. HeldBits(k + 1) = 3 /\ HeldBytes(k + 1) = HeldBytes(k)
      BY <1>7 DEF HeldBits, HeldBytes
    <2> HIDE DEF p
    <2>5. Ready(p)
      BY <1>4, <2>3 DEF Ready
    <2>6. p.out = out \o FirstBytes(n, HeldBytes(k + 1))
      BY <1>1, <2>3, <2>4
    <2> QED BY <1>6, <2>3, <2>4, <2>5, <2>6 DEF Group
  <1>8. CASE k # 0
    <2>1. k \in 1 .. 3 /\ k - 1 \in 0 .. 2 /\ (k - 1) + 1 = k
      BY <1>8
    <2>2. d.bits + 3 = 7 - k /\ ~ (7 - k < 4) /\ (7 - k) - 4 = 3 - k
      BY <1>1, <1>8 DEF HeldBits
    <2>3. PICK b : b = (buf \div Power[3 - k]) % ByteBase
      OBVIOUS
    <2>4. b = ByteAt(n, k)
      BY <1>6, <2>1, <2>3, PushedByte
    <2>5. p = [d EXCEPT !.buf = buf, !.bits = 3 - k, !.pads = 0, !.out = Append(@, b)]
      <3> HIDE DEF v
      <3> QED BY <1>5, <2>2, <2>3 DEF Pushed
    <2>6. /\ p.over = FALSE /\ p.bad = FALSE /\ p.pads = 0 /\ p.bits = 3 - k
          /\ p.buf = buf /\ p.out = Append(d.out, b)
      <3> HIDE DEF p
      <3> QED BY <1>1, <2>5 DEF Decoder
    <2>7. HeldBits(k + 1) = 3 - k /\ HeldBytes(k + 1) = k /\ HeldBytes(k) = k - 1
      BY <2>1 DEF HeldBits, HeldBytes
    <2>8. Append(d.out, b) = out \o FirstBytes(n, k)
      <3>1. Append(out \o FirstBytes(n, k - 1), ByteAt(n, (k - 1) + 1))
              = out \o FirstBytes(n, (k - 1) + 1)
        BY <2>1, OutAppend
      <3> QED BY <1>1, <2>1, <2>4, <2>7, <3>1
    <2>9. Ready(p)
      BY <1>4, <2>6 DEF Ready
    <2>10. p.out = out \o FirstBytes(n, HeldBytes(k + 1))
      BY <2>6, <2>7, <2>8
    <2> QED BY <1>6, <2>6, <2>7, <2>9, <2>10 DEF Group
  <1> QED BY <1>7, <1>8

\* Either end from d over a text.
ReadOn(end, d, text) == Folded(d, ReadStep(end), text)

LEMMA ReadOnNone ==
  ASSUME NEW end, NEW d \in Decoder
  PROVE  ReadOn(end, d, <<>>) = d
  BY ReadStepOn, FoldedNone DEF ReadOn

LEMMA ReadOnAppend ==
  ASSUME NEW end, NEW d \in Decoder, NEW s \in Seq(Symbols), NEW c \in Symbols
  PROVE  /\ ReadOn(end, d, s) \in Decoder
         /\ ReadOn(end, d, Append(s, c)) = Takes(end, ReadOn(end, d, s), c)
  <1>1. PICK step : step = ReadStep(end) /\ StepOn(step, Decoder, Symbols)
    BY ReadStepOn
  <1>2. Folded(d, step, s) \in Decoder
    BY <1>1, FoldedType
  <1>3. Folded(d, step, Append(s, c)) = step[<<Folded(d, step, s), c>>]
    BY <1>1, FoldedAppend
  <1> QED BY <1>1, <1>2, <1>3, ReadStepIs DEF ReadOn

LEMMA ReadOnConcat ==
  ASSUME NEW end, NEW d \in Decoder, NEW s \in Seq(Symbols), NEW t \in Seq(Symbols)
  PROVE  ReadOn(end, d, s \o t) = ReadOn(end, ReadOn(end, d, s), t)
  <1>1. PICK step : step = ReadStep(end) /\ StepOn(step, Decoder, Symbols)
    BY ReadStepOn
  <1>2. Folded(d, step, s \o t) = Folded(Folded(d, step, s), step, t)
    BY <1>1, FoldedConcat
  <1> QED BY <1>1, <1>2 DEF ReadOn

\* The first k characters of a group.
LEMMA GroupRead ==
  ASSUME NEW end, NEW d, Ready(d), d.bits = 0,
         NEW n \in Nat, n < Power[12], NEW k \in 0 .. 4
  PROVE  Group(d.out, n, k, ReadOn(end, d, Characters(n, k)))
  <1>0. d \in Decoder /\ d.out \in Seq(Byte) /\ d.buf \in Nat
    BY DEF Ready, Decoder
  <1> DEFINE Good == {i \in Nat : i <= 4 => Group(d.out, n, i, ReadOn(end, d, Characters(n, i)))}
  <1>1. 0 \in Good
    <2>1. Characters(n, 0) = <<>>
      BY CharactersIs
    <2>2. ReadOn(end, d, Characters(n, 0)) = d
      BY <1>0, <2>1, ReadOnNone
    <2>3. FirstBytes(n, HeldBytes(0)) = <<>> /\ HeldBits(0) = 0
      BY DEF FirstBytes, HeldBytes, HeldBits
    <2>4. d.out \o <<>> = d.out
      BY <1>0, ConcatEmptySeq
    <2>5. 3 * 0 = 0 /\ 3 * (4 - 0) = 12 /\ Power[0] = 1
      BY PowerFacts
    <2>6. d.buf % 1 = 0
      BY <1>0
    <2>7. n \div Power[12] = 0
      <3>1. PICK w \in Nat \ {0} : w = Power[12]
        BY PowerNat
      <3>2. (0 * w + n) \div w = 0
        BY <3>1, DivModUnique
      <3> QED BY <3>1, <3>2
    <2>8. Group(d.out, n, 0, d)
      BY <2>3, <2>4, <2>5, <2>6, <2>7 DEF Group
    <2> QED BY <2>2, <2>8
  <1>2. ASSUME NEW i \in Good PROVE i + 1 \in Good
    <2>1. SUFFICES ASSUME i + 1 <= 4
                   PROVE  Group(d.out, n, i + 1, ReadOn(end, d, Characters(n, i + 1)))
      OBVIOUS
    <2>2. i \in 0 .. 3 /\ i \in 0 .. 4 /\ i + 1 \in 1 .. 4
      BY <2>1
    <2>3. PICK s \in Seq(Alphabet) : s = Characters(n, i)
      BY <2>2, CharactersIs
    <2>4. PICK c \in Alphabet : c = CharAt(n, i + 1)
      BY <2>2, CharType
    <2>5. Characters(n, i + 1) = Append(s, c)
      BY <2>2, <2>3, <2>4, CharactersAppend
    <2>6. s \in Seq(Symbols) /\ c \in Symbols /\ c # Blank
      BY SymbolFacts DEF Symbols
    <2>7. PICK e : e = ReadOn(end, d, s)
      OBVIOUS
    <2>8. ReadOn(end, d, Append(s, c)) = Takes(end, e, c)
      BY <1>0, <2>6, <2>7, ReadOnAppend
    <2>9. Group(d.out, n, i, e)
      BY <2>1, <2>3, <2>7
    <2>10. Takes(end, e, c) = Pushed(e, c)
      <3>1. e.over = FALSE
        BY <2>9 DEF Group, Ready
      <3> QED BY <2>6, <3>1 DEF Takes
    <2>11. Group(d.out, n, i + 1, Pushed(e, c))
      BY <1>0, <2>2, <2>4, <2>9, GroupNext
    <2> QED BY <2>5, <2>8, <2>10, <2>11
  <1>3. Nat \subseteq Good
    <2> HIDE DEF Good
    <2> QED BY <1>1, <1>2, SetInduction
  <1> QED BY <1>3
-----------------------------------------------------------------------------
(***************************************************************************)
(* The groups of three bytes.                                              *)
(***************************************************************************)
Whole(data) == Len(data) \div 3

Row(data, i) == Take(data, 3 * i - 3, 3)

Blocks(data) == [i \in 1 .. Whole(data) |-> Characters(Filled(Row(data, i)), 4)]

Rest(data) == Take(data, 3 * Whole(data), Len(data) % 3)

\* The characters of the first i rows.
Encoded(data, i) == Joined(Blocks(data), 4, i)

LEMMA WholeFacts ==
  ASSUME NEW data \in Seq(Byte)
  PROVE  /\ Whole(data) \in Nat /\ Len(data) % 3 \in 0 .. 2
         /\ 3 * Whole(data) + (Len(data) % 3) = Len(data)
         /\ Rest(data) \in Seq(Byte) /\ Len(Rest(data)) = Len(data) % 3
  <1>1. PICK l \in Nat : l = Len(data)
    OBVIOUS
  <1>2. l \div 3 \in Nat /\ l % 3 \in 0 .. 3 - 1 /\ l = (l \div 3) * 3 + (l % 3)
    OBVIOUS
  <1>3. PICK w \in Nat, r \in 0 .. 2 : w = l \div 3 /\ r = l % 3
    BY <1>2
  <1>4. 3 * w + r = l
    BY <1>2, <1>3
  <1>5. PICK a \in Nat : a = 3 * w
    OBVIOUS
  <1>6. a + r <= Len(data)
    BY <1>1, <1>4, <1>5
  <1>7. Take(data, a, r) \in Seq(Byte) /\ Len(Take(data, a, r)) = r
    BY <1>6, TakeIs
  <1>8. Whole(data) = w /\ Len(data) % 3 = r /\ 3 * Whole(data) = a
    BY <1>1, <1>3, <1>5 DEF Whole
  <1>9. Rest(data) = Take(data, a, r)
    BY <1>8 DEF Rest
  <1>10. a + r = l
    BY <1>4, <1>5
  <1>11. 3 * Whole(data) + (Len(data) % 3) = Len(data)
    BY <1>1, <1>8, <1>10
  <1>12. Whole(data) \in Nat /\ Len(data) % 3 \in 0 .. 2
    BY <1>3, <1>8, Zenon
  <1>13. Rest(data) \in Seq(Byte) /\ Len(Rest(data)) = Len(data) % 3
    BY <1>7, <1>8, <1>9, Zenon
  <1> QED BY <1>11, <1>12, <1>13, Zenon

LEMMA WholeLess ==
  ASSUME NEW data \in Seq(Byte)
  PROVE  \E w \in Nat, l \in Nat : w = Whole(data) /\ l = Len(data) /\ 3 * w <= l
  <1>1. PICK w \in Nat, l \in Nat, r \in 0 .. 2 :
          w = Whole(data) /\ l = Len(data) /\ r = Len(data) % 3
    <2>1. Whole(data) \in Nat /\ Len(data) \in Nat /\ Len(data) % 3 \in 0 .. 2
      BY WholeFacts
    <2> QED BY <2>1
  <1>2. 3 * w + r = l
    <2>1. 3 * Whole(data) + (Len(data) % 3) = Len(data)
      BY WholeFacts, Zenon
    <2> QED BY <1>1, <2>1
  <1>3. 3 * w <= l
    BY <1>2
  <1> QED BY <1>1, <1>3

LEMMA RowFacts ==
  ASSUME NEW data \in Seq(Byte), NEW i \in 1 .. Whole(data)
  PROVE  /\ Row(data, i) \in Seq(Byte) /\ Len(Row(data, i)) = 3
         /\ Filled(Row(data, i)) \in Nat /\ Filled(Row(data, i)) < Power[12]
         /\ FirstBytes(Filled(Row(data, i)), 3) = Row(data, i)
  <1>1. PICK w \in Nat, l \in Nat : w = Whole(data) /\ l = Len(data) /\ 3 * w <= l
    BY WholeLess
  <1>2. PICK off \in Nat : off = 3 * i - 3
    <2>1. 3 * i - 3 \in Nat
      BY <1>1
    <2> QED BY <2>1
  <1>3. off + 3 <= Len(data)
    BY <1>1, <1>2
  <1>4. PICK row : row = Row(data, i)
    OBVIOUS
  <1>5. row \in Seq(Byte) /\ Len(row) = 3
    <2>1. Take(data, off, 3) \in Seq(Byte) /\ Len(Take(data, off, 3)) = 3
      <3>1. PICK three \in Nat : three = 3
        OBVIOUS
      <3>2. off + three <= Len(data)
        BY <1>3, <3>1
      <3>3. Take(data, off, three) \in Seq(Byte) /\ Len(Take(data, off, three)) = three
        BY <3>2, TakeIs
      <3> QED BY <3>1, <3>3
    <2> QED BY <1>2, <1>4, <2>1 DEF Row
  <1>6. PICK n : n = Filled(row)
    OBVIOUS
  <1>7. n \in Nat /\ n < Power[12] /\ \A j \in 1 .. 3 : ByteAt(n, j) = row[j]
    <2>1. Len(row) \in 1 .. 3
      BY <1>5
    <2> QED BY <1>5, <1>6, <2>1, FilledFacts
  <1>8. row = [j \in 1 .. 3 |-> row[j]]
    BY <1>5
  <1>9. FirstBytes(n, 3) = row
    BY <1>7, <1>8 DEF FirstBytes
  <1> QED BY <1>4, <1>5, <1>6, <1>7, <1>9

LEMMA BlockIs ==
  ASSUME NEW data \in Seq(Byte), NEW i \in 1 .. Whole(data)
  PROVE  /\ Blocks(data)[i] = Characters(Filled(Row(data, i)), 4)
         /\ Blocks(data)[i] \in Seq(Alphabet) /\ Len(Blocks(data)[i]) = 4
         /\ Blocks(data)[i] = [k \in 1 .. 4 |-> Blocks(data)[i][k]]
  <1>1. PICK n \in Nat : n = Filled(Row(data, i))
    BY RowFacts
  <1>2. PICK f : f = Characters(n, 4)
    OBVIOUS
  <1>3. f \in Seq(Alphabet) /\ Len(f) = 4
    <2>1. 4 \in 0 .. 4
      OBVIOUS
    <2> QED BY <1>2, <2>1, CharactersIs
  <1>4. f = [k \in 1 .. 4 |-> f[k]]
    BY <1>3
  <1>5. Blocks(data)[i] = f
    BY <1>1, <1>2 DEF Blocks
  <1> QED BY <1>1, <1>2, <1>3, <1>4, <1>5

LEMMA EncodeIs ==
  ASSUME NEW data \in Seq(Byte)
  PROVE  b64encode(data) = Encoded(data, Whole(data)) \o EncodeRest(Rest(data))
  <1>0. PICK w \in Nat : w = Whole(data)
    BY WholeFacts
  <1>01. PICK seqs : seqs = Blocks(data)
    OBVIOUS
  <1>1. w = Whole(data) /\ seqs = Blocks(data)
    BY <1>0, <1>01
  <1>2. seqs = [i \in 1 .. w |-> seqs[i]]
    BY <1>1 DEF Blocks
  <1>3. \A i \in 1 .. w : seqs[i] = [k \in 1 .. 4 |-> seqs[i][k]]
    BY <1>1, BlockIs
  <1>4. FlattenSeq(seqs) = Joined(seqs, 4, w)
    <2>1. PICK four \in Nat \ {0} : four = 4
      OBVIOUS
    <2>2. \A i \in 1 .. w : seqs[i] = [k \in 1 .. four |-> seqs[i][k]]
      BY <1>3, <2>1
    <2>3. FlattenSeq(seqs) = Joined(seqs, four, w)
      BY <1>2, <2>2, FlattenBlocks
    <2> QED BY <2>1, <2>3
  <1>5. b64encode(data) = FlattenSeq(seqs) \o EncodeRest(Rest(data))
    BY <1>1 DEF b64encode, Blocks, Whole, Row, Rest
  <1> QED BY <1>1, <1>4, <1>5 DEF Encoded

LEMMA EncodedNext ==
  ASSUME NEW data \in Seq(Byte), NEW i \in Nat, i + 1 <= Whole(data)
  PROVE  Encoded(data, i + 1) = Encoded(data, i) \o Blocks(data)[i + 1]
  <1>1. PICK seqs : seqs = Blocks(data)
    OBVIOUS
  <1>2. i + 1 \in 1 .. Whole(data)
    BY WholeFacts
  <1>3. seqs[i + 1] = [k \in 1 .. 4 |-> seqs[i + 1][k]]
    BY <1>1, <1>2, BlockIs
  <1>4. Joined(seqs, 4, i) \o seqs[i + 1] = Joined(seqs, 4, i + 1)
    <2>1. PICK four \in Nat \ {0} : four = 4
      OBVIOUS
    <2>2. seqs[i + 1] = [k \in 1 .. four |-> seqs[i + 1][k]]
      BY <1>3, <2>1
    <2>3. Joined(seqs, four, i) \o seqs[i + 1] = Joined(seqs, four, i + 1)
      BY <2>2, ConcatBlocks
    <2> QED BY <2>1, <2>3
  <1> QED BY <1>1, <1>4 DEF Encoded

\* What either end has after i rows.
RowsRead(end, data, i) ==
  LET d == ReadOn(end, Nothing, Encoded(data, i))
  IN Ready(d) /\ d.bits = 0 /\ d.out = Take(data, 0, 3 * i)

LEMMA PrefixRead ==
  ASSUME NEW end, NEW data \in Seq(Byte), NEW i \in 0 .. Whole(data)
  PROVE  Encoded(data, i) \in Seq(Alphabet) /\ RowsRead(end, data, i)
  <1>0. PICK w \in Nat, l \in Nat : w = Whole(data) /\ l = Len(data) /\ 3 * w <= l
    BY WholeLess
  <1>00. Seq(Alphabet) \subseteq Seq(Symbols)
    BY DEF Symbols
  <1> DEFINE Good == {j \in Nat : j <= w => Encoded(data, j) \in Seq(Alphabet)
                                            /\ RowsRead(end, data, j)}
  <1>1. 0 \in Good
    <2>1. Encoded(data, 0) = <<>>
      BY DEF Encoded, Joined
    <2>2. Encoded(data, 0) \in Seq(Alphabet)
      BY <2>1, EmptySeq
    <2>3. ReadOn(end, Nothing, <<>>) = Nothing
      BY NothingType, ReadOnNone
    <2>4. Take(data, 0, 3 * 0) = <<>>
      BY DEF Take
    <2>5. Ready(Nothing) /\ Nothing.bits = 0 /\ Nothing.out = <<>>
      BY NothingType DEF Nothing, Ready
    <2>6. RowsRead(end, data, 0)
      BY <2>1, <2>3, <2>4, <2>5 DEF RowsRead
    <2> QED BY <2>2, <2>6
  <1>2. ASSUME NEW j \in Good PROVE j + 1 \in Good
    <2>1. SUFFICES ASSUME j + 1 <= w
                   PROVE  Encoded(data, j + 1) \in Seq(Alphabet) /\ RowsRead(end, data, j + 1)
      OBVIOUS
    <2>2. j + 1 \in 1 .. Whole(data) /\ j + 1 <= Whole(data) /\ j <= w
      BY <1>0, <2>1
    <2>3. PICK s : s = Encoded(data, j) /\ s \in Seq(Alphabet) /\ RowsRead(end, data, j)
      BY <2>2
    <2>4. PICK t : t = Blocks(data)[j + 1] /\ t \in Seq(Alphabet)
      BY <2>2, BlockIs
    <2>5. Encoded(data, j + 1) = s \o t /\ s \o t \in Seq(Alphabet)
      BY <2>2, <2>3, <2>4, EncodedNext, ConcatProperties
    <2>6. PICK d : d = ReadOn(end, Nothing, s)
      OBVIOUS
    <2>7. Ready(d) /\ d.bits = 0 /\ d.out = Take(data, 0, 3 * j)
      BY <2>3, <2>6 DEF RowsRead
    <2>8. PICK n : /\ n = Filled(Row(data, j + 1)) /\ n \in Nat /\ n < Power[12]
                   /\ FirstBytes(n, 3) = Row(data, j + 1)
      BY <2>2, RowFacts
    <2>9. t = Characters(n, 4)
      BY <2>2, <2>4, <2>8, BlockIs
    <2>10. PICK e : e = ReadOn(end, d, t)
      OBVIOUS
    <2>11. Group(d.out, n, 4, e)
      <3>1. 4 \in 0 .. 4
        OBVIOUS
      <3> QED BY <2>7, <2>8, <2>9, <2>10, <3>1, GroupRead
    <2>12. Ready(e) /\ e.bits = 0 /\ e.out = Take(data, 0, 3 * j) \o Row(data, j + 1)
      <3>1. HeldBits(4) = 0 /\ HeldBytes(4) = 3
        BY DEF HeldBits, HeldBytes
      <3> QED BY <2>7, <2>8, <2>11, <3>1 DEF Group
    <2>13. Take(data, 0, 3 * j) \o Row(data, j + 1) = Take(data, 0, 3 * (j + 1))
      <3>1. PICK k \in Nat, three \in Nat : k = 3 * j /\ three = 3
        OBVIOUS
      <3>2. k + three <= Len(data) /\ 3 * (j + 1) - 3 = k /\ 3 * (j + 1) = k + three
        BY <1>0, <2>1, <3>1
      <3>3. Take(data, 0, k) \o Take(data, k, three) = Take(data, 0, k + three)
        BY <3>2, TakeJoin
      <3> QED BY <3>1, <3>2, <3>3 DEF Row
    <2>14. ReadOn(end, Nothing, s \o t) = e
      <3>1. s \in Seq(Symbols) /\ t \in Seq(Symbols)
        BY <1>00, <2>3, <2>4
      <3> QED BY <2>6, <2>10, <3>1, NothingType, ReadOnConcat
    <2>15. RowsRead(end, data, j + 1)
      BY <2>5, <2>12, <2>13, <2>14 DEF RowsRead
    <2> QED BY <2>5, <2>15
  <1>3. Nat \subseteq Good
    <2> HIDE DEF Good
    <2> QED BY <1>1, <1>2, SetInduction
  <1> QED BY <1>0, <1>3
-----------------------------------------------------------------------------
(***************************************************************************)
(* The bytes that are left over, and the pads behind them.                 *)
(***************************************************************************)
LEMMA TakesOver ==
  ASSUME NEW end, NEW d \in Decoder, d.over = TRUE, NEW c \in Symbols
  PROVE  Takes(end, d, c) = d
  <1>1. ~ (~ d.over /\ c \in Alphabet)
    OBVIOUS
  <1> QED BY <1>1 DEF Takes

\* A pad ends the client's reading.
LEMMA ClientPad ==
  ASSUME NEW d \in Decoder, d.over = FALSE
  PROVE  \E e \in Decoder : /\ e = Takes("client", d, Pad) /\ e.over = TRUE
                            /\ e.bad = FALSE /\ e.out = d.out
  <1>1. Takes("client", d, Pad) = ClientStops(d, Pad)
    BY SymbolFacts DEF Takes
  <1>2. PICK e : e = Takes("client", d, Pad)
    OBVIOUS
  <1>3. e \in Decoder
    BY <1>2, SymbolFacts, TakesType
  <1>4. e = [d EXCEPT !.over = TRUE, !.bad = FALSE]
    BY <1>1, <1>2 DEF ClientStops
  <1>5. e.over = TRUE /\ e.bad = FALSE /\ e.out = d.out
    BY <1>4 DEF Decoder
  <1> QED BY <1>2, <1>3, <1>5

\* A pad where the server counts it.
LEMMA ServerPad ==
  ASSUME NEW d \in Decoder, d.over = FALSE, QuadPos(d) \in {2, 3}, d.pads \in {0, 1}
  PROVE  \E e \in Decoder : /\ e = Takes("server", d, Pad) /\ e.bits = d.bits
                            /\ e.pads = d.pads + 1 /\ e.out = d.out
                            /\ e.over = IF QuadPos(d) = 2 /\ d.pads = 0 THEN FALSE ELSE TRUE
  <1>1. Takes("server", d, Pad) = PythonPasses(d, Pad)
    BY SymbolFacts DEF Takes
  <1>2. PICK e : e = Takes("server", d, Pad)
    OBVIOUS
  <1>3. e \in Decoder
    BY <1>2, SymbolFacts, TakesType
  <1>4. QuadPos(d) >= 2
    OBVIOUS
  <1>5. CASE QuadPos(d) = 2 /\ d.pads = 0
    <2>1. (QuadPos(d) + d.pads + 1 >= 4) = FALSE
      BY <1>5
    <2>2. e = [d EXCEPT !.pads = @ + 1, !.over = FALSE]
      BY <1>1, <1>2, <1>4, <2>1, Zenon DEF PythonPasses
    <2>3. e.over = FALSE /\ e.bits = d.bits /\ e.pads = d.pads + 1 /\ e.out = d.out
      BY <2>2 DEF Decoder
    <2> QED BY <1>2, <1>3, <1>5, <2>3
  <1>6. CASE ~ (QuadPos(d) = 2 /\ d.pads = 0)
    <2>1. (QuadPos(d) + d.pads + 1 >= 4) = TRUE
      BY <1>6
    <2>2. e = [d EXCEPT !.pads = @ + 1, !.over = TRUE]
      BY <1>1, <1>2, <1>4, <2>1, Zenon DEF PythonPasses
    <2>3. e.over = TRUE /\ e.bits = d.bits /\ e.pads = d.pads + 1 /\ e.out = d.out
      BY <2>2 DEF Decoder
    <2> QED BY <1>2, <1>3, <1>6, <2>3
  <1> QED BY <1>5, <1>6

LEMMA QuadPosIs ==
  ASSUME NEW d
  PROVE  /\ d.bits = 0 => QuadPos(d) = 0
         /\ d.bits = 1 => QuadPos(d) = 3
         /\ d.bits = 2 => QuadPos(d) = 2
  BY DEF QuadPos

\* The pads that follow m bytes.
Pads(m) == [i \in 1 .. 3 - m |-> Pad]

LEMMA PadsIs == Pads(2) = Append(<<>>, Pad) /\ Pads(1) = Append(Append(<<>>, Pad), Pad)
  <1>1. Pads(2) = Append(<<>>, Pad)
    <2>1. Pads(2) = [i \in 1 .. 1 |-> Pad]
      BY DEF Pads
    <2> QED BY <2>1
  <1>2. Pads(1) = Append(Append(<<>>, Pad), Pad)
    <2>1. Pads(1) = [i \in 1 .. 2 |-> Pad]
      BY DEF Pads
    <2> QED BY <2>1
  <1> QED BY <1>1, <1>2

\* A decoder of either end that has read a whole text.
Finished(end, e, out) ==
  /\ e.out = out
  /\ end = "client" => e.bad = FALSE
  /\ end = "server" => e.over = TRUE \/ QuadPos(e) = 0

LEMMA PadsRead ==
  ASSUME NEW end \in {"client", "server"}, NEW d, Ready(d), NEW m \in 1 .. 2,
         d.bits = 3 - m
  PROVE  Finished(end, ReadOn(end, d, Pads(m)), d.out)
  <1>0. d \in Decoder /\ d.over = FALSE /\ d.bad = FALSE /\ d.pads = 0
    BY DEF Ready
  <1>1. PICK none \in Seq(Symbols) : none = <<>>
    BY EmptySeq
  <1>2. PICK pad \in Symbols : pad = Pad
    BY SymbolFacts
  <1>3. PICK one \in Seq(Symbols) : one = Append(none, pad)
    BY AppendProperties
  <1>4. ReadOn(end, d, none) = d
    BY <1>0, <1>1, ReadOnNone
  <1>5. PICK e : e = Takes(end, d, pad)
    OBVIOUS
  <1>6. ReadOn(end, d, one) = e
    BY <1>0, <1>3, <1>4, <1>5, ReadOnAppend
  <1>7. CASE m = 2
    <2>1. Pads(m) = one
      BY <1>1, <1>2, <1>3, <1>7, PadsIs
    <2>2. CASE end = "client"
      <3>1. e.over = TRUE /\ e.bad = FALSE /\ e.out = d.out
        BY <1>0, <1>2, <1>5, <2>2, ClientPad
      <3> QED BY <1>6, <2>1, <2>2, <3>1 DEF Finished
    <2>3. CASE end = "server"
      <3>1. QuadPos(d) = 3
        BY <1>7, QuadPosIs
      <3>2. QuadPos(d) \in {2, 3} /\ d.pads \in {0, 1} /\ ~ (QuadPos(d) = 2 /\ d.pads = 0)
        BY <1>0, <3>1
      <3>20. PICK x \in Decoder :
               /\ x = Takes("server", d, Pad) /\ x.out = d.out
               /\ x.over = IF QuadPos(d) = 2 /\ d.pads = 0 THEN FALSE ELSE TRUE
        BY <1>0, <3>2, ServerPad
      <3>3. x = Takes("server", d, Pad) /\ x.out = d.out /\ x.over = TRUE
        BY <3>2, <3>20
      <3>4. x = e /\ x.over = TRUE
        BY <1>2, <1>5, <2>3, <3>3
      <3> QED BY <1>6, <2>1, <2>3, <3>3, <3>4 DEF Finished
    <2> QED BY <2>2, <2>3
  <1>8. CASE m = 1
    <2>1. Pads(m) = Append(one, pad)
      BY <1>1, <1>2, <1>3, <1>8, PadsIs
    <2>2. ReadOn(end, d, Append(one, pad)) = Takes(end, e, pad)
      BY <1>0, <1>6, ReadOnAppend
    <2>3. CASE end = "client"
      <3>0. PICK x \in Decoder : x = Takes("client", d, Pad) /\ x.over = TRUE
                                 /\ x.bad = FALSE /\ x.out = d.out
        BY <1>0, ClientPad
      <3>1. e \in Decoder /\ e.over = TRUE /\ e.bad = FALSE /\ e.out = d.out
        BY <1>2, <1>5, <2>3, <3>0
      <3>2. Takes(end, e, pad) = e
        BY <3>1, TakesOver
      <3> QED BY <2>1, <2>2, <2>3, <3>1, <3>2 DEF Finished
    <2>4. CASE end = "server"
      <3>1. QuadPos(d) = 2 /\ d.bits = 2
        BY <1>8, QuadPosIs
      <3>3. PICK x \in Decoder : /\ x = Takes("server", d, Pad) /\ x.bits = d.bits
                                 /\ x.pads = 0 + 1 /\ x.out = d.out /\ x.over = FALSE
        BY <1>0, <3>1, ServerPad
      <3>4. x = e /\ x.over = FALSE /\ x.pads = 1 /\ x.bits = 2
        BY <1>2, <1>5, <2>4, <3>1, <3>3
      <3>5. QuadPos(x) = 2
        BY <3>4, QuadPosIs
      <3>50. QuadPos(x) \in {2, 3} /\ x.pads \in {0, 1} /\ ~ (QuadPos(x) = 2 /\ x.pads = 0)
        BY <3>4, <3>5
      <3>51. PICK h \in Decoder :
               /\ h = Takes("server", x, Pad) /\ h.out = x.out
               /\ h.over = IF QuadPos(x) = 2 /\ x.pads = 0 THEN FALSE ELSE TRUE
        BY <3>4, <3>50, ServerPad
      <3>6. h = Takes("server", x, Pad) /\ h.out = x.out /\ h.over = TRUE
        BY <3>50, <3>51
      <3>7. h = Takes(end, e, pad) /\ h.over = TRUE /\ h.out = d.out
        BY <1>2, <2>4, <3>3, <3>4, <3>6
      <3> QED BY <2>1, <2>2, <2>4, <3>7 DEF Finished
    <2> QED BY <2>3, <2>4
  <1> QED BY <1>7, <1>8

LEMMA RestRead ==
  ASSUME NEW end \in {"client", "server"}, NEW d, Ready(d), d.bits = 0,
         NEW row \in Seq(Byte), Len(row) \in 0 .. 2
  PROVE  /\ EncodeRest(row) \in Seq(Symbols)
         /\ Finished(end, ReadOn(end, d, EncodeRest(row)), d.out \o row)
  <1>0. d \in Decoder /\ d.out \in Seq(Byte) /\ d.bad = FALSE
    BY DEF Ready, Decoder
  <1>1. CASE row = <<>>
    <2>1. EncodeRest(row) = <<>> /\ <<>> \in Seq(Symbols)
      BY <1>1, EmptySeq DEF EncodeRest
    <2>2. ReadOn(end, d, EncodeRest(row)) = d
      BY <1>0, <2>1, ReadOnNone
    <2>3. d.out \o row = d.out
      BY <1>0, <1>1, ConcatEmptySeq
    <2>4. QuadPos(d) = 0
      BY QuadPosIs
    <2> QED BY <1>0, <2>1, <2>2, <2>3, <2>4 DEF Finished
  <1>2. CASE row # <<>>
    <2>1. PICK m \in 1 .. 2 : m = Len(row)
      <3>1. Len(row) # 0
        BY <1>2, EmptySeq
      <3> QED BY <3>1
    <2>2. PICK n \in Nat : /\ n = Filled(row) /\ n < Power[12]
                           /\ \A i \in 1 .. m : ByteAt(n, i) = row[i]
      <3>1. Len(row) \in 1 .. 3
        BY <2>1
      <3> QED BY <2>1, <3>1, FilledFacts
    <2>3. PICK k \in 0 .. 4 : k = m + 1
      <3>1. m + 1 \in 0 .. 4
        OBVIOUS
      <3> QED BY <3>1
    <2>4. PICK s \in Seq(Symbols) : s = Characters(n, k)
      <3>1. Characters(n, k) \in Seq(Alphabet)
        BY CharactersIs
      <3> QED BY <3>1 DEF Symbols
    <2>5. EncodeRest(row) = s \o Pads(m)
      BY <1>2, <2>1, <2>2, <2>3, <2>4 DEF EncodeRest, Pads
    <2>6. PICK t \in Seq(Symbols) : t = Pads(m)
      <3>1. PICK pad \in Symbols : pad = Pad
        BY SymbolFacts
      <3>2. 3 - m \in Nat /\ Pads(m) = [i \in 1 .. 3 - m |-> pad]
        BY <3>1 DEF Pads
      <3>3. Pads(m) \in Seq(Symbols)
        BY <3>2
      <3> QED BY <3>3
    <2>7. PICK e : e = ReadOn(end, d, s)
      OBVIOUS
    <2>8. Group(d.out, n, k, e)
      BY <2>2, <2>4, <2>7, GroupRead
    <2>9. HeldBits(k) = 3 - m /\ HeldBytes(k) = m
      BY <2>3 DEF HeldBits, HeldBytes
    <2>10. FirstBytes(n, m) = row
      <3>1. row = [i \in 1 .. m |-> row[i]]
        BY <2>1
      <3> QED BY <2>2, <3>1 DEF FirstBytes
    <2>11. Ready(e) /\ e.bits = 3 - m /\ e.out = d.out \o row
      BY <2>8, <2>9, <2>10 DEF Group
    <2>12. Finished(end, ReadOn(end, e, t), e.out)
      BY <2>6, <2>11, PadsRead
    <2>13. ReadOn(end, d, s \o t) = ReadOn(end, e, t)
      BY <1>0, <2>7, ReadOnConcat
    <2>14. s \o t \in Seq(Symbols)
      BY ConcatProperties
    <2> QED BY <2>5, <2>6, <2>11, <2>12, <2>13, <2>14
  <1> QED BY <1>1, <1>2

\* base64 gives back what it was given, at either end.
LEMMA EncodedRead ==
  ASSUME NEW end \in {"client", "server"}, NEW data \in Seq(Byte)
  PROVE  /\ b64encode(data) \in Seq(Symbols)
         /\ Finished(end, Reads(end, b64encode(data)), data)
  <1>1. PICK w \in Nat : w = Whole(data) /\ w \in 0 .. Whole(data)
    <2>1. Whole(data) \in Nat
      BY WholeFacts
    <2> QED BY <2>1
  <1>2. PICK s \in Seq(Symbols) : s = Encoded(data, w)
    <2>1. Encoded(data, w) \in Seq(Alphabet)
      BY <1>1, PrefixRead
    <2> QED BY <2>1 DEF Symbols
  <1>3. PICK d : d = ReadOn(end, Nothing, s)
    OBVIOUS
  <1>4. Ready(d) /\ d.bits = 0 /\ d.out = Take(data, 0, 3 * w)
    <2>1. RowsRead(end, data, w)
      BY <1>1, PrefixRead
    <2> QED BY <1>2, <1>3, <2>1 DEF RowsRead
  <1>5. PICK row \in Seq(Byte) : row = Rest(data) /\ Len(row) \in 0 .. 2
    BY WholeFacts
  <1>6. PICK t \in Seq(Symbols) : /\ t = EncodeRest(row)
                                  /\ Finished(end, ReadOn(end, d, t), d.out \o row)
    BY <1>4, <1>5, RestRead
  <1>7. b64encode(data) = s \o t
    BY <1>1, <1>2, <1>5, <1>6, EncodeIs
  <1>8. s \o t \in Seq(Symbols)
    BY ConcatProperties
  <1>9. Reads(end, s \o t) = ReadOn(end, d, t)
    <2>1. Reads(end, s \o t) = ReadOn(end, Nothing, s \o t)
      BY <1>8, ReadsIs DEF ReadOn
    <2>2. ReadOn(end, Nothing, s \o t) = ReadOn(end, d, t)
      BY <1>3, NothingType, ReadOnConcat
    <2> QED BY <2>1, <2>2
  <1>10. d.out \o row = data
    <2>1. PICK k \in Nat, r \in Nat : /\ k = 3 * w /\ r = Len(data) % 3
                                      /\ k + r = Len(data)
      <3>1. Len(data) % 3 \in Nat /\ 3 * w \in Nat /\ 3 * w + (Len(data) % 3) = Len(data)
        <4>1. 3 * Whole(data) + (Len(data) % 3) = Len(data) /\ Len(data) % 3 \in 0 .. 2
          BY WholeFacts
        <4> QED BY <1>1, <4>1
      <3> QED BY <3>1
    <2>2. k + r <= Len(data)
      BY <2>1
    <2>3. Take(data, 0, k) \o Take(data, k, r) = Take(data, 0, k + r)
      BY <2>2, TakeJoin
    <2>4. Rest(data) = Take(data, k, r)
      BY <1>1, <2>1 DEF Rest
    <2>5. Take(data, 0, Len(data)) = data
      BY TakeAll
    <2> QED BY <1>4, <1>5, <2>1, <2>3, <2>4, <2>5
  <1> QED BY <1>6, <1>7, <1>8, <1>9, <1>10
-----------------------------------------------------------------------------
(***************************************************************************)
(* What was serialized is parsed.                                          *)
(***************************************************************************)
Starts(s, u) == \E t \in Seq(Byte) : u = s \o t

\* A piece of u that follows s.
LEMMA PieceOf ==
  ASSUME NEW s \in Seq(Byte), NEW p \in Seq(Byte), NEW u, Starts(s \o p, u)
  PROVE  Starts(s, u) /\ Take(u, Len(s), Len(p)) = p /\ Len(s \o p) = Len(s) + Len(p)
  <1>1. PICK t \in Seq(Byte) : u = (s \o p) \o t
    BY DEF Starts
  <1>2. p \o t \in Seq(Byte) /\ s \o p \in Seq(Byte)
    BY ConcatProperties
  <1>3. u = s \o (p \o t)
    BY <1>1, ConcatAssociative
  <1>4. Starts(s, u)
    BY <1>2, <1>3 DEF Starts
  <1>50. PICK v \in Seq(Byte) : v = s \o p
    BY <1>2
  <1>51. PICK l \in Nat, m \in Nat : l = Len(s) /\ m = Len(p)
    OBVIOUS
  <1>5. v = s \o p /\ l = Len(s) /\ m = Len(p)
    BY <1>50, <1>51
  <1>6. Len(v) = l + m
    BY <1>5, ConcatProperties
  <1>7. Take(v \o t, l, m) = Take(v, l, m)
    BY <1>6, TakeLeft
  <1>8. Take(s \o p, Len(s), Len(p)) = p
    BY TakeRight
  <1> QED BY <1>1, <1>4, <1>5, <1>6, <1>7, <1>8

LEMMA TakeTwo ==
  ASSUME NEW s \in Seq(Byte), Len(s) >= 4
  PROVE  Take(s, 2, 2) = <<s[3], s[4]>>
  <1>1. PICK a \in Nat, n \in Nat : a = 2 /\ n = 2
    OBVIOUS
  <1>2. a + n <= Len(s)
    BY <1>1
  <1>3. Take(s, a, n) = [i \in 1 .. n |-> s[a + i]]
    BY <1>2, TakeIs
  <1>4. [i \in 1 .. 2 |-> s[2 + i]] = <<s[3], s[4]>>
    OBVIOUS
  <1> QED BY <1>1, <1>3, <1>4

LEMMA RowOf ==
  ASSUME NEW n \in Nat, NEW x \in [1 .. n -> Byte]
  PROVE  \E p \in Seq(Byte) : p = x /\ Len(p) = n
  <1>1. x \in Seq(Byte) /\ Len(x) = n
    OBVIOUS
  <1> QED BY <1>1

LEMMA HeaderFacts ==
  /\ HEADER_SIZE - SZ.paylen = AtLength
  /\ \A n \in Nat : HEADER_SIZE + n + SZ.tag + SZ.mac >= 4
                     /\ HEADER_SIZE + n + SZ.tag + SZ.mac >= HEADER_SIZE + SZ.tag + SZ.mac
  <1>1. PICK a \in Nat : a = AtLength /\ a >= 4
    BY Offsets
  <1>2. PICK b \in Nat : b = SZ.paylen
    BY Offsets
  <1>3. PICK c \in Nat : c = SZ.tag
    BY Offsets
  <1>4. PICK d \in Nat : d = SZ.mac
    BY Offsets
  <1>5. HEADER_SIZE = a + b
    BY <1>1, <1>2, Offsets
  <1>6. \A n \in Nat : a + b + n + c + d >= 4 /\ a + b + n + c + d >= a + b + c + d
    BY <1>1
  <1> QED BY <1>1, <1>2, <1>3, <1>4, <1>5, <1>6

LEMMA ParseSerialized ==
  ASSUME NEW f \in Frame, Len(f.encrypted_payload) <= MaxPayload
  PROVE  Serialize(f) \in Seq(Byte) /\ Parse(Serialize(f)) = {f}
  <1>1. /\ f.message_type \in Byte /\ f.session_id \in [1 .. SZ.session_id -> Byte]
        /\ f.counter \in 0 .. Power[4 * SZ.counter] - 1
        /\ f.nonce \in [1 .. SZ.nonce -> Byte] /\ f.encrypted_payload \in Seq(Byte)
        /\ f.auth_tag \in [1 .. SZ.tag -> Byte] /\ f.transcript_mac \in [1 .. SZ.mac -> Byte]
    BY DEF Frame
  <1>2. PICK N \in Nat : N = Len(f.encrypted_payload)
    BY <1>1
  <1>3. f.counter \in Nat /\ f.counter < Power[4 * SZ.counter]
    <2>1. 4 * SZ.counter \in Nat
      BY Offsets
    <2>2. PICK w \in Nat \ {0} : w = Power[4 * SZ.counter]
      BY <2>1, PowerNat
    <2> QED BY <1>1, <2>2
  <1>4. N < Power[4 * SZ.paylen]
    <2>1. 4 * SZ.paylen \in Nat
      BY Offsets
    <2>2. PICK w \in Nat \ {0} : w = Power[4 * SZ.paylen]
      BY <2>1, PowerNat
    <2>3. MaxPayload \in 0 .. w - 1
      BY <2>2, CodecAssumption
    <2> QED BY <1>2, <2>2, <2>3
  <1>5. PICK p1 \in Seq(Byte) : p1 = MAGIC /\ Len(p1) = 2
    BY <1>1, FixedBytes, Offsets
  <1>6. PICK p2 \in Seq(Byte) : p2 = <<PROTO_VERSION, f.message_type>> /\ Len(p2) = 2
    BY <1>1, FixedBytes
  <1>7. PICK p3 \in Seq(Byte) : p3 = f.session_id /\ Len(p3) = SZ.session_id
    BY <1>1, Offsets, RowOf
  <1>8. PICK p4 \in Seq(Byte) : p4 = BigEndian(f.counter, SZ.counter) /\ Len(p4) = SZ.counter
    <2>1. PICK n \in Nat : n = SZ.counter
      BY Offsets
    <2>2. BigEndian(f.counter, n) \in [1 .. n -> Byte]
      BY <1>3, BigEndianType
    <2> QED BY <2>1, <2>2, RowOf
  <1>9. PICK p5 \in Seq(Byte) : p5 = f.nonce /\ Len(p5) = SZ.nonce
    BY <1>1, Offsets, RowOf
  <1>10. PICK p6 \in Seq(Byte) : p6 = BigEndian(N, SZ.paylen) /\ Len(p6) = SZ.paylen
    <2>1. PICK n \in Nat : n = SZ.paylen
      BY Offsets
    <2>2. BigEndian(N, n) \in [1 .. n -> Byte]
      BY BigEndianType
    <2> QED BY <2>1, <2>2, RowOf
  <1>11. PICK p7 \in Seq(Byte) : p7 = f.encrypted_payload /\ Len(p7) = N
    BY <1>1, <1>2
  <1>12. PICK p8 \in Seq(Byte) : p8 = f.auth_tag /\ Len(p8) = SZ.tag
    BY <1>1, Offsets, RowOf
  <1>13. PICK p9 \in Seq(Byte) : p9 = f.transcript_mac /\ Len(p9) = SZ.mac
    BY <1>1, Offsets, RowOf
  <1>14. PICK s2 \in Seq(Byte) : s2 = p1 \o p2
    BY ConcatProperties
  <1>15. PICK s3 \in Seq(Byte) : s3 = s2 \o p3
    BY ConcatProperties
  <1>16. PICK s4 \in Seq(Byte) : s4 = s3 \o p4
    BY ConcatProperties
  <1>17. PICK s5 \in Seq(Byte) : s5 = s4 \o p5
    BY ConcatProperties
  <1>18. PICK s6 \in Seq(Byte) : s6 = s5 \o p6
    BY ConcatProperties
  <1>19. PICK s7 \in Seq(Byte) : s7 = s6 \o p7
    BY ConcatProperties
  <1>20. PICK s8 \in Seq(Byte) : s8 = s7 \o p8
    BY ConcatProperties
  <1>21. PICK u \in Seq(Byte) : u = s8 \o p9
    BY ConcatProperties
  <1>22. Serialize(f) = u
    <2>1. s6 = Header(f)
      BY <1>2, <1>5, <1>6, <1>7, <1>8, <1>9, <1>10, <1>14, <1>15, <1>16, <1>17, <1>18,
         Zenon DEF Header
    <2> QED BY <2>1, <1>11, <1>12, <1>13, <1>19, <1>20, <1>21, Zenon DEF Serialize, PreMac
  <1>23. Starts(u, u)
    <2>1. u \o <<>> = u /\ <<>> \in Seq(Byte)
      BY ConcatEmptySeq, EmptySeq
    <2> QED BY <2>1 DEF Starts
  <1>24. Starts(s8, u) /\ Take(u, Len(s8), Len(p9)) = p9 /\ Len(u) = Len(s8) + Len(p9)
    BY <1>21, <1>23, PieceOf
  <1>25. Starts(s7, u) /\ Take(u, Len(s7), Len(p8)) = p8 /\ Len(s8) = Len(s7) + Len(p8)
    BY <1>20, <1>24, PieceOf
  <1>26. Starts(s6, u) /\ Take(u, Len(s6), Len(p7)) = p7 /\ Len(s7) = Len(s6) + Len(p7)
    BY <1>19, <1>25, PieceOf
  <1>27. Starts(s5, u) /\ Take(u, Len(s5), Len(p6)) = p6 /\ Len(s6) = Len(s5) + Len(p6)
    BY <1>18, <1>26, PieceOf
  <1>28. Starts(s4, u) /\ Take(u, Len(s4), Len(p5)) = p5 /\ Len(s5) = Len(s4) + Len(p5)
    BY <1>17, <1>27, PieceOf
  <1>29. Starts(s3, u) /\ Take(u, Len(s3), Len(p4)) = p4 /\ Len(s4) = Len(s3) + Len(p4)
    BY <1>16, <1>28, PieceOf
  <1>30. Starts(s2, u) /\ Take(u, Len(s2), Len(p3)) = p3 /\ Len(s3) = Len(s2) + Len(p3)
    BY <1>15, <1>29, PieceOf
  <1>31. Starts(p1, u) /\ Take(u, Len(p1), Len(p2)) = p2 /\ Len(s2) = Len(p1) + Len(p2)
    BY <1>14, <1>30, PieceOf
  <1>32. Len(s2) = 4 /\ Len(s3) = AtCounter /\ Len(s4) = AtNonce /\ Len(s5) = AtLength
    BY <1>5, <1>6, <1>7, <1>8, <1>9, <1>28, <1>29, <1>30, <1>31
       DEF AtCounter, AtNonce, AtLength
  <1>33. Len(s6) = HEADER_SIZE /\ Len(s7) = HEADER_SIZE + N
    BY <1>10, <1>11, <1>26, <1>27, <1>32, Offsets
  <1>34. Len(s8) = HEADER_SIZE + N + SZ.tag /\ Len(u) = HEADER_SIZE + N + SZ.tag + SZ.mac
    BY <1>12, <1>13, <1>24, <1>25, <1>33
  <1>35. Take(u, 0, Len(MAGIC)) = MAGIC
    <2>1. PICK t \in Seq(Byte) : u = p1 \o t
      BY <1>31 DEF Starts
    <2>2. Take(p1 \o t, 0, Len(p1)) = p1
      BY <1>5, TakeFirst
    <2> QED BY <1>5, <2>1, <2>2
  <1>36. u[3] = PROTO_VERSION /\ u[4] = f.message_type
    <2>1. Len(u) >= 4
      BY <1>34, HeaderFacts
    <2>2. Take(u, 2, 2) = <<u[3], u[4]>>
      BY <2>1, TakeTwo
    <2>3. Take(u, 2, 2) = p2
      BY <1>5, <1>6, <1>31
    <2>4. PICK a, b, c, e : a = u[3] /\ b = u[4] /\ c = PROTO_VERSION /\ e = f.message_type
      OBVIOUS
    <2>5. <<a, b>> = <<c, e>>
      BY <1>6, <2>2, <2>3, <2>4, Zenon
    <2>6. a = c /\ b = e
      BY <2>5
    <2> QED BY <2>4, <2>6
  <1>37. PayloadLength(u) = N
    <2>1. HEADER_SIZE - SZ.paylen = AtLength
      BY HeaderFacts
    <2>2. Take(u, AtLength, SZ.paylen) = BigEndian(N, SZ.paylen)
      BY <1>10, <1>27, <1>32
    <2>3. FromBigEndian(BigEndian(N, SZ.paylen)) = N
      BY <1>4, Offsets, BigEndianRead
    <2> QED BY <2>1, <2>2, <2>3 DEF PayloadLength
  <1>38. FromBigEndian(Take(u, AtCounter, SZ.counter)) = f.counter
    <2>1. Take(u, AtCounter, SZ.counter) = BigEndian(f.counter, SZ.counter)
      BY <1>8, <1>29, <1>32
    <2>2. FromBigEndian(BigEndian(f.counter, SZ.counter)) = f.counter
      BY <1>3, Offsets, BigEndianRead
    <2> QED BY <2>1, <2>2
  <1>39. WellFormed(u)
    <2>1. Len(u) >= HEADER_SIZE + SZ.tag + SZ.mac
      BY <1>34, HeaderFacts
    <2>2. Len(MAGIC) + 1 = 3
      BY Offsets
    <2>3. PayloadLength(u) <= MaxPayload
      BY <1>2, <1>37
    <2> QED BY <1>34, <1>35, <1>36, <1>37, <2>1, <2>2, <2>3 DEF WellFormed
  <1>40. Parse(u) =
           {[message_type      |-> f.message_type,
             session_id        |-> f.session_id,
             counter           |-> f.counter,
             nonce             |-> f.nonce,
             encrypted_payload |-> f.encrypted_payload,
             auth_tag          |-> f.auth_tag,
             transcript_mac    |-> f.transcript_mac]}
    <2>1. Len(MAGIC) + 2 = 4
      BY Offsets
    <2>2. Take(u, 4, SZ.session_id) = f.session_id
      BY <1>7, <1>30, <1>32
    <2>3. Take(u, AtNonce, SZ.nonce) = f.nonce
      BY <1>9, <1>28, <1>32
    <2>4. Take(u, HEADER_SIZE, N) = f.encrypted_payload
      BY <1>11, <1>26, <1>33
    <2>5. Take(u, HEADER_SIZE + N, SZ.tag) = f.auth_tag
      BY <1>12, <1>25, <1>33
    <2>6. Take(u, HEADER_SIZE + N + SZ.tag, SZ.mac) = f.transcript_mac
      BY <1>13, <1>24, <1>34
    <2>7. (4 + SZ.session_id) + SZ.counter = AtNonce /\ 4 + SZ.session_id = AtCounter
      BY DEF AtNonce, AtCounter
    <2> QED BY <1>36, <1>37, <1>38, <1>39, <2>1, <2>2, <2>3, <2>4, <2>5, <2>6, <2>7,
               Zenon DEF Parse
  <1>41. f = [message_type      |-> f.message_type,
              session_id        |-> f.session_id,
              counter           |-> f.counter,
              nonce             |-> f.nonce,
              encrypted_payload |-> f.encrypted_payload,
              auth_tag          |-> f.auth_tag,
              transcript_mac    |-> f.transcript_mac]
    BY DEF Frame
  <1> QED BY <1>22, <1>40, <1>41
-----------------------------------------------------------------------------
(***************************************************************************)
(* White space.                                                            *)
(***************************************************************************)
KeepStep == [z \in Seq(Symbols) \X Symbols |-> IF z[2] = Blank THEN z[1] ELSE Append(z[1], z[2])]

LEMMA KeepStepOn == StepOn(KeepStep, Seq(Symbols), Symbols)
  <1>1. ASSUME NEW z \in Seq(Symbols) \X Symbols
        PROVE  (IF z[2] = Blank THEN z[1] ELSE Append(z[1], z[2])) \in Seq(Symbols)
    <2>1. z[1] \in Seq(Symbols) /\ z[2] \in Symbols
      OBVIOUS
    <2>2. Append(z[1], z[2]) \in Seq(Symbols)
      BY <2>1, AppendProperties
    <2> QED BY <2>1, <2>2
  <1> QED BY <1>1 DEF StepOn, KeepStep

LEMMA KeepStepIs ==
  ASSUME NEW s \in Seq(Symbols), NEW c \in Symbols
  PROVE  KeepStep[<<s, c>>] = IF c = Blank THEN s ELSE Append(s, c)
  BY DEF KeepStep

KeepLoop(f, text) ==
  f = [i \in 0 .. Len(text) |->
         IF i = 0 THEN <<>>
         ELSE IF text[i] = Blank THEN f[i - 1] ELSE Append(f[i - 1], text[i])]

LEMMA NoneIs == <<>> \in Seq(Symbols)
  BY EmptySeq

LEMMA DenseIs ==
  ASSUME NEW text \in Seq(Symbols)
  PROVE  Dense(text) = Folded(<<>>, KeepStep, text)
  <1>1. PICK n \in Nat : n = Len(text)
    OBVIOUS
  <1>01. PICK none \in Seq(Symbols) : none = <<>>
    BY NoneIs
  <1> DEFINE next(s, c) == IF c = Blank THEN s ELSE Append(s, c)
  <1>2. PICK f : LoopOver(f, none, KeepStep, text)
    BY KeepStepOn, LoopOverExists
  <1>3. /\ f[0] = none
        /\ \A i \in 1 .. n : f[i] = KeepStep[<<f[i - 1], text[i]>>] /\ f[i - 1] \in Seq(Symbols)
    BY <1>1, <1>2, KeepStepOn, LoopOverAt
  <1>4. ASSUME NEW i \in 1 .. n PROVE f[i] = next(f[i - 1], text[i])
    <2>1. text[i] \in Symbols
      BY <1>1
    <2>2. f[i - 1] \in Seq(Symbols) /\ f[i] = KeepStep[<<f[i - 1], text[i]>>]
      BY <1>3
    <2> QED BY <2>1, <2>2, KeepStepIs
  <1>5. f = [i \in 0 .. n |-> IF i = 0 THEN none ELSE KeepStep[<<f[i - 1], text[i]>>]]
    BY <1>1, <1>2 DEF LoopOver
  <1> HIDE DEF next
  <1>6. f = [i \in 0 .. n |-> IF i = 0 THEN none ELSE next(f[i - 1], text[i])]
    <2>1. \A i \in 0 .. n : i # 0 => i \in 1 .. n
      OBVIOUS
    <2> QED BY <1>3, <1>4, <1>5, <2>1
  <1>7. KeepLoop(f, text)
    BY <1>1, <1>01, <1>6 DEF KeepLoop, next
  <1>8. PICK g : g = CHOOSE r : KeepLoop(r, text)
    OBVIOUS
  <1>9. KeepLoop(g, text)
    BY <1>7, <1>8
  <1>10. g = [i \in 0 .. n |-> IF i = 0 THEN none ELSE next(g[i - 1], text[i])]
    BY <1>1, <1>01, <1>9 DEF KeepLoop, next
  <1>11. g[0] = none /\ \A i \in 1 .. n : g[i] = next(g[i - 1], text[i])
    BY <1>10
  <1> DEFINE Good == {i \in Nat : i <= n => f[i] = g[i]}
  <1>12. 0 \in Good
    BY <1>3, <1>11
  <1>13. ASSUME NEW i \in Good PROVE i + 1 \in Good
    <2>1. SUFFICES ASSUME i + 1 <= n PROVE f[i + 1] = g[i + 1]
      OBVIOUS
    <2>2. i + 1 \in 1 .. n /\ (i + 1) - 1 = i /\ f[i] = g[i]
      BY <2>1
    <2> QED BY <1>4, <1>11, <2>2
  <1>14. Nat \subseteq Good
    <2> HIDE DEF Good
    <2> QED BY <1>12, <1>13, SetInduction
  <1>15. f[n] = g[n]
    BY <1>14
  <1>16. Dense(text) = g[n]
    BY <1>1, <1>8 DEF Dense, KeepLoop
  <1>17. Folded(none, KeepStep, text) = f[n]
    BY <1>1, <1>2, KeepStepOn, FoldedIs
  <1> QED BY <1>01, <1>15, <1>16, <1>17

LEMMA DenseAppend ==
  ASSUME NEW text \in Seq(Symbols), NEW c \in Symbols
  PROVE  /\ Dense(text) \in Seq(Symbols)
         /\ Dense(Append(text, c)) = IF c = Blank THEN Dense(text) ELSE Append(Dense(text), c)
  <1>1. PICK none \in Seq(Symbols) : none = <<>>
    BY NoneIs
  <1>2. PICK s \in Seq(Symbols) : s = Folded(none, KeepStep, text)
    BY KeepStepOn, FoldedType
  <1>3. Folded(none, KeepStep, Append(text, c)) = KeepStep[<<Folded(none, KeepStep, text), c>>]
    BY KeepStepOn, FoldedAppend
  <1>4. PICK t \in Seq(Symbols) : t = Append(text, c)
    BY AppendProperties
  <1>5. Dense(text) = s /\ Dense(t) = Folded(none, KeepStep, t)
    BY <1>1, <1>2, DenseIs
  <1> QED BY <1>2, <1>3, <1>4, <1>5, KeepStepIs

LEMMA DenseNone == Dense(<<>>) = <<>>
  <1>1. PICK none \in Seq(Symbols) : none = <<>>
    BY NoneIs
  <1>2. Folded(none, KeepStep, <<>>) = none
    BY KeepStepOn, FoldedNone
  <1>3. Dense(none) = Folded(<<>>, KeepStep, none)
    BY DenseIs
  <1> QED BY <1>1, <1>2, <1>3

\* Blanks add nothing.
LEMMA BlanksKeep ==
  ASSUME NEW s \in Seq(Symbols), NEW u \in Seq(Symbols), \A i \in 1 .. Len(u) : u[i] = Blank
  PROVE  Folded(s, KeepStep, u) = s
  <1> DEFINE AllBlank(t) == \A i \in 1 .. Len(t) : t[i] = Blank
             Good == {t \in Seq(Symbols) : AllBlank(t) => Folded(s, KeepStep, t) = s}
  <1>1. <<>> \in Good
    <2>1. Folded(s, KeepStep, <<>>) = s
      BY KeepStepOn, FoldedNone
    <2> QED BY <2>1, NoneIs
  <1>2. ASSUME NEW t \in Seq(Symbols), NEW c \in Symbols, t \in Good PROVE Append(t, c) \in Good
    <2>1. PICK v \in Seq(Symbols) : v = Append(t, c)
      BY AppendProperties
    <2>2. PICK n \in Nat : n = Len(t)
      OBVIOUS
    <2>3. Len(v) = n + 1 /\ v[n + 1] = c /\ \A i \in 1 .. n : v[i] = t[i]
      BY <2>1, <2>2, AppendProperties
    <2>4. ASSUME AllBlank(v) PROVE Folded(s, KeepStep, v) = s
      <3>1. c = Blank
        <4>1. n + 1 \in 1 .. Len(v)
          BY <2>3
        <4> QED BY <2>3, <2>4, <4>1
      <3>2. AllBlank(t)
        <4>1. \A i \in 1 .. n : i \in 1 .. Len(v)
          BY <2>3
        <4> QED BY <2>2, <2>3, <2>4, <4>1
      <3>3. Folded(s, KeepStep, t) = s
        BY <1>2, <3>2
      <3>4. Folded(s, KeepStep, Append(t, c)) = KeepStep[<<Folded(s, KeepStep, t), c>>]
        BY KeepStepOn, FoldedAppend
      <3> QED BY <2>1, <3>1, <3>3, <3>4, KeepStepIs
    <2> HIDE DEF AllBlank
    <2> QED BY <2>1, <2>4
  <1>3. Seq(Symbols) \subseteq Good
    <2> HIDE DEF Good
    <2> QED BY <1>1, <1>2, SeqInduction
  <1> QED BY <1>3

\* What is left of a text is what is left of it without the white space around it.
LEMMA StrippedFacts ==
  ASSUME NEW text \in Seq(Symbols)
  PROVE  /\ Stripped(text) \in Seq(Symbols)
         /\ Dense(Stripped(text)) = Dense(text)
         /\ Stripped(text) # <<>> => Stripped(text)[1] # Blank
  <1>1. PICK n \in Nat : n = Len(text)
    OBVIOUS
  <1>01. PICK none \in Seq(Symbols) : none = <<>>
    BY NoneIs
  <1>2. \A t \in Seq(Symbols) : Dense(t) = Folded(none, KeepStep, t)
    BY <1>01, DenseIs
  <1> DEFINE inner == {i \in DOMAIN text : text[i] # Blank}
             first == CHOOSE i \in inner : \A j \in inner : i <= j
             last == CHOOSE i \in inner : \A j \in inner : j <= i
  <1>3. inner = {i \in 1 .. n : text[i] # Blank}
    BY <1>1
  <1>4. CASE inner = {}
    <2>1. Stripped(text) = none
      BY <1>01, <1>4 DEF Stripped
    <2>2. \A i \in 1 .. Len(text) : text[i] = Blank
      BY <1>1, <1>3, <1>4
    <2>3. Folded(none, KeepStep, text) = none
      BY <2>2, BlanksKeep
    <2>4. Dense(none) = none
      BY <1>01, DenseNone
    <2> QED BY <1>01, <1>2, <2>1, <2>3, <2>4
  <1>5. CASE inner # {}
    <2>1. inner \subseteq 1 .. n /\ inner \subseteq Nat
      BY <1>3
    <2>2. first \in inner /\ \A j \in inner : first <= j
      <3>1. \E i \in inner : \A j \in inner : i <= j
        <4> HIDE DEF inner
        <4> QED BY <1>5, <2>1, NatMin
      <3> HIDE DEF inner
      <3> QED BY <3>1
    <2>3. last \in inner /\ \A j \in inner : j <= last
      <3>1. \E i \in inner : \A j \in inner : j <= i
        <4> HIDE DEF inner
        <4> QED BY <1>5, <2>1, NatMax
      <3> HIDE DEF inner
      <3> QED BY <3>1
    <2>4. Stripped(text) = SubSeq(text, first, last)
      BY <1>5 DEF Stripped
    <2> HIDE DEF first, last
    <2>5. PICK a \in 1 .. n, b \in 1 .. n : a = first /\ b = last
      BY <2>1, <2>2, <2>3
    <2>6. /\ a <= b /\ text[a] # Blank
          /\ \A i \in 1 .. n : text[i] # Blank => a <= i /\ i <= b
      BY <1>3, <2>2, <2>3, <2>5
    <2> HIDE DEF inner
    <2>7. PICK pre \in Seq(Symbols) : /\ pre = SubSeq(text, 1, a - 1)
                                      /\ \A i \in 1 .. Len(pre) : pre[i] = Blank
      <3>1. \A i \in 1 .. a - 1 : text[i] \in Symbols
        BY <1>1
      <3>2. PICK c \in Nat : c = a - 1 /\ c - 1 + 1 = c
        <4>1. a - 1 \in Nat
          OBVIOUS
        <4> QED BY <4>1
      <3>3. /\ SubSeq(text, 1, c) \in Seq(Symbols)
            /\ Len(SubSeq(text, 1, c)) = IF 1 <= c THEN c - 1 + 1 ELSE 0
            /\ \A i \in 1 .. c - 1 + 1 : SubSeq(text, 1, c)[i] = text[1 + i - 1]
        BY <3>1, <3>2, SubSeqProperties
      <3>4. Len(SubSeq(text, 1, c)) = c
        BY <3>2, <3>3
      <3>5. \A i \in 1 .. c : i \in 1 .. n /\ ~ (a <= i) /\ 1 + i - 1 = i
        BY <3>2
      <3>6. \A i \in 1 .. c : SubSeq(text, 1, c)[i] = Blank
        BY <2>6, <3>2, <3>3, <3>5
      <3> QED BY <3>2, <3>3, <3>4, <3>6
    <2>8. PICK mid \in Seq(Symbols) : mid = SubSeq(text, a, b) /\ mid[1] = text[a]
      <3>1. \A i \in a .. b : text[i] \in Symbols
        BY <1>1
      <3>2. /\ SubSeq(text, a, b) \in Seq(Symbols)
            /\ \A i \in 1 .. b - a + 1 : SubSeq(text, a, b)[i] = text[a + i - 1]
        BY <3>1, SubSeqProperties
      <3>3. 1 \in 1 .. b - a + 1 /\ a + 1 - 1 = a
        BY <2>6
      <3> QED BY <3>2, <3>3
    <2>9. PICK post \in Seq(Symbols) : /\ post = SubSeq(text, b + 1, n)
                                       /\ \A i \in 1 .. Len(post) : post[i] = Blank
      <3>1. \A i \in b + 1 .. n : text[i] \in Symbols
        BY <1>1
      <3>2. PICK c \in Nat : c = b + 1
        OBVIOUS
      <3>3. /\ SubSeq(text, c, n) \in Seq(Symbols)
            /\ Len(SubSeq(text, c, n)) = IF c <= n THEN n - c + 1 ELSE 0
            /\ \A i \in 1 .. n - c + 1 : SubSeq(text, c, n)[i] = text[c + i - 1]
        BY <3>1, <3>2, SubSeqProperties
      <3>4. ASSUME NEW i \in 1 .. Len(SubSeq(text, c, n)) PROVE SubSeq(text, c, n)[i] = Blank
        <4>1. i \in 1 .. n - c + 1
          BY <3>2, <3>3
        <4>2. c + i - 1 \in 1 .. n /\ ~ (c + i - 1 <= b)
          BY <3>2, <4>1
        <4> QED BY <2>6, <3>3, <4>1, <4>2
      <3> QED BY <3>2, <3>3, <3>4
    <2>10. text = (pre \o mid) \o post
      <3>1. pre \o mid = SubSeq(text, 1, b)
        <4>1. 1 \in 1 .. Len(text) + 1 /\ a - 1 \in 1 - 1 .. Len(text) /\ b \in a - 1 .. Len(text)
          BY <1>1, <2>6
        <4>2. SubSeq(text, 1, a - 1) \o SubSeq(text, (a - 1) + 1, b) = SubSeq(text, 1, b)
          BY <4>1, ConcatAdjacentSubSeq
        <4>3. (a - 1) + 1 = a
          OBVIOUS
        <4> QED BY <2>7, <2>8, <4>2, <4>3
      <3>2. SubSeq(text, 1, b) \o SubSeq(text, b + 1, n) = SubSeq(text, 1, n)
        <4>1. 1 \in 1 .. Len(text) + 1 /\ b \in 1 - 1 .. Len(text) /\ n \in b .. Len(text)
          BY <1>1
        <4> QED BY <4>1, ConcatAdjacentSubSeq
      <3>3. SubSeq(text, 1, n) = text
        BY <1>1, SubSeqFull
      <3> QED BY <2>9, <3>1, <3>2, <3>3
    <2>11. Dense(text) = Dense(mid)
      <3>1. PICK s \in Seq(Symbols) : s = Folded(none, KeepStep, mid)
        BY KeepStepOn, FoldedType
      <3>2. PICK v \in Seq(Symbols) : v = pre \o mid
        BY ConcatProperties
      <3>3. Folded(none, KeepStep, pre \o mid) = Folded(Folded(none, KeepStep, pre), KeepStep, mid)
        BY KeepStepOn, FoldedConcat
      <3>4. Folded(none, KeepStep, pre) = none
        BY <2>7, BlanksKeep
      <3>5. Folded(none, KeepStep, v \o post) = Folded(Folded(none, KeepStep, v), KeepStep, post)
        BY KeepStepOn, FoldedConcat
      <3>6. Folded(s, KeepStep, post) = s
        BY <2>9, BlanksKeep
      <3> QED BY <1>2, <2>10, <3>1, <3>2, <3>3, <3>4, <3>5, <3>6
    <2> QED BY <2>4, <2>5, <2>6, <2>8, <2>11
  <1> QED BY <1>4, <1>5

\* The first of what is left, when the text does not begin with a blank.
LEMMA DenseHead ==
  ASSUME NEW text \in Seq(Symbols), text # <<>>, text[1] # Blank
  PROVE  Dense(text) # <<>> /\ Dense(text)[1] = text[1]
  <1> DEFINE Good == {t \in Seq(Symbols) : (t # <<>> /\ t[1] # Blank)
                         => Dense(t) # <<>> /\ Dense(t)[1] = t[1]}
  <1>1. <<>> \in Good
    BY NoneIs
  <1>2. ASSUME NEW t \in Seq(Symbols), NEW c \in Symbols, t \in Good PROVE Append(t, c) \in Good
    <2>1. PICK v \in Seq(Symbols), s \in Seq(Symbols) : v = Append(t, c) /\ s = Dense(t)
      BY AppendProperties, DenseAppend
    <2>2. Dense(v) = IF c = Blank THEN s ELSE Append(s, c)
      BY <2>1, DenseAppend
    <2>3. ASSUME v[1] # Blank PROVE Dense(v) # <<>> /\ Dense(v)[1] = v[1]
      <3>1. CASE t = <<>>
        <4>1. v[1] = c /\ s = <<>>
          BY <2>1, <3>1, DenseNone
        <4>2. Dense(v) = Append(s, c)
          BY <2>2, <2>3, <4>1
        <4>3. Append(s, c) # <<>> /\ Append(s, c)[1] = c
          BY <4>1
        <4> QED BY <4>1, <4>2, <4>3
      <3>2. CASE t # <<>>
        <4>1. Len(t) >= 1
          BY <3>2, EmptySeq
        <4>2. v[1] = t[1]
          BY <2>1, <4>1, AppendProperties
        <4>3. s # <<>> /\ s[1] = t[1]
          BY <1>2, <2>1, <2>3, <3>2, <4>2
        <4>4. Len(s) >= 1
          BY <4>3, EmptySeq
        <4>5. Append(s, c) # <<>> /\ Append(s, c)[1] = s[1]
          BY <4>4, AppendProperties
        <4> QED BY <2>2, <4>2, <4>3, <4>5
      <3> QED BY <3>1, <3>2
    <2> QED BY <2>1, <2>3
  <1>3. Seq(Symbols) \subseteq Good
    <2> HIDE DEF Good
    <2> QED BY <1>1, <1>2, SeqInduction
  <1> QED BY <1>3

LEMMA ReadsAppend ==
  ASSUME NEW end, NEW text \in Seq(Symbols), NEW c \in Symbols
  PROVE  Reads(end, Append(text, c)) = Takes(end, Reads(end, text), c)
  <1>1. PICK t \in Seq(Symbols) : t = Append(text, c)
    BY AppendProperties
  <1>2. Reads(end, t) = ReadOn(end, Nothing, t) /\ Reads(end, text) = ReadOn(end, Nothing, text)
    BY ReadsIs DEF ReadOn
  <1>3. PICK d \in Decoder : d = Nothing
    BY NothingType
  <1>4. ReadOn(end, d, Append(text, c)) = Takes(end, ReadOn(end, d, text), c)
    BY ReadOnAppend
  <1> QED BY <1>1, <1>2, <1>3, <1>4

\* Either end reads a text as it reads what is left of it.
LEMMA ReadsDense ==
  ASSUME NEW end, NEW text \in Seq(Symbols)
  PROVE  Reads(end, text) = Reads(end, Dense(text))
  <1> DEFINE Good == {t \in Seq(Symbols) : Reads(end, t) = Reads(end, Dense(t))}
  <1>1. <<>> \in Good
    BY NoneIs, DenseNone
  <1>2. ASSUME NEW t \in Seq(Symbols), NEW c \in Symbols, t \in Good PROVE Append(t, c) \in Good
    <2>1. PICK v \in Seq(Symbols), s \in Seq(Symbols) : v = Append(t, c) /\ s = Dense(t)
      BY AppendProperties, DenseAppend
    <2>2. Dense(v) = IF c = Blank THEN s ELSE Append(s, c)
      BY <2>1, DenseAppend
    <2>4. Reads(end, v) = Takes(end, Reads(end, t), c)
      BY <2>1, ReadsAppend
    <2>5. Reads(end, t) = Reads(end, s)
      BY <1>2, <2>1
    <2>6. CASE c = Blank
      <3>1. Takes(end, Reads(end, t), c) = Reads(end, t)
        <4>1. c \notin Alphabet
          BY <2>6, SymbolFacts
        <4> QED BY <2>6, <4>1 DEF Takes
      <3> QED BY <2>1, <2>2, <2>4, <2>5, <2>6, <3>1
    <2>7. CASE c # Blank
      <3>1. PICK u \in Seq(Symbols) : u = Append(s, c)
        BY AppendProperties
      <3>2. Reads(end, u) = Takes(end, Reads(end, s), c)
        BY <3>1, ReadsAppend
      <3> QED BY <2>1, <2>2, <2>4, <2>5, <2>7, <3>1, <3>2
    <2> QED BY <2>6, <2>7
  <1>3. Seq(Symbols) \subseteq Good
    <2> HIDE DEF Good
    <2> QED BY <1>1, <1>2, SeqInduction
  <1> QED BY <1>3
-----------------------------------------------------------------------------
(***************************************************************************)
(* The network.                                                            *)
(***************************************************************************)
\* A text without its white space that is the base64 of a row of bytes is read
\* as that row by either end.
LEMMA EncodedBytes ==
  ASSUME NEW data \in Seq(Byte), Len(data) >= 3,
         NEW text \in Seq(Symbols), Dense(text) = b64encode(data)
  PROVE  ClientBytes(text) = {data} /\ ServerBytes(text) = {data}
  <1>1. PICK enc \in Seq(Symbols) : enc = b64encode(data)
    <2>1. b64encode(data) \in Seq(Symbols)
      BY EncodedRead
    <2> QED BY <2>1
  <1>2. enc # <<>> /\ enc[1] \in Alphabet
    <2>1. PICK w \in Nat : w = Whole(data) /\ w >= 1
      <3>1. Whole(data) \in Nat /\ Len(data) % 3 \in 0 .. 2
            /\ 3 * Whole(data) + (Len(data) % 3) = Len(data)
        BY WholeFacts
      <3>2. PICK l \in Nat, r \in 0 .. 2, w \in Nat :
              l = Len(data) /\ r = Len(data) % 3 /\ w = Whole(data)
        BY <3>1
      <3>3. 3 * w + r = l
        BY <3>1, <3>2
      <3>4. w >= 1
        BY <3>2, <3>3
      <3> QED BY <3>2, <3>4
    <2>2. PICK s \in Seq(Alphabet) : s = Encoded(data, w)
      <3>1. w \in 0 .. Whole(data)
        BY <2>1
      <3> QED BY <3>1, PrefixRead
    <2>3. Len(s) >= 1
      <3>1. s = [j \in 1 .. w * 4 |-> s[j]]
        BY <2>2 DEF Encoded, Joined
      <3>2. Len(s) = w * 4
        BY <3>1
      <3> QED BY <2>1, <3>2
    <2>4. PICK t \in Seq(Symbols) : t = EncodeRest(Rest(data))
      <3>1. PICK d : d = ReadOn("client", Nothing, s)
        OBVIOUS
      <3>2. Ready(d) /\ d.bits = 0
        <4>1. w \in 0 .. Whole(data)
          BY <2>1
        <4> QED BY <2>2, <3>1, <4>1, PrefixRead DEF RowsRead
      <3>3. Rest(data) \in Seq(Byte) /\ Len(Rest(data)) \in 0 .. 2
        BY WholeFacts
      <3>4. EncodeRest(Rest(data)) \in Seq(Symbols)
        BY <3>2, <3>3, RestRead
      <3> QED BY <3>4
    <2>5. enc = s \o t /\ s \in Seq(Symbols)
      <3>1. enc = s \o t
        BY <1>1, <2>1, <2>2, <2>4, EncodeIs
      <3>2. Seq(Alphabet) \subseteq Seq(Symbols)
        BY DEF Symbols
      <3> QED BY <3>1, <3>2
    <2>6. PICK l \in Nat, m \in Nat : l = Len(s) /\ m = Len(t)
      OBVIOUS
    <2>7. Len(enc) = l + m /\ \A i \in 1 .. l + m : enc[i] = IF i <= l THEN s[i] ELSE t[i - l]
      BY <2>5, <2>6, ConcatProperties
    <2>8. enc[1] = s[1] /\ Len(enc) >= 1 /\ s[1] \in Alphabet
      BY <2>3, <2>6, <2>7
    <2> QED BY <2>8
  <1>3. PICK s \in Seq(Symbols) : /\ s = Stripped(text) /\ Dense(s) = enc
                                  /\ s # <<>> => s[1] # Blank
    BY <1>1, StrippedFacts
  <1>4. s # <<>>
    BY <1>2, <1>3, DenseNone
  <1>5. s[1] \in Alphabet
    BY <1>2, <1>3, <1>4, DenseHead
  <1>6. Head(s) # Brace
    <2>1. Head(s) = s[1]
      BY <1>4
    <2> QED BY <1>5, <2>1, SymbolFacts
  <1>7. /\ Finished("client", Reads("client", enc), data)
        /\ Finished("server", Reads("server", enc), data)
    BY <1>1, EncodedRead
  <1>8. Reads("client", s) = Reads("client", enc) /\ Reads("server", s) = Reads("server", enc)
    BY <1>3, ReadsDense
  <1>9. b64decode(s) = {data}
    BY <1>7, <1>8 DEF b64decode, Finished
  <1>10. PythonDecode(s) = {data}
    BY <1>7, <1>8 DEF PythonDecode, Finished
  <1>11. ~ (s = <<>> \/ Head(s) = Brace)
    BY <1>4, <1>6
  <1>12. ClientBytes(text) = {data}
    BY <1>3, <1>9, <1>11 DEF ClientBytes
  <1>13. ServerBytes(text) = {data}
    BY <1>3, <1>10 DEF ServerBytes
  <1> QED BY <1>12, <1>13

\* The body is a text, and what was sent a frame that may be.
BodyInv == sent \in Sent /\ body \in Seq(Symbols)

LEMMA SentSerialized ==
  ASSUME NEW f \in Sent
  PROVE  /\ Serialize(f) \in Seq(Byte) /\ Len(Serialize(f)) >= 3
         /\ Parse(Serialize(f)) = {f}
  <1>1. f \in Frame /\ Len(f.encrypted_payload) <= MaxPayload
    BY SentAssumption
  <1>2. Serialize(f) \in Seq(Byte) /\ Parse(Serialize(f)) = {f}
    BY <1>1, ParseSerialized
  <1>3. WellFormed(Serialize(f))
    BY <1>2 DEF Parse
  <1>4. PICK l \in Nat : l = Len(Serialize(f))
    BY <1>2
  <1>5. l >= HEADER_SIZE + SZ.tag + SZ.mac
    BY <1>3, <1>4 DEF WellFormed
  <1>6. l >= 4
    BY <1>5, FieldsWithin
  <1> QED BY <1>2, <1>4, <1>6

LEMMA BodyInit == Init => BodyInv
  <1> SUFFICES ASSUME Init PROVE BodyInv
    OBVIOUS
  <1>1. Serialize(sent) \in Seq(Byte)
    BY SentSerialized DEF Init
  <1>2. b64encode(Serialize(sent)) \in Seq(Symbols)
    BY <1>1, EncodedRead
  <1> QED BY <1>2 DEF Init, BodyInv

LEMMA BodyStep ==
  ASSUME BodyInv, [Next]_vars
  PROVE  BodyInv'
  <1>1. CASE UNCHANGED vars
    BY <1>1 DEF BodyInv, vars
  <1>2. CASE Next
    <2>1. PICK i \in DOMAIN body :
            \/ \E c \in Symbols : Alter(i, c) \/ Insert(i, c)
            \/ Drop(i)
            \/ CutOff(i)
      BY <1>2 DEF Next
    <2>2. PICK n \in Nat : n = Len(body)
      BY DEF BodyInv
    <2>3. i \in 1 .. n /\ \A j \in 1 .. n : body[j] \in Symbols
      BY <2>1, <2>2 DEF BodyInv
    <2>4. SubSeq(body, 1, i - 1) \in Seq(Symbols)
      <3>1. \A j \in 1 .. i - 1 : body[j] \in Symbols
        BY <2>3
      <3> QED BY <2>3, <3>1, SubSeqProperties
    <2>5. SubSeq(body, i + 1, Len(body)) \in Seq(Symbols)
          /\ SubSeq(body, i, Len(body)) \in Seq(Symbols)
      <3>1. \A j \in i .. n : body[j] \in Symbols
        BY <2>3
      <3>2. \A j \in i + 1 .. n : body[j] \in Symbols
        BY <2>3
      <3> QED BY <2>2, <2>3, <3>1, <3>2, SubSeqProperties
    <2>6. ASSUME NEW c \in Symbols, Alter(i, c) PROVE BodyInv'
      <3>1. [body EXCEPT ![i] = c] \in Seq(Symbols)
        BY <2>2, <2>3, ExceptSeq DEF BodyInv
      <3> QED BY <2>6, <3>1 DEF Alter, Damages, BodyInv
    <2>7. ASSUME NEW c \in Symbols, Insert(i, c) PROVE BodyInv'
      <3>1. InsertAt(body, i, c) \in Seq(Symbols)
        <4>1. <<c>> \in Seq(Symbols)
          OBVIOUS
        <4>2. SubSeq(body, 1, i - 1) \o <<c>> \in Seq(Symbols)
          BY <2>4, <4>1, ConcatProperties
        <4>3. (SubSeq(body, 1, i - 1) \o <<c>>) \o SubSeq(body, i, Len(body)) \in Seq(Symbols)
          BY <2>5, <4>2, ConcatProperties
        <4> QED BY <4>3 DEF InsertAt
      <3> QED BY <2>7, <3>1 DEF Insert, Damages, BodyInv
    <2>8. ASSUME Drop(i) PROVE BodyInv'
      <3>1. RemoveAt(body, i) \in Seq(Symbols)
        BY <2>4, <2>5, ConcatProperties DEF RemoveAt
      <3> QED BY <2>8, <3>1 DEF Drop, Damages, BodyInv
    <2>9. ASSUME CutOff(i) PROVE BodyInv'
      BY <2>4, <2>9 DEF CutOff, Damages, BodyInv
    <2> QED BY <2>1, <2>6, <2>7, <2>8, <2>9
  <1> QED BY <1>1, <1>2

\* A frame that either end parses from what the network made of the body stands
\* for exactly the bytes it was parsed from, so that the MAC over it covers them.
THEOREM FramesCovered == Spec => []MacCoversAll
  <1>1. BodyInv => MacCoversAll
    <2>1. ASSUME BodyInv PROVE MacCoversAll
      <3>1. body \in Seq(Symbols)
        BY <2>1 DEF BodyInv
      <3>2. ASSUME NEW bytes \in ClientBytes(body) \cup ServerBytes(body),
                   NEW f \in Parse(bytes)
            PROVE  Serialize(f) = bytes
        <4>1. bytes \in Seq(Byte)
          BY <3>1, DecodedType
        <4> QED BY <4>1, SerializeParsed
      <3> QED BY <3>2 DEF MacCoversAll
    <2> QED BY <2>1
  <1> QED BY <1>1, BodyInit, BodyStep, PTL DEF Spec

\* A body to which at most white space was added is read by either end as the
\* frame that was sent.
THEOREM FramesDelivered == Spec => []Delivered
  <1>1. BodyInv => Delivered
    <2>1. ASSUME BodyInv, Dense(body) = b64encode(Serialize(sent))
          PROVE  ClientReads(body) = {sent} /\ ServerReads(body) = {sent}
      <3>1. PICK data \in Seq(Byte) : /\ data = Serialize(sent) /\ Len(data) >= 3
                                      /\ Parse(data) = {sent}
        BY <2>1, SentSerialized DEF BodyInv
      <3>2. body \in Seq(Symbols) /\ Dense(body) = b64encode(data)
        BY <2>1, <3>1 DEF BodyInv
      <3>3. ClientBytes(body) = {data} /\ ServerBytes(body) = {data}
        BY <3>1, <3>2, EncodedBytes
      <3> QED BY <3>1, <3>3 DEF ClientReads, ServerReads
    <2> QED BY <2>1 DEF Delivered
  <1> QED BY <1>1, BodyInit, BodyStep, PTL DEF Spec
=============================================================================
