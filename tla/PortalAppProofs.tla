-------------------------- MODULE PortalAppProofs --------------------------
(***************************************************************************)
(* The texts, the name and the license of PortalApp, what guards and       *)
(* decoys compute of them, and the verdict, for every width of a word,     *)
(* every name, every edit and every command line.                          *)
(***************************************************************************)
EXTENDS PortalApp, DataTheorems, FiniteSetTheorems
-----------------------------------------------------------------------------
(***************************************************************************)
(* Bits.                                                                   *)
(***************************************************************************)
LEMMA HalfOf ==
  ASSUME NEW a \in Nat
  PROVE  /\ a \div 2 \in Nat /\ a % 2 \in {0, 1} /\ a = 2 * (a \div 2) + (a % 2)
         /\ a # 0 => a \div 2 < a
  <1>1. a \div 2 \in Nat /\ a % 2 \in 0 .. 1 /\ a = (a \div 2) * 2 + (a % 2)
    BY DivMod
  <1>2. a % 2 \in {0, 1} /\ a = 2 * (a \div 2) + (a % 2)
    BY <1>1
  <1>3. a # 0 => a \div 2 < a
    BY <1>1
  <1> QED BY <1>1, <1>2, <1>3

\* A function of two numbers can be defined by what it is for the halves of them.
LEMMA HalvingExists ==
  ASSUME NEW first \in [Nat -> Nat], NEW rest \in [Nat \X Nat -> Nat]
  PROVE  \E f \in [Nat \X Nat -> Nat] :
           \A a, b \in Nat :
             f[<<a, b>>] = IF a = 0 THEN first[b]
                           ELSE rest[<<a, b>>] + 2 * f[<<a \div 2, b \div 2>>]
  <1> DEFINE All == [Nat \X Nat -> Nat]
             Next1(F) == [p \in Nat \X Nat |->
                            IF p[1] = 0 THEN first[p[2]]
                            ELSE rest[p] + 2 * F[<<p[1] \div 2, p[2] \div 2>>]]
             step == [z \in All \X Nat |-> Next1(z[1])]
             zero == [p \in Nat \X Nat |-> 0]
  <1>1. ASSUME NEW F \in All PROVE Next1(F) \in All
    <2>1. ASSUME NEW p \in Nat \X Nat PROVE first[p[2]] \in Nat /\ rest[p] + 2 * F[<<p[1] \div 2, p[2] \div 2>>] \in Nat
      <3>1. p[1] \div 2 \in Nat /\ p[2] \div 2 \in Nat
        BY HalfOf
      <3>2. <<p[1] \div 2, p[2] \div 2>> \in Nat \X Nat
        BY <3>1
      <3>3. F[<<p[1] \div 2, p[2] \div 2>>] \in Nat /\ rest[p] \in Nat /\ first[p[2]] \in Nat
        BY <3>2
      <3> QED BY <3>3
    <2> QED BY <2>1
  <1>2. step \in [All \X Nat -> All] /\ zero \in All
    BY <1>1
  <1>3. \A F \in All, n \in Nat : step[<<F, n>>] = Next1(F)
    OBVIOUS
  <1> HIDE DEF step, zero, All
  <1>4. PICK F : Follows(F, All, zero, step)
    BY <1>2, Recursion
  <1>5. \A n \in Nat : F[n] \in All /\ F[n + 1] = Next1(F[n])
    BY <1>3, <1>4 DEF Follows
  <1> USE DEF All
  <1> DEFINE Unfolds(n, m, a, b) ==
               F[m][<<a, b>>] = IF a = 0 THEN first[b]
                                ELSE rest[<<a, b>>] + 2 * F[n][<<a \div 2, b \div 2>>]
  <1>6. ASSUME NEW n \in Nat, NEW m \in Nat, m = n + 1, NEW a \in Nat, NEW b \in Nat
        PROVE  Unfolds(n, m, a, b)
    <2>1. F[n + 1] = [p \in Nat \X Nat |->
                        IF p[1] = 0 THEN first[p[2]]
                        ELSE rest[p] + 2 * F[n][<<p[1] \div 2, p[2] \div 2>>]]
      BY <1>5
    <2>2. F[n + 1][<<a, b>>] = IF a = 0 THEN first[b]
                               ELSE rest[<<a, b>>] + 2 * F[n][<<a \div 2, b \div 2>>]
      BY <2>1
    <2> QED BY <1>6, <2>2
  <1> HIDE DEF Next1, Unfolds
  <1> DEFINE Good == {k \in Nat : \A a, b \in Nat, n \in Nat :
                        a <= k /\ n > k => F[n][<<a, b>>] = F[k + 1][<<a, b>>]}
  <1>7. 0 \in Good
    <2>1. ASSUME NEW b \in Nat, NEW n \in Nat, n > 0 PROVE F[n][<<0, b>>] = F[0 + 1][<<0, b>>]
      <3>1. PICK l \in Nat : n = l + 1
        <4>1. n - 1 \in Nat /\ n = (n - 1) + 1
          BY <2>1
        <4> QED BY <4>1
      <3>2. Unfolds(l, l + 1, 0, b) /\ Unfolds(0, 0 + 1, 0, b)
        BY <1>6
      <3>3. F[l + 1][<<0, b>>] = first[b] /\ F[0 + 1][<<0, b>>] = first[b]
        BY <3>2 DEF Unfolds
      <3> QED BY <3>1, <3>3
    <2> QED BY <2>1
  <1>8. ASSUME NEW k \in Nat, k \in Good PROVE k + 1 \in Good
    <2>1. ASSUME NEW a \in Nat, NEW b \in Nat, NEW n \in Nat, a <= k + 1, n > k + 1
          PROVE  F[n][<<a, b>>] = F[(k + 1) + 1][<<a, b>>]
      <3>1. PICK l \in Nat : n = l + 1 /\ l > k
        <4>1. n - 1 \in Nat /\ n = (n - 1) + 1 /\ n - 1 > k
          BY <2>1
        <4> QED BY <4>1
      <3>2. a \div 2 \in Nat /\ b \div 2 \in Nat /\ (a # 0 => a \div 2 < a)
        BY HalfOf
      <3>3. k + 1 \in Nat /\ k + 1 > k
        OBVIOUS
      <3>6. PICK j \in Nat : j = k + 1
        BY <3>3
      <3>7. Unfolds(l, l + 1, a, b) /\ Unfolds(j, j + 1, a, b)
        BY <1>6
      <3>4. CASE a = 0
        <4>1. F[l + 1][<<a, b>>] = first[b] /\ F[j + 1][<<a, b>>] = first[b]
          BY <3>4, <3>7 DEF Unfolds
        <4> QED BY <3>1, <3>6, <4>1
      <3>5. CASE a # 0
        <4>1. a \div 2 <= k
          BY <2>1, <3>2, <3>5
        <4>2. F[l][<<a \div 2, b \div 2>>] = F[k + 1][<<a \div 2, b \div 2>>]
          BY <1>8, <3>1, <3>2, <4>1
        <4>3. F[l + 1][<<a, b>>] = rest[<<a, b>>] + 2 * F[l][<<a \div 2, b \div 2>>]
          BY <3>5, <3>7 DEF Unfolds
        <4>4. F[j + 1][<<a, b>>] = rest[<<a, b>>] + 2 * F[j][<<a \div 2, b \div 2>>]
          BY <3>5, <3>7 DEF Unfolds
        <4> QED BY <3>1, <3>6, <4>2, <4>3, <4>4
      <3> QED BY <3>4, <3>5
    <2> QED BY <2>1
  <1>9. Nat \subseteq Good
    <2> HIDE DEF Good
    <2> QED BY <1>7, <1>8, SetInduction
  <1> DEFINE f == [p \in Nat \X Nat |-> F[p[1] + 1][p]]
  <1>10. ASSUME NEW a \in Nat, NEW b \in Nat PROVE F[a + 1][<<a, b>>] \in Nat
    <2>1. a + 1 \in Nat /\ \A n \in Nat : F[n] \in All
      BY <1>5
    <2> QED BY <2>1
  <1>11. f \in All /\ \A a, b \in Nat : f[<<a, b>>] = F[a + 1][<<a, b>>]
    BY <1>10
  <1> HIDE DEF f
  <1>12. ASSUME NEW a \in Nat, NEW b \in Nat
         PROVE  f[<<a, b>>] = IF a = 0 THEN first[b]
                              ELSE rest[<<a, b>>] + 2 * f[<<a \div 2, b \div 2>>]
    <2>1. a \div 2 \in Nat /\ b \div 2 \in Nat /\ (a # 0 => a \div 2 < a)
      BY HalfOf
    <2>4. f[<<a, b>>] = F[a + 1][<<a, b>>]
      BY <1>11
    <2>5. Unfolds(a, a + 1, a, b)
      BY <1>6
    <2>2. CASE a = 0
      BY <2>2, <2>4, <2>5 DEF Unfolds
    <2>3. CASE a # 0
      <3>1. F[a][<<a \div 2, b \div 2>>] = F[(a \div 2) + 1][<<a \div 2, b \div 2>>]
        <4>1. a \div 2 \in Good
          BY <1>9, <2>1
        <4>2. a > a \div 2 /\ a \div 2 <= a \div 2
          BY <2>1, <2>3
        <4> HIDE DEF Good
        <4>3. \A c, d \in Nat, n \in Nat : c <= a \div 2 /\ n > a \div 2 => F[n][<<c, d>>] = F[(a \div 2) + 1][<<c, d>>]
          BY <4>1 DEF Good
        <4> QED BY <2>1, <4>2, <4>3
      <3>2. F[a + 1][<<a, b>>] = rest[<<a, b>>] + 2 * F[a][<<a \div 2, b \div 2>>]
        BY <2>3, <2>5 DEF Unfolds
      <3>3. f[<<a \div 2, b \div 2>>] = F[(a \div 2) + 1][<<a \div 2, b \div 2>>]
        BY <1>11, <2>1
      <3> QED BY <2>3, <2>4, <3>1, <3>2, <3>3
    <2> QED BY <2>2, <2>3
  <1> QED BY <1>11, <1>12

XorEquation(f) ==
  f = [p \in Nat \X Nat |->
         IF p[1] = 0 THEN p[2]
         ELSE ((p[1] + p[2]) % 2) + 2 * f[<<p[1] \div 2, p[2] \div 2>>]]

AndEquation(f) ==
  f = [p \in Nat \X Nat |->
         IF p[1] = 0 THEN 0
         ELSE (p[1] % 2) * (p[2] % 2) + 2 * f[<<p[1] \div 2, p[2] \div 2>>]]

LEMMA XorExists == XorEquation(XorOf) /\ XorOf \in [Nat \X Nat -> Nat]
  <1> DEFINE first == [b \in Nat |-> b]
             rest == [p \in Nat \X Nat |-> ((p[1] + p[2]) % 2)]
  <1>1. first \in [Nat -> Nat] /\ rest \in [Nat \X Nat -> Nat]
        /\ \A a, b \in Nat : first[b] = b /\ rest[<<a, b>>] = (a + b) % 2
    <2>1. ASSUME NEW p \in Nat \X Nat PROVE ((p[1] + p[2]) % 2) \in Nat
      BY HalfOf
    <2> QED BY <2>1
  <1> HIDE DEF first, rest
  <1>13. first \in [Nat -> Nat] /\ rest \in [Nat \X Nat -> Nat]
    BY <1>1
  <1>2. PICK f \in [Nat \X Nat -> Nat] :
           \A a, b \in Nat :
             f[<<a, b>>] = IF a = 0 THEN first[b]
                           ELSE rest[<<a, b>>] + 2 * f[<<a \div 2, b \div 2>>]
    BY <1>13, HalvingExists
  <1>3. XorEquation(f)
    <2>1. ASSUME NEW p \in Nat \X Nat
          PROVE  f[p] = IF p[1] = 0 THEN p[2]
                        ELSE ((p[1] + p[2]) % 2) + 2 * f[<<p[1] \div 2, p[2] \div 2>>]
      <3>1. PICK a \in Nat, b \in Nat : p = <<a, b>>
        OBVIOUS
      <3>2. p[1] = a /\ p[2] = b
        BY <3>1
      <3>3. f[<<a, b>>] = IF a = 0 THEN first[b]
                          ELSE rest[<<a, b>>] + 2 * f[<<a \div 2, b \div 2>>]
        BY <1>2
      <3>4. first[b] = b /\ rest[<<a, b>>] = (a + b) % 2
        BY <1>1
      <3> QED BY <3>1, <3>2, <3>3, <3>4
    <2>2. f = [p \in Nat \X Nat |-> f[p]]
      OBVIOUS
    <2> QED BY <2>1, <2>2 DEF XorEquation
  <1>4. XorOf = CHOOSE g : XorEquation(g)
    BY DEF XorOf, XorEquation
  <1>5. XorEquation(XorOf)
    <2> HIDE DEF XorEquation
    <2> QED BY <1>3, <1>4
  <1> DEFINE Good == {k \in Nat : \A a, b \in Nat : a <= k => XorOf[<<a, b>>] \in Nat}
  <1>6. 0 \in Good
    BY <1>5 DEF XorEquation
  <1>7. ASSUME NEW k \in Nat, k \in Good PROVE k + 1 \in Good
    <2>1. ASSUME NEW a \in Nat, NEW b \in Nat, a <= k + 1 PROVE XorOf[<<a, b>>] \in Nat
      <3>1. CASE a = 0
        BY <1>5, <3>1 DEF XorEquation
      <3>2. CASE a # 0
        <4>1. a \div 2 \in Nat /\ b \div 2 \in Nat /\ a \div 2 <= k
          BY <2>1, <3>2, HalfOf
        <4>2. XorOf[<<a \div 2, b \div 2>>] \in Nat
          BY <1>7, <4>1
        <4>8. <<a, b>> \in Nat \X Nat
          OBVIOUS
        <4>5. PICK p \in Nat \X Nat : p = <<a, b>> /\ p[1] = a /\ p[2] = b
          BY <4>8
        <4>6. XorOf[p] = ((p[1] + p[2]) % 2) + 2 * XorOf[<<p[1] \div 2, p[2] \div 2>>]
          BY <1>5, <3>2, <4>5 DEF XorEquation
        <4>7. rest[<<a, b>>] = (a + b) % 2
          BY <1>1
        <4>3. XorOf[<<a, b>>] = rest[<<a, b>>] + 2 * XorOf[<<a \div 2, b \div 2>>]
          BY <4>5, <4>6, <4>7
        <4>4. rest[<<a, b>>] \in Nat
          BY <1>1
        <4> QED BY <4>2, <4>3, <4>4
      <3> QED BY <3>1, <3>2
    <2> QED BY <2>1
  <1>8. Nat \subseteq Good
    <2> HIDE DEF Good
    <2> QED BY <1>6, <1>7, SetInduction
  <1>9. ASSUME NEW p \in Nat \X Nat PROVE XorOf[p] \in Nat
    <2>1. p = <<p[1], p[2]>> /\ p[1] \in Nat /\ p[2] \in Nat /\ p[1] \in Good
      BY <1>8
    <2> QED BY <2>1
  <1>10. XorOf = [p \in Nat \X Nat |-> XorOf[p]]
    BY <1>5 DEF XorEquation
  <1> QED BY <1>5, <1>9, <1>10

LEMMA AndExists == AndEquation(AndOf) /\ AndOf \in [Nat \X Nat -> Nat]
  <1> DEFINE first == [b \in Nat |-> 0]
             rest == [p \in Nat \X Nat |-> (p[1] % 2) * (p[2] % 2)]
  <1>1. first \in [Nat -> Nat] /\ rest \in [Nat \X Nat -> Nat]
        /\ \A a, b \in Nat : first[b] = 0 /\ rest[<<a, b>>] = (a % 2) * (b % 2)
    <2>1. ASSUME NEW p \in Nat \X Nat PROVE (p[1] % 2) * (p[2] % 2) \in Nat
      BY HalfOf
    <2> QED BY <2>1
  <1> HIDE DEF first, rest
  <1>13. first \in [Nat -> Nat] /\ rest \in [Nat \X Nat -> Nat]
    BY <1>1
  <1>2. PICK f \in [Nat \X Nat -> Nat] :
           \A a, b \in Nat :
             f[<<a, b>>] = IF a = 0 THEN first[b]
                           ELSE rest[<<a, b>>] + 2 * f[<<a \div 2, b \div 2>>]
    BY <1>13, HalvingExists
  <1>3. AndEquation(f)
    <2>1. ASSUME NEW p \in Nat \X Nat
          PROVE  f[p] = IF p[1] = 0 THEN 0
                        ELSE (p[1] % 2) * (p[2] % 2) + 2 * f[<<p[1] \div 2, p[2] \div 2>>]
      <3>1. PICK a \in Nat, b \in Nat : p = <<a, b>>
        OBVIOUS
      <3>2. p[1] = a /\ p[2] = b
        BY <3>1
      <3>3. f[<<a, b>>] = IF a = 0 THEN first[b]
                          ELSE rest[<<a, b>>] + 2 * f[<<a \div 2, b \div 2>>]
        BY <1>2
      <3>4. first[b] = 0 /\ rest[<<a, b>>] = (a % 2) * (b % 2)
        BY <1>1
      <3> QED BY <3>1, <3>2, <3>3, <3>4
    <2>2. f = [p \in Nat \X Nat |-> f[p]]
      OBVIOUS
    <2> QED BY <2>1, <2>2 DEF AndEquation
  <1>4. AndOf = CHOOSE g : AndEquation(g)
    BY DEF AndOf, AndEquation
  <1>5. AndEquation(AndOf)
    <2> HIDE DEF AndEquation
    <2> QED BY <1>3, <1>4
  <1> DEFINE Good == {k \in Nat : \A a, b \in Nat : a <= k => AndOf[<<a, b>>] \in Nat}
  <1>6. 0 \in Good
    BY <1>5 DEF AndEquation
  <1>7. ASSUME NEW k \in Nat, k \in Good PROVE k + 1 \in Good
    <2>1. ASSUME NEW a \in Nat, NEW b \in Nat, a <= k + 1 PROVE AndOf[<<a, b>>] \in Nat
      <3>1. CASE a = 0
        BY <1>5, <3>1 DEF AndEquation
      <3>2. CASE a # 0
        <4>1. a \div 2 \in Nat /\ b \div 2 \in Nat /\ a \div 2 <= k
          BY <2>1, <3>2, HalfOf
        <4>2. AndOf[<<a \div 2, b \div 2>>] \in Nat
          BY <1>7, <4>1
        <4>8. <<a, b>> \in Nat \X Nat
          OBVIOUS
        <4>5. PICK p \in Nat \X Nat : p = <<a, b>> /\ p[1] = a /\ p[2] = b
          BY <4>8
        <4>6. AndOf[p] = (p[1] % 2) * (p[2] % 2) + 2 * AndOf[<<p[1] \div 2, p[2] \div 2>>]
          BY <1>5, <3>2, <4>5 DEF AndEquation
        <4>7. rest[<<a, b>>] = (a % 2) * (b % 2)
          BY <1>1
        <4>3. AndOf[<<a, b>>] = rest[<<a, b>>] + 2 * AndOf[<<a \div 2, b \div 2>>]
          BY <4>5, <4>6, <4>7
        <4>4. rest[<<a, b>>] \in Nat
          BY <1>1
        <4> QED BY <4>2, <4>3, <4>4
      <3> QED BY <3>1, <3>2
    <2> QED BY <2>1
  <1>8. Nat \subseteq Good
    <2> HIDE DEF Good
    <2> QED BY <1>6, <1>7, SetInduction
  <1>9. ASSUME NEW p \in Nat \X Nat PROVE AndOf[p] \in Nat
    <2>1. p = <<p[1], p[2]>> /\ p[1] \in Nat /\ p[2] \in Nat /\ p[1] \in Good
      BY <1>8
    <2> QED BY <2>1
  <1>10. AndOf = [p \in Nat \X Nat |-> AndOf[p]]
    BY <1>5 DEF AndEquation
  <1> QED BY <1>5, <1>9, <1>10

\* What ^^ and & make of the lowest bits and of the rest.
LEMMA XorNat ==
  ASSUME NEW a \in Nat, NEW b \in Nat
  PROVE  a ^^ b \in Nat /\ 0 ^^ b = b
  BY XorExists DEF XorEquation, ^^

LEMMA XorHalves ==
  ASSUME NEW a \in Nat, NEW b \in Nat
  PROVE  a ^^ b = ((a + b) % 2) + 2 * ((a \div 2) ^^ (b \div 2))
  <1>3. CASE a = 0
    <2>1. PICK q \in Nat : q = b \div 2
      BY HalfOf
    <2>2. PICK r \in Nat : r = (a + b) % 2
      BY HalfOf
    <2>3. b = 2 * q + r
      <3>1. a + b = b
        BY <1>3
      <3> QED BY <2>1, <2>2, <3>1, HalfOf
    <2>4. a \div 2 = 0
      BY <1>3
    <2>5. (a \div 2) ^^ q = q /\ a ^^ b = b
      BY <1>3, <2>4, XorNat
    <2>6. PICK X : X = (a \div 2) ^^ (b \div 2)
      OBVIOUS
    <2>7. X = q
      BY <2>1, <2>5, <2>6
    <2>8. a ^^ b = r + 2 * X
      BY <2>3, <2>5, <2>7
    <2> QED BY <2>2, <2>6, <2>8
  <1>4. CASE a # 0
    BY <1>4, XorExists DEF XorEquation, ^^
  <1> QED BY <1>3, <1>4

LEMMA AndHalves ==
  ASSUME NEW a \in Nat, NEW b \in Nat
  PROVE  /\ a & b \in Nat /\ 0 & b = 0
         /\ a # 0 => a & b = (a % 2) * (b % 2) + 2 * ((a \div 2) & (b \div 2))
  BY AndExists DEF AndEquation, &

\* Induction over pairs of numbers and their halves.
LEMMA HalvingInduction ==
  ASSUME NEW T, \A b \in Nat : <<0, b>> \in T,
         \A a, b \in Nat : a # 0 /\ <<a \div 2, b \div 2>> \in T => <<a, b>> \in T
  PROVE  \A a, b \in Nat : <<a, b>> \in T
  <1> DEFINE Good == {k \in Nat : \A a, b \in Nat : a <= k => <<a, b>> \in T}
  <1>1. 0 \in Good
    OBVIOUS
  <1>2. ASSUME NEW k \in Nat, k \in Good PROVE k + 1 \in Good
    <2>1. ASSUME NEW a \in Nat, NEW b \in Nat, a <= k + 1 PROVE <<a, b>> \in T
      <3>1. a \div 2 \in Nat /\ b \div 2 \in Nat /\ (a # 0 => a \div 2 < a)
        BY HalfOf
      <3>2. a # 0 => a \div 2 <= k
        BY <2>1, <3>1
      <3>3. a # 0 => <<a \div 2, b \div 2>> \in T
        BY <1>2, <3>1, <3>2
      <3> QED BY <3>3
    <2> QED BY <2>1
  <1>3. Nat \subseteq Good
    <2> HIDE DEF Good
    <2> QED BY <1>1, <1>2, SetInduction
  <1>4. ASSUME NEW a \in Nat, NEW b \in Nat PROVE <<a, b>> \in T
    <2>1. a \in Good
      BY <1>3
    <2> QED BY <2>1
  <1> QED BY <1>4

\* The carries are doubled: this is a sum.
LEMMA XorAndSum ==
  ASSUME NEW a \in Nat, NEW b \in Nat
  PROVE  (a ^^ b) + 2 * (a & b) = a + b
  <1> DEFINE T == {p \in Nat \X Nat : (p[1] ^^ p[2]) + 2 * (p[1] & p[2]) = p[1] + p[2]}
  <1>1. \A d \in Nat : <<0, d>> \in T
    BY XorNat, AndHalves
  <1>2. ASSUME NEW c \in Nat, NEW d \in Nat, c # 0, <<c \div 2, d \div 2>> \in T
        PROVE  <<c, d>> \in T
    <2>1. PICK p \in Nat, q \in Nat : p = c \div 2 /\ q = d \div 2
      BY HalfOf
    <2>2. PICK x \in {0, 1}, y \in {0, 1} : x = c % 2 /\ y = d % 2
      BY HalfOf
    <2>3. c = 2 * p + x /\ d = 2 * q + y
      BY <2>1, <2>2, HalfOf
    <2>4. PICK X \in Nat, A \in Nat : X = p ^^ q /\ A = p & q
      BY XorNat, AndHalves
    <2>5. X + 2 * A = p + q
      BY <1>2, <2>1, <2>4
    <2>6. c & d = x * y + 2 * A
      <3>1. c & d = (c % 2) * (d % 2) + 2 * ((c \div 2) & (d \div 2))
        BY <1>2, AndHalves
      <3> QED BY <2>1, <2>2, <2>4, <3>1
    <2>7. c ^^ d = ((c + d) % 2) + 2 * X
      BY <2>1, <2>4, XorHalves
    <2>8. (c + d) % 2 = (x + y) % 2
      BY <2>3
    <2>9. ((x + y) % 2) + 2 * (x * y) = x + y
      OBVIOUS
    <2>10. (c ^^ d) + 2 * (c & d) = c + d
      BY <2>3, <2>5, <2>6, <2>7, <2>8, <2>9
    <2> QED BY <2>10
  <1> HIDE DEF T
  <1>3. <<a, b>> \in T
    BY <1>1, <1>2, HalvingInduction
  <1> QED BY <1>3 DEF T

LEMMA XorZero ==
  ASSUME NEW a \in Nat
  PROVE  a ^^ 0 = a
  <1> DEFINE T == {p \in Nat \X Nat : p[1] ^^ 0 = p[1]}
  <1>1. \A d \in Nat : <<0, d>> \in T
    BY XorNat
  <1>2. ASSUME NEW c \in Nat, NEW d \in Nat, c # 0, <<c \div 2, d \div 2>> \in T
        PROVE  <<c, d>> \in T
    <2>1. (c \div 2) ^^ 0 = c \div 2
      BY <1>2
    <2>2. 0 \div 2 = 0 /\ c + 0 = c
      OBVIOUS
    <2>5. c ^^ 0 = ((c + 0) % 2) + 2 * ((c \div 2) ^^ (0 \div 2))
      BY XorHalves
    <2>3. c ^^ 0 = (c % 2) + 2 * (c \div 2)
      BY <2>1, <2>2, <2>5
    <2>4. c ^^ 0 = c
      BY <2>3, HalfOf
    <2> QED BY <2>4
  <1> HIDE DEF T
  <1>3. <<a, 0>> \in T
    BY <1>1, <1>2, HalvingInduction
  <1> QED BY <1>3 DEF T

LEMMA XorCommutes ==
  ASSUME NEW a \in Nat, NEW b \in Nat
  PROVE  a ^^ b = b ^^ a
  <1> DEFINE T == {p \in Nat \X Nat : p[1] ^^ p[2] = p[2] ^^ p[1]}
  <1>1. \A d \in Nat : <<0, d>> \in T
    BY XorNat, XorZero
  <1>2. ASSUME NEW c \in Nat, NEW d \in Nat, c # 0, <<c \div 2, d \div 2>> \in T
        PROVE  <<c, d>> \in T
    <2>1. (c \div 2) ^^ (d \div 2) = (d \div 2) ^^ (c \div 2)
      BY <1>2
    <2>2. c + d = d + c
      OBVIOUS
    <2>4. /\ c ^^ d = ((c + d) % 2) + 2 * ((c \div 2) ^^ (d \div 2))
          /\ d ^^ c = ((d + c) % 2) + 2 * ((d \div 2) ^^ (c \div 2))
      BY XorHalves
    <2>3. c ^^ d = d ^^ c
      BY <2>1, <2>2, <2>4
    <2> QED BY <2>3
  <1> HIDE DEF T
  <1>3. <<a, b>> \in T
    BY <1>1, <1>2, HalvingInduction
  <1> QED BY <1>3 DEF T

\* What was put in is taken out again.
LEMMA XorTwice ==
  ASSUME NEW a \in Nat, NEW b \in Nat
  PROVE  (b ^^ a) ^^ a = b
  <1> DEFINE T == {p \in Nat \X Nat : p[1] ^^ (p[1] ^^ p[2]) = p[2]}
  <1>1. \A d \in Nat : <<0, d>> \in T
    BY XorNat
  <1>2. ASSUME NEW c \in Nat, NEW d \in Nat, c # 0, <<c \div 2, d \div 2>> \in T
        PROVE  <<c, d>> \in T
    <2>1. PICK p \in Nat, q \in Nat : p = c \div 2 /\ q = d \div 2
      BY HalfOf
    <2>2. PICK x \in {0, 1}, y \in {0, 1} : x = c % 2 /\ y = d % 2
      BY HalfOf
    <2>3. c = 2 * p + x /\ d = 2 * q + y
      BY <2>1, <2>2, HalfOf
    <2>4. PICK X \in Nat, e \in Nat : X = p ^^ q /\ e = c ^^ d
      BY XorNat
    <2>5. e = ((c + d) % 2) + 2 * X
      BY <2>1, <2>4, XorHalves
    <2>6. e \div 2 = X /\ (c + e) % 2 = y
      BY <2>3, <2>5
    <2>7. p ^^ X = q
      BY <1>2, <2>1, <2>4
    <2>10. c ^^ e = ((c + e) % 2) + 2 * ((c \div 2) ^^ (e \div 2))
      BY XorHalves
    <2>8. c ^^ e = y + 2 * q
      BY <2>1, <2>6, <2>7, <2>10
    <2>9. c ^^ (c ^^ d) = d
      BY <2>3, <2>4, <2>8
    <2> QED BY <2>9
  <1> HIDE DEF T
  <1>3. <<a, b>> \in T
    BY <1>1, <1>2, HalvingInduction
  <1>4. a ^^ (a ^^ b) = b
    BY <1>3 DEF T
  <1>5. PICK e \in Nat : e = a ^^ b
    BY XorNat
  <1>6. b ^^ a = e
    BY <1>5, XorCommutes
  <1> QED BY <1>4, <1>5, <1>6, XorCommutes

LEMMA XorInjective ==
  ASSUME NEW a \in Nat, NEW b \in Nat, NEW c \in Nat, a # b
  PROVE  a ^^ c # b ^^ c /\ c ^^ a # c ^^ b
  BY XorTwice, XorCommutes

PowerEquation(f) == f = [n \in Nat |-> IF n = 0 THEN 1 ELSE 2 * f[n - 1]]

LEMMA PowerExists == PowerEquation(Power) /\ Power \in [Nat -> Nat]
  <1> DEFINE step == [z \in Nat \X Nat |-> 2 * z[1]]
  <1>1. PICK f : Follows(f, Nat, 1, step)
    <2>1. PICK A, a : A = Nat /\ a = 1
      OBVIOUS
    <2>2. a \in A /\ step \in [A \X Nat -> A]
      BY <2>1
    <2> HIDE DEF step
    <2>3. \E f : Follows(f, A, a, step)
      BY <2>2, Recursion
    <2> QED BY <2>1, <2>3
  <1>2. ASSUME NEW n \in Nat PROVE f[n] = IF n = 0 THEN 1 ELSE 2 * f[n - 1]
    <2>1. CASE n = 0
      BY <1>1, <2>1 DEF Follows
    <2>2. CASE n # 0
      <3>1. PICK k \in Nat : k = n - 1
        BY <2>2
      <3>2. f[k + 1] = step[<<f[k], k>>] /\ f[k] \in Nat
        BY <1>1 DEF Follows
      <3>3. step[<<f[k], k>>] = 2 * f[k] /\ k + 1 = n
        BY <3>1, <3>2
      <3> QED BY <2>2, <3>1, <3>2, <3>3
    <2> QED BY <2>1, <2>2
  <1>3. f \in [Nat -> Nat] /\ f = [n \in Nat |-> f[n]]
    BY <1>1 DEF Follows
  <1>4. PowerEquation(f)
    BY <1>2, <1>3 DEF PowerEquation
  <1>5. Power = CHOOSE g : PowerEquation(g)
    BY DEF Power, PowerEquation
  <1>6. PowerEquation(Power)
    <2> HIDE DEF PowerEquation
    <2> QED BY <1>4, <1>5
  <1> DEFINE Good == {n \in Nat : Power[n] \in Nat}
  <1>7. 0 \in Good
    BY <1>6 DEF PowerEquation
  <1>8. ASSUME NEW n \in Nat, n \in Good PROVE n + 1 \in Good
    <2>1. n + 1 \in Nat /\ n + 1 # 0 /\ (n + 1) - 1 = n
      OBVIOUS
    <2>2. Power[n + 1] = 2 * Power[n]
      BY <1>6, <2>1 DEF PowerEquation
    <2> QED BY <1>8, <2>2
  <1>9. Nat \subseteq Good
    <2> HIDE DEF Good
    <2> QED BY <1>7, <1>8, SetInduction
  <1> QED BY <1>6, <1>9 DEF PowerEquation

LEMMA PowerFacts ==
  /\ Power[0] = 1
  /\ \A n \in Nat : Power[n] \in Nat \ {0} /\ Power[n + 1] = 2 * Power[n]
  <1>1. Power[0] = 1
    BY PowerExists DEF PowerEquation
  <1>2. ASSUME NEW n \in Nat PROVE Power[n + 1] = 2 * Power[n]
    <2>1. n + 1 \in Nat /\ n + 1 # 0 /\ (n + 1) - 1 = n
      OBVIOUS
    <2> QED BY <2>1, PowerExists DEF PowerEquation
  <1> DEFINE Good == {n \in Nat : Power[n] \in Nat \ {0}}
  <1>3. 0 \in Good
    BY <1>1
  <1>4. ASSUME NEW n \in Good PROVE n + 1 \in Good
    <2>1. Power[n] \in Nat \ {0} /\ Power[n + 1] = 2 * Power[n]
      BY <1>2
    <2> QED BY <2>1
  <1>5. Nat \subseteq Good
    <2> HIDE DEF Good
    <2> QED BY <1>3, <1>4, SetInduction
  <1> QED BY <1>1, <1>2, <1>5

\* Two words give a word.
LEMMA XorBelow ==
  ASSUME NEW n \in Nat, NEW a \in 0 .. Power[n] - 1, NEW b \in 0 .. Power[n] - 1
  PROVE  a ^^ b \in 0 .. Power[n] - 1
  <1> DEFINE Good == {k \in Nat : \A c, d \in Nat :
                        c < Power[k] /\ d < Power[k] => c ^^ d < Power[k]}
  <1>1. 0 \in Good
    <2>1. 0 ^^ 0 = 0
      BY XorNat
    <2> QED BY <2>1, PowerFacts
  <1>2. ASSUME NEW k \in Nat, k \in Good PROVE k + 1 \in Good
    <2>1. ASSUME NEW c \in Nat, NEW d \in Nat, c < Power[k + 1], d < Power[k + 1]
          PROVE  c ^^ d < Power[k + 1]
      <3>1. PICK w \in Nat : w = Power[k] /\ Power[k + 1] = 2 * w
        BY PowerFacts
      <3>2. PICK p \in Nat, q \in Nat : p = c \div 2 /\ q = d \div 2 /\ p < w /\ q < w
        <4>1. c \div 2 < w /\ d \div 2 < w
          BY <2>1, <3>1, HalfOf
        <4> QED BY <4>1, HalfOf
      <3>3. p ^^ q < w /\ p ^^ q \in Nat
        BY <1>2, <3>1, <3>2, XorNat
      <3>4. c ^^ d = ((c + d) % 2) + 2 * (p ^^ q) /\ (c + d) % 2 \in {0, 1}
        <4>1. c ^^ d = ((c + d) % 2) + 2 * ((c \div 2) ^^ (d \div 2))
          BY XorHalves
        <4>2. c + d \in Nat
          OBVIOUS
        <4> QED BY <3>2, <4>1, <4>2, HalfOf
      <3> QED BY <3>1, <3>3, <3>4
    <2> QED BY <2>1
  <1>3. Nat \subseteq Good
    <2> HIDE DEF Good
    <2> QED BY <1>1, <1>2, SetInduction
  <1>4. PICK w \in Nat : w = Power[n]
    BY PowerFacts
  <1>5. a \in Nat /\ b \in Nat /\ a < w /\ b < w
    BY <1>4
  <1>6. n \in Good
    BY <1>3
  <1>7. a ^^ b < w
    BY <1>4, <1>5, <1>6
  <1>8. a ^^ b \in Nat
    BY <1>5, XorNat
  <1> QED BY <1>4, <1>7, <1>8

-----------------------------------------------------------------------------
(***************************************************************************)
(* Words.                                                                  *)
(***************************************************************************)
LEMMA ModSame ==
  ASSUME NEW w \in Nat \ {0}, NEW a \in Nat, NEW k \in Nat
  PROVE  (k * w + a) % w = a % w
  <1>1. PICK q \in Nat, r \in 0 .. w - 1 : a = q * w + r /\ r = a % w
    BY DivMod
  <1>2. k * w + a = (k + q) * w + r /\ k + q \in Nat
    BY <1>1
  <1>3. ((k + q) * w + r) % w = r
    BY <1>2, DivModUnique
  <1> QED BY <1>1, <1>2, <1>3

\* The width of a sum may be cut before or after.
LEMMA ModAdd ==
  ASSUME NEW w \in Nat \ {0}, NEW a \in Nat, NEW b \in Nat
  PROVE  ((a % w) + b) % w = (a + b) % w
  <1>1. PICK q \in Nat, r \in 0 .. w - 1 : a = q * w + r /\ r = a % w
    BY DivMod
  <1>2. r + b \in Nat /\ a + b = q * w + (r + b)
    BY <1>1
  <1>3. (q * w + (r + b)) % w = (r + b) % w
    BY <1>2, ModSame
  <1> QED BY <1>1, <1>2, <1>3

\* Numbers with the same remainder are some multiple apart.
LEMMA ModApart ==
  ASSUME NEW w \in Nat \ {0}, NEW a \in Nat, NEW b \in Nat, a <= b, a % w = b % w
  PROVE  \E k \in Nat : b - a = k * w
  <1>1. PICK q \in Nat, r \in 0 .. w - 1 : a = q * w + r /\ r = a % w
    BY DivMod
  <1>2. PICK p \in Nat, s \in 0 .. w - 1 : b = p * w + s /\ s = b % w
    BY DivMod
  <1>3. r = s
    BY <1>1, <1>2
  <1>4. p * w >= q * w
    BY <1>1, <1>2, <1>3
  <1>5. p >= q
    <2>1. CASE p < q
      <3>1. q * w >= (p + 1) * w
        BY <2>1
      <3>2. (p + 1) * w = p * w + w
        OBVIOUS
      <3> QED BY <3>1, <3>2, <1>4
    <2> QED BY <2>1
  <1>6. b - a = (p - q) * w
    BY <1>1, <1>2, <1>3
  <1> QED BY <1>5, <1>6

LEMMA Cancel ==
  ASSUME NEW w \in Nat \ {0}, NEW u \in Nat, NEW v \in Nat, u * w = v * w
  PROVE  u = v
  <1>1. CASE u < v
    <2>1. v * w >= (u + 1) * w /\ (u + 1) * w = u * w + w
      BY <1>1
    <2> QED BY <2>1
  <1>2. CASE v < u
    <2>1. u * w >= (v + 1) * w /\ (v + 1) * w = v * w + w
      BY <1>2
    <2> QED BY <2>1
  <1> QED BY <1>1, <1>2

\* An odd factor takes no power of two away.
LEMMA OddCancels ==
  ASSUME NEW h \in Nat, NEW n \in Nat, NEW d \in Nat, NEW k \in Nat,
         d * (2 * h + 1) = k * Power[n]
  PROVE  \E e \in Nat : d = e * Power[n]
  <1> DEFINE P == 2 * h + 1
             Good == {m \in Nat : \A l \in Nat : d * P = l * Power[m] =>
                                    \E e \in Nat : d = e * Power[m]}
  <1>1. 0 \in Good
    <2>1. d = d * Power[0]
      BY PowerFacts
    <2> QED BY <2>1
  <1>2. ASSUME NEW m \in Nat, m \in Good PROVE m + 1 \in Good
    <2>1. ASSUME NEW l \in Nat, d * P = l * Power[m + 1]
          PROVE  \E e \in Nat : d = e * Power[m + 1]
      <3>1. PICK w \in Nat \ {0} : w = Power[m] /\ Power[m + 1] = 2 * w
        BY PowerFacts
      <3>2. d * P = (2 * l) * w /\ 2 * l \in Nat
        BY <2>1, <3>1
      <3>3. PICK e \in Nat : d = e * w
        BY <1>2, <3>1, <3>2
      <3>4. (e * P) * w = (2 * l) * w /\ e * P \in Nat
        BY <3>2, <3>3
      <3>5. e * P = 2 * l
        <4>1. PICK u \in Nat, v \in Nat : u = e * P /\ v = 2 * l
          BY <3>2, <3>4
        <4>2. u * w = v * w
          BY <3>4, <4>1
        <4> QED BY <4>1, <4>2, Cancel
      <3>6. PICK f \in Nat : f = e * h
        OBVIOUS
      <3>7. e * P = 2 * f + e
        BY <3>6
      <3>8. l - f \in Nat /\ e = 2 * (l - f)
        BY <3>5, <3>7
      <3>9. d = (l - f) * (2 * w)
        BY <3>3, <3>8
      <3> QED BY <3>1, <3>8, <3>9
    <2> QED BY <2>1
  <1>3. Nat \subseteq Good
    <2> HIDE DEF Good
    <2> QED BY <1>1, <1>2, SetInduction
  <1> QED BY <1>3

Words == 0 .. Base - 1

LEMMA BaseIs == Base \in Nat \ {0} /\ \E h \in Nat : Base = 2 * h
  <1>1. WordBits \in Nat /\ WordBits >= 8
    BY ProtectionAssumption
  <1>2. PICK n \in Nat : WordBits = n + 1
    <2>1. WordBits - 1 \in Nat /\ WordBits = (WordBits - 1) + 1
      BY <1>1
    <2> QED BY <2>1
  <1>3. Power[n] \in Nat /\ Power[n + 1] \in Nat \ {0} /\ Power[n + 1] = 2 * Power[n]
    BY PowerFacts
  <1> QED BY <1>2, <1>3 DEF Base

LEMMA SmallPowers ==
  /\ Power[0] = 1 /\ Power[1] = 2 /\ Power[2] = 4 /\ Power[3] = 8 /\ Power[4] = 16
  /\ Power[5] = 32 /\ Power[6] = 64 /\ Power[7] = 128 /\ Power[8] = 256
  <1>1. \A n \in Nat : Power[n + 1] = 2 * Power[n]
    BY PowerFacts
  <1>2. Power[0 + 1] = 2 /\ Power[1 + 1] = 4 /\ Power[2 + 1] = 8 /\ Power[3 + 1] = 16
    BY <1>1, PowerFacts
  <1>3. Power[4 + 1] = 32 /\ Power[5 + 1] = 64 /\ Power[6 + 1] = 128 /\ Power[7 + 1] = 256
    BY <1>1, <1>2
  <1> QED BY <1>2, <1>3, PowerFacts

LEMMA BytesAreWords == 0 .. 255 \subseteq Words
  <1> DEFINE Good == {n \in Nat : Power[8 + n] >= 256}
  <1>1. Power[8] = 256
    BY SmallPowers
  <1>2. 0 \in Good
    BY <1>1
  <1>3. ASSUME NEW n \in Nat, n \in Good PROVE n + 1 \in Good
    <2>1. 8 + n \in Nat /\ 8 + (n + 1) = (8 + n) + 1
      OBVIOUS
    <2>2. Power[8 + (n + 1)] = 2 * Power[8 + n] /\ Power[8 + n] \in Nat
      BY <2>1, PowerFacts
    <2> QED BY <1>3, <2>2
  <1>4. Nat \subseteq Good
    <2> HIDE DEF Good
    <2> QED BY <1>2, <1>3, SetInduction
  <1>5. WordBits - 8 \in Nat /\ WordBits = 8 + (WordBits - 8)
    BY ProtectionAssumption
  <1>6. Base >= 256
    BY <1>4, <1>5 DEF Base
  <1> QED BY <1>6, BaseIs DEF Words

LEMMA WordIs ==
  ASSUME NEW n \in Nat
  PROVE  /\ Word(n) \in Words /\ Word(n) \in Nat
         /\ n \in Words => Word(n) = n
  <1>1. Base \in Nat \ {0}
    BY BaseIs
  <1>2. n % Base \in 0 .. Base - 1
    BY <1>1, DivMod
  <1>3. ASSUME n \in 0 .. Base - 1 PROVE n % Base = n
    <2>1. (0 * Base + n) % Base = n
      BY <1>1, <1>3, DivModUnique
    <2>2. 0 * Base + n = n
      BY <1>1
    <2> QED BY <2>1, <2>2
  <1>4. n % Base \in Nat
    BY <1>1, <1>2
  <1> QED BY <1>2, <1>3, <1>4 DEF Word, Words

LEMMA WordAdd ==
  ASSUME NEW a \in Nat, NEW b \in Nat
  PROVE  Word(Word(a) + b) = Word(a + b)
  BY BaseIs, ModAdd DEF Word

LEMMA XorWords ==
  ASSUME NEW a \in Words, NEW b \in Words
  PROVE  a ^^ b \in Words
  BY XorBelow, ProtectionAssumption DEF Words, Base

\* Nat, and words are natural numbers.
LEMMA WordsNat == Words \subseteq Nat
  BY BaseIs DEF Words

\* The lowest bit of a word is that of the number.
LEMMA WordOdd ==
  ASSUME NEW g \in Nat
  PROVE  \E h \in Nat : Word(2 * g + 1) = 2 * h + 1
  <1>1. PICK w \in Nat \ {0}, l \in Nat : w = Base /\ w = 2 * l
    BY BaseIs
  <1>2. PICK n \in Nat : n = 2 * g + 1
    OBVIOUS
  <1>3. PICK q \in Nat, r \in 0 .. w - 1 : n = q * w + r /\ r = n % w
    BY DivMod
  <1>4. PICK m \in Nat : m = q * l
    OBVIOUS
  <1>5. n = 2 * m + r
    BY <1>1, <1>3, <1>4
  <1>6. r = 2 * (g - m) + 1 /\ g - m \in Nat
    BY <1>2, <1>5
  <1>7. Word(2 * g + 1) = r
    BY <1>1, <1>2, <1>3 DEF Word
  <1> QED BY <1>6, <1>7

\* A constant of the code, narrow or not.
LEMMA Word32Is ==
  ASSUME NEW hi \in Nat, NEW lo \in Nat
  PROVE  /\ Word32(hi, lo) \in Words
         /\ \A g \in Nat : lo = 2 * g + 1 => \E h \in Nat : Word32(hi, lo) = 2 * h + 1
  <1>1. PICK p \in Nat : Power[16] = 2 * p
    <2>1. Power[15 + 1] = 2 * Power[15] /\ Power[15] \in Nat
      BY PowerFacts
    <2> QED BY <2>1
  <1>2. PICK n \in Nat : n = hi * p
    OBVIOUS
  <1>3. hi * Power[16] = 2 * n
    BY <1>1, <1>2
  <1>4. PICK m \in {0, n} : Word32(hi, lo) = Word(lo + 2 * m)
    <2>1. CASE WordBits <= 16
      BY <2>1 DEF Word32
    <2>2. CASE ~(WordBits <= 16)
      BY <1>3, <2>2 DEF Word32
    <2> QED BY <2>1, <2>2
  <1>5. Word(lo + 2 * m) \in Words
    <2>1. lo + 2 * m \in Nat
      OBVIOUS
    <2> QED BY <2>1, WordIs
  <1>6. ASSUME NEW g \in Nat, lo = 2 * g + 1
        PROVE  \E h \in Nat : Word32(hi, lo) = 2 * h + 1
    <2>1. lo + 2 * m = 2 * (g + m) + 1 /\ g + m \in Nat
      BY <1>6
    <2> QED BY <1>4, <2>1, WordOdd
  <1> QED BY <1>4, <1>5, <1>6

\* The constants that words are put together from.
LEMMA ConstantsAreWords ==
  /\ FnvBasis \in Words /\ FnvPrime \in Words /\ TableBasis \in Words /\ Blind \in Words
  /\ TableShift \in Nat
  BY Word32Is DEF FnvBasis, FnvPrime, TableBasis, Blind, TableShift

LEMMA FnvPrimeOdd == \E h \in Nat : FnvPrime = 2 * h + 1
  <1>1. \h0193 = 2 * 201 + 1
    OBVIOUS
  <1>2. PICK lo \in Nat, hi \in Nat : lo = \h0193 /\ hi = \h0100
    OBVIOUS
  <1>3. \E h \in Nat : Word32(hi, lo) = 2 * h + 1
    BY <1>1, <1>2, Word32Is
  <1> QED BY <1>2, <1>3 DEF FnvPrime

\* Words are multiplied by FnvPrime, and shifted, without a loss.
LEMMA FactorInjective ==
  ASSUME NEW x \in Words, NEW y \in Words, NEW c \in Nat,
         Word(x * FnvPrime + c) = Word(y * FnvPrime + c)
  PROVE  x = y
  <1>1. PICK h \in Nat : FnvPrime = 2 * h + 1
    BY FnvPrimeOdd
  <1>2. WordBits \in Nat /\ Base = Power[WordBits] /\ Base \in Nat \ {0}
    BY ProtectionAssumption, BaseIs DEF Base
  <1>3. ASSUME NEW u \in Words, NEW v \in Words, u <= v,
               Word(u * FnvPrime + c) = Word(v * FnvPrime + c)
        PROVE  u = v
    <2>1. u \in Nat /\ v \in Nat /\ v - u \in Nat /\ v - u < Base
      BY <1>2, <1>3 DEF Words
    <2>2. PICK d \in Nat : d = v - u
      BY <2>1
    <2>3. PICK a \in Nat, b \in Nat : a = u * FnvPrime + c /\ b = v * FnvPrime + c
      BY <1>1, <2>1
    <2>4. b = a + d * (2 * h + 1)
      <3>1. v = u + d
        BY <2>1, <2>2
      <3>2. v * (2 * h + 1) = u * (2 * h + 1) + d * (2 * h + 1)
        BY <2>1, <3>1
      <3> QED BY <1>1, <2>1, <2>3, <3>2
    <2>5. PICK e \in Nat : e = d * (2 * h + 1)
      OBVIOUS
    <2>6. PICK k \in Nat : b - a = k * Base
      <3>1. a <= b
        BY <2>4, <2>5
      <3>2. a % Base = b % Base
        BY <1>3, <2>3 DEF Word
      <3> QED BY <1>2, <3>1, <3>2, ModApart
    <2>7. d * (2 * h + 1) = k * Power[WordBits]
      BY <1>2, <2>3, <2>4, <2>5, <2>6
    <2>8. PICK f \in Nat : d = f * Power[WordBits]
      <3>1. PICK n \in Nat : n = WordBits
        BY <1>2
      <3>2. d * (2 * h + 1) = k * Power[n]
        BY <2>7, <3>1
      <3>3. \E l \in Nat : d = l * Power[n]
        BY <3>2, OddCancels
      <3> QED BY <3>1, <3>3
    <2>9. PICK w \in Nat \ {0} : w = Base
      BY <1>2
    <2>10. d = f * w /\ d < w
      BY <1>2, <2>1, <2>2, <2>8, <2>9
    <2>11. CASE f = 0
      BY <2>1, <2>2, <2>10, <2>11
    <2>12. CASE f # 0
      <3>1. f * w >= w
        BY <2>12
      <3> QED BY <2>10, <3>1
    <2> QED BY <2>11, <2>12
  <1>4. x <= y \/ y <= x
    BY <1>2 DEF Words
  <1> QED BY <1>3, <1>4

-----------------------------------------------------------------------------
(***************************************************************************)
(* The loops of anti_tamper.cpp and decoys.cpp, as functions of what they  *)
(* have and what they read.                                                *)
(***************************************************************************)
\* The character codes, under a name that the lemmas about loops can be used with.
Codes == Nat

TableStep == [p \in Words \X Words |-> Word((p[1] ^^ p[2]) * FnvPrime + TableShift)]

TextStep == [p \in Words \X Words |-> Word((p[1] ^^ p[2]) * FnvPrime)]

FnvStep == [p \in Words \X Codes |-> Word((p[1] ^^ p[2]) * FnvPrime)]

SerialStep == [p \in Words \X Codes |-> Word((p[1] ^^ Blind) + p[2]) ^^ Blind]

AddedStep == [p \in Words \X Codes |-> Word(p[1] + p[2])]

SumStep == [p \in Codes \X Codes |-> p[1] + p[2]]

\* A sum or product of words is a number.
LEMMA FactorNat ==
  ASSUME NEW x \in Words, NEW y \in Nat
  PROVE  (x ^^ y) * FnvPrime + TableShift \in Nat /\ (x ^^ y) * FnvPrime \in Nat
  <1>1. x \in Nat /\ FnvPrime \in Nat
    BY WordsNat, ConstantsAreWords
  <1>2. PICK u \in Nat : u = x ^^ y
    BY <1>1, XorNat
  <1>3. PICK v \in Nat, c \in Nat : v = FnvPrime /\ c = TableShift
    BY <1>1, ConstantsAreWords
  <1>4. u * v \in Nat
    OBVIOUS
  <1> QED BY <1>2, <1>3, <1>4

LEMMA TableStepIs ==
  /\ StepOn(TableStep, Words, Words)
  /\ \A x \in Words, y \in Words : TableStep[<<x, y>>] = Word((x ^^ y) * FnvPrime + TableShift)
  <1>1. ASSUME NEW x \in Words, NEW y \in Words
        PROVE  Word((x ^^ y) * FnvPrime + TableShift) \in Words
    BY FactorNat, WordsNat, WordIs
  <1> QED BY <1>1 DEF StepOn, TableStep

LEMMA TextStepIs ==
  /\ StepOn(TextStep, Words, Words)
  /\ \A x \in Words, y \in Words : TextStep[<<x, y>>] = Word((x ^^ y) * FnvPrime)
  <1>1. ASSUME NEW x \in Words, NEW y \in Words
        PROVE  Word((x ^^ y) * FnvPrime) \in Words
    BY FactorNat, WordsNat, WordIs
  <1> QED BY <1>1 DEF StepOn, TextStep

LEMMA FnvStepIs ==
  /\ StepOn(FnvStep, Words, Codes)
  /\ \A x \in Words, y \in Codes : FnvStep[<<x, y>>] = Word((x ^^ y) * FnvPrime)
  <1>1. ASSUME NEW x \in Words, NEW y \in Codes
        PROVE  Word((x ^^ y) * FnvPrime) \in Words
    BY FactorNat, WordIs DEF Codes
  <1> QED BY <1>1 DEF StepOn, FnvStep

LEMMA SerialStepIs ==
  /\ StepOn(SerialStep, Words, Codes)
  /\ \A x \in Words, y \in Codes : SerialStep[<<x, y>>] = Word((x ^^ Blind) + y) ^^ Blind
  <1>1. ASSUME NEW x \in Words, NEW y \in Codes
        PROVE  Word((x ^^ Blind) + y) ^^ Blind \in Words
    <2>1. PICK u \in Nat : u = x ^^ Blind
      BY WordsNat, ConstantsAreWords, XorNat
    <2>2. u + y \in Nat
      BY DEF Codes
    <2> QED BY <2>1, <2>2, WordIs, XorWords, ConstantsAreWords
  <1> QED BY <1>1 DEF StepOn, SerialStep

LEMMA AddedStepIs ==
  /\ StepOn(AddedStep, Words, Codes)
  /\ \A x \in Words, y \in Codes : AddedStep[<<x, y>>] = Word(x + y)
  <1>1. ASSUME NEW x \in Words, NEW y \in Codes
        PROVE  Word(x + y) \in Words
    <2>1. x + y \in Nat
      BY WordsNat DEF Codes
    <2> QED BY <2>1, WordIs
  <1> QED BY <1>1 DEF StepOn, AddedStep

LEMMA SumStepIs ==
  /\ StepOn(SumStep, Codes, Codes)
  /\ \A x \in Codes, y \in Codes : SumStep[<<x, y>>] = x + y
  <1>1. ASSUME NEW x \in Codes, NEW y \in Codes
        PROVE  x + y \in Codes
    BY DEF Codes
  <1> QED BY <1>1 DEF StepOn, SumStep

\* The loops.
LEMMA TextSumIs ==
  ASSUME NEW bytes \in Seq(Words)
  PROVE  TextSum(bytes) = Folded(FnvBasis, TextStep, bytes)
  <1> DEFINE Loop(g) ==
               [P \in SUBSET DOMAIN bytes |->
                  IF P = {} THEN FnvBasis
                  ELSE Word((g[P \ {Max(P)}] ^^ bytes[Max(P)]) * FnvPrime)]
  <1>0. FnvBasis \in Words /\ StepOn(TextStep, Words, Words)
    BY ConstantsAreWords, TextStepIs
  <1>1. PICK g : Iterates(g, FnvBasis, TextStep, bytes) /\ g \in [SUBSET DOMAIN bytes -> Words]
    BY <1>0, FoldExists
  <1>2. g = Loop(g)
    <2>1. ASSUME NEW P \in SUBSET DOMAIN bytes, P # {}
          PROVE  TextStep[<<g[P \ {Max(P)}], bytes[Max(P)]>>] = Word((g[P \ {Max(P)}] ^^ bytes[Max(P)]) * FnvPrime)
      <3>1. g[P \ {Max(P)}] \in Words /\ bytes[Max(P)] \in Words
        BY <1>1, <2>1, MaxIn
      <3> QED BY <3>1, TextStepIs
    <2> QED BY <1>1, <2>1 DEF Iterates
  <1>3. PICK it : it = CHOOSE h : h = Loop(h)
    OBVIOUS
  <1>4. it = Loop(it)
    <2> HIDE DEF Loop
    <2> QED BY <1>2, <1>3
  <1>5. TextSum(bytes) = it[DOMAIN bytes]
    BY <1>3 DEF TextSum, FoldLeft, MapThenFoldSet
  <1>6. GoesBy(it, Words, FnvBasis, TextStep, bytes)
    <2>1. it[{}] = FnvBasis
      BY <1>4
    <2>2. ASSUME NEW P \in SUBSET DOMAIN bytes, P # {}, it[P \ {Max(P)}] \in Words
          PROVE  it[P] = TextStep[<<it[P \ {Max(P)}], bytes[Max(P)]>>]
      <3>1. bytes[Max(P)] \in Words
        BY <2>2, MaxIn
      <3>2. it[P] = Word((it[P \ {Max(P)}] ^^ bytes[Max(P)]) * FnvPrime)
        BY <1>4, <2>2
      <3> QED BY <2>2, <3>1, <3>2, TextStepIs
    <2> QED BY <2>1, <2>2 DEF GoesBy
  <1>7. it[1 .. Len(bytes)] = Folded(FnvBasis, TextStep, bytes)
    BY <1>0, <1>6, FoldIs
  <1> QED BY <1>5, <1>7

LEMMA TableSumIs ==
  ASSUME NEW table \in Seq(Words)
  PROVE  TableSum(table) = Folded(TableBasis, TableStep, table)
  <1> DEFINE Loop(g) ==
               [P \in SUBSET DOMAIN table |->
                  IF P = {} THEN TableBasis
                  ELSE Word((g[P \ {Max(P)}] ^^ table[Max(P)]) * FnvPrime + TableShift)]
  <1>0. TableBasis \in Words /\ StepOn(TableStep, Words, Words)
    BY ConstantsAreWords, TableStepIs
  <1>1. PICK g : Iterates(g, TableBasis, TableStep, table) /\ g \in [SUBSET DOMAIN table -> Words]
    BY <1>0, FoldExists
  <1>2. g = Loop(g)
    <2>1. ASSUME NEW P \in SUBSET DOMAIN table, P # {}
          PROVE  TableStep[<<g[P \ {Max(P)}], table[Max(P)]>>] = Word((g[P \ {Max(P)}] ^^ table[Max(P)]) * FnvPrime + TableShift)
      <3>1. g[P \ {Max(P)}] \in Words /\ table[Max(P)] \in Words
        BY <1>1, <2>1, MaxIn
      <3> QED BY <3>1, TableStepIs
    <2> QED BY <1>1, <2>1 DEF Iterates
  <1>3. PICK it : it = CHOOSE h : h = Loop(h)
    OBVIOUS
  <1>4. it = Loop(it)
    <2> HIDE DEF Loop
    <2> QED BY <1>2, <1>3
  <1>5. TableSum(table) = it[DOMAIN table]
    BY <1>3 DEF TableSum, FoldLeft, MapThenFoldSet
  <1>6. GoesBy(it, Words, TableBasis, TableStep, table)
    <2>1. it[{}] = TableBasis
      BY <1>4
    <2>2. ASSUME NEW P \in SUBSET DOMAIN table, P # {}, it[P \ {Max(P)}] \in Words
          PROVE  it[P] = TableStep[<<it[P \ {Max(P)}], table[Max(P)]>>]
      <3>1. table[Max(P)] \in Words
        BY <2>2, MaxIn
      <3>2. it[P] = Word((it[P \ {Max(P)}] ^^ table[Max(P)]) * FnvPrime + TableShift)
        BY <1>4, <2>2
      <3> QED BY <2>2, <3>1, <3>2, TableStepIs
    <2> QED BY <2>1, <2>2 DEF GoesBy
  <1>7. it[1 .. Len(table)] = Folded(TableBasis, TableStep, table)
    BY <1>0, <1>6, FoldIs
  <1> QED BY <1>5, <1>7

LEMMA PlainSerialIs ==
  ASSUME NEW s \in Seq(Codes)
  PROVE  PlainSerial(s) = Folded(FnvBasis, SerialStep, s)
  <1> DEFINE Loop(g) ==
               [P \in SUBSET DOMAIN s |->
                  IF P = {} THEN FnvBasis
                  ELSE Word((g[P \ {Max(P)}] ^^ Blind) + s[Max(P)]) ^^ Blind]
  <1>0. FnvBasis \in Words /\ StepOn(SerialStep, Words, Codes)
    BY ConstantsAreWords, SerialStepIs
  <1>1. PICK g : Iterates(g, FnvBasis, SerialStep, s) /\ g \in [SUBSET DOMAIN s -> Words]
    BY <1>0, FoldExists
  <1>2. g = Loop(g)
    <2>1. ASSUME NEW P \in SUBSET DOMAIN s, P # {}
          PROVE  SerialStep[<<g[P \ {Max(P)}], s[Max(P)]>>] = Word((g[P \ {Max(P)}] ^^ Blind) + s[Max(P)]) ^^ Blind
      <3>1. g[P \ {Max(P)}] \in Words /\ s[Max(P)] \in Codes
        BY <1>1, <2>1, MaxIn
      <3> QED BY <3>1, SerialStepIs
    <2> QED BY <1>1, <2>1 DEF Iterates
  <1>3. PICK it : it = CHOOSE h : h = Loop(h)
    OBVIOUS
  <1>4. it = Loop(it)
    <2> HIDE DEF Loop
    <2> QED BY <1>2, <1>3
  <1>5. PlainSerial(s) = it[DOMAIN s]
    BY <1>3 DEF PlainSerial, FoldLeft, MapThenFoldSet
  <1>6. GoesBy(it, Words, FnvBasis, SerialStep, s)
    <2>1. it[{}] = FnvBasis
      BY <1>4
    <2>2. ASSUME NEW P \in SUBSET DOMAIN s, P # {}, it[P \ {Max(P)}] \in Words
          PROVE  it[P] = SerialStep[<<it[P \ {Max(P)}], s[Max(P)]>>]
      <3>1. s[Max(P)] \in Codes
        BY <2>2, MaxIn
      <3>2. it[P] = Word((it[P \ {Max(P)}] ^^ Blind) + s[Max(P)]) ^^ Blind
        BY <1>4, <2>2
      <3> QED BY <2>2, <3>1, <3>2, SerialStepIs
    <2> QED BY <2>1, <2>2 DEF GoesBy
  <1>7. it[1 .. Len(s)] = Folded(FnvBasis, SerialStep, s)
    BY <1>0, <1>6, FoldIs
  <1> QED BY <1>5, <1>7

LEMMA PlainFnvIs ==
  ASSUME NEW basis \in Words, NEW s \in Seq(Codes)
  PROVE  PlainFnv(basis, s) = Folded(basis, FnvStep, s)
  <1> DEFINE Loop(g) ==
               [P \in SUBSET DOMAIN s |->
                  IF P = {} THEN basis
                  ELSE Word((g[P \ {Max(P)}] ^^ s[Max(P)]) * FnvPrime)]
  <1>0. basis \in Words /\ StepOn(FnvStep, Words, Codes)
    BY FnvStepIs
  <1>1. PICK g : Iterates(g, basis, FnvStep, s) /\ g \in [SUBSET DOMAIN s -> Words]
    BY <1>0, FoldExists
  <1>2. g = Loop(g)
    <2>1. ASSUME NEW P \in SUBSET DOMAIN s, P # {}
          PROVE  FnvStep[<<g[P \ {Max(P)}], s[Max(P)]>>] = Word((g[P \ {Max(P)}] ^^ s[Max(P)]) * FnvPrime)
      <3>1. g[P \ {Max(P)}] \in Words /\ s[Max(P)] \in Codes
        BY <1>1, <2>1, MaxIn
      <3> QED BY <3>1, FnvStepIs
    <2> QED BY <1>1, <2>1 DEF Iterates
  <1>3. PICK it : it = CHOOSE h : h = Loop(h)
    OBVIOUS
  <1>4. it = Loop(it)
    <2> HIDE DEF Loop
    <2> QED BY <1>2, <1>3
  <1>5. PlainFnv(basis, s) = it[DOMAIN s]
    BY <1>3 DEF PlainFnv, FoldLeft, MapThenFoldSet
  <1>6. GoesBy(it, Words, basis, FnvStep, s)
    <2>1. it[{}] = basis
      BY <1>4
    <2>2. ASSUME NEW P \in SUBSET DOMAIN s, P # {}, it[P \ {Max(P)}] \in Words
          PROVE  it[P] = FnvStep[<<it[P \ {Max(P)}], s[Max(P)]>>]
      <3>1. s[Max(P)] \in Codes
        BY <2>2, MaxIn
      <3>2. it[P] = Word((it[P \ {Max(P)}] ^^ s[Max(P)]) * FnvPrime)
        BY <1>4, <2>2
      <3> QED BY <2>2, <3>1, <3>2, FnvStepIs
    <2> QED BY <2>1, <2>2 DEF GoesBy
  <1>7. it[1 .. Len(s)] = Folded(basis, FnvStep, s)
    BY <1>0, <1>6, FoldIs
  <1> QED BY <1>5, <1>7

\* mba_add is the sum.
LEMMA MbaAdds ==
  ASSUME NEW a \in Nat, NEW b \in Nat
  PROVE  mba_add(a, b) = Word(a + b)
  BY XorAndSum DEF mba_add

\* The same steps in mixed boolean arithmetic.
LEMMA SerialMixed ==
  \A x \in Words, c \in Codes : SerialStep[<<x, c>>] = blinded32(x, c, Blind)
  <1> SUFFICES ASSUME NEW x \in Words, NEW c \in Codes
               PROVE  SerialStep[<<x, c>>] = blinded32(x, c, Blind)
    OBVIOUS
  <1>1. PICK u \in Nat : u = x ^^ Blind
    BY WordsNat, ConstantsAreWords, XorNat
  <1>2. mba_add(u, c) = Word(u + c)
    BY MbaAdds DEF Codes
  <1> QED BY <1>1, <1>2, SerialStepIs DEF blinded32

LEMMA FnvMixed ==
  \A x \in Words, c \in Codes :
    FnvStep[<<x, c>>] = mba_add(Word((x ^^ c) * FnvPrime), 0)
  <1> SUFFICES ASSUME NEW x \in Words, NEW c \in Codes
               PROVE  FnvStep[<<x, c>>] = mba_add(Word((x ^^ c) * FnvPrime), 0)
    OBVIOUS
  <1>1. PICK n \in Words : n = Word((x ^^ c) * FnvPrime)
    BY FactorNat, WordIs DEF Codes
  <1>2. n \in Nat
    BY WordsNat
  <1>3. mba_add(n, 0) = Word(n + 0) /\ n + 0 = n
    BY <1>2, MbaAdds
  <1>4. Word(n) = n
    BY <1>2, WordIs
  <1> QED BY <1>1, <1>3, <1>4, FnvStepIs

LEMMA AddedMixed ==
  \A x \in Words, c \in Codes : AddedStep[<<x, c>>] = mba_add(x, c)
  BY WordsNat, MbaAdds, AddedStepIs DEF Codes

LEMMA ZeroIsWord == 0 \in Words /\ 0 \in Codes
  BY BaseIs DEF Words, Codes

LEMMA SerialIs ==
  ASSUME NEW s \in Seq(Codes)
  PROVE  Serial(s) = Folded(FnvBasis, SerialStep, s)
  <1> DEFINE Loop(g) ==
               [P \in SUBSET DOMAIN s |->
                  IF P = {} THEN FnvBasis
                  ELSE blinded32(g[P \ {Max(P)}], s[Max(P)], Blind)]
  <1>0. FnvBasis \in Words /\ StepOn(SerialStep, Words, Codes)
    BY ConstantsAreWords, SerialStepIs, SerialMixed
  <1>1. PICK g : Iterates(g, FnvBasis, SerialStep, s) /\ g \in [SUBSET DOMAIN s -> Words]
    BY <1>0, FoldExists
  <1>2. g = Loop(g)
    <2>1. ASSUME NEW P \in SUBSET DOMAIN s, P # {}
          PROVE  SerialStep[<<g[P \ {Max(P)}], s[Max(P)]>>] = blinded32(g[P \ {Max(P)}], s[Max(P)], Blind)
      <3>1. g[P \ {Max(P)}] \in Words /\ s[Max(P)] \in Codes
        BY <1>1, <2>1, MaxIn
      <3> QED BY <3>1, SerialMixed
    <2> QED BY <1>1, <2>1 DEF Iterates
  <1>3. PICK it : it = CHOOSE h : h = Loop(h)
    OBVIOUS
  <1>4. it = Loop(it)
    <2> HIDE DEF Loop
    <2> QED BY <1>2, <1>3
  <1>5. Serial(s) = it[DOMAIN s]
    BY <1>3 DEF Serial, FoldLeft, MapThenFoldSet
  <1>6. GoesBy(it, Words, FnvBasis, SerialStep, s)
    <2>1. it[{}] = FnvBasis
      BY <1>4
    <2>2. ASSUME NEW P \in SUBSET DOMAIN s, P # {}, it[P \ {Max(P)}] \in Words
          PROVE  it[P] = SerialStep[<<it[P \ {Max(P)}], s[Max(P)]>>]
      <3>1. s[Max(P)] \in Codes
        BY <2>2, MaxIn
      <3>2. it[P] = blinded32(it[P \ {Max(P)}], s[Max(P)], Blind)
        BY <1>4, <2>2
      <3> QED BY <2>2, <3>1, <3>2, SerialMixed
    <2> QED BY <2>1, <2>2 DEF GoesBy
  <1>7. it[1 .. Len(s)] = Folded(FnvBasis, SerialStep, s)
    BY <1>0, <1>6, FoldIs
  <1> QED BY <1>5, <1>7

LEMMA FnvIs ==
  ASSUME NEW basis \in Words, NEW s \in Seq(Codes)
  PROVE  Fnv(basis, s) = Folded(basis, FnvStep, s)
  <1> DEFINE Loop(g) ==
               [P \in SUBSET DOMAIN s |->
                  IF P = {} THEN basis
                  ELSE mba_add(Word((g[P \ {Max(P)}] ^^ s[Max(P)]) * FnvPrime), 0)]
  <1>0. basis \in Words /\ StepOn(FnvStep, Words, Codes)
    BY FnvStepIs, FnvMixed
  <1>1. PICK g : Iterates(g, basis, FnvStep, s) /\ g \in [SUBSET DOMAIN s -> Words]
    BY <1>0, FoldExists
  <1>2. g = Loop(g)
    <2>1. ASSUME NEW P \in SUBSET DOMAIN s, P # {}
          PROVE  FnvStep[<<g[P \ {Max(P)}], s[Max(P)]>>] = mba_add(Word((g[P \ {Max(P)}] ^^ s[Max(P)]) * FnvPrime), 0)
      <3>1. g[P \ {Max(P)}] \in Words /\ s[Max(P)] \in Codes
        BY <1>1, <2>1, MaxIn
      <3> QED BY <3>1, FnvMixed
    <2> QED BY <1>1, <2>1 DEF Iterates
  <1>3. PICK it : it = CHOOSE h : h = Loop(h)
    OBVIOUS
  <1>4. it = Loop(it)
    <2> HIDE DEF Loop
    <2> QED BY <1>2, <1>3
  <1>5. Fnv(basis, s) = it[DOMAIN s]
    BY <1>3 DEF Fnv, FoldLeft, MapThenFoldSet
  <1>6. GoesBy(it, Words, basis, FnvStep, s)
    <2>1. it[{}] = basis
      BY <1>4
    <2>2. ASSUME NEW P \in SUBSET DOMAIN s, P # {}, it[P \ {Max(P)}] \in Words
          PROVE  it[P] = FnvStep[<<it[P \ {Max(P)}], s[Max(P)]>>]
      <3>1. s[Max(P)] \in Codes
        BY <2>2, MaxIn
      <3>2. it[P] = mba_add(Word((it[P \ {Max(P)}] ^^ s[Max(P)]) * FnvPrime), 0)
        BY <1>4, <2>2
      <3> QED BY <2>2, <3>1, <3>2, FnvMixed
    <2> QED BY <2>1, <2>2 DEF GoesBy
  <1>7. it[1 .. Len(s)] = Folded(basis, FnvStep, s)
    BY <1>0, <1>6, FoldIs
  <1> QED BY <1>5, <1>7

LEMMA AddedIs ==
  ASSUME NEW s \in Seq(Codes)
  PROVE  Added(s) = Folded(0, AddedStep, s)
  <1> DEFINE Loop(g) ==
               [P \in SUBSET DOMAIN s |->
                  IF P = {} THEN 0
                  ELSE mba_add(g[P \ {Max(P)}], s[Max(P)])]
  <1>0. 0 \in Words /\ StepOn(AddedStep, Words, Codes)
    BY ZeroIsWord, AddedStepIs, AddedMixed
  <1>1. PICK g : Iterates(g, 0, AddedStep, s) /\ g \in [SUBSET DOMAIN s -> Words]
    BY <1>0, FoldExists
  <1>2. g = Loop(g)
    <2>1. ASSUME NEW P \in SUBSET DOMAIN s, P # {}
          PROVE  AddedStep[<<g[P \ {Max(P)}], s[Max(P)]>>] = mba_add(g[P \ {Max(P)}], s[Max(P)])
      <3>1. g[P \ {Max(P)}] \in Words /\ s[Max(P)] \in Codes
        BY <1>1, <2>1, MaxIn
      <3> QED BY <3>1, AddedMixed
    <2> QED BY <1>1, <2>1 DEF Iterates
  <1>3. PICK it : it = CHOOSE h : h = Loop(h)
    OBVIOUS
  <1>4. it = Loop(it)
    <2> HIDE DEF Loop
    <2> QED BY <1>2, <1>3
  <1>5. Added(s) = it[DOMAIN s]
    BY <1>3 DEF Added, FoldLeft, MapThenFoldSet
  <1>6. GoesBy(it, Words, 0, AddedStep, s)
    <2>1. it[{}] = 0
      BY <1>4
    <2>2. ASSUME NEW P \in SUBSET DOMAIN s, P # {}, it[P \ {Max(P)}] \in Words
          PROVE  it[P] = AddedStep[<<it[P \ {Max(P)}], s[Max(P)]>>]
      <3>1. s[Max(P)] \in Codes
        BY <2>2, MaxIn
      <3>2. it[P] = mba_add(it[P \ {Max(P)}], s[Max(P)])
        BY <1>4, <2>2
      <3> QED BY <2>2, <3>1, <3>2, AddedMixed
    <2> QED BY <2>1, <2>2 DEF GoesBy
  <1>7. it[1 .. Len(s)] = Folded(0, AddedStep, s)
    BY <1>0, <1>6, FoldIs
  <1> QED BY <1>5, <1>7

LEMMA PlainSumIs ==
  ASSUME NEW s \in Seq(Codes)
  PROVE  PlainSum(s) = Word(Folded(0, SumStep, s))
  <1> DEFINE Loop(g) ==
               [P \in SUBSET DOMAIN s |->
                  IF P = {} THEN 0
                  ELSE g[P \ {Max(P)}] + s[Max(P)]]
  <1>0. 0 \in Codes /\ StepOn(SumStep, Codes, Codes)
    BY ZeroIsWord, SumStepIs
  <1>1. PICK g : Iterates(g, 0, SumStep, s) /\ g \in [SUBSET DOMAIN s -> Codes]
    BY <1>0, FoldExists
  <1>2. g = Loop(g)
    <2>1. ASSUME NEW P \in SUBSET DOMAIN s, P # {}
          PROVE  SumStep[<<g[P \ {Max(P)}], s[Max(P)]>>] = g[P \ {Max(P)}] + s[Max(P)]
      <3>1. g[P \ {Max(P)}] \in Codes /\ s[Max(P)] \in Codes
        BY <1>1, <2>1, MaxIn
      <3> QED BY <3>1, SumStepIs
    <2> QED BY <1>1, <2>1 DEF Iterates
  <1>3. PICK it : it = CHOOSE h : h = Loop(h)
    OBVIOUS
  <1>4. it = Loop(it)
    <2> HIDE DEF Loop
    <2> QED BY <1>2, <1>3
  <1>5. PlainSum(s) = Word(it[DOMAIN s])
    BY <1>3 DEF PlainSum, FoldLeft, MapThenFoldSet
  <1>6. GoesBy(it, Codes, 0, SumStep, s)
    <2>1. it[{}] = 0
      BY <1>4
    <2>2. ASSUME NEW P \in SUBSET DOMAIN s, P # {}, it[P \ {Max(P)}] \in Codes
          PROVE  it[P] = SumStep[<<it[P \ {Max(P)}], s[Max(P)]>>]
      <3>1. s[Max(P)] \in Codes
        BY <2>2, MaxIn
      <3>2. it[P] = it[P \ {Max(P)}] + s[Max(P)]
        BY <1>4, <2>2
      <3> QED BY <2>2, <3>1, <3>2, SumStepIs
    <2> QED BY <2>1, <2>2 DEF GoesBy
  <1>7. it[1 .. Len(s)] = Folded(0, SumStep, s)
    BY <1>0, <1>6, FoldIs
  <1> QED BY <1>5, <1>7

-----------------------------------------------------------------------------
(***************************************************************************)
(* White space around a text, and the parts between its dashes.            *)
(***************************************************************************)
\* The ends of what is left of a text when it is trimmed.
Ends1(s, space, a, b) ==
  /\ a \in 1 .. Len(s) /\ b \in 1 .. Len(s) /\ a <= b
  /\ s[a] \notin space /\ s[b] \notin space
  /\ \A i \in 1 .. Len(s) : s[i] \notin space => a <= i /\ i <= b

LEMMA TrimmedIs ==
  ASSUME NEW S, NEW s \in Seq(S), NEW space
  PROVE  \/ (\A i \in 1 .. Len(s) : s[i] \in space) /\ Trimmed(s, space) = <<>>
         \/ \E a, b : Ends1(s, space, a, b) /\ Trimmed(s, space) = SubSeq(s, a, b)
  <1>1. PICK n \in Nat : n = Len(s)
    OBVIOUS
  <1> DEFINE inner == {i \in DOMAIN s : s[i] \notin space}
             first == CHOOSE i \in inner : \A j \in inner : i <= j
             last == CHOOSE i \in inner : \A j \in inner : j <= i
  <1>2. inner = {i \in 1 .. n : s[i] \notin space}
    BY <1>1
  <1>3. CASE inner = {}
    <2>1. Trimmed(s, space) = <<>>
      BY <1>3 DEF Trimmed
    <2> QED BY <1>1, <1>2, <1>3, <2>1
  <1>4. CASE inner # {}
    <2>1. inner \subseteq 1 .. n /\ inner \subseteq Nat
      BY <1>2
    <2>2. first \in inner /\ \A j \in inner : first <= j
      <3>1. \E i \in inner : \A j \in inner : i <= j
        <4> HIDE DEF inner
        <4> QED BY <1>4, <2>1, NatMin
      <3> HIDE DEF inner
      <3> QED BY <3>1
    <2>3. last \in inner /\ \A j \in inner : j <= last
      <3>1. \E i \in inner : \A j \in inner : j <= i
        <4> HIDE DEF inner
        <4> QED BY <1>4, <2>1, NatMax
      <3> HIDE DEF inner
      <3> QED BY <3>1
    <2>4. Trimmed(s, space) = SubSeq(s, first, last)
      BY <1>4 DEF Trimmed
    <2> HIDE DEF first, last
    <2>5. PICK a, b : a = first /\ b = last
      OBVIOUS
    <2>6. Ends1(s, space, a, b)
      BY <1>1, <1>2, <2>2, <2>3, <2>5 DEF Ends1
    <2> QED BY <2>4, <2>5, <2>6
  <1> QED BY <1>3, <1>4

\* A text is what is trimmed off before and after it, and what is left.
LEMMA TrimmedParts ==
  ASSUME NEW S, NEW s \in Seq(S), NEW space
  PROVE  \E pre, mid, post \in Seq(S) :
           /\ s = (pre \o mid) \o post /\ mid = Trimmed(s, space)
           /\ \A i \in 1 .. Len(pre) : pre[i] \in space
           /\ \A i \in 1 .. Len(post) : post[i] \in space
           /\ mid = <<>> \/ (mid[1] \notin space /\ mid[Len(mid)] \notin space)
  <1>1. PICK n \in Nat : n = Len(s)
    OBVIOUS
  <1>01. PICK none \in Seq(S) : none = <<>>
    BY EmptySeq
  <1>2. CASE (\A i \in 1 .. Len(s) : s[i] \in space) /\ Trimmed(s, space) = <<>>
    <2>1. (s \o none) \o none = s
      BY <1>01, ConcatEmptySeq
    <2>2. \A i \in 1 .. Len(none) : none[i] \in space
      BY <1>01
    <2> QED BY <1>01, <1>2, <2>1, <2>2
  <1>3. CASE \E a, b : Ends1(s, space, a, b) /\ Trimmed(s, space) = SubSeq(s, a, b)
    <2>5. PICK a, b : Ends1(s, space, a, b) /\ Trimmed(s, space) = SubSeq(s, a, b)
      BY <1>3
    <2>6. /\ a \in 1 .. n /\ b \in 1 .. n /\ a <= b /\ s[a] \notin space /\ s[b] \notin space
          /\ \A i \in 1 .. n : s[i] \notin space => a <= i /\ i <= b
      BY <1>1, <2>5 DEF Ends1
    <2>7. PICK pre \in Seq(S) : /\ pre = SubSeq(s, 1, a - 1)
                                /\ \A i \in 1 .. Len(pre) : pre[i] \in space
      <3>0. PICK c \in Nat : c = a - 1 /\ c - 1 + 1 = c
        <4>1. a - 1 \in Nat
          BY <2>6
        <4> QED BY <4>1
      <3>1. \A i \in 1 .. c : s[i] \in S
        BY <1>1, <2>6, <3>0
      <3>3. /\ SubSeq(s, 1, c) \in Seq(S)
            /\ Len(SubSeq(s, 1, c)) = IF 1 <= c THEN c - 1 + 1 ELSE 0
            /\ \A i \in 1 .. c - 1 + 1 : SubSeq(s, 1, c)[i] = s[1 + i - 1]
        BY <3>0, <3>1, SubSeqProperties
      <3>4. Len(SubSeq(s, 1, c)) = c
        BY <3>0, <3>3
      <3>5. \A i \in 1 .. c : i \in 1 .. n /\ ~ (a <= i) /\ 1 + i - 1 = i
        BY <2>6, <3>0
      <3>6. \A i \in 1 .. c : SubSeq(s, 1, c)[i] \in space
        BY <2>6, <3>0, <3>3, <3>5
      <3> QED BY <3>0, <3>3, <3>4, <3>6
    <2>8. PICK mid \in Seq(S) : /\ mid = SubSeq(s, a, b) /\ mid[1] = s[a]
                                /\ mid[Len(mid)] = s[b] /\ mid # <<>>
      <3>1. \A i \in a .. b : s[i] \in S
        BY <1>1, <2>6
      <3>2. /\ SubSeq(s, a, b) \in Seq(S)
            /\ Len(SubSeq(s, a, b)) = IF a <= b THEN b - a + 1 ELSE 0
            /\ \A i \in 1 .. b - a + 1 : SubSeq(s, a, b)[i] = s[a + i - 1]
        BY <2>6, <3>1, SubSeqProperties
      <3>3. PICK l \in Nat : l = b - a + 1 /\ l >= 1
        BY <2>6
      <3>4. 1 \in 1 .. l /\ a + 1 - 1 = a /\ l \in 1 .. l /\ a + l - 1 = b
        BY <2>6, <3>3
      <3>5. Len(SubSeq(s, a, b)) = l
        BY <2>6, <3>2, <3>3
      <3>6. SubSeq(s, a, b)[1] = s[a] /\ SubSeq(s, a, b)[l] = s[b]
        BY <3>2, <3>3, <3>4
      <3>7. SubSeq(s, a, b) # <<>>
        <4>1. PICK t \in Seq(S) : t = SubSeq(s, a, b)
          BY <3>2
        <4>2. Len(t) = l /\ l # 0
          BY <3>3, <3>5, <4>1
        <4>3. t # <<>>
          BY <4>2, EmptySeq
        <4> QED BY <4>1, <4>3
      <3> QED BY <3>2, <3>5, <3>6, <3>7
    <2>9. PICK post \in Seq(S) : /\ post = SubSeq(s, b + 1, n)
                                 /\ \A i \in 1 .. Len(post) : post[i] \in space
      <3>0. PICK c \in Nat : c = b + 1
        BY <2>6
      <3>1. \A i \in c .. n : s[i] \in S
        BY <1>1, <2>6, <3>0
      <3>3. /\ SubSeq(s, c, n) \in Seq(S)
            /\ Len(SubSeq(s, c, n)) = IF c <= n THEN n - c + 1 ELSE 0
            /\ \A i \in 1 .. n - c + 1 : SubSeq(s, c, n)[i] = s[c + i - 1]
        BY <3>0, <3>1, SubSeqProperties
      <3>4. ASSUME NEW i \in 1 .. Len(SubSeq(s, c, n)) PROVE SubSeq(s, c, n)[i] \in space
        <4>1. i \in 1 .. n - c + 1
          BY <3>0, <3>3
        <4>2. c + i - 1 \in 1 .. n /\ ~ (c + i - 1 <= b)
          BY <2>6, <3>0, <4>1
        <4> QED BY <2>6, <3>3, <4>1, <4>2
      <3> QED BY <3>0, <3>3, <3>4
    <2>10. s = (pre \o mid) \o post
      <3>1. pre \o mid = SubSeq(s, 1, b)
        <4>1. 1 \in 1 .. Len(s) + 1 /\ a - 1 \in 1 - 1 .. Len(s) /\ b \in a - 1 .. Len(s)
          BY <1>1, <2>6
        <4>2. SubSeq(s, 1, a - 1) \o SubSeq(s, (a - 1) + 1, b) = SubSeq(s, 1, b)
          BY <4>1, ConcatAdjacentSubSeq
        <4>3. (a - 1) + 1 = a
          BY <2>6
        <4> QED BY <2>7, <2>8, <4>2, <4>3
      <3>2. SubSeq(s, 1, b) \o SubSeq(s, b + 1, n) = SubSeq(s, 1, n)
        <4>1. 1 \in 1 .. Len(s) + 1 /\ b \in 1 - 1 .. Len(s) /\ n \in b .. Len(s)
          BY <1>1, <2>6
        <4> QED BY <4>1, ConcatAdjacentSubSeq
      <3>3. SubSeq(s, 1, n) = s
        BY <1>1, SubSeqFull
      <3> QED BY <2>9, <3>1, <3>2, <3>3
    <2> QED BY <2>5, <2>6, <2>7, <2>8, <2>9, <2>10
  <1> QED BY <1>2, <1>3, TrimmedIs

LEMMA TrimmedType ==
  ASSUME NEW S, NEW s \in Seq(S), NEW space
  PROVE  Trimmed(s, space) \in Seq(S)
  BY TrimmedParts

\* A text with nothing to trim.
LEMMA TrimmedSame ==
  ASSUME NEW S, NEW s \in Seq(S), NEW space,
         s = <<>> \/ (s[1] \notin space /\ s[Len(s)] \notin space)
  PROVE  Trimmed(s, space) = s
  <1>1. PICK n \in Nat : n = Len(s)
    OBVIOUS
  <1>2. CASE s = <<>>
    <2>1. ~ \E a, b : Ends1(s, space, a, b)
      BY <1>2 DEF Ends1
    <2> QED BY <1>2, <2>1, TrimmedIs
  <1>3. CASE s # <<>>
    <2>1. n > 0 /\ 1 \in 1 .. n /\ n \in 1 .. n
      BY <1>1, <1>3, EmptySeq
    <2>2. s[1] \notin space /\ s[n] \notin space
      BY <1>1, <1>3
    <2>3. PICK a, b : Ends1(s, space, a, b) /\ Trimmed(s, space) = SubSeq(s, a, b)
      BY <1>1, <2>1, <2>2, TrimmedIs
    <2>4. a = 1 /\ b = n
      BY <1>1, <2>1, <2>2, <2>3 DEF Ends1
    <2> QED BY <1>1, <2>3, <2>4, SubSeqFull
  <1> QED BY <1>2, <1>3

Pieces == {p \in Seq(Seq(Codes)) : p # <<>>}

SplitStep(passed) == [z \in Pieces \X Codes |-> Takes(z[1], z[2], passed)]

\* The last part grows, or a new one begins.
LEMMA TakesIs ==
  ASSUME NEW p \in Pieces, NEW c \in Codes, NEW passed
  PROVE  /\ Takes(p, c, passed) \in Pieces
         /\ c \in passed => Takes(p, c, passed) = p
         /\ c \notin passed /\ c = Dash => Takes(p, c, passed) = Append(p, <<>>)
         /\ c \notin passed /\ c # Dash =>
              Takes(p, c, passed) = [p EXCEPT ![Len(p)] = Append(@, c)]
  <1>1. PICK n \in Nat : n = Len(p) /\ n \in DOMAIN p
    <2>1. p \in Seq(Seq(Codes)) /\ p # <<>>
      BY DEF Pieces
    <2>2. Len(p) \in Nat /\ Len(p) # 0 /\ DOMAIN p = 1 .. Len(p)
      BY <2>1, EmptySeq
    <2>3. Len(p) \in DOMAIN p
      BY <2>2
    <2> QED BY <2>2, <2>3
  <1>2. CASE c \in passed
    BY <1>2 DEF Takes
  <1>3. CASE c \notin passed /\ c = Dash
    <2>1. Takes(p, c, passed) = Append(p, <<>>)
      BY <1>3 DEF Takes
    <2>3. p \in Seq(Seq(Codes)) /\ <<>> \in Seq(Codes)
      BY EmptySeq DEF Pieces
    <2>4. Append(p, <<>>) \in Seq(Seq(Codes)) /\ Len(Append(p, <<>>)) = Len(p) + 1
      BY <2>3, AppendProperties
    <2>2. Append(p, <<>>) \in Seq(Seq(Codes)) /\ Append(p, <<>>) # <<>>
      <3>1. Len(<<>>) = 0 /\ Len(p) + 1 # 0
        BY <2>3
      <3> QED BY <2>4, <3>1
    <2> QED BY <1>3, <2>1, <2>2 DEF Pieces
  <1>4. CASE c \notin passed /\ c # Dash
    <2>1. Takes(p, c, passed) = [p EXCEPT ![Len(p)] = Append(@, c)]
      BY <1>4 DEF Takes
    <2>2. Append(p[n], c) \in Seq(Codes)
      BY <1>1, AppendProperties DEF Pieces
    <2>3. [p EXCEPT ![n] = Append(@, c)] \in Seq(Seq(Codes))
      BY <1>1, <2>2, ExceptSeq DEF Pieces
    <2>4. Len([p EXCEPT ![n] = Append(@, c)]) = n
      BY <1>1 DEF Pieces
    <2>5. n # 0
      BY <1>1 DEF Pieces
    <2> QED BY <1>1, <1>4, <2>1, <2>3, <2>4, <2>5, EmptySeq DEF Pieces
  <1> QED BY <1>2, <1>3, <1>4

LEMMA SplitStepIs ==
  ASSUME NEW passed
  PROVE  /\ StepOn(SplitStep(passed), Pieces, Codes)
         /\ \A p \in Pieces, c \in Codes : SplitStep(passed)[<<p, c>>] = Takes(p, c, passed)
  <1>1. ASSUME NEW z \in Pieces \X Codes PROVE Takes(z[1], z[2], passed) \in Pieces
    BY TakesIs
  <1> QED BY <1>1 DEF StepOn, SplitStep

OnePart == << <<>> >>

LEMMA OnePartIs == OnePart \in Pieces
  <1>1. <<>> \in Seq(Codes)
    BY EmptySeq
  <1> QED BY <1>1 DEF OnePart, Pieces

SplitLoop(f, s, passed) ==
  f = [i \in 0 .. Len(s) |-> IF i = 0 THEN << <<>> >> ELSE Takes(f[i - 1], s[i], passed)]

LEMMA SplitIs ==
  ASSUME NEW s \in Seq(Codes), NEW passed
  PROVE  Split(s, passed) = Folded(OnePart, SplitStep(passed), s)
  <1>1. PICK n \in Nat : n = Len(s)
    OBVIOUS
  <1>2. PICK step : step = SplitStep(passed) /\ StepOn(step, Pieces, Codes)
    BY SplitStepIs
  <1>3. PICK f : LoopOver(f, OnePart, step, s)
    BY <1>2, OnePartIs, LoopOverExists
  <1>4. /\ f[0] = OnePart
        /\ \A i \in 1 .. n : f[i] = step[<<f[i - 1], s[i]>>] /\ f[i - 1] \in Pieces
    BY <1>1, <1>2, <1>3, OnePartIs, LoopOverAt
  <1>5. ASSUME NEW i \in 1 .. n PROVE f[i] = Takes(f[i - 1], s[i], passed)
    <2>1. s[i] \in Codes
      BY <1>1
    <2>2. f[i - 1] \in Pieces /\ f[i] = step[<<f[i - 1], s[i]>>]
      BY <1>4
    <2> QED BY <1>2, <2>1, <2>2, SplitStepIs
  <1>6. f = [i \in 0 .. n |-> IF i = 0 THEN OnePart ELSE step[<<f[i - 1], s[i]>>]]
    BY <1>1, <1>3 DEF LoopOver
  <1>7. SplitLoop(f, s, passed)
    <2>1. \A i \in 0 .. n : i # 0 => i \in 1 .. n
      OBVIOUS
    <2>2. f = [i \in 0 .. n |-> IF i = 0 THEN OnePart ELSE Takes(f[i - 1], s[i], passed)]
      BY <1>4, <1>5, <1>6, <2>1
    <2> QED BY <1>1, <2>2 DEF SplitLoop, OnePart
  <1>8. PICK g : g = CHOOSE r : SplitLoop(r, s, passed)
    OBVIOUS
  <1>9. SplitLoop(g, s, passed)
    BY <1>7, <1>8
  <1>10. g[0] = OnePart /\ \A i \in 1 .. n : g[i] = Takes(g[i - 1], s[i], passed)
    <2>1. g = [i \in 0 .. n |-> IF i = 0 THEN OnePart ELSE Takes(g[i - 1], s[i], passed)]
      BY <1>1, <1>9 DEF SplitLoop, OnePart
    <2> QED BY <2>1
  <1> DEFINE Good == {i \in Nat : i <= n => f[i] = g[i]}
  <1>11. 0 \in Good
    BY <1>4, <1>10
  <1>12. ASSUME NEW i \in Good PROVE i + 1 \in Good
    <2>1. SUFFICES ASSUME i + 1 <= n PROVE f[i + 1] = g[i + 1]
      OBVIOUS
    <2>2. i + 1 \in 1 .. n /\ (i + 1) - 1 = i /\ f[i] = g[i]
      BY <2>1
    <2> QED BY <1>5, <1>10, <2>2
  <1>13. Nat \subseteq Good
    <2> HIDE DEF Good
    <2> QED BY <1>11, <1>12, SetInduction
  <1>14. f[n] = g[n]
    BY <1>13
  <1>15. Split(s, passed) = g[n]
    BY <1>1, <1>8 DEF Split, SplitLoop
  <1>16. Folded(OnePart, step, s) = f[n]
    BY <1>1, <1>2, <1>3, OnePartIs, FoldedIs
  <1> QED BY <1>2, <1>14, <1>15, <1>16

\* What is passed over changes nothing.
LEMMA PassedOver ==
  ASSUME NEW p \in Pieces, NEW passed, NEW u \in Seq(Codes),
         \A i \in 1 .. Len(u) : u[i] \in passed
  PROVE  Folded(p, SplitStep(passed), u) = p
  <1>0. PICK step : step = SplitStep(passed) /\ StepOn(step, Pieces, Codes)
    BY SplitStepIs
  <1> DEFINE All(t) == \A i \in 1 .. Len(t) : t[i] \in passed
             Good == {t \in Seq(Codes) : All(t) => Folded(p, step, t) = p}
  <1>1. <<>> \in Good
    <2>1. Folded(p, step, <<>>) = p
      BY <1>0, FoldedNone
    <2> QED BY <2>1, EmptySeq
  <1>2. ASSUME NEW t \in Seq(Codes), NEW c \in Codes, t \in Good PROVE Append(t, c) \in Good
    <2>1. PICK v \in Seq(Codes) : v = Append(t, c)
      BY AppendProperties
    <2>2. PICK n \in Nat : n = Len(t)
      OBVIOUS
    <2>3. Len(v) = n + 1 /\ v[n + 1] = c /\ \A i \in 1 .. n : v[i] = t[i]
      BY <2>1, <2>2, AppendProperties
    <2>4. ASSUME All(v) PROVE Folded(p, step, v) = p
      <3>1. c \in passed
        <4>1. n + 1 \in 1 .. Len(v)
          BY <2>3
        <4> QED BY <2>3, <2>4, <4>1
      <3>2. All(t)
        <4>1. \A i \in 1 .. n : i \in 1 .. Len(v)
          BY <2>3
        <4> QED BY <2>2, <2>3, <2>4, <4>1
      <3>3. Folded(p, step, t) = p
        BY <1>2, <3>2
      <3>4. Folded(p, step, Append(t, c)) = step[<<Folded(p, step, t), c>>]
        BY <1>0, FoldedAppend
      <3> QED BY <1>0, <2>1, <3>1, <3>3, <3>4, SplitStepIs, TakesIs
    <2> HIDE DEF All
    <2> QED BY <2>1, <2>4
  <1>3. Seq(Codes) \subseteq Good
    <2> HIDE DEF Good
    <2> QED BY <1>1, <1>2, SeqInduction
  <1> QED BY <1>0, <1>3

\* Passing over what is not there.
LEMMA NothingPassed ==
  ASSUME NEW p \in Pieces, NEW passed, NEW u \in Seq(Codes),
         \A i \in 1 .. Len(u) : u[i] \notin passed
  PROVE  Folded(p, SplitStep(passed), u) = Folded(p, SplitStep({}), u)
  <1>0. PICK step : step = SplitStep(passed) /\ StepOn(step, Pieces, Codes)
    BY SplitStepIs
  <1>01. PICK none : none = SplitStep({}) /\ StepOn(none, Pieces, Codes)
    BY SplitStepIs
  <1> DEFINE All(t) == \A i \in 1 .. Len(t) : t[i] \notin passed
             Good == {t \in Seq(Codes) : All(t) => Folded(p, step, t) = Folded(p, none, t)}
  <1>1. <<>> \in Good
    <2>1. Folded(p, step, <<>>) = p /\ Folded(p, none, <<>>) = p
      BY <1>0, <1>01, FoldedNone
    <2> QED BY <2>1, EmptySeq
  <1>2. ASSUME NEW t \in Seq(Codes), NEW c \in Codes, t \in Good PROVE Append(t, c) \in Good
    <2>1. PICK v \in Seq(Codes) : v = Append(t, c)
      BY AppendProperties
    <2>2. PICK n \in Nat : n = Len(t)
      OBVIOUS
    <2>3. Len(v) = n + 1 /\ v[n + 1] = c /\ \A i \in 1 .. n : v[i] = t[i]
      BY <2>1, <2>2, AppendProperties
    <2>4. ASSUME All(v) PROVE Folded(p, step, v) = Folded(p, none, v)
      <3>1. c \notin passed
        <4>1. n + 1 \in 1 .. Len(v)
          BY <2>3
        <4> QED BY <2>3, <2>4, <4>1
      <3>2. All(t)
        <4>1. \A i \in 1 .. n : i \in 1 .. Len(v)
          BY <2>3
        <4> QED BY <2>2, <2>3, <2>4, <4>1
      <3>3. Folded(p, step, t) = Folded(p, none, t)
        BY <1>2, <3>2
      <3>4. Folded(p, step, Append(t, c)) = step[<<Folded(p, step, t), c>>]
        BY <1>0, FoldedAppend
      <3>5. Folded(p, none, Append(t, c)) = none[<<Folded(p, none, t), c>>]
        BY <1>01, FoldedAppend
      <3>6. PICK q \in Pieces : q = Folded(p, none, t)
        BY <1>01, FoldedType
      <3>7. step[<<q, c>>] = Takes(q, c, passed) /\ none[<<q, c>>] = Takes(q, c, {})
        BY <1>0, <1>01, SplitStepIs
      <3>8. Takes(q, c, passed) = Takes(q, c, {})
        BY <3>1 DEF Takes
      <3> QED BY <2>1, <3>3, <3>4, <3>5, <3>6, <3>7, <3>8
    <2> HIDE DEF All
    <2> QED BY <2>1, <2>4
  <1>3. Seq(Codes) \subseteq Good
    <2> HIDE DEF Good
    <2> QED BY <1>1, <1>2, SeqInduction
  <1> QED BY <1>0, <1>01, <1>3

\* Both ways to leave white space out give the same parts of a text that has it
\* at its ends only.
LEMMA SplitTrimmed ==
  ASSUME NEW s \in Seq(Codes),
         \A i \in 1 .. Len(Trimmed(s, {Blank})) : Trimmed(s, {Blank})[i] # Blank
  PROVE  Split(s, {Blank}) = Split(Trimmed(s, {Blank}), {})
  <1>0. PICK step : step = SplitStep({Blank}) /\ StepOn(step, Pieces, Codes)
    BY SplitStepIs
  <1>01. PICK space : space = {Blank}
    OBVIOUS
  <1>02. PICK pre \in Seq(Codes), mid \in Seq(Codes), post \in Seq(Codes) :
           /\ s = (pre \o mid) \o post /\ mid = Trimmed(s, space)
           /\ \A i \in 1 .. Len(pre) : pre[i] \in space
           /\ \A i \in 1 .. Len(post) : post[i] \in space
           /\ mid = <<>> \/ (mid[1] \notin space /\ mid[Len(mid)] \notin space)
    BY TrimmedParts
  <1>1. /\ s = (pre \o mid) \o post /\ mid = Trimmed(s, {Blank})
        /\ \A i \in 1 .. Len(pre) : pre[i] \in {Blank}
        /\ \A i \in 1 .. Len(post) : post[i] \in {Blank}
    BY <1>01, <1>02
  <1>2. PICK v \in Seq(Codes) : v = pre \o mid
    BY ConcatProperties
  <1>3. PICK p \in Pieces : p = Folded(OnePart, step, mid)
    BY <1>0, OnePartIs, FoldedType
  <1>4. Folded(OnePart, step, pre \o mid) = Folded(Folded(OnePart, step, pre), step, mid)
    BY <1>0, OnePartIs, FoldedConcat
  <1>5. Folded(OnePart, step, pre) = OnePart
    BY <1>0, <1>1, OnePartIs, PassedOver
  <1>6. Folded(OnePart, step, v \o post) = Folded(Folded(OnePart, step, v), step, post)
    BY <1>0, OnePartIs, FoldedConcat
  <1>7. Folded(p, step, post) = p
    BY <1>0, <1>1, PassedOver
  <1>8. Folded(OnePart, step, s) = p
    BY <1>1, <1>2, <1>3, <1>4, <1>5, <1>6, <1>7
  <1>9. p = Folded(OnePart, SplitStep({}), mid)
    <2>1. \A i \in 1 .. Len(mid) : mid[i] \notin {Blank}
      BY <1>1
    <2> QED BY <1>0, <1>3, <2>1, OnePartIs, NothingPassed
  <1>10. Split(s, {Blank}) = p
    BY <1>0, <1>8, SplitIs
  <1>11. Split(mid, {}) = Folded(OnePart, SplitStep({}), mid)
    BY SplitIs
  <1> QED BY <1>1, <1>9, <1>10, <1>11

\* Without white space of the kinds the client does not know, both trim alike.
LEMMA TrimmedAlike ==
  ASSUME NEW s \in Seq(Codes), ~Contains(s, Wide)
  PROVE  Trimmed(s, {Blank, Wide}) = Trimmed(s, {Blank})
  <1>1. \A i \in DOMAIN s : s[i] # Wide
    BY DEF Contains
  <1>2. {i \in DOMAIN s : s[i] \notin {Blank, Wide}} = {i \in DOMAIN s : s[i] \notin {Blank}}
    BY <1>1
  <1> DEFINE Cut(inner) == IF inner = {} THEN <<>>
                         ELSE SubSeq(s, CHOOSE i \in inner : \A j \in inner : i <= j,
                                        CHOOSE i \in inner : \A j \in inner : j <= i)
  <1>3. \A space : Trimmed(s, space) = Cut({i \in DOMAIN s : s[i] \notin space})
    BY DEF Trimmed
  <1> HIDE DEF Cut
  <1> QED BY <1>2, <1>3

\* Such a character stands in some part.
HasWide(p) == \E j \in 1 .. Len(p) : \E k \in 1 .. Len(p[j]) : p[j][k] = Wide

LEMMA TakesWide ==
  ASSUME NEW p \in Pieces, NEW c \in Codes, c = Wide \/ HasWide(p)
  PROVE  HasWide(Takes(p, c, {Blank}))
  <1>1. PICK n \in Nat : /\ p \in Seq(Seq(Codes)) /\ Len(p) = n /\ n \in 1 .. n
                         /\ DOMAIN p = 1 .. n
    <2>1. p \in Seq(Seq(Codes)) /\ Len(p) # 0
      BY EmptySeq DEF Pieces
    <2> QED BY <2>1
  <1>2. CASE c = Blank
    <2>1. c # Wide /\ Takes(p, c, {Blank}) = p
      BY <1>2, TakesIs DEF Blank, Wide
    <2> QED BY <2>1
  <1>3. CASE c = Dash
    <2>1. c # Wide /\ Takes(p, c, {Blank}) = Append(p, <<>>)
      BY <1>3, TakesIs DEF Blank, Wide, Dash
    <2>2. PICK j \in 1 .. n : \E k \in 1 .. Len(p[j]) : p[j][k] = Wide
      BY <1>1, <2>1 DEF HasWide
    <2>3. PICK q : q = Append(p, <<>>)
      OBVIOUS
    <2>4. Len(q) = n + 1 /\ \A i \in 1 .. n : q[i] = p[i]
      <3>1. <<>> \in Seq(Codes)
        BY EmptySeq
      <3> QED BY <1>1, <2>3, <3>1, AppendProperties
    <2>5. j \in 1 .. Len(q) /\ q[j] = p[j]
      BY <1>1, <2>4
    <2> QED BY <2>1, <2>2, <2>3, <2>5 DEF HasWide
  <1>4. CASE c \notin {Blank, Dash}
    <2>1. Takes(p, c, {Blank}) = [p EXCEPT ![n] = Append(@, c)]
      <3>1. PICK passed : passed = {Blank}
        OBVIOUS
      <3>2. c \notin passed /\ c # Dash
        BY <1>4, <3>1
      <3>3. Takes(p, c, passed) = [p EXCEPT ![Len(p)] = Append(@, c)]
        BY <3>2, TakesIs
      <3> QED BY <1>1, <3>1, <3>3
    <2>2. PICK q : q = [p EXCEPT ![n] = Append(@, c)]
      OBVIOUS
    <2>3. PICK u \in Seq(Codes) : u = p[n]
      BY <1>1, ElementOfSeq
    <2>4. PICK v : v = Append(u, c)
      OBVIOUS
    <2>5. /\ q[n] = v /\ Len(q) = n /\ \A i \in 1 .. n : i # n => q[i] = p[i]
      BY <1>1, <2>2, <2>3, <2>4
    <2>6. Len(v) = Len(u) + 1 /\ v[Len(u) + 1] = c /\ \A i \in 1 .. Len(u) : v[i] = u[i]
      BY <2>3, <2>4, AppendProperties
    <2>7. Len(u) \in Nat
      BY <2>3
    <2>8. CASE c = Wide
      <3>1. Len(u) + 1 \in 1 .. Len(v) /\ v[Len(u) + 1] = Wide
        BY <2>6, <2>7, <2>8
      <3>2. HasWide(q)
        BY <1>1, <2>5, <3>1 DEF HasWide
      <3> QED BY <2>1, <2>2, <3>2
    <2>9. CASE HasWide(p)
      <3>1. PICK j \in 1 .. n : \E k \in 1 .. Len(p[j]) : p[j][k] = Wide
        BY <1>1, <2>9 DEF HasWide
      <3>2. CASE j = n
        <4>1. PICK k \in 1 .. Len(u) : u[k] = Wide
          BY <2>3, <3>1, <3>2
        <4>2. k \in 1 .. Len(v) /\ v[k] = Wide
          BY <2>6, <2>7, <4>1
        <4>3. HasWide(q)
          BY <1>1, <2>5, <4>2 DEF HasWide
        <4> QED BY <2>1, <2>2, <4>3
      <3>3. CASE j # n
        <4>1. q[j] = p[j] /\ j \in 1 .. Len(q)
          BY <2>5, <3>3
        <4>2. HasWide(q)
          BY <3>1, <4>1 DEF HasWide
        <4> QED BY <2>1, <2>2, <4>2
      <3> QED BY <3>2, <3>3
    <2> QED BY <2>8, <2>9
  <1> QED BY <1>2, <1>3, <1>4

LEMMA WideStays ==
  ASSUME NEW s \in Seq(Codes), Contains(s, Wide)
  PROVE  HasWide(Split(s, {Blank}))
  <1>0. PICK step : step = SplitStep({Blank}) /\ StepOn(step, Pieces, Codes)
    BY SplitStepIs
  <1> DEFINE Some(t) == \E i \in 1 .. Len(t) : t[i] = Wide
             Good == {t \in Seq(Codes) : Some(t) => HasWide(Folded(OnePart, step, t))}
  <1>1. <<>> \in Good
    <2>1. PICK t \in Seq(Codes) : t = <<>> /\ Len(t) = 0
      BY EmptySeq
    <2>2. ~Some(t)
      BY <2>1
    <2> QED BY <2>1, <2>2
  <1>2. ASSUME NEW t \in Seq(Codes), NEW c \in Codes, t \in Good PROVE Append(t, c) \in Good
    <2>1. PICK v \in Seq(Codes) : v = Append(t, c)
      BY AppendProperties
    <2>2. PICK n \in Nat : n = Len(t)
      OBVIOUS
    <2>3. Len(v) = n + 1 /\ v[n + 1] = c /\ \A i \in 1 .. n : v[i] = t[i]
      BY <2>1, <2>2, AppendProperties
    <2>4. ASSUME Some(v) PROVE HasWide(Folded(OnePart, step, v))
      <3>1. PICK i \in 1 .. n + 1 : v[i] = Wide
        BY <2>3, <2>4
      <3>2. i = n + 1 \/ i \in 1 .. n
        OBVIOUS
      <3>3. c = Wide \/ Some(t)
        BY <2>2, <2>3, <3>1, <3>2
      <3>4. PICK p \in Pieces : p = Folded(OnePart, step, t)
        BY <1>0, OnePartIs, FoldedType
      <3>5. c = Wide \/ HasWide(p)
        BY <1>2, <3>3, <3>4
      <3>6. Folded(OnePart, step, Append(t, c)) = step[<<p, c>>]
        <4>1. StepOn(step, Pieces, Codes)
          BY <1>0
        <4>2. Folded(OnePart, step, Append(t, c)) = step[<<Folded(OnePart, step, t), c>>]
          BY <4>1, OnePartIs, FoldedAppend
        <4> QED BY <3>4, <4>2
      <3>7. step[<<p, c>>] = Takes(p, c, {Blank})
        BY <1>0, SplitStepIs
      <3> QED BY <2>1, <3>5, <3>6, <3>7, TakesWide
    <2> HIDE DEF Some
    <2> QED BY <2>1, <2>4
  <1>3. Seq(Codes) \subseteq Good
    <2> HIDE DEF Good
    <2> QED BY <1>1, <1>2, SeqInduction
  <1>4. Some(s)
    BY DEF Contains
  <1>5. HasWide(Folded(OnePart, step, s))
    BY <1>3, <1>4
  <1>6. Split(s, {Blank}) = Folded(OnePart, step, s)
    BY <1>0, SplitIs
  <1> QED BY <1>5, <1>6

\* No license has it.
LEMMA WideBreaks ==
  ASSUME NEW s \in Seq(Codes), Contains(s, Wide)
  PROVE  ~Layout(Split(s, {Blank}))
  <1>1. PICK p : p = Split(s, {Blank})
    OBVIOUS
  <1>21. PICK j \in 1 .. Len(p) : \E l \in 1 .. Len(p[j]) : p[j][l] = Wide
    BY <1>1, WideStays DEF HasWide
  <1>2. PICK k \in 1 .. Len(p[j]) : p[j][k] = Wide
    BY <1>21
  <1>3. SUFFICES ASSUME Layout(p) PROVE FALSE
    BY <1>1
  <1>4. PICK u : u = p[j]
    OBVIOUS
  <1>5. j = 1 \/ j \in 2 .. 6
    BY <1>3 DEF Layout
  <1>6. CASE j = 1
    <2>1. u = <<17, 6, 30>>
      BY <1>3, <1>4, <1>6 DEF Layout, LICENSE_PREFIX
    <2>2. k \in 1 .. 3 /\ u[k] = 35
      BY <1>2, <1>4, <2>1 DEF Wide
    <2> QED BY <2>1, <2>2
  <1>7. CASE j \in 2 .. 6
    <2>1. Len(u) = 8 /\ ToSet(u) \subseteq 0 .. 31
      BY <1>3, <1>4, <1>7 DEF Layout
    <2>2. u \in Seq(Codes)
      <3>1. PICK passed : passed = {Blank}
        OBVIOUS
      <3>2. p = Folded(OnePart, SplitStep(passed), s) /\ StepOn(SplitStep(passed), Pieces, Codes)
        BY <1>1, <3>1, SplitIs, SplitStepIs
      <3>3. p \in Pieces
        BY <3>2, OnePartIs, FoldedType
      <3> QED BY <1>2, <1>4, <3>3, ElementOfSeq DEF Pieces
    <2>3. u[k] \in ToSet(u)
      BY <1>2, <1>4, <2>2 DEF ToSet
    <2>4. u[k] = 35
      BY <1>2, <1>4 DEF Wide
    <2>5. u[k] \in 0 .. 31
      BY <2>1, <2>3
    <2> QED BY <2>4, <2>5
  <1> QED BY <1>5, <1>6, <1>7

-----------------------------------------------------------------------------
(***************************************************************************)
(* The 25 bytes of a license.                                              *)
(***************************************************************************)
Bytes == 0 .. 255

\* Byte k of a keyed hash.
HashStep(k) == [p \in Bytes \X Codes |-> (p[1] * (2 * k + 5) + p[2] + 1) % 256]

ParityStep == [p \in Bytes \X Bytes |-> p[1] ^^ p[2]]

LEMMA HashStepIs ==
  ASSUME NEW k \in Nat
  PROVE  /\ StepOn(HashStep(k), Bytes, Codes)
         /\ \A x \in Bytes, y \in Codes :
              HashStep(k)[<<x, y>>] = (x * (2 * k + 5) + y + 1) % 256
  <1>1. ASSUME NEW x \in Bytes, NEW y \in Codes
        PROVE  (x * (2 * k + 5) + y + 1) % 256 \in Bytes
    <2>1. PICK m \in Nat : m = 2 * k + 5
      OBVIOUS
    <2>2. PICK u \in Nat : u = x * m
      BY DEF Bytes
    <2>3. u + y + 1 \in Nat
      BY DEF Codes
    <2> QED BY <2>1, <2>2, <2>3 DEF Bytes
  <1> QED BY <1>1 DEF StepOn, HashStep

LEMMA ParityStepIs ==
  /\ StepOn(ParityStep, Bytes, Bytes)
  /\ \A x \in Bytes, y \in Bytes : ParityStep[<<x, y>>] = x ^^ y
  <1>1. ASSUME NEW x \in Bytes, NEW y \in Bytes
        PROVE  x ^^ y \in Bytes
    <2>1. 8 \in Nat /\ Bytes = 0 .. Power[8] - 1
      BY SmallPowers DEF Bytes
    <2> QED BY <2>1, XorBelow
  <1> QED BY <1>1 DEF StepOn, ParityStep

\* A byte of a keyed hash depends on the key and on every byte of the data.
LEMMA HashAt ==
  ASSUME NEW key \in Bytes, NEW data \in Seq(Codes), NEW size \in Nat, NEW k \in 1 .. size
  PROVE  Hash(key, data, size)[k] = Folded(key, HashStep(k), data)
  <1>8. k \in Nat
    OBVIOUS
  <1> DEFINE Loop(g) ==
               [P \in SUBSET DOMAIN data |->
                  IF P = {} THEN key
                  ELSE (g[P \ {Max(P)}] * (2 * k + 5) + data[Max(P)] + 1) % 256]
  <1>0. key \in Bytes /\ StepOn(HashStep(k), Bytes, Codes)
    BY <1>8, HashStepIs
  <1>1. PICK g : Iterates(g, key, HashStep(k), data) /\ g \in [SUBSET DOMAIN data -> Bytes]
    BY <1>0, FoldExists
  <1>2. g = Loop(g)
    <2>1. ASSUME NEW P \in SUBSET DOMAIN data, P # {}
          PROVE  HashStep(k)[<<g[P \ {Max(P)}], data[Max(P)]>>] = (g[P \ {Max(P)}] * (2 * k + 5) + data[Max(P)] + 1) % 256
      <3>1. g[P \ {Max(P)}] \in Bytes /\ data[Max(P)] \in Codes
        BY <1>1, <2>1, MaxIn
      <3> QED BY <3>1, <1>8, HashStepIs
    <2> QED BY <1>1, <2>1, ZenonT(60) DEF Iterates
  <1>3. PICK it : it = CHOOSE h : h = Loop(h)
    OBVIOUS
  <1>4. it = Loop(it)
    <2> HIDE DEF Loop
    <2> QED BY <1>2, <1>3
  <1>5. Hash(key, data, size)[k] = it[DOMAIN data]
    BY <1>3 DEF Hash, FoldLeft, MapThenFoldSet
  <1>6. GoesBy(it, Bytes, key, HashStep(k), data)
    <2>1. it[{}] = key
      BY <1>4
    <2>2. ASSUME NEW P \in SUBSET DOMAIN data, P # {}, it[P \ {Max(P)}] \in Bytes
          PROVE  it[P] = HashStep(k)[<<it[P \ {Max(P)}], data[Max(P)]>>]
      <3>1. data[Max(P)] \in Codes
        BY <2>2, MaxIn
      <3>2. it[P] = (it[P \ {Max(P)}] * (2 * k + 5) + data[Max(P)] + 1) % 256
        BY <1>4, <2>2
      <3>3. PICK x \in Bytes, y \in Codes : x = it[P \ {Max(P)}] /\ y = data[Max(P)]
        BY <2>2, <3>1
      <3>4. HashStep(k)[<<x, y>>] = (x * (2 * k + 5) + y + 1) % 256
        BY <1>8, HashStepIs
      <3> QED BY <3>2, <3>3, <3>4, Zenon
    <2> QED BY <2>1, <2>2 DEF GoesBy
  <1>7. it[1 .. Len(data)] = Folded(key, HashStep(k), data)
    BY <1>0, <1>6, FoldIs
  <1> QED BY <1>5, <1>7

LEMMA ZeroIsByte == 0 \in Bytes
  BY DEF Bytes

LEMMA ParityIs ==
  ASSUME NEW bytes \in Seq(Bytes)
  PROVE  Parity(bytes) = Folded(0, ParityStep, bytes)
  <1> DEFINE Loop(g) ==
               [P \in SUBSET DOMAIN bytes |->
                  IF P = {} THEN 0
                  ELSE g[P \ {Max(P)}] ^^ bytes[Max(P)]]
  <1>0. 0 \in Bytes /\ StepOn(ParityStep, Bytes, Bytes)
    BY ParityStepIs, ZeroIsByte
  <1>1. PICK g : Iterates(g, 0, ParityStep, bytes) /\ g \in [SUBSET DOMAIN bytes -> Bytes]
    BY <1>0, FoldExists
  <1>2. g = Loop(g)
    <2>1. ASSUME NEW P \in SUBSET DOMAIN bytes, P # {}
          PROVE  ParityStep[<<g[P \ {Max(P)}], bytes[Max(P)]>>] = g[P \ {Max(P)}] ^^ bytes[Max(P)]
      <3>1. g[P \ {Max(P)}] \in Bytes /\ bytes[Max(P)] \in Bytes
        BY <1>1, <2>1, MaxIn
      <3> QED BY <3>1, ParityStepIs
    <2> QED BY <1>1, <2>1 DEF Iterates
  <1>3. PICK it : it = CHOOSE h : h = Loop(h)
    OBVIOUS
  <1>4. it = Loop(it)
    <2> HIDE DEF Loop
    <2> QED BY <1>2, <1>3
  <1>5. Parity(bytes) = it[DOMAIN bytes]
    BY <1>3 DEF Parity, FoldLeft, MapThenFoldSet
  <1>6. GoesBy(it, Bytes, 0, ParityStep, bytes)
    <2>1. it[{}] = 0
      BY <1>4
    <2>2. ASSUME NEW P \in SUBSET DOMAIN bytes, P # {}, it[P \ {Max(P)}] \in Bytes
          PROVE  it[P] = ParityStep[<<it[P \ {Max(P)}], bytes[Max(P)]>>]
      <3>1. bytes[Max(P)] \in Bytes
        BY <2>2, MaxIn
      <3>2. it[P] = it[P \ {Max(P)}] ^^ bytes[Max(P)]
        BY <1>4, <2>2
      <3> QED BY <2>2, <3>1, <3>2, ParityStepIs
    <2> QED BY <2>1, <2>2 DEF GoesBy
  <1>7. it[1 .. Len(bytes)] = Folded(0, ParityStep, bytes)
    BY <1>0, <1>6, FoldIs
  <1> QED BY <1>5, <1>7

LEMMA HashIs ==
  ASSUME NEW key \in Bytes, NEW data \in Seq(Codes), NEW size \in Nat
  PROVE  Hash(key, data, size) \in Seq(Bytes) /\ Len(Hash(key, data, size)) = size
  <1>1. PICK h : h = Hash(key, data, size)
    OBVIOUS
  <1>2. h = [k \in 1 .. size |-> h[k]]
    <2> DEFINE F(k) ==
                 FoldLeft(LAMBDA acc, b : (acc * (2 * k + 5) + b + 1) % 256, key, data)
    <2>1. h = [k \in 1 .. size |-> F(k)]
      BY <1>1 DEF Hash
    <2> HIDE DEF F
    <2> QED BY <2>1
  <1>3. ASSUME NEW k \in 1 .. size PROVE h[k] \in Bytes
    <2>1. h[k] = Folded(key, HashStep(k), data)
      BY <1>1, HashAt
    <2>2. k \in Nat
      OBVIOUS
    <2>3. StepOn(HashStep(k), Bytes, Codes)
      BY <2>2, HashStepIs
    <2> QED BY <2>1, <2>3, FoldedType
  <1>4. h \in [1 .. size -> Bytes]
    BY <1>2, <1>3
  <1> HIDE DEF Bytes
  <1> QED BY <1>1, <1>4

LEMMA ParityByte ==
  ASSUME NEW bytes \in Seq(Bytes)
  PROVE  Parity(bytes) \in Bytes
  BY ParityIs, ParityStepIs, ZeroIsByte, FoldedType

LEMMA BytesAreCodes == Bytes \subseteq Codes /\ Seq(Bytes) \subseteq Seq(Codes)
  <1>1. Bytes \subseteq Codes
    BY DEF Bytes, Codes
  <1> HIDE DEF Bytes, Codes
  <1> QED BY <1>1

\* r is s and then t; what that says of its bytes and slices.
Joins(r, s, t) == r = s \o t

Fits(r, s, t) ==
  /\ r \in Seq(Bytes) /\ Len(r) = Len(s) + Len(t)
  /\ \A i \in 1 .. Len(s) : r[i] = s[i]
  /\ \A i \in 1 .. Len(t) : r[Len(s) + i] = t[i]
  /\ \A i, j \in 1 .. Len(s) : SubSeq(r, i, j) = SubSeq(s, i, j)
  /\ Len(s) > 0 => SubSeq(r, 1, Len(s)) = s
  /\ Len(t) > 0 => SubSeq(r, Len(s) + 1, Len(s) + Len(t)) = t

LEMMA JoinsIs ==
  ASSUME NEW s \in Seq(Bytes), NEW t \in Seq(Bytes), NEW r, Joins(r, s, t)
  PROVE  Fits(r, s, t)
  <1>0. /\ s \o t \in Seq(Bytes) /\ Len(s \o t) = Len(s) + Len(t)
        /\ \A i \in 1 .. Len(s) + Len(t) : (s \o t)[i] = IF i <= Len(s) THEN s[i] ELSE t[i - Len(s)]
    BY ConcatProperties
  <1>5. \A i \in 1 .. Len(s) : (s \o t)[i] = s[i]
    BY <1>0
  <1>6. \A i \in 1 .. Len(t) : (s \o t)[Len(s) + i] = t[i]
    BY <1>0
  <1>1. \A i, j \in 1 .. Len(s) : SubSeq(s \o t, i, j) = SubSeq(s, i, j)
    BY SubSeqOfConcat1
  <1>2. SubSeq(s, 1, Len(s)) = s /\ SubSeq(t, 1, Len(t)) = t
    BY SubSeqFull
  <1>3. ASSUME Len(t) > 0 PROVE SubSeq(s \o t, Len(s) + 1, Len(s) + Len(t)) = t
    <2>1. PICK m, n : m = Len(s) + 1 /\ n = Len(s) + Len(t)
      OBVIOUS
    <2>2. /\ m \in Len(s) + 1 .. Len(s) + Len(t) /\ n \in Len(s) + 1 .. Len(s) + Len(t)
          /\ m - Len(s) = 1 /\ n - Len(s) = Len(t)
      BY <1>3, <2>1
    <2>3. SubSeq(s \o t, m, n) = SubSeq(t, m - Len(s), n - Len(s))
      BY <2>2, SubSeqOfConcat2
    <2> QED BY <1>2, <2>1, <2>2, <2>3
  <1>4. Len(s) > 0 => SubSeq(s \o t, 1, Len(s)) = s
    BY <1>1, <1>2
  <1> QED BY <1>0, <1>1, <1>3, <1>4, <1>5, <1>6 DEF Joins, Fits

OfSize(s, n) == s \in Seq(Bytes) /\ Len(s) = n

\* r, of length k, is cut in two after m.
Halves(r, s, t, m, k) ==
  /\ OfSize(r, k) /\ r[m + 1] = t[1]
  /\ SubSeq(r, 1, m) = s /\ SubSeq(r, m + 1, k) = t

LEMMA FitsParts ==
  ASSUME NEW r, NEW s, NEW t, NEW m \in Nat \ {0}, NEW n \in Nat \ {0}, NEW k,
         OfSize(s, m), OfSize(t, n), Fits(r, s, t), k = m + n
  PROVE  Halves(r, s, t, m, k)
  <1>1. Len(s) = m /\ Len(t) = n
    BY DEF OfSize
  <1>2. OfSize(r, k)
    BY <1>1 DEF Fits, OfSize
  <1>3. r[m + 1] = t[1]
    <2>1. \A i \in 1 .. n : r[m + i] = t[i]
      BY <1>1 DEF Fits
    <2>2. 1 \in 1 .. n
      OBVIOUS
    <2> QED BY <2>1, <2>2
  <1>4. m > 0 /\ n > 0
    OBVIOUS
  <1>5. SubSeq(r, 1, m) = s
    BY <1>1, <1>4 DEF Fits
  <1>6. SubSeq(r, m + 1, m + n) = t
    BY <1>1, <1>4 DEF Fits
  <1> QED BY <1>2, <1>3, <1>5, <1>6 DEF Halves

\* r has the slice of s from i to j, and the byte at i.
Shares(r, s, i, j) == r[i] = s[i] /\ SubSeq(r, i, j) = SubSeq(s, i, j)

LEMMA FitsShares ==
  ASSUME NEW r, NEW s, NEW t, NEW m \in Nat, NEW i \in 1 .. m, NEW j \in 1 .. m,
         OfSize(s, m), Fits(r, s, t)
  PROVE  Shares(r, s, i, j)
  <1>1. Len(s) = m
    BY DEF OfSize
  <1>2. r[i] = s[i]
    BY <1>1 DEF Fits
  <1>3. SubSeq(r, i, j) = SubSeq(s, i, j)
    BY <1>1 DEF Fits
  <1> QED BY <1>2, <1>3 DEF Shares

\* What is put together from parts has each of them in its place.
Assembled(one, fragment, s1, s2, parity, s3, ck, p17, p21, lic) ==
  \E a, b, c :
    /\ Joins(a, one, fragment) /\ Joins(b, a, s1) /\ Joins(p17, b, s2)
    /\ Joins(c, p17, parity) /\ Joins(p21, c, s3)
    /\ Joins(lic, p21, ck)

LEMMA JoinsFits ==
  ASSUME NEW r, NEW s, NEW t, NEW m, NEW n, OfSize(s, m), OfSize(t, n), Joins(r, s, t)
  PROVE  Fits(r, s, t)
  BY JoinsIs DEF OfSize

LEMMA LicenseParts ==
  ASSUME NEW one, NEW fragment, NEW s1, NEW s2, NEW parity, NEW s3, NEW ck,
         NEW p17, NEW p21, NEW lic,
         OfSize(one, 1), OfSize(fragment, 4), OfSize(s1, 8), OfSize(s2, 4),
         OfSize(parity, 1), OfSize(s3, 3), OfSize(ck, 4),
         Assembled(one, fragment, s1, s2, parity, s3, ck, p17, p21, lic)
  PROVE  /\ lic \in Seq(Bytes)
         /\ Len(lic) = 25
         /\ lic[1] = one[1] /\ lic[18] = parity[1]
         /\ SubSeq(lic, 2, 5) = fragment
         /\ SubSeq(lic, 1, 17) = p17
         /\ SubSeq(lic, 1, 21) = p21 /\ SubSeq(lic, 22, 25) = ck
  <1>0. PICK a, b, c :
          /\ Joins(a, one, fragment) /\ Joins(b, a, s1) /\ Joins(p17, b, s2)
          /\ Joins(c, p17, parity) /\ Joins(p21, c, s3)
          /\ Joins(lic, p21, ck)
    BY DEF Assembled
  <1>1. Fits(a, one, fragment)
    BY <1>0, JoinsFits
  <1>2. OfSize(a, 5) /\ SubSeq(a, 1, 1) = one /\ SubSeq(a, 1 + 1, 5) = fragment
    <2>1. 1 \in Nat \ {0} /\ 4 \in Nat \ {0} /\ 5 = 1 + 4
      OBVIOUS
    <2>2. Halves(a, one, fragment, 1, 5)
      BY <1>1, <2>1, FitsParts
    <2> QED BY <2>2 DEF Halves
  <1>3. a[1] = one[1] /\ SubSeq(a, 2, 5) = fragment
    <2>1. Shares(a, one, 1, 1)
      <3>1. 1 \in Nat /\ 1 \in 1 .. 1
        OBVIOUS
      <3> QED BY <1>1, <3>1, FitsShares
    <2> QED BY <1>2, <2>1 DEF Shares
  <1>4. Fits(b, a, s1)
    BY <1>0, <1>2, JoinsFits
  <1>5. OfSize(b, 13)
    <2>1. 5 \in Nat \ {0} /\ 8 \in Nat \ {0} /\ 13 = 5 + 8
      OBVIOUS
    <2>2. Halves(b, a, s1, 5, 13)
      BY <1>2, <1>4, <2>1, FitsParts
    <2> QED BY <2>2 DEF Halves
  <1>6. Shares(b, a, 1, 5) /\ Shares(b, a, 2, 5)
    <2>1. 5 \in Nat /\ 1 \in 1 .. 5 /\ 2 \in 1 .. 5 /\ 5 \in 1 .. 5
      OBVIOUS
    <2> QED BY <1>2, <1>4, <2>1, FitsShares
  <1>7. Fits(p17, b, s2)
    BY <1>0, <1>5, JoinsFits
  <1>8. OfSize(p17, 17)
    <2>1. 13 \in Nat \ {0} /\ 4 \in Nat \ {0} /\ 17 = 13 + 4
      OBVIOUS
    <2>2. Halves(p17, b, s2, 13, 17)
      BY <1>5, <1>7, <2>1, FitsParts
    <2> QED BY <2>2 DEF Halves
  <1>9. Shares(p17, b, 1, 5) /\ Shares(p17, b, 2, 5)
    <2>1. 13 \in Nat /\ 1 \in 1 .. 13 /\ 2 \in 1 .. 13 /\ 5 \in 1 .. 13
      OBVIOUS
    <2> QED BY <1>5, <1>7, <2>1, FitsShares
  <1>10. Fits(c, p17, parity)
    BY <1>0, <1>8, JoinsFits
  <1>11. OfSize(c, 18) /\ c[17 + 1] = parity[1] /\ SubSeq(c, 1, 17) = p17
    <2>1. 17 \in Nat \ {0} /\ 1 \in Nat \ {0} /\ 18 = 17 + 1
      OBVIOUS
    <2>2. Halves(c, p17, parity, 17, 18)
      BY <1>8, <1>10, <2>1, FitsParts
    <2> QED BY <2>2 DEF Halves
  <1>12. Shares(c, p17, 1, 5) /\ Shares(c, p17, 2, 5)
    <2>1. 17 \in Nat /\ 1 \in 1 .. 17 /\ 2 \in 1 .. 17 /\ 5 \in 1 .. 17
      OBVIOUS
    <2> QED BY <1>8, <1>10, <2>1, FitsShares
  <1>13. Fits(p21, c, s3)
    BY <1>0, <1>11, JoinsFits
  <1>14. OfSize(p21, 21)
    <2>1. 18 \in Nat \ {0} /\ 3 \in Nat \ {0} /\ 21 = 18 + 3
      OBVIOUS
    <2>2. Halves(p21, c, s3, 18, 21)
      BY <1>11, <1>13, <2>1, FitsParts
    <2> QED BY <2>2 DEF Halves
  <1>15. Shares(p21, c, 1, 17) /\ Shares(p21, c, 18, 18) /\ Shares(p21, c, 2, 5)
    <2>1. /\ 18 \in Nat /\ 1 \in 1 .. 18 /\ 17 \in 1 .. 18 /\ 18 \in 1 .. 18
          /\ 2 \in 1 .. 18 /\ 5 \in 1 .. 18
      OBVIOUS
    <2> QED BY <1>11, <1>13, <2>1, FitsShares
  <1>16. Fits(lic, p21, ck)
    BY <1>0, <1>14, JoinsFits
  <1>17. OfSize(lic, 25) /\ SubSeq(lic, 1, 21) = p21 /\ SubSeq(lic, 21 + 1, 25) = ck
    <2>1. 21 \in Nat \ {0} /\ 4 \in Nat \ {0} /\ 25 = 21 + 4
      OBVIOUS
    <2>2. Halves(lic, p21, ck, 21, 25)
      BY <1>14, <1>16, <2>1, FitsParts
    <2> QED BY <2>2 DEF Halves
  <1>18. Shares(lic, p21, 1, 17) /\ Shares(lic, p21, 18, 18) /\ Shares(lic, p21, 2, 5)
    <2>1. /\ 21 \in Nat /\ 1 \in 1 .. 21 /\ 17 \in 1 .. 21 /\ 18 \in 1 .. 21
          /\ 2 \in 1 .. 21 /\ 5 \in 1 .. 21
      OBVIOUS
    <2> QED BY <1>14, <1>16, <2>1, FitsShares
  <1>19. lic[1] = one[1]
    BY <1>3, <1>6, <1>9, <1>12, <1>15, <1>18 DEF Shares
  <1>20. lic[18] = parity[1]
    BY <1>11, <1>15, <1>18 DEF Shares
  <1>21. SubSeq(lic, 2, 5) = fragment
    BY <1>3, <1>6, <1>9, <1>12, <1>15, <1>18 DEF Shares
  <1>22. SubSeq(lic, 1, 17) = p17
    BY <1>11, <1>15, <1>18 DEF Shares
  <1>23. lic \in Seq(Bytes) /\ Len(lic) = 25
    BY <1>17 DEF OfSize
  <1>24. SubSeq(lic, 22, 25) = ck
    BY <1>17
  <1> QED BY <1>17, <1>19, <1>20, <1>21, <1>22, <1>23, <1>24

\* What is built for a name is validated for it.
LEMMA BuiltIsValid ==
  ASSUME NEW user \in Seq(Codes)
  PROVE  /\ build_license_struct(user) \in Seq(Bytes)
         /\ Len(build_license_struct(user)) = 25
         /\ build_license_struct(user)[1] = LICENSE_VERSION
         /\ validate_license(user, build_license_struct(user))
  <1>1. PICK one : one = <<LICENSE_VERSION>>
    OBVIOUS
  <1>2. PICK fragment : fragment = Fragment(user)
    OBVIOUS
  <1>3. PICK s1, s2, s3 : s1 = Hash(13, user, 8) /\ s2 = Hash(14, user, 4) /\ s3 = Hash(15, user, 3)
    OBVIOUS
  <1>4. PICK a, b, p17 : Joins(a, one, fragment) /\ Joins(b, a, s1) /\ Joins(p17, b, s2)
    BY DEF Joins
  <1>5. PICK parity : parity = <<Parity(p17)>>
    OBVIOUS
  <1>6. PICK c, p21 : Joins(c, p17, parity) /\ Joins(p21, c, s3)
    BY DEF Joins
  <1>7. PICK ck : ck = Checksum(p21)
    OBVIOUS
  <1>8. PICK lic : Joins(lic, p21, ck)
    BY DEF Joins
  <1>9. lic = build_license_struct(user)
    <2>1. p17 = ((one \o fragment) \o s1) \o s2
      BY <1>4 DEF Joins
    <2>2. p21 = (p17 \o parity) \o s3
      BY <1>6 DEF Joins
    <2>3. lic = p21 \o ck
      BY <1>8 DEF Joins
    <2> QED
      BY <1>1, <1>2, <1>3, <1>5, <1>7, <2>1, <2>2, <2>3 DEF build_license_struct
  <1>10. one \in Seq(Bytes) /\ Len(one) = 1 /\ one[1] = LICENSE_VERSION
    BY <1>1 DEF LICENSE_VERSION, Bytes
  <1>11. /\ 11 \in Bytes /\ 12 \in Bytes /\ 13 \in Bytes /\ 14 \in Bytes /\ 15 \in Bytes
         /\ 3 \in Nat /\ 4 \in Nat /\ 8 \in Nat
    BY DEF Bytes
  <1>12. fragment \in Seq(Bytes) /\ Len(fragment) = 4
    BY <1>2, <1>11, HashIs DEF Fragment
  <1>13. s1 \in Seq(Bytes) /\ Len(s1) = 8
    BY <1>3, <1>11, HashIs
  <1>14. s2 \in Seq(Bytes) /\ Len(s2) = 4
    BY <1>3, <1>11, HashIs
  <1>15. s3 \in Seq(Bytes) /\ Len(s3) = 3
    BY <1>3, <1>11, HashIs
  <1>16. p17 \in Seq(Bytes)
    <2>1. a \in Seq(Bytes)
      BY <1>4, <1>10, <1>12, JoinsIs DEF Fits
    <2>2. b \in Seq(Bytes)
      BY <1>4, <1>13, <2>1, JoinsIs DEF Fits
    <2> QED BY <1>4, <1>14, <2>2, JoinsIs DEF Fits
  <1>17. parity \in Seq(Bytes) /\ Len(parity) = 1 /\ parity[1] = Parity(p17)
    <2>1. Parity(p17) \in Bytes
      BY <1>16, ParityByte
    <2> QED BY <1>5, <2>1
  <1>18. p21 \in Seq(Bytes)
    <2>1. c \in Seq(Bytes)
      BY <1>6, <1>16, <1>17, JoinsIs DEF Fits
    <2> QED BY <1>6, <1>15, <2>1, JoinsIs DEF Fits
  <1>19. ck \in Seq(Bytes) /\ Len(ck) = 4
    BY <1>7, <1>11, <1>18, BytesAreCodes, HashIs DEF Checksum
  <1>20. /\ lic \in Seq(Bytes) /\ Len(lic) = 25
         /\ lic[1] = one[1] /\ lic[18] = parity[1]
         /\ SubSeq(lic, 2, 5) = fragment
         /\ SubSeq(lic, 1, 17) = p17
         /\ SubSeq(lic, 1, 21) = p21 /\ SubSeq(lic, 22, 25) = ck
    <2>1. /\ OfSize(one, 1) /\ OfSize(fragment, 4) /\ OfSize(s1, 8) /\ OfSize(s2, 4)
          /\ OfSize(parity, 1) /\ OfSize(s3, 3) /\ OfSize(ck, 4)
      BY <1>10, <1>12, <1>13, <1>14, <1>15, <1>17, <1>19 DEF OfSize
    <2>2. Assembled(one, fragment, s1, s2, parity, s3, ck, p17, p21, lic)
      BY <1>4, <1>6, <1>8 DEF Assembled
    <2> QED BY <2>1, <2>2, LicenseParts
  <1>21. validate_license(user, lic)
    BY <1>2, <1>7, <1>10, <1>17, <1>20 DEF validate_license
  <1> QED BY <1>9, <1>10, <1>20, <1>21

-----------------------------------------------------------------------------
(***************************************************************************)
(* Base32: five bytes as eight characters, and back.                       *)
(***************************************************************************)
\* Bit n of a text whose values have from bits each.
BitAt(values, from, n) == (values[(n \div from) + 1] \div Power[from - 1 - (n % from)]) % 2

Upto(n) == [k \in 1 .. n |-> k]

BitStep(values, from, start, to) ==
  [p \in Codes \X (1 .. to) |-> 2 * p[1] + BitAt(values, from, start + p[2] - 1)]

\* The bits of piece i are bits.
AreBits(values, from, start, to) ==
  \A k \in 1 .. to : BitAt(values, from, start + k - 1) \in 0 .. 1

LEMMA BitStepIs ==
  ASSUME NEW values, NEW from, NEW start \in Nat, NEW to \in Nat, AreBits(values, from, start, to)
  PROVE  StepOn(BitStep(values, from, start, to), Codes, 1 .. to)
  <1>1. ASSUME NEW x \in Codes, NEW y \in 1 .. to
        PROVE  2 * x + BitAt(values, from, start + y - 1) \in Codes
    <2>1. PICK b \in 0 .. 1 : b = BitAt(values, from, start + y - 1)
      BY DEF AreBits
    <2>2. 2 * x + b \in Codes
      BY DEF Codes
    <2> QED BY <2>1, <2>2
  <1> QED BY <1>1 DEF StepOn, BitStep

LEMMA UptoIs ==
  ASSUME NEW n \in Nat
  PROVE  Upto(n) \in Seq(1 .. n) /\ Len(Upto(n)) = n /\ \A k \in 1 .. n : Upto(n)[k] = k
  <1>1. Upto(n) \in [1 .. n -> 1 .. n]
    BY DEF Upto
  <1> QED BY <1>1 DEF Upto

\* How many pieces a text is cut into.
Cuts(values, from, to, n) == n = (Len(values) * from) \div to

\* Piece i of n starts at a bit of a text and is made of bits.
PieceAt(values, from, to, n, i, start) ==
  /\ to \in Nat /\ n \in Nat /\ i \in 1 .. n /\ Cuts(values, from, to, n)
  /\ start \in Nat /\ start = (i - 1) * to /\ AreBits(values, from, start, to)

LEMMA PieceIs ==
  ASSUME NEW values, NEW from, NEW to, NEW n, NEW i, NEW start,
         PieceAt(values, from, to, n, i, start)
  PROVE  Regrouped(values, from, to)[i] = Folded(0, BitStep(values, from, start, to), Upto(to))
  <1> SUFFICES ASSUME to \in Nat, n \in Nat, n = (Len(values) * from) \div to, i \in 1 .. n,
                      AreBits(values, from, (i - 1) * to, to)
               PROVE  Regrouped(values, from, to)[i] =
                        Folded(0, BitStep(values, from, (i - 1) * to, to), Upto(to))
    BY DEF PieceAt, Cuts
  <1>8. PICK step, ks, range :
          step = BitStep(values, from, (i - 1) * to, to) /\ ks = Upto(to) /\ range = 1 .. to
    OBVIOUS
  <1>9. /\ 0 \in Codes /\ StepOn(step, Codes, range) /\ ks \in Seq(range)
        /\ \A x \in Codes, y \in range :
             step[<<x, y>>] = 2 * x + BitAt(values, from, (i - 1) * to + y - 1)
    <2>1. StepOn(BitStep(values, from, (i - 1) * to, to), Codes, 1 .. to)
      <3>1. (i - 1) * to \in Nat
        OBVIOUS
      <3> QED BY <3>1, BitStepIs
    <2>2. \A x \in Codes, y \in 1 .. to :
            BitStep(values, from, (i - 1) * to, to)[<<x, y>>] =
              2 * x + BitAt(values, from, (i - 1) * to + y - 1)
      <3>1. PICK low \in Nat : low = (i - 1) * to
        OBVIOUS
      <3>2. \A x \in Codes, y \in 1 .. to :
              BitStep(values, from, low, to)[<<x, y>>] = 2 * x + BitAt(values, from, low + y - 1)
        BY DEF BitStep
      <3> QED BY <3>1, <3>2
    <2>3. Upto(to) \in Seq(1 .. to)
      BY UptoIs
    <2> QED BY <1>8, <2>1, <2>2, <2>3, ZeroIsWord
  <1> DEFINE Loop(g) ==
               [P \in SUBSET DOMAIN ks |->
                  IF P = {} THEN 0
                  ELSE 2 * g[P \ {Max(P)}] + BitAt(values, from, (i - 1) * to + ks[Max(P)] - 1)]
  <1>0. 0 \in Codes /\ StepOn(step, Codes, range)
    BY <1>9
  <1>1. PICK g : Iterates(g, 0, step, ks) /\ g \in [SUBSET DOMAIN ks -> Codes]
    BY <1>0, <1>9, FoldExists
  <1>2. g = Loop(g)
    <2>1. ASSUME NEW P \in SUBSET DOMAIN ks, P # {}
          PROVE  step[<<g[P \ {Max(P)}], ks[Max(P)]>>] = 2 * g[P \ {Max(P)}] + BitAt(values, from, (i - 1) * to + ks[Max(P)] - 1)
      <3>1. g[P \ {Max(P)}] \in Codes /\ ks[Max(P)] \in range
        BY <1>1, <1>9, <2>1, MaxIn
      <3> QED BY <3>1, <1>9
    <2> QED BY <1>1, <2>1 DEF Iterates
  <1>3. PICK it : it = CHOOSE h : h = Loop(h)
    OBVIOUS
  <1>4. it = Loop(it)
    <2> HIDE DEF Loop
    <2> QED BY <1>2, <1>3
  <1>5. Regrouped(values, from, to)[i] = it[DOMAIN ks]
    <2>1. i \in 1 .. (Len(values) * from) \div to
      OBVIOUS
    <2>2. Regrouped(values, from, to)[i] =
            FoldLeft(LAMBDA acc, k : 2 * acc + BitAt(values, from, (i - 1) * to + k - 1), 0, ks)
      BY <1>8, <2>1 DEF Regrouped, BitAt, Upto
    <2>3. FoldLeft(LAMBDA acc, k : 2 * acc + BitAt(values, from, (i - 1) * to + k - 1), 0, ks)
            = it[DOMAIN ks]
      <3> HIDE DEF BitAt
      <3> QED BY <1>3 DEF FoldLeft, MapThenFoldSet
    <2> QED BY <2>2, <2>3
  <1>6. GoesBy(it, Codes, 0, step, ks)
    <2>1. it[{}] = 0
      BY <1>4
    <2>2. ASSUME NEW P \in SUBSET DOMAIN ks, P # {}, it[P \ {Max(P)}] \in Codes
          PROVE  it[P] = step[<<it[P \ {Max(P)}], ks[Max(P)]>>]
      <3>1. ks[Max(P)] \in range
        BY <1>9, <2>2, MaxIn
      <3>2. it[P] = 2 * it[P \ {Max(P)}] + BitAt(values, from, (i - 1) * to + ks[Max(P)] - 1)
        BY <1>4, <2>2
      <3> QED BY <2>2, <3>1, <3>2, <1>9
    <2> QED BY <2>1, <2>2 DEF GoesBy
  <1>7. it[1 .. Len(ks)] = Folded(0, step, ks)
    BY <1>0, <1>6, <1>9, FoldIs
  <1>10. DOMAIN ks = 1 .. Len(ks)
    BY <1>9
  <1> QED BY <1>5, <1>7, <1>8, <1>10

\* The bits of a piece, put together one after the other.
Piece(f, values, from, start, to) ==
  /\ f[0] = 0
  /\ \A k \in 1 .. to : f[k] = 2 * f[k - 1] + BitAt(values, from, start + k - 1)

LEMMA PieceSteps ==
  ASSUME NEW values, NEW from, NEW to, NEW n, NEW i, NEW start,
         PieceAt(values, from, to, n, i, start)
  PROVE  \E f : Piece(f, values, from, start, to) /\ Regrouped(values, from, to)[i] = f[to]
  <1>0. to \in Nat /\ n \in Nat /\ i \in 1 .. n /\ Cuts(values, from, to, n) /\ start \in Nat
    BY DEF PieceAt
  <1>1. PICK step, ks, range :
          /\ step = BitStep(values, from, start, to) /\ ks = Upto(to) /\ range = 1 .. to
          /\ start = (i - 1) * to
    BY DEF PieceAt
  <1>2. AreBits(values, from, start, to)
    BY DEF PieceAt
  <1>3. /\ 0 \in Codes /\ StepOn(step, Codes, range) /\ ks \in Seq(range) /\ Len(ks) = to
        /\ \A k \in 1 .. to : ks[k] = k
    BY <1>0, <1>1, <1>2, BitStepIs, UptoIs, ZeroIsWord
  <1>4. \A x \in Codes, y \in 1 .. to :
          step[<<x, y>>] = 2 * x + BitAt(values, from, start + y - 1)
    BY <1>1 DEF BitStep
  <1>5. PICK f : LoopOver(f, 0, step, ks)
    BY <1>3, LoopOverExists
  <1>6. /\ f[0] = 0
        /\ \A k \in 1 .. Len(ks) : f[k] = step[<<f[k - 1], ks[k]>>] /\ f[k - 1] \in Codes
    BY <1>3, <1>5, LoopOverAt
  <1>7. Piece(f, values, from, start, to)
    <2>1. ASSUME NEW k \in 1 .. to
          PROVE  f[k] = 2 * f[k - 1] + BitAt(values, from, start + k - 1)
      <3>1. f[k] = step[<<f[k - 1], k>>] /\ f[k - 1] \in Codes
        BY <1>3, <1>6
      <3> QED BY <1>4, <3>1
    <2> QED BY <1>6, <2>1 DEF Piece
  <1>8. Folded(0, step, ks) = f[to]
    BY <1>3, <1>5, FoldedIs
  <1>9. Regrouped(values, from, to)[i] = Folded(0, step, ks)
    BY <1>1, PieceIs
  <1> QED BY <1>1, <1>7, <1>8, <1>9

\* The characters of base32.
Letters == 0 .. 31

\* Bit n is there.
Within(values, from, n) == (n \div from) + 1 \in 1 .. Len(values)

LEMMA BitIs ==
  ASSUME NEW values \in Seq(Codes), NEW from \in Nat \ {0}, NEW n \in Nat,
         Within(values, from, n)
  PROVE  BitAt(values, from, n) \in 0 .. 1
  <1>1. PICK r \in 0 .. from - 1 : r = n % from
    BY DivMod
  <1>2. PICK x \in Nat : x = values[(n \div from) + 1]
    BY DEF Codes, Within
  <1>3. from - 1 - r \in Nat
    OBVIOUS
  <1>4. PICK p \in Nat \ {0} : p = Power[from - 1 - r]
    BY <1>3, PowerFacts
  <1>5. PICK q \in Nat : q = x \div p
    BY DivMod
  <1>6. q % 2 \in 0 .. 1
    BY <1>5
  <1> QED BY <1>1, <1>2, <1>4, <1>5, <1>6 DEF BitAt

\* A number of five bits, and each of them again.
Five(f, b1, b2, b3, b4, b5) ==
  /\ f[0] = 0 /\ f[1] = 2 * f[0] + b1 /\ f[2] = 2 * f[1] + b2 /\ f[3] = 2 * f[2] + b3
  /\ f[4] = 2 * f[3] + b4 /\ f[5] = 2 * f[4] + b5

LEMMA FiveBits ==
  ASSUME NEW f, NEW b1 \in 0 .. 1, NEW b2 \in 0 .. 1, NEW b3 \in 0 .. 1, NEW b4 \in 0 .. 1,
         NEW b5 \in 0 .. 1, Five(f, b1, b2, b3, b4, b5)
  PROVE  /\ f[5] \in Letters
         /\ (f[5] \div 16) % 2 = b1 /\ (f[5] \div 8) % 2 = b2 /\ (f[5] \div 4) % 2 = b3
         /\ (f[5] \div 2) % 2 = b4 /\ (f[5] \div 1) % 2 = b5
  <1>1. PICK x : x = f[5]
    OBVIOUS
  <1>2. x = 16 * b1 + 8 * b2 + 4 * b3 + 2 * b4 + b5
    BY <1>1 DEF Five
  <1>3. x \in Letters
    BY <1>2 DEF Letters
  <1>4. x \div 16 = b1 /\ x \div 8 = 2 * b1 + b2 /\ x \div 4 = 4 * b1 + 2 * b2 + b3
    BY <1>2
  <1>5. x \div 2 = 8 * b1 + 4 * b2 + 2 * b3 + b4 /\ x \div 1 = x
    BY <1>2
  <1>6. (x \div 16) % 2 = b1 /\ (x \div 8) % 2 = b2 /\ (x \div 4) % 2 = b3
    BY <1>4
  <1>7. (x \div 2) % 2 = b4 /\ (x \div 1) % 2 = b5
    BY <1>2, <1>5
  <1> QED BY <1>1, <1>3, <1>6, <1>7

\* A byte is what its bits make.
EightSteps(f, x) ==
  /\ f[0] = 0
  /\ f[1] = 2 * f[0] + ((x \div 128) % 2) /\ f[2] = 2 * f[1] + ((x \div 64) % 2)
  /\ f[3] = 2 * f[2] + ((x \div 32) % 2) /\ f[4] = 2 * f[3] + ((x \div 16) % 2)
  /\ f[5] = 2 * f[4] + ((x \div 8) % 2) /\ f[6] = 2 * f[5] + ((x \div 4) % 2)
  /\ f[7] = 2 * f[6] + ((x \div 2) % 2) /\ f[8] = 2 * f[7] + ((x \div 1) % 2)

LEMMA EightBits ==
  ASSUME NEW x \in Bytes, NEW f, EightSteps(f, x)
  PROVE  f[8] = x
  <1> USE DEF EightSteps
  <1>1. x \in 0 .. 255
    BY DEF Bytes
  <1>2. f[1] = x \div 128
    BY <1>1
  <1>3. f[2] = x \div 64
    BY <1>1, <1>2
  <1>4. f[3] = x \div 32
    BY <1>1, <1>3
  <1>5. f[4] = x \div 16
    BY <1>1, <1>4
  <1>6. f[5] = x \div 8
    BY <1>1, <1>5
  <1>7. f[6] = x \div 4
    BY <1>1, <1>6
  <1>8. f[7] = x \div 2
    BY <1>1, <1>7
  <1> QED BY <1>1, <1>8

LEMMA RegroupedIs ==
  ASSUME NEW values, NEW from, NEW to, NEW n, Cuts(values, from, to, n)
  PROVE  Regrouped(values, from, to) = [i \in 1 .. n |-> Regrouped(values, from, to)[i]]
  <1> DEFINE F(i) ==
               FoldLeft(LAMBDA acc, k :
                          2 * acc + ((values[(((i - 1) * to + k - 1) \div from) + 1]
                            \div Power[from - 1 - (((i - 1) * to + k - 1) % from)]) % 2),
                        0, [k \in 1 .. to |-> k])
  <1>1. Regrouped(values, from, to) = [i \in 1 .. n |-> F(i)]
    BY DEF Regrouped, Cuts
  <1> HIDE DEF F
  <1> QED BY <1>1

\* The bits of piece i of five bytes, and of eight characters.
LEMMA EncodedPiece ==
  ASSUME NEW v \in Seq(Bytes), Len(v) = 5, NEW i \in 1 .. 8
  PROVE  LET e == Regrouped(v, 8, 5)[i]
         IN /\ e \in Letters
            /\ (e \div Power[4]) % 2 = BitAt(v, 8, (i - 1) * 5)
            /\ (e \div Power[3]) % 2 = BitAt(v, 8, (i - 1) * 5 + 1)
            /\ (e \div Power[2]) % 2 = BitAt(v, 8, (i - 1) * 5 + 2)
            /\ (e \div Power[1]) % 2 = BitAt(v, 8, (i - 1) * 5 + 3)
            /\ (e \div Power[0]) % 2 = BitAt(v, 8, (i - 1) * 5 + 4)
  <1>1. PICK start \in 0 .. 35 : start = (i - 1) * 5
    OBVIOUS
  <1>2. v \in Seq(Codes)
    BY BytesAreCodes
  <1>3. AreBits(v, 8, start, 5)
    <2>1. ASSUME NEW k \in 1 .. 5 PROVE BitAt(v, 8, start + k - 1) \in 0 .. 1
      <3>1. PICK n \in 0 .. 39 : n = start + k - 1
        OBVIOUS
      <3>2. Within(v, 8, n)
        BY DEF Within
      <3> QED BY <1>2, <3>1, <3>2, BitIs
    <2> QED BY <2>1 DEF AreBits
  <1>4. Cuts(v, 8, 5, 8)
    BY DEF Cuts
  <1>5. PICK f : Piece(f, v, 8, start, 5) /\ Regrouped(v, 8, 5)[i] = f[5]
    <2>1. PieceAt(v, 8, 5, 8, i, start)
      BY <1>1, <1>3, <1>4 DEF PieceAt
    <2> QED BY <2>1, PieceSteps
  <1>6. \A k \in 1 .. 5 : f[k] = 2 * f[k - 1] + BitAt(v, 8, start + k - 1)
    BY <1>5 DEF Piece
  <1>7. PICK b1, b2, b3, b4, b5 \in 0 .. 1 :
          /\ b1 = BitAt(v, 8, start) /\ b2 = BitAt(v, 8, start + 1)
          /\ b3 = BitAt(v, 8, start + 2) /\ b4 = BitAt(v, 8, start + 3)
          /\ b5 = BitAt(v, 8, start + 4)
    <2>1. \A k \in 1 .. 5 : BitAt(v, 8, start + k - 1) \in 0 .. 1
      BY <1>3 DEF AreBits
    <2>2. /\ start + 1 - 1 = start /\ start + 2 - 1 = start + 1 /\ start + 3 - 1 = start + 2
          /\ start + 4 - 1 = start + 3 /\ start + 5 - 1 = start + 4
      OBVIOUS
    <2>3. BitAt(v, 8, start + 1 - 1) \in 0 .. 1 /\ BitAt(v, 8, start + 2 - 1) \in 0 .. 1
      BY <2>1
    <2>4. BitAt(v, 8, start + 3 - 1) \in 0 .. 1 /\ BitAt(v, 8, start + 4 - 1) \in 0 .. 1
      BY <2>1
    <2>5. BitAt(v, 8, start + 5 - 1) \in 0 .. 1
      BY <2>1
    <2> QED BY <2>2, <2>3, <2>4, <2>5
  <1>8. Five(f, b1, b2, b3, b4, b5)
    <2>1. /\ start + 1 - 1 = start /\ start + 2 - 1 = start + 1 /\ start + 3 - 1 = start + 2
          /\ start + 4 - 1 = start + 3 /\ start + 5 - 1 = start + 4
      OBVIOUS
    <2>2. f[1] = 2 * f[1 - 1] + BitAt(v, 8, start + 1 - 1)
      BY <1>6
    <2>3. f[2] = 2 * f[2 - 1] + BitAt(v, 8, start + 2 - 1)
      BY <1>6
    <2>4. f[3] = 2 * f[3 - 1] + BitAt(v, 8, start + 3 - 1)
      BY <1>6
    <2>5. f[4] = 2 * f[4 - 1] + BitAt(v, 8, start + 4 - 1)
      BY <1>6
    <2>6. f[5] = 2 * f[5 - 1] + BitAt(v, 8, start + 5 - 1)
      BY <1>6
    <2>7. f[0] = 0
      BY <1>5 DEF Piece
    <2>8. 1 - 1 = 0 /\ 2 - 1 = 1 /\ 3 - 1 = 2 /\ 4 - 1 = 3 /\ 5 - 1 = 4
      OBVIOUS
    <2> QED BY <1>7, <2>1, <2>2, <2>3, <2>4, <2>5, <2>6, <2>7, <2>8 DEF Five
  <1>9. /\ f[5] \in Letters
        /\ (f[5] \div 16) % 2 = b1 /\ (f[5] \div 8) % 2 = b2 /\ (f[5] \div 4) % 2 = b3
        /\ (f[5] \div 2) % 2 = b4 /\ (f[5] \div 1) % 2 = b5
    BY <1>8, FiveBits
  <1> QED BY <1>1, <1>5, <1>7, <1>9, SmallPowers

\* The characters have the bits of the bytes.
SameBits5(e, v) == \A n \in 0 .. 39 : BitAt(e, 5, n) = BitAt(v, 8, n)

LEMMA EncodedIs ==
  ASSUME NEW v \in Seq(Bytes), Len(v) = 5
  PROVE  /\ Regrouped(v, 8, 5) \in Seq(Letters) /\ Len(Regrouped(v, 8, 5)) = 8
         /\ SameBits5(Regrouped(v, 8, 5), v)
  <1>1. PICK e : e = Regrouped(v, 8, 5)
    OBVIOUS
  <1>2. PICK m \in Nat : m = 8 /\ e = [i \in 1 .. m |-> e[i]]
    <2>1. PICK m \in Nat : m = 8
      OBVIOUS
    <2>2. Cuts(v, 8, 5, m)
      BY <2>1 DEF Cuts
    <2> QED BY <1>1, <2>1, <2>2, RegroupedIs
  <1>3. \A i \in 1 .. 8 : e[i] \in Letters
    BY <1>1, EncodedPiece
  <1>4. e \in Seq(Letters) /\ Len(e) = 8
    <2>1. e \in Seq({e[i] : i \in 1 .. m}) /\ Len(e) = m
      BY <1>2, IsSeq
    <2>2. {e[i] : i \in 1 .. m} \subseteq Letters
      BY <1>2, <1>3
    <2> QED BY <1>2, <2>1, <2>2
  <1>5. ASSUME NEW n \in 0 .. 39 PROVE BitAt(e, 5, n) = BitAt(v, 8, n)
    <2>1. PICK i \in 1 .. 8, k \in 0 .. 4 :
            i = (n \div 5) + 1 /\ k = n % 5 /\ n = (i - 1) * 5 + k
      <3>1. PICK d, r : d = n \div 5 /\ r = n % 5
        OBVIOUS
      <3>2. d \in Nat /\ r \in 0 .. 4 /\ n = d * 5 + r
        BY <3>1, DivMod
      <3>3. d + 1 \in 1 .. 8 /\ n = ((d + 1) - 1) * 5 + r
        BY <3>2
      <3> QED BY <3>1, <3>2, <3>3
    <2>2. n = (i - 1) * 5 + k
      BY <2>1
    <2>3. BitAt(e, 5, n) = (e[i] \div Power[5 - 1 - k]) % 2
      BY <2>1 DEF BitAt
    <2>4. CASE k = 0
      <3>1. n = (i - 1) * 5 /\ 5 - 1 - k = 4
        BY <2>2, <2>4
      <3> QED BY <1>1, <2>3, <3>1, EncodedPiece
    <2>5. CASE k = 1
      <3>1. n = (i - 1) * 5 + 1 /\ 5 - 1 - k = 3
        BY <2>2, <2>5
      <3> QED BY <1>1, <2>3, <3>1, EncodedPiece
    <2>6. CASE k = 2
      <3>1. n = (i - 1) * 5 + 2 /\ 5 - 1 - k = 2
        BY <2>2, <2>6
      <3> QED BY <1>1, <2>3, <3>1, EncodedPiece
    <2>7. CASE k = 3
      <3>1. n = (i - 1) * 5 + 3 /\ 5 - 1 - k = 1
        BY <2>2, <2>7
      <3> QED BY <1>1, <2>3, <3>1, EncodedPiece
    <2>8. CASE k = 4
      <3>1. n = (i - 1) * 5 + 4 /\ 5 - 1 - k = 0
        BY <2>2, <2>8
      <3> QED BY <1>1, <2>3, <3>1, EncodedPiece
    <2> QED BY <2>4, <2>5, <2>6, <2>7, <2>8
  <1> QED BY <1>1, <1>4, <1>5 DEF SameBits5

\* Bit k of byte j.
LEMMA ByteBit ==
  ASSUME NEW v \in Seq(Bytes), Len(v) = 5, NEW j \in 1 .. 5, NEW k \in 1 .. 8
  PROVE  BitAt(v, 8, (j - 1) * 8 + k - 1) = (v[j] \div Power[8 - k]) % 2
  <1>1. PICK n \in 0 .. 39 : n = (j - 1) * 8 + k - 1
    OBVIOUS
  <1>2. (n \div 8) + 1 = j /\ n % 8 = k - 1
    BY <1>1
  <1>3. 8 - 1 - (k - 1) = 8 - k
    OBVIOUS
  <1> QED BY <1>1, <1>2, <1>3 DEF BitAt

LEMMA DecodedPiece ==
  ASSUME NEW v \in Seq(Bytes), Len(v) = 5, NEW e \in Seq(Codes), Len(e) = 8,
         SameBits5(e, v), NEW j \in 1 .. 5
  PROVE  Regrouped(e, 5, 8)[j] = v[j]
  <1>1. PICK start \in 0 .. 32 : start = (j - 1) * 8
    OBVIOUS
  <1>2. AreBits(e, 5, start, 8)
    <2>1. ASSUME NEW k \in 1 .. 8 PROVE BitAt(e, 5, start + k - 1) \in 0 .. 1
      <3>1. PICK n \in 0 .. 39 : n = start + k - 1
        OBVIOUS
      <3>2. Within(e, 5, n)
        BY DEF Within
      <3> QED BY <3>1, <3>2, BitIs
    <2> QED BY <2>1 DEF AreBits
  <1>3. Cuts(e, 5, 8, 5)
    BY DEF Cuts
  <1>4. PICK f : Piece(f, e, 5, start, 8) /\ Regrouped(e, 5, 8)[j] = f[8]
    <2>1. PieceAt(e, 5, 8, 5, j, start)
      BY <1>1, <1>2, <1>3 DEF PieceAt
    <2> QED BY <2>1, PieceSteps
  <1>5. \A k \in 1 .. 8 : f[k] = 2 * f[k - 1] + ((v[j] \div Power[8 - k]) % 2)
    <2>1. ASSUME NEW k \in 1 .. 8
          PROVE  f[k] = 2 * f[k - 1] + ((v[j] \div Power[8 - k]) % 2)
      <3>1. f[k] = 2 * f[k - 1] + BitAt(e, 5, start + k - 1)
        BY <1>4 DEF Piece
      <3>2. start + k - 1 \in 0 .. 39
        OBVIOUS
      <3>3. BitAt(e, 5, start + k - 1) = BitAt(v, 8, start + k - 1)
        BY <3>2 DEF SameBits5
      <3>4. BitAt(v, 8, start + k - 1) = (v[j] \div Power[8 - k]) % 2
        BY <1>1, ByteBit
      <3> QED BY <3>1, <3>3, <3>4
    <2> QED BY <2>1
  <1>6. PICK x \in Bytes : x = v[j]
    <2>1. j \in 1 .. Len(v)
      OBVIOUS
    <2>2. v[j] \in Bytes
      BY <2>1, ElementOfSeq, Zenon
    <2> QED BY <2>2
  <1>7. /\ f[0] = 0
        /\ f[1] = 2 * f[0] + ((x \div 128) % 2) /\ f[2] = 2 * f[1] + ((x \div 64) % 2)
        /\ f[3] = 2 * f[2] + ((x \div 32) % 2) /\ f[4] = 2 * f[3] + ((x \div 16) % 2)
        /\ f[5] = 2 * f[4] + ((x \div 8) % 2) /\ f[6] = 2 * f[5] + ((x \div 4) % 2)
        /\ f[7] = 2 * f[6] + ((x \div 2) % 2) /\ f[8] = 2 * f[7] + ((x \div 1) % 2)
    <2>1. f[0] = 0
      BY <1>4 DEF Piece
    <2>2. /\ f[1] = 2 * f[1 - 1] + ((x \div Power[8 - 1]) % 2)
          /\ f[2] = 2 * f[2 - 1] + ((x \div Power[8 - 2]) % 2)
          /\ f[3] = 2 * f[3 - 1] + ((x \div Power[8 - 3]) % 2)
          /\ f[4] = 2 * f[4 - 1] + ((x \div Power[8 - 4]) % 2)
      BY <1>5, <1>6
    <2>3. /\ f[5] = 2 * f[5 - 1] + ((x \div Power[8 - 5]) % 2)
          /\ f[6] = 2 * f[6 - 1] + ((x \div Power[8 - 6]) % 2)
          /\ f[7] = 2 * f[7 - 1] + ((x \div Power[8 - 7]) % 2)
          /\ f[8] = 2 * f[8 - 1] + ((x \div Power[8 - 8]) % 2)
      BY <1>5, <1>6
    <2>4. /\ 8 - 1 = 7 /\ 8 - 2 = 6 /\ 8 - 3 = 5 /\ 8 - 4 = 4 /\ 8 - 5 = 3 /\ 8 - 6 = 2
          /\ 8 - 7 = 1 /\ 8 - 8 = 0
          /\ 1 - 1 = 0 /\ 2 - 1 = 1 /\ 3 - 1 = 2 /\ 4 - 1 = 3 /\ 5 - 1 = 4 /\ 6 - 1 = 5
      OBVIOUS
    <2>5. /\ f[1] = 2 * f[0] + ((x \div 128) % 2) /\ f[2] = 2 * f[1] + ((x \div 64) % 2)
          /\ f[3] = 2 * f[2] + ((x \div 32) % 2) /\ f[4] = 2 * f[3] + ((x \div 16) % 2)
      BY <2>2, <2>4, SmallPowers
    <2>6. /\ f[5] = 2 * f[4] + ((x \div 8) % 2) /\ f[6] = 2 * f[5] + ((x \div 4) % 2)
          /\ f[7] = 2 * f[6] + ((x \div 2) % 2) /\ f[8] = 2 * f[7] + ((x \div 1) % 2)
      BY <2>3, <2>4, SmallPowers
    <2> QED BY <2>1, <2>5, <2>6
  <1>8. f[8] = x
    <2>1. x \in Bytes
      OBVIOUS
    <2>2. EightSteps(f, x)
      BY <1>7 DEF EightSteps
    <2> QED BY <2>1, <2>2, EightBits
  <1> QED BY <1>4, <1>6, <1>8

LEMMA DecodedIs ==
  ASSUME NEW v \in Seq(Bytes), Len(v) = 5
  PROVE  Regrouped(Regrouped(v, 8, 5), 5, 8) = v
  <1>1. PICK e : e = Regrouped(v, 8, 5)
    OBVIOUS
  <1>2. e \in Seq(Codes) /\ Len(e) = 8
    <2>1. Letters \subseteq Codes
      BY DEF Codes, Letters
    <2> QED BY <1>1, <2>1, EncodedIs
  <1>3. SameBits5(e, v)
    BY <1>1, EncodedIs
  <1>4. Cuts(e, 5, 8, 5)
    BY <1>2 DEF Cuts
  <1>5. Regrouped(e, 5, 8) = [j \in 1 .. 5 |-> Regrouped(e, 5, 8)[j]]
    BY <1>4, RegroupedIs
  <1>6. \A j \in 1 .. 5 : Regrouped(e, 5, 8)[j] = v[j]
    BY <1>2, <1>3, DecodedPiece
  <1>7. v = [j \in 1 .. 5 |-> v[j]]
    OBVIOUS
  <1> QED BY <1>1, <1>5, <1>6, <1>7

-----------------------------------------------------------------------------
(***************************************************************************)
(* The text of a license, and what the decoders make of it.                *)
(***************************************************************************)
NoDash == {c \in Codes : c # Dash}

Texts == Seq(NoDash)

SplitAll == SplitStep({})

LEMMA SplitAllIs ==
  /\ StepOn(SplitAll, Pieces, Codes)
  /\ \A p \in Pieces, c \in Codes : SplitAll[<<p, c>>] = Takes(p, c, {})
  <1>1. PICK passed : passed = {}
    OBVIOUS
  <1> QED BY <1>1, SplitStepIs DEF SplitAll

LEMMA SplitAppend ==
  ASSUME NEW p \in Pieces, NEW s \in Seq(Codes), NEW c \in Codes
  PROVE  /\ Folded(p, SplitAll, s) \in Pieces
         /\ Folded(p, SplitAll, Append(s, c)) = Takes(Folded(p, SplitAll, s), c, {})
  <1>1. StepOn(SplitAll, Pieces, Codes)
    BY SplitAllIs
  <1>2. Folded(p, SplitAll, s) \in Pieces
    BY <1>1, FoldedType
  <1>3. Folded(p, SplitAll, Append(s, c)) = SplitAll[<<Folded(p, SplitAll, s), c>>]
    BY <1>1, FoldedAppend
  <1> QED BY <1>2, <1>3, SplitAllIs

LEMMA SplitConcat ==
  ASSUME NEW p \in Pieces, NEW s \in Seq(Codes), NEW t \in Seq(Codes)
  PROVE  Folded(p, SplitAll, s \o t) = Folded(Folded(p, SplitAll, s), SplitAll, t)
  <1>1. StepOn(SplitAll, Pieces, Codes)
    BY SplitAllIs
  <1> QED BY <1>1, FoldedConcat

LEMMA NoDashIs ==
  /\ NoDash \subseteq Codes /\ Texts \subseteq Seq(Codes)
  /\ <<>> \in Texts /\ <<>> \in Seq(Codes)
  BY DEF NoDash, Texts

LEMMA AppendIsPieces ==
  ASSUME NEW p \in Seq(Seq(Codes)), NEW q \in Seq(Codes)
  PROVE  Append(p, q) \in Pieces
  <1>1. PICK W : W = Seq(Codes)
    OBVIOUS
  <1>2. Append(p, q) \in Seq(W) /\ Len(Append(p, q)) = Len(p) + 1
    BY <1>1, AppendProperties
  <1>3. Append(p, q) # <<>>
    <2>1. Len(p) + 1 # 0
      BY <1>1
    <2> QED BY <1>2, <2>1
  <1> QED BY <1>1, <1>2, <1>3 DEF Pieces

\* A character that is no dash is put to the last part.
LEMMA TakesLetter ==
  ASSUME NEW p \in Seq(Seq(Codes)), NEW q \in Seq(Codes), NEW c \in NoDash
  PROVE  Takes(Append(p, q), c, {}) = Append(p, Append(q, c))
  <1>1. PICK W : W = Seq(Codes)
    OBVIOUS
  <1>2. PICK n \in Nat : n = Len(p)
    OBVIOUS
  <1>3. PICK r : r = Append(p, q)
    OBVIOUS
  <1>4. r \in Seq(W) /\ Len(r) = n + 1 /\ r[n + 1] = q /\ \A i \in 1 .. n : r[i] = p[i]
    BY <1>1, <1>2, <1>3, AppendProperties
  <1>5. c \in Codes /\ c # Dash /\ c \notin {}
    BY DEF NoDash
  <1>6. Takes(r, c, {}) = [r EXCEPT ![Len(r)] = Append(@, c)]
    BY <1>5 DEF Takes
  <1>7. PICK x : x = Append(q, c)
    OBVIOUS
  <1>8. x \in W
    BY <1>1, <1>5, <1>7
  <1>9. [r EXCEPT ![n + 1] = x] = Append(p, x)
    <2>1. PICK t : t = Append(p, x)
      OBVIOUS
    <2>2. t \in Seq(W) /\ Len(t) = n + 1 /\ t[n + 1] = x /\ \A i \in 1 .. n : t[i] = p[i]
      BY <1>1, <1>2, <1>8, <2>1, AppendProperties
    <2>3. t = [i \in 1 .. n + 1 |-> t[i]] /\ r = [i \in 1 .. n + 1 |-> r[i]]
      BY <1>4, <2>2, SeqIs
    <2>4. \A i \in 1 .. n + 1 : t[i] = IF i = n + 1 THEN x ELSE r[i]
      BY <1>4, <2>2
    <2>5. [r EXCEPT ![n + 1] = x] = [i \in 1 .. n + 1 |-> IF i = n + 1 THEN x ELSE r[i]]
      BY <2>3
    <2>6. t = [i \in 1 .. n + 1 |-> IF i = n + 1 THEN x ELSE r[i]]
      BY <2>3, <2>4
    <2> QED BY <2>1, <2>5, <2>6
  <1> QED BY <1>3, <1>4, <1>6, <1>7, <1>9

LEMMA LettersAdd ==
  ASSUME NEW p \in Seq(Seq(Codes)), NEW q \in Seq(Codes), NEW u \in Texts
  PROVE  Folded(Append(p, q), SplitAll, u) = Append(p, q \o u)
  <1>1. Append(p, q) \in Pieces
    BY AppendIsPieces
  <1> DEFINE T == {s \in Texts : Folded(Append(p, q), SplitAll, s) = Append(p, q \o s)}
  <1>2. <<>> \in T
    <2>1. Folded(Append(p, q), SplitAll, <<>>) = Append(p, q)
      BY <1>1, SplitAllIs, FoldedNone
    <2>2. q \o <<>> = q
      BY ConcatEmptySeq
    <2> QED BY <2>1, <2>2, NoDashIs
  <1>3. ASSUME NEW s \in Seq(NoDash), NEW c \in NoDash, s \in T
        PROVE  Append(s, c) \in T
    <2>1. s \in Texts /\ s \in Seq(Codes) /\ c \in Codes
      BY NoDashIs DEF Texts
    <2>2. Folded(Append(p, q), SplitAll, s) = Append(p, q \o s)
      BY <1>3
    <2>3. Folded(Append(p, q), SplitAll, Append(s, c)) = Takes(Append(p, q \o s), c, {})
      BY <1>1, <2>1, <2>2, SplitAppend
    <2>4. q \o s \in Seq(Codes)
      BY <2>1
    <2>6. Takes(Append(p, q \o s), c, {}) = Append(p, Append(q \o s, c))
      BY <2>4, TakesLetter
    <2>7. Append(q \o s, c) = q \o Append(s, c)
      <3>1. PICK W : W = Codes
        OBVIOUS
      <3>2. q \in Seq(W) /\ s \in Seq(W) /\ c \in W
        BY <2>1, <3>1
      <3>3. Append(q \o s, c) = (q \o s) \o <<c>> /\ Append(s, c) = s \o <<c>>
        BY <3>2, AppendIsConcat
      <3>4. <<c>> \in Seq(W)
        BY <3>2
      <3> QED BY <3>2, <3>3, <3>4, ConcatAssociative
    <2>8. Append(s, c) \in Texts
      BY DEF Texts
    <2> QED BY <2>3, <2>6, <2>7, <2>8
  <1>4. Texts \subseteq T
    <2> HIDE DEF T
    <2> QED BY <1>2, <1>3, SeqInduction DEF Texts
  <1> QED BY <1>4

LEMMA BlockAdds ==
  ASSUME NEW p \in Pieces, NEW u \in Texts
  PROVE  Folded(p, SplitAll, <<Dash>> \o u) = Append(p, u)
  <1>1. Dash \in Codes /\ <<Dash>> \in Seq(Codes) /\ u \in Seq(Codes)
    BY NoDashIs DEF Dash, Codes
  <1>2. Folded(p, SplitAll, <<Dash>>) = Append(p, <<>>)
    <2>1. Folded(p, SplitAll, <<>>) = p
      BY SplitAllIs, FoldedNone
    <2>2. Folded(p, SplitAll, Append(<<>>, Dash)) = Takes(p, Dash, {})
      BY <1>1, <2>1, NoDashIs, SplitAppend
    <2>4. Takes(p, Dash, {}) = Append(p, <<>>)
      BY <1>1, TakesIs
    <2>5. Append(<<>>, Dash) = <<Dash>>
      OBVIOUS
    <2> QED BY <2>2, <2>4, <2>5
  <1>3. p \in Seq(Seq(Codes)) /\ <<>> \in Seq(Codes)
    BY NoDashIs DEF Pieces
  <1>4. Folded(p, SplitAll, <<Dash>> \o u) = Folded(Append(p, <<>>), SplitAll, u)
    BY <1>1, <1>2, SplitConcat, ZenonT(60)
  <1>5. Folded(Append(p, <<>>), SplitAll, u) = Append(p, <<>> \o u)
    BY <1>3, LettersAdd
  <1>6. <<>> \o u = u
    BY <1>1, ConcatEmptySeq
  <1> QED BY <1>4, <1>5, <1>6

\* The texts in a row, each with a dash before it.
Dashed(blocks, n) == [i \in 1 .. n |-> <<Dash>> \o blocks[i]]

Firsts(blocks, k) == [i \in 1 .. k |-> blocks[i]]

LEMMA FirstsIs ==
  ASSUME NEW n \in Nat, NEW blocks \in [1 .. n -> Texts], NEW k \in 0 .. n
  PROVE  Firsts(blocks, k) \in Seq(Texts) /\ Len(Firsts(blocks, k)) = k
  <1>1. Firsts(blocks, k) \in [1 .. k -> Texts]
    BY DEF Firsts
  <1> QED BY <1>1

LEMMA FirstsNext ==
  ASSUME NEW n \in Nat, NEW blocks \in [1 .. n -> Texts], NEW k \in 0 .. n - 1
  PROVE  Firsts(blocks, k + 1) = Append(Firsts(blocks, k), blocks[k + 1])
  <1>1. PICK f : f = Firsts(blocks, k)
    OBVIOUS
  <1>2. f = [i \in 1 .. k |-> f[i]] /\ \A i \in 1 .. k : f[i] = blocks[i]
    BY <1>1 DEF Firsts
  <1>3. Append(f, blocks[k + 1]) = [i \in 1 .. k + 1 |-> IF i = k + 1 THEN blocks[k + 1] ELSE f[i]]
    BY <1>2, AppendFunction
  <1>4. Firsts(blocks, k + 1) = [i \in 1 .. k + 1 |-> blocks[i]]
    BY DEF Firsts
  <1>5. \A i \in 1 .. k + 1 : blocks[i] = IF i = k + 1 THEN blocks[k + 1] ELSE f[i]
    BY <1>2
  <1> QED BY <1>1, <1>3, <1>4, <1>5

\* What is split at its dashes is the texts between them.
LEMMA BlocksSplit ==
  ASSUME NEW p \in Pieces, NEW n \in Nat, NEW blocks \in [1 .. n -> Texts],
         NEW out, Concats(out, Dashed(blocks, n), n)
  PROVE  Folded(p, SplitAll, out[n]) = p \o Firsts(blocks, n)
  <1>1. PICK W : W = Seq(Codes)
    OBVIOUS
  <1>2. p \in Seq(W)
    BY <1>1 DEF Pieces
  <1>3. SeqsOf(Dashed(blocks, n), Codes, n)
    <2>1. ASSUME NEW i \in 1 .. n PROVE <<Dash>> \o blocks[i] \in Seq(Codes)
      <3>1. blocks[i] \in Seq(Codes) /\ <<Dash>> \in Seq(Codes)
        BY NoDashIs DEF Dash, Codes
      <3> QED BY <3>1
    <2> QED BY <2>1 DEF SeqsOf, Dashed
  <1>4. /\ out[0] = <<>>
        /\ \A k \in 1 .. n : out[k] = out[k - 1] \o Dashed(blocks, n)[k]
        /\ \A k \in 0 .. n : out[k] \in Seq(Codes)
    BY <1>3, ConcatsAt
  <1> DEFINE T == {k \in Nat : k <= n => Folded(p, SplitAll, out[k]) = p \o Firsts(blocks, k)}
  <1>5. 0 \in T
    <2>1. Folded(p, SplitAll, <<>>) = p
      BY SplitAllIs, FoldedNone
    <2>2. Firsts(blocks, 0) = <<>>
      BY DEF Firsts
    <2>3. p \o <<>> = p
      BY <1>2, ConcatEmptySeq
    <2> QED BY <1>4, <2>1, <2>2, <2>3
  <1>6. ASSUME NEW k \in Nat, k \in T, k + 1 <= n PROVE k + 1 \in T
    <2>1. Folded(p, SplitAll, out[k]) = p \o Firsts(blocks, k)
      BY <1>6
    <2>2. out[k + 1] = out[k] \o (<<Dash>> \o blocks[k + 1])
      <3>1. k + 1 \in 1 .. n /\ (k + 1) - 1 = k
        BY <1>6
      <3>2. Dashed(blocks, n)[k + 1] = <<Dash>> \o blocks[k + 1]
        BY <3>1 DEF Dashed
      <3> QED BY <1>4, <3>1, <3>2
    <2>3. PICK u \in Texts : u = blocks[k + 1]
      BY <1>6
    <2>4. <<Dash>> \o u \in Seq(Codes) /\ out[k] \in Seq(Codes)
      <3>1. k \in 0 .. n
        BY <1>6
      <3>2. u \in Seq(Codes) /\ <<Dash>> \in Seq(Codes)
        BY NoDashIs DEF Dash, Codes
      <3> QED BY <1>4, <3>1, <3>2
    <2>5. Folded(p, SplitAll, out[k + 1]) =
            Folded(Folded(p, SplitAll, out[k]), SplitAll, <<Dash>> \o u)
      <3>1. PICK a, d : a = out[k] /\ d = <<Dash>> \o u
        OBVIOUS
      <3>2. out[k + 1] = a \o d /\ a \in Seq(Codes) /\ d \in Seq(Codes)
        BY <2>2, <2>3, <2>4, <3>1
      <3>3. Folded(p, SplitAll, a \o d) = Folded(Folded(p, SplitAll, a), SplitAll, d)
        BY <3>2, SplitConcat
      <3> QED BY <3>1, <3>2, <3>3
    <2>6. Folded(p, SplitAll, out[k]) \in Pieces
      BY <2>4, SplitAllIs, FoldedType
    <2>7. Folded(p, SplitAll, out[k + 1]) = Append(p \o Firsts(blocks, k), u)
      BY <2>1, <2>5, <2>6, BlockAdds
    <2>8. Firsts(blocks, k) \in Seq(W) /\ u \in W
      <3>1. k \in 0 .. n
        BY <1>6
      <3>2. Texts \subseteq W
        BY <1>1, NoDashIs
      <3>3. Firsts(blocks, k) \in Seq(Texts)
        BY <3>1, FirstsIs
      <3> QED BY <3>2, <3>3
    <2>9. Append(p \o Firsts(blocks, k), u) = p \o Append(Firsts(blocks, k), u)
      <3>1. PICK a : a = Firsts(blocks, k)
        OBVIOUS
      <3>2. a \in Seq(W) /\ u \in W
        BY <2>8, <3>1
      <3>3. Append(p \o a, u) = p \o Append(a, u)
        <4>1. Append(p \o a, u) = (p \o a) \o <<u>> /\ Append(a, u) = a \o <<u>>
          BY <1>2, <3>2, AppendIsConcat
        <4>2. <<u>> \in Seq(W)
          BY <3>2
        <4> QED BY <1>2, <3>2, <4>1, <4>2, ConcatAssociative
      <3> QED BY <3>1, <3>3
    <2>10. Firsts(blocks, k + 1) = Append(Firsts(blocks, k), u)
      <3>1. k \in 0 .. n - 1
        BY <1>6
      <3>2. Firsts(blocks, k + 1) = Append(Firsts(blocks, k), blocks[k + 1])
        BY <3>1, FirstsNext
      <3> QED BY <2>3, <3>2
    <2>11. Folded(p, SplitAll, out[k + 1]) = p \o Firsts(blocks, k + 1)
      BY <2>7, <2>9, <2>10
    <2> QED BY <2>11
  <1>7. ASSUME NEW k \in T PROVE k + 1 \in T
    <2>1. CASE k + 1 <= n
      BY <1>6, <1>7, <2>1
    <2>2. CASE ~(k + 1 <= n)
      BY <1>7, <2>2
    <2> QED BY <2>1, <2>2
  <1>8. Nat \subseteq T
    <2> HIDE DEF T
    <2> QED BY <1>5, <1>7, SetInduction
  <1> QED BY <1>8

\* Block k of the 25 bytes, and its characters.
Block(lic, k) == SubSeq(lic, 5 * k - 4, 5 * k)

Encoded(lic) == [k \in 1 .. 5 |-> Regrouped(Block(lic, k), 8, 5)]

License(lic) == lic \in Seq(Bytes) /\ Len(lic) = 25

LEMMA BlockIs ==
  ASSUME NEW lic, License(lic), NEW k \in 1 .. 5
  PROVE  /\ Block(lic, k) \in Seq(Bytes) /\ Len(Block(lic, k)) = 5
         /\ Block(lic, k) = [i \in 1 .. 5 |-> Block(lic, k)[i]]
         /\ \A i \in 1 .. 5 : Block(lic, k)[i] = lic[5 * k - 5 + i]
  <1>1. PICK a \in 1 .. 21 : a = 5 * k - 4
    OBVIOUS
  <1>2. PICK n \in 1 .. 25 : n = 5 * k /\ n = a + 4
    BY <1>1
  <1>3. PICK b : b = SubSeq(lic, a, n)
    OBVIOUS
  <1>4. b = Slice(lic, a, n)
    <2>1. lic \in Seq(Bytes) /\ a \in Nat /\ n \in Nat /\ a >= 1 /\ n <= Len(lic) /\ a <= n + 1
      BY <1>2 DEF License
    <2> QED BY <1>3, <2>1, SubSeqSlice
  <1>5. n - a + 1 = 5
    BY <1>2
  <1>6. b = [i \in 1 .. 5 |-> lic[a + i - 1]]
    BY <1>4, <1>5 DEF Slice
  <1>7. ASSUME NEW i \in 1 .. 5 PROVE lic[a + i - 1] \in Bytes
    <2>1. a + i - 1 \in 1 .. Len(lic)
      BY DEF License
    <2>2. lic \in Seq(Bytes)
      BY DEF License
    <2> QED BY <2>1, <2>2, ElementOfSeq
  <1>8. b \in [1 .. 5 -> Bytes]
    BY <1>6, <1>7
  <1>9. b \in Seq(Bytes) /\ Len(b) = 5
    BY <1>8
  <1>10. \A i \in 1 .. 5 : b[i] = lic[5 * k - 5 + i]
    <2>1. ASSUME NEW i \in 1 .. 5 PROVE b[i] = lic[5 * k - 5 + i]
      <3>1. b[i] = lic[a + i - 1] /\ a + i - 1 = 5 * k - 5 + i
        BY <1>1, <1>6
      <3> QED BY <3>1
    <2> QED BY <2>1
  <1>11. b = [i \in 1 .. 5 |-> b[i]]
    BY <1>8
  <1>12. Block(lic, k) = b
    BY <1>1, <1>2, <1>3 DEF Block
  <1> QED BY <1>9, <1>10, <1>11, <1>12

LEMMA EncodedType ==
  ASSUME NEW lic, License(lic)
  PROVE  /\ Encoded(lic) \in [1 .. 5 -> Texts]
         /\ \A k \in 1 .. 5 : /\ Encoded(lic)[k] \in Seq(Letters) /\ Len(Encoded(lic)[k]) = 8
                              /\ Regrouped(Encoded(lic)[k], 5, 8) = Block(lic, k)
  <1>1. ASSUME NEW k \in 1 .. 5
        PROVE  LET e == Regrouped(Block(lic, k), 8, 5)
               IN e \in Seq(Letters) /\ Len(e) = 8 /\ Regrouped(e, 5, 8) = Block(lic, k)
    BY BlockIs, EncodedIs, DecodedIs
  <1>2. Letters \subseteq NoDash
    BY DEF Letters, NoDash, Dash, Codes
  <1>3. Seq(Letters) \subseteq Texts
    BY <1>2 DEF Texts
  <1> QED BY <1>1, <1>3 DEF Encoded

LEMMA PrefixIs ==
  LICENSE_PREFIX \in Texts /\ LICENSE_PREFIX \in Seq(Codes)
  BY DEF LICENSE_PREFIX, Texts, NoDash, Dash, Codes

LEMMA EncodeSplits ==
  ASSUME NEW lic, License(lic)
  PROVE  /\ encode_license(lic) \in Seq(Codes)
         /\ Split(encode_license(lic), {}) = <<LICENSE_PREFIX>> \o Firsts(Encoded(lic), 5)
  <1>1. PICK n \in Nat : n = 5
    OBVIOUS
  <1>2. PICK blocks : blocks = Encoded(lic)
    OBVIOUS
  <1>3. blocks \in [1 .. n -> Texts]
    BY <1>1, <1>2, EncodedType
  <1>4. encode_license(lic) = LICENSE_PREFIX \o FlattenSeq(Dashed(blocks, n))
    <2>1. Dashed(blocks, n) = [k \in 1 .. 5 |-> <<Dash>> \o Regrouped(Block(lic, k), 8, 5)]
      BY <1>1, <1>2 DEF Dashed, Encoded
    <2> QED BY <2>1 DEF encode_license, Block
  <1>5. SeqsOf(Dashed(blocks, n), Codes, n)
    <2>1. ASSUME NEW i \in 1 .. n PROVE <<Dash>> \o blocks[i] \in Seq(Codes)
      <3>1. blocks[i] \in Seq(Codes) /\ <<Dash>> \in Seq(Codes)
        BY <1>3, NoDashIs DEF Dash, Codes
      <3> QED BY <3>1
    <2> QED BY <2>1 DEF SeqsOf, Dashed
  <1>6. PICK out : Concats(out, Dashed(blocks, n), n) /\ FlattenSeq(Dashed(blocks, n)) = out[n]
    BY <1>5, FlattenLoop
  <1>7. out[n] \in Seq(Codes)
    <2>1. \A k \in 0 .. n : out[k] \in Seq(Codes)
      BY <1>5, <1>6, ConcatsAt
    <2> QED BY <2>1
  <1>8. PICK s : s = LICENSE_PREFIX \o out[n]
    OBVIOUS
  <1>9. s \in Seq(Codes) /\ s = encode_license(lic)
    BY <1>4, <1>6, <1>7, <1>8, PrefixIs
  <1>10. Split(s, {}) = Folded(OnePart, SplitAll, s)
    <2>1. PICK passed : passed = {}
      OBVIOUS
    <2> QED BY <1>9, <2>1, SplitIs DEF SplitAll
  <1>11. Folded(OnePart, SplitAll, LICENSE_PREFIX) = <<LICENSE_PREFIX>>
    <2>1. PICK p, q : p = <<>> /\ q = <<>>
      OBVIOUS
    <2>2. p \in Seq(Seq(Codes)) /\ q \in Seq(Codes)
      BY <2>1
    <2>3. Append(p, q) = OnePart
      BY <2>1 DEF OnePart
    <2>4. q \o LICENSE_PREFIX = LICENSE_PREFIX
      BY <2>1, PrefixIs, ConcatEmptySeq
    <2>5. Folded(Append(p, q), SplitAll, LICENSE_PREFIX) = Append(p, q \o LICENSE_PREFIX)
      BY <2>2, PrefixIs, LettersAdd
    <2>6. Append(p, LICENSE_PREFIX) = <<LICENSE_PREFIX>>
      BY <2>1
    <2> QED BY <2>3, <2>4, <2>5, <2>6
  <1>12. Folded(OnePart, SplitAll, s) = Folded(<<LICENSE_PREFIX>>, SplitAll, out[n])
    BY <1>7, <1>8, <1>11, PrefixIs, OnePartIs, SplitConcat
  <1>13. <<LICENSE_PREFIX>> \in Pieces
    BY <1>11, OnePartIs, PrefixIs, SplitAllIs, FoldedType
  <1>14. Folded(<<LICENSE_PREFIX>>, SplitAll, out[n]) = <<LICENSE_PREFIX>> \o Firsts(blocks, n)
    BY <1>3, <1>6, <1>13, BlocksSplit
  <1> QED BY <1>1, <1>2, <1>9, <1>10, <1>12, <1>14

\* The characters of a license: no white space.
LEMMA EncodeSolid ==
  ASSUME NEW lic, License(lic)
  PROVE  \A i \in 1 .. Len(encode_license(lic)) : encode_license(lic)[i] \notin {Blank, Wide}
  <1> DEFINE S == {c \in Codes : c \notin {Blank, Wide}}
  <1>1. PICK n \in Nat : n = 5
    OBVIOUS
  <1>2. PICK blocks : blocks = Encoded(lic)
    OBVIOUS
  <1>3. SeqsOf(Dashed(blocks, n), S, n)
    <2>1. ASSUME NEW i \in 1 .. n PROVE <<Dash>> \o blocks[i] \in Seq(S)
      <3>1. blocks[i] \in Seq(Letters)
        BY <1>1, <1>2, EncodedType
      <3>2. Letters \subseteq S /\ Dash \in S
        BY DEF Letters, Codes, Blank, Wide, Dash
      <3>3. blocks[i] \in Seq(S) /\ <<Dash>> \in Seq(S)
        <4> HIDE DEF S
        <4> QED BY <3>1, <3>2
      <3> HIDE DEF S
      <3> QED BY <3>3
    <2> HIDE DEF S
    <2> QED BY <2>1 DEF SeqsOf, Dashed
  <1>4. encode_license(lic) = LICENSE_PREFIX \o FlattenSeq(Dashed(blocks, n))
    <2>1. Dashed(blocks, n) = [k \in 1 .. 5 |-> <<Dash>> \o Regrouped(Block(lic, k), 8, 5)]
      BY <1>1, <1>2 DEF Dashed, Encoded
    <2> QED BY <2>1 DEF encode_license, Block
  <1>5. FlattenSeq(Dashed(blocks, n)) \in Seq(S)
    <2> HIDE DEF S
    <2>1. PICK out : Concats(out, Dashed(blocks, n), n) /\ FlattenSeq(Dashed(blocks, n)) = out[n]
      BY <1>3, FlattenLoop
    <2>2. \A k \in 0 .. n : out[k] \in Seq(S)
      BY <1>3, <2>1, ConcatsAt
    <2> QED BY <2>1, <2>2
  <1>6. LICENSE_PREFIX \in Seq(S)
    BY DEF LICENSE_PREFIX, Codes, Blank, Wide
  <1>7. PICK s \in Seq(S) : s = encode_license(lic)
    <2>1. PICK a, b : a = LICENSE_PREFIX /\ b = FlattenSeq(Dashed(blocks, n))
      OBVIOUS
    <2> HIDE DEF S
    <2>2. a \in Seq(S) /\ b \in Seq(S)
      BY <1>5, <1>6, <2>1
    <2>3. a \o b \in Seq(S)
      BY <2>2
    <2> QED BY <1>4, <2>1, <2>3
  <1>8. \A i \in 1 .. Len(s) : s[i] \in S
    <2> HIDE DEF S
    <2> QED BY ElementOfSeq
  <1> QED BY <1>7, <1>8

\* What the five blocks are decoded to is what they were encoded from.
LEMMA BlocksJoin ==
  ASSUME NEW lic, License(lic)
  PROVE  FlattenSeq([k \in 1 .. 5 |-> Block(lic, k)]) = lic
  <1>1. PICK n \in Nat, size \in Nat \ {0} : n = 5 /\ size = 5
    OBVIOUS
  <1>2. PICK seqs : seqs = [k \in 1 .. 5 |-> Block(lic, k)]
    OBVIOUS
  <1>3. \A k \in 1 .. 5 : seqs[k] = Block(lic, k)
    BY <1>2
  <1>4. seqs = [k \in 1 .. n |-> seqs[k]]
    BY <1>1, <1>2
  <1>5. \A k \in 1 .. n : seqs[k] = [i \in 1 .. size |-> seqs[k][i]]
    <2>1. ASSUME NEW k \in 1 .. 5 PROVE seqs[k] = [i \in 1 .. size |-> seqs[k][i]]
      <3>1. Block(lic, k) \in Seq(Bytes) /\ Len(Block(lic, k)) = size
        BY <1>1, BlockIs
      <3> QED BY <1>3, <3>1, SeqIs
    <2> QED BY <1>1, <2>1
  <1>6. FlattenSeq(seqs) = Joined(seqs, size, n)
    BY <1>4, <1>5, FlattenBlocks
  <1>7. Joined(seqs, size, n) = [j \in 1 .. 25 |-> seqs[((j - 1) \div 5) + 1][((j - 1) % 5) + 1]]
    BY <1>1 DEF Joined
  <1>8. ASSUME NEW j \in 1 .. 25
        PROVE  seqs[((j - 1) \div 5) + 1][((j - 1) % 5) + 1] = lic[j]
    <2>1. PICK d, r : d = (j - 1) \div 5 /\ r = (j - 1) % 5
      OBVIOUS
    <2>2. d \in Nat /\ r \in 0 .. 4 /\ j - 1 = d * 5 + r
      BY <2>1, DivMod
    <2>3. d + 1 \in 1 .. 5 /\ r + 1 \in 1 .. 5 /\ 5 * (d + 1) - 5 + (r + 1) = j
      BY <2>2
    <2>5. PICK k \in 1 .. 5, i \in 1 .. 5 : k = d + 1 /\ i = r + 1
      BY <2>3
    <2>6. \A h \in 1 .. 5 : Block(lic, k)[h] = lic[5 * k - 5 + h]
      BY BlockIs, ZenonT(60)
    <2>4. Block(lic, k)[i] = lic[5 * k - 5 + i]
      BY <2>6
    <2> QED BY <1>3, <2>1, <2>3, <2>4, <2>5
  <1>9. lic = [j \in 1 .. 25 |-> lic[j]]
    BY SeqIs DEF License
  <1>10. Joined(seqs, size, n) = [j \in 1 .. 25 |-> lic[j]]
    BY <1>7, <1>8
  <1> QED BY <1>2, <1>6, <1>9, <1>10

LEMMA EncodeDecodes ==
  ASSUME NEW lic, License(lic), NEW parts, parts = Split(encode_license(lic), {})
  PROVE  Layout(parts) /\ Blocks(parts) = lic
  <1>1. PICK e : e = Encoded(lic)
    OBVIOUS
  <1>2. PICK f : f = Firsts(e, 5)
    OBVIOUS
  <1>3. f = [i \in 1 .. 5 |-> f[i]] /\ \A i \in 1 .. 5 : f[i] = e[i]
    BY <1>2 DEF Firsts
  <1>4. parts = <<LICENSE_PREFIX>> \o f
    BY <1>1, <1>2, EncodeSplits
  <1>5. PICK n \in Nat, one \in Nat : n = 5 /\ one = 1
    OBVIOUS
  <1>6. PICK p : p = <<LICENSE_PREFIX>>
    OBVIOUS
  <1>7. p = [i \in 1 .. one |-> p[i]] /\ p[1] = LICENSE_PREFIX
    BY <1>5, <1>6
  <1>8. parts = [i \in 1 .. one + n |-> IF i <= one THEN p[i] ELSE f[i - one]]
    BY <1>3, <1>4, <1>5, <1>6, <1>7, ConcatFunction
  <1>9. Len(parts) = 6 /\ parts[1] = LICENSE_PREFIX
    BY <1>5, <1>7, <1>8
  <1>10. ASSUME NEW i \in 1 .. 5 PROVE parts[i + 1] = e[i]
    <2>1. PICK j \in 1 .. one + n : j = i + 1
      BY <1>5
    <2>2. ~(j <= one) /\ j - one = i
      BY <1>5, <2>1
    <2>3. parts[j] = f[j - one]
      BY <1>8, <2>2
    <2> QED BY <1>3, <2>1, <2>2, <2>3
  <1>11. ASSUME NEW i \in 2 .. 6
         PROVE  Len(parts[i]) = 8 /\ ToSet(parts[i]) \subseteq 0 .. 31
    <2>1. PICK k \in 1 .. 5 : i = k + 1
      OBVIOUS
    <2>2. PICK s : s = parts[i]
      OBVIOUS
    <2>3. s \in Seq(Letters) /\ Len(s) = 8
      BY <1>1, <1>10, <2>1, <2>2, EncodedType
    <2>4. ToSet(s) \subseteq Letters
      <3>1. \A j \in 1 .. 8 : s[j] \in Letters
        BY <2>3, ElementOfSeq
      <3>2. DOMAIN s = 1 .. 8
        BY <2>3
      <3> QED BY <3>1, <3>2 DEF ToSet
    <2> QED BY <2>2, <2>3, <2>4 DEF Letters
  <1>12. ASSUME NEW i \in 1 .. 5
         PROVE  Regrouped(SubSeq(parts[i + 1], 1, 8), 5, 8) = Block(lic, i)
    <2>1. PICK s : s = parts[i + 1]
      OBVIOUS
    <2>2. s \in Seq(Letters) /\ Len(s) = 8 /\ Regrouped(s, 5, 8) = Block(lic, i)
      BY <1>1, <1>10, <2>1, EncodedType
    <2>3. SubSeq(s, 1, 8) = s
      BY <2>2, SubSeqFull
    <2> QED BY <2>1, <2>2, <2>3
  <1>13. Layout(parts)
    BY <1>9, <1>11 DEF Layout
  <1>14. Blocks(parts) = FlattenSeq([k \in 1 .. 5 |-> Block(lic, k)])
    <2>1. [k \in 1 .. 5 |-> Regrouped(SubSeq(parts[k + 1], 1, 8), 5, 8)] =
            [k \in 1 .. 5 |-> Block(lic, k)]
      BY <1>12
    <2> QED BY <2>1 DEF Blocks
  <1> QED BY <1>13, <1>14, BlocksJoin

-----------------------------------------------------------------------------
(***************************************************************************)
(* Names.                                                                  *)
(***************************************************************************)
LEMMA LoweredIs ==
  ASSUME NEW s \in Seq(Codes)
  PROVE  /\ Lowered(s) \in Seq(Codes) /\ Len(Lowered(s)) = Len(s)
         /\ \A i \in 1 .. Len(s) :
              Lowered(s)[i] = IF s[i] \in 65 .. 90 THEN s[i] + 32 ELSE s[i]
  <1>1. PICK n \in Nat : n = Len(s)
    OBVIOUS
  <1>2. PICK t : t = Lowered(s)
    OBVIOUS
  <1>3. DOMAIN s = 1 .. n
    BY <1>1
  <1>4. t = [i \in 1 .. n |-> IF s[i] \in 65 .. 90 THEN s[i] + 32 ELSE s[i]]
    BY <1>2, <1>3 DEF Lowered
  <1>5. ASSUME NEW i \in 1 .. n
        PROVE  (IF s[i] \in 65 .. 90 THEN s[i] + 32 ELSE s[i]) \in Codes
    <2>1. PICK c \in Codes : c = s[i]
      BY <1>1, ElementOfSeq
    <2>2. c + 32 \in Codes
      BY DEF Codes
    <2> QED BY <2>1, <2>2
  <1>6. t \in [1 .. n -> Codes]
    BY <1>4, <1>5
  <1>7. t \in Seq(Codes) /\ Len(t) = n
    BY <1>6
  <1> QED BY <1>1, <1>2, <1>4, <1>7

\* A letter in either case is printable, and no white space.
InCases(c, d) == c \in 65 .. 90 /\ d = c + 32

LEMMA LetterFacts ==
  ASSUME NEW c, NEW d, InCases(c, d)
  PROVE  /\ c \in 32 .. 126 /\ c \notin White
         /\ d \in 32 .. 126 /\ d \notin White /\ d \notin 65 .. 90
  <1>1. c \in Nat /\ 65 <= c /\ c <= 90
    BY DEF InCases
  <1>2. c \in 32 .. 126 /\ d \in 32 .. 126 /\ d \notin 65 .. 90
    BY <1>1 DEF InCases
  <1>3. c \notin White
    BY <1>1 DEF White
  <1>4. d \notin White
    BY <1>1 DEF White, InCases
  <1> QED BY <1>2, <1>3, <1>4

\* A lowered text has the white space of the text, and is lowered.
LEMMA LoweredKeeps ==
  ASSUME NEW s \in Seq(Codes), NEW i \in 1 .. Len(s)
  PROVE  /\ Lowered(s)[i] \in White <=> s[i] \in White
         /\ Lowered(s)[i] \in 32 .. 126 <=> s[i] \in 32 .. 126
         /\ Lowered(s)[i] \notin 65 .. 90
  <1>1. PICK c \in Nat : c = s[i]
    <2>1. s[i] \in Codes
      BY ElementOfSeq
    <2> QED BY <2>1 DEF Codes
  <1>2. Lowered(s)[i] = IF c \in 65 .. 90 THEN c + 32 ELSE c
    BY <1>1, LoweredIs
  <1>3. CASE c \in 65 .. 90
    <2>1. PICK d : d = c + 32
      OBVIOUS
    <2>2. Lowered(s)[i] = d
      BY <1>2, <1>3, <2>1
    <2>3. /\ c \in 32 .. 126 /\ c \notin White
          /\ d \in 32 .. 126 /\ d \notin White /\ d \notin 65 .. 90
      <3>1. InCases(c, d)
        BY <1>3, <2>1 DEF InCases
      <3> QED BY <3>1, LetterFacts, ZenonT(60)
    <2>4. Lowered(s)[i] \in White <=> s[i] \in White
      BY <1>1, <2>2, <2>3, Zenon
    <2>5. Lowered(s)[i] \in 32 .. 126 <=> s[i] \in 32 .. 126
      BY <1>1, <2>2, <2>3, Zenon
    <2>6. Lowered(s)[i] \notin 65 .. 90
      BY <2>2, <2>3, Zenon
    <2> QED BY <2>4, <2>5, <2>6
  <1>4. CASE c \notin 65 .. 90
    BY <1>1, <1>2, <1>4
  <1> QED BY <1>3, <1>4

LEMMA LoweredTwice ==
  ASSUME NEW s \in Seq(Codes)
  PROVE  Lowered(Lowered(s)) = Lowered(s)
  <1>1. PICK t : t = Lowered(s)
    OBVIOUS
  <1>2. t \in Seq(Codes) /\ Len(t) = Len(s)
    BY <1>1, LoweredIs
  <1>3. PICK u : u = Lowered(t)
    OBVIOUS
  <1>4. u \in Seq(Codes) /\ Len(u) = Len(t)
    BY <1>2, <1>3, LoweredIs
  <1>5. ASSUME NEW i \in 1 .. Len(t) PROVE u[i] = t[i]
    <2>1. t[i] \notin 65 .. 90
      <3>1. i \in 1 .. Len(s)
        BY <1>2
      <3> QED BY <1>1, <3>1, LoweredKeeps
    <2>2. u[i] = IF t[i] \in 65 .. 90 THEN t[i] + 32 ELSE t[i]
      BY <1>2, <1>3, LoweredIs
    <2> QED BY <2>1, <2>2
  <1>6. u = t
    BY <1>2, <1>4, <1>5, SeqEqual
  <1> QED BY <1>1, <1>3, <1>6

\* What has all its characters printable.
Printable(s) == Len(s) \in 1 .. VM_USERNAME_CAP /\ ToSet(s) \subseteq 32 .. 126

LEMMA PrintableIs ==
  ASSUME NEW s \in Seq(Codes)
  PROVE  Printable(s) <=> /\ Len(s) \in 1 .. VM_USERNAME_CAP
                          /\ \A i \in 1 .. Len(s) : s[i] \in 32 .. 126
  <1>1. DOMAIN s = 1 .. Len(s)
    OBVIOUS
  <1>2. ToSet(s) = {s[i] : i \in 1 .. Len(s)}
    BY <1>1, Zenon DEF ToSet
  <1>3. ToSet(s) \subseteq 32 .. 126 <=> \A i \in 1 .. Len(s) : s[i] \in 32 .. 126
    <2>1. PICK R : R = 32 .. 126
      OBVIOUS
    <2>2. {s[i] : i \in 1 .. Len(s)} \subseteq R <=> \A i \in 1 .. Len(s) : s[i] \in R
      BY Zenon
    <2> QED BY <1>2, <2>1, <2>2, Zenon
  <1> QED BY <1>3, Zenon DEF Printable

LEMMA PrintableLowered ==
  ASSUME NEW s \in Seq(Codes)
  PROVE  Printable(Lowered(s)) <=> Printable(s)
  <1>1. PICK t : t = Lowered(s)
    OBVIOUS
  <1>2. t \in Seq(Codes) /\ Len(t) = Len(s)
    BY <1>1, LoweredIs
  <1>3. ASSUME NEW i \in 1 .. Len(s) PROVE t[i] \in 32 .. 126 <=> s[i] \in 32 .. 126
    BY <1>1, LoweredKeeps, ZenonT(60)
  <1>4. (\A i \in 1 .. Len(t) : t[i] \in 32 .. 126) <=> (\A i \in 1 .. Len(s) : s[i] \in 32 .. 126)
    BY <1>2, <1>3
  <1> QED BY <1>1, <1>2, <1>4, PrintableIs

LEMMA NormalizeIs ==
  ASSUME NEW raw
  PROVE  ClientNormalizes(raw) =
           IF Printable(Trimmed(raw, White)) THEN {Lowered(Trimmed(raw, White))} ELSE {}
  BY DEF ClientNormalizes, Printable

\* The server does what the client does, to what NFC makes of the name.
LEMMA ServerIs ==
  ASSUME NEW raw
  PROVE  ServerNormalizes(raw) = ClientNormalizes(NFC(raw))
  BY DEF ServerNormalizes, ClientNormalizes

\* A normalised name is its own normal form.
LEMMA NormalizeTwice ==
  ASSUME NEW raw \in Seq(Codes), NEW user \in ClientNormalizes(raw)
  PROVE  user \in Seq(Codes) /\ ClientNormalizes(user) = {user}
  <1>1. PICK s : s = Trimmed(raw, White)
    OBVIOUS
  <1>2. s \in Seq(Codes)
    BY <1>1, TrimmedType
  <1>3. Printable(s) /\ user = Lowered(s)
    BY <1>1, NormalizeIs
  <1>4. user \in Seq(Codes) /\ Len(user) = Len(s)
    BY <1>2, <1>3, LoweredIs
  <1>5. Trimmed(user, White) = user
    <2>1. s # <<>> /\ Len(s) >= 1
      <3>1. Len(s) \in 1 .. VM_USERNAME_CAP
        BY <1>2, <1>3, PrintableIs
      <3> QED BY <1>2, <3>1, EmptySeq
    <2>2. s[1] \notin White /\ s[Len(s)] \notin White
      <3>1. PICK space : space = White
        OBVIOUS
      <3>2. \E pre, mid, post \in Seq(Codes) :
              /\ raw = (pre \o mid) \o post /\ mid = Trimmed(raw, space)
              /\ \A i \in 1 .. Len(pre) : pre[i] \in space
              /\ \A i \in 1 .. Len(post) : post[i] \in space
              /\ mid = <<>> \/ (mid[1] \notin space /\ mid[Len(mid)] \notin space)
        BY TrimmedParts
      <3> QED BY <1>1, <2>1, <3>1, <3>2
    <2>3. user[1] \notin White /\ user[Len(user)] \notin White
      <3>1. 1 \in 1 .. Len(s) /\ Len(s) \in 1 .. Len(s)
        BY <1>2, <2>1
      <3>2. user[1] \in White <=> s[1] \in White
        BY <1>2, <1>3, <3>1, LoweredKeeps
      <3>3. user[Len(s)] \in White <=> s[Len(s)] \in White
        <4>1. PICK l \in 1 .. Len(s) : l = Len(s)
          BY <3>1
        <4>2. user[l] \in White <=> s[l] \in White
          BY <1>2, <1>3, LoweredKeeps
        <4> QED BY <4>1, <4>2
      <3> QED BY <1>4, <2>2, <3>2, <3>3
    <2> QED BY <1>4, <2>3, TrimmedSame
  <1>6. Printable(user)
    BY <1>2, <1>3, PrintableLowered
  <1>7. Lowered(user) = user
    BY <1>2, <1>3, LoweredTwice
  <1>8. ClientNormalizes(user) = {Lowered(user)}
    BY <1>5, <1>6, NormalizeIs
  <1> QED BY <1>4, <1>7, <1>8

Ascii == 0 .. 127

LEMMA NFCIs ==
  ASSUME NEW s \in Seq(Codes)
  PROVE  /\ NFC(s) \in Seq(Codes)
         /\ (\A i \in 1 .. Len(s) : s[i] \in Ascii) => NFC(s) = s
  <1>1. PICK n \in Nat : n = Len(s) /\ DOMAIN s = 1 .. n
    OBVIOUS
  <1>2. PICK t : t = NFC(s)
    OBVIOUS
  <1>3. t = [i \in 1 .. n |-> CASE s[i] = 8490 -> 75
                                [] s[i] = 894 -> 59
                                [] s[i] = 8175 -> 96
                                [] OTHER         -> s[i]]
    BY <1>1, <1>2 DEF NFC
  <1>4. ASSUME NEW i \in 1 .. n
        PROVE  t[i] \in Codes /\ (s[i] \in Ascii => t[i] = s[i])
    <2>1. PICK c \in Nat : c = s[i]
      <3>1. s[i] \in Codes
        BY <1>1, ElementOfSeq
      <3> QED BY <3>1 DEF Codes
    <2>2. t[i] = CASE c = 8490 -> 75 [] c = 894 -> 59 [] c = 8175 -> 96 [] OTHER -> c
      BY <1>3, <2>1
    <2>3. CASE c = 8490
      <3>1. t[i] = 75 /\ c \notin 0 .. 127
        BY <2>2, <2>3
      <3>2. s[i] \notin Ascii
        BY <2>1, <3>1 DEF Ascii
      <3>3. t[i] \in Codes
        BY <3>1 DEF Codes
      <3> QED BY <3>2, <3>3
    <2>4. CASE c = 894
      <3>1. t[i] = 59 /\ c \notin 0 .. 127
        BY <2>2, <2>4
      <3>2. s[i] \notin Ascii
        BY <2>1, <3>1 DEF Ascii
      <3>3. t[i] \in Codes
        BY <3>1 DEF Codes
      <3> QED BY <3>2, <3>3
    <2>5. CASE c = 8175
      <3>1. t[i] = 96 /\ c \notin 0 .. 127
        BY <2>2, <2>5
      <3>2. s[i] \notin Ascii
        BY <2>1, <3>1 DEF Ascii
      <3>3. t[i] \in Codes
        BY <3>1 DEF Codes
      <3> QED BY <3>2, <3>3
    <2>6. CASE c # 8490 /\ c # 894 /\ c # 8175
      <3>1. t[i] = c
        BY <2>2, <2>6
      <3> QED BY <2>1, <3>1 DEF Codes
    <2> QED BY <2>3, <2>4, <2>5, <2>6
  <1>5. t = [i \in 1 .. n |-> t[i]]
    BY <1>3
  <1>6. t \in [1 .. n -> Codes]
    BY <1>4, <1>5
  <1>7. t \in Seq(Codes) /\ Len(t) = n
    BY <1>6
  <1>8. ASSUME \A i \in 1 .. n : s[i] \in Ascii PROVE t = s
    <2>1. \A i \in 1 .. Len(t) : t[i] = s[i]
      BY <1>4, <1>7, <1>8
    <2> QED BY <1>1, <1>7, <2>1, SeqEqual
  <1> QED BY <1>1, <1>2, <1>7, <1>8

\* What the client takes is spelled in ASCII.
LEMMA TakenIsAscii ==
  ASSUME NEW raw \in Seq(Codes), ClientNormalizes(raw) # {}
  PROVE  \A i \in 1 .. Len(raw) : raw[i] \in Ascii
  <1>1. PICK s : s = Trimmed(raw, White)
    OBVIOUS
  <1>2. s \in Seq(Codes) /\ Printable(s)
    BY <1>1, TrimmedType, NormalizeIs
  <1>3. Len(s) \in Nat /\ Len(s) >= 1 /\ \A i \in 1 .. Len(s) : s[i] \in 32 .. 126
    BY <1>2, PrintableIs
  <1>4. s # <<>>
    BY <1>2, <1>3, EmptySeq
  <1>5. PICK space : space = White
    OBVIOUS
  <1>6. PICK a, b : Ends1(raw, space, a, b) /\ s = SubSeq(raw, a, b)
    BY <1>1, <1>4, <1>5, TrimmedIs
  <1>7. PICK n \in Nat : n = Len(raw)
    OBVIOUS
  <1>8. /\ a \in 1 .. n /\ b \in 1 .. n /\ a <= b
        /\ \A i \in 1 .. n : raw[i] \notin White => a <= i /\ i <= b
    BY <1>5, <1>6, <1>7 DEF Ends1
  <1>9. /\ Len(s) = b - a + 1
        /\ \A k \in 1 .. b - a + 1 : s[k] = raw[a + k - 1]
    <2>1. \A i \in a .. b : raw[i] \in Codes
      BY <1>7, <1>8
    <2>2. /\ Len(SubSeq(raw, a, b)) = IF a <= b THEN b - a + 1 ELSE 0
          /\ \A k \in 1 .. b - a + 1 : SubSeq(raw, a, b)[k] = raw[a + k - 1]
      BY <1>8, <2>1, SubSeqProperties
    <2> QED BY <1>6, <1>8, <2>2
  <1>10. ASSUME NEW i \in 1 .. n PROVE raw[i] \in Ascii
    <2>1. CASE raw[i] \in White
      BY <2>1 DEF White, Ascii
    <2>2. CASE raw[i] \notin White
      <3>1. PICK k \in 1 .. b - a + 1 : a + k - 1 = i
        <4>1. a <= i /\ i <= b
          BY <1>8, <2>2
        <4>2. i - a + 1 \in 1 .. b - a + 1 /\ a + (i - a + 1) - 1 = i
          BY <1>8, <4>1
        <4> QED BY <4>2
      <3>2. s[k] = raw[i]
        BY <1>9, <3>1
      <3>3. s[k] \in 32 .. 126
        BY <1>3, <1>9
      <3>4. \A c \in 32 .. 126 : c \in Ascii
        BY DEF Ascii
      <3> QED BY <3>2, <3>3, <3>4
    <2> QED BY <2>1, <2>2
  <1> QED BY <1>7, <1>10

\* The server's own normalisation leaves a name that was normalised as it is.
LEMMA ServerKeeps ==
  ASSUME NEW raw \in Seq(Codes), NEW user \in ClientNormalizes(raw)
  PROVE  ServerNormalizes(user) = {user}
  <1>1. user \in Seq(Codes) /\ ClientNormalizes(user) = {user}
    BY NormalizeTwice
  <1>2. \A i \in 1 .. Len(user) : user[i] \in Ascii
    BY <1>1, TakenIsAscii
  <1>3. NFC(user) = user
    BY <1>1, <1>2, NFCIs
  <1> QED BY <1>1, <1>3, ServerIs

\* Spellings of one name have one normal form.
LEMMA SameNormal ==
  ASSUME NEW a \in Seq(Codes), NEW b \in Seq(Codes),
         Lowered(Trimmed(a, White)) = Lowered(Trimmed(b, White))
  PROVE  ClientNormalizes(a) = ClientNormalizes(b)
  <1>1. Trimmed(a, White) \in Seq(Codes) /\ Trimmed(b, White) \in Seq(Codes)
    BY TrimmedType
  <1>2. Printable(Trimmed(a, White)) <=> Printable(Trimmed(b, White))
    BY <1>1, PrintableLowered
  <1> QED BY <1>2, NormalizeIs

-----------------------------------------------------------------------------
(***************************************************************************)
(* What is typed stays a text, however it is edited, cut or left out.      *)
(***************************************************************************)
\* A slice of a text.
LEMMA CutIs ==
  ASSUME NEW s \in Seq(Codes), NEW a \in Nat, NEW b \in Nat, a >= 1, b <= Len(s)
  PROVE  SubSeq(s, a, b) \in Seq(Codes)
  <1>1. PICK n \in Nat : n = Len(s)
    OBVIOUS
  <1>2. ASSUME NEW i \in a .. b PROVE s[i] \in Codes
    <2>1. i \in 1 .. Len(s)
      BY <1>1
    <2> QED BY <2>1, ElementOfSeq
  <1>3. a \in Int /\ b \in Int /\ \A i \in a .. b : s[i] \in Codes
    BY <1>2
  <1> QED BY <1>3, SubSeqProperties

LEMMA OneIs ==
  ASSUME NEW c \in Codes
  PROVE  <<c>> \in Seq(Codes)
  OBVIOUS

LEMMA InsertedIs ==
  ASSUME NEW s \in Seq(Codes), NEW i \in 1 .. Len(s), NEW c \in Codes
  PROVE  InsertAt(s, i, c) \in Seq(Codes)
  <1>1. PICK n \in Nat : n = Len(s)
    OBVIOUS
  <1>2. i \in Nat /\ i - 1 \in Nat /\ i >= 1 /\ i - 1 <= n /\ n <= n /\ 1 \in Nat /\ 1 >= 1
    BY <1>1
  <1>3. SubSeq(s, 1, i - 1) \in Seq(Codes) /\ SubSeq(s, i, n) \in Seq(Codes)
    BY <1>1, <1>2, CutIs
  <1>4. SubSeq(s, 1, i - 1) \o <<c>> \in Seq(Codes)
    BY <1>3, OneIs, ConcatProperties
  <1>5. (SubSeq(s, 1, i - 1) \o <<c>>) \o SubSeq(s, i, n) \in Seq(Codes)
    BY <1>3, <1>4, ConcatProperties
  <1> QED BY <1>1, <1>5 DEF InsertAt

LEMMA RemovedIs ==
  ASSUME NEW s \in Seq(Codes), NEW i \in 1 .. Len(s)
  PROVE  RemoveAt(s, i) \in Seq(Codes)
  <1>1. PICK n \in Nat : n = Len(s)
    OBVIOUS
  <1>2. i + 1 \in Nat /\ i - 1 \in Nat /\ i + 1 >= 1 /\ i - 1 <= n /\ n <= n /\ 1 \in Nat /\ 1 >= 1
    BY <1>1
  <1>3. SubSeq(s, 1, i - 1) \in Seq(Codes) /\ SubSeq(s, i + 1, n) \in Seq(Codes)
    BY <1>1, <1>2, CutIs
  <1>4. SubSeq(s, 1, i - 1) \o SubSeq(s, i + 1, n) \in Seq(Codes)
    BY <1>3, ConcatProperties
  <1> QED BY <1>1, <1>4 DEF RemoveAt

\* A line, up to its end.
LEMMA UntilIs ==
  ASSUME NEW s \in Seq(Codes), NEW symbol
  PROVE  Until(s, symbol) \in Seq(Codes)
  <1>1. PICK n \in Nat : n = Len(s)
    OBVIOUS
  <1>2. CASE Contains(s, symbol)
    <2>1. DOMAIN s = 1 .. n
      BY <1>1
    <2>2. Places(s, symbol) \subseteq 1 .. n
      BY <2>1 DEF Places
    <2>3. Places(s, symbol) # {}
      BY <1>1, <1>2, <2>1 DEF Contains, Places
    <2>4. \E x \in Places(s, symbol) : \A y \in Places(s, symbol) : x <= y
      <3>1. Places(s, symbol) \subseteq Nat
        BY <2>2
      <3> QED BY <2>3, <3>1, NatMin
    <2>5. PICK f : f = First(Places(s, symbol))
      OBVIOUS
    <2>6. f \in 1 .. n
      BY <2>2, <2>4, <2>5 DEF First
    <2>7. f - 1 \in Nat /\ f - 1 <= n /\ 1 \in Nat /\ 1 >= 1
      BY <2>6
    <2>8. SubSeq(s, 1, f - 1) \in Seq(Codes)
      BY <1>1, <2>7, CutIs
    <2> QED BY <1>2, <2>5, <2>8 DEF Until
  <1>3. CASE ~Contains(s, symbol)
    BY <1>3 DEF Until
  <1> QED BY <1>2, <1>3

\* The smaller of two numbers.
LEMMA MinIs ==
  ASSUME NEW a \in Nat, NEW b \in Nat
  PROVE  Min({a, b}) \in Nat /\ Min({a, b}) <= a /\ Min({a, b}) <= b
  <1>1. PICK T : T = {a, b}
    OBVIOUS
  <1>2. T \subseteq Nat /\ T # {} /\ a \in T /\ b \in T
    BY <1>1
  <1>3. \E x \in T : \A y \in T : x <= y
    BY <1>2, NatMin
  <1>4. PICK m : m = Min(T)
    OBVIOUS
  <1>5. m \in T /\ \A y \in T : m <= y
    BY <1>3, <1>4 DEF Min
  <1> QED BY <1>1, <1>2, <1>4, <1>5

Lines == Seq(Codes)

\* The type invariant: a name and a license as typed, and a name the license
\* can be made for.
AppTyped ==
  /\ author \in Lines /\ name \in Lines /\ text \in Lines
  /\ ServerNormalizes(author) # {}
  /\ given.name \in Lines /\ given.license \in Lines
  /\ given = [name |-> given.name, license |-> given.license]

LEMMA LinesAre == <<>> \in Lines /\ <<45, 45>> \in Lines /\ <<Other>> \in Lines
  BY DEF Lines, Codes, Other

LEMMA DecoyTyped ==
  ASSUME AppTyped
  PROVE  DecoyLicense \in Lines
  <1>1. PICK s \in Seq(Codes) : s = given.license
    BY DEF AppTyped, Lines
  <1>2. Len(s) \in Nat /\ DecoyLength \in Nat
    BY ImageAssumption
  <1>3. PICK m : m = Min({DecoyLength, Len(s)})
    OBVIOUS
  <1>4. m \in Nat /\ m <= Len(s) /\ 1 \in Nat /\ 1 >= 1
    BY <1>2, <1>3, MinIs
  <1>5. SubSeq(s, 1, m) \in Seq(Codes)
    BY <1>4, CutIs
  <1> QED BY <1>1, <1>3, <1>5 DEF DecoyLicense, Lines

\* The license of a name.
LEMMA MadeIs ==
  ASSUME NEW user \in Seq(Codes)
  PROVE  /\ License(build_license_struct(user))
         /\ encode_license(build_license_struct(user)) \in Lines
  <1>1. License(build_license_struct(user))
    BY BuiltIsValid DEF License
  <1> QED BY <1>1, EncodeSplits DEF Lines

LEMMA NamesAre ==
  ASSUME NEW n \in Names
  PROVE  n \in Lines
  BY LicenseAssumption DEF Lines, Codes

LEMMA InitTyped ==
  ASSUME AppInit
  PROVE  AppTyped
  <1>1. author \in Lines /\ name \in Lines /\ ServerNormalizes(author) # {}
    BY NamesAre DEF AppInit, Init
  <1>2. text \in Lines
    <2>1. PICK user \in ServerNormalizes(author) :
            text = encode_license(build_license_struct(user))
      BY DEF AppInit, Init
    <2>2. user \in Seq(Codes)
      <3>1. NFC(author) \in Seq(Codes) /\ ServerNormalizes(author) = ClientNormalizes(NFC(author))
        BY <1>1, NFCIs, ServerIs DEF Lines
      <3> QED BY <3>1, NormalizeTwice
    <2> QED BY <2>1, <2>2, MadeIs
  <1>3. given = [name |-> <<>>, license |-> <<>>]
    BY DEF AppInit
  <1> QED BY <1>1, <1>2, <1>3, LinesAre DEF AppTyped

\* Where the self-checks ran, their report is that of the program in memory.
ReportKept ==
  /\ stage \in {"typing", "parse", "init", "guards"} => report = NoReport
  /\ stage = "name" /\ report # NoReport =>
       image \in Image /\ report = run_anti_tamper(image)

\* The decoys were asked about the name and the license that are used.
CodeKept == stage = "decode" => code = decoy_preflight(given.name, DecoyLicense)

AppInv == AppTyped /\ ReportKept /\ CodeKept

AppVars == <<vars, appVars>>

Texts1 == <<author, name, text>>

\* A step that leaves the typed texts and what was given alone.
LEMMA GivenKept ==
  ASSUME AppTyped, UNCHANGED Texts1, UNCHANGED given
  PROVE  AppTyped'
  <1>1. author' = author /\ name' = name /\ text' = text /\ given' = given
    BY DEF Texts1
  <1> QED BY <1>1 DEF AppTyped

\* An edit leaves a text.
LEMMA EditTyped ==
  ASSUME AppTyped, Typing
  PROVE  AppTyped'
  <1>1. author' = author /\ name' = name /\ given' = given
    BY DEF Typing, Next, Alter, Insert, Drop, AppendChar, Edits, appVars
  <1>2. text \in Seq(Codes) /\ DOMAIN text = 1 .. Len(text)
    BY DEF AppTyped, Lines
  <1>3. Noise \subseteq Codes
    BY LicenseAssumption DEF Codes
  <1>4. text' \in Seq(Codes)
    <2>1. ASSUME NEW i \in DOMAIN text, NEW c \in Noise, Alter(i, c)
          PROVE  text' \in Seq(Codes)
      <3>1. text' = [text EXCEPT ![i] = c]
        BY <2>1 DEF Alter, Edits
      <3>2. i \in 1 .. Len(text) /\ c \in Codes
        BY <1>2, <1>3
      <3>3. [text EXCEPT ![i] = c] \in Seq(Codes)
        BY <1>2, <3>2, ExceptSeq
      <3> QED BY <3>1, <3>3
    <2>2. ASSUME NEW i \in DOMAIN text, NEW c \in Noise, Insert(i, c)
          PROVE  text' \in Seq(Codes)
      <3>1. text' = InsertAt(text, i, c)
        BY <2>2 DEF Insert, Edits
      <3>2. i \in 1 .. Len(text) /\ c \in Codes
        BY <1>2, <1>3
      <3> QED BY <1>2, <3>1, <3>2, InsertedIs
    <2>3. ASSUME NEW i \in DOMAIN text, Drop(i)
          PROVE  text' \in Seq(Codes)
      <3>1. text' = RemoveAt(text, i)
        BY <2>3 DEF Drop, Edits
      <3>2. i \in 1 .. Len(text)
        BY <1>2
      <3> QED BY <1>2, <3>1, <3>2, RemovedIs
    <2>4. ASSUME NEW c \in Noise, AppendChar(c)
          PROVE  text' \in Seq(Codes)
      <3>1. text' = Append(text, c)
        BY <2>4 DEF AppendChar, Edits
      <3>2. c \in Codes
        BY <1>3
      <3> QED BY <1>2, <3>1, <3>2, AppendProperties
    <2> QED BY <2>1, <2>2, <2>3, <2>4 DEF Typing, Next
  <1> QED BY <1>1, <1>4 DEF AppTyped, Lines

\* What is given at a prompt or on the command line is a text.
LEMMA GetNameTyped ==
  ASSUME AppTyped, GetName
  PROVE  AppTyped'
  <1>1. UNCHANGED Texts1
    BY DEF GetName, vars, Texts1
  <1>2. PICK line \in IF "username" \in args.set THEN {NameOf(args.username)} ELSE NameLines :
          given' = [given EXCEPT !.name = line]
    BY DEF GetName
  <1>3. line \in Lines
    <2>1. name \in Lines
      BY DEF AppTyped
    <2>2. NameOf(args.username) \in Lines
      BY <2>1, LinesAre DEF NameOf
    <2>3. Until(name, 10) \in Lines
      BY <2>1, UntilIs DEF Lines
    <2>4. NameLines \subseteq Lines
      BY <2>3, LinesAre DEF NameLines
    <2> QED BY <1>2, <2>2, <2>4
  <1>4. given' = [name |-> line, license |-> given.license]
    BY <1>2 DEF AppTyped
  <1> QED BY <1>1, <1>3, <1>4 DEF AppTyped, Texts1

LEMMA GetLicenseTyped ==
  ASSUME AppTyped, GetLicense
  PROVE  AppTyped'
  <1>1. UNCHANGED Texts1
    BY DEF GetLicense, vars, Texts1
  <1>2. PICK line \in IF "license" \in args.set THEN {LicenseOf(args.license)}
                     ELSE LicenseLines :
          given' = [given EXCEPT !.license = line]
    BY DEF GetLicense
  <1>3. line \in Lines
    <2>1. text \in Lines
      BY DEF AppTyped
    <2>2. LicenseOf(args.license) \in Lines
      BY <2>1, LinesAre DEF LicenseOf
    <2>3. LicenseLines \subseteq Lines
      BY <2>1, LinesAre DEF LicenseLines
    <2> QED BY <1>2, <2>2, <2>3
  <1>4. given' = [name |-> given.name, license |-> line]
    BY <1>2 DEF AppTyped
  <1> QED BY <1>1, <1>3, <1>4 DEF AppTyped, Texts1

\* The steps that leave both alone.
LEMMA RunKeepsTexts ==
  ASSUME AppTyped,
         \/ \E words \in Argv : Launch(words)
         \/ ParseSwitch \/ ParseValue \/ ParseThrows \/ ParseEnds
         \/ InitCrypto
         \/ \E memory \in Image, watched \in BOOLEAN : RunGuards(memory, watched)
         \/ Preflight \/ Decode
         \/ \E reply \in Answer \cup {NoAnswer} : Connect(reply)
         \/ \E fails \in BOOLEAN : Session(fails)
  PROVE  AppTyped'
  <1>1. UNCHANGED vars /\ UNCHANGED given
    BY DEF Launch, ParseSwitch, ParseValue, ParseThrows, ParseEnds, InitCrypto, RunGuards,
           Preflight, Decode, Connect, Session
  <1>2. UNCHANGED Texts1
    BY <1>1 DEF vars, Texts1
  <1> QED BY <1>1, <1>2, GivenKept

LEMMA StepTyped ==
  ASSUME AppTyped, AppNext
  PROVE  AppTyped'
  BY EditTyped, GetNameTyped, GetLicenseTyped, RunKeepsTexts DEF AppNext, Running

\* The report of a run that has not come to the self-checks, or has just left them.
LEMMA ReportStep ==
  ASSUME ReportKept, AppNext
  PROVE  ReportKept'
  <1>1. CASE Typing
    BY <1>1 DEF Typing, appVars, ReportKept, NoReport
  <1>2. CASE \E words \in Argv : Launch(words)
    BY <1>2 DEF Launch, Goes, ReportKept, NoReport
  <1>3. CASE ParseSwitch \/ ParseValue
    BY <1>3 DEF ParseSwitch, ParseValue, ReportKept, NoReport
  <1>4. CASE ParseThrows \/ ParseEnds
    BY <1>4 DEF ParseThrows, ParseEnds, Ends, Goes, ReportKept, NoReport
  <1>5. CASE InitCrypto
    BY <1>5 DEF InitCrypto, Ends, Goes, ReportKept, NoReport
  <1>6. CASE \E memory \in Image, watched \in BOOLEAN : RunGuards(memory, watched)
    <2>1. PICK memory \in Image : image' = memory /\ report' = run_anti_tamper(memory)
                                  /\ stage' = "name"
      BY <1>6 DEF RunGuards, Goes
    <2>2. run_anti_tamper(memory) = run_anti_tamper(image)'
      BY <2>1
    <2> QED BY <2>1, <2>2 DEF ReportKept
  <1>7. CASE \/ GetName \/ GetLicense \/ Preflight \/ Decode
             \/ \E reply \in Answer \cup {NoAnswer} : Connect(reply)
             \/ \E fails \in BOOLEAN : Session(fails)
    <2>1. stage' \in {"license", "preflight", "decode", "connect", "session", "done"}
      BY <1>7 DEF GetName, GetLicense, Preflight, Decode, Connect, Session, Denied, Ends, Goes
    <2> QED BY <2>1 DEF ReportKept
  <1> QED BY <1>1, <1>2, <1>3, <1>4, <1>5, <1>6, <1>7 DEF AppNext, Running

LEMMA CodeStep ==
  ASSUME CodeKept, AppNext
  PROVE  CodeKept'
  <1>1. CASE Preflight
    <2>1. code' = decoy_preflight(given.name, DecoyLicense) /\ given' = given
      BY <1>1 DEF Preflight
    <2>2. DecoyLicense' = DecoyLicense
      BY <2>1 DEF DecoyLicense
    <2> QED BY <2>1, <2>2 DEF CodeKept
  <1>2. CASE ~Preflight
    <2>1. stage' # "decode"
      <3>1. CASE Typing
        BY <3>1 DEF Typing, appVars
      <3>2. CASE (\E words \in Argv : Launch(words)) \/ ParseSwitch \/ ParseValue
        BY <3>2 DEF Launch, ParseSwitch, ParseValue, Goes
      <3>3. CASE ParseThrows \/ ParseEnds \/ InitCrypto
        BY <3>3 DEF ParseThrows, ParseEnds, InitCrypto, Ends, Goes
      <3>4. CASE \E memory \in Image, watched \in BOOLEAN : RunGuards(memory, watched)
        BY <3>4 DEF RunGuards, Goes
      <3>5. CASE \/ GetName \/ GetLicense \/ Decode
                 \/ \E reply \in Answer \cup {NoAnswer} : Connect(reply)
                 \/ \E fails \in BOOLEAN : Session(fails)
        BY <3>5 DEF GetName, GetLicense, Decode, Connect, Session, Denied, Ends, Goes
      <3> QED BY <1>2, <3>1, <3>2, <3>3, <3>4, <3>5 DEF AppNext, Running
    <2> QED BY <2>1 DEF CodeKept
  <1> QED BY <1>1, <1>2

\* The typed texts stay texts whatever is edited and wherever run_app is, and the
\* report and the preflight code are of the program and of the inputs of this run.
THEOREM AppInvariant == AppSpec => []AppInv
  <1>1. AppInit => AppInv
    <2>1. ASSUME AppInit PROVE ReportKept /\ CodeKept
      BY <2>1 DEF AppInit, ReportKept, CodeKept
    <2> QED BY <2>1, InitTyped DEF AppInv
  <1>2. AppInv /\ [AppNext]_<<vars, appVars>> => AppInv'
    <2>1. CASE AppNext
      BY <2>1, StepTyped, ReportStep, CodeStep DEF AppInv
    <2>2. CASE UNCHANGED <<vars, appVars>>
      <3>1. /\ UNCHANGED Texts1 /\ given' = given /\ stage' = stage /\ report' = report
            /\ image' = image /\ code' = code
        BY <2>2 DEF vars, appVars, Texts1
      <3>2. AppInv => AppTyped'
        BY <3>1, GivenKept DEF AppInv
      <3>3. run_anti_tamper(image)' = run_anti_tamper(image) /\ DecoyLicense' = DecoyLicense
        BY <3>1 DEF DecoyLicense
      <3> QED BY <3>1, <3>2, <3>3 DEF AppInv, ReportKept, CodeKept, NoReport
    <2> QED BY <2>1, <2>2
  <1> QED BY <1>1, <1>2, PTL DEF AppSpec
-----------------------------------------------------------------------------
(***************************************************************************)
(* Names and licenses.                                                     *)
(***************************************************************************)
\* The client splits a text that has white space at its ends only as the server
\* splits what it has trimmed.
LEMMA BothSplit ==
  ASSUME NEW s \in Seq(Codes), ~Contains(Trimmed(s, {Blank}), Blank)
  PROVE  Split(s, {Blank}) = Split(Trimmed(s, {Blank}), {})
  <1>1. \A i \in 1 .. Len(Trimmed(s, {Blank})) : Trimmed(s, {Blank})[i] # Blank
    BY DEF Contains
  <1> QED BY <1>1, SplitTrimmed

\* The two decoders take the same texts for the same bytes, the version aside,
\* when white space is only around them and of the kinds both know: decode_license
\* of the client drops it wherever it is, verifier.decode_license strips the ends.
\* A text with white space that only str.strip knows is nothing to the client.
THEOREM DecodersAgreeAlways == AppSpec => []DecodersAgree
  <1>1. AppInv => DecodersAgree
    <2> SUFFICES ASSUME AppInv, ~Contains(Trimmed(text, {Blank, Wide}), Blank)
                 PROVE  ClientDecodes(text) =
                          IF Contains(text, Wide) THEN {}
                          ELSE {s \in ServerDecodes(text) : s[1] = LICENSE_VERSION}
      BY DEF DecodersAgree
    <2>1. text \in Seq(Codes)
      BY DEF AppInv, AppTyped, Lines
    <2>2. PICK parts : parts = Split(text, {Blank})
      OBVIOUS
    <2>3. ClientDecodes(text) =
            IF Layout(parts) /\ Blocks(parts)[1] = LICENSE_VERSION THEN {Blocks(parts)} ELSE {}
      BY <2>2 DEF ClientDecodes
    <2>4. CASE Contains(text, Wide)
      <3>1. ~Layout(parts)
        BY <2>1, <2>2, <2>4, WideBreaks
      <3> QED BY <2>3, <2>4, <3>1
    <2>5. CASE ~Contains(text, Wide)
      <3>1. Trimmed(text, {Blank, Wide}) = Trimmed(text, {Blank})
        BY <2>1, <2>5, TrimmedAlike
      <3>2. parts = Split(Trimmed(text, {Blank}), {})
        BY <2>1, <2>2, <3>1, BothSplit
      <3>3. ServerDecodes(text) = IF Layout(parts) THEN {Blocks(parts)} ELSE {}
        BY <3>1, <3>2 DEF ServerDecodes
      <3> QED BY <2>3, <2>5, <3>3
    <2> QED BY <2>4, <2>5
  <1> QED BY <1>1, AppInvariant, PTL

\* A name as it is sent, and the same name normalised once more by the server.
LEMMA SentIs ==
  ASSUME NEW raw \in Seq(Codes), NEW user, ClientNormalizes(raw) = {user}
  PROVE  user \in Seq(Codes) /\ ClientNormalizes(user) = {user}
  BY NormalizeTwice

LEMMA OneNormal ==
  ASSUME NEW raw, ClientNormalizes(raw) # {}
  PROVE  \E user : ClientNormalizes(raw) = {user}
  BY NormalizeIs

\* A text that is a license and white space around it is read as the license.
LEMMA LicenseIsRead ==
  ASSUME NEW s \in Seq(Codes), NEW user \in Seq(Codes),
         Trimmed(s, {Blank}) = encode_license(build_license_struct(user))
  PROVE  ClientDecodes(s) = {build_license_struct(user)}
  <1>1. PICK lic : lic = build_license_struct(user)
    OBVIOUS
  <1>2. License(lic)
    BY <1>1, MadeIs
  <1>3. ~Contains(Trimmed(s, {Blank}), Blank)
    BY <1>1, <1>2, EncodeSolid DEF Contains
  <1>4. PICK parts : parts = Split(s, {Blank})
    OBVIOUS
  <1>5. parts = Split(encode_license(lic), {})
    BY <1>1, <1>3, <1>4, BothSplit
  <1>6. Layout(parts) /\ Blocks(parts) = lic
    BY <1>2, <1>5, EncodeDecodes
  <1>7. lic[1] = LICENSE_VERSION
    BY <1>1, BuiltIsValid
  <1> QED BY <1>1, <1>4, <1>6, <1>7 DEF ClientDecodes

\* The two normalisers agree on every spelling in ASCII, and on no other: what the
\* client sends is what the server makes of the same spelling, the server's own
\* normalisation changes nothing more of it, and where only the server takes a
\* spelling it has a character beyond ASCII.
THEOREM NormalizersAgreeAlways == AppSpec => []NormalizersAgree
  <1>1. AppInv => NormalizersAgree
    <2> SUFFICES ASSUME AppInv PROVE NormalizersAgree
      OBVIOUS
    <2>1. name \in Seq(Codes)
      BY DEF AppInv, AppTyped, Lines
    <2>2. CASE \A i \in 1 .. Len(name) : name[i] \in Ascii
      <3>1. ServerNormalizes(name) = ClientNormalizes(name)
        BY <2>1, <2>2, NFCIs, ServerIs
      <3>2. ASSUME NEW user \in ClientNormalizes(name)
            PROVE  ServerNormalizes(user) = ClientNormalizes(name)
        <4>1. ServerNormalizes(user) = {user}
          BY <2>1, ServerKeeps
        <4>2. ClientNormalizes(name) = {user}
          BY NormalizeIs
        <4> QED BY <4>1, <4>2
      <3> QED BY <3>1, <3>2 DEF NormalizersAgree
    <2>3. CASE ~ \A i \in 1 .. Len(name) : name[i] \in Ascii
      <3>1. ClientNormalizes(name) = {}
        BY <2>1, <2>3, TakenIsAscii
      <3>2. \E c \in ToSet(name) : c > 127
        <4>1. PICK i \in 1 .. Len(name) : name[i] \notin Ascii
          BY <2>3
        <4>2. PICK d \in Nat : d = name[i]
          BY <2>1, ElementOfSeq DEF Codes
        <4>5. d \notin 0 .. 127
          BY <4>1, <4>2 DEF Ascii
        <4>6. d > 127
          BY <4>5
        <4>3. name[i] > 127
          BY <4>2, <4>6
        <4>4. name[i] \in ToSet(name)
          BY <2>1 DEF ToSet
        <4> QED BY <4>3, <4>4
      <3> QED BY <3>1, <3>2 DEF NormalizersAgree
    <2> QED BY <2>2, <2>3
  <1> QED BY <1>1, AppInvariant, PTL

\* The license build_license_struct and encode_license make for a name is accepted
\* for every spelling that is the author's name in ASCII, but for case and white
\* space, with any white space of the client's kinds around it.
THEOREM LicenseOpensAlways == AppSpec => []LicenseOpens
  <1>1. AppInv => LicenseOpens
    <2> SUFFICES ASSUME AppInv, SameName,
                        Trimmed(text, {Blank}) =
                          encode_license(build_license_struct(
                            CHOOSE u \in ServerNormalizes(author) : TRUE))
                 PROVE  Accepted
      BY DEF LicenseOpens
    <2>1. /\ author \in Seq(Codes) /\ name \in Seq(Codes) /\ text \in Seq(Codes)
          /\ ServerNormalizes(author) # {}
      BY DEF AppInv, AppTyped, Lines
    <2>01. NFC(author) \in Seq(Codes) /\ ServerNormalizes(author) = ClientNormalizes(NFC(author))
      BY <2>1, NFCIs, ServerIs
    <2>2. PICK user : ClientNormalizes(NFC(author)) = {user}
      BY <2>1, <2>01, OneNormal
    <2>3. user = CHOOSE u \in ServerNormalizes(author) : TRUE
      BY <2>01, <2>2
    <2>4. user \in Seq(Codes) /\ ServerNormalizes(user) = {user}
      BY <2>01, <2>2, SentIs, ServerKeeps
    <2>5. ClientNormalizes(name) = {user}
      <3>1. Lowered(Trimmed(name, White)) = Lowered(Trimmed(NFC(author), White))
        BY DEF SameName
      <3> QED BY <2>01, <2>1, <2>2, <3>1, SameNormal
    <2>6. PICK lic : lic = build_license_struct(user)
      OBVIOUS
    <2>7. ClientDecodes(text) = {lic}
      BY <2>1, <2>3, <2>4, <2>6, LicenseIsRead
    <2>8. validate_license(user, lic)
      BY <2>4, <2>6, BuiltIsValid
    <2> QED BY <2>4, <2>5, <2>7, <2>8 DEF Accepted, Accepts
  <1> QED BY <1>1, AppInvariant, PTL
-----------------------------------------------------------------------------
(***************************************************************************)
(* One text per license.                                                   *)
(***************************************************************************)
\* The parts of a text are parts and a last one.
LEMMA PiecesEnd ==
  ASSUME NEW p \in Pieces
  PROVE  \E q \in Seq(Seq(Codes)), u \in Seq(Codes) : p = Append(q, u)
  <1>1. PICK W : W = Seq(Codes)
    OBVIOUS
  <1>2. PICK n \in Nat : p \in Seq(W) /\ Len(p) = n + 1
    <2>1. p \in Seq(W) /\ p # <<>>
      BY <1>1 DEF Pieces
    <2>2. Len(p) \in Nat /\ Len(p) # 0
      BY <2>1, EmptySeq
    <2>3. Len(p) - 1 \in Nat /\ Len(p) = (Len(p) - 1) + 1
      BY <2>2
    <2> QED BY <2>1, <2>3
  <1>3. PICK q : q = [i \in 1 .. n |-> p[i]]
    OBVIOUS
  <1>4. \A i \in 1 .. n + 1 : p[i] \in W
    BY <1>2, ElementOfSeq
  <1>5. q \in Seq(W) /\ Len(q) = n /\ \A i \in 1 .. n : q[i] = p[i]
    <2>1. q \in [1 .. n -> W]
      BY <1>3, <1>4
    <2> QED BY <1>3, <2>1
  <1>6. PICK u \in W : u = p[n + 1]
    BY <1>4
  <1>7. p = Append(q, u)
    <2>1. PICK t : t = Append(q, u)
      OBVIOUS
    <2>2. t \in Seq(W) /\ Len(t) = n + 1 /\ t[n + 1] = u /\ \A i \in 1 .. n : t[i] = q[i]
      BY <1>5, <2>1, AppendProperties
    <2>3. \A i \in 1 .. n + 1 : t[i] = p[i]
      BY <1>5, <1>6, <2>2
    <2> QED BY <1>2, <2>1, <2>2, <2>3, SeqEqual
  <1> QED BY <1>1, <1>5, <1>6, <1>7

\* A sequence and what is appended to it are told from the result.
LEMMA SameAppended ==
  ASSUME NEW W, NEW p \in Seq(W), NEW q \in Seq(W), NEW x \in W, NEW y \in W,
         Append(p, x) = Append(q, y)
  PROVE  p = q /\ x = y
  <1>1. PICK t : t = Append(p, x) /\ t = Append(q, y)
    OBVIOUS
  <1>2. /\ Len(t) = Len(p) + 1 /\ t[Len(p) + 1] = x /\ \A i \in 1 .. Len(p) : t[i] = p[i]
    BY <1>1, AppendProperties
  <1>3. /\ Len(t) = Len(q) + 1 /\ t[Len(q) + 1] = y /\ \A i \in 1 .. Len(q) : t[i] = q[i]
    BY <1>1, AppendProperties
  <1>4. Len(p) \in Nat /\ Len(q) \in Nat
    OBVIOUS
  <1>5. Len(p) = Len(q)
    BY <1>2, <1>3, <1>4
  <1>6. \A i \in 1 .. Len(p) : p[i] = q[i]
    BY <1>2, <1>3, <1>5
  <1>7. p = q
    BY <1>5, <1>6, SeqEqual
  <1> QED BY <1>2, <1>3, <1>5, <1>7

\* A sequence is empty, or one that something was appended to.
LEMMA AppendedOrNone ==
  ASSUME NEW S, NEW s \in Seq(S), s # <<>>
  PROVE  \E t \in Seq(S), c \in S : s = Append(t, c)
  <1> DEFINE T == {u \in Seq(S) : u # <<>> => \E t \in Seq(S), c \in S : u = Append(t, c)}
  <1>1. <<>> \in T
    BY EmptySeq
  <1>2. ASSUME NEW t \in Seq(S), NEW c \in S PROVE Append(t, c) \in T
    BY AppendProperties
  <1>3. Seq(S) \subseteq T
    <2> HIDE DEF T
    <2> QED BY <1>1, <1>2, SeqInduction
  <1> QED BY <1>3

LEMMA AppendedIs ==
  ASSUME NEW u \in Seq(Codes), NEW c \in Codes
  PROVE  Append(u, c) \in Seq(Codes) /\ Append(u, c) # <<>>
  BY AppendProperties

\* What Takes made tells what it was made from.
LEMMA TakesTells ==
  ASSUME NEW p \in Pieces, NEW c \in Codes, NEW o \in Pieces, NEW d \in Codes,
         Takes(p, c, {}) = Takes(o, d, {})
  PROVE  p = o /\ c = d
  <1>0. PICK W : W = Seq(Codes)
    OBVIOUS
  <1>1. PICK q \in Seq(W), u \in W : p = Append(q, u)
    BY <1>0, PiecesEnd
  <1>2. PICK r \in Seq(W), v \in W : o = Append(r, v)
    BY <1>0, PiecesEnd
  <1>3. c \notin {} /\ d \notin {}
    OBVIOUS
  <1>4. c = Dash => Takes(p, c, {}) = Append(p, <<>>)
    BY <1>3, TakesIs
  <1>5. d = Dash => Takes(o, d, {}) = Append(o, <<>>)
    BY <1>3, TakesIs
  <1>6. c # Dash => Takes(p, c, {}) = Append(q, Append(u, c))
    <2>1. c # Dash => c \in NoDash
      BY DEF NoDash
    <2> QED BY <1>0, <1>1, <2>1, TakesLetter
  <1>7. d # Dash => Takes(o, d, {}) = Append(r, Append(v, d))
    <2>1. d # Dash => d \in NoDash
      BY DEF NoDash
    <2> QED BY <1>0, <1>2, <2>1, TakesLetter
  <1>8. /\ p \in Seq(W) /\ o \in Seq(W) /\ <<>> \in W
        /\ Append(u, c) \in W /\ Append(u, c) # <<>>
        /\ Append(v, d) \in W /\ Append(v, d) # <<>>
    <2>1. Append(u, c) \in W /\ Append(u, c) # <<>>
      <3>1. u \in Seq(Codes)
        BY <1>0
      <3> QED BY <1>0, <3>1, AppendedIs
    <2>2. Append(v, d) \in W /\ Append(v, d) # <<>>
      <3>1. v \in Seq(Codes)
        BY <1>0
      <3> QED BY <1>0, <3>1, AppendedIs
    <2>3. p \in Seq(W) /\ o \in Seq(W) /\ <<>> \in W
      BY <1>0, EmptySeq DEF Pieces
    <2> QED BY <2>1, <2>2, <2>3
  <1>9. CASE c = Dash /\ d = Dash
    <2>1. Append(p, <<>>) = Append(o, <<>>)
      BY <1>4, <1>5, <1>9
    <2> QED BY <1>8, <1>9, <2>1, SameAppended
  <1>10. CASE c = Dash /\ d # Dash
    <2>1. Append(p, <<>>) = Append(r, Append(v, d))
      BY <1>4, <1>7, <1>10
    <2>2. <<>> = Append(v, d)
      BY <1>2, <1>8, <2>1, SameAppended
    <2> QED BY <1>8, <2>2
  <1>11. CASE c # Dash /\ d = Dash
    <2>1. Append(q, Append(u, c)) = Append(o, <<>>)
      BY <1>5, <1>6, <1>11
    <2>2. Append(u, c) = <<>>
      BY <1>1, <1>8, <2>1, SameAppended
    <2> QED BY <1>8, <2>2
  <1>12. CASE c # Dash /\ d # Dash
    <2>1. Append(q, Append(u, c)) = Append(r, Append(v, d))
      BY <1>6, <1>7, <1>12
    <2>2. q = r /\ Append(u, c) = Append(v, d)
      BY <1>1, <1>2, <1>8, <2>1, SameAppended
    <2>3. u \in Seq(Codes) /\ v \in Seq(Codes)
      BY <1>0
    <2>4. u = v /\ c = d
      BY <2>2, <2>3, SameAppended
    <2> QED BY <1>1, <1>2, <2>2, <2>4
  <1> QED BY <1>9, <1>10, <1>11, <1>12

\* Takes puts something to the one empty part.
LEMMA TakesSome ==
  ASSUME NEW p \in Pieces, NEW c \in Codes
  PROVE  Takes(p, c, {}) # OnePart
  <1>0. PICK W : W = Seq(Codes)
    OBVIOUS
  <1>1. PICK q \in Seq(W), u \in W : p = Append(q, u)
    BY <1>0, PiecesEnd
  <1>2. /\ <<>> \in W /\ <<>> \in Seq(W) /\ OnePart = Append(<<>>, <<>>)
        /\ Append(u, c) \in W /\ Append(u, c) # <<>> /\ p \in Seq(W) /\ p # <<>>
    <2>1. Append(u, c) \in W /\ Append(u, c) # <<>>
      <3>1. u \in Seq(Codes)
        BY <1>0
      <3> QED BY <1>0, <3>1, AppendedIs
    <2>2. p \in Seq(W) /\ p # <<>>
      BY <1>0 DEF Pieces
    <2>3. <<>> \in W /\ <<>> \in Seq(W)
      BY <1>0, EmptySeq
    <2>4. OnePart = Append(<<>>, <<>>)
      BY DEF OnePart
    <2> QED BY <2>1, <2>2, <2>3, <2>4
  <1>3. CASE c = Dash
    <2>1. c \notin {}
      OBVIOUS
    <2>2. Takes(p, c, {}) = Append(p, <<>>)
      BY <1>3, <2>1, TakesIs
    <2>3. Append(p, <<>>) = Append(<<>>, <<>>) => p = <<>>
      BY <1>2, SameAppended
    <2> QED BY <1>2, <2>2, <2>3
  <1>4. CASE c # Dash
    <2>1. c \in NoDash
      BY <1>4 DEF NoDash
    <2>2. Takes(p, c, {}) = Append(q, Append(u, c))
      BY <1>0, <1>1, <2>1, TakesLetter
    <2>3. PICK x \in W : x = Append(u, c)
      BY <1>2
    <2>4. PICK none : none = <<>>
      OBVIOUS
    <2>5. none \in W /\ none \in Seq(W)
      BY <1>2, <2>4
    <2>6. Append(q, x) = Append(none, none) => x = none
      BY <2>5, SameAppended
    <2> QED BY <1>2, <2>2, <2>3, <2>4, <2>6
  <1> QED BY <1>3, <1>4

\* A text is told from its parts.
LEMMA SplitTells ==
  ASSUME NEW s \in Seq(Codes), NEW t \in Seq(Codes), Split(s, {}) = Split(t, {})
  PROVE  s = t
  <1>0. PICK parts \in [Seq(Codes) -> Pieces] :
          /\ \A u \in Seq(Codes) : parts[u] = Split(u, {})
          /\ parts[<<>>] = OnePart
          /\ \A u \in Seq(Codes), c \in Codes : parts[Append(u, c)] = Takes(parts[u], c, {})
    <2>1. ASSUME NEW u \in Seq(Codes)
          PROVE  Split(u, {}) = Folded(OnePart, SplitAll, u)
      <3>1. PICK passed : passed = {}
        OBVIOUS
      <3> QED BY <3>1, SplitIs DEF SplitAll
    <2>2. PICK f : f = [u \in Seq(Codes) |-> Folded(OnePart, SplitAll, u)]
      OBVIOUS
    <2>3. \A u \in Seq(Codes) : f[u] = Folded(OnePart, SplitAll, u)
      BY <2>2
    <2>4. ASSUME NEW u \in Seq(Codes) PROVE Folded(OnePart, SplitAll, u) \in Pieces
      BY OnePartIs, SplitAllIs, FoldedType
    <2>5. f \in [Seq(Codes) -> Pieces]
      BY <2>2, <2>4
    <2>6. f[<<>>] = OnePart
      <3>1. Folded(OnePart, SplitAll, <<>>) = OnePart
        BY OnePartIs, SplitAllIs, FoldedNone
      <3> QED BY <2>3, <3>1, EmptySeq
    <2>7. ASSUME NEW u \in Seq(Codes), NEW c \in Codes
          PROVE  f[Append(u, c)] = Takes(f[u], c, {})
      <3>1. Folded(OnePart, SplitAll, Append(u, c)) = Takes(Folded(OnePart, SplitAll, u), c, {})
        BY OnePartIs, SplitAppend
      <3>2. PICK v \in Seq(Codes) : v = Append(u, c)
        BY AppendProperties
      <3>3. f[v] = Folded(OnePart, SplitAll, v) /\ f[u] = Folded(OnePart, SplitAll, u)
        BY <2>3
      <3> QED BY <3>1, <3>2, <3>3
    <2>8. \A u \in Seq(Codes) : f[u] = Split(u, {})
      BY <2>1, <2>3
    <2> QED BY <2>5, <2>6, <2>7, <2>8
  <1> DEFINE T == {u \in Seq(Codes) : \A v \in Seq(Codes) : parts[u] = parts[v] => u = v}
  <1>1. <<>> \in T
    <2>1. ASSUME NEW v \in Seq(Codes), parts[<<>>] = parts[v] PROVE <<>> = v
      <3>1. SUFFICES ASSUME v # <<>> PROVE FALSE
        OBVIOUS
      <3>2. PICK w \in Seq(Codes), d \in Codes : v = Append(w, d)
        BY <3>1, AppendedOrNone
      <3>3. parts[v] = Takes(parts[w], d, {}) /\ parts[w] \in Pieces
        BY <1>0, <3>2
      <3> QED BY <1>0, <2>1, <3>3, TakesSome
    <2> QED BY <2>1, EmptySeq
  <1>2. ASSUME NEW u \in Seq(Codes), NEW c \in Codes, u \in T PROVE Append(u, c) \in T
    <2>1. PICK x \in Seq(Codes) : x = Append(u, c)
      BY AppendProperties
    <2>2. parts[x] = Takes(parts[u], c, {}) /\ parts[u] \in Pieces
      BY <1>0, <2>1
    <2>3. ASSUME NEW v \in Seq(Codes), parts[x] = parts[v] PROVE x = v
      <3>1. CASE v = <<>>
        BY <1>0, <2>2, <2>3, <3>1, TakesSome
      <3>2. CASE v # <<>>
        <4>1. PICK w \in Seq(Codes), d \in Codes : v = Append(w, d)
          BY <3>2, AppendedOrNone
        <4>2. parts[v] = Takes(parts[w], d, {}) /\ parts[w] \in Pieces
          BY <1>0, <4>1
        <4>3. Takes(parts[u], c, {}) = Takes(parts[w], d, {})
          BY <2>2, <2>3, <4>2
        <4>4. parts[u] = parts[w] /\ c = d
          BY <2>2, <4>2, <4>3, TakesTells
        <4>5. u = w
          BY <1>2, <4>4
        <4> QED BY <2>1, <4>1, <4>4, <4>5
      <3> QED BY <3>1, <3>2
    <2> QED BY <2>1, <2>3
  <1>3. Seq(Codes) \subseteq T
    <2> HIDE DEF T
    <2> QED BY <1>1, <1>2, SeqInduction
  <1>4. parts[s] = parts[t]
    BY <1>0
  <1> QED BY <1>3, <1>4

\* A letter is what its bits make, and a byte has the bits it is made from.
FiveSteps(f, x) ==
  /\ f[0] = 0
  /\ f[1] = 2 * f[0] + ((x \div 16) % 2) /\ f[2] = 2 * f[1] + ((x \div 8) % 2)
  /\ f[3] = 2 * f[2] + ((x \div 4) % 2) /\ f[4] = 2 * f[3] + ((x \div 2) % 2)
  /\ f[5] = 2 * f[4] + ((x \div 1) % 2)

LEMMA LetterBits ==
  ASSUME NEW x \in Letters, NEW f, FiveSteps(f, x)
  PROVE  f[5] = x
  <1> USE DEF FiveSteps
  <1>1. x \in 0 .. 31
    BY DEF Letters
  <1>2. f[1] = x \div 16
    BY <1>1
  <1>3. f[2] = x \div 8
    BY <1>1, <1>2
  <1>4. f[3] = x \div 4
    BY <1>1, <1>3
  <1>5. f[4] = x \div 2
    BY <1>1, <1>4
  <1> QED BY <1>1, <1>5

Eight(f, b1, b2, b3, b4, b5, b6, b7, b8) ==
  /\ f[0] = 0 /\ f[1] = 2 * f[0] + b1 /\ f[2] = 2 * f[1] + b2 /\ f[3] = 2 * f[2] + b3
  /\ f[4] = 2 * f[3] + b4 /\ f[5] = 2 * f[4] + b5 /\ f[6] = 2 * f[5] + b6
  /\ f[7] = 2 * f[6] + b7 /\ f[8] = 2 * f[7] + b8

LEMMA ByteBits ==
  ASSUME NEW f, NEW b1 \in 0 .. 1, NEW b2 \in 0 .. 1, NEW b3 \in 0 .. 1, NEW b4 \in 0 .. 1,
         NEW b5 \in 0 .. 1, NEW b6 \in 0 .. 1, NEW b7 \in 0 .. 1, NEW b8 \in 0 .. 1,
         Eight(f, b1, b2, b3, b4, b5, b6, b7, b8)
  PROVE  /\ f[8] \in Bytes
         /\ (f[8] \div 128) % 2 = b1 /\ (f[8] \div 64) % 2 = b2 /\ (f[8] \div 32) % 2 = b3
         /\ (f[8] \div 16) % 2 = b4 /\ (f[8] \div 8) % 2 = b5 /\ (f[8] \div 4) % 2 = b6
         /\ (f[8] \div 2) % 2 = b7 /\ (f[8] \div 1) % 2 = b8
  <1>0. PICK x1, x2, x3, x4, x5, x6, x7, x8 \in Nat :
          /\ x1 = b1 /\ x2 = 2 * x1 + b2 /\ x3 = 2 * x2 + b3 /\ x4 = 2 * x3 + b4
          /\ x5 = 2 * x4 + b5 /\ x6 = 2 * x5 + b6 /\ x7 = 2 * x6 + b7 /\ x8 = 2 * x7 + b8
    OBVIOUS
  <1>1. f[8] = x8
    BY <1>0 DEF Eight
  <1>2. x1 \in 0 .. 1 /\ x2 \in 0 .. 3 /\ x3 \in 0 .. 7 /\ x4 \in 0 .. 15 /\ x5 \in 0 .. 31
        /\ x6 \in 0 .. 63 /\ x7 \in 0 .. 127 /\ x8 \in 0 .. 255
    BY <1>0
  <1>3. x8 \div 2 = x7 /\ x8 % 2 = b8
    BY <1>0
  <1>4. x8 \div 4 = x6 /\ x7 % 2 = b7
    BY <1>0
  <1>5. x8 \div 8 = x5 /\ x6 % 2 = b6
    BY <1>0
  <1>6. x8 \div 16 = x4 /\ x5 % 2 = b5
    BY <1>0
  <1>7. x8 \div 32 = x3 /\ x4 % 2 = b4
    BY <1>0
  <1>8. x8 \div 64 = x2 /\ x3 % 2 = b3
    BY <1>0
  <1>9. x8 \div 128 = x1 /\ x2 % 2 = b2 /\ x1 % 2 = b1
    BY <1>0
  <1>10. x8 \div 1 = x8 /\ x8 \in Bytes
    BY <1>2 DEF Bytes
  <1> QED BY <1>1, <1>3, <1>4, <1>5, <1>6, <1>7, <1>8, <1>9, <1>10

LEMMA LettersAreCodes == Letters \subseteq Codes /\ Seq(Letters) \subseteq Seq(Codes)
  <1>1. Letters \subseteq Codes
    BY DEF Letters, Codes
  <1> QED BY <1>1

\* The characters of a block, and the bits of the byte made of eight of them.
Block8(e) == e \in Seq(Letters) /\ Len(e) = 8

\* Bit k of byte x is bit n of the characters.
BitOfByte(x, k, e, n) == (x \div Power[8 - k]) % 2 = BitAt(e, 5, n)

LEMMA JoinedPiece ==
  ASSUME NEW e, Block8(e), NEW j \in 1 .. 5
  PROVE  /\ Regrouped(e, 5, 8)[j] \in Bytes
         /\ \A k \in 1 .. 8 : BitOfByte(Regrouped(e, 5, 8)[j], k, e, (j - 1) * 8 + k - 1)
  <1>1. PICK start \in 0 .. 32 : start = (j - 1) * 8
    OBVIOUS
  <1>2. e \in Seq(Codes) /\ Len(e) = 8
    BY LettersAreCodes DEF Block8
  <1>3. AreBits(e, 5, start, 8)
    <2>1. ASSUME NEW k \in 1 .. 8 PROVE BitAt(e, 5, start + k - 1) \in 0 .. 1
      <3>1. PICK n \in 0 .. 39 : n = start + k - 1
        OBVIOUS
      <3>2. Within(e, 5, n)
        BY <1>2 DEF Within
      <3> QED BY <1>2, <3>1, <3>2, BitIs
    <2> QED BY <2>1 DEF AreBits
  <1>4. Cuts(e, 5, 8, 5)
    BY <1>2 DEF Cuts
  <1>5. PICK f : Piece(f, e, 5, start, 8) /\ Regrouped(e, 5, 8)[j] = f[8]
    <2>1. PieceAt(e, 5, 8, 5, j, start)
      BY <1>1, <1>3, <1>4 DEF PieceAt
    <2> QED BY <2>1, PieceSteps
  <1>6. PICK b \in [1 .. 8 -> 0 .. 1] : \A k \in 1 .. 8 : b[k] = BitAt(e, 5, start + k - 1)
    <2>1. PICK b : b = [k \in 1 .. 8 |-> BitAt(e, 5, start + k - 1)]
      OBVIOUS
    <2>2. \A k \in 1 .. 8 : BitAt(e, 5, start + k - 1) \in 0 .. 1
      BY <1>3 DEF AreBits
    <2>3. \A k \in 1 .. 8 : b[k] = BitAt(e, 5, start + k - 1)
      BY <2>1
    <2>4. b \in [1 .. 8 -> 0 .. 1]
      BY <2>1, <2>2
    <2> QED BY <2>3, <2>4
  <1>7. f[0] = 0 /\ \A k \in 1 .. 8 : f[k] = 2 * f[k - 1] + b[k]
    BY <1>5, <1>6 DEF Piece
  <1>8. Eight(f, b[1], b[2], b[3], b[4], b[5], b[6], b[7], b[8])
    BY <1>7 DEF Eight
  <1>9. PICK x : x = f[8]
    OBVIOUS
  <1>10. /\ x \in Bytes
         /\ (x \div 128) % 2 = b[1] /\ (x \div 64) % 2 = b[2] /\ (x \div 32) % 2 = b[3]
         /\ (x \div 16) % 2 = b[4] /\ (x \div 8) % 2 = b[5] /\ (x \div 4) % 2 = b[6]
         /\ (x \div 2) % 2 = b[7] /\ (x \div 1) % 2 = b[8]
    <2>1. PICK b1, b2, b3, b4, b5, b6, b7, b8 \in 0 .. 1 :
            /\ b1 = b[1] /\ b2 = b[2] /\ b3 = b[3] /\ b4 = b[4]
            /\ b5 = b[5] /\ b6 = b[6] /\ b7 = b[7] /\ b8 = b[8]
      OBVIOUS
    <2>2. Eight(f, b1, b2, b3, b4, b5, b6, b7, b8)
      BY <1>8, <2>1
    <2>3. /\ f[8] \in Bytes
          /\ (f[8] \div 128) % 2 = b1 /\ (f[8] \div 64) % 2 = b2 /\ (f[8] \div 32) % 2 = b3
          /\ (f[8] \div 16) % 2 = b4 /\ (f[8] \div 8) % 2 = b5 /\ (f[8] \div 4) % 2 = b6
          /\ (f[8] \div 2) % 2 = b7 /\ (f[8] \div 1) % 2 = b8
      BY <2>2, ByteBits
    <2> QED BY <1>9, <2>1, <2>3
  <1>11. \A k \in 1 .. 8 : (x \div Power[8 - k]) % 2 = b[k]
    <2>1. /\ 8 - 1 = 7 /\ 8 - 2 = 6 /\ 8 - 3 = 5 /\ 8 - 4 = 4 /\ 8 - 5 = 3 /\ 8 - 6 = 2
          /\ 8 - 7 = 1 /\ 8 - 8 = 0
      OBVIOUS
    <2>2. /\ (x \div Power[8 - 1]) % 2 = b[1] /\ (x \div Power[8 - 2]) % 2 = b[2]
          /\ (x \div Power[8 - 3]) % 2 = b[3] /\ (x \div Power[8 - 4]) % 2 = b[4]
          /\ (x \div Power[8 - 5]) % 2 = b[5] /\ (x \div Power[8 - 6]) % 2 = b[6]
          /\ (x \div Power[8 - 7]) % 2 = b[7] /\ (x \div Power[8 - 8]) % 2 = b[8]
      BY <1>10, <2>1, SmallPowers
    <2>3. ASSUME NEW k \in 1 .. 8 PROVE (x \div Power[8 - k]) % 2 = b[k]
      <3>1. k = 1 \/ k = 2 \/ k = 3 \/ k = 4 \/ k = 5 \/ k = 6 \/ k = 7 \/ k = 8
        OBVIOUS
      <3> QED BY <2>2, <3>1, Zenon
    <2> QED BY <2>3
  <1>12. ASSUME NEW k \in 1 .. 8 PROVE BitOfByte(x, k, e, (j - 1) * 8 + k - 1)
    <2>1. (x \div Power[8 - k]) % 2 = BitAt(e, 5, start + k - 1)
      BY <1>6, <1>11
    <2> QED BY <1>1, <2>1 DEF BitOfByte
  <1> QED BY <1>5, <1>9, <1>10, <1>12

\* Five bytes made of eight characters have their bits.
LEMMA JoinedIs ==
  ASSUME NEW e, Block8(e)
  PROVE  /\ Regrouped(e, 5, 8) \in Seq(Bytes) /\ Len(Regrouped(e, 5, 8)) = 5
         /\ SameBits5(e, Regrouped(e, 5, 8))
  <1>1. PICK v : v = Regrouped(e, 5, 8)
    OBVIOUS
  <1>2. PICK m \in Nat : m = 5 /\ v = [j \in 1 .. m |-> v[j]]
    <2>1. PICK m \in Nat : m = 5
      OBVIOUS
    <2>2. Cuts(e, 5, 8, m)
      BY <2>1 DEF Cuts, Block8
    <2> QED BY <1>1, <2>1, <2>2, RegroupedIs
  <1>3. \A j \in 1 .. 5 : v[j] \in Bytes
    BY <1>1, JoinedPiece
  <1>4. v \in Seq(Bytes) /\ Len(v) = 5
    <2>1. v \in Seq({v[j] : j \in 1 .. m}) /\ Len(v) = m
      BY <1>2, IsSeq
    <2>2. {v[j] : j \in 1 .. m} \subseteq Bytes
      BY <1>2, <1>3
    <2> QED BY <1>2, <2>1, <2>2
  <1>5. ASSUME NEW n \in 0 .. 39 PROVE BitAt(e, 5, n) = BitAt(v, 8, n)
    <2>1. PICK d \in 0 .. 4, r \in 0 .. 7 : d = n \div 8 /\ r = n % 8 /\ n = d * 8 + r
      <3>1. PICK d, r : d = n \div 8 /\ r = n % 8
        OBVIOUS
      <3>2. d \in Nat /\ r \in 0 .. 7 /\ n = d * 8 + r
        BY <3>1, DivMod
      <3>3. d \in 0 .. 4
        BY <3>2
      <3> QED BY <3>1, <3>2, <3>3
    <2>2. PICK j \in 1 .. 5, k \in 1 .. 8 : j = d + 1 /\ k = r + 1
      OBVIOUS
    <2>3. n = (j - 1) * 8 + k - 1 /\ 8 - 1 - r = 8 - k
      BY <2>1, <2>2
    <2>4. BitAt(v, 8, n) = (v[j] \div Power[8 - k]) % 2
      BY <2>1, <2>2, <2>3 DEF BitAt
    <2>5. BitOfByte(v[j], k, e, n)
      <3>1. \A h \in 1 .. 8 : BitOfByte(v[j], h, e, (j - 1) * 8 + h - 1)
        BY <1>1, JoinedPiece
      <3> QED BY <2>3, <3>1
    <2> QED BY <2>4, <2>5 DEF BitOfByte
  <1> QED BY <1>1, <1>4, <1>5 DEF SameBits5

\* Character i of what five bytes are encoded to, when they have its bits.
LEMMA EncodedBack ==
  ASSUME NEW v \in Seq(Bytes), Len(v) = 5, NEW e \in Seq(Letters), Len(e) = 8,
         SameBits5(e, v), NEW i \in 1 .. 8
  PROVE  Regrouped(v, 8, 5)[i] = e[i]
  <1>1. PICK start \in 0 .. 35 : start = (i - 1) * 5
    OBVIOUS
  <1>2. \A k \in 1 .. 5 : BitAt(v, 8, start + k - 1) = BitAt(e, 5, start + k - 1)
    <2>1. ASSUME NEW k \in 1 .. 5
          PROVE  BitAt(v, 8, start + k - 1) = BitAt(e, 5, start + k - 1)
      <3>1. start + k - 1 \in 0 .. 39
        OBVIOUS
      <3> QED BY <3>1 DEF SameBits5
    <2> QED BY <2>1
  <1>3. AreBits(v, 8, start, 5)
    <2>1. ASSUME NEW k \in 1 .. 5 PROVE BitAt(v, 8, start + k - 1) \in 0 .. 1
      <3>1. PICK n \in 0 .. 39 : n = start + k - 1
        OBVIOUS
      <3>2. Within(v, 8, n) /\ v \in Seq(Codes)
        BY BytesAreCodes DEF Within
      <3> QED BY <3>1, <3>2, BitIs
    <2> QED BY <2>1 DEF AreBits
  <1>4. PICK f : Piece(f, v, 8, start, 5) /\ Regrouped(v, 8, 5)[i] = f[5]
    <2>1. Cuts(v, 8, 5, 8)
      BY DEF Cuts
    <2>2. PieceAt(v, 8, 5, 8, i, start)
      BY <1>1, <1>3, <2>1 DEF PieceAt
    <2> QED BY <2>2, PieceSteps
  <1>5. PICK x \in Letters : x = e[i]
    <2>1. i \in 1 .. Len(e)
      OBVIOUS
    <2>2. e[i] \in Letters
      BY <2>1, ElementOfSeq, Zenon
    <2> QED BY <2>2
  <1>6. \A k \in 1 .. 5 : f[k] = 2 * f[k - 1] + ((x \div Power[5 - k]) % 2)
    <2>1. ASSUME NEW k \in 1 .. 5
          PROVE  f[k] = 2 * f[k - 1] + ((x \div Power[5 - k]) % 2)
      <3>1. f[k] = 2 * f[k - 1] + BitAt(v, 8, start + k - 1)
        BY <1>4 DEF Piece
      <3>2. PICK n \in 0 .. 39 : n = start + k - 1
        OBVIOUS
      <3>3. (n \div 5) + 1 = i /\ n % 5 = k - 1 /\ 5 - 1 - (k - 1) = 5 - k
        BY <1>1, <3>2
      <3>4. BitAt(e, 5, n) = (x \div Power[5 - k]) % 2
        BY <1>5, <3>3 DEF BitAt
      <3> QED BY <1>2, <3>1, <3>2, <3>4
    <2> QED BY <2>1
  <1>7. FiveSteps(f, x)
    <2>1. f[0] = 0
      BY <1>4 DEF Piece
    <2>2. /\ f[1] = 2 * f[1 - 1] + ((x \div Power[5 - 1]) % 2)
          /\ f[2] = 2 * f[2 - 1] + ((x \div Power[5 - 2]) % 2)
          /\ f[3] = 2 * f[3 - 1] + ((x \div Power[5 - 3]) % 2)
          /\ f[4] = 2 * f[4 - 1] + ((x \div Power[5 - 4]) % 2)
          /\ f[5] = 2 * f[5 - 1] + ((x \div Power[5 - 5]) % 2)
      BY <1>6
    <2>3. /\ 5 - 1 = 4 /\ 5 - 2 = 3 /\ 5 - 3 = 2 /\ 5 - 4 = 1 /\ 5 - 5 = 0
          /\ 1 - 1 = 0 /\ 2 - 1 = 1 /\ 3 - 1 = 2 /\ 4 - 1 = 3
      OBVIOUS
    <2>4. /\ f[1] = 2 * f[0] + ((x \div 16) % 2) /\ f[2] = 2 * f[1] + ((x \div 8) % 2)
          /\ f[3] = 2 * f[2] + ((x \div 4) % 2) /\ f[4] = 2 * f[3] + ((x \div 2) % 2)
          /\ f[5] = 2 * f[4] + ((x \div 1) % 2)
      BY <2>2, <2>3, SmallPowers
    <2> QED BY <2>1, <2>4 DEF FiveSteps
  <1>8. f[5] = x
    BY <1>7, LetterBits
  <1> QED BY <1>4, <1>5, <1>8

LEMMA BackIs ==
  ASSUME NEW e, Block8(e)
  PROVE  Regrouped(Regrouped(e, 5, 8), 8, 5) = e
  <1>1. PICK v : v = Regrouped(e, 5, 8)
    OBVIOUS
  <1>2. v \in Seq(Bytes) /\ Len(v) = 5 /\ SameBits5(e, v) /\ e \in Seq(Letters) /\ Len(e) = 8
    BY <1>1, JoinedIs DEF Block8
  <1>3. PICK m \in Nat : m = 8 /\ Cuts(v, 8, 5, m)
    <2>1. PICK m \in Nat : m = 8
      OBVIOUS
    <2> QED BY <1>2, <2>1 DEF Cuts
  <1>4. Regrouped(v, 8, 5) = [i \in 1 .. 8 |-> Regrouped(v, 8, 5)[i]]
    BY <1>3, RegroupedIs
  <1>5. \A i \in 1 .. 8 : Regrouped(v, 8, 5)[i] = e[i]
    BY <1>2, EncodedBack
  <1>6. e = [i \in 1 .. 8 |-> e[i]]
    BY <1>2
  <1> QED BY <1>1, <1>4, <1>5, <1>6

\* Five blocks of five bytes.
FiveBlocks(seqs) ==
  /\ seqs = [k \in 1 .. 5 |-> seqs[k]]
  /\ \A k \in 1 .. 5 : seqs[k] \in Seq(Bytes) /\ Len(seqs[k]) = 5

\* Put together they are a license, and its blocks are they.
LEMMA JoinedBlocks ==
  ASSUME NEW seqs, FiveBlocks(seqs), NEW lic, lic = FlattenSeq(seqs)
  PROVE  License(lic) /\ \A k \in 1 .. 5 : Block(lic, k) = seqs[k]
  <1>1. PICK n \in Nat, size \in Nat \ {0} : n = 5 /\ size = 5
    OBVIOUS
  <1>2. \A k \in 1 .. n : seqs[k] = [i \in 1 .. size |-> seqs[k][i]]
    <2>1. ASSUME NEW k \in 1 .. 5 PROVE seqs[k] = [i \in 1 .. size |-> seqs[k][i]]
      <3>1. seqs[k] \in Seq(Bytes) /\ Len(seqs[k]) = size
        BY <1>1 DEF FiveBlocks
      <3> QED BY <3>1, SeqIs
    <2> QED BY <1>1, <2>1
  <1>3. lic = Joined(seqs, size, n)
    <2>1. seqs = [k \in 1 .. n |-> seqs[k]]
      BY <1>1 DEF FiveBlocks
    <2> QED BY <1>2, <2>1, FlattenBlocks
  <1>4. lic = [j \in 1 .. 25 |-> seqs[((j - 1) \div 5) + 1][((j - 1) % 5) + 1]]
    BY <1>1, <1>3 DEF Joined
  <1>5. ASSUME NEW j \in 1 .. 25, NEW k \in 1 .. 5, NEW i \in 1 .. 5, j = 5 * k - 5 + i
        PROVE  lic[j] = seqs[k][i]
    <2>1. (j - 1) \div 5 = k - 1 /\ (j - 1) % 5 = i - 1
      BY <1>5
    <2>2. (k - 1) + 1 = k /\ (i - 1) + 1 = i
      OBVIOUS
    <2> QED BY <1>4, <2>1, <2>2
  <1>6. \A k \in 1 .. 5 : \A i \in 1 .. 5 : seqs[k][i] \in Bytes
    <2>1. ASSUME NEW k \in 1 .. 5, NEW i \in 1 .. 5 PROVE seqs[k][i] \in Bytes
      <3>1. seqs[k] \in Seq(Bytes) /\ i \in 1 .. Len(seqs[k])
        BY DEF FiveBlocks
      <3> QED BY <3>1, ElementOfSeq
    <2> QED BY <2>1
  <1>7. ASSUME NEW j \in 1 .. 25 PROVE lic[j] \in Bytes
    <2>1. PICK d, r : d = (j - 1) \div 5 /\ r = (j - 1) % 5
      OBVIOUS
    <2>2. d + 1 \in 1 .. 5 /\ r + 1 \in 1 .. 5
      BY <2>1
    <2> QED BY <1>4, <1>6, <2>1, <2>2
  <1>8. License(lic)
    <2>1. PICK m \in Nat : m = 25
      OBVIOUS
    <2>2. lic \in [1 .. m -> Bytes]
      BY <1>4, <1>7, <2>1
    <2>3. lic \in Seq(Bytes) /\ Len(lic) = m
      BY <2>2
    <2> QED BY <2>1, <2>3 DEF License
  <1>9. ASSUME NEW k \in 1 .. 5 PROVE Block(lic, k) = seqs[k]
    <2>1. Block(lic, k) = [i \in 1 .. 5 |-> Block(lic, k)[i]]
      BY <1>8, BlockIs, ZenonT(60)
    <2>2. seqs[k] = [i \in 1 .. 5 |-> seqs[k][i]]
      BY <1>1, <1>2
    <2>3. ASSUME NEW i \in 1 .. 5 PROVE Block(lic, k)[i] = seqs[k][i]
      <3>1. PICK j \in 1 .. 25 : j = 5 * k - 5 + i
        OBVIOUS
      <3>2. \A h \in 1 .. 5 : Block(lic, k)[h] = lic[5 * k - 5 + h]
        BY <1>8, BlockIs, ZenonT(60)
      <3>3. Block(lic, k)[i] = lic[j]
        BY <3>1, <3>2
      <3> QED BY <1>5, <3>1, <3>3
    <2> QED BY <2>1, <2>2, <2>3
  <1> QED BY <1>8, <1>9

\* A part of a license is eight letters.
LEMMA PartIs ==
  ASSUME NEW p \in Pieces, Layout(p), NEW i \in 1 .. 5
  PROVE  Block8(p[i + 1]) /\ SubSeq(p[i + 1], 1, 8) = p[i + 1]
  <1>1. PICK j \in 2 .. 6 : j = i + 1
    OBVIOUS
  <1>2. PICK s : s = p[j]
    OBVIOUS
  <1>3. s \in Seq(Codes)
    <2>1. p \in Seq(Seq(Codes)) /\ j \in 1 .. Len(p)
      BY DEF Pieces, Layout
    <2> QED BY <1>2, <2>1, ElementOfSeq
  <1>4. Len(s) = 8 /\ ToSet(s) \subseteq Letters
    BY <1>2 DEF Layout, Letters
  <1>5. \A k \in 1 .. 8 : s[k] \in Letters
    BY <1>3, <1>4 DEF ToSet
  <1>6. s \in Seq(Letters)
    <2>1. PICK m \in Nat : m = 8
      OBVIOUS
    <2>2. s = [k \in 1 .. m |-> s[k]]
      BY <1>3, <1>4, <2>1
    <2>3. s \in Seq({s[k] : k \in 1 .. m})
      BY <2>2, IsSeq
    <2>4. {s[k] : k \in 1 .. m} \subseteq Letters
      BY <1>5, <2>1
    <2> QED BY <2>3, <2>4
  <1>7. SubSeq(s, 1, 8) = s
    BY <1>4, <1>6, SubSeqFull
  <1> QED BY <1>1, <1>2, <1>4, <1>6, <1>7 DEF Block8

\* What has the layout of a license is what its bytes are encoded to.
LEMMA LayoutIs ==
  ASSUME NEW p \in Pieces, Layout(p)
  PROVE  /\ License(Blocks(p))
         /\ p = <<LICENSE_PREFIX>> \o Firsts(Encoded(Blocks(p)), 5)
  <1>1. PICK seqs : seqs = [k \in 1 .. 5 |-> Regrouped(SubSeq(p[k + 1], 1, 8), 5, 8)]
    OBVIOUS
  <1>2. ASSUME NEW k \in 1 .. 5
        PROVE  /\ seqs[k] \in Seq(Bytes) /\ Len(seqs[k]) = 5
               /\ Regrouped(seqs[k], 8, 5) = p[k + 1]
    <2>1. PICK e : e = p[k + 1]
      OBVIOUS
    <2>2. Block8(e) /\ SubSeq(e, 1, 8) = e
      BY <2>1, PartIs
    <2>3. seqs[k] = Regrouped(e, 5, 8)
      BY <1>1, <2>1, <2>2
    <2> QED BY <2>1, <2>2, <2>3, JoinedIs, BackIs
  <1>3. FiveBlocks(seqs)
    <2>1. seqs = [k \in 1 .. 5 |-> seqs[k]]
      BY <1>1
    <2> QED BY <1>2, <2>1 DEF FiveBlocks
  <1>4. PICK lic : lic = Blocks(p)
    OBVIOUS
  <1>5. lic = FlattenSeq(seqs)
    BY <1>1, <1>4 DEF Blocks
  <1>6. License(lic) /\ \A k \in 1 .. 5 : Block(lic, k) = seqs[k]
    BY <1>3, <1>5, JoinedBlocks
  <1>7. PICK f : f = Firsts(Encoded(lic), 5)
    OBVIOUS
  <1>8. f = [k \in 1 .. 5 |-> f[k]] /\ \A k \in 1 .. 5 : f[k] = p[k + 1]
    <2>1. ASSUME NEW k \in 1 .. 5 PROVE f[k] = p[k + 1]
      <3>1. f[k] = Regrouped(Block(lic, k), 8, 5)
        BY <1>7 DEF Firsts, Encoded
      <3> QED BY <1>2, <1>6, <3>1
    <2>2. f = [k \in 1 .. 5 |-> f[k]]
      BY <1>7 DEF Firsts
    <2> QED BY <2>1, <2>2
  <1>9. PICK n \in Nat, one \in Nat : n = 5 /\ one = 1
    OBVIOUS
  <1>10. PICK q : q = <<LICENSE_PREFIX>>
    OBVIOUS
  <1>11. q = [i \in 1 .. one |-> q[i]] /\ q[1] = LICENSE_PREFIX
    BY <1>9, <1>10
  <1>12. q \o f = [i \in 1 .. one + n |-> IF i <= one THEN q[i] ELSE f[i - one]]
    BY <1>8, <1>9, <1>11, ConcatFunction
  <1>13. p = [i \in 1 .. one + n |-> p[i]]
    BY <1>9 DEF Pieces, Layout
  <1>14. ASSUME NEW i \in 1 .. one + n PROVE p[i] = IF i <= one THEN q[i] ELSE f[i - one]
    <2>1. CASE i = 1
      BY <1>9, <1>11, <2>1 DEF Layout
    <2>2. CASE i # 1
      <3>1. PICK k \in 1 .. 5 : i = k + 1 /\ k = i - one /\ ~(i <= one)
        BY <1>9, <2>2
      <3>2. f[k] = p[k + 1]
        BY <1>8
      <3> QED BY <3>1, <3>2
    <2> QED BY <2>1, <2>2
  <1>15. p = q \o f
    BY <1>12, <1>13, <1>14
  <1> QED BY <1>4, <1>6, <1>7, <1>10, <1>15

\* A license is what there is of its text, white space aside.
LEMMA EncodeTrimmed ==
  ASSUME NEW lic, License(lic)
  PROVE  Trimmed(encode_license(lic), {Blank, Wide}) = encode_license(lic)
  <1>1. PICK s \in Seq(Codes) : s = encode_license(lic)
    BY EncodeSplits
  <1>2. \A i \in 1 .. Len(s) : s[i] \notin {Blank, Wide}
    BY <1>1, EncodeSolid
  <1>3. s = <<>> \/ (s[1] \notin {Blank, Wide} /\ s[Len(s)] \notin {Blank, Wide})
    <2>1. Len(s) \in Nat /\ (Len(s) = 0 => s = <<>>)
      BY EmptySeq
    <2> QED BY <1>2, <2>1
  <1> QED BY <1>1, <1>3, TrimmedSame

\* A text in the layout of a license is the text of the bytes it is read as.
LEMMA LayoutText ==
  ASSUME NEW t \in Seq(Codes), NEW p, p = Split(t, {}), Layout(p)
  PROVE  License(Blocks(p)) /\ t = encode_license(Blocks(p))
  <1>1. p \in Pieces
    <2>1. PICK passed : passed = {}
      OBVIOUS
    <2>2. p = Folded(OnePart, SplitAll, t)
      BY <2>1, SplitIs DEF SplitAll
    <2> QED BY <2>2, OnePartIs, SplitAllIs, FoldedType
  <1>2. PICK lic : lic = Blocks(p)
    OBVIOUS
  <1>3. License(lic) /\ p = <<LICENSE_PREFIX>> \o Firsts(Encoded(lic), 5)
    BY <1>1, <1>2, LayoutIs
  <1>4. PICK e \in Seq(Codes) : e = encode_license(lic) /\ Split(e, {}) = p
    BY <1>3, EncodeSplits
  <1>5. t = e
    BY <1>4, SplitTells
  <1> QED BY <1>2, <1>3, <1>4, <1>5

\* encode_license and verifier.decode_license are each the other's inverse: the 25
\* bytes of every license are read from its text, and every text that is read as
\* some bytes is, between the white space around it, the text of these bytes.  A
\* license has one text.
THEOREM LicenseRoundTrip ==
  /\ \A lic : License(lic) => ServerDecodes(encode_license(lic)) = {lic}
  /\ \A s \in Seq(Codes) : \A lic \in ServerDecodes(s) :
       License(lic) /\ Trimmed(s, {Blank, Wide}) = encode_license(lic)
  <1>1. ASSUME NEW lic, License(lic) PROVE ServerDecodes(encode_license(lic)) = {lic}
    <2>1. PICK parts : parts = Split(encode_license(lic), {})
      OBVIOUS
    <2>2. Layout(parts) /\ Blocks(parts) = lic
      BY <1>1, <2>1, EncodeDecodes
    <2>3. Trimmed(encode_license(lic), {Blank, Wide}) = encode_license(lic)
      BY <1>1, EncodeTrimmed
    <2> QED BY <2>1, <2>2, <2>3 DEF ServerDecodes
  <1>2. ASSUME NEW s \in Seq(Codes), NEW lic \in ServerDecodes(s)
        PROVE  License(lic) /\ Trimmed(s, {Blank, Wide}) = encode_license(lic)
    <2>1. PICK t \in Seq(Codes) : t = Trimmed(s, {Blank, Wide})
      BY TrimmedType
    <2>2. PICK p : p = Split(t, {})
      OBVIOUS
    <2>3. Layout(p) /\ lic = Blocks(p)
      BY <1>2, <2>1, <2>2 DEF ServerDecodes
    <2> QED BY <2>1, <2>2, <2>3, LayoutText
  <1> QED BY <1>1, <1>2

\* What of OnlyItsOwn does not rest on the hashes: a text without white space in it
\* that is accepted for a name is the text of bytes that validate_license takes
\* for that name.
THEOREM AcceptedIsItsText ==
  AppSpec => [](Accepted /\ ~Contains(Trimmed(text, {Blank}), Blank) =>
                  \E user \in ClientNormalizes(name), lic \in Seq(Bytes) :
                    /\ License(lic) /\ validate_license(user, lic)
                    /\ Trimmed(text, {Blank}) = encode_license(lic))
  <1> DEFINE Own == Accepted /\ ~Contains(Trimmed(text, {Blank}), Blank) =>
                      \E user \in ClientNormalizes(name), lic \in Seq(Bytes) :
                        /\ License(lic) /\ validate_license(user, lic)
                        /\ Trimmed(text, {Blank}) = encode_license(lic)
  <1>1. AppInv => Own
    <2> SUFFICES ASSUME AppInv, Accepted, ~Contains(Trimmed(text, {Blank}), Blank)
                 PROVE  \E user \in ClientNormalizes(name), lic \in Seq(Bytes) :
                          /\ License(lic) /\ validate_license(user, lic)
                          /\ Trimmed(text, {Blank}) = encode_license(lic)
      OBVIOUS
    <2>1. name \in Seq(Codes) /\ text \in Seq(Codes)
      BY DEF AppInv, AppTyped, Lines
    <2>2. PICK sent \in ClientNormalizes(name), lic \in ClientDecodes(text) :
            \E user \in ServerNormalizes(sent) : validate_license(user, lic)
      BY DEF Accepted, Accepts
    <2>3. ServerNormalizes(sent) = {sent}
      BY <2>1, ServerKeeps
    <2>4. validate_license(sent, lic)
      BY <2>2, <2>3
    <2>5. PICK parts : parts = Split(text, {Blank})
      OBVIOUS
    <2>6. PICK t \in Seq(Codes) : t = Trimmed(text, {Blank})
      BY <2>1, TrimmedType
    <2>7. parts = Split(t, {})
      BY <2>1, <2>5, <2>6, BothSplit
    <2>8. Layout(parts) /\ lic = Blocks(parts)
      BY <2>2, <2>5 DEF ClientDecodes
    <2>9. License(lic) /\ t = encode_license(lic)
      BY <2>7, <2>8, LayoutText
    <2>10. lic \in Seq(Bytes)
      BY <2>9 DEF License
    <2> QED BY <2>4, <2>6, <2>9, <2>10
  <1> QED BY <1>1, AppInvariant, PTL
-----------------------------------------------------------------------------
(***************************************************************************)
(* The decoys.                                                             *)
(***************************************************************************)
\* Cutting each sum to a word, or the whole sum, is the same.
LEMMA AddedPlain ==
  ASSUME NEW s \in Seq(Codes)
  PROVE  Added(s) = PlainSum(s)
  <1> DEFINE Good == {t \in Seq(Codes) : Folded(0, AddedStep, t) = Word(Folded(0, SumStep, t))}
  <1>0. Codes = Nat
    BY DEF Codes
  <1>1. 0 \in Words /\ 0 \in Codes
    BY ZeroIsWord
  <1>2. StepOn(AddedStep, Words, Codes) /\ StepOn(SumStep, Codes, Codes)
    BY AddedStepIs, SumStepIs
  <1>3. <<>> \in Good
    <2>1. Folded(0, AddedStep, <<>>) = 0 /\ Folded(0, SumStep, <<>>) = 0
      BY <1>1, <1>2, FoldedNone
    <2>2. Word(0) = 0
      BY <1>0, <1>1, WordIs
    <2> QED BY <2>1, <2>2
  <1>4. ASSUME NEW t \in Seq(Codes), NEW c \in Codes, t \in Good
        PROVE  Append(t, c) \in Good
    <2>1. PICK x : x = Folded(0, AddedStep, t)
      OBVIOUS
    <2>2. PICK y : y = Folded(0, SumStep, t)
      OBVIOUS
    <2>3. x \in Words /\ y \in Codes
      BY <1>1, <1>2, <2>1, <2>2, FoldedType
    <2>4. x = Word(y)
      BY <1>4, <2>1, <2>2
    <2>5. Folded(0, AddedStep, Append(t, c)) = AddedStep[<<x, c>>]
      BY <1>1, <1>2, <2>1, FoldedAppend
    <2>6. Folded(0, SumStep, Append(t, c)) = SumStep[<<y, c>>]
      BY <1>1, <1>2, <2>2, FoldedAppend
    <2>7. AddedStep[<<x, c>>] = Word(x + c) /\ SumStep[<<y, c>>] = y + c
      BY <2>3, AddedStepIs, SumStepIs DEF AddedStep, SumStep
    <2>8. Word(x + c) = Word(y + c)
      BY <1>0, <2>3, <2>4, WordAdd
    <2>9. Append(t, c) \in Seq(Codes)
      BY AppendProperties
    <2> QED BY <2>5, <2>6, <2>7, <2>8, <2>9
  <1>5. Seq(Codes) \subseteq Good
    <2> HIDE DEF Good
    <2> QED BY <1>3, <1>4, SeqInduction
  <1>6. Folded(0, AddedStep, s) = Word(Folded(0, SumStep, s))
    BY <1>5
  <1> QED BY <1>6, AddedIs, PlainSumIs

LEMMA SerialPlain ==
  ASSUME NEW s \in Seq(Codes)
  PROVE  Serial(s) = PlainSerial(s)
  BY SerialIs, PlainSerialIs

LEMMA FnvPlain ==
  ASSUME NEW basis \in Words, NEW s \in Seq(Codes)
  PROVE  Fnv(basis, s) = PlainFnv(basis, s) /\ Fnv(basis, s) \in Words
  <1>1. StepOn(FnvStep, Words, Codes)
    BY FnvStepIs
  <1>2. Folded(basis, FnvStep, s) \in Words
    BY <1>1, FoldedType
  <1> QED BY <1>2, FnvIs, PlainFnvIs

LEMMA HashPlain ==
  ASSUME NEW a \in Seq(Codes), NEW b \in Seq(Codes)
  PROVE  input_hash(a, b) = PlainFnv(PlainFnv(FnvBasis, a) ^^ \h7C, b)
  <1>1. PICK x : x = Fnv(FnvBasis, a)
    OBVIOUS
  <1>2. x \in Words /\ x = PlainFnv(FnvBasis, a)
    BY <1>1, ConstantsAreWords, FnvPlain
  <1>3. \h7C \in Words
    BY BytesAreWords
  <1>4. x ^^ \h7C \in Words
    BY <1>2, <1>3, XorWords
  <1>5. Fnv(x ^^ \h7C, b) = PlainFnv(x ^^ \h7C, b)
    BY <1>4, FnvPlain
  <1> QED BY <1>1, <1>2, <1>5 DEF input_hash

LEMMA BlobIs == kDecoyBytecode \in Seq(Codes)
  BY DEF kDecoyBytecode, Codes

\* The preflight in mixed boolean arithmetic is the preflight in plain arithmetic.
LEMMA PreflightPlain ==
  ASSUME NEW a \in Seq(Codes), NEW b \in Seq(Codes)
  PROVE  decoy_preflight(a, b) = PlainPreflight(a, b)
  <1>1. Added(kDecoyBytecode) = PlainSum(kDecoyBytecode) /\ Added(a) = PlainSum(a)
    BY BlobIs, AddedPlain
  <1>2. PICK serial : serial = Serial(b) ^^ Added(a)
    OBVIOUS
  <1>3. serial = PlainSerial(b) ^^ PlainSum(a)
    BY <1>1, <1>2, SerialPlain
  <1>4. PICK hash : hash = input_hash(a, b)
    OBVIOUS
  <1>5. hash = PlainFnv(PlainFnv(FnvBasis, a) ^^ \h7C, b)
    BY <1>4, HashPlain
  <1>6. PICK flag : flag = Word32(\h5A1C, \h9E37)
    OBVIOUS
  <1>7. fake_serial_check(a, b) = (serial % Power[16] = Word(\h1337))
    BY <1>2 DEF fake_serial_check
  <1>8. Unlocks(a, b) = (hash = flag)
    BY <1>4, <1>6 DEF Unlocks
  <1>9. decoy_preflight(a, b) =
          Code(PlainSum(kDecoyBytecode), serial % Power[16] = Word(\h1337), hash = flag)
    BY <1>1, <1>7, <1>8 DEF decoy_preflight
  <1> QED BY <1>3, <1>5, <1>6, <1>9 DEF PlainPreflight

\* decoy_preflight returns, for every name and license and whatever the width of
\* its words, what plain sums and FNV-1a give: the blinding and the mixed boolean
\* arithmetic of obfuscation.hpp change no result.
THEOREM PreflightIsPlainAlways == AppSpec => []PreflightIsPlain
  <1>1. AppInv => PreflightIsPlain
    <2> SUFFICES ASSUME AppInv, stage = "decode"
                 PROVE  code = PlainPreflight(given.name, DecoyLicense)
      BY DEF PreflightIsPlain
    <2>1. given.name \in Seq(Codes) /\ DecoyLicense \in Seq(Codes)
      BY DecoyTyped DEF AppInv, AppTyped, Lines
    <2>2. code = decoy_preflight(given.name, DecoyLicense)
      BY DEF AppInv, CodeKept
    <2> QED BY <2>1, <2>2, PreflightPlain
  <1> QED BY <1>1, AppInvariant, PTL
-----------------------------------------------------------------------------
(***************************************************************************)
(* The self-checks.                                                        *)
(***************************************************************************)
\* What the report says of the table and of .text.
LEMMA ReportIs ==
  ASSUME NEW img
  PROVE  /\ run_anti_tamper(img).const_table_ok =
              (TableSum(IF "table" \in img.folded THEN kConstTable ELSE img.table)
                 = TableSum(IF "expected" \in img.folded THEN kConstTable ELSE img.table))
         /\ run_anti_tamper(img).text_checksum =
              (IF img.text = <<>> THEN 0 ELSE TextSum(img.text))
  BY DEF run_anti_tamper

\* Two sequences that differ in one place.
Differ(now, built, i) ==
  /\ now[i] # built[i]
  /\ \A k \in 1 .. Len(now) : k # i => now[k] = built[k]

LEMMA OnePatched ==
  ASSUME NEW now \in Seq(Words), NEW built \in Seq(Words), Len(now) = Len(built),
         Cardinality({i \in DOMAIN built : now[i] # built[i]}) = 1
  PROVE  \E i \in 1 .. Len(now) : Differ(now, built, i)
  <1>1. PICK n \in Nat : n = Len(built)
    OBVIOUS
  <1>2. PICK T : T = {i \in DOMAIN built : now[i] # built[i]}
    OBVIOUS
  <1>3. DOMAIN built = 1 .. n
    BY <1>1
  <1>4. IsFiniteSet(T)
    <2>1. IsFiniteSet(1 .. n)
      BY FS_Interval
    <2>2. T \in SUBSET (1 .. n)
      BY <1>2, <1>3
    <2> QED BY <2>1, <2>2, FS_Subset
  <1>5. Cardinality(T) = 1
    BY <1>2
  <1>6. PICK i : T = {i}
    BY <1>4, <1>5, FS_Singleton
  <1>7. i \in 1 .. n /\ now[i] # built[i]
    BY <1>2, <1>3, <1>6
  <1>8. \A k \in 1 .. n : k # i => now[k] = built[k]
    BY <1>2, <1>3, <1>6
  <1> QED BY <1>1, <1>7, <1>8 DEF Differ

\* A step of either sum loses nothing of the sum before it, nor of the word.
LEMMA TableStepKeeps ==
  /\ \A x, y \in Words, c \in Words : x # y => TableStep[<<x, c>>] # TableStep[<<y, c>>]
  /\ \A x \in Words, c, d \in Words : c # d => TableStep[<<x, c>>] # TableStep[<<x, d>>]
  <1>1. ASSUME NEW u \in Words, NEW v \in Words, u # v
        PROVE  Word(u * FnvPrime + TableShift) # Word(v * FnvPrime + TableShift)
    <2>1. TableShift \in Nat
      BY DEF TableShift
    <2> QED BY <1>1, <2>1, FactorInjective
  <1>2. ASSUME NEW x \in Words, NEW y \in Words, NEW c \in Words, x # y
        PROVE  x ^^ c # y ^^ c /\ c ^^ x # c ^^ y
    <2>1. x \in Nat /\ y \in Nat /\ c \in Nat
      BY WordsNat
    <2> QED BY <1>2, <2>1, XorInjective
  <1>3. \A x, c \in Words : /\ x ^^ c \in Words
                            /\ TableStep[<<x, c>>] = Word((x ^^ c) * FnvPrime + TableShift)
    BY XorWords, TableStepIs DEF TableStep
  <1> QED BY <1>1, <1>2, <1>3

LEMMA TextStepKeeps ==
  /\ \A x, y \in Words, c \in Words : x # y => TextStep[<<x, c>>] # TextStep[<<y, c>>]
  /\ \A x \in Words, c, d \in Words : c # d => TextStep[<<x, c>>] # TextStep[<<x, d>>]
  <1>1. ASSUME NEW u \in Words, NEW v \in Words, u # v
        PROVE  Word(u * FnvPrime) # Word(v * FnvPrime)
    <2>1. u * FnvPrime + 0 = u * FnvPrime /\ v * FnvPrime + 0 = v * FnvPrime
      <3>1. FnvPrime \in Nat /\ u \in Nat /\ v \in Nat
        BY ConstantsAreWords, WordsNat
      <3>2. u * FnvPrime \in Nat /\ v * FnvPrime \in Nat
        BY <3>1
      <3> QED BY <3>2
    <2>2. 0 \in Nat
      OBVIOUS
    <2>3. Word(u * FnvPrime + 0) = Word(v * FnvPrime + 0) => u = v
      BY <2>2, FactorInjective
    <2> QED BY <1>1, <2>1, <2>3
  <1>2. ASSUME NEW x \in Words, NEW y \in Words, NEW c \in Words, x # y
        PROVE  x ^^ c # y ^^ c /\ c ^^ x # c ^^ y
    <2>1. x \in Nat /\ y \in Nat /\ c \in Nat
      BY WordsNat
    <2> QED BY <1>2, <2>1, XorInjective
  <1>3. \A x, c \in Words : /\ x ^^ c \in Words
                            /\ TextStep[<<x, c>>] = Word((x ^^ c) * FnvPrime)
    BY XorWords, TextStepIs DEF TextStep
  <1> QED BY <1>1, <1>2, <1>3

\* So one patched word, or byte, is in the sum to its end.
LEMMA TableSumDiffers ==
  ASSUME NEW now \in Seq(Words), NEW built \in Seq(Words), Len(now) = Len(built),
         NEW i \in 1 .. Len(now), Differ(now, built, i)
  PROVE  TableSum(now) # TableSum(built)
  <1>1. StepOn(TableStep, Words, Words) /\ TableBasis \in Words
    BY TableStepIs, ConstantsAreWords
  <1>2. now[i] # built[i] /\ \A k \in 1 .. Len(now) : k # i => now[k] = built[k]
    BY DEF Differ
  <1>3. Folded(TableBasis, TableStep, now) # Folded(TableBasis, TableStep, built)
    BY <1>1, <1>2, TableStepKeeps, FoldedDiffers
  <1> QED BY <1>3, TableSumIs

LEMMA TextSumDiffers ==
  ASSUME NEW now \in Seq(Words), NEW built \in Seq(Words), Len(now) = Len(built),
         NEW i \in 1 .. Len(now), Differ(now, built, i)
  PROVE  TextSum(now) # TextSum(built)
  <1>1. StepOn(TextStep, Words, Words) /\ FnvBasis \in Words
    BY TextStepIs, ConstantsAreWords
  <1>2. now[i] # built[i] /\ \A k \in 1 .. Len(now) : k # i => now[k] = built[k]
    BY DEF Differ
  <1>3. Folded(FnvBasis, TextStep, now) # Folded(FnvBasis, TextStep, built)
    BY <1>1, <1>2, TextStepKeeps, FoldedDiffers
  <1> QED BY <1>3, TextSumIs

LEMMA EightIs ==
  ASSUME NEW S, NEW a \in S, NEW b \in S, NEW c \in S, NEW d \in S,
         NEW e \in S, NEW f \in S, NEW g \in S, NEW h \in S
  PROVE  /\ <<a, b, c, d, e, f, g, h>> \in Seq(S)
         /\ Len(<<a, b, c, d, e, f, g, h>>) = 8
  OBVIOUS

\* A function of the places up to n is a sequence.
LEMMA FunctionIsSeq ==
  ASSUME NEW S, NEW n \in Nat, NEW f \in [1 .. n -> S]
  PROVE  f \in Seq(S) /\ Len(f) = n
  OBVIOUS

LEMMA TableIs == kConstTable \in Seq(Words) /\ Len(kConstTable) = 8 /\ DOMAIN kConstTable = 1 .. 8
  <1>1. PICK W : W = Words
    OBVIOUS
  <1>2. ASSUME NEW hi \in Nat, NEW lo \in Nat PROVE Word32(hi, lo) \in W
    BY <1>1, Word32Is
  <1>3. PICK a, b, c, d, e, f : kConstTable = <<a, b, c, d, e, f, FnvBasis, FnvPrime>>
                                /\ {a, b, c, d, e, f} \subseteq W
    <2>1. /\ Word32(\h9E37, \h79B9) \in W /\ Word32(\h85EB, \hCA77) \in W
          /\ Word32(\hC2B2, \hAE3D) \in W /\ Word32(\h27D4, \hEB2F) \in W
          /\ Word32(\h1656, \h67B1) \in W /\ Word32(\hD1B5, \h4A33) \in W
      BY <1>2
    <2> QED BY <2>1 DEF kConstTable
  <1>4. FnvBasis \in W /\ FnvPrime \in W
    BY <1>1, ConstantsAreWords
  <1>5. kConstTable \in Seq(W) /\ Len(kConstTable) = 8
    BY <1>3, <1>4, EightIs
  <1> QED BY <1>1, <1>5, LenProperties

LEMMA ImageIs ==
  ASSUME NEW img \in Image
  PROVE  /\ img.table \in Seq(Words) /\ Len(img.table) = Len(kConstTable)
         /\ img.text \in Seq(Words)
  <1>1. img.table \in [1 .. 8 -> Words]
    BY ImageAssumption, TableIs DEF Words
  <1>2. 8 \in Nat
    OBVIOUS
  <1>3. img.table \in Seq(Words) /\ Len(img.table) = 8
    BY <1>1, <1>2, FunctionIsSeq
  <1>4. PICK B : B = 0 .. 255
    OBVIOUS
  <1>5. img.text \in Seq(B) /\ B \subseteq Words
    BY <1>4, ImageAssumption, BytesAreWords
  <1>6. img.text \in Seq(Words)
    BY <1>5, SeqMonotonic
  <1> QED BY <1>3, <1>6, TableIs

\* "if anyone patches these bytes ... the two disagree": const_table_ok fails only
\* on a patched table, fails on every patch of one word when the expected value
\* alone was computed beforehand, and every patch of one byte of .text changes
\* text_checksum, for every table and text and every width of a word: each step
\* of the sums is one-to-one, for the exclusive or is and FnvPrime is odd.
THEOREM PatchesShowAlways == AppSpec => []PatchesShow
  <1>1. AppInv => PatchesShow
    <2> SUFFICES ASSUME AppInv, stage = "name", report # NoReport
                 PROVE  PatchesShow
      BY DEF PatchesShow
    <2>1. image \in Image /\ report = run_anti_tamper(image)
      BY DEF AppInv, ReportKept
    <2>2. /\ report.const_table_ok =
               (TableSum(IF "table" \in image.folded THEN kConstTable ELSE image.table)
                  = TableSum(IF "expected" \in image.folded THEN kConstTable ELSE image.table))
          /\ report.text_checksum = (IF image.text = <<>> THEN 0 ELSE TextSum(image.text))
      BY <2>1, ReportIs
    <2>3. ~report.const_table_ok => image.table # kConstTable
      BY <2>2
    <2>4. ASSUME image.folded = {"expected"},
                 Cardinality({i \in DOMAIN kConstTable : image.table[i] # kConstTable[i]}) = 1
          PROVE  ~report.const_table_ok
      <3>1. \E i \in 1 .. Len(image.table) : Differ(image.table, kConstTable, i)
        BY <2>1, <2>4, ImageIs, TableIs, OnePatched
      <3>2. TableSum(image.table) # TableSum(kConstTable)
        BY <2>1, <3>1, ImageIs, TableIs, TableSumDiffers
      <3>3. "table" \notin image.folded /\ "expected" \in image.folded
        BY <2>4
      <3> QED BY <2>2, <3>2, <3>3
    <2>5. ASSUME NEW built \in Image, Len(built.text) = Len(image.text),
                 Cardinality({i \in DOMAIN built.text : image.text[i] # built.text[i]}) = 1
          PROVE  report.text_checksum # run_anti_tamper(built).text_checksum
      <3>1. image.text \in Seq(Words) /\ built.text \in Seq(Words)
        BY <2>1, ImageIs
      <3>2. PICK i \in 1 .. Len(image.text) : Differ(image.text, built.text, i)
        BY <2>5, <3>1, OnePatched
      <3>3. TextSum(image.text) # TextSum(built.text)
        BY <2>5, <3>1, <3>2, TextSumDiffers
      <3>4. image.text # <<>> /\ built.text # <<>>
        <4>1. Len(image.text) # 0
          BY <3>1, <3>2
        <4> QED BY <2>5, <4>1, EmptySeq
      <3>5. run_anti_tamper(built).text_checksum = TextSum(built.text)
        BY <3>4, ReportIs
      <3> QED BY <2>2, <3>3, <3>4, <3>5
    <2> QED BY <2>3, <2>4, <2>5 DEF PatchesShow
  <1> QED BY <1>1, AppInvariant, PTL
-----------------------------------------------------------------------------
(***************************************************************************)
(* URLs.                                                                   *)
(***************************************************************************)
\* k symbols of s come before the first symbol, or all of s.
UntilAt(s, symbol, k) ==
  /\ k \in 0 .. Len(s)
  /\ \A i \in 1 .. k : s[i] # symbol
  /\ Until(s, symbol) = SubSeq(s, 1, k)
  /\ Until(s, symbol) # s => s[k + 1] = symbol /\ k < Len(s)

\* The first k elements, and all of them.
LEMMA FrontIs ==
  ASSUME NEW s \in Seq(Int), NEW k \in 0 .. Len(s)
  PROVE  /\ SubSeq(s, 1, k) \in Seq(Int)
         /\ Len(SubSeq(s, 1, k)) = k
         /\ \A i \in 1 .. k : SubSeq(s, 1, k)[i] = s[i]
  <1>1. \A i \in 1 .. k : s[i] \in Int
    OBVIOUS
  <1>2. k \in Int /\ 1 \in Int
    OBVIOUS
  <1> QED BY <1>1, <1>2, SubSeqProperties

LEMMA SameSeq ==
  ASSUME NEW s \in Seq(Int), NEW t \in Seq(Int), Len(s) = Len(t),
         \A i \in 1 .. Len(s) : s[i] = t[i]
  PROVE  s = t
  <1>1. s = [i \in 1 .. Len(s) |-> s[i]] /\ t = [i \in 1 .. Len(t) |-> t[i]]
    BY SeqIs
  <1> QED BY <1>1

LEMMA WholeIs ==
  ASSUME NEW s \in Seq(Int)
  PROVE  SubSeq(s, 1, Len(s)) = s
  <1>1. Len(s) \in 0 .. Len(s)
    OBVIOUS
  <1> QED BY <1>1, FrontIs, SameSeq

\* Two texts one behind the other, symbol by symbol.
Cat(s, t) == s \o t

ThreeOf(S, x, y, z) == x \in Seq(S) /\ y \in Seq(S) /\ z \in Seq(S)

LEMMA Associative ==
  ASSUME NEW S, NEW x, NEW y, NEW z, ThreeOf(S, x, y, z)
  PROVE  Cat(Cat(x, y), z) = Cat(x, Cat(y, z))
  <1>1. x \in Seq(S) /\ y \in Seq(S) /\ z \in Seq(S)
    BY DEF ThreeOf
  <1> QED BY <1>1, ConcatAssociative DEF Cat

Puts(w, S, s, t, n, m) ==
  /\ n \in Nat /\ m \in Nat /\ s \in Seq(S) /\ t \in Seq(S)
  /\ n = Len(s) /\ m = Len(t) /\ w = Cat(s, t)

Reads(w, S, s, t, n, m) ==
  /\ w \in Seq(S) /\ Len(w) = n + m
  /\ \A i \in 1 .. n : w[i] = s[i]
  /\ \A i \in 1 .. m : w[n + i] = t[i]

LEMMA ConcatIs ==
  ASSUME NEW w, NEW S, NEW s, NEW t, NEW n, NEW m, Puts(w, S, s, t, n, m)
  PROVE  Reads(w, S, s, t, n, m)
  <1>0. /\ n \in Nat /\ m \in Nat /\ s \in Seq(S) /\ t \in Seq(S)
        /\ n = Len(s) /\ m = Len(t)
    BY DEF Puts
  <1>1. w = s \o t
    BY DEF Puts, Cat
  <1>2. /\ w \in Seq(S) /\ Len(w) = n + m
        /\ \A i \in 1 .. n + m : w[i] = IF i <= n THEN s[i] ELSE t[i - n]
    BY <1>0, <1>1, ConcatProperties
  <1>3. ASSUME NEW i \in 1 .. n PROVE w[i] = s[i]
    BY <1>0, <1>2
  <1>4. ASSUME NEW i \in 1 .. m PROVE w[n + i] = t[i]
    <2>1. n + i \in 1 .. n + m /\ ~(n + i <= n) /\ (n + i) - n = i
      BY <1>0
    <2> QED BY <1>2, <2>1
  <1> QED BY <1>2, <1>3, <1>4 DEF Reads

\* A prefix, symbol by symbol.
LEMMA StartsWith ==
  ASSUME NEW p \in Seq(Int), NEW s \in Seq(Int)
  PROVE  IsPrefix(p, s) <=> Len(p) <= Len(s) /\ \A i \in 1 .. Len(p) : s[i] = p[i]
  <1>1. SubSeq(p, 1, Len(p)) = p
    BY WholeIs
  <1>2. CASE Len(p) <= Len(s)
    <2>1. PICK u : u = SubSeq(s, 1, Len(p))
      OBVIOUS
    <2>2. Len(p) \in 0 .. Len(s)
      BY <1>2
    <2>3. u \in Seq(Int) /\ Len(u) = Len(p) /\ \A i \in 1 .. Len(p) : u[i] = s[i]
      BY <2>1, <2>2, FrontIs
    <2>4. ASSUME \A i \in 1 .. Len(p) : s[i] = p[i] PROVE p = u
      BY <2>3, <2>4, SameSeq
    <2> QED BY <1>1, <1>2, <2>1, <2>3, <2>4 DEF IsPrefix
  <1>3. CASE ~(Len(p) <= Len(s))
    BY <1>3 DEF IsPrefix
  <1> QED BY <1>2, <1>3

LEMMA UntilPlace ==
  ASSUME NEW s \in Seq(Int), NEW symbol
  PROVE  \E k : UntilAt(s, symbol, k)
  <1>1. PICK n \in Nat : n = Len(s) /\ DOMAIN s = 1 .. n
    OBVIOUS
  <1>2. CASE Contains(s, symbol)
    <2>1. Places(s, symbol) \subseteq 1 .. n /\ Places(s, symbol) # {}
      BY <1>1, <1>2 DEF Contains, Places
    <2>2. \E x \in Places(s, symbol) : \A y \in Places(s, symbol) : x <= y
      <3>1. Places(s, symbol) \subseteq Nat
        BY <2>1
      <3> QED BY <2>1, <3>1, NatMin
    <2>3. PICK f : f = First(Places(s, symbol))
      OBVIOUS
    <2>4. f \in Places(s, symbol) /\ \A y \in Places(s, symbol) : f <= y
      BY <2>2, <2>3 DEF First
    <2>5. f \in 1 .. n /\ s[f] = symbol
      BY <2>1, <2>4 DEF Places
    <2>6. \A i \in 1 .. f - 1 : s[i] # symbol
      <3>1. ASSUME NEW i \in 1 .. f - 1, s[i] = symbol PROVE FALSE
        <4>1. i \in Places(s, symbol)
          BY <1>1, <2>5, <3>1 DEF Places
        <4> QED BY <2>4, <2>5, <4>1
      <3> QED BY <3>1
    <2>7. Until(s, symbol) = SubSeq(s, 1, f - 1)
      BY <1>2, <2>3 DEF Until
    <2>8. (f - 1) + 1 = f /\ f - 1 \in 0 .. n /\ f - 1 < n
      BY <2>5
    <2> QED BY <1>1, <2>5, <2>6, <2>7, <2>8 DEF UntilAt
  <1>3. CASE ~Contains(s, symbol)
    <2>1. Until(s, symbol) = s
      BY <1>3 DEF Until
    <2>2. \A i \in 1 .. n : s[i] # symbol
      BY <1>1, <1>3 DEF Contains
    <2>3. SubSeq(s, 1, n) = s
      BY <1>1, WholeIs
    <2> QED BY <1>1, <2>1, <2>2, <2>3 DEF UntilAt
  <1> QED BY <1>2, <1>3

\* What is behind the first k elements.
Rest(s, k) == SubSeq(s, k + 1, Len(s))

LEMMA RestIs ==
  ASSUME NEW s \in Seq(Int), NEW k \in 0 .. Len(s)
  PROVE  /\ Rest(s, k) \in Seq(Int) /\ Len(Rest(s, k)) = Len(s) - k
         /\ \A i \in 1 .. Len(s) - k : Rest(s, k)[i] = s[k + i]
  <1>1. PICK n \in Nat : n = Len(s) /\ k \in Nat /\ k <= n
    OBVIOUS
  <1>2. PICK u : u = SubSeq(s, k + 1, n)
    OBVIOUS
  <1>3. \A i \in (k + 1) .. n : s[i] \in Int
    BY <1>1
  <1>4. k + 1 \in Int /\ n \in Int
    BY <1>1
  <1>5. u \in Seq(Int) /\ Len(u) = n - k /\ \A i \in 1 .. n - k : u[i] = s[k + i]
    BY <1>1, <1>2
  <1> QED BY <1>1, <1>2, <1>5 DEF Rest

\* One prefix behind another.
LEMMA StartsBoth ==
  ASSUME NEW p \in Seq(Int), NEW q \in Seq(Int), NEW s \in Seq(Int)
  PROVE  /\ p \o q \in Seq(Int)
         /\ IsPrefix(p \o q, s) <=> IsPrefix(p, s) /\ IsPrefix(q, Rest(s, Len(p)))
  <1>1. PICK k \in Nat, m \in Nat, n \in Nat : k = Len(p) /\ m = Len(q) /\ n = Len(s)
    OBVIOUS
  <1>2. PICK w : w = p \o q
    OBVIOUS
  <1>3. /\ w \in Seq(Int) /\ Len(w) = k + m
        /\ \A i \in 1 .. k : w[i] = p[i]
        /\ \A i \in 1 .. m : w[k + i] = q[i]
    BY <1>1, <1>2
  <1>4. IsPrefix(w, s) <=> k + m <= n /\ \A i \in 1 .. k + m : s[i] = w[i]
    <2>1. IsPrefix(w, s) <=> Len(w) <= Len(s) /\ \A i \in 1 .. Len(w) : s[i] = w[i]
      BY <1>3, StartsWith
    <2> QED BY <1>1, <1>3, <2>1
  <1>5. IsPrefix(p, s) <=> k <= n /\ \A i \in 1 .. k : s[i] = p[i]
    BY <1>1, StartsWith
  <1>6. CASE k <= n
    <2>1. PICK u : u = Rest(s, k)
      OBVIOUS
    <2>2. k \in 0 .. n
      BY <1>6
    <2>3. u \in Seq(Int) /\ Len(u) = n - k /\ \A i \in 1 .. n - k : u[i] = s[k + i]
      BY <1>1, <2>1, <2>2, RestIs
    <2>4. IsPrefix(q, u) <=> m <= n - k /\ \A i \in 1 .. m : u[i] = q[i]
      BY <1>1, <2>3, StartsWith
    <2>5. ASSUME IsPrefix(w, s) PROVE IsPrefix(p, s) /\ IsPrefix(q, u)
      <3>1. \A i \in 1 .. k : s[i] = p[i]
        BY <1>3, <1>4, <2>5
      <3>2. m <= n - k
        BY <1>4, <2>5
      <3>3. ASSUME NEW i \in 1 .. m PROVE u[i] = q[i]
        <4>1. k + i \in 1 .. k + m /\ i \in 1 .. n - k
          BY <3>2
        <4> QED BY <1>3, <1>4, <2>3, <2>5, <4>1
      <3> QED BY <1>5, <1>6, <2>4, <3>1, <3>2, <3>3
    <2>6. ASSUME IsPrefix(p, s), IsPrefix(q, u) PROVE IsPrefix(w, s)
      <3>1. m <= n - k /\ k + m <= n
        BY <2>4, <2>6
      <3>2. ASSUME NEW i \in 1 .. k + m PROVE s[i] = w[i]
        <4>1. CASE i \in 1 .. k
          BY <1>3, <1>5, <2>6, <4>1
        <4>2. CASE i \notin 1 .. k
          <5>1. i - k \in 1 .. m /\ i - k \in 1 .. n - k /\ k + (i - k) = i
            BY <3>1, <4>2
          <5>2. u[i - k] = q[i - k] /\ u[i - k] = s[i] /\ w[i] = q[i - k]
            BY <1>3, <2>3, <2>4, <2>6, <5>1
          <5> QED BY <5>2
        <4> QED BY <4>1, <4>2
      <3> QED BY <1>4, <3>1, <3>2
    <2> QED BY <1>1, <1>2, <1>3, <2>1, <2>5, <2>6
  <1>7. CASE ~(k <= n)
    BY <1>1, <1>2, <1>3, <1>4, <1>5, <1>7
  <1> QED BY <1>6, <1>7

\* A prefix of one symbol.
LEMMA StartsOne ==
  ASSUME NEW c \in Int, NEW s \in Seq(Int)
  PROVE  /\ <<c>> \in Seq(Int) /\ Len(<<c>>) = 1
         /\ IsPrefix(<<c>>, s) <=> Len(s) >= 1 /\ s[1] = c
  <1>1. <<c>> \in Seq(Int) /\ Len(<<c>>) = 1 /\ <<c>>[1] = c
    OBVIOUS
  <1>2. IsPrefix(<<c>>, s) <=> 1 <= Len(s) /\ \A i \in 1 .. 1 : s[i] = <<c>>[i]
    BY <1>1, StartsWith
  <1>3. (\A i \in 1 .. 1 : s[i] = <<c>>[i]) <=> s[1] = <<c>>[1]
    OBVIOUS
  <1> QED BY <1>1, <1>2, <1>3

\* One symbol, and a prefix of the rest.
LEMMA StartsThen ==
  ASSUME NEW c \in Int, NEW q \in Seq(Int), NEW s \in Seq(Int)
  PROVE  IsPrefix(<<c>> \o q, s) <=> IsPrefix(<<c>>, s) /\ IsPrefix(q, Tail(s))
  <1>1. <<c>> \in Seq(Int) /\ Len(<<c>>) = 1
    BY StartsOne
  <1>2. IsPrefix(<<c>> \o q, s) <=> IsPrefix(<<c>>, s) /\ IsPrefix(q, Rest(s, 1))
    BY <1>1, StartsBoth
  <1>3. Rest(s, 1) = Tail(s)
    <2>1. Tail(s) = SubSeq(s, 2, Len(s)) /\ 1 + 1 = 2
      OBVIOUS
    <2> QED BY <2>1 DEF Rest
  <1> QED BY <1>2, <1>3

\* A symbol that may be there or not.
Without(s, c) == IF IsPrefix(<<c>>, s) THEN Tail(s) ELSE s

LEMMA OptionalIs ==
  ASSUME NEW c \in Int, NEW s \in Seq(Int)
  PROVE  /\ Without(s, c) \in Seq(Int)
         /\ \A q \in Seq(Int) :
              Len(q) >= 1 /\ q[1] # c =>
                (IsPrefix(q, Without(s, c)) <=> IsPrefix(q, s) \/ IsPrefix(<<c>> \o q, s))
  <1>1. IsPrefix(<<c>>, s) <=> Len(s) >= 1 /\ s[1] = c
    BY StartsOne
  <1>2. Without(s, c) \in Seq(Int)
    <2>1. CASE IsPrefix(<<c>>, s)
      <3>1. s # <<>>
        BY <1>1, <2>1
      <3> QED BY <2>1, <3>1 DEF Without
    <2> QED BY <2>1 DEF Without
  <1>3. ASSUME NEW q \in Seq(Int), Len(q) >= 1, q[1] # c
        PROVE  IsPrefix(q, Without(s, c)) <=> IsPrefix(q, s) \/ IsPrefix(<<c>> \o q, s)
    <2>1. IsPrefix(<<c>> \o q, s) <=> IsPrefix(<<c>>, s) /\ IsPrefix(q, Tail(s))
      BY StartsThen
    <2>2. ASSUME IsPrefix(q, s) PROVE ~IsPrefix(<<c>>, s)
      <3>1. \A i \in 1 .. Len(q) : s[i] = q[i]
        BY <2>2, StartsWith
      <3>2. 1 \in 1 .. Len(q)
        BY <1>3
      <3> QED BY <1>1, <1>3, <3>1, <3>2
    <2> QED BY <2>1, <2>2 DEF Without
  <1> QED BY <1>2, <1>3

\* A prefix without the symbol is one of what is before the symbol.
LEMMA UntilStarts ==
  ASSUME NEW s \in Seq(Int), NEW symbol
  PROVE  /\ Until(s, symbol) \in Seq(Int)
         /\ \A q \in Seq(Int) :
              (\A i \in 1 .. Len(q) : q[i] # symbol) =>
                (IsPrefix(q, Until(s, symbol)) <=> IsPrefix(q, s))
  <1>1. PICK n \in Nat : n = Len(s)
    OBVIOUS
  <1>2. PICK k : UntilAt(s, symbol, k)
    BY UntilPlace
  <1>3. PICK a : a = Until(s, symbol)
    OBVIOUS
  <1>4. k \in 0 .. n /\ a = SubSeq(s, 1, k) /\ (a # s => s[k + 1] = symbol /\ k < n)
    BY <1>1, <1>2, <1>3 DEF UntilAt
  <1>5. a \in Seq(Int) /\ Len(a) = k /\ \A i \in 1 .. k : a[i] = s[i]
    BY <1>1, <1>4, FrontIs
  <1>6. ASSUME NEW q \in Seq(Int), \A i \in 1 .. Len(q) : q[i] # symbol
        PROVE  IsPrefix(q, a) <=> IsPrefix(q, s)
    <2>1. PICK m \in Nat : m = Len(q)
      OBVIOUS
    <2>2. IsPrefix(q, a) <=> m <= k /\ \A i \in 1 .. m : a[i] = q[i]
      BY <1>5, <2>1, StartsWith
    <2>3. IsPrefix(q, s) <=> m <= n /\ \A i \in 1 .. m : s[i] = q[i]
      BY <1>1, <2>1, StartsWith
    <2>4. ASSUME IsPrefix(q, a) PROVE IsPrefix(q, s)
      <3>1. m <= n /\ \A i \in 1 .. m : i \in 1 .. k
        BY <1>4, <2>2, <2>4
      <3> QED BY <1>5, <2>2, <2>3, <2>4, <3>1
    <2>5. ASSUME IsPrefix(q, s), a # s PROVE IsPrefix(q, a)
      <3>1. m <= k
        <4>1. ASSUME k < m PROVE FALSE
          <5>1. k + 1 \in 1 .. m
            BY <1>4, <4>1
          <5> QED BY <1>4, <1>6, <2>1, <2>3, <2>5, <5>1
        <4> QED BY <1>4, <4>1
      <3>2. \A i \in 1 .. m : i \in 1 .. k
        BY <1>4, <3>1
      <3> QED BY <1>5, <2>2, <2>3, <2>5, <3>1, <3>2
    <2> QED BY <2>4, <2>5
  <1> QED BY <1>3, <1>5, <1>6
-----------------------------------------------------------------------------
\* A number as it may be written.
Gaps == {<<>>, <<Gap>>}
Signs == {<<>>, <<Plus>>, <<Minus>>}
Signed(sign, n) == IF sign = <<Minus>> THEN -n ELSE n
IsInt(v) == -IntMax - 1 <= v /\ v <= IntMax
Written(gap, sign, n) == gap \o sign \o <<n>>

\* s begins with the number v.
Begins(s, v) ==
  \E gap \in Gaps, sign \in Signs, n \in Nat :
    v = Signed(sign, n) /\ IsInt(v) /\ IsPrefix(Written(gap, sign, n), s)

\* The symbols of a number, and of a host and a port.
NumberSymbols == {Gap, Plus, Minus} \cup Nat
HostSymbols == {Host, Colon} \cup NumberSymbols

LEMMA SymbolsAre ==
  /\ NumberSymbols \subseteq Int /\ HostSymbols \subseteq Int
  /\ Slash \notin HostSymbols /\ Scheme \notin HostSymbols
  /\ Colon \notin NumberSymbols /\ Host \in Int /\ Colon \in Int /\ Host # Colon
  /\ Host # Scheme /\ {Scheme, Gap, Plus, Minus} \subseteq Int
  BY PortalAssumption DEF NumberSymbols, HostSymbols, Scheme, Slash, Colon, Gap, Plus, Minus

LEMMA WrittenIs ==
  ASSUME NEW gap \in Gaps, NEW sign \in Signs, NEW n \in Nat
  PROVE  /\ gap \in Seq(NumberSymbols) /\ sign \in Seq(NumberSymbols)
         /\ <<n>> \in Seq(NumberSymbols)
         /\ sign \o <<n>> \in Seq(NumberSymbols) /\ Len(sign \o <<n>>) >= 1
         /\ (sign \o <<n>>)[1] # Gap
         /\ Written(gap, sign, n) = gap \o (sign \o <<n>>)
         /\ Written(gap, sign, n) \in Seq(NumberSymbols)
         /\ Len(Written(gap, sign, n)) >= 1
         /\ Written(gap, sign, n)[Len(Written(gap, sign, n))] = n
  <1>1. PICK T : T = NumberSymbols
    OBVIOUS
  <1>2. Gap \in T /\ Plus \in T /\ Minus \in T /\ n \in T
    BY <1>1 DEF NumberSymbols
  <1>3. gap \in Seq(T) /\ sign \in Seq(T) /\ <<n>> \in Seq(T) /\ Len(<<n>>) = 1 /\ <<n>>[1] = n
    <2>1. \A c \in T : <<c>> \in Seq(T) /\ Len(<<c>>) = 1 /\ <<c>>[1] = c
      OBVIOUS
    <2>2. <<>> \in Seq(T)
      BY EmptySeq
    <2>3. gap = <<>> \/ gap = <<Gap>>
      BY DEF Gaps
    <2>4. sign = <<>> \/ sign = <<Plus>> \/ sign = <<Minus>>
      BY DEF Signs
    <2> QED BY <1>2, <2>1, <2>2, <2>3, <2>4
  <1>4. sign \o <<n>> \in Seq(T) /\ Len(sign \o <<n>>) >= 1
    BY <1>3
  <1>5. (sign \o <<n>>)[1] # Gap
    <2>1. CASE sign = <<>>
      BY <2>1 DEF Gap
    <2>2. CASE sign = <<Plus>>
      BY <2>2 DEF Gap, Plus
    <2>3. CASE sign = <<Minus>>
      BY <2>3 DEF Gap, Minus
    <2> QED BY <2>1, <2>2, <2>3 DEF Signs
  <1>6. PICK g \in Seq(T) : g = gap \o sign
    BY <1>3, ConcatProperties
  <1>7. g \o <<n>> = gap \o (sign \o <<n>>)
    BY <1>3, <1>6, ConcatAssociative
  <1>8. g \o <<n>> \in Seq(T) /\ Len(g \o <<n>>) >= 1 /\ (g \o <<n>>)[Len(g \o <<n>>)] = n
    BY <1>3
  <1> QED BY <1>1, <1>3, <1>4, <1>5, <1>6, <1>7, <1>8 DEF Written

\* A number at the head.
LEMMA DigitsAre ==
  ASSUME NEW d \in Seq(Int), NEW n
  PROVE  n \in {m \in ToSet(d) : m >= 0 /\ m = d[1]} <=> n \in Nat /\ IsPrefix(<<n>>, d)
  <1>1. PICK k \in Nat : k = Len(d) /\ DOMAIN d = 1 .. k
    OBVIOUS
  <1>2. ToSet(d) = {d[i] : i \in 1 .. k}
    BY <1>1 DEF ToSet
  <1>3. ASSUME n \in {m \in ToSet(d) : m >= 0 /\ m = d[1]} PROVE n \in Nat /\ IsPrefix(<<n>>, d)
    <2>1. PICK i \in 1 .. k : n = d[i] /\ n >= 0 /\ n = d[1]
      BY <1>2, <1>3
    <2>2. n \in Nat /\ k >= 1
      BY <1>1, <2>1
    <2> QED BY <1>1, <2>1, <2>2, StartsOne
  <1>4. ASSUME n \in Nat, IsPrefix(<<n>>, d) PROVE n \in {m \in ToSet(d) : m >= 0 /\ m = d[1]}
    <2>1. k >= 1 /\ d[1] = n
      BY <1>1, <1>4, StartsOne
    <2>2. 1 \in 1 .. k
      BY <2>1
    <2> QED BY <1>2, <1>4, <2>1, <2>2
  <1> QED BY <1>3, <1>4

\* A sign and a number at the head.
LEMMA SignIs ==
  ASSUME NEW u \in Seq(Int), NEW n \in Nat
  PROVE  LET minus  == IsPrefix(<<Minus>>, u)
             digits == IF minus \/ IsPrefix(<<Plus>>, u) THEN Tail(u) ELSE u
         IN /\ digits \in Seq(Int)
            /\ IsPrefix(<<n>>, digits) =>
                 \E sign \in Signs : /\ IsPrefix(sign \o <<n>>, u)
                                     /\ sign = <<Minus>> <=> minus
            /\ \A sign \in Signs : IsPrefix(sign \o <<n>>, u) =>
                 IsPrefix(<<n>>, digits) /\ (sign = <<Minus>> <=> minus)
  <1>1. /\ IsPrefix(<<Minus>>, u) <=> Len(u) >= 1 /\ u[1] = Minus
        /\ IsPrefix(<<Plus>>, u) <=> Len(u) >= 1 /\ u[1] = Plus
        /\ IsPrefix(<<n>>, u) <=> Len(u) >= 1 /\ u[1] = n
    BY SymbolsAre, StartsOne
  <1>2. Minus # Plus /\ n # Minus /\ n # Plus
    BY DEF Minus, Plus
  <1>3. <<n>> \in Seq(Int) /\ <<>> \o <<n>> = <<n>>
    OBVIOUS
  <1>4. /\ IsPrefix(<<Minus>> \o <<n>>, u) <=> IsPrefix(<<Minus>>, u) /\ IsPrefix(<<n>>, Tail(u))
        /\ IsPrefix(<<Plus>> \o <<n>>, u) <=> IsPrefix(<<Plus>>, u) /\ IsPrefix(<<n>>, Tail(u))
    BY <1>3, SymbolsAre, StartsThen
  <1>5. <<>> \in Signs /\ <<Plus>> \in Signs /\ <<Minus>> \in Signs
        /\ \A sign \in Signs : sign = <<>> \/ sign = <<Plus>> \/ sign = <<Minus>>
    BY DEF Signs
  <1>6. <<>> # <<Minus>> /\ <<Plus>> # <<Minus>>
    BY <1>2
  <1>7. IsPrefix(<<Minus>>, u) \/ IsPrefix(<<Plus>>, u) => Tail(u) \in Seq(Int)
    <2>1. ASSUME Len(u) >= 1 PROVE Tail(u) \in Seq(Int)
      <3>1. u # <<>>
        BY <2>1
      <3> QED BY <3>1
    <2> QED BY <1>1, <2>1
  <1>8. CASE IsPrefix(<<Minus>>, u)
    <2>1. ~IsPrefix(<<Plus>>, u) /\ ~IsPrefix(<<n>>, u)
      BY <1>1, <1>2, <1>8
    <2> QED BY <1>3, <1>4, <1>5, <1>6, <1>7, <1>8, <2>1, Zenon
  <1>9. CASE ~IsPrefix(<<Minus>>, u) /\ IsPrefix(<<Plus>>, u)
    <2>1. ~IsPrefix(<<n>>, u)
      BY <1>1, <1>2, <1>9
    <2> QED BY <1>3, <1>4, <1>5, <1>6, <1>7, <1>9, <2>1, Zenon
  <1>10. CASE ~IsPrefix(<<Minus>>, u) /\ ~IsPrefix(<<Plus>>, u)
    BY <1>3, <1>4, <1>5, <1>6, <1>10, Zenon
  <1> QED BY <1>8, <1>9, <1>10

\* What stoi reads is what is written.
LEMMA StoiIs ==
  ASSUME NEW s \in Seq(Int), NEW v
  PROVE  v \in stoi(s) <=> Begins(s, v)
  <1>1. PICK u : u = Without(s, Gap)
    OBVIOUS
  <1>2. /\ u \in Seq(Int)
        /\ \A q \in Seq(Int) : Len(q) >= 1 /\ q[1] # Gap =>
             (IsPrefix(q, u) <=> IsPrefix(q, s) \/ IsPrefix(<<Gap>> \o q, s))
    BY <1>1, SymbolsAre, OptionalIs
  <1>3. PICK minus : minus = IsPrefix(<<Minus>>, u)
    OBVIOUS
  <1>4. PICK digits : digits = IF minus \/ IsPrefix(<<Plus>>, u) THEN Tail(u) ELSE u
    OBVIOUS
  <1>5. stoi(s) = {w \in {IF minus THEN -n ELSE n :
                            n \in {m \in ToSet(digits) : m >= 0 /\ m = digits[1]}} : IsInt(w)}
    BY <1>1, <1>3, <1>4 DEF stoi, Without, IsInt
  <1>6. \A n \in Nat :
          /\ digits \in Seq(Int)
          /\ IsPrefix(<<n>>, digits) =>
               \E sign \in Signs : IsPrefix(sign \o <<n>>, u) /\ (sign = <<Minus>> <=> minus)
          /\ \A sign \in Signs : IsPrefix(sign \o <<n>>, u) =>
               IsPrefix(<<n>>, digits) /\ (sign = <<Minus>> <=> minus)
    BY <1>2, <1>3, <1>4, SignIs
  <1>7. digits \in Seq(Int)
    <2>1. 0 \in Nat
      OBVIOUS
    <2> QED BY <1>6, <2>1
  <1>8. \A n : n \in {m \in ToSet(digits) : m >= 0 /\ m = digits[1]} <=>
                 n \in Nat /\ IsPrefix(<<n>>, digits)
    BY <1>7, DigitsAre
  <1>9. \A n \in Nat, sign \in Signs :
          IsPrefix(sign \o <<n>>, u) <=>
            \E gap \in Gaps : IsPrefix(Written(gap, sign, n), s)
    <2> SUFFICES ASSUME NEW n \in Nat, NEW sign \in Signs
                 PROVE  IsPrefix(sign \o <<n>>, u) <=>
                          \E gap \in Gaps : IsPrefix(Written(gap, sign, n), s)
      OBVIOUS
    <2>1. PICK q : q = sign \o <<n>>
      OBVIOUS
    <2>2. <<>> \in Gaps /\ <<Gap>> \in Gaps /\ \A gap \in Gaps : gap = <<>> \/ gap = <<Gap>>
      BY DEF Gaps
    <2>3. q \in Seq(NumberSymbols) /\ Len(q) >= 1 /\ q[1] # Gap
      BY <2>1, <2>2, WrittenIs
    <2>4. q \in Seq(Int)
      BY <2>3, SymbolsAre, SeqMonotonic
    <2>5. Written(<<>>, sign, n) = <<>> \o q /\ Written(<<Gap>>, sign, n) = <<Gap>> \o q
      BY <2>1, <2>2, WrittenIs
    <2>6. <<>> \o q = q
      BY <2>4
    <2>7. IsPrefix(q, u) <=> IsPrefix(q, s) \/ IsPrefix(<<Gap>> \o q, s)
      BY <1>2, <2>3, <2>4
    <2> QED BY <2>1, <2>2, <2>5, <2>6, <2>7
  <1>10. ASSUME v \in stoi(s) PROVE Begins(s, v)
    <2>1. PICK n \in {m \in ToSet(digits) : m >= 0 /\ m = digits[1]} :
            v = (IF minus THEN -n ELSE n) /\ IsInt(v)
      BY <1>5, <1>10
    <2>2. n \in Nat /\ IsPrefix(<<n>>, digits)
      BY <1>8, <2>1
    <2>3. PICK sign \in Signs : IsPrefix(sign \o <<n>>, u) /\ (sign = <<Minus>> <=> minus)
      BY <1>6, <2>2
    <2>4. PICK gap \in Gaps : IsPrefix(Written(gap, sign, n), s)
      BY <1>9, <2>2, <2>3
    <2>5. v = Signed(sign, n)
      BY <2>1, <2>3 DEF Signed
    <2> QED BY <2>1, <2>2, <2>4, <2>5 DEF Begins
  <1>11. ASSUME Begins(s, v) PROVE v \in stoi(s)
    <2>1. PICK gap \in Gaps, sign \in Signs, n \in Nat :
            v = Signed(sign, n) /\ IsInt(v) /\ IsPrefix(Written(gap, sign, n), s)
      BY <1>11 DEF Begins
    <2>2. IsPrefix(sign \o <<n>>, u)
      BY <1>9, <2>1
    <2>3. IsPrefix(<<n>>, digits) /\ (sign = <<Minus>> <=> minus)
      BY <1>6, <2>2
    <2>4. v = (IF minus THEN -n ELSE n)
      BY <2>1, <2>3 DEF Signed
    <2>5. n \in {m \in ToSet(digits) : m >= 0 /\ m = digits[1]}
      BY <1>8, <2>3
    <2> QED BY <1>5, <2>1, <2>4, <2>5
  <1> QED BY <1>10, <1>11
-----------------------------------------------------------------------------
\* host:v, and v is the port of the server, cut to 16 bits.
ServerAt(t) ==
  \E gap \in Gaps, sign \in Signs, n \in Nat :
    /\ IsInt(Signed(sign, n)) /\ Signed(sign, n) % PortBase = Port
    /\ IsPrefix(<<Host, Colon>> \o Written(gap, sign, n), t)

LEMMA HostTextIs ==
  ASSUME NEW gap \in Gaps, NEW sign \in Signs, NEW n \in Nat
  PROVE  LET w == <<Host, Colon>> \o Written(gap, sign, n)
         IN /\ w \in Seq(HostSymbols) /\ w \in Seq(Int) /\ Len(w) >= 1 /\ w[1] = Host
            /\ w[Len(w)] = n
            /\ <<Host, Colon>> \in Seq(Int) /\ Len(<<Host, Colon>>) = 2
            /\ Written(gap, sign, n) \in Seq(Int)
  <1>1. PICK T : T = HostSymbols
    OBVIOUS
  <1>2. Host \in T /\ Colon \in T /\ NumberSymbols \subseteq T /\ T \subseteq Int
    BY <1>1, SymbolsAre DEF HostSymbols
  <1>3. PICK x : x = Written(gap, sign, n)
    OBVIOUS
  <1>4. x \in Seq(NumberSymbols) /\ Len(x) >= 1 /\ x[Len(x)] = n
    BY <1>3, WrittenIs
  <1>5. x \in Seq(T)
    BY <1>2, <1>4, SeqMonotonic
  <1>6. PICK h : h = <<Host, Colon>>
    OBVIOUS
  <1>7. h \in Seq(T) /\ Len(h) = 2 /\ h[1] = Host
    BY <1>2, <1>6
  <1>8. h \o x \in Seq(T) /\ Len(h \o x) >= 1 /\ (h \o x)[1] = Host
        /\ (h \o x)[Len(h \o x)] = n
    <2>1. PICK w : w = h \o x
      OBVIOUS
    <2>3. PICK m \in Nat : m = Len(x)
      BY <1>5
    <2>4. Puts(w, T, h, x, 2, m)
      BY <1>5, <1>7, <2>1, <2>3 DEF Puts, Cat
    <2>6. Reads(w, T, h, x, 2, m)
      BY <2>4, ConcatIs
    <2>5. /\ w \in Seq(T) /\ Len(w) = 2 + m
          /\ \A i \in 1 .. 2 : w[i] = h[i]
          /\ \A i \in 1 .. m : w[2 + i] = x[i]
      BY <2>6 DEF Reads
    <2>2. /\ w \in Seq(T) /\ Len(w) = 2 + Len(x) /\ w[1] = Host
          /\ \A i \in 1 .. Len(x) : w[2 + i] = x[i]
      BY <1>7, <2>3, <2>5
    <2>7. Len(w) >= 1 /\ w[2 + Len(x)] = n
      BY <1>4, <2>2, <2>3
    <2> QED BY <2>1, <2>2, <2>7
  <1>9. h \o x \in Seq(Int) /\ x \in Seq(Int) /\ h \in Seq(Int)
    BY <1>2, <1>5, <1>7, <1>8, SeqMonotonic
  <1> QED BY <1>1, <1>3, <1>6, <1>7, <1>8, <1>9

\* A path does not change where a URL points to.
LEMMA PathAside ==
  ASSUME NEW t \in Seq(Int)
  PROVE  /\ Until(t, Slash) \in Seq(Int)
         /\ ServerAt(Until(t, Slash)) <=> ServerAt(t)
  <1>1. PICK a : a = Until(t, Slash)
    OBVIOUS
  <1>2. /\ a \in Seq(Int)
        /\ \A q \in Seq(Int) : (\A i \in 1 .. Len(q) : q[i] # Slash) =>
             (IsPrefix(q, a) <=> IsPrefix(q, t))
    BY <1>1, UntilStarts
  <1>3. \A gap \in Gaps, sign \in Signs, n \in Nat :
          IsPrefix(<<Host, Colon>> \o Written(gap, sign, n), a) <=>
            IsPrefix(<<Host, Colon>> \o Written(gap, sign, n), t)
    <2> SUFFICES ASSUME NEW gap \in Gaps, NEW sign \in Signs, NEW n \in Nat
                 PROVE  IsPrefix(<<Host, Colon>> \o Written(gap, sign, n), a) <=>
                          IsPrefix(<<Host, Colon>> \o Written(gap, sign, n), t)
      OBVIOUS
    <2>1. PICK w : w = <<Host, Colon>> \o Written(gap, sign, n)
      OBVIOUS
    <2>2. w \in Seq(HostSymbols) /\ w \in Seq(Int)
      BY <2>1, HostTextIs
    <2>3. \A i \in 1 .. Len(w) : w[i] # Slash
      BY <2>2, SymbolsAre, ElementOfSeq
    <2> QED BY <1>2, <2>1, <2>2, <2>3
  <1> QED BY <1>1, <1>2, <1>3 DEF ServerAt

\* What stands behind the scheme.
Bare(url) == Without(url, Scheme)

LEMMA SchemeIs ==
  ASSUME NEW scheme \in {<<>>, <<Scheme>>}
  PROVE  scheme \in Seq(Int)
  <1>1. <<>> \in Seq(Int) /\ <<Scheme>> \in Seq(Int)
    BY DEF Scheme
  <1> QED BY <1>1

\* Five texts one behind the other, put together from either end.
FiveOf(a, b, c, d, e) ==
  /\ a \in Seq(Int) /\ b \in Seq(Int) /\ c \in Seq(Int) /\ d \in Seq(Int)
  /\ e \in Seq(Int)

LEMMA FiveParts ==
  ASSUME NEW a, NEW b, NEW c, NEW d, NEW e, FiveOf(a, b, c, d, e)
  PROVE  Cat(Cat(Cat(Cat(a, b), c), d), e) = Cat(a, Cat(b, Cat(c, Cat(d, e))))
  <1>0. /\ a \in Seq(Int) /\ b \in Seq(Int) /\ c \in Seq(Int) /\ d \in Seq(Int)
        /\ e \in Seq(Int)
    BY DEF FiveOf
  <1>1. PICK ab \in Seq(Int), de \in Seq(Int) : ab = Cat(a, b) /\ de = Cat(d, e)
    BY <1>0, ConcatProperties DEF Cat
  <1>2. PICK abc \in Seq(Int), cde \in Seq(Int) : abc = Cat(ab, c) /\ cde = Cat(c, de)
    BY <1>0, ConcatProperties DEF Cat
  <1>6. ThreeOf(Int, abc, d, e) /\ ThreeOf(Int, ab, c, de) /\ ThreeOf(Int, a, b, cde)
    BY <1>0 DEF ThreeOf
  <1>3. Cat(Cat(abc, d), e) = Cat(abc, de)
    BY <1>1, <1>6, Associative
  <1>4. Cat(Cat(ab, c), de) = Cat(ab, cde)
    BY <1>2, <1>6, Associative
  <1>5. Cat(Cat(a, b), cde) = Cat(a, Cat(b, cde))
    BY <1>6, Associative
  <1> QED BY <1>1, <1>2, <1>3, <1>4, <1>5

\* One way to name the server.
Naming(url, scheme, gap, sign, n) ==
  /\ IsInt(Signed(sign, n)) /\ Signed(sign, n) % PortBase = Port
  /\ IsPrefix(scheme \o <<Host, Colon>> \o gap \o sign \o <<n>>, url)

LEMMA BareIs ==
  ASSUME NEW url \in Seq(Int)
  PROVE  /\ Bare(url) \in Seq(Int)
         /\ NamesServer(url) <=> ServerAt(Bare(url))
  <1>1. PICK k \in Nat : k = Len(url) /\ DOMAIN url = 1 .. k
    OBVIOUS
  <1>2. PICK t : t = Bare(url)
    OBVIOUS
  <1>3. /\ t \in Seq(Int)
        /\ \A q \in Seq(Int) : Len(q) >= 1 /\ q[1] # Scheme =>
             (IsPrefix(q, t) <=> IsPrefix(q, url) \/ IsPrefix(<<Scheme>> \o q, url))
    BY <1>2, SymbolsAre, OptionalIs DEF Bare
  <1>4. NamesServer(url) <=>
          \E scheme \in {<<>>, <<Scheme>>}, gap \in Gaps, sign \in Signs, n \in ToSet(url) :
            n >= 0 /\ Naming(url, scheme, gap, sign, n)
    BY DEF NamesServer, Naming, Gaps, Signs, Signed, IsInt
  <1>5. ToSet(url) = {url[i] : i \in 1 .. k}
    BY <1>1 DEF ToSet
  <1>6. ASSUME NEW scheme \in {<<>>, <<Scheme>>}, NEW gap \in Gaps, NEW sign \in Signs,
               NEW n \in Nat
        PROVE  scheme \o <<Host, Colon>> \o gap \o sign \o <<n>> =
                 scheme \o (<<Host, Colon>> \o Written(gap, sign, n))
    <2>1. <<Host, Colon>> \in Seq(Int)
      BY SymbolsAre
    <2>2. gap \in Seq(Int) /\ sign \in Seq(Int) /\ <<n>> \in Seq(Int) /\ scheme \in Seq(Int)
      BY WrittenIs, SymbolsAre, SeqMonotonic, SchemeIs
    <2>3. Written(gap, sign, n) = gap \o (sign \o <<n>>)
      BY WrittenIs
    <2>4. PICK h \in Seq(Int), d \in Seq(Int) : h = <<Host, Colon>> /\ d = <<n>>
      BY <2>1, <2>2
    <2>5. scheme \o h \o gap \o sign \o d = scheme \o (h \o (gap \o (sign \o d)))
      <3>1. FiveOf(scheme, h, gap, sign, d)
        BY <2>2, <2>4 DEF FiveOf
      <3>2. Cat(Cat(Cat(Cat(scheme, h), gap), sign), d) =
              Cat(scheme, Cat(h, Cat(gap, Cat(sign, d))))
        BY <3>1, FiveParts
      <3> QED BY <3>2 DEF Cat
    <2> QED BY <2>3, <2>4, <2>5
  <1>7. ASSUME NEW gap \in Gaps, NEW sign \in Signs, NEW n \in Nat
        PROVE  LET w == <<Host, Colon>> \o Written(gap, sign, n)
               IN IsPrefix(w, t) <=> IsPrefix(<<>> \o w, url) \/ IsPrefix(<<Scheme>> \o w, url)
    <2>1. PICK w : w = <<Host, Colon>> \o Written(gap, sign, n)
      OBVIOUS
    <2>2. w \in Seq(Int) /\ Len(w) >= 1 /\ w[1] # Scheme
      BY <2>1, HostTextIs, SymbolsAre
    <2>3. <<>> \o w = w
      BY <2>2
    <2> QED BY <1>3, <2>1, <2>2, <2>3
  <1>8. ASSUME NamesServer(url) PROVE ServerAt(t)
    <2>1. PICK scheme \in {<<>>, <<Scheme>>}, gap \in Gaps, sign \in Signs, n \in ToSet(url) :
            n >= 0 /\ Naming(url, scheme, gap, sign, n)
      BY <1>4, <1>8
    <2>2. n \in Nat
      BY <1>1, <1>5, <2>1
    <2>3. IsPrefix(scheme \o (<<Host, Colon>> \o Written(gap, sign, n)), url)
      BY <1>6, <2>1, <2>2 DEF Naming
    <2>4. IsPrefix(<<Host, Colon>> \o Written(gap, sign, n), t)
      BY <1>7, <2>2, <2>3
    <2> QED BY <2>1, <2>2, <2>4 DEF ServerAt, Naming
  <1>9. ASSUME ServerAt(t) PROVE NamesServer(url)
    <2>1. PICK gap \in Gaps, sign \in Signs, n \in Nat :
            /\ IsInt(Signed(sign, n)) /\ Signed(sign, n) % PortBase = Port
            /\ IsPrefix(<<Host, Colon>> \o Written(gap, sign, n), t)
      BY <1>9 DEF ServerAt
    <2>2. PICK w : w = <<Host, Colon>> \o Written(gap, sign, n)
      OBVIOUS
    <2>3. w \in Seq(Int) /\ Len(w) >= 1 /\ w[Len(w)] = n
      BY <2>2, HostTextIs
    <2>4. PICK scheme \in {<<>>, <<Scheme>>} : IsPrefix(scheme \o w, url)
      BY <1>7, <2>1, <2>2
    <2>5. Naming(url, scheme, gap, sign, n)
      BY <1>6, <2>1, <2>2, <2>4 DEF Naming
    <2>6. n \in ToSet(url)
      <3>1. scheme \in Seq(Int)
        BY SchemeIs
      <3>2. PICK x : x = scheme \o w
        OBVIOUS
      <3>3. x \in Seq(Int) /\ Len(x) >= 1 /\ x[Len(x)] = n
        BY <2>3, <3>1, <3>2
      <3>4. Len(x) <= k /\ \A i \in 1 .. Len(x) : url[i] = x[i]
        BY <1>1, <2>4, <3>2, <3>3, StartsWith
      <3>5. Len(x) \in 1 .. k /\ Len(x) \in 1 .. Len(x)
        BY <1>1, <3>3, <3>4
      <3> QED BY <1>5, <3>3, <3>4, <3>5
    <2> QED BY <1>4, <2>1, <2>5, <2>6
  <1> QED BY <1>2, <1>3, <1>8, <1>9

\* What the constructor reads of an authority.
ReadFrom(authority) ==
  LET host == Until(authority, Colon)
  IN IF host = authority THEN {<<host, 80>>}
     ELSE {<<host, v % PortBase>> :
             v \in stoi(SubSeq(authority, Len(host) + 2, Len(authority)))}

\* The host is what is before the first colon.
LEMMA HostIsRead ==
  ASSUME NEW a \in Seq(Int)
  PROVE  LET host == Until(a, Colon)
         IN host = <<Host>> /\ host # a <=> IsPrefix(<<Host, Colon>>, a)
  <1>1. PICK n \in Nat : n = Len(a)
    OBVIOUS
  <1>2. PICK k : UntilAt(a, Colon, k)
    BY UntilPlace
  <1>3. PICK host : host = Until(a, Colon)
    OBVIOUS
  <1>4. /\ k \in 0 .. n /\ host = SubSeq(a, 1, k)
        /\ \A i \in 1 .. k : a[i] # Colon
        /\ host # a => a[k + 1] = Colon /\ k < n
    BY <1>1, <1>2, <1>3 DEF UntilAt
  <1>5. host \in Seq(Int) /\ Len(host) = k /\ \A i \in 1 .. k : host[i] = a[i]
    BY <1>1, <1>4, FrontIs
  <1>6. <<Host>> \in Seq(Int) /\ Len(<<Host>>) = 1 /\ <<Host>>[1] = Host
    BY PortalAssumption
  <1>7. IsPrefix(<<Host, Colon>>, a) <=> n >= 2 /\ a[1] = Host /\ a[2] = Colon
    <2>1. PICK p : p = <<Host, Colon>>
      OBVIOUS
    <2>2. p \in Seq(Int) /\ Len(p) = 2 /\ p[1] = Host /\ p[2] = Colon
      BY <2>1, SymbolsAre
    <2>3. IsPrefix(p, a) <=> 2 <= n /\ \A i \in 1 .. 2 : a[i] = p[i]
      BY <1>1, <2>2, StartsWith
    <2>4. (\A i \in 1 .. 2 : a[i] = p[i]) <=> a[1] = p[1] /\ a[2] = p[2]
      OBVIOUS
    <2> QED BY <2>1, <2>2, <2>3, <2>4
  <1>8. ASSUME host = <<Host>>, host # a PROVE IsPrefix(<<Host, Colon>>, a)
    <2>1. k = 1
      BY <1>5, <1>6, <1>8
    <2>2. a[1] = Host /\ a[2] = Colon /\ n >= 2
      BY <1>4, <1>5, <1>6, <1>8, <2>1
    <2> QED BY <1>7, <2>2
  <1>9. ASSUME IsPrefix(<<Host, Colon>>, a) PROVE host = <<Host>> /\ host # a
    <2>1. n >= 2 /\ a[1] = Host /\ a[2] = Colon /\ Host # Colon
      BY <1>7, <1>9, SymbolsAre
    <2>2. k < 2
      <3>1. ASSUME k >= 2 PROVE FALSE
        <4>1. 2 \in 1 .. k
          BY <1>4, <3>1
        <4> QED BY <1>4, <2>1, <4>1
      <3> QED BY <1>4, <3>1
    <2>3. host # a
      BY <1>1, <1>5, <2>1, <2>2
    <2>4. k = 1
      <3>1. k # 0
        <4>1. ASSUME k = 0 PROVE FALSE
          <5>1. a[0 + 1] = Colon /\ 0 + 1 = 1
            BY <1>4, <2>3, <4>1
          <5> QED BY <2>1, <5>1
        <4> QED BY <4>1
      <3> QED BY <1>4, <2>2, <3>1
    <2>5. host[1] = Host
      BY <1>5, <2>1, <2>4
    <2>6. host = <<Host>>
      BY <1>5, <1>6, <2>4, <2>5, SameSeq
    <2> QED BY <2>3, <2>6
  <1> QED BY <1>3, <1>8, <1>9

LEMMA PortIsRead ==
  ASSUME NEW a \in Seq(Int)
  PROVE  <<<<Host>>, Port>> \in ReadFrom(a) <=> ServerAt(a)
  <1>1. PICK n \in Nat : n = Len(a)
    OBVIOUS
  <1>2. PICK host : host = Until(a, Colon)
    OBVIOUS
  <1>3. host = <<Host>> /\ host # a <=> IsPrefix(<<Host, Colon>>, a)
    BY <1>2, HostIsRead
  <1>4. PICK number : number = Rest(a, 2)
    OBVIOUS
  <1>5. IsPrefix(<<Host, Colon>>, a) => number \in Seq(Int)
    <2>1. ASSUME IsPrefix(<<Host, Colon>>, a) PROVE 2 \in 0 .. Len(a)
      <3>1. PICK p : p = <<Host, Colon>>
        OBVIOUS
      <3>2. p \in Seq(Int) /\ Len(p) = 2
        BY <3>1, SymbolsAre
      <3>3. Len(p) <= Len(a)
        BY <2>1, <3>1, <3>2, StartsWith
      <3> QED BY <3>2, <3>3
    <2> QED BY <1>4, <2>1, RestIs
  <1>6. \A gap \in Gaps, sign \in Signs, m \in Nat :
          IsPrefix(<<Host, Colon>> \o Written(gap, sign, m), a) <=>
            IsPrefix(<<Host, Colon>>, a) /\ IsPrefix(Written(gap, sign, m), number)
    <2> SUFFICES ASSUME NEW gap \in Gaps, NEW sign \in Signs, NEW m \in Nat
                 PROVE  IsPrefix(<<Host, Colon>> \o Written(gap, sign, m), a) <=>
                          IsPrefix(<<Host, Colon>>, a) /\ IsPrefix(Written(gap, sign, m), number)
      OBVIOUS
    <2>1. PICK h, x : h = <<Host, Colon>> /\ x = Written(gap, sign, m)
      OBVIOUS
    <2>2. h \in Seq(Int) /\ x \in Seq(Int) /\ Len(h) = 2
      BY <2>1, HostTextIs
    <2>3. IsPrefix(h \o x, a) <=> IsPrefix(h, a) /\ IsPrefix(x, Rest(a, 2))
      BY <2>2, StartsBoth
    <2> QED BY <1>4, <2>1, <2>3
  <1>7. ServerAt(a) <=> IsPrefix(<<Host, Colon>>, a)
                        /\ \E v : v % PortBase = Port /\ Begins(number, v)
    <2>1. ASSUME ServerAt(a)
          PROVE  IsPrefix(<<Host, Colon>>, a)
                 /\ \E v : v % PortBase = Port /\ Begins(number, v)
      <3>1. PICK gap \in Gaps, sign \in Signs, m \in Nat :
              /\ IsInt(Signed(sign, m)) /\ Signed(sign, m) % PortBase = Port
              /\ IsPrefix(<<Host, Colon>> \o Written(gap, sign, m), a)
        BY <2>1 DEF ServerAt
      <3>2. PICK v : v = Signed(sign, m)
        OBVIOUS
      <3>3. Begins(number, v)
        BY <1>6, <3>1, <3>2 DEF Begins
      <3> QED BY <1>6, <3>1, <3>2, <3>3
    <2>2. ASSUME IsPrefix(<<Host, Colon>>, a), NEW v, v % PortBase = Port, Begins(number, v)
          PROVE  ServerAt(a)
      BY <1>6, <2>2 DEF ServerAt, Begins
    <2> QED BY <2>1, <2>2
  <1>8. ASSUME <<<<Host>>, Port>> \in ReadFrom(a) PROVE ServerAt(a)
    <2>1. Port # 80
      BY PortalAssumption
    <2>2. ReadFrom(a) = IF host = a THEN {<<host, 80>>}
                        ELSE {<<host, v % PortBase>> : v \in stoi(SubSeq(a, Len(host) + 2, n))}
      BY <1>1, <1>2 DEF ReadFrom
    <2>3. host # a
      <3>1. ASSUME host = a PROVE FALSE
        <4>1. <<<<Host>>, Port>> = <<host, 80>>
          BY <1>8, <2>2, <3>1
        <4> QED BY <2>1, <4>1
      <3> QED BY <3>1
    <2>4. PICK v \in stoi(SubSeq(a, Len(host) + 2, n)) : <<<<Host>>, Port>> = <<host, v % PortBase>>
      BY <1>8, <2>2, <2>3
    <2>5. host = <<Host>> /\ v % PortBase = Port
      BY <2>4
    <2>6. SubSeq(a, Len(host) + 2, n) = number
      <3>1. Len(host) + 2 = 2 + 1
        BY <2>5
      <3> QED BY <1>1, <1>4, <3>1 DEF Rest
    <2>7. IsPrefix(<<Host, Colon>>, a)
      BY <1>3, <2>3, <2>5
    <2>8. Begins(number, v)
      BY <1>5, <2>4, <2>6, <2>7, StoiIs
    <2> QED BY <1>7, <2>5, <2>7, <2>8
  <1>9. ASSUME ServerAt(a) PROVE <<<<Host>>, Port>> \in ReadFrom(a)
    <2>1. IsPrefix(<<Host, Colon>>, a) /\ host = <<Host>> /\ host # a
      BY <1>3, <1>7, <1>9
    <2>2. PICK v : v % PortBase = Port /\ Begins(number, v)
      BY <1>7, <1>9
    <2>3. v \in stoi(number)
      BY <1>5, <2>1, <2>2, StoiIs
    <2>4. SubSeq(a, Len(host) + 2, n) = number
      <3>1. Len(host) + 2 = 2 + 1
        BY <2>1
      <3> QED BY <1>1, <1>4, <3>1 DEF Rest
    <2>5. ReadFrom(a) = {<<host, w % PortBase>> : w \in stoi(number)}
      BY <1>1, <1>2, <2>1, <2>4 DEF ReadFrom
    <2> QED BY <2>1, <2>2, <2>3, <2>5
  <1> QED BY <1>8, <1>9

\* The client connects to the server exactly for the URLs that name it.
LEMMA UrlIsRead ==
  ASSUME NEW url \in Seq(Int)
  PROVE  <<<<Host>>, Port>> \in HttpClient(url) <=> NamesServer(url)
  <1>1. PICK t : t = Bare(url)
    OBVIOUS
  <1>2. t \in Seq(Int) /\ (NamesServer(url) <=> ServerAt(t))
    BY <1>1, BareIs
  <1>3. PICK a : a = Until(t, Slash)
    OBVIOUS
  <1>4. a \in Seq(Int) /\ (ServerAt(a) <=> ServerAt(t))
    BY <1>2, <1>3, PathAside
  <1>5. HttpClient(url) = ReadFrom(a)
    BY <1>1, <1>3 DEF HttpClient, Authority, Bare, Without, ReadFrom
  <1> QED BY <1>2, <1>4, <1>5, PortIsRead
-----------------------------------------------------------------------------
(***************************************************************************)
(* The server's key in an answer.                                          *)
(***************************************************************************)
\* x is the first place of the symbol behind p.
NextPlace(json, symbol, p, x) ==
  /\ x \in DOMAIN json /\ json[x] = symbol /\ p < x
  /\ \A y \in DOMAIN json : json[y] = symbol /\ p < y => x <= y

\* The places parse_pubkey finds: field, colon, and two quotes.
Found(json, f, c, q, r) ==
  /\ NextPlace(json, Field, 0, f) /\ NextPlace(json, Colon, f, c)
  /\ NextPlace(json, Quote, c, q) /\ NextPlace(json, Quote, q, r)

\* What is between the quotes, as bytes.
BytesOf(h) == [i \in 1 .. Len(h) \div 2 |-> 16 * h[2 * i - 1] + h[2 * i]]

KeysOf(hex) == {BytesOf(h) : h \in {g \in {hex} : Len(g) % 2 = 0 /\ ToSet(g) \subseteq 0 .. 15}}

\* The places of the symbol behind p.
PlacesBehind(json, symbol, p) == {i \in Places(json, symbol) : p < i}

\* The place that is found is the first of them.
LEMMA FirstIs ==
  ASSUME NEW json \in Seq(Int), NEW symbol, NEW p \in Nat, NEW x
  PROVE  /\ NextPlace(json, symbol, p, x) <=>
              PlacesBehind(json, symbol, p) # {} /\ x = First(PlacesBehind(json, symbol, p))
         /\ NextPlace(json, symbol, p, x) => x \in PlacesBehind(json, symbol, p) /\ x \in Nat
  <1>0. PICK S : S = PlacesBehind(json, symbol, p)
    OBVIOUS
  <1>1. S \subseteq DOMAIN json /\ S \subseteq Nat
    BY <1>0 DEF PlacesBehind, Places
  <1>2. ASSUME S # {} PROVE First(S) \in S /\ \A y \in S : First(S) <= y
    <2>1. \E z \in S : \A y \in S : z <= y
      BY <1>1, <1>2, NatMin
    <2> QED BY <2>1 DEF First
  <1>3. ASSUME NextPlace(json, symbol, p, x) PROVE x \in S /\ \A y \in S : x <= y
    BY <1>0, <1>3 DEF NextPlace, PlacesBehind, Places
  <1>4. ASSUME x \in S, \A y \in S : x <= y PROVE NextPlace(json, symbol, p, x)
    BY <1>0, <1>1, <1>4 DEF NextPlace, PlacesBehind, Places
  <1>5. ASSUME NextPlace(json, symbol, p, x) PROVE S # {} /\ x = First(S)
    <2>1. x \in S /\ x <= First(S) /\ First(S) <= x
      BY <1>2, <1>3, <1>5
    <2>2. x \in Nat /\ First(S) \in Nat
      BY <1>1, <1>2, <2>1
    <2> QED BY <2>1, <2>2
  <1> QED BY <1>0, <1>1, <1>2, <1>3, <1>4, <1>5

\* Two elements at least.
LEMMA TwoAtLeast ==
  ASSUME NEW json \in Seq(Int), NEW S \in SUBSET (DOMAIN json), NEW q \in S
  PROVE  Cardinality(S) < 2 <=> S \ {q} = {}
  <1>1. IsFiniteSet(S)
    <2>1. DOMAIN json = 1 .. Len(json) /\ Len(json) \in Nat
      OBVIOUS
    <2>2. IsFiniteSet(1 .. Len(json))
      BY <2>1, FS_Interval
    <2> QED BY <2>1, <2>2, FS_Subset
  <1>2. IsFiniteSet(S \ {q}) /\ Cardinality(S \ {q}) = Cardinality(S) - 1
    BY <1>1, FS_RemoveElement
  <1>3. Cardinality(S) \in Nat /\ Cardinality(S \ {q}) \in Nat
    BY <1>1, <1>2, FS_CardinalityType
  <1>4. S \ {q} = {} <=> Cardinality(S \ {q}) = 0
    BY <1>2, FS_EmptySet
  <1> QED BY <1>2, <1>3, <1>4

\* The quotes behind the field and the colon.
FieldOf(json) == {First(f) : f \in {Places(json, Field)} \ {{}}}
BehindIn(json, places, symbol) == {i \in Places(json, symbol) : \E p \in places : p < i}
ColonOf(json) == {First(c) : c \in {BehindIn(json, FieldOf(json), Colon)} \ {{}}}
QuotesOf(json) == BehindIn(json, ColonOf(json), Quote)
HexOf(json) ==
  SubSeq(json, First(QuotesOf(json)) + 1, First(QuotesOf(json) \ {First(QuotesOf(json))}) - 1)

LEMMA KeyIs ==
  ASSUME NEW json
  PROVE  parse_pubkey(json) = IF Cardinality(QuotesOf(json)) < 2 THEN {} ELSE KeysOf(HexOf(json))
  BY DEF parse_pubkey, FieldOf, BehindIn, ColonOf, QuotesOf, HexOf, KeysOf, BytesOf

\* One place found behind another, as parse_pubkey looks for it.
LEMMA BehindOne ==
  ASSUME NEW json, NEW symbol, NEW p
  PROVE  /\ BehindIn(json, {p}, symbol) = PlacesBehind(json, symbol, p)
         /\ BehindIn(json, {}, symbol) = {}
  BY DEF BehindIn, PlacesBehind

LEMMA OnlyFirst ==
  ASSUME NEW S
  PROVE  {First(c) : c \in {S} \ {{}}} = IF S = {} THEN {} ELSE {First(S)}
  <1>1. {S} \ {{}} = IF S = {} THEN {} ELSE {S}
    OBVIOUS
  <1> QED BY <1>1

\* Where parse_pubkey finds four places, it reads what is between the last two.
LEMMA FoundIsRead ==
  ASSUME NEW json \in Seq(Int), NEW f, NEW c, NEW q, NEW r, Found(json, f, c, q, r)
  PROVE  parse_pubkey(json) = KeysOf(SubSeq(json, q + 1, r - 1))
  <1>1. PICK S : S = Places(json, Field)
    OBVIOUS
  <1>2. S = PlacesBehind(json, Field, 0)
    BY <1>1 DEF PlacesBehind, Places
  <1>3. S # {} /\ f = First(S) /\ f \in Nat
    BY <1>2, FirstIs DEF Found
  <1>4. FieldOf(json) = {f}
    BY <1>1, <1>3, OnlyFirst DEF FieldOf
  <1>5. PICK T : T = PlacesBehind(json, Colon, f)
    OBVIOUS
  <1>6. T # {} /\ c = First(T) /\ c \in Nat
    BY <1>3, <1>5, FirstIs DEF Found
  <1>7. ColonOf(json) = {c}
    BY <1>4, <1>5, <1>6, BehindOne, OnlyFirst DEF ColonOf
  <1>8. PICK U : U = PlacesBehind(json, Quote, c)
    OBVIOUS
  <1>9. U # {} /\ q = First(U) /\ q \in U /\ q \in Nat /\ c < q
    <2>1. U # {} /\ q = First(U) /\ q \in U /\ q \in Nat
      BY <1>6, <1>8, FirstIs DEF Found
    <2>2. c < q
      BY DEF Found, NextPlace
    <2> QED BY <2>1, <2>2
  <1>10. QuotesOf(json) = U
    BY <1>7, <1>8, BehindOne DEF QuotesOf
  <1>11. PICK V : V = PlacesBehind(json, Quote, q)
    OBVIOUS
  <1>12. V # {} /\ r = First(V)
    BY <1>9, <1>11, FirstIs DEF Found
  <1>13. U \ {q} = V
    <2>1. ASSUME NEW i \in U \ {q} PROVE i \in V
      <3>1. i \in DOMAIN json /\ json[i] = Quote /\ c < i /\ i # q
        BY <1>8, <2>1 DEF PlacesBehind, Places
      <3>2. q <= i
        BY <3>1 DEF Found, NextPlace
      <3>3. q < i
        BY <1>9, <3>1, <3>2
      <3> QED BY <1>8, <1>11, <2>1, <3>3 DEF PlacesBehind
    <2>2. ASSUME NEW i \in V PROVE i \in U \ {q}
      <3>1. i \in Places(json, Quote) /\ q < i /\ i \in Nat
        BY <1>11, <2>2 DEF PlacesBehind, Places
      <3>2. c < i /\ i # q
        BY <1>6, <1>9, <3>1
      <3> QED BY <1>8, <3>1, <3>2 DEF PlacesBehind
    <2> QED BY <2>1, <2>2
  <1>14. U \in SUBSET (DOMAIN json)
    BY <1>8 DEF PlacesBehind, Places
  <1>15. ~(Cardinality(U) < 2)
    BY <1>9, <1>12, <1>13, <1>14, TwoAtLeast
  <1>16. HexOf(json) = SubSeq(json, q + 1, r - 1)
    BY <1>9, <1>10, <1>12, <1>13 DEF HexOf
  <1> QED BY <1>10, <1>15, <1>16, KeyIs

\* It reads nothing where it does not.
LEMMA ReadIsFound ==
  ASSUME NEW json \in Seq(Int), parse_pubkey(json) # {}
  PROVE  \E f, c, q, r : Found(json, f, c, q, r)
  <1>1. ~(Cardinality(QuotesOf(json)) < 2)
    BY KeyIs
  <1>2. PICK U : U = QuotesOf(json)
    OBVIOUS
  <1>3. U # {}
    <2>1. Cardinality({}) < 2
      BY FS_EmptySet
    <2> QED BY <1>1, <1>2, <2>1
  <1>4. PICK S : S = Places(json, Field)
    OBVIOUS
  <1>5. S = PlacesBehind(json, Field, 0)
    BY <1>4 DEF PlacesBehind, Places
  <1>6. PICK f : f = First(S)
    OBVIOUS
  <1>7. S # {}
    <2>1. ASSUME S = {} PROVE FALSE
      <3>1. FieldOf(json) = {}
        BY <1>4, <2>1, OnlyFirst DEF FieldOf
      <3>2. ColonOf(json) = {}
        BY <3>1, BehindOne, OnlyFirst DEF ColonOf
      <3> QED BY <1>2, <1>3, <3>2, BehindOne DEF QuotesOf
    <2> QED BY <2>1
  <1>8. NextPlace(json, Field, 0, f) /\ f \in Nat
    BY <1>5, <1>6, <1>7, FirstIs
  <1>9. FieldOf(json) = {f}
    BY <1>4, <1>6, <1>7, OnlyFirst DEF FieldOf
  <1>10. PICK T : T = PlacesBehind(json, Colon, f)
    OBVIOUS
  <1>11. PICK c : c = First(T)
    OBVIOUS
  <1>12. T # {}
    <2>1. ASSUME T = {} PROVE FALSE
      <3>2. BehindIn(json, FieldOf(json), Colon) = {}
        <4>1. BehindIn(json, {f}, Colon) = T
          BY <1>10, BehindOne
        <4> QED BY <1>9, <2>1, <4>1
      <3>1. ColonOf(json) = {}
        BY <3>2, OnlyFirst DEF ColonOf
      <3> QED BY <1>2, <1>3, <3>1, BehindOne DEF QuotesOf
    <2> QED BY <2>1
  <1>13. NextPlace(json, Colon, f, c) /\ c \in Nat
    BY <1>8, <1>10, <1>11, <1>12, FirstIs
  <1>14. ColonOf(json) = {c}
    BY <1>9, <1>10, <1>11, <1>12, BehindOne, OnlyFirst DEF ColonOf
  <1>15. U = PlacesBehind(json, Quote, c)
    BY <1>2, <1>14, BehindOne DEF QuotesOf
  <1>16. PICK q : q = First(U)
    OBVIOUS
  <1>17. NextPlace(json, Quote, c, q) /\ q \in Nat /\ q \in U /\ c < q
    <2>1. NextPlace(json, Quote, c, q) /\ q \in Nat /\ q \in U
      BY <1>3, <1>13, <1>15, <1>16, FirstIs
    <2> QED BY <2>1 DEF NextPlace
  <1>18. U \in SUBSET (DOMAIN json)
    BY <1>15 DEF PlacesBehind, Places
  <1>19. U \ {q} # {}
    BY <1>1, <1>2, <1>17, <1>18, TwoAtLeast
  <1>20. PICK x \in U : x # q
    BY <1>19
  <1>21. x \in Places(json, Quote) /\ c < x /\ x \in Nat
    BY <1>15, <1>20 DEF PlacesBehind, Places
  <1>22. q < x
    <2>1. q <= x
      BY <1>17, <1>21 DEF NextPlace, Places
    <2> QED BY <1>17, <1>20, <1>21, <2>1
  <1>23. PICK V : V = PlacesBehind(json, Quote, q)
    OBVIOUS
  <1>24. V # {}
    BY <1>21, <1>22, <1>23 DEF PlacesBehind
  <1>25. PICK r : r = First(V)
    OBVIOUS
  <1>26. NextPlace(json, Quote, q, r)
    BY <1>17, <1>23, <1>24, <1>25, FirstIs
  <1> QED BY <1>8, <1>13, <1>17, <1>26 DEF Found

\* A byte is its two digits.
LEMMA TwoDigits ==
  ASSUME NEW b \in 0 .. 255
  PROVE  /\ b \div 16 \in 0 .. 15 /\ b % 16 \in 0 .. 15
         /\ 16 * (b \div 16) + (b % 16) = b
  OBVIOUS

LEMMA DigitsBack ==
  ASSUME NEW x \in 0 .. 15, NEW y \in 0 .. 15, NEW b, b = 16 * x + y
  PROVE  b \div 16 = x /\ b % 16 = y
  OBVIOUS

KeyLength == Len(ServerKey)

LEMMA LengthIs == KeyLength \in Nat
  BY PortalAssumption DEF KeyLength

LEMMA QuotedIs ==
  /\ KeyLength \in Nat /\ ServerKey = [i \in 1 .. KeyLength |-> ServerKey[i]]
  /\ \A i \in 1 .. KeyLength : ServerKey[i] \in 0 .. 255
  /\ QuotedKey \in Seq(Int) /\ Len(QuotedKey) = 2 * KeyLength + 2
  /\ QuotedKey[1] = Quote /\ QuotedKey[2 * KeyLength + 2] = Quote
  /\ \A i \in 1 .. KeyLength : /\ QuotedKey[2 * i] = ServerKey[i] \div 16
                               /\ QuotedKey[2 * i + 1] = ServerKey[i] % 16
  <1>0. PICK n \in Nat : n = KeyLength
    BY LengthIs
  <1>1. PICK k : k = ServerKey /\ n = Len(k) /\ n = KeyLength /\ n \in Nat
    BY <1>0 DEF KeyLength
  <1>2. k \in Seq(0 .. 255)
    BY <1>1, PortalAssumption
  <1>3. k = [i \in 1 .. n |-> k[i]] /\ \A i \in 1 .. n : k[i] \in 0 .. 255
    <2>1. DOMAIN k = 1 .. n
      <3>1. DOMAIN k = 1 .. Len(k)
        BY <1>2
      <3> QED BY <1>1, <3>1
    <2>2. \A i \in 1 .. n : k[i] \in 0 .. 255
      BY <1>1, <1>2, <2>1, ElementOfSeq
    <2>3. k = [i \in 1 .. n |-> k[i]]
      BY <1>1, <1>2, SeqIs
    <2> QED BY <2>2, <2>3
  <1>4. PICK h : h = [i \in 1 .. 2 * n |-> IF i % 2 = 1 THEN k[(i + 1) \div 2] \div 16
                                                       ELSE k[i \div 2] % 16]
    OBVIOUS
  <1>5. ASSUME NEW i \in 1 .. 2 * n
        PROVE  (IF i % 2 = 1 THEN k[(i + 1) \div 2] \div 16 ELSE k[i \div 2] % 16) \in Int
    <2>1. CASE i % 2 = 1
      <3>1. PICK j \in 1 .. n : j = (i + 1) \div 2
        BY <1>0, <2>1
      <3>2. PICK b \in 0 .. 255 : b = k[j]
        BY <1>3
      <3>3. b \div 16 \in Int /\ b % 16 \in Int
        BY TwoDigits
      <3> QED BY <2>1, <3>1, <3>2, <3>3
    <2>2. CASE i % 2 # 1
      <3>1. PICK j \in 1 .. n : j = i \div 2
        BY <1>0, <2>2
      <3>2. PICK b \in 0 .. 255 : b = k[j]
        BY <1>3
      <3>3. b \div 16 \in Int /\ b % 16 \in Int
        BY TwoDigits
      <3> QED BY <2>2, <3>1, <3>2, <3>3
    <2> QED BY <2>1, <2>2
  <1>6. h \in [1 .. 2 * n -> Int] /\ 2 * n \in Nat
    <2>1. h \in [1 .. 2 * n -> Int]
      BY <1>4, <1>5
    <2>2. 2 * n \in Nat
      BY <1>0
    <2> QED BY <2>1, <2>2
  <1>7. h \in Seq(Int) /\ Len(h) = 2 * n
    BY <1>6, FunctionIsSeq
  <1>8. \A i \in 1 .. n : h[2 * i - 1] = k[i] \div 16 /\ h[2 * i] = k[i] % 16
    <2> SUFFICES ASSUME NEW i \in 1 .. n
                 PROVE  h[2 * i - 1] = k[i] \div 16 /\ h[2 * i] = k[i] % 16
      OBVIOUS
    <2>1. /\ 2 * i - 1 \in 1 .. 2 * n /\ (2 * i - 1) % 2 = 1 /\ ((2 * i - 1) + 1) \div 2 = i
          /\ 2 * i \in 1 .. 2 * n /\ (2 * i) % 2 = 0 /\ (2 * i) \div 2 = i
      BY <1>0
    <2> QED BY <1>4, <2>1
  <1>9. PICK w, a : a = <<Quote>> /\ w = a \o h \o a
    OBVIOUS
  <1>10. a \in Seq(Int) /\ Len(a) = 1 /\ a[1] = Quote
    BY <1>9 DEF Quote
  <1>11. PICK v : v = a \o h
    OBVIOUS
  <1>12. /\ v \in Seq(Int) /\ Len(v) = 2 * n + 1 /\ v[1] = Quote
         /\ \A i \in 1 .. 2 * n : v[i + 1] = h[i]
    <2>1. PICK m \in Nat : m = 2 * n
      BY <1>6
    <2>4. Puts(v, Int, a, h, 1, m)
      BY <1>7, <1>10, <1>11, <2>1 DEF Puts, Cat
    <2>5. Reads(v, Int, a, h, 1, m)
      BY <2>4, ConcatIs
    <2>2. /\ v \in Seq(Int) /\ Len(v) = 1 + m
          /\ \A i \in 1 .. 1 : v[i] = a[i]
          /\ \A i \in 1 .. m : v[1 + i] = h[i]
      BY <2>5 DEF Reads
    <2>3. 1 + m = 2 * n + 1 /\ \A i \in 1 .. m : 1 + i = i + 1
      BY <2>1
    <2> QED BY <1>10, <2>1, <2>2, <2>3
  <1>13. /\ w \in Seq(Int) /\ Len(w) = 2 * n + 2 /\ w[2 * n + 2] = Quote
         /\ \A i \in 1 .. 2 * n + 1 : w[i] = v[i]
    <2>1. w = v \o a
      BY <1>9, <1>11
    <2>2. PICK m \in Nat : m = 2 * n + 1
      BY <1>0
    <2>5. Puts(w, Int, v, a, m, 1)
      BY <1>10, <1>12, <2>1, <2>2 DEF Puts, Cat
    <2>6. Reads(w, Int, v, a, m, 1)
      BY <2>5, ConcatIs
    <2>3. /\ w \in Seq(Int) /\ Len(w) = m + 1
          /\ \A i \in 1 .. m : w[i] = v[i]
          /\ \A i \in 1 .. 1 : w[m + i] = a[i]
      BY <2>6 DEF Reads
    <2>4. m + 1 = 2 * n + 2
      BY <1>0, <2>2
    <2> QED BY <1>10, <2>2, <2>3, <2>4
  <1>14. w[1] = Quote
    BY <1>0, <1>12, <1>13
  <1>15. ASSUME NEW i \in 1 .. n PROVE w[2 * i] = k[i] \div 16 /\ w[2 * i + 1] = k[i] % 16
    <2>1. /\ 2 * i - 1 \in 1 .. 2 * n /\ (2 * i - 1) + 1 = 2 * i /\ 2 * i \in 1 .. 2 * n + 1
          /\ 2 * i \in 1 .. 2 * n /\ 2 * i + 1 \in 1 .. 2 * n + 1
      BY <1>0
    <2>2. v[2 * i] = h[2 * i - 1] /\ v[2 * i + 1] = h[2 * i]
      <3>1. v[(2 * i - 1) + 1] = h[2 * i - 1]
        BY <1>12, <2>1
      <3> QED BY <1>12, <2>1, <3>1
    <2> QED BY <1>8, <1>13, <2>1, <2>2
  <1>16. w = QuotedKey
    BY <1>1, <1>4, <1>9 DEF QuotedKey
  <1> QED BY <1>1, <1>3, <1>13, <1>14, <1>15, <1>16

\* The key in quotes at a place.
QuotedAt(json, b) ==
  /\ b \in 1 .. Len(json) /\ b + 2 * KeyLength + 1 <= Len(json)
  /\ \A i \in 1 .. 2 * KeyLength + 2 : json[b + i - 1] = QuotedKey[i]

LEMMA QuotedPrefix ==
  ASSUME NEW json \in Seq(Int), NEW b \in 1 .. Len(json)
  PROVE  IsPrefix(QuotedKey, SubSeq(json, b, Len(json))) <=> QuotedAt(json, b)
  <1>0. PICK k \in Nat : k = KeyLength
    BY LengthIs
  <1>1. PICK n \in Nat, m \in Nat : n = Len(json) /\ m = 2 * k + 2
    <2>1. 2 * k + 2 \in Nat
      BY <1>0
    <2> QED BY <2>1
  <1>2. PICK u : u = Rest(json, b - 1)
    OBVIOUS
  <1>3. b - 1 \in 0 .. n
    BY <1>1
  <1>4. /\ u \in Seq(Int) /\ Len(u) = n - (b - 1)
        /\ \A i \in 1 .. n - (b - 1) : u[i] = json[b - 1 + i]
    BY <1>1, <1>2, <1>3, RestIs
  <1>5. u = SubSeq(json, b, n)
    <2>1. (b - 1) + 1 = b
      BY <1>1
    <2> QED BY <1>1, <1>2, <2>1 DEF Rest
  <1>6. IsPrefix(QuotedKey, u) <=> m <= n - (b - 1) /\ \A i \in 1 .. m : u[i] = QuotedKey[i]
    <2>1. QuotedKey \in Seq(Int) /\ Len(QuotedKey) = m
      BY <1>0, <1>1, QuotedIs
    <2> QED BY <1>4, <2>1, StartsWith
  <1>7. m <= n - (b - 1) <=> b + 2 * KeyLength + 1 <= n
    BY <1>0, <1>1
  <1>8. ASSUME m <= n - (b - 1)
        PROVE  \A i \in 1 .. m : u[i] = json[b + i - 1]
    <2>1. ASSUME NEW i \in 1 .. m PROVE u[i] = json[b + i - 1]
      <3>1. i \in 1 .. n - (b - 1) /\ b - 1 + i = b + i - 1
        BY <1>1, <1>8
      <3> QED BY <1>4, <3>1
    <2> QED BY <2>1
  <1>9. (m <= n - (b - 1) /\ \A i \in 1 .. m : u[i] = QuotedKey[i]) <=>
          (m <= n - (b - 1) /\ \A i \in 1 .. m : json[b + i - 1] = QuotedKey[i])
    BY <1>8
  <1> QED BY <1>0, <1>1, <1>5, <1>6, <1>7, <1>9 DEF QuotedAt

\* What is between two quotes is the server's key just if it is the key in quotes.
LEMMA BetweenQuotes ==
  ASSUME NEW json \in Seq(Int), NEW q \in Nat, NEW r \in Nat, NextPlace(json, Quote, q, r),
         q >= 1, json[q] = Quote
  PROVE  /\ KeysOf(SubSeq(json, q + 1, r - 1)) = {ServerKey} => QuotedAt(json, q)
         /\ QuotedAt(json, q) => KeysOf(SubSeq(json, q + 1, r - 1)) = {ServerKey}
  <1>0. PICK L \in Nat : L = KeyLength
    BY LengthIs
  <1>1. PICK n \in Nat : n = Len(json) /\ DOMAIN json = 1 .. n /\ L = KeyLength /\ L \in Nat
    BY <1>0
  <1>2. r \in 1 .. n /\ q < r /\ json[r] = Quote
        /\ \A y \in 1 .. n : json[y] = Quote /\ q < y => r <= y
    BY <1>1 DEF NextPlace
  <1>10. PICK d \in Nat : d = r - 1 - q
    BY <1>2
  <1>3. PICK g : g = SubSeq(json, q + 1, r - 1) /\ d = r - 1 - q /\ d \in Nat
    BY <1>10
  <1>4. g \in Seq(Int) /\ Len(g) = d /\ DOMAIN g = 1 .. d /\ \A i \in 1 .. d : g[i] = json[q + i]
    <2>1. g \in Seq(Int) /\ Len(g) = d /\ \A i \in 1 .. d : g[i] = json[q + i]
      BY <1>1, <1>2, <1>3
    <2> QED BY <2>1
  <1>5. KeysOf(g) = IF d % 2 = 0 /\ ToSet(g) \subseteq 0 .. 15 THEN {BytesOf(g)} ELSE {}
    BY <1>4 DEF KeysOf
  <1>6. ToSet(g) = {g[i] : i \in 1 .. d}
    BY <1>4 DEF ToSet
  <1>7. BytesOf(g) = [i \in 1 .. d \div 2 |-> 16 * g[2 * i - 1] + g[2 * i]]
    BY <1>4 DEF BytesOf
  <1>8. ASSUME KeysOf(g) = {ServerKey} PROVE QuotedAt(json, q)
    <2>1. d % 2 = 0 /\ ToSet(g) \subseteq 0 .. 15 /\ BytesOf(g) = ServerKey
      BY <1>5, <1>8
    <2>2. DOMAIN BytesOf(g) = 1 .. d \div 2 /\ DOMAIN ServerKey = 1 .. L
      BY <1>1, <1>7, QuotedIs
    <2>3. d \div 2 = L /\ d = 2 * L
      <3>1. 1 .. d \div 2 = 1 .. L /\ d \div 2 \in Nat
        BY <2>1, <2>2
      <3>2. d \div 2 = L
        BY <1>1, <3>1
      <3> QED BY <1>3, <2>1, <3>2
    <2>4. ASSUME NEW i \in 1 .. L
          PROVE  g[2 * i - 1] = ServerKey[i] \div 16 /\ g[2 * i] = ServerKey[i] % 16
      <3>1. 2 * i - 1 \in 1 .. d /\ 2 * i \in 1 .. d
        BY <1>1, <2>3
      <3>2. g[2 * i - 1] \in 0 .. 15 /\ g[2 * i] \in 0 .. 15
        BY <1>6, <2>1, <3>1
      <3>3. ServerKey[i] = 16 * g[2 * i - 1] + g[2 * i]
        BY <1>7, <2>1, <2>3
      <3> QED BY <3>2, <3>3, DigitsBack
    <2>5. r = q + 2 * L + 1 /\ q + 2 * L + 1 <= n
      BY <1>1, <1>2, <1>3, <2>3
    <2>6. ASSUME NEW i \in 1 .. 2 * L + 2 PROVE json[q + i - 1] = QuotedKey[i]
      <3>1. CASE i = 1
        <4>1. q + i - 1 = q
          BY <3>1
        <4> QED BY <3>1, <4>1, QuotedIs
      <3>2. CASE i = 2 * L + 2
        <4>1. q + i - 1 = r
          BY <1>1, <2>5, <3>2
        <4> QED BY <1>1, <1>2, <3>2, <4>1, QuotedIs
      <3>3. CASE i # 1 /\ i # 2 * L + 2
        <4>1. PICK j \in 1 .. L : i = 2 * j \/ i = 2 * j + 1
          <5>1. CASE i % 2 = 0
            <6>1. i \div 2 \in 1 .. L /\ i = 2 * (i \div 2)
              BY <1>1, <3>3, <5>1
            <6> QED BY <6>1
          <5>2. CASE i % 2 # 0
            <6>1. i \div 2 \in 1 .. L /\ i = 2 * (i \div 2) + 1
              BY <1>1, <3>3, <5>2
            <6> QED BY <6>1
          <5> QED BY <5>1, <5>2
        <4>2. /\ 2 * j - 1 \in 1 .. d /\ 2 * j \in 1 .. d
              /\ q + (2 * j - 1) = q + 2 * j - 1 /\ q + 2 * j = q + (2 * j + 1) - 1
          BY <1>1, <2>3
        <4>3. json[q + 2 * j - 1] = ServerKey[j] \div 16
              /\ json[q + (2 * j + 1) - 1] = ServerKey[j] % 16
          BY <1>4, <2>4, <4>2
        <4> QED BY <1>1, <4>1, <4>3, QuotedIs
      <3> QED BY <3>1, <3>2, <3>3
    <2> QED BY <1>1, <1>2, <2>5, <2>6 DEF QuotedAt
  <1>9. ASSUME QuotedAt(json, q) PROVE KeysOf(g) = {ServerKey}
    <2>1. q + 2 * L + 1 <= n /\ \A i \in 1 .. 2 * L + 2 : json[q + i - 1] = QuotedKey[i]
      BY <1>1, <1>9 DEF QuotedAt
    <2>2. ASSUME NEW j \in 1 .. L
          PROVE  /\ json[q + (2 * j - 1)] = ServerKey[j] \div 16
                 /\ json[q + 2 * j] = ServerKey[j] % 16
                 /\ ServerKey[j] \div 16 \in 0 .. 15 /\ ServerKey[j] % 16 \in 0 .. 15
                 /\ 16 * (ServerKey[j] \div 16) + (ServerKey[j] % 16) = ServerKey[j]
      <3>1. /\ 2 * j \in 1 .. 2 * L + 2 /\ 2 * j + 1 \in 1 .. 2 * L + 2
            /\ q + (2 * j - 1) = q + 2 * j - 1 /\ q + 2 * j = q + (2 * j + 1) - 1
        BY <1>1
      <3>2. json[q + 2 * j - 1] = QuotedKey[2 * j]
            /\ json[q + (2 * j + 1) - 1] = QuotedKey[2 * j + 1]
        BY <2>1, <3>1
      <3> QED BY <1>1, <3>1, <3>2, QuotedIs, TwoDigits
    <2>3. json[q + 2 * L + 1] = Quote
      <3>1. 2 * L + 2 \in 1 .. 2 * L + 2 /\ q + (2 * L + 2) - 1 = q + 2 * L + 1
        BY <1>1
      <3> QED BY <1>1, <2>1, <3>1, QuotedIs
    <2>4. r <= q + 2 * L + 1
      <3>1. q + 2 * L + 1 \in 1 .. n /\ q < q + 2 * L + 1
        BY <1>1, <2>1
      <3> QED BY <1>2, <2>3, <3>1
    <2>5. ASSUME NEW i \in 1 .. 2 * L PROVE json[q + i] \in 0 .. 15
      <3>1. PICK j \in 1 .. L : i = 2 * j - 1 \/ i = 2 * j
        <4>1. CASE i % 2 = 0
          <5>1. i \div 2 \in 1 .. L /\ i = 2 * (i \div 2)
            BY <1>1, <4>1
          <5> QED BY <5>1
        <4>2. CASE i % 2 # 0
          <5>1. (i + 1) \div 2 \in 1 .. L /\ i = 2 * ((i + 1) \div 2) - 1
            BY <1>1, <4>2
          <5> QED BY <5>1
        <4> QED BY <4>1, <4>2
      <3> QED BY <2>2, <3>1
    <2>6. r = q + 2 * L + 1
      <3>1. ASSUME r < q + 2 * L + 1 PROVE FALSE
        <4>1. r - q \in 1 .. 2 * L /\ q + (r - q) = r
          BY <1>1, <1>2, <3>1
        <4>2. json[r] \in 0 .. 15
          BY <2>5, <4>1
        <4> QED BY <1>2, <4>2 DEF Quote
      <3> QED BY <1>1, <1>2, <2>4, <3>1
    <2>7. d = 2 * L /\ d % 2 = 0 /\ d \div 2 = L
      BY <1>1, <1>3, <2>6
    <2>8. ToSet(g) \subseteq 0 .. 15
      BY <1>4, <1>6, <2>5, <2>7
    <2>9. BytesOf(g) = ServerKey
      <3>1. ASSUME NEW i \in 1 .. L PROVE 16 * g[2 * i - 1] + g[2 * i] = ServerKey[i]
        <4>1. 2 * i - 1 \in 1 .. d /\ 2 * i \in 1 .. d
          BY <1>1, <2>7
        <4>2. g[2 * i - 1] = ServerKey[i] \div 16 /\ g[2 * i] = ServerKey[i] % 16
          BY <1>4, <2>2, <4>1
        <4> QED BY <2>2, <4>2
      <3>2. BytesOf(g) = [i \in 1 .. L |-> ServerKey[i]]
        BY <1>7, <2>7, <3>1
      <3> QED BY <1>1, <3>2, QuotedIs
    <2> QED BY <1>5, <2>7, <2>8, <2>9
  <1> QED BY <1>3, <1>8, <1>9

\* What parse_pubkey reads as the server's key is there.
LEMMA KeyCarried ==
  ASSUME NEW json \in Seq(Int), parse_pubkey(json) = {ServerKey}
  PROVE  CarriesKey(json)
  <1>1. PICK f, c, q, r : Found(json, f, c, q, r)
    BY ReadIsFound
  <1>2. /\ f \in 1 .. Len(json) /\ c \in 1 .. Len(json) /\ q \in 1 .. Len(json)
        /\ r \in 1 .. Len(json) /\ f < c /\ c < q /\ json[f] = Field /\ json[q] = Quote
    BY <1>1 DEF Found, NextPlace
  <1>3. KeysOf(SubSeq(json, q + 1, r - 1)) = {ServerKey}
    BY <1>1, FoundIsRead
  <1>4. QuotedAt(json, q)
    BY <1>1, <1>2, <1>3, BetweenQuotes DEF Found
  <1>5. IsPrefix(QuotedKey, SubSeq(json, q, Len(json)))
    BY <1>2, <1>4, QuotedPrefix
  <1>6. f \in Places(json, Field) /\ q \in DOMAIN json /\ f < q
    BY <1>2 DEF Places
  <1> QED BY <1>5, <1>6 DEF CarriesKey

\* What the server says is read as its key.
LEMMA KeySaid ==
  ASSUME NEW json \in Seq(Int), SaysKey(json)
  PROVE  parse_pubkey(json) = {ServerKey}
  <1>1. PICK n \in Nat : n = Len(json) /\ DOMAIN json = 1 .. n
    OBVIOUS
  <1>2. PICK f \in Places(json, Field), gap \in {<<>>, <<Plain>>} :
          /\ \A i \in Places(json, Field) : f <= i
          /\ IsPrefix(<<Field, Quote, Colon>> \o gap \o QuotedKey, SubSeq(json, f, n))
    BY <1>1 DEF SaysKey
  <1>3. f \in 1 .. n /\ json[f] = Field /\ f - 1 \in 0 .. n /\ (f - 1) + 1 = f
    BY <1>1, <1>2 DEF Places
  <1>24. PICK m \in Nat : m = n - (f - 1)
    BY <1>3
  <1>4. PICK u : u = Rest(json, f - 1) /\ m = n - (f - 1) /\ m \in Nat
    BY <1>24
  <1>5. u = SubSeq(json, f, n)
    BY <1>1, <1>3, <1>4 DEF Rest
  <1>6. u \in Seq(Int) /\ Len(u) = m /\ \A i \in 1 .. m : u[i] = json[f - 1 + i]
    BY <1>1, <1>3, <1>4, RestIs
  <1>25. PICK k \in {0, 1} : k = Len(gap)
    <2>1. Len(gap) \in {0, 1}
      OBVIOUS
    <2> QED BY <2>1
  <1>7. PICK h : h = <<Field, Quote, Colon>> \o gap /\ k = Len(gap) /\ k \in {0, 1}
    BY <1>25
  <1>8. /\ h \in Seq(Int) /\ Len(h) = 3 + k /\ h[2] = Quote /\ h[3] = Colon
        /\ k = 1 => h[4] = Plain
    <2>1. PICK l : l = <<Field, Quote, Colon>>
      OBVIOUS
    <2>2. l \in Seq(Int) /\ Len(l) = 3 /\ l[2] = Quote /\ l[3] = Colon
      BY <2>1 DEF Field, Quote, Colon
    <2>3. gap \in Seq(Int) /\ (k = 1 => gap[1] = Plain)
      <3>1. CASE gap = <<>>
        BY <1>7, <3>1
      <3>2. CASE gap = <<Plain>>
        BY <3>2 DEF Plain
      <3> QED BY <3>1, <3>2
    <2>6. Puts(h, Int, l, gap, 3, k)
      BY <1>7, <2>1, <2>2, <2>3 DEF Puts, Cat
    <2>7. Reads(h, Int, l, gap, 3, k)
      BY <2>6, ConcatIs
    <2>4. /\ h \in Seq(Int) /\ Len(h) = 3 + k
          /\ \A i \in 1 .. 3 : h[i] = l[i]
          /\ \A i \in 1 .. k : h[3 + i] = gap[i]
      BY <2>7 DEF Reads
    <2>5. k = 1 => h[4] = gap[1]
      <3>1. k = 1 => 1 \in 1 .. k /\ 3 + 1 = 4
        OBVIOUS
      <3> QED BY <2>4, <3>1
    <2> QED BY <2>2, <2>3, <2>4, <2>5
  <1>9. IsPrefix(h, u) /\ IsPrefix(QuotedKey, Rest(u, 3 + k))
    BY <1>2, <1>5, <1>6, <1>7, <1>8, QuotedIs, StartsBoth
  <1>10. 3 + k <= m /\ \A i \in 1 .. 3 + k : u[i] = h[i]
    BY <1>6, <1>8, <1>9, StartsWith
  <1>11. PICK c \in Nat, q \in Nat : c = f + 2 /\ q = f + 3 + k
    <2>1. f + 2 \in Nat /\ f + 3 + k \in Nat
      BY <1>3, <1>7
    <2> QED BY <2>1
  <1>12. json[f + 1] = Quote /\ json[c] = Colon /\ (k = 1 => json[f + 3] = Plain) /\ c \in 1 .. n
    <2>1. /\ 2 \in 1 .. 3 + k /\ 3 \in 1 .. 3 + k /\ (k = 1 => 4 \in 1 .. 3 + k)
          /\ 2 \in 1 .. m /\ 3 \in 1 .. m /\ (k = 1 => 4 \in 1 .. m)
          /\ f - 1 + 2 = f + 1 /\ f - 1 + 3 = f + 2 /\ f - 1 + 4 = f + 3 /\ f + 2 \in 1 .. n
      <3>1. n \in Nat /\ f \in 1 .. n /\ m = n - (f - 1) /\ k \in {0, 1} /\ 3 + k <= m
        BY <1>1, <1>3, <1>4, <1>7, <1>10
      <3> QED BY <3>1
    <2>2. /\ u[2] = json[f - 1 + 2] /\ u[3] = json[f - 1 + 3]
          /\ k = 1 => u[4] = json[f - 1 + 4]
      BY <1>6, <2>1
    <2>3. u[2] = h[2] /\ u[3] = h[3] /\ (k = 1 => u[4] = h[4])
      BY <1>10, <2>1
    <2> QED BY <1>8, <1>11, <2>1, <2>2, <2>3
  <1>13. Rest(u, 3 + k) = SubSeq(json, q, n) /\ q \in 1 .. n
    <2>1. 3 + k \in 0 .. m /\ q - 1 \in 0 .. n
      BY <1>3, <1>4, <1>7, <1>10, <1>11
    <2>2. PICK v, w : v = Rest(u, 3 + k) /\ w = Rest(json, q - 1)
      OBVIOUS
    <2>3. /\ v \in Seq(Int) /\ Len(v) = m - (3 + k)
          /\ \A i \in 1 .. m - (3 + k) : v[i] = u[3 + k + i]
      BY <1>6, <2>1, <2>2, RestIs
    <2>4. /\ w \in Seq(Int) /\ Len(w) = n - (q - 1)
          /\ \A i \in 1 .. n - (q - 1) : w[i] = json[q - 1 + i]
      BY <1>1, <2>1, <2>2, RestIs
    <2>5. m - (3 + k) = n - (q - 1)
      BY <1>3, <1>4, <1>7, <1>11
    <2>6. ASSUME NEW i \in 1 .. n - (q - 1) PROVE v[i] = w[i]
      <3>1. 3 + k + i \in 1 .. m /\ f - 1 + (3 + k + i) = q - 1 + i
        BY <1>3, <1>4, <1>7, <1>11, <2>5, <2>6
      <3>2. u[3 + k + i] = json[f - 1 + (3 + k + i)]
        BY <1>6, <3>1
      <3> QED BY <2>3, <2>4, <2>5, <2>6, <3>1, <3>2
    <2>7. v = w
      BY <2>3, <2>4, <2>5, <2>6, SameSeq
    <2>8. w = SubSeq(json, q, n)
      <3>1. (q - 1) + 1 = q
        BY <1>11
      <3> QED BY <1>1, <2>2, <3>1 DEF Rest
    <2>9. QuotedKey \in Seq(Int) /\ Len(QuotedKey) >= 2
      BY QuotedIs
    <2>10. Len(QuotedKey) <= Len(v)
      BY <1>9, <2>2, <2>3, <2>9, StartsWith
    <2>12. PICK z \in Nat : z = Len(QuotedKey)
      BY <2>9
    <2>11. q \in 1 .. n
      <3>1. z >= 2 /\ z <= n - (q - 1)
        BY <2>3, <2>5, <2>9, <2>10, <2>12
      <3>2. n \in Nat /\ f \in 1 .. n /\ k \in {0, 1} /\ q = f + 3 + k
        BY <1>1, <1>3, <1>7, <1>11
      <3> QED BY <3>1, <3>2
    <2> QED BY <2>2, <2>7, <2>8, <2>11
  <1>14. QuotedAt(json, q)
    BY <1>1, <1>9, <1>13, QuotedPrefix
  <1>15. json[q] = Quote
    <2>1. 1 \in 1 .. 2 * KeyLength + 2 /\ q + 1 - 1 = q
      BY <1>13, QuotedIs
    <2> QED BY <1>14, <2>1, QuotedIs DEF QuotedAt
  <1>16. NextPlace(json, Field, 0, f)
    BY <1>1, <1>2, <1>3 DEF NextPlace, Places
  <1>17. NextPlace(json, Colon, f, c)
    <2>1. ASSUME NEW y \in 1 .. n, json[y] = Colon, f < y PROVE c <= y
      <3>1. y # f + 1
        BY <1>12, <2>1 DEF Quote, Colon
      <3> QED BY <1>3, <1>11, <2>1, <3>1
    <2> QED BY <1>1, <1>3, <1>11, <1>12, <2>1 DEF NextPlace
  <1>18. NextPlace(json, Quote, c, q)
    <2>1. ASSUME NEW y \in 1 .. n, json[y] = Quote, c < y PROVE q <= y
      <3>1. k = 1 => y # f + 3
        BY <1>12, <2>1 DEF Quote, Plain
      <3>2. /\ n \in Nat /\ f \in 1 .. n /\ k \in {0, 1} /\ c = f + 2 /\ q = f + 3 + k
            /\ y \in 1 .. n /\ c < y
        BY <1>1, <1>3, <1>7, <1>11, <2>1
      <3> QED BY <3>1, <3>2
    <2>2. c < q
      BY <1>1, <1>3, <1>7, <1>11
    <2> QED BY <1>1, <1>13, <1>15, <2>1, <2>2 DEF NextPlace
  <1>19. \E r : NextPlace(json, Quote, q, r)
    <2>1. PICK V : V = PlacesBehind(json, Quote, q)
      OBVIOUS
    <2>2. PICK e \in Nat : e = q + 2 * KeyLength + 1
      BY <1>11, QuotedIs
    <2>7. PICK L \in Nat : L = KeyLength
      BY LengthIs
    <2>8. q + 2 * L + 1 <= n
      BY <1>1, <1>14, <2>7 DEF QuotedAt
    <2>3. e \in 1 .. n /\ q < e
      BY <1>1, <1>11, <2>2, <2>7, <2>8
    <2>4. json[e] = Quote
      <3>1. PICK d \in Nat : d = 2 * L + 2
        BY <2>7
      <3>2. e = q + 2 * L + 1
        BY <2>2, <2>7
      <3>3. d \in 1 .. d /\ q + d - 1 = e
        BY <1>11, <2>7, <3>1, <3>2
      <3>4. d = 2 * KeyLength + 2
        BY <2>7, <3>1
      <3>5. Len(QuotedKey) = d /\ QuotedKey[d] = Quote
        BY <3>4, QuotedIs
      <3> QED BY <1>14, <3>3, <3>4, <3>5 DEF QuotedAt
    <2>5. e \in V
      BY <1>1, <2>1, <2>3, <2>4 DEF PlacesBehind, Places
    <2>6. NextPlace(json, Quote, q, First(V))
      BY <1>11, <2>1, <2>5, FirstIs
    <2> QED BY <2>6
  <1>20. PICK r : NextPlace(json, Quote, q, r)
    BY <1>19
  <1>21. r \in Nat
    BY <1>1, <1>20 DEF NextPlace
  <1>22. KeysOf(SubSeq(json, q + 1, r - 1)) = {ServerKey}
    BY <1>13, <1>14, <1>15, <1>20, <1>21, BetweenQuotes
  <1>23. Found(json, f, c, q, r)
    BY <1>16, <1>17, <1>18, <1>20 DEF Found
  <1> QED BY <1>22, <1>23, FoundIsRead
-----------------------------------------------------------------------------
(***************************************************************************)
(* Command lines.                                                          *)
(***************************************************************************)
OptionEquation(f, words) ==
  f = [k \in Nat |->
         \/ k = 1
         \/ k > 1 /\ f[k - 1] /\ ~TakesValue(words[k - 1])
         \/ k > 2 /\ f[k - 2] /\ TakesValue(words[k - 2])]

\* OptionAt of any command line.
OptionOf(words) == CHOOSE f : OptionEquation(f, words)

LEMMA OptionIs == OptionAt = OptionOf(argv)
  BY DEF OptionAt, OptionOf, OptionEquation

\* Whether there is an option at a place, and at the next.
LEMMA OptionsExist ==
  ASSUME NEW words
  PROVE  \E f : OptionEquation(f, words)
  <1> DEFINE Bit == {0, 1}
             takes == [k \in Nat |-> IF TakesValue(words[k]) THEN 1 ELSE 0]
             next == [z \in (Bit \X Bit) \X Nat |->
                        <<z[1][2],
                          IF \/ z[1][2] = 1 /\ takes[z[2] + 1] = 0
                             \/ z[1][1] = 1 /\ takes[z[2]] = 1 THEN 1 ELSE 0>>]
  <1>1. next \in [(Bit \X Bit) \X Nat -> Bit \X Bit] /\ <<0, 1>> \in Bit \X Bit
    OBVIOUS
  <1>2. \A p \in Bit \X Bit, n \in Nat :
          next[<<p, n>>] = <<p[2], IF \/ p[2] = 1 /\ takes[n + 1] = 0
                                      \/ p[1] = 1 /\ takes[n] = 1 THEN 1 ELSE 0>>
    OBVIOUS
  <1>3. \A k \in Nat : /\ takes[k] = 1 <=> TakesValue(words[k])
                       /\ takes[k] = 0 <=> ~TakesValue(words[k])
    OBVIOUS
  <1> HIDE DEF next, takes
  <1>4. PICK F : Follows(F, Bit \X Bit, <<0, 1>>, next)
    BY <1>1, Recursion
  <1>5. /\ F[0] = <<0, 1>>
        /\ \A n \in Nat : F[n] \in Bit \X Bit /\ F[n + 1] = next[<<F[n], n>>]
    BY <1>4 DEF Follows
  <1>6. \A n \in Nat :
          /\ F[n + 1][1] = F[n][2]
          /\ F[n + 1][2] = 1 <=> \/ F[n][2] = 1 /\ takes[n + 1] = 0
                                 \/ F[n][1] = 1 /\ takes[n] = 1
    <2> SUFFICES ASSUME NEW n \in Nat
                 PROVE  /\ F[n + 1][1] = F[n][2]
                        /\ F[n + 1][2] = 1 <=> \/ F[n][2] = 1 /\ takes[n + 1] = 0
                                               \/ F[n][1] = 1 /\ takes[n] = 1
      OBVIOUS
    <2>1. PICK p \in Bit \X Bit : p = F[n]
      BY <1>5
    <2>2. F[n + 1] = <<p[2], IF \/ p[2] = 1 /\ takes[n + 1] = 0
                                \/ p[1] = 1 /\ takes[n] = 1 THEN 1 ELSE 0>>
      BY <1>2, <1>5, <2>1
    <2> QED BY <2>1, <2>2
  <1> HIDE DEF Bit
  <1> DEFINE f == [k \in Nat |-> F[k][1] = 1]
             g == [k \in Nat |-> \/ k = 1
                                 \/ k > 1 /\ f[k - 1] /\ ~TakesValue(words[k - 1])
                                 \/ k > 2 /\ f[k - 2] /\ TakesValue(words[k - 2])]
  <1>7. ASSUME NEW k \in Nat
        PROVE  F[k][1] = 1 <=> \/ k = 1
                               \/ k > 1 /\ F[k - 1][1] = 1 /\ ~TakesValue(words[k - 1])
                               \/ k > 2 /\ F[k - 2][1] = 1 /\ TakesValue(words[k - 2])
    <2>1. F[0][1] = 0 /\ F[0][2] = 1
      BY <1>5
    <2>2. CASE k = 0
      BY <2>1, <2>2
    <2>3. CASE k = 1
      <3>1. F[0 + 1][1] = F[0][2]
        BY <1>6
      <3> QED BY <2>1, <2>3, <3>1
    <2>4. CASE k > 1
      <3>1. PICK n \in Nat : k = n + 2 /\ k - 1 = n + 1 /\ k - 2 = n /\ n + 1 \in Nat
        <4>1. k - 2 \in Nat /\ k = (k - 2) + 2 /\ k - 1 = (k - 2) + 1 /\ (k - 2) + 1 \in Nat
          BY <2>4
        <4> QED BY <4>1
      <3>2. F[(n + 1) + 1][1] = F[n + 1][2] /\ F[n + 1][1] = F[n][2]
        BY <1>6, <3>1
      <3>3. F[n + 1][2] = 1 <=> \/ F[n][2] = 1 /\ takes[n + 1] = 0
                                \/ F[n][1] = 1 /\ takes[n] = 1
        BY <1>6
      <3>4. (n + 1) + 1 = k /\ k # 1 /\ (k > 2 <=> n # 0)
        BY <3>1
      <3>5. F[k][1] = 1 <=> \/ F[n + 1][1] = 1 /\ ~TakesValue(words[n + 1])
                            \/ F[n][1] = 1 /\ TakesValue(words[n])
        BY <1>3, <3>1, <3>2, <3>3, <3>4
      <3>6. n = 0 => F[n][1] # 1
        BY <2>1
      <3> QED BY <2>4, <3>1, <3>4, <3>5, <3>6
    <2> QED BY <2>2, <2>3, <2>4
  <1>8. \A k \in Nat : k > 1 => k - 1 \in Nat
    OBVIOUS
  <1>9. \A k \in Nat : k > 2 => k - 2 \in Nat
    OBVIOUS
  <1>10. ASSUME NEW k \in Nat PROVE f[k] = g[k]
    <2>1. f[k] = (F[k][1] = 1)
      OBVIOUS
    <2>2. k > 1 => (f[k - 1] <=> F[k - 1][1] = 1)
      BY <1>8
    <2>3. k > 2 => (f[k - 2] <=> F[k - 2][1] = 1)
      BY <1>9
    <2>4. g[k] = (\/ k = 1
                  \/ k > 1 /\ f[k - 1] /\ ~TakesValue(words[k - 1])
                  \/ k > 2 /\ f[k - 2] /\ TakesValue(words[k - 2]))
      OBVIOUS
    <2> HIDE DEF f, g
    <2> QED BY <1>7, <2>1, <2>2, <2>3, <2>4
  <1>11. f = g
    BY <1>10
  <1> QED BY <1>11 DEF OptionEquation

LEMMA OptionNext ==
  ASSUME NEW words
  PROVE  /\ OptionOf(words)[1] /\ ~OptionOf(words)[0]
         /\ \A k \in Nat :
              OptionOf(words)[k + 2] <=>
                \/ OptionOf(words)[k + 1] /\ ~TakesValue(words[k + 1])
                \/ OptionOf(words)[k] /\ TakesValue(words[k])
  <1>1. PICK f : f = OptionOf(words)
    OBVIOUS
  <1>2. OptionEquation(f, words)
    BY <1>1, OptionsExist DEF OptionOf
  <1>3. \A k \in Nat :
          f[k] <=> \/ k = 1
                   \/ k > 1 /\ f[k - 1] /\ ~TakesValue(words[k - 1])
                   \/ k > 2 /\ f[k - 2] /\ TakesValue(words[k - 2])
    <2>1. f = [k \in Nat |-> \/ k = 1
                             \/ k > 1 /\ f[k - 1] /\ ~TakesValue(words[k - 1])
                             \/ k > 2 /\ f[k - 2] /\ TakesValue(words[k - 2])]
      BY <1>2 DEF OptionEquation
    <2> QED BY <2>1, Zenon
  <1>4. f[1] /\ ~f[0]
    BY <1>3
  <1>5. ASSUME NEW k \in Nat
        PROVE  f[k + 2] <=> \/ f[k + 1] /\ ~TakesValue(words[k + 1])
                            \/ f[k] /\ TakesValue(words[k])
    <2>1. k + 2 \in Nat /\ k + 2 # 1 /\ k + 2 > 1 /\ (k + 2) - 1 = k + 1 /\ (k + 2) - 2 = k
          /\ (k + 2 > 2 <=> k # 0)
      OBVIOUS
    <2>2. f[k + 2] <=> \/ f[k + 1] /\ ~TakesValue(words[k + 1])
                       \/ k # 0 /\ f[k] /\ TakesValue(words[k])
      BY <1>3, <2>1
    <2> QED BY <1>4, <2>2
  <1> QED BY <1>1, <1>4, <1>5
-----------------------------------------------------------------------------
\* The options before place n that mean what, and the value of the last of them.
Before(words, what, n) ==
  {k \in 1 .. n - 1 : OptionOf(words)[k] /\ Meaning(words[k]) = what}

LastValue(words, places, default) ==
  IF places = {} THEN default
  ELSE words[1 + CHOOSE k \in places : \A j \in places : j <= k]

WordBefore(words, what, default, n) ==
  LastValue(words, Before(words, what, n), default)

Switches == {"no_protection", "verbose", "help"}

\* The booleans of Args.
Booleans == Switches \cup {"username", "license"}

\* The Args of the words before place n.
ArgsBefore(words, n) ==
  [server   |-> WordBefore(words, "server", "DEFAULT", n),
   username |-> WordBefore(words, "username", NoWord, n),
   license  |-> WordBefore(words, "license", NoWord, n),
   set      |-> {what \in Booleans : Before(words, what, n) # {}}]

\* Every option before place n is known, and its value stands before it as well.
Settled(words, n) ==
  \A k \in 1 .. n - 1 :
    OptionOf(words)[k] =>
      Meaning(words[k]) # "unknown" /\ (TakesValue(words[k]) => k + 1 < n)

\* The booleans that are true before place n.
SetBefore(words, n) == {what \in Booleans : Before(words, what, n) # {}}

\* The Args, field by field.
LEMMA ArgsAre ==
  ASSUME NEW words, NEW n, NEW server, NEW username, NEW license, NEW set,
         server = WordBefore(words, "server", "DEFAULT", n),
         username = WordBefore(words, "username", NoWord, n),
         license = WordBefore(words, "license", NoWord, n),
         set = SetBefore(words, n)
  PROVE  ArgsBefore(words, n) =
           [server |-> server, username |-> username, license |-> license, set |-> set]
  BY DEF ArgsBefore, SetBefore

LEMMA NothingRead ==
  ASSUME NEW words
  PROVE  Settled(words, 1) /\ ArgsBefore(words, 1) = NoArgs
  <1>1. \A what : Before(words, what, 1) = {}
    BY DEF Before
  <1> QED BY <1>1 DEF Settled, ArgsBefore, WordBefore, LastValue, NoArgs

\* Places without an option change nothing.
LEMMA OneMore ==
  ASSUME NEW words, NEW n \in Nat \ {0}, NEW what, OptionOf(words)[n]
  PROVE  Before(words, what, n + 1) =
           IF Meaning(words[n]) = what THEN Before(words, what, n) \cup {n}
                                       ELSE Before(words, what, n)
  <1>1. 1 .. (n + 1) - 1 = (1 .. n - 1) \cup {n}
    OBVIOUS
  <1> QED BY <1>1 DEF Before

LEMMA ValueSkipped ==
  ASSUME NEW words, NEW n \in Nat \ {0}, NEW what, ~OptionOf(words)[n]
  PROVE  Before(words, what, n + 1) = Before(words, what, n)
  <1>1. 1 .. (n + 1) - 1 = (1 .. n - 1) \cup {n}
    OBVIOUS
  <1> QED BY <1>1 DEF Before

\* The word behind a value is an option, the value itself is none.
LEMMA BehindSwitch ==
  ASSUME NEW words, NEW n \in Nat \ {0}, OptionOf(words)[n], ~TakesValue(words[n])
  PROVE  OptionOf(words)[n + 1]
  <1>1. n - 1 \in Nat /\ (n - 1) + 1 = n /\ (n - 1) + 2 = n + 1
    OBVIOUS
  <1> QED BY <1>1, OptionNext

LEMMA BehindValue ==
  ASSUME NEW words, NEW n \in Nat \ {0}, OptionOf(words)[n], TakesValue(words[n]),
         Settled(words, n)
  PROVE  OptionOf(words)[n + 2] /\ ~OptionOf(words)[n + 1]
  <1>1. n - 1 \in Nat /\ (n - 1) + 1 = n /\ (n - 1) + 2 = n + 1
    OBVIOUS
  <1>2. ~(OptionOf(words)[n - 1] /\ TakesValue(words[n - 1]))
    <2>1. CASE n = 1
      <3>1. n - 1 = 0
        BY <2>1
      <3> QED BY <3>1, OptionNext
    <2>2. CASE n # 1
      <3>1. n - 1 \in 1 .. n - 1 /\ ~((n - 1) + 1 < n)
        BY <2>2
      <3> QED BY <3>1 DEF Settled
    <2> QED BY <2>1, <2>2
  <1>3. OptionOf(words)[(n - 1) + 2] <=>
          \/ OptionOf(words)[(n - 1) + 1] /\ ~TakesValue(words[(n - 1) + 1])
          \/ OptionOf(words)[n - 1] /\ TakesValue(words[n - 1])
    BY <1>1, OptionNext
  <1>4. ~OptionOf(words)[n + 1]
    BY <1>1, <1>2, <1>3
  <1>5. OptionOf(words)[n + 2]
    BY OptionNext
  <1> QED BY <1>4, <1>5
-----------------------------------------------------------------------------
\* parse_args reads a switch.
LEMMA SwitchRead ==
  ASSUME NEW words, NEW n \in Nat \ {0}, OptionOf(words)[n], Settled(words, n),
         Meaning(words[n]) \in Switches
  PROVE  /\ OptionOf(words)[n + 1] /\ Settled(words, n + 1)
         /\ ArgsBefore(words, n + 1) =
              [ArgsBefore(words, n) EXCEPT !.set = @ \cup {Meaning(words[n])}]
  <1>1. ~TakesValue(words[n]) /\ Meaning(words[n]) # "unknown"
    BY DEF TakesValue, Switches
  <1>2. OptionOf(words)[n + 1]
    BY <1>1, BehindSwitch
  <1>3. Settled(words, n + 1)
    <2>1. ASSUME NEW k \in 1 .. (n + 1) - 1, OptionOf(words)[k]
          PROVE  Meaning(words[k]) # "unknown" /\ (TakesValue(words[k]) => k + 1 < n + 1)
      <3>1. CASE k = n
        BY <1>1, <3>1
      <3>2. CASE k # n
        <4>1. k \in 1 .. n - 1 /\ (k + 1 < n => k + 1 < n + 1)
          BY <3>2
        <4> QED BY <2>1, <4>1 DEF Settled
      <3> QED BY <3>1, <3>2
    <2> QED BY <2>1 DEF Settled
  <1>4. PICK m : m = Meaning(words[n])
    OBVIOUS
  <1>5. m \notin {"server", "username", "license"} /\ m \in Booleans
    BY <1>4 DEF Switches, Booleans
  <1>6. \A what : what # m => Before(words, what, n + 1) = Before(words, what, n)
    BY <1>4, OneMore
  <1>7. Before(words, m, n + 1) # {}
    <2>1. n \in 1 .. (n + 1) - 1
      OBVIOUS
    <2>2. n \in Before(words, m, n + 1)
      BY <1>4, <2>1 DEF Before
    <2> QED BY <2>2
  <1>8. \A what, default : what # m =>
          WordBefore(words, what, default, n + 1) = WordBefore(words, what, default, n)
    BY <1>6 DEF WordBefore
  <1>9. {what \in Booleans : Before(words, what, n + 1) # {}} =
          {what \in Booleans : Before(words, what, n) # {}} \cup {m}
    BY <1>5, <1>6, <1>7
  <1>10. ArgsBefore(words, n + 1) = [ArgsBefore(words, n) EXCEPT !.set = @ \cup {m}]
    <2>1. PICK a, u, l, w : /\ a = WordBefore(words, "server", "DEFAULT", n)
                            /\ u = WordBefore(words, "username", NoWord, n)
                            /\ l = WordBefore(words, "license", NoWord, n)
                            /\ w = SetBefore(words, n)
      OBVIOUS
    <2>2. ArgsBefore(words, n) = [server |-> a, username |-> u, license |-> l, set |-> w]
      BY <2>1, ArgsAre
    <2>3. /\ a = WordBefore(words, "server", "DEFAULT", n + 1)
          /\ u = WordBefore(words, "username", NoWord, n + 1)
          /\ l = WordBefore(words, "license", NoWord, n + 1)
          /\ w \cup {m} = SetBefore(words, n + 1)
      BY <1>5, <1>8, <1>9, <2>1 DEF SetBefore
    <2>4. ArgsBefore(words, n + 1) =
            [server |-> a, username |-> u, license |-> l, set |-> w \cup {m}]
      BY <2>3, ArgsAre
    <2>5. [[server |-> a, username |-> u, license |-> l, set |-> w] EXCEPT !.set = @ \cup {m}] =
            [server |-> a, username |-> u, license |-> l, set |-> w \cup {m}]
      <3>1. PICK v : v = w \cup {m}
        OBVIOUS
      <3>2. [[server |-> a, username |-> u, license |-> l, set |-> w] EXCEPT !.set = v] =
              [server |-> a, username |-> u, license |-> l, set |-> v]
        OBVIOUS
      <3>3. [server |-> a, username |-> u, license |-> l, set |-> w].set = w
        OBVIOUS
      <3> QED BY <3>1, <3>2, <3>3
    <2> QED BY <2>2, <2>4, <2>5, Zenon
  <1> QED BY <1>2, <1>3, <1>4, <1>10

\* The last of the places is the one that was added.
LEMMA LastRead ==
  ASSUME NEW words, NEW n \in Nat \ {0}, NEW what, NEW default, OptionOf(words)[n],
         Meaning(words[n]) = what
  PROVE  WordBefore(words, what, default, n + 1) = words[n + 1]
  <1>1. PICK S : S = Before(words, what, n + 1)
    OBVIOUS
  <1>2. n \in S /\ S \subseteq 1 .. n
    <2>1. (n + 1) - 1 = n /\ n \in 1 .. n
      OBVIOUS
    <2> QED BY <1>1, <2>1 DEF Before
  <1>3. PICK last : last = CHOOSE k \in S : \A j \in S : j <= k
    OBVIOUS
  <1>4. last = n
    <2>1. \A j \in S : j <= n
      BY <1>2
    <2>2. last \in S /\ \A j \in S : j <= last
      BY <1>2, <1>3, <2>1
    <2>3. last \in 1 .. n /\ n <= last
      BY <1>2, <2>2
    <2> QED BY <2>3
  <1>6. WordBefore(words, what, default, n + 1) = words[1 + last]
    BY <1>1, <1>2, <1>3 DEF WordBefore, LastValue
  <1>5. 1 + n = n + 1
    OBVIOUS
  <1> QED BY <1>4, <1>5, <1>6

\* A value and the set of what is given are two fields.
LEMMA ValueAside ==
  ASSUME NEW z, NEW m, NEW x, NEW d, m \in {"server", "username", "license"}
  PROVE  [z EXCEPT ![m] = x, !.set = @ \cup d] = [z EXCEPT ![m] = x, !.set = z.set \cup d]
  OBVIOUS

IsValue(m) == m \in {"server", "username", "license"}

PutIs(m, a, u, l, w, x, v) ==
  [[server |-> a, username |-> u, license |-> l, set |-> w] EXCEPT ![m] = x, !.set = v] =
    [server |-> IF m = "server" THEN x ELSE a,
     username |-> IF m = "username" THEN x ELSE u,
     license |-> IF m = "license" THEN x ELSE l, set |-> v]

LEMMA ValuePut ==
  ASSUME NEW a, NEW u, NEW l, NEW w, NEW x, NEW v, NEW m, IsValue(m)
  PROVE  PutIs(m, a, u, l, w, x, v)
  <1>0. m \in {"server", "username", "license"}
    BY DEF IsValue
  <1>1. PICK z : z = [server |-> a, username |-> u, license |-> l, set |-> w]
    OBVIOUS
  <1>2. PICK y : y = [z EXCEPT ![m] = x]
    OBVIOUS
  <1>3. [z EXCEPT ![m] = x, !.set = v] = [y EXCEPT !["set"] = v]
    BY <1>0, <1>2
  <1>4. y = [server |-> IF m = "server" THEN x ELSE a,
             username |-> IF m = "username" THEN x ELSE u,
             license |-> IF m = "license" THEN x ELSE l, set |-> w]
    BY <1>0, <1>1, <1>2
  <1>5. [y EXCEPT !["set"] = v] =
          [server |-> IF m = "server" THEN x ELSE a,
           username |-> IF m = "username" THEN x ELSE u,
           license |-> IF m = "license" THEN x ELSE l, set |-> v]
    BY <1>4
  <1> QED BY <1>1, <1>3, <1>5 DEF PutIs

\* parse_args reads an option and its value.
LEMMA ValueRead ==
  ASSUME NEW words, NEW n \in Nat \ {0}, OptionOf(words)[n], Settled(words, n),
         TakesValue(words[n])
  PROVE  /\ OptionOf(words)[n + 2] /\ Settled(words, n + 2)
         /\ ArgsBefore(words, n + 2) =
              [ArgsBefore(words, n) EXCEPT ![Meaning(words[n])] = words[n + 1],
                                           !.set = @ \cup ({Meaning(words[n])} \ {"server"})]
  <1>1. OptionOf(words)[n + 2] /\ ~OptionOf(words)[n + 1]
    BY BehindValue
  <1>2. n + 1 \in Nat \ {0} /\ (n + 1) + 1 = n + 2
    OBVIOUS
  <1>3. Settled(words, n + 2)
    <2>1. ASSUME NEW k \in 1 .. (n + 2) - 1, OptionOf(words)[k]
          PROVE  Meaning(words[k]) # "unknown" /\ (TakesValue(words[k]) => k + 1 < n + 2)
      <3>1. CASE k = n
        <4>1. Meaning(words[n]) # "unknown" /\ n + 1 < n + 2
          BY DEF TakesValue
        <4> QED BY <3>1, <4>1
      <3>2. CASE k = n + 1
        BY <1>1, <2>1, <3>2
      <3>3. CASE k # n /\ k # n + 1
        <4>1. k \in 1 .. n - 1 /\ (k + 1 < n => k + 1 < n + 2)
          BY <3>3
        <4> QED BY <2>1, <4>1 DEF Settled
      <3> QED BY <3>1, <3>2, <3>3
    <2> QED BY <2>1 DEF Settled
  <1>4. PICK m : m = Meaning(words[n])
    OBVIOUS
  <1>5. m \in {"server", "username", "license"}
        /\ (m \in Booleans <=> m # "server")
    BY <1>4 DEF TakesValue, Switches, Booleans
  <1>6. \A what : Before(words, what, n + 2) = Before(words, what, n + 1)
    BY <1>1, <1>2, ValueSkipped
  <1>7. \A what : what # m => Before(words, what, n + 2) = Before(words, what, n)
    BY <1>4, <1>6, OneMore
  <1>8. \A what, default : what # m =>
          WordBefore(words, what, default, n + 2) = WordBefore(words, what, default, n)
    BY <1>7 DEF WordBefore
  <1>9. \A default : WordBefore(words, m, default, n + 2) = words[n + 1]
    <2>1. \A default : WordBefore(words, m, default, n + 1) = words[n + 1]
      BY <1>4, LastRead
    <2> QED BY <1>6, <2>1 DEF WordBefore
  <1>10. SetBefore(words, n + 2) = SetBefore(words, n) \cup ({m} \ {"server"})
    <2>1. Before(words, m, n + 2) # {}
      <3>1. n \in 1 .. (n + 1) - 1
        OBVIOUS
      <3>2. n \in Before(words, m, n + 1)
        BY <1>4, <3>1 DEF Before
      <3> QED BY <1>6, <3>2
    <2>2. \A what \in Booleans : Before(words, what, n + 2) # {} <=>
                                  Before(words, what, n) # {} \/ what = m
      BY <1>7, <2>1
    <2>3. \A what \in Booleans : what \in {m} \ {"server"} <=> what = m
      BY <1>5
    <2>4. {m} \ {"server"} \subseteq Booleans
      BY <1>5
    <2> QED BY <2>2, <2>3, <2>4 DEF SetBefore
  <1>11. ArgsBefore(words, n + 2) = [ArgsBefore(words, n) EXCEPT ![m] = words[n + 1],
                                               !.set = @ \cup ({m} \ {"server"})]
    <2>1. PICK a, u, l, w, x : /\ a = WordBefore(words, "server", "DEFAULT", n)
                               /\ u = WordBefore(words, "username", NoWord, n)
                               /\ l = WordBefore(words, "license", NoWord, n)
                               /\ w = SetBefore(words, n)
                               /\ x = words[n + 1]
      OBVIOUS
    <2>2. ArgsBefore(words, n) = [server |-> a, username |-> u, license |-> l, set |-> w]
      BY <2>1, ArgsAre
    <2>3. PICK v : v = w \cup ({m} \ {"server"}) /\ v = SetBefore(words, n + 2)
      BY <1>10, <2>1
    <2>7. [ArgsBefore(words, n) EXCEPT ![m] = words[n + 1],
                                       !.set = @ \cup ({m} \ {"server"})] =
            [server  |-> IF m = "server" THEN x ELSE a,
             username |-> IF m = "username" THEN x ELSE u,
             license |-> IF m = "license" THEN x ELSE l, set |-> v]
      <3>1. PICK z : z = [server |-> a, username |-> u, license |-> l, set |-> w]
        OBVIOUS
      <3>2. [z EXCEPT ![m] = x, !.set = @ \cup ({m} \ {"server"})] =
              [z EXCEPT ![m] = x, !.set = z.set \cup ({m} \ {"server"})]
        BY <1>5, ValueAside
      <3>3. z.set \cup ({m} \ {"server"}) = v
        BY <2>3, <3>1
      <3>4. [ArgsBefore(words, n) EXCEPT ![m] = words[n + 1],
                                         !.set = @ \cup ({m} \ {"server"})] =
              [z EXCEPT ![m] = x, !.set = @ \cup ({m} \ {"server"})]
        BY <2>1, <2>2, <3>1
      <3>5. [z EXCEPT ![m] = x, !.set = z.set \cup ({m} \ {"server"})] =
              [z EXCEPT ![m] = x, !.set = v]
        BY <3>3
      <3>6. [z EXCEPT ![m] = x, !.set = v] =
              [server  |-> IF m = "server" THEN x ELSE a,
               username |-> IF m = "username" THEN x ELSE u,
               license |-> IF m = "license" THEN x ELSE l, set |-> v]
        <4>1. [[server |-> a, username |-> u, license |-> l, set |-> w]
                 EXCEPT ![m] = x, !.set = v] =
                [server  |-> IF m = "server" THEN x ELSE a,
                 username |-> IF m = "username" THEN x ELSE u,
                 license |-> IF m = "license" THEN x ELSE l, set |-> v]
          <5>1. IsValue(m)
            BY <1>5 DEF IsValue
          <5>2. PutIs(m, a, u, l, w, x, v)
            BY <5>1, ValuePut
          <5> QED BY <5>2 DEF PutIs
        <4> QED BY <3>1, <4>1
      <3> QED BY <3>2, <3>4, <3>5, <3>6
    <2>4. CASE m = "server"
      <3>1. /\ x = WordBefore(words, "server", "DEFAULT", n + 2)
            /\ u = WordBefore(words, "username", NoWord, n + 2)
            /\ l = WordBefore(words, "license", NoWord, n + 2)
        BY <1>8, <1>9, <2>1, <2>4
      <3>2. ArgsBefore(words, n + 2) =
              [server |-> x, username |-> u, license |-> l, set |-> v]
        BY <2>3, <3>1, ArgsAre
      <3> QED BY <2>4, <2>7, <3>2
    <2>5. CASE m = "username"
      <3>1. /\ a = WordBefore(words, "server", "DEFAULT", n + 2)
            /\ x = WordBefore(words, "username", NoWord, n + 2)
            /\ l = WordBefore(words, "license", NoWord, n + 2)
        BY <1>8, <1>9, <2>1, <2>5
      <3>2. ArgsBefore(words, n + 2) =
              [server |-> a, username |-> x, license |-> l, set |-> v]
        BY <2>3, <3>1, ArgsAre
      <3> QED BY <2>5, <2>7, <3>2
    <2>6. CASE m = "license"
      <3>1. /\ a = WordBefore(words, "server", "DEFAULT", n + 2)
            /\ u = WordBefore(words, "username", NoWord, n + 2)
            /\ x = WordBefore(words, "license", NoWord, n + 2)
        BY <1>8, <1>9, <2>1, <2>6
      <3>2. ArgsBefore(words, n + 2) =
              [server |-> a, username |-> u, license |-> x, set |-> v]
        BY <2>3, <3>1, ArgsAre
      <3> QED BY <2>6, <2>7, <3>2
    <2> QED BY <1>5, <2>4, <2>5, <2>6
  <1> QED BY <1>1, <1>3, <1>4, <1>11
-----------------------------------------------------------------------------
(***************************************************************************)
(* Verdicts.                                                               *)
(***************************************************************************)
\* What VerdictByInputs says of a command line, what was given, an answer, what
\* was printed, and an exit code.
MeantIn(words, what) == Before(words, what, Len(words) + 1)

MisusedIn(words) ==
  \/ MeantIn(words, "unknown") # {}
  \/ \E k \in 1 .. Len(words) : k = Len(words) /\ OptionOf(words)[k] /\ TakesValue(words[k])

ArgsIn(words) == ArgsBefore(words, Len(words) + 1)

\* NameOf and LicenseOf, for any name and license.
NameFor(word, user) == IF word = "NAME" THEN user ELSE <<45, 45>>
LicenseFor(word, license) == IF word = "KEY" THEN license ELSE <<Other>>

Right(a, g, user, license) ==
  /\ Accepts(IF "username" \in a.set THEN NameFor(a.username, user) ELSE g.name,
             IF "license" \in a.set THEN LicenseFor(a.license, license) ELSE g.license)
  /\ a.server \in DOMAIN Url /\ NamesServer(Url[a.server])

DeservingIn(words, g, user, license) ==
  ~MisusedIn(words) /\ Right(ArgsIn(words), g, user, license)

VerdictFor(words, deserving, json, prints, status) ==
  /\ status = 2 <=> MisusedIn(words)
  /\ "usage" \in prints <=> MisusedIn(words) \/ MeantIn(words, "help") # {}
  /\ "ACCESS GRANTED" \in prints => deserving /\ CarriesKey(json)
  /\ deserving /\ SaysKey(json) => "ACCESS GRANTED" \in prints
  /\ status = 1 /\ deserving => json # NotAsked
  /\ "ACCESS DENIED" \in prints <=> status = 1
  /\ status = 0 <=> "ACCESS GRANTED" \in prints \/ ("usage" \in prints /\ ~MisusedIn(words))

\* These are the operators VerdictByInputs is made of.
LEMMA WordsAre ==
  ASSUME argv \in Seq(STRING)
  PROVE  /\ \A what : Meant(what) = MeantIn(argv, what)
         /\ Misused <=> MisusedIn(argv)
         /\ Deserving <=> DeservingIn(argv, given, name, text)
  <1>1. PICK n \in Nat : n = Len(argv) /\ DOMAIN argv = 1 .. n
    OBVIOUS
  <1>2. PICK f : f = OptionOf(argv) /\ f = OptionAt
    BY OptionIs
  <1>3. ASSUME NEW what PROVE Meant(what) = MeantIn(argv, what)
    <2>1. (n + 1) - 1 = n
      OBVIOUS
    <2>2. Meant(what) = {k \in 1 .. n : f[k] /\ Meaning(argv[k]) = what}
      BY <1>1, <1>2 DEF Meant
    <2>3. MeantIn(argv, what) = {k \in 1 .. n : f[k] /\ Meaning(argv[k]) = what}
      BY <1>1, <1>2, <2>1 DEF MeantIn, Before
    <2> QED BY <2>2, <2>3
  <1>4. Misused <=> MisusedIn(argv)
    BY <1>1, <1>2, <1>3 DEF Misused, MisusedIn
  <1>5. ASSUME NEW what, NEW default
        PROVE  MeantWord(what, default) = WordBefore(argv, what, default, Len(argv) + 1)
    <2>1. PICK S : S = Meant(what) /\ S = Before(argv, what, Len(argv) + 1)
      BY <1>3 DEF MeantIn
    <2>2. MeantWord(what, default) =
            IF S = {} THEN default ELSE argv[1 + CHOOSE k \in S : \A j \in S : j <= k]
      BY <2>1 DEF MeantWord
    <2>3. WordBefore(argv, what, default, Len(argv) + 1) =
            IF S = {} THEN default ELSE argv[1 + CHOOSE k \in S : \A j \in S : j <= k]
      BY <2>1 DEF WordBefore, LastValue
    <2> QED BY <2>2, <2>3
  <1>6. Deserving <=> DeservingIn(argv, given, name, text)
    <2>1. PICK s, u, l, w : /\ s = MeantWord("server", "DEFAULT")
                            /\ u = MeantWord("username", NoWord)
                            /\ l = MeantWord("license", NoWord)
                            /\ w = SetBefore(argv, Len(argv) + 1)
      OBVIOUS
    <2>2. ArgsIn(argv) = [server |-> s, username |-> u, license |-> l, set |-> w]
      BY <1>5, <2>1, ArgsAre DEF ArgsIn
    <2>3. /\ ArgsIn(argv).server = s /\ ArgsIn(argv).username = u
          /\ ArgsIn(argv).license = l /\ ArgsIn(argv).set = w
      BY <2>2
    <2>4. /\ "username" \in w <=> Meant("username") # {}
          /\ "license" \in w <=> Meant("license") # {}
      BY <1>3, <2>1 DEF SetBefore, MeantIn, Booleans
    <2>5. (IF Meant("username") = {} THEN given.name ELSE NameOf(u)) =
            (IF "username" \in w THEN NameFor(u, name) ELSE given.name)
      BY <2>4 DEF NameOf, NameFor
    <2>6. (IF Meant("license") = {} THEN given.license ELSE LicenseOf(l)) =
            (IF "license" \in w THEN LicenseFor(l, text) ELSE given.license)
      BY <2>4 DEF LicenseOf, LicenseFor
    <2>7. Right(ArgsIn(argv), given, name, text) <=>
            /\ Accepts(IF "username" \in w THEN NameFor(u, name) ELSE given.name,
                       IF "license" \in w THEN LicenseFor(l, text) ELSE given.license)
            /\ s \in DOMAIN Url /\ NamesServer(Url[s])
      BY <2>3 DEF Right
    <2>8. Deserving <=>
            /\ ~Misused
            /\ Accepts(IF Meant("username") = {} THEN given.name ELSE NameOf(u),
                       IF Meant("license") = {} THEN given.license ELSE LicenseOf(l))
            /\ s \in DOMAIN Url /\ NamesServer(Url[s])
      BY <2>1 DEF Deserving
    <2> QED BY <1>4, <2>5, <2>6, <2>7, <2>8 DEF DeservingIn
  <1> QED BY <1>3, <1>4, <1>6

LEMMA VerdictIs ==
  ASSUME argv \in Seq(STRING),
         stage = "done" /\ exit # Aborted =>
           VerdictFor(argv, DeservingIn(argv, given, name, text), answer, printed, exit)
  PROVE  VerdictByInputs
  BY WordsAre DEF VerdictByInputs, VerdictFor

\* A command line that parse_args has come through is no misuse.
LEMMA WellUsed ==
  ASSUME NEW words \in Seq(STRING), Settled(words, Len(words) + 1)
  PROVE  ~MisusedIn(words)
  <1>1. PICK n \in Nat : n = Len(words) /\ (n + 1) - 1 = n /\ ~(n + 1 < n + 1)
    OBVIOUS
  <1>2. \A k \in 1 .. n : OptionOf(words)[k] =>
          Meaning(words[k]) # "unknown" /\ (TakesValue(words[k]) => k + 1 < n + 1)
    BY <1>1 DEF Settled
  <1>3. MeantIn(words, "unknown") = {}
    BY <1>1, <1>2 DEF MeantIn, Before
  <1>4. ~ \E k \in 1 .. n : k = n /\ OptionOf(words)[k] /\ TakesValue(words[k])
    BY <1>1, <1>2
  <1> QED BY <1>1, <1>3, <1>4 DEF MisusedIn
-----------------------------------------------------------------------------
LEMMA NoKey ==
  /\ ~CarriesKey(NotAsked) /\ ~CarriesKey(NoAnswer)
  /\ ~SaysKey(NotAsked) /\ ~SaysKey(NoAnswer)
  /\ parse_pubkey(NoAnswer) = {}
  <1>1. Places(NotAsked, Field) = {} /\ Places(NoAnswer, Field) = {}
    <2>1. NotAsked \in Seq({NoNumber}) /\ DOMAIN NotAsked = {1} /\ NotAsked[1] = NoNumber
          /\ NoNumber # Field
      BY DEF NotAsked, NoNumber, Field
    <2>2. DOMAIN NoAnswer = {}
      BY DEF NoAnswer
    <2> QED BY <2>1, <2>2 DEF Places
  <1>2. \A symbol : Places(NoAnswer, symbol) = {}
    <2>1. DOMAIN NoAnswer = {}
      BY DEF NoAnswer
    <2> QED BY <2>1 DEF Places
  <1>3. Cardinality({}) < 2
    BY FS_EmptySet
  <1> QED BY <1>1, <1>2, <1>3 DEF CarriesKey, SaysKey, parse_pubkey

\* What the command line says is what was given, if it says anything.
NameIs == "username" \in args.set => given.name = NameFor(args.username, name)

LicenseIs == "license" \in args.set => given.license = LicenseFor(args.license, text)

\* Whoever deserves access is who the client sends a right name and license for, and
\* to the right place.
LEMMA DeservesIs ==
  ASSUME argv \in Seq(STRING), args = ArgsIn(argv), ~MisusedIn(argv), NameIs, LicenseIs
  PROVE  DeservingIn(argv, given, name, text) <=>
           /\ Accepts(given.name, given.license)
           /\ <<<<Host>>, Port>> \in HttpClient(ServerUrl)
  <1>1. DeservingIn(argv, given, name, text) <=> Right(args, given, name, text)
    BY DEF DeservingIn
  <1>2. PICK server : server = args.server
    OBVIOUS
  <1>3. server \in DOMAIN Url /\ NamesServer(Url[server]) <=>
          <<<<Host>>, Port>> \in HttpClient(ServerUrl)
    <2>1. CASE server \in DOMAIN Url
      <3>1. Url[server] \in Seq(Int) /\ ServerUrl = Url[server]
        BY <1>2, <2>1, PortalAssumption DEF ServerUrl
      <3> QED BY <2>1, <3>1, UrlIsRead
    <2>2. CASE server \notin DOMAIN Url
      <3>1. ServerUrl = <<Plain>>
        BY <1>2, <2>2 DEF ServerUrl
      <3>2. <<Plain>> \in Seq(Int) /\ ToSet(<<Plain>>) = {Plain} /\ ~(Plain >= 0)
        <4>1. <<Plain>> \in Seq(Int) /\ DOMAIN <<Plain>> = {1} /\ <<Plain>>[1] = Plain
              /\ ~(Plain >= 0)
          BY DEF Plain
        <4> QED BY <4>1 DEF ToSet
      <3>3. ~NamesServer(<<Plain>>)
        BY <3>2 DEF NamesServer
      <3> QED BY <2>2, <3>1, <3>2, <3>3, UrlIsRead
    <2> QED BY <2>1, <2>2
  <1>4. (IF "username" \in args.set THEN NameFor(args.username, name) ELSE given.name)
          = given.name
    BY DEF NameIs
  <1>5. (IF "license" \in args.set THEN LicenseFor(args.license, text) ELSE given.license)
          = given.license
    BY DEF LicenseIs
  <1>6. Right(args, given, name, text) <=>
          /\ Accepts(given.name, given.license)
          /\ server \in DOMAIN Url /\ NamesServer(Url[server])
    BY <1>2, <1>4, <1>5 DEF Right
  <1> QED BY <1>1, <1>3, <1>6
-----------------------------------------------------------------------------
(***************************************************************************)
(* A run, from argv to the exit code.                                      *)
(***************************************************************************)
Shown == {"analysis environment", "decoy flag"}

\* Behind parse_args, behind the prompts, and behind the first of them.
Sending == {"preflight", "decode", "connect", "session"}
Asking == Sending \cup {"license"}
Going == Asking \cup {"init", "guards", "name"}

\* Before run_app is called.
Idle ==
  stage = "typing" => at = 1 /\ args = NoArgs /\ printed = {} /\ answer = NotAsked

\* The words before the head of the loop are options and their values, and what
\* they mean is set.
Parsing ==
  stage = "parse" =>
    /\ at \in 1 .. Len(argv) + 1
    /\ OptionOf(argv)[at] /\ Settled(argv, at)
    /\ args = ArgsBefore(argv, at)
    /\ printed = {} /\ answer = NotAsked

\* Behind it all of them are, and no verdict was printed and no server asked.
Parsed ==
  stage \in Going =>
    /\ Settled(argv, Len(argv) + 1)
    /\ args = ArgsIn(argv)
    /\ "help" \notin args.set
    /\ printed \subseteq Shown
    /\ stage # "session" => answer = NotAsked

\* What is given is what the command line says, from the prompts on.
NameKept == stage \in Asking => NameIs

LicenseKept == stage \in Sending => LicenseIs

\* The session goes on where the server has answered.
Reached ==
  stage = "session" =>
    answer \in Answer /\ <<<<Host>>, Port>> \in HttpClient(ServerUrl)

Judged ==
  stage = "done" /\ exit # Aborted =>
    VerdictFor(argv, DeservingIn(argv, given, name, text), answer, printed, exit)

RunInv ==
  /\ argv \in Seq(STRING)
  /\ Idle /\ Parsing /\ Parsed /\ NameKept /\ LicenseKept /\ Reached /\ Judged

LEMMA RunStarts ==
  ASSUME AppInit
  PROVE  RunInv
  <1>1. argv = <<>> /\ stage = "typing"
    BY DEF AppInit
  <1>2. argv \in Seq(STRING)
    <2>1. <<>> \in Seq(STRING)
      BY EmptySeq
    <2> QED BY <1>1, <2>1
  <1>3. Idle
    BY DEF AppInit, Idle
  <1> QED BY <1>1, <1>2, <1>3 DEF RunInv, Parsing, Parsed, NameKept, LicenseKept, Reached,
                                  Judged, Going, Asking, Sending

LEMMA TypingRuns ==
  ASSUME RunInv, Typing
  PROVE  RunInv'
  <1>1. stage = "typing" /\ stage' = "typing"
    BY DEF Typing, appVars
  <1>2. argv' \in Seq(STRING) /\ Idle'
    BY DEF RunInv, Typing, appVars, Idle, NotAsked, NoArgs, NoNumber
  <1> QED BY <1>1, <1>2 DEF RunInv, Parsing, Parsed, NameKept, LicenseKept, Reached,
                            Judged, Going, Asking, Sending

LEMMA LaunchRuns ==
  ASSUME RunInv, NEW words \in Argv, Launch(words)
  PROVE  RunInv'
  <1>1. stage = "typing" /\ stage' = "parse" /\ argv' = words
    BY DEF Launch, Goes
  <1>2. at' = 1 /\ args' = NoArgs /\ printed' = {} /\ answer' = NotAsked
    BY <1>1 DEF Launch, RunInv, Idle
  <1>3. words \in Seq(STRING)
    BY PortalAssumption
  <1>4. Parsing'
    <2>1. 1 \in 1 .. Len(words) + 1
      BY <1>3
    <2>2. OptionOf(words)[1] /\ Settled(words, 1) /\ NoArgs = ArgsBefore(words, 1)
      BY OptionNext, NothingRead
    <2> QED BY <1>1, <1>2, <2>1, <2>2 DEF Parsing, NotAsked, NoNumber
  <1> QED BY <1>1, <1>3, <1>4 DEF RunInv, Idle, Parsed, NameKept, LicenseKept, Reached,
                                  Judged, Going, Asking, Sending

\* parse_args goes on.
LEMMA ParseGoesOn ==
  ASSUME RunInv, stage' = "parse", argv' = argv, at' \in 1 .. Len(argv) + 1,
         OptionOf(argv)[at'], Settled(argv, at'), args' = ArgsBefore(argv, at'),
         printed' = {}, answer' = NotAsked
  PROVE  RunInv'
  <1>1. Parsing'
    BY DEF Parsing, NotAsked, NoNumber
  <1> QED BY <1>1 DEF RunInv, Idle, Parsed, NameKept, LicenseKept, Reached, Judged,
                      Going, Asking, Sending

LEMMA ParseRuns ==
  ASSUME RunInv, ParseSwitch \/ ParseValue
  PROVE  RunInv'
  <1>1. stage = "parse" /\ stage' = "parse" /\ argv' = argv
        /\ printed' = printed /\ answer' = answer
    BY DEF ParseSwitch, ParseValue
  <1>2. /\ argv \in Seq(STRING) /\ at \in 1 .. Len(argv) + 1
        /\ OptionOf(argv)[at] /\ Settled(argv, at)
        /\ args = ArgsBefore(argv, at) /\ printed = {} /\ answer = NotAsked
    BY <1>1 DEF RunInv, Parsing
  <1>3. PICK n \in Nat \ {0} : n = at
    BY <1>2
  <1>4. CASE ParseSwitch
    <2>1. /\ n <= Len(argv) /\ Meaning(argv[n]) \in Switches /\ at' = n + 1
          /\ args' = [args EXCEPT !.set = @ \cup {Meaning(argv[n])}]
      BY <1>3, <1>4 DEF ParseSwitch, Word1, Switches
    <2>2. /\ OptionOf(argv)[n + 1] /\ Settled(argv, n + 1)
          /\ ArgsBefore(argv, n + 1) =
               [ArgsBefore(argv, n) EXCEPT !.set = @ \cup {Meaning(argv[n])}]
      BY <1>2, <1>3, <2>1, SwitchRead
    <2>3. at' \in 1 .. Len(argv) + 1
      BY <1>2, <2>1
    <2>4. args' = ArgsBefore(argv, at')
      BY <1>2, <1>3, <2>1, <2>2
    <2> QED BY <1>1, <1>2, <2>1, <2>2, <2>3, <2>4, ParseGoesOn
  <1>5. CASE ParseValue
    <2>1. /\ n < Len(argv) /\ TakesValue(argv[n]) /\ at' = n + 2
          /\ args' = [args EXCEPT ![Meaning(argv[n])] = argv[n + 1],
                                  !.set = @ \cup ({Meaning(argv[n])} \ {"server"})]
      BY <1>3, <1>5 DEF ParseValue, Word1
    <2>2. /\ OptionOf(argv)[n + 2] /\ Settled(argv, n + 2)
          /\ ArgsBefore(argv, n + 2) =
               [ArgsBefore(argv, n) EXCEPT ![Meaning(argv[n])] = argv[n + 1],
                                           !.set = @ \cup ({Meaning(argv[n])} \ {"server"})]
      BY <1>2, <1>3, <2>1, ValueRead
    <2>6. Len(argv) \in Nat
      BY <1>2
    <2>5. n < Len(argv) /\ at' = n + 2 /\ Len(argv) \in Nat
      BY <2>1, <2>6
    <2>3. at' \in 1 .. Len(argv) + 1
      BY <2>5
    <2>4. args' = ArgsBefore(argv, at')
      BY <1>2, <1>3, <2>1, <2>2
    <2> QED BY <1>1, <1>2, <2>1, <2>2, <2>3, <2>4, ParseGoesOn
  <1> QED BY <1>4, <1>5

\* A run ends with a verdict that fits.
LEMMA EndsJudged ==
  ASSUME RunInv, stage' = "done", argv' = argv, given' = given, name' = name, text' = text,
         VerdictFor(argv, DeservingIn(argv, given, name, text), answer', printed', exit')
           \/ exit' = Aborted
  PROVE  RunInv'
  <1>1. Judged'
    BY DEF Judged, Aborted
  <1> QED BY <1>1 DEF RunInv, Idle, Parsing, Parsed, NameKept, LicenseKept, Reached,
                      Going, Asking, Sending

LEMMA ThrowRuns ==
  ASSUME RunInv, ParseThrows
  PROVE  RunInv'
  <1>1. /\ stage = "parse" /\ stage' = "done" /\ exit' = 2 /\ printed' = printed \cup {"usage"}
        /\ argv' = argv /\ given' = given /\ name' = name /\ text' = text /\ answer' = answer
    BY DEF ParseThrows, Ends, vars
  <1>2. /\ argv \in Seq(STRING) /\ at \in 1 .. Len(argv) + 1
        /\ OptionOf(argv)[at] /\ printed = {}
    BY <1>1 DEF RunInv, Parsing
  <1>3. PICK n \in Nat : n = at /\ n \in 1 .. Len(argv)
    BY <1>2 DEF ParseThrows
  <1>4. MisusedIn(argv)
    <2>1. CASE Meaning(argv[n]) = "unknown"
      <3>1. n \in 1 .. (Len(argv) + 1) - 1
        BY <1>3
      <3>2. n \in MeantIn(argv, "unknown")
        BY <1>2, <1>3, <2>1, <3>1 DEF MeantIn, Before
      <3> QED BY <3>2 DEF MisusedIn
    <2>2. CASE TakesValue(argv[n]) /\ n = Len(argv)
      BY <1>2, <1>3, <2>2 DEF MisusedIn
    <2> QED BY <1>3, <2>1, <2>2 DEF ParseThrows, Word1
  <1>5. ~DeservingIn(argv, given, name, text)
    BY <1>4 DEF DeservingIn
  <1>6. VerdictFor(argv, DeservingIn(argv, given, name, text), answer', printed', exit')
    BY <1>1, <1>2, <1>4, <1>5 DEF VerdictFor
  <1> QED BY <1>1, <1>6, EndsJudged

\* parse_args has come through.
LEMMA ParseEndRuns ==
  ASSUME RunInv, ParseEnds
  PROVE  RunInv'
  <1>1. /\ stage = "parse" /\ argv' = argv /\ given' = given /\ name' = name /\ text' = text
        /\ answer' = answer /\ args' = args
    BY DEF ParseEnds, vars
  <1>2. /\ argv \in Seq(STRING) /\ at \in 1 .. Len(argv) + 1
        /\ Settled(argv, at) /\ args = ArgsBefore(argv, at)
        /\ printed = {} /\ answer = NotAsked
    BY <1>1 DEF RunInv, Parsing
  <1>3. at = Len(argv) + 1
    BY <1>2 DEF ParseEnds
  <1>4. Settled(argv, Len(argv) + 1) /\ args = ArgsIn(argv) /\ ~MisusedIn(argv)
    BY <1>2, <1>3, WellUsed DEF ArgsIn
  <1>5. "help" \in args.set <=> MeantIn(argv, "help") # {}
    <2>1. args.set = SetBefore(argv, Len(argv) + 1)
      BY <1>4, ArgsAre DEF ArgsIn, ArgsBefore, SetBefore
    <2> QED BY <2>1 DEF SetBefore, MeantIn, Switches, Booleans
  <1>6. CASE "help" \in args.set
    <2>1. stage' = "done" /\ exit' = 0 /\ printed' = {"usage"}
      BY <1>2, <1>6 DEF ParseEnds, Ends
    <2>2. VerdictFor(argv, DeservingIn(argv, given, name, text), answer', printed', exit')
      BY <1>1, <1>2, <1>4, <1>5, <1>6, <2>1, NoKey DEF VerdictFor
    <2> QED BY <1>1, <2>1, <2>2, EndsJudged
  <1>7. CASE "help" \notin args.set
    <2>1. stage' = "init" /\ printed' = {}
      BY <1>2, <1>7 DEF ParseEnds, Goes
    <2>2. Parsed'
      BY <1>1, <1>2, <1>4, <1>7, <2>1 DEF Parsed, NotAsked, NoNumber
    <2> QED BY <1>1, <1>2, <2>1, <2>2 DEF RunInv, Idle, Parsing, NameKept, LicenseKept,
                                         Reached, Judged, Asking, Sending
  <1> QED BY <1>6, <1>7

\* A run goes on behind parse_args, before it is asked for a license.
LEMMA EarlyRuns ==
  ASSUME RunInv,
         InitCrypto \/ \E memory \in Image, watched \in BOOLEAN : RunGuards(memory, watched)
  PROVE  RunInv'
  <1>1. /\ stage \in {"init", "guards"} /\ stage' \in {"guards", "name", "done"}
        /\ stage' = "done" => exit' = Aborted
        /\ argv' = argv /\ given' = given /\ name' = name /\ text' = text
        /\ answer' = answer /\ args' = args
        /\ printed' = printed \/ printed' = printed \cup {"analysis environment"}
    <2>1. CASE InitCrypto
      BY <2>1 DEF InitCrypto, Goes, Ends, vars, Aborted
    <2>2. CASE \E memory \in Image, watched \in BOOLEAN : RunGuards(memory, watched)
      <3>1. PICK memory \in Image, watched \in BOOLEAN : RunGuards(memory, watched)
        BY <2>2
      <3>2. printed' = printed \/ printed' = printed \cup {"analysis environment"}
        BY <3>1 DEF RunGuards
      <3> QED BY <3>1, <3>2 DEF RunGuards, Goes, vars
    <2> QED BY <2>1, <2>2
  <1>2. stage \in Going /\ stage # "session"
    BY <1>1 DEF Going
  <1>3. /\ argv \in Seq(STRING) /\ Settled(argv, Len(argv) + 1) /\ args = ArgsIn(argv)
        /\ "help" \notin args.set /\ printed \subseteq Shown /\ answer = NotAsked
    BY <1>2 DEF RunInv, Parsed
  <1>4. CASE stage' = "done"
    BY <1>1, <1>4, EndsJudged
  <1>5. CASE stage' # "done"
    <2>1. printed' \subseteq Shown
      BY <1>1, <1>3 DEF Shown
    <2>2. Parsed'
      BY <1>1, <1>3, <2>1 DEF Parsed, NotAsked, NoNumber
    <2> QED BY <1>1, <1>3, <1>5, <2>2 DEF RunInv, Idle, Parsing, NameKept, LicenseKept,
                                         Reached, Judged, Asking, Sending
  <1> QED BY <1>4, <1>5

LEMMA NameRuns ==
  ASSUME RunInv, AppTyped, GetName
  PROVE  RunInv'
  <1>1. /\ stage = "name" /\ stage' = "license" /\ argv' = argv /\ name' = name
        /\ answer' = answer /\ args' = args /\ printed' = printed
    BY DEF GetName, Goes, vars
  <1>2. /\ argv \in Seq(STRING) /\ Settled(argv, Len(argv) + 1) /\ args = ArgsIn(argv)
        /\ "help" \notin args.set /\ printed \subseteq Shown /\ answer = NotAsked
    BY <1>1 DEF RunInv, Parsed, Going
  <1>3. Parsed'
    BY <1>1, <1>2 DEF Parsed, NotAsked, NoNumber, Shown
  <1>4. NameKept'
    <2>1. PICK line \in IF "username" \in args.set THEN {NameOf(args.username)}
                       ELSE NameLines : given' = [given EXCEPT !.name = line]
      BY DEF GetName
    <2>2. given' = [name |-> line, license |-> given.license]
      BY <2>1 DEF AppTyped
    <2>3. "username" \in args.set => given'.name = NameFor(args.username, name)
      BY <2>1, <2>2 DEF NameOf, NameFor
    <2>4. NameIs'
      BY <1>1, <2>3 DEF NameIs, NameFor
    <2> QED BY <2>4 DEF NameKept
  <1> QED BY <1>1, <1>2, <1>3, <1>4 DEF RunInv, Idle, Parsing, LicenseKept, Reached,
                                        Judged, Sending

LEMMA LicenseRuns ==
  ASSUME RunInv, AppTyped, GetLicense
  PROVE  RunInv'
  <1>1. /\ stage = "license" /\ stage' = "preflight" /\ argv' = argv /\ name' = name
        /\ text' = text /\ answer' = answer /\ args' = args /\ printed' = printed
    BY DEF GetLicense, Goes, vars
  <1>2. /\ argv \in Seq(STRING) /\ Settled(argv, Len(argv) + 1) /\ args = ArgsIn(argv)
        /\ "help" \notin args.set /\ printed \subseteq Shown /\ answer = NotAsked
        /\ NameIs
    BY <1>1 DEF RunInv, Parsed, NameKept, Going, Asking
  <1>3. PICK line \in IF "license" \in args.set THEN {LicenseOf(args.license)}
                     ELSE LicenseLines :
          given' = [given EXCEPT !.license = line]
    BY DEF GetLicense
  <1>4. given' = [name |-> given.name, license |-> line]
    BY <1>3 DEF AppTyped
  <1>5. given'.name = given.name /\ given'.license = line
    BY <1>4
  <1>6. Parsed'
    BY <1>1, <1>2 DEF Parsed, NotAsked, NoNumber, Shown
  <1>7. NameKept'
    <2>1. NameIs'
      BY <1>1, <1>2, <1>5 DEF NameIs, NameFor
    <2> QED BY <2>1 DEF NameKept
  <1>8. LicenseKept'
    <2>1. "license" \in args.set => line = LicenseFor(args.license, text)
      BY <1>3 DEF LicenseOf, LicenseFor
    <2>2. LicenseIs'
      BY <1>1, <1>5, <2>1 DEF LicenseIs, LicenseFor
    <2> QED BY <2>2 DEF LicenseKept
  <1> QED BY <1>1, <1>2, <1>6, <1>7, <1>8 DEF RunInv, Idle, Parsing, Reached, Judged

\* Behind the prompts: what the command line says is what was given.
SendingFacts ==
  /\ argv \in Seq(STRING) /\ Settled(argv, Len(argv) + 1) /\ args = ArgsIn(argv)
  /\ "help" \notin args.set /\ printed \subseteq Shown
  /\ NameIs /\ LicenseIs
  /\ ~MisusedIn(argv) /\ MeantIn(argv, "help") = {}

LEMMA SendingIs ==
  ASSUME RunInv, stage \in Sending
  PROVE  SendingFacts /\ (stage # "session" => answer = NotAsked)
  <1>1. stage \in Going /\ stage \in Asking
    BY DEF Going, Asking
  <1>2. /\ argv \in Seq(STRING) /\ Settled(argv, Len(argv) + 1) /\ args = ArgsIn(argv)
        /\ "help" \notin args.set /\ printed \subseteq Shown
        /\ stage # "session" => answer = NotAsked
        /\ NameIs /\ LicenseIs
    BY <1>1 DEF RunInv, Parsed, NameKept, LicenseKept
  <1>3. ~MisusedIn(argv)
    BY <1>2, WellUsed
  <1>4. MeantIn(argv, "help") = {}
    <2>1. args.set = SetBefore(argv, Len(argv) + 1)
      BY <1>2 DEF ArgsIn, ArgsBefore, SetBefore
    <2> QED BY <1>2, <2>1 DEF SetBefore, MeantIn, Switches, Booleans
  <1> QED BY <1>2, <1>3, <1>4 DEF SendingFacts

\* A run goes on behind the prompts.
LEMMA SendingGoesOn ==
  ASSUME SendingFacts, stage' \in Sending, argv' = argv, args' = args, given' = given,
         name' = name, text' = text, printed' \subseteq Shown,
         stage' # "session" => answer' = NotAsked,
         stage' = "session" =>
           answer' \in Answer /\ <<<<Host>>, Port>> \in HttpClient(ServerUrl)
  PROVE  RunInv'
  <1>1. stage' \in Going /\ stage' \in Asking /\ stage' \notin {"typing", "parse", "done"}
    BY DEF Going, Asking, Sending
  <1>2. Parsed'
    BY DEF SendingFacts, Parsed, NotAsked, NoNumber, Shown
  <1>3. NameKept'
    <2>1. NameIs'
      BY DEF SendingFacts, NameIs, NameFor
    <2> QED BY <2>1 DEF NameKept
  <1>4. LicenseKept'
    <2>1. LicenseIs'
      BY DEF SendingFacts, LicenseIs, LicenseFor
    <2> QED BY <2>1 DEF LicenseKept
  <1>5. Reached'
    <2>1. ServerUrl' = ServerUrl
      BY DEF ServerUrl
    <2> QED BY <2>1 DEF Reached
  <1> QED BY <1>1, <1>2, <1>3, <1>4, <1>5 DEF SendingFacts, RunInv, Idle, Parsing, Judged

LEMMA ExitCodes == 0 # 1 /\ 0 # 2 /\ 1 # 2 /\ 1 # 0
  OBVIOUS

\* Access denied, and granted.
LEMMA DeniedFits ==
  ASSUME SendingFacts, NEW json, NEW prints, prints = printed \cup {"ACCESS DENIED"},
         ~(DeservingIn(argv, given, name, text) /\ SaysKey(json)),
         DeservingIn(argv, given, name, text) => json # NotAsked
  PROVE  VerdictFor(argv, DeservingIn(argv, given, name, text), json, prints, 1)
  <1>1. /\ "usage" \notin prints /\ "ACCESS GRANTED" \notin prints
        /\ "ACCESS DENIED" \in prints
    BY DEF SendingFacts, Shown
  <1>2. ~MisusedIn(argv) /\ MeantIn(argv, "help") = {}
    BY DEF SendingFacts
  <1> QED BY <1>1, <1>2, ExitCodes, Zenon DEF VerdictFor

LEMMA GrantedFits ==
  ASSUME SendingFacts, NEW json, NEW prints, prints = printed \cup {"ACCESS GRANTED"},
         DeservingIn(argv, given, name, text), CarriesKey(json)
  PROVE  VerdictFor(argv, DeservingIn(argv, given, name, text), json, prints, 0)
  <1>1. /\ "usage" \notin prints /\ "ACCESS GRANTED" \in prints
        /\ "ACCESS DENIED" \notin prints
    BY DEF SendingFacts, Shown
  <1>2. ~MisusedIn(argv) /\ MeantIn(argv, "help") = {}
    BY DEF SendingFacts
  <1> QED BY <1>1, <1>2, ExitCodes, Zenon DEF VerdictFor

LEMMA SendingDeserves ==
  ASSUME SendingFacts
  PROVE  DeservingIn(argv, given, name, text) <=>
           /\ Accepts(given.name, given.license)
           /\ <<<<Host>>, Port>> \in HttpClient(ServerUrl)
  BY DeservesIs DEF SendingFacts

\* The verdict of a run that ends in a step.
LEMMA EndRuns ==
  ASSUME RunInv, stage' = "done", UNCHANGED <<vars, argv, args, given>>,
         VerdictFor(argv, DeservingIn(argv, given, name, text), answer', printed', exit')
  PROVE  RunInv'
  BY EndsJudged DEF vars

LEMMA PreflightRuns ==
  ASSUME RunInv, Preflight
  PROVE  RunInv'
  <1>1. /\ stage = "preflight" /\ stage' = "decode" /\ UNCHANGED <<vars, argv, args, given>>
        /\ answer' = answer
        /\ printed' = printed \/ printed' = printed \cup {"decoy flag"}
    <2>1. printed' = printed \/ printed' = printed \cup {"decoy flag"}
      BY DEF Preflight
    <2> QED BY <2>1 DEF Preflight, Goes
  <1>2. stage \in Sending /\ stage' \in Sending /\ stage # "session" /\ stage' # "session"
    BY <1>1 DEF Sending
  <1>3. SendingFacts /\ answer = NotAsked
    BY <1>2, SendingIs
  <1>4. printed' \subseteq Shown
    BY <1>1, <1>3 DEF SendingFacts, Shown
  <1> QED BY <1>1, <1>2, <1>3, <1>4, SendingGoesOn DEF vars

LEMMA DecodeRuns ==
  ASSUME RunInv, Decode
  PROVE  RunInv'
  <1>1. /\ stage = "decode" /\ UNCHANGED <<vars, argv, args, given>> /\ answer' = answer
    BY DEF Decode
  <1>2. stage \in Sending /\ stage # "session"
    BY <1>1 DEF Sending
  <1>3. SendingFacts /\ answer = NotAsked
    BY <1>2, SendingIs
  <1>4. CASE ClientNormalizes(given.name) = {} \/ ClientDecodes(given.license) = {}
    <2>1. /\ stage' = "done" /\ exit' = 1
          /\ printed' = printed \cup {"ACCESS DENIED"}
      BY <1>4 DEF Decode, Denied, Ends
    <2>2. ~Accepts(given.name, given.license)
      BY <1>4 DEF Accepts
    <2>3. ~DeservingIn(argv, given, name, text)
      BY <1>3, <2>2, SendingDeserves
    <2>4. VerdictFor(argv, DeservingIn(argv, given, name, text), answer', printed', 1)
      BY <1>3, <2>1, <2>3, DeniedFits
    <2> QED BY <1>1, <2>1, <2>4, EndRuns
  <1>5. CASE ~(ClientNormalizes(given.name) = {} \/ ClientDecodes(given.license) = {})
    <2>1. stage' = "connect" /\ printed' = printed
      BY <1>5 DEF Decode, Goes
    <2>2. stage' \in Sending /\ stage' # "session"
      BY <2>1 DEF Sending
    <2>3. printed' \subseteq Shown
      BY <1>3, <2>1 DEF SendingFacts
    <2> QED BY <1>1, <1>3, <2>2, <2>3, SendingGoesOn DEF vars
  <1> QED BY <1>4, <1>5

LEMMA ConnectRuns ==
  ASSUME RunInv, NEW reply \in Answer \cup {NoAnswer}, Connect(reply)
  PROVE  RunInv'
  <1>1. /\ stage = "connect" /\ UNCHANGED <<vars, argv, args, given>>
        /\ answer' = IF <<<<Host>>, Port>> \in HttpClient(ServerUrl) THEN reply ELSE NoAnswer
    BY DEF Connect
  <1>2. stage \in Sending /\ stage # "session"
    BY <1>1 DEF Sending
  <1>3. SendingFacts
    BY <1>2, SendingIs
  <1>4. PICK json : json = answer'
    OBVIOUS
  <1>5. json \in Answer \cup {NoAnswer} /\ json # NotAsked
    <2>1. NoAnswer # NotAsked
      BY DEF NoAnswer, NotAsked
    <2> QED BY <1>1, <1>4, <2>1, PortalAssumption
  <1>6. CASE parse_pubkey(json) = {}
    <2>1. /\ stage' = "done" /\ exit' = 1
          /\ printed' = printed \cup {"ACCESS DENIED"}
      BY <1>4, <1>6 DEF Connect, Denied, Ends
    <2>2. ~SaysKey(json)
      <3>1. CASE json \in Answer
        BY <1>6, <3>1, KeySaid, PortalAssumption
      <3>2. CASE json = NoAnswer
        BY <3>2, NoKey
      <3> QED BY <1>5, <3>1, <3>2
    <2>3. VerdictFor(argv, DeservingIn(argv, given, name, text), json, printed', 1)
      BY <1>3, <1>5, <2>1, <2>2, DeniedFits
    <2> QED BY <1>1, <1>4, <2>1, <2>3, EndRuns
  <1>7. CASE parse_pubkey(json) # {}
    <2>1. stage' = "session" /\ printed' = printed
      BY <1>4, <1>7 DEF Connect, Goes
    <2>2. json # NoAnswer
      BY <1>7, NoKey
    <2>3. json \in Answer /\ <<<<Host>>, Port>> \in HttpClient(ServerUrl)
      BY <1>1, <1>4, <1>5, <2>2
    <2>4. stage' \in Sending
      BY <2>1 DEF Sending
    <2>5. printed' \subseteq Shown
      BY <1>3, <2>1 DEF SendingFacts
    <2> QED BY <1>1, <1>3, <1>4, <2>1, <2>3, <2>4, <2>5, SendingGoesOn DEF vars
  <1> QED BY <1>6, <1>7

LEMMA SessionRuns ==
  ASSUME RunInv, NEW fails \in BOOLEAN, Session(fails)
  PROVE  RunInv'
  <1>1. /\ stage = "session" /\ stage' = "done" /\ UNCHANGED <<vars, argv, args, given>>
        /\ answer' = IF fails THEN NoAnswer ELSE answer
    BY DEF Session, Denied, Ends
  <1>2. stage \in Sending
    BY <1>1 DEF Sending
  <1>3. SendingFacts
    BY <1>2, SendingIs
  <1>4. answer \in Answer /\ <<<<Host>>, Port>> \in HttpClient(ServerUrl)
    BY <1>1 DEF RunInv, Reached
  <1>5. DeservingIn(argv, given, name, text) <=> Accepts(given.name, given.license)
    BY <1>3, <1>4, SendingDeserves
  <1>6. /\ parse_pubkey(answer) = {ServerKey} => CarriesKey(answer)
        /\ SaysKey(answer) => parse_pubkey(answer) = {ServerKey}
    BY <1>4, KeySaid, KeyCarried, PortalAssumption
  <1>7. PICK json : json = answer'
    OBVIOUS
  <1>8. json # NotAsked
    <2>1. NoAnswer # NotAsked
      BY DEF NoAnswer, NotAsked
    <2> QED BY <1>1, <1>4, <1>7, <2>1, PortalAssumption
  <1>9. CASE ~fails /\ parse_pubkey(answer) = {ServerKey}
              /\ Accepts(given.name, given.license)
    <2>1. exit' = 0 /\ printed' = printed \cup {"ACCESS GRANTED"} /\ json = answer
      BY <1>1, <1>7, <1>9 DEF Session, Ends
    <2>2. VerdictFor(argv, DeservingIn(argv, given, name, text), json, printed', 0)
      BY <1>3, <1>5, <1>6, <1>9, <2>1, GrantedFits
    <2> QED BY <1>1, <1>7, <2>1, <2>2, EndRuns
  <1>10. CASE ~(~fails /\ parse_pubkey(answer) = {ServerKey}
                /\ Accepts(given.name, given.license))
    <2>1. exit' = 1 /\ printed' = printed \cup {"ACCESS DENIED"}
      BY <1>10 DEF Session, Denied, Ends
    <2>2. ~(DeservingIn(argv, given, name, text) /\ SaysKey(json))
      <3>1. CASE fails
        BY <1>1, <1>7, <3>1, NoKey
      <3>2. CASE ~fails
        BY <1>1, <1>5, <1>6, <1>7, <1>10, <3>2
      <3> QED BY <3>1, <3>2
    <2>3. VerdictFor(argv, DeservingIn(argv, given, name, text), json, printed', 1)
      BY <1>3, <1>8, <2>1, <2>2, DeniedFits
    <2> QED BY <1>1, <1>7, <2>1, <2>3, EndRuns
  <1> QED BY <1>9, <1>10

LEMMA StutterRuns ==
  ASSUME RunInv, UNCHANGED AppVars
  PROVE  RunInv'
  <1>1. /\ argv' = argv /\ at' = at /\ args' = args /\ stage' = stage /\ given' = given
        /\ answer' = answer /\ printed' = printed /\ exit' = exit
        /\ name' = name /\ text' = text
    BY DEF AppVars, vars, appVars
  <1>2. NameIs' = NameIs /\ LicenseIs' = LicenseIs /\ ServerUrl' = ServerUrl
    BY <1>1 DEF NameIs, LicenseIs, NameFor, LicenseFor, ServerUrl
  <1>3. Idle' /\ Parsing' /\ Parsed'
    BY <1>1 DEF RunInv, Idle, Parsing, Parsed
  <1>4. NameKept' /\ LicenseKept' /\ Reached'
    BY <1>1, <1>2 DEF RunInv, NameKept, LicenseKept, Reached
  <1>5. Judged'
    BY <1>1 DEF RunInv, Judged
  <1> QED BY <1>1, <1>3, <1>4, <1>5 DEF RunInv

\* The exit code and what is printed follow from the command line, what was given,
\* and what the server answered, whatever guards and decoys find and in whatever
\* order the words stand, for every command line, every URL, every answer, every name
\* and every edited license: run_app, parse_args, run_guards, decoy_preflight, the
\* constructor of HttpClient with its stoi, and parse_pubkey.
THEOREM VerdictAlways == AppSpec => []VerdictByInputs
  <1>1. AppInit => RunInv
    BY RunStarts
  <1>2. AppInv /\ RunInv /\ [AppNext]_<<vars, appVars>> => RunInv'
    <2> SUFFICES ASSUME AppTyped, RunInv, [AppNext]_<<vars, appVars>>
                 PROVE  RunInv'
      BY DEF AppInv
    <2>1. CASE Typing
      BY <2>1, TypingRuns
    <2>2. CASE \E words \in Argv : Launch(words)
      BY <2>2, LaunchRuns
    <2>3. CASE ParseSwitch \/ ParseValue
      BY <2>3, ParseRuns
    <2>4. CASE ParseThrows \/ ParseEnds
      BY <2>4, ThrowRuns, ParseEndRuns
    <2>5. CASE InitCrypto \/ \E memory \in Image, watched \in BOOLEAN :
                 RunGuards(memory, watched)
      BY <2>5, EarlyRuns
    <2>6. CASE GetName \/ GetLicense
      BY <2>6, NameRuns, LicenseRuns
    <2>7. CASE Preflight \/ Decode
      BY <2>7, PreflightRuns, DecodeRuns
    <2>8. CASE \E reply \in Answer \cup {NoAnswer} : Connect(reply)
      BY <2>8, ConnectRuns
    <2>9. CASE \E fails \in BOOLEAN : Session(fails)
      BY <2>9, SessionRuns
    <2>10. CASE UNCHANGED <<vars, appVars>>
      BY <2>10, StutterRuns DEF AppVars
    <2> QED BY <2>1, <2>2, <2>3, <2>4, <2>5, <2>6, <2>7, <2>8, <2>9, <2>10
            DEF AppNext, Running
  <1>3. RunInv => VerdictByInputs
    BY VerdictIs DEF RunInv, Judged
  <1> QED BY <1>1, <1>2, <1>3, AppInvariant, PTL DEF AppSpec
=============================================================================
