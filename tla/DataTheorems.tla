---------------------------- MODULE DataTheorems ----------------------------
(***************************************************************************)
(* Facts about numbers and sequences that the proofs about the data of     *)
(* RankGate need: induction over the naturals for sets, and division.      *)
(***************************************************************************)
EXTENDS Integers, SequencesExt, SequenceTheorems, WellFoundedInduction, TLAPS

\* A set of naturals that is not empty has a least element.
LEMMA NatMin ==
  ASSUME NEW T, T \subseteq Nat, T # {}
  PROVE  \E x \in T : \A y \in T : x <= y
  <1> DEFINE R == {ss \in Nat \X Nat : ss[1] < ss[2]}
  <1>1. IsWellFoundedOn(R, Nat)
    BY NatLessThanWellFounded DEF OpToRel
  <1>2. PICK x \in T : \A y \in T : ~ (<<y, x>> \in R)
    <2> HIDE DEF R
    <2> QED BY <1>1, WFMin
  <1>3. ASSUME NEW y \in T PROVE x <= y
    <2>1. <<y, x>> \in Nat \X Nat
      OBVIOUS
    <2>2. ~ (y < x)
      BY <1>2, <2>1
    <2> QED BY <2>2
  <1> QED BY <1>3

\* A set of naturals that is not empty and has a bound has a greatest element.
LEMMA NatMax ==
  ASSUME NEW n \in Nat, NEW T, T \subseteq 1 .. n, T # {}
  PROVE  \E x \in T : \A y \in T : y <= x
  <1> DEFINE U == {n - x : x \in T}
  <1>1. U \subseteq Nat /\ U # {}
    <2>1. ASSUME NEW x \in T PROVE n - x \in Nat
      <3>1. x \in 1 .. n
        OBVIOUS
      <3> QED BY <3>1
    <2> QED BY <2>1
  <1>2. PICK u \in U : \A v \in U : u <= v
    <2> HIDE DEF U
    <2> QED BY <1>1, NatMin
  <1>3. PICK x \in T : u = n - x
    OBVIOUS
  <1>4. ASSUME NEW y \in T PROVE y <= x
    <2>1. n - y \in U
      OBVIOUS
    <2>2. n - x <= n - y
      BY <1>2, <1>3, <2>1
    <2> QED BY <2>2
  <1> QED BY <1>4

\* Induction: a set with 0 in it and, with a natural, its successor has them all.
LEMMA SetInduction ==
  ASSUME NEW T, 0 \in T, \A n \in T \cap Nat : n + 1 \in T
  PROVE  Nat \subseteq T
  <1>1. SUFFICES ASSUME Nat \ T # {} PROVE FALSE
    OBVIOUS
  <1>2. PICK x \in Nat \ T : \A y \in Nat \ T : x <= y
    BY <1>1, NatMin
  <1>3. x # 0 /\ x - 1 \in Nat /\ x - 1 \in T
    BY <1>2
  <1>4. (x - 1) + 1 \in T
    BY <1>3
  <1> QED BY <1>2, <1>4
-----------------------------------------------------------------------------
\* Division with remainder.
LEMMA DivMod ==
  ASSUME NEW w \in Nat \ {0}, NEW a \in Nat
  PROVE  a \div w \in Nat /\ a % w \in 0 .. w - 1 /\ a = (a \div w) * w + (a % w)
  OBVIOUS

\* Quotient and remainder are unique.
LEMMA DivModUnique ==
  ASSUME NEW w \in Nat \ {0}, NEW q \in Nat, NEW r \in 0 .. w - 1
  PROVE  (q * w + r) \div w = q /\ (q * w + r) % w = r
  <1> DEFINE a == q * w + r
  <1>0. a \in Nat /\ a = q * w + r
    OBVIOUS
  <1> DEFINE p == a \div w
  <1> DEFINE s == a % w
  <1>1. p \in Nat /\ s \in 0 .. w - 1 /\ a = w * p + s
    BY <1>0
  <1> HIDE DEF a, p, s
  <1>2. CASE p < q
    <2>1. q * w >= (p + 1) * w
      BY <1>1, <1>2
    <2> QED BY <2>1, <1>0, <1>1
  <1>3. CASE p > q
    <2>1. p * w >= (q + 1) * w
      BY <1>1, <1>3
    <2> QED BY <2>1, <1>0, <1>1
  <1>4. CASE p = q
    BY <1>4, <1>0, <1>1 DEF p, s
  <1> QED BY <1>1, <1>2, <1>3, <1>4
-----------------------------------------------------------------------------
\* A function on 1 .. n is a sequence of n elements.
LEMMA IsSeq ==
  ASSUME NEW n \in Nat, NEW f, f = [i \in 1 .. n |-> f[i]]
  PROVE  f \in Seq({f[i] : i \in 1 .. n}) /\ Len(f) = n
  OBVIOUS

\* Append, as a function.
LEMMA AppendFunction ==
  ASSUME NEW n \in Nat, NEW f, f = [i \in 1 .. n |-> f[i]], NEW x
  PROVE  Append(f, x) = [i \in 1 .. n + 1 |-> IF i = n + 1 THEN x ELSE f[i]]
  <1> DEFINE S == {f[i] : i \in 1 .. n} \cup {x}
  <1>1. f \in Seq(S) /\ Len(f) = n
    OBVIOUS
  <1> HIDE DEF S
  <1> QED BY <1>1, AppendProperties

\* Concatenation, as a function.
LEMMA ConcatFunction ==
  ASSUME NEW n \in Nat, NEW f, f = [i \in 1 .. n |-> f[i]],
         NEW k \in Nat, NEW g, g = [i \in 1 .. k |-> g[i]]
  PROVE  f \o g = [i \in 1 .. n + k |-> IF i <= n THEN f[i] ELSE g[i - n]]
  <1> DEFINE S == {f[i] : i \in 1 .. n} \cup {g[i] : i \in 1 .. k}
  <1>1. f \in Seq(S) /\ Len(f) = n
    OBVIOUS
  <1>2. g \in Seq(S) /\ Len(g) = k
    OBVIOUS
  <1> HIDE DEF S
  <1> QED BY <1>1, <1>2, ConcatProperties

\* An element of the second of two sequences, in their concatenation.
LEMMA ConcatAt ==
  ASSUME NEW S, NEW k \in Seq(S), NEW d \in Seq(S), NEW i \in 1 .. Len(d)
  PROVE  (k \o d)[Len(k) + i] = d[i]
  <1>1. PICK l \in Nat, m \in Nat : l = Len(k) /\ m = Len(d)
    OBVIOUS
  <1>2. /\ Len(k \o d) = l + m
        /\ \A j \in 1 .. l + m : (k \o d)[j] = IF j <= l THEN k[j] ELSE d[j - l]
    BY <1>1, ConcatProperties
  <1>3. l + i \in 1 .. l + m /\ ~ (l + i <= l) /\ (l + i) - l = i
    BY <1>1
  <1> QED BY <1>1, <1>2, <1>3

\* The elements from the a-th to the b-th.
Slice(f, a, b) == [i \in 1 .. b - a + 1 |-> f[a + i - 1]]

\* A subsequence within the sequence is a slice of the function.
LEMMA SubSeqFunction ==
  ASSUME NEW n \in Nat, NEW f, f = [i \in 1 .. n |-> f[i]],
         NEW a \in Nat, NEW b \in Nat, a >= 1, b <= n, a <= b + 1
  PROVE  SubSeq(f, a, b) = Slice(f, a, b)
  <1> DEFINE S == {f[i] : i \in 1 .. n}
  <1>1. f \in Seq(S) /\ Len(f) = n
    OBVIOUS
  <1> HIDE DEF S
  <1> QED BY <1>1, SubSeqProperties DEF Slice

\* The same of a sequence.
LEMMA SubSeqSlice ==
  ASSUME NEW S, NEW f \in Seq(S),
         NEW a \in Nat, NEW b \in Nat, a >= 1, b <= Len(f), a <= b + 1
  PROVE  SubSeq(f, a, b) = Slice(f, a, b)
  BY SubSeqProperties DEF Slice

\* A sequence is a function on 1 .. Len.
LEMMA SeqIs ==
  ASSUME NEW S, NEW f \in Seq(S)
  PROVE  Len(f) \in Nat /\ f = [i \in 1 .. Len(f) |-> f[i]]
  OBVIOUS

\* g is the first n steps from a.
Runs(A, a, step, n, g) ==
  /\ g \in [0 .. n -> A]
  /\ g[0] = a
  /\ \A k \in 0 .. n - 1 : g[k + 1] = step[<<g[k], k>>]

\* A run of n steps is a prefix of the run of n + 1.
LEMMA RunsAgree ==
  ASSUME NEW A, NEW a, NEW step, NEW n \in Nat, NEW g, NEW h,
         Runs(A, a, step, n, g), Runs(A, a, step, n + 1, h)
  PROVE  g[n] = h[n]
  <1> DEFINE U == {k \in Nat : k <= n => g[k] = h[k]}
  <1>1. 0 \in U
    BY DEF Runs
  <1>2. ASSUME NEW k \in U PROVE k + 1 \in U
    <2>1. SUFFICES ASSUME k + 1 <= n PROVE g[k + 1] = h[k + 1]
      OBVIOUS
    <2>2. g[k] = h[k] /\ k \in 0 .. n - 1 /\ k \in 0 .. (n + 1) - 1
      BY <2>1
    <2>3. g[k + 1] = step[<<g[k], k>>]
      BY <2>2 DEF Runs
    <2>4. h[k + 1] = step[<<h[k], k>>]
      BY <2>2 DEF Runs
    <2> QED BY <2>2, <2>3, <2>4
  <1>3. Nat \subseteq U
    <2> HIDE DEF U
    <2> QED BY <1>1, <1>2, SetInduction
  <1> QED BY <1>3

\* A run can go one step on.
LEMMA RunExtends ==
  ASSUME NEW A, NEW a, NEW step \in [A \X Nat -> A], NEW n \in Nat, NEW g,
         Runs(A, a, step, n, g)
  PROVE  Runs(A, a, step, n + 1,
              [k \in 0 .. n + 1 |-> IF k = n + 1 THEN step[<<g[n], n>>] ELSE g[k]])
  <1> DEFINE h == [k \in 0 .. n + 1 |-> IF k = n + 1 THEN step[<<g[n], n>>] ELSE g[k]]
  <1>1. h \in [0 .. n + 1 -> A] /\ h[0] = a
    BY DEF Runs
  <1>2. ASSUME NEW k \in 0 .. (n + 1) - 1 PROVE h[k + 1] = step[<<h[k], k>>]
    <2>1. h[k] = g[k]
      OBVIOUS
    <2>2. CASE k = n
      <3>1. h[k + 1] = step[<<g[n], n>>]
        BY <2>2
      <3> HIDE DEF h
      <3> QED BY <2>1, <2>2, <3>1
    <2>3. CASE k # n
      <3>1. k \in 0 .. n - 1 /\ h[k + 1] = g[k + 1]
        BY <2>3
      <3>2. g[k + 1] = step[<<g[k], k>>]
        BY <3>1 DEF Runs
      <3> HIDE DEF h
      <3> QED BY <2>1, <3>1, <3>2
    <2> QED BY <2>2, <2>3
  <1> HIDE DEF h
  <1>3. Runs(A, a, step, n + 1, h)
    BY <1>1, <1>2 DEF Runs
  <1> QED BY <1>3 DEF h

\* f begins with a and goes on by step.
Follows(f, A, a, step) ==
  /\ f \in [Nat -> A]
  /\ f[0] = a
  /\ \A n \in Nat : f[n + 1] = step[<<f[n], n>>]

\* A function on the naturals can be defined by its first value and a step.
LEMMA Recursion ==
  ASSUME NEW A, NEW a \in A, NEW step \in [A \X Nat -> A]
  PROVE  \E f : Follows(f, A, a, step)
  <1> DEFINE T == {n \in Nat : \E g : Runs(A, a, step, n, g)}
  <1>1. 0 \in T
    <2>1. Runs(A, a, step, 0, [k \in 0 .. 0 |-> a])
      BY DEF Runs
    <2> QED BY <2>1
  <1>2. ASSUME NEW n \in T PROVE n + 1 \in T
    <2>1. PICK g : Runs(A, a, step, n, g)
      OBVIOUS
    <2>2. \E h : Runs(A, a, step, n + 1, h)
      BY <2>1, RunExtends
    <2> QED BY <2>2
  <1>3. Nat \subseteq T
    <2> HIDE DEF T
    <2> QED BY <1>1, <1>2, SetInduction
  <1> DEFINE G(n) == CHOOSE g : Runs(A, a, step, n, g)
  <1>4. ASSUME NEW n \in Nat PROVE Runs(A, a, step, n, G(n))
    BY <1>3
  <1> HIDE DEF G
  <1>5. ASSUME NEW n \in Nat PROVE G(n + 1)[n] = G(n)[n]
    <2>1. Runs(A, a, step, n, G(n)) /\ Runs(A, a, step, n + 1, G(n + 1))
      BY <1>4
    <2> QED BY <2>1, RunsAgree
  <1> DEFINE f == [n \in Nat |-> G(n)[n]]
  <1>6. f \in [Nat -> A]
    <2>1. ASSUME NEW n \in Nat PROVE G(n)[n] \in A
      <3>1. G(n) \in [0 .. n -> A]
        BY <1>4 DEF Runs
      <3> QED BY <3>1
    <2> QED BY <2>1
  <1>7. f[0] = a
    BY <1>4 DEF Runs
  <1>8. ASSUME NEW n \in Nat PROVE f[n + 1] = step[<<f[n], n>>]
    <2>1. G(n + 1)[n + 1] = step[<<G(n + 1)[n], n>>]
      <3>1. Runs(A, a, step, n + 1, G(n + 1)) /\ n \in 0 .. (n + 1) - 1
        BY <1>4
      <3> QED BY <3>1 DEF Runs
    <2>2. f[n + 1] = G(n + 1)[n + 1] /\ f[n] = G(n)[n]
      OBVIOUS
    <2> HIDE DEF f
    <2> QED BY <2>1, <2>2, <1>5
  <1> HIDE DEF f
  <1>9. Follows(f, A, a, step)
    BY <1>6, <1>7, <1>8 DEF Follows
  <1> QED BY <1>9

\* The values of a loop over 1 .. n that starts with a.
Loops(g, A, a, step, n) ==
  /\ g \in [0 .. n -> A]
  /\ g[0] = a
  /\ \A i \in 1 .. n : g[i] = step[<<g[i - 1], i>>]

\* Every loop has its values.
LEMMA LoopExists ==
  ASSUME NEW A, NEW a \in A, NEW step \in [A \X Nat -> A], NEW n \in Nat
  PROVE  \E g : Loops(g, A, a, step, n)
  <1> DEFINE later == [z \in A \X Nat |-> step[<<z[1], z[2] + 1>>]]
  <1>1. later \in [A \X Nat -> A]
    OBVIOUS
  <1>2. PICK f : Follows(f, A, a, later)
    <2> HIDE DEF later
    <2> QED BY <1>1, Recursion
  <1> DEFINE g == [i \in 0 .. n |-> f[i]]
  <1>3. ASSUME NEW i \in 1 .. n PROVE g[i] = step[<<g[i - 1], i>>]
    <2>1. PICK k \in Nat : k + 1 = i
      <3>1. i - 1 \in Nat /\ (i - 1) + 1 = i
        OBVIOUS
      <3> QED BY <3>1
    <2>2. f[k + 1] = later[<<f[k], k>>] /\ f[k] \in A
      BY <1>2 DEF Follows
    <2>3. later[<<f[k], k>>] = step[<<f[k], k + 1>>]
      BY <2>2
    <2>4. g[i] = f[i] /\ g[i - 1] = f[k] /\ i - 1 = k
      BY <2>1
    <2> HIDE DEF g, later
    <2> QED BY <2>1, <2>2, <2>3, <2>4
  <1>4. g \in [0 .. n -> A] /\ g[0] = a
    BY <1>2 DEF Follows
  <1> HIDE DEF g
  <1>5. Loops(g, A, a, step, n)
    BY <1>3, <1>4 DEF Loops
  <1> QED BY <1>5
-----------------------------------------------------------------------------
\* The first i of the blocks of L elements each, put together.
Joined(seqs, L, i) ==
  [j \in 1 .. i * L |-> seqs[((j - 1) \div L) + 1][((j - 1) % L) + 1]]

\* Blocks of one length and one more.
LEMMA ConcatBlocks ==
  ASSUME NEW L \in Nat \ {0}, NEW i \in Nat, NEW seqs,
         seqs[i + 1] = [k \in 1 .. L |-> seqs[i + 1][k]]
  PROVE  Joined(seqs, L, i) \o seqs[i + 1] = Joined(seqs, L, i + 1)
  <1> DEFINE e(j) == seqs[((j - 1) \div L) + 1][((j - 1) % L) + 1]
  <1> DEFINE f == [j \in 1 .. i * L |-> e(j)]
  <1>1. i * L \in Nat /\ (i + 1) * L = i * L + L
    OBVIOUS
  <1>2. ASSUME NEW j \in 1 .. L PROVE e(i * L + j) = seqs[i + 1][j]
    <2>1. (i * L + j) - 1 = i * L + (j - 1) /\ j - 1 \in 0 .. L - 1
      BY <1>1
    <2>2. ((i * L + j) - 1) \div L = i /\ ((i * L + j) - 1) % L = j - 1
      BY <2>1, DivModUnique
    <2> QED BY <2>2
  <1> HIDE DEF e
  <1>3. f = [j \in 1 .. i * L |-> f[j]]
    OBVIOUS
  <1>4. f \o seqs[i + 1] =
          [j \in 1 .. i * L + L |-> IF j <= i * L THEN f[j] ELSE seqs[i + 1][j - i * L]]
    <2> HIDE DEF f
    <2>0. PICK n \in Nat : n = i * L
      BY <1>1
    <2>1. PICK g, h : g = f /\ h = seqs[i + 1]
      OBVIOUS
    <2>2. g = [j \in 1 .. n |-> g[j]]
      BY <1>3, <2>0, <2>1
    <2>3. h = [j \in 1 .. L |-> h[j]]
      BY <2>1
    <2>4. g \o h = [j \in 1 .. n + L |-> IF j <= n THEN g[j] ELSE h[j - n]]
      BY <2>2, <2>3, ConcatFunction
    <2> QED BY <2>0, <2>1, <2>4
  <1>5. ASSUME NEW j \in 1 .. i * L + L
        PROVE  (IF j <= i * L THEN f[j] ELSE seqs[i + 1][j - i * L]) = e(j)
    <2>1. CASE j <= i * L
      BY <2>1, <1>1
    <2>2. CASE j > i * L
      <3> DEFINE m == i * L
      <3>0. m \in Nat /\ j \in 1 .. m + L /\ j > m
        BY <1>1, <2>2
      <3> HIDE DEF m
      <3>2. j - m \in 1 .. L /\ m + (j - m) = j
        BY <3>0
      <3>1. j - i * L \in 1 .. L /\ i * L + (j - i * L) = j
        BY <3>2 DEF m
      <3> QED BY <3>1, <2>2, <1>2
    <2> QED BY <2>1, <2>2, <1>1
  <1>6. f \o seqs[i + 1] = [j \in 1 .. (i + 1) * L |-> e(j)]
    BY <1>1, <1>4, <1>5
  <1> QED BY <1>6 DEF e, Joined

\* FlattenSeq of blocks of one length puts each byte where division says.
LEMMA FlattenBlocks ==
  ASSUME NEW L \in Nat \ {0}, NEW n \in Nat, NEW seqs,
         seqs = [i \in 1 .. n |-> seqs[i]],
         \A i \in 1 .. n : seqs[i] = [k \in 1 .. L |-> seqs[i][k]]
  PROVE  FlattenSeq(seqs) = Joined(seqs, L, n)
  <1> DEFINE closed(i) == Joined(seqs, L, i)
  <1> DEFINE flat == [i \in 1 .. n |-> closed(i)]
  <1>1. Len(seqs) = n
    OBVIOUS
  <1>2. ASSUME NEW i \in 1 .. n PROVE closed(i) = IF i = 1 THEN seqs[i] ELSE closed(i - 1) \o seqs[i]
    <2>1. i - 1 \in Nat /\ (i - 1) + 1 = i
      OBVIOUS
    <2>2. closed(i - 1) \o seqs[i] = closed(i)
      <3>0. PICK h \in Nat : h = i - 1
        BY <2>1
      <3>1. seqs[h + 1] = [k \in 1 .. L |-> seqs[h + 1][k]]
        BY <2>1, <3>0
      <3>2. closed(h) \o seqs[h + 1] = closed(h + 1)
        BY <3>1, ConcatBlocks
      <3>3. h + 1 = i
        BY <3>0
      <3> HIDE DEF closed
      <3> QED BY <3>0, <3>2, <3>3
    <2>3. CASE i = 1
      <3>1. closed(0) = <<>>
        BY DEF Joined
      <3>2. closed(1) = <<>> \o seqs[1]
        <4>1. i - 1 = 0
          BY <2>3
        <4> HIDE DEF closed
        <4> QED BY <2>2, <2>3, <3>1, <4>1
      <3>3. seqs[1] \in Seq({seqs[1][k] : k \in 1 .. L})
        <4>1. seqs[1] = [k \in 1 .. L |-> seqs[1][k]]
          BY <2>3
        <4> QED BY <4>1, IsSeq
      <3>4. <<>> \o seqs[1] = seqs[1]
        BY <3>3, ConcatEmptySeq
      <3> QED BY <2>3, <3>2, <3>4
    <2> HIDE DEF closed
    <2> QED BY <2>2, <2>3
  <1> HIDE DEF closed
  <1>3. CASE n = 0
    <2>1. FlattenSeq(seqs) = seqs
      BY <1>1, <1>3 DEF FlattenSeq
    <2>2. seqs = Joined(seqs, L, n)
      BY <1>3 DEF Joined
    <2> QED BY <2>1, <2>2
  <1>4. CASE n # 0
    <2> DEFINE eq(g) == g = [i \in 1 .. n |-> IF i = 1 THEN seqs[i] ELSE g[i - 1] \o seqs[i]]
               g == CHOOSE g : eq(g)
    <2>1. eq(flat)
      BY <1>2
    <2>2. eq(g)
      BY <2>1
    <2> HIDE DEF g
    <2> DEFINE T == {i \in Nat : i \in 1 .. n => g[i] = closed(i)}
    <2>3. 0 \in T
      OBVIOUS
    <2>4. ASSUME NEW i \in T PROVE i + 1 \in T
      <3>1. SUFFICES ASSUME i + 1 \in 1 .. n PROVE g[i + 1] = closed(i + 1)
        OBVIOUS
      <3>2. g[i + 1] = IF i + 1 = 1 THEN seqs[i + 1] ELSE g[(i + 1) - 1] \o seqs[i + 1]
        BY <2>2, <3>1
      <3>3. i + 1 # 1 => g[(i + 1) - 1] = closed((i + 1) - 1)
        BY <3>1
      <3> QED BY <3>1, <3>2, <3>3, <1>2
    <2>5. Nat \subseteq T
      <3> HIDE DEF T
      <3> QED BY <2>3, <2>4, SetInduction
    <2>6. g[n] = closed(n)
      BY <2>5, <1>4
    <2>7. FlattenSeq(seqs) = g[n]
      BY <1>1, <1>4 DEF FlattenSeq, g
    <2> QED BY <2>6, <2>7 DEF closed
  <1> QED BY <1>3, <1>4
-----------------------------------------------------------------------------
\* Induction over sequences: a set with <<>> in it that is closed under Append
\* has every sequence.
LEMMA SeqInduction ==
  ASSUME NEW S, NEW T, <<>> \in T,
         \A s \in Seq(S), x \in S : s \in T => Append(s, x) \in T
  PROVE  Seq(S) \subseteq T
  <1> DEFINE Good == {n \in Nat : \A s \in Seq(S) : Len(s) = n => s \in T}
  <1>1. 0 \in Good
    <2>1. ASSUME NEW s \in Seq(S), Len(s) = 0 PROVE s \in T
      <3>1. s = <<>>
        BY <2>1, EmptySeq
      <3> QED BY <3>1
    <2> QED BY <2>1
  <1>2. ASSUME NEW n \in Good PROVE n + 1 \in Good
    <2>1. ASSUME NEW s \in Seq(S), Len(s) = n + 1 PROVE s \in T
      <3>1. PICK f \in Seq(S), x \in S : s = Append(f, x)
        <4>1. s # <<>>
          BY <2>1, EmptySeq
        <4> QED BY <4>1, SequenceEmptyOrAppend
      <3>2. Len(s) = Len(f) + 1 /\ Len(f) \in Nat
        BY <3>1, AppendProperties
      <3>3. Len(f) = n
        BY <2>1, <3>2
      <3> QED BY <3>1, <3>3
    <2> QED BY <2>1
  <1>3. Nat \subseteq Good
    <2> HIDE DEF Good
    <2> QED BY <1>1, <1>2, SetInduction
  <1> QED
    <2>1. ASSUME NEW s \in Seq(S) PROVE s \in T
      <3>1. Len(s) \in Good
        BY <1>3
      <3> QED BY <3>1
    <2> QED BY <2>1

\* step takes a value of A and an element of B to a value of A.
StepOn(step, A, B) == step \in [A \X B -> A]

\* f is the loop over the elements of s that starts with a.
LoopOver(f, a, step, s) ==
  f = [i \in 0 .. Len(s) |-> IF i = 0 THEN a ELSE step[<<f[i - 1], s[i]>>]]

LEMMA LoopOverExists ==
  ASSUME NEW A, NEW B, NEW a \in A, NEW step, StepOn(step, A, B), NEW s \in Seq(B)
  PROVE  \E f : LoopOver(f, a, step, s)
  <1>1. PICK n \in Nat : n = Len(s)
    OBVIOUS
  <1> DEFINE at == [z \in A \X Nat |-> IF z[2] \in 1 .. n THEN step[<<z[1], s[z[2]]>>] ELSE a]
  <1>2. at \in [A \X Nat -> A]
    <2>1. ASSUME NEW z \in A \X Nat, z[2] \in 1 .. n PROVE step[<<z[1], s[z[2]]>>] \in A
      <3>1. s[z[2]] \in B
        BY <1>1, <2>1
      <3> QED BY <3>1 DEF StepOn
    <2> QED BY <2>1
  <1>3. PICK g : Loops(g, A, a, at, n)
    <2> HIDE DEF at
    <2> QED BY <1>2, LoopExists
  <1>4. g \in [0 .. n -> A] /\ g[0] = a /\ \A i \in 1 .. n : g[i] = at[<<g[i - 1], i>>]
    BY <1>3 DEF Loops
  <1>5. ASSUME NEW i \in 1 .. n PROVE g[i] = step[<<g[i - 1], s[i]>>]
    <2>1. i - 1 \in 0 .. n
      OBVIOUS
    <2>2. g[i - 1] \in A
      BY <1>4, <2>1
    <2>3. at[<<g[i - 1], i>>] = step[<<g[i - 1], s[i]>>]
      BY <2>2
    <2> HIDE DEF at
    <2> QED BY <1>4, <2>3
  <1>6. g = [i \in 0 .. n |-> IF i = 0 THEN a ELSE step[<<g[i - 1], s[i]>>]]
    <2>1. g = [i \in 0 .. n |-> g[i]]
      BY <1>4
    <2>2. ASSUME NEW i \in 0 .. n
          PROVE  g[i] = IF i = 0 THEN a ELSE step[<<g[i - 1], s[i]>>]
      <3>1. i = 0 \/ i \in 1 .. n
        OBVIOUS
      <3> HIDE DEF at
      <3> QED BY <1>4, <1>5, <3>1
    <2> HIDE DEF at
    <2> QED BY <2>1, <2>2
  <1> QED BY <1>1, <1>6 DEF LoopOver

LEMMA LoopOverAt ==
  ASSUME NEW A, NEW B, NEW a \in A, NEW step, StepOn(step, A, B), NEW s \in Seq(B),
         NEW f, LoopOver(f, a, step, s)
  PROVE  /\ f[0] = a
         /\ \A i \in 1 .. Len(s) : f[i] = step[<<f[i - 1], s[i]>>] /\ f[i - 1] \in A
         /\ \A i \in 0 .. Len(s) : f[i] \in A
  <1>1. PICK n \in Nat : n = Len(s)
    OBVIOUS
  <1>2. f = [i \in 0 .. n |-> IF i = 0 THEN a ELSE step[<<f[i - 1], s[i]>>]]
    BY <1>1 DEF LoopOver
  <1>3. f[0] = a /\ \A i \in 1 .. n : f[i] = step[<<f[i - 1], s[i]>>]
    BY <1>2
  <1> DEFINE Good == {i \in Nat : i <= n => f[i] \in A}
  <1>4. 0 \in Good
    BY <1>3
  <1>5. ASSUME NEW i \in Good PROVE i + 1 \in Good
    <2>1. SUFFICES ASSUME i + 1 <= n PROVE f[i + 1] \in A
      OBVIOUS
    <2>2. i + 1 \in 1 .. n /\ (i + 1) - 1 = i
      BY <2>1
    <2>3. f[i] \in A /\ s[i + 1] \in B
      BY <1>1, <2>2
    <2>4. f[i + 1] = step[<<f[i], s[i + 1]>>]
      BY <1>3, <2>2
    <2> QED BY <2>3, <2>4 DEF StepOn
  <1>6. Nat \subseteq Good
    <2> HIDE DEF Good
    <2> QED BY <1>4, <1>5, SetInduction
  <1>7. \A i \in 0 .. n : f[i] \in A
    BY <1>6
  <1>8. \A i \in 1 .. n : i - 1 \in 0 .. n
    OBVIOUS
  <1> HIDE DEF Good
  <1> QED BY <1>1, <1>3, <1>7, <1>8

\* The value a loop over s ends with.
Folded(a, step, s) == (CHOOSE f : LoopOver(f, a, step, s))[Len(s)]

\* A loop over s and a loop over s and one more.
LEMMA LoopsAgree ==
  ASSUME NEW A, NEW B, NEW a \in A, NEW step, StepOn(step, A, B),
         NEW s \in Seq(B), NEW t \in Seq(B), NEW f, NEW g,
         LoopOver(f, a, step, s), LoopOver(g, a, step, t),
         Len(s) <= Len(t), \A i \in 1 .. Len(s) : s[i] = t[i]
  PROVE  g[Len(s)] = f[Len(s)]
  <1>1. PICK n \in Nat, m \in Nat : n = Len(s) /\ m = Len(t)
    OBVIOUS
  <1>2. f[0] = a /\ \A i \in 1 .. n : f[i] = step[<<f[i - 1], s[i]>>]
    BY <1>1, LoopOverAt
  <1>3. g[0] = a /\ \A i \in 1 .. m : g[i] = step[<<g[i - 1], t[i]>>]
    BY <1>1, LoopOverAt
  <1> DEFINE Good == {i \in Nat : i <= n => f[i] = g[i]}
  <1>4. 0 \in Good
    BY <1>2, <1>3
  <1>5. ASSUME NEW i \in Good PROVE i + 1 \in Good
    <2>1. SUFFICES ASSUME i + 1 <= n PROVE f[i + 1] = g[i + 1]
      OBVIOUS
    <2>2. i + 1 \in 1 .. n /\ i + 1 \in 1 .. m /\ (i + 1) - 1 = i /\ f[i] = g[i]
      BY <1>1, <2>1
    <2>3. s[i + 1] = t[i + 1]
      BY <1>1, <2>2
    <2> QED BY <1>2, <1>3, <2>2, <2>3
  <1>6. Nat \subseteq Good
    <2> HIDE DEF Good
    <2> QED BY <1>4, <1>5, SetInduction
  <1> QED BY <1>1, <1>6

LEMMA FoldedIs ==
  ASSUME NEW A, NEW B, NEW a \in A, NEW step, StepOn(step, A, B), NEW s \in Seq(B),
         NEW f, LoopOver(f, a, step, s)
  PROVE  Folded(a, step, s) = f[Len(s)]
  <1>1. PICK g : g = CHOOSE h : LoopOver(h, a, step, s)
    OBVIOUS
  <1>2. LoopOver(g, a, step, s)
    BY <1>1
  <1>3. g[Len(s)] = f[Len(s)]
    BY <1>2, LoopsAgree
  <1> QED BY <1>1, <1>3 DEF Folded

LEMMA FoldedNone ==
  ASSUME NEW A, NEW B, NEW a \in A, NEW step, StepOn(step, A, B)
  PROVE  Folded(a, step, <<>>) = a
  <1>1. PICK e \in Seq(B) : e = <<>>
    BY EmptySeq
  <1>2. Len(e) = 0
    BY <1>1
  <1> HIDE <1>1
  <1>3. PICK f : LoopOver(f, a, step, e)
    BY LoopOverExists
  <1>4. f[0] = a
    BY <1>3, LoopOverAt
  <1>5. Folded(a, step, e) = f[Len(e)]
    BY <1>3, FoldedIs
  <1> QED BY <1>1, <1>2, <1>4, <1>5

LEMMA FoldedType ==
  ASSUME NEW A, NEW B, NEW a \in A, NEW step, StepOn(step, A, B), NEW s \in Seq(B)
  PROVE  Folded(a, step, s) \in A
  <1>1. PICK f : LoopOver(f, a, step, s)
    BY LoopOverExists
  <1>2. Len(s) \in 0 .. Len(s)
    OBVIOUS
  <1>3. f[Len(s)] \in A
    BY <1>1, <1>2, LoopOverAt
  <1> QED BY <1>1, <1>3, FoldedIs

LEMMA FoldedAppend ==
  ASSUME NEW A, NEW B, NEW a \in A, NEW step, StepOn(step, A, B),
         NEW s \in Seq(B), NEW x \in B
  PROVE  Folded(a, step, Append(s, x)) = step[<<Folded(a, step, s), x>>]
  <1>1. PICK t \in Seq(B) : t = Append(s, x)
    BY AppendProperties
  <1>2. PICK n \in Nat : n = Len(s)
    OBVIOUS
  <1>3. Len(t) = n + 1 /\ t[n + 1] = x /\ \A i \in 1 .. n : s[i] = t[i]
    BY <1>1, <1>2, AppendProperties
  <1>4. PICK f : LoopOver(f, a, step, s)
    BY LoopOverExists
  <1>5. PICK g : LoopOver(g, a, step, t)
    BY LoopOverExists
  <1>6. g[n] = f[n]
    <2>1. Len(s) <= Len(t)
      BY <1>2, <1>3
    <2> QED BY <1>2, <1>3, <1>4, <1>5, <2>1, LoopsAgree
  <1>7. g[n + 1] = step[<<g[n], x>>]
    <2>1. n + 1 \in 1 .. Len(t) /\ (n + 1) - 1 = n
      BY <1>3
    <2>2. /\ g[0] = a
          /\ \A i \in 1 .. Len(t) : g[i] = step[<<g[i - 1], t[i]>>] /\ g[i - 1] \in A
          /\ \A i \in 0 .. Len(t) : g[i] \in A
      BY <1>5, LoopOverAt
    <2> QED BY <1>3, <2>1, <2>2
  <1>8. Folded(a, step, s) = f[n] /\ Folded(a, step, t) = g[n + 1]
    BY <1>2, <1>3, <1>4, <1>5, FoldedIs
  <1> QED BY <1>1, <1>6, <1>7, <1>8

\* Going on where a first loop ended.
LEMMA FoldedConcat ==
  ASSUME NEW A, NEW B, NEW a \in A, NEW step, StepOn(step, A, B),
         NEW s \in Seq(B), NEW t \in Seq(B)
  PROVE  Folded(a, step, s \o t) = Folded(Folded(a, step, s), step, t)
  <1>0. PICK b \in A : b = Folded(a, step, s)
    BY FoldedType
  <1> DEFINE Good == {u \in Seq(B) : Folded(a, step, s \o u) = Folded(b, step, u)}
  <1>1. <<>> \in Good
    <2>1. s \o <<>> = s /\ <<>> \in Seq(B)
      BY ConcatEmptySeq
    <2> QED BY <1>0, <2>1, FoldedNone
  <1>2. ASSUME NEW u \in Seq(B), NEW x \in B, u \in Good PROVE Append(u, x) \in Good
    <2>1. s \o Append(u, x) = Append(s \o u, x)
      <3>1. Append(u, x) = u \o <<x>> /\ <<x>> \in Seq(B)
        BY AppendIsConcat
      <3>2. s \o (u \o <<x>>) = (s \o u) \o <<x>>
        BY <3>1, ConcatAssociative
      <3>3. s \o u \in Seq(B)
        BY ConcatProperties
      <3>4. Append(s \o u, x) = (s \o u) \o <<x>>
        BY <3>3, AppendIsConcat
      <3> QED BY <3>1, <3>2, <3>4
    <2>2. s \o u \in Seq(B)
      BY ConcatProperties
    <2>3. Folded(a, step, Append(s \o u, x)) = step[<<Folded(a, step, s \o u), x>>]
      <3>1. PICK w \in Seq(B) : w = s \o u
        BY <2>2
      <3>2. Folded(a, step, Append(w, x)) = step[<<Folded(a, step, w), x>>]
        BY FoldedAppend
      <3> QED BY <3>1, <3>2
    <2>4. Folded(b, step, Append(u, x)) = step[<<Folded(b, step, u), x>>]
      BY <1>0, FoldedAppend
    <2>5. Append(u, x) \in Seq(B)
      BY AppendProperties
    <2> QED BY <1>2, <2>1, <2>3, <2>4, <2>5
  <1>3. Seq(B) \subseteq Good
    <2> HIDE DEF Good
    <2> QED BY <1>1, <1>2, SeqInduction
  <1> QED BY <1>0, <1>3
-----------------------------------------------------------------------------
\* n sequences over S.
SeqsOf(seqs, S, n) == seqs \in [1 .. n -> Seq(S)]

\* out is the loop that puts sequences together, one after the other.
Concats(out, seqs, n) ==
  out = [k \in 0 .. n |-> IF k = 0 THEN <<>> ELSE out[k - 1] \o seqs[k]]

LEMMA ConcatsAt ==
  ASSUME NEW S, NEW n \in Nat, NEW seqs, SeqsOf(seqs, S, n), NEW out, Concats(out, seqs, n)
  PROVE  /\ out[0] = <<>>
         /\ \A k \in 1 .. n : out[k] = out[k - 1] \o seqs[k]
         /\ \A k \in 0 .. n : out[k] \in Seq(S)
  <1>0. out = [k \in 0 .. n |-> IF k = 0 THEN <<>> ELSE out[k - 1] \o seqs[k]]
    BY DEF Concats
  <1>1. out[0] = <<>> /\ \A k \in 1 .. n : out[k] = out[k - 1] \o seqs[k]
    <2>1. out[0] = <<>>
      BY <1>0
    <2>2. ASSUME NEW k \in 1 .. n PROVE out[k] = out[k - 1] \o seqs[k]
      BY <1>0
    <2> QED BY <2>1, <2>2
  <1> DEFINE Good == {k \in Nat : k <= n => out[k] \in Seq(S)}
  <1>2. 0 \in Good
    BY <1>1, EmptySeq
  <1>3. ASSUME NEW k \in Good PROVE k + 1 \in Good
    <2>1. SUFFICES ASSUME k + 1 <= n PROVE out[k + 1] \in Seq(S)
      OBVIOUS
    <2>2. PICK j \in 1 .. n : j = k + 1 /\ j - 1 = k
      BY <2>1
    <2>3. out[k] \in Seq(S) /\ seqs[j] \in Seq(S)
      BY <2>1, <2>2 DEF SeqsOf
    <2>4. out[j] = out[k] \o seqs[j]
      BY <1>1, <2>2
    <2> QED BY <2>2, <2>3, <2>4, ConcatProperties
  <1>4. Nat \subseteq Good
    <2> HIDE DEF Good
    <2> QED BY <1>2, <1>3, SetInduction
  <1>5. \A k \in 0 .. n : out[k] \in Seq(S)
    BY <1>4
  <1> QED BY <1>1, <1>5

\* t begins with s.
BeginsWith(s, t) ==
  /\ Len(s) \in Nat /\ Len(t) \in Nat /\ Len(s) <= Len(t)
  /\ \A p \in 1 .. Len(s) : t[p] = s[p]

\* What the loop has put together stays in front of what it goes on to.
LEMMA ConcatsGrow ==
  ASSUME NEW S, NEW n \in Nat, NEW seqs, SeqsOf(seqs, S, n), NEW out, Concats(out, seqs, n),
         NEW i \in 0 .. n, NEW j \in 0 .. n, i <= j
  PROVE  BeginsWith(out[i], out[j])
  <1>1. /\ out[0] = <<>>
        /\ \A k \in 1 .. n : out[k] = out[k - 1] \o seqs[k]
        /\ \A k \in 0 .. n : out[k] \in Seq(S)
    BY ConcatsAt, Zenon
  <1>2. PICK s \in Seq(S), l \in Nat : s = out[i] /\ l = Len(s)
    <2>1. out[i] \in Seq(S)
      BY <1>1
    <2>2. Len(out[i]) \in Nat
      BY <2>1
    <2> QED BY <2>1, <2>2
  <1> DEFINE begins(t) == /\ Len(t) \in Nat /\ l <= Len(t)
                         /\ \A p \in 1 .. l : t[p] = s[p]
             Good == {k \in Nat : i + k <= n => begins(out[i + k])}
  <1>3. 0 \in Good
    BY <1>2
  <1>4. ASSUME NEW k \in Good PROVE k + 1 \in Good
    <2>1. SUFFICES ASSUME i + (k + 1) <= n PROVE begins(out[i + (k + 1)])
      OBVIOUS
    <2>2. PICK h \in 0 .. n : h = i + k /\ h + 1 = i + (k + 1) /\ (h + 1) - 1 = h /\ h + 1 \in 1 .. n
      BY <2>1
    <2>3. PICK t \in Seq(S), u \in Seq(S) : t = out[h] /\ u = seqs[h + 1]
      BY <1>1, <2>2 DEF SeqsOf
    <2>4. begins(t)
      BY <2>1, <2>2, <2>3
    <2>5. out[h + 1] = t \o u
      BY <1>1, <2>2, <2>3
    <2>6. PICK a \in Nat, b \in Nat : a = Len(t) /\ b = Len(u)
      OBVIOUS
    <2>7. Len(t \o u) = a + b /\ \A p \in 1 .. a + b : (t \o u)[p] = IF p <= a THEN t[p] ELSE u[p - a]
      BY <2>6, ConcatProperties
    <2>8. begins(t \o u)
      BY <2>4, <2>6, <2>7
    <2> HIDE DEF begins
    <2> QED BY <2>2, <2>5, <2>8
  <1>5. Nat \subseteq Good
    <2> HIDE DEF Good
    <2> QED BY <1>3, <1>4, SetInduction
  <1>6. PICK d \in Nat : i + d = j
    <2>1. j - i \in Nat /\ i + (j - i) = j
      OBVIOUS
    <2> QED BY <2>1
  <1>7. d \in Good
    BY <1>5
  <1>8. begins(out[j])
    BY <1>6, <1>7
  <1> QED BY <1>2, <1>8 DEF BeginsWith

\* FlattenSeq is that loop.
LEMMA FlattenLoop ==
  ASSUME NEW S, NEW n \in Nat, NEW seqs, SeqsOf(seqs, S, n)
  PROVE  \E out : Concats(out, seqs, n) /\ FlattenSeq(seqs) = out[n]
  <1>0. seqs \in [1 .. n -> Seq(S)]
    BY DEF SeqsOf
  <1> DEFINE step == [z \in Seq(S) \X Nat |-> IF z[2] \in 1 .. n THEN z[1] \o seqs[z[2]] ELSE z[1]]
  <1>1. step \in [Seq(S) \X Nat -> Seq(S)]
    <2>1. ASSUME NEW z \in Seq(S) \X Nat, z[2] \in 1 .. n PROVE z[1] \o seqs[z[2]] \in Seq(S)
      <3>1. z[1] \in Seq(S) /\ seqs[z[2]] \in Seq(S)
        BY <1>0, <2>1
      <3> QED BY <3>1, ConcatProperties
    <2> QED BY <2>1
  <1>2. PICK e \in Seq(S) : e = <<>>
    BY EmptySeq
  <1>3. PICK g : Loops(g, Seq(S), e, step, n)
    <2>1. PICK A : A = Seq(S)
      OBVIOUS
    <2>2. e \in A /\ step \in [A \X Nat -> A]
      BY <1>1, <2>1
    <2> HIDE DEF step
    <2>3. \E g : Loops(g, A, e, step, n)
      BY <2>2, LoopExists
    <2> QED BY <2>1, <2>3
  <1>4. g \in [0 .. n -> Seq(S)] /\ g[0] = e /\ \A i \in 1 .. n : g[i] = step[<<g[i - 1], i>>]
    <2> HIDE DEF step
    <2> QED BY <1>3 DEF Loops
  <1>5. ASSUME NEW i \in 1 .. n PROVE g[i] = g[i - 1] \o seqs[i]
    <2>1. i - 1 \in 0 .. n
      OBVIOUS
    <2>2. PICK x \in Seq(S) : x = g[i - 1]
      BY <1>4, <2>1
    <2>4. <<x, i>> \in Seq(S) \X Nat
      OBVIOUS
    <2>5. step[<<x, i>>] = IF <<x, i>>[2] \in 1 .. n THEN <<x, i>>[1] \o seqs[<<x, i>>[2]]
                                                     ELSE <<x, i>>[1]
      BY <2>4
    <2>6. <<x, i>>[1] = x /\ <<x, i>>[2] = i
      OBVIOUS
    <2>3. step[<<x, i>>] = x \o seqs[i]
      <3> HIDE DEF step
      <3> QED BY <2>5, <2>6
    <2> HIDE DEF step
    <2> QED BY <1>4, <2>2, <2>3
  <1>6. g = [k \in 0 .. n |-> IF k = 0 THEN <<>> ELSE g[k - 1] \o seqs[k]]
    <2> HIDE DEF step
    <2>1. g = [k \in 0 .. n |-> g[k]]
      BY <1>4
    <2>2. ASSUME NEW k \in 0 .. n
          PROVE  g[k] = IF k = 0 THEN <<>> ELSE g[k - 1] \o seqs[k]
      <3>1. k = 0 \/ k \in 1 .. n
        OBVIOUS
      <3> QED BY <1>2, <1>4, <1>5, <3>1
    <2> QED BY <2>1, <2>2
  <1>7. Concats(g, seqs, n)
    BY <1>6 DEF Concats
  <1> HIDE DEF step
  <1>8. Len(seqs) = n
    <2>1. seqs = [i \in 1 .. n |-> seqs[i]]
      BY <1>0
    <2> QED BY <2>1, IsSeq
  <1>9. CASE n = 0
    <2>1. FlattenSeq(seqs) = seqs
      BY <1>8, <1>9 DEF FlattenSeq
    <2>2. seqs = <<>>
      BY <1>0, <1>9
    <2> QED BY <1>2, <1>4, <1>7, <1>9, <2>1, <2>2
  <1>10. CASE n # 0
    <2> DEFINE eq(f) == f = [i \in 1 .. n |-> IF i = 1 THEN seqs[i] ELSE f[i - 1] \o seqs[i]]
               f == CHOOSE f : eq(f)
               fits == [i \in 1 .. n |-> g[i]]
    <2>1. \A i \in 1 .. n : fits[i] = IF i = 1 THEN seqs[i] ELSE fits[i - 1] \o seqs[i]
      <3>1. ASSUME NEW i \in 1 .. n, i = 1 PROVE g[i] = seqs[i]
        <4>1. i - 1 = 0 /\ seqs[i] \in Seq(S)
          BY <1>0, <3>1
        <4>2. g[i] = <<>> \o seqs[i]
          BY <1>2, <1>4, <1>5, <4>1
        <4> QED BY <4>1, <4>2, ConcatEmptySeq
      <3>2. ASSUME NEW i \in 1 .. n, i # 1 PROVE fits[i - 1] = g[i - 1]
        <4>1. i - 1 \in 1 .. n
          BY <3>2
        <4> QED BY <4>1
      <3>3. \A i \in 1 .. n : fits[i] = g[i]
        OBVIOUS
      <3> HIDE DEF fits
      <3> QED BY <1>5, <3>1, <3>2, <3>3
    <2>2. eq(fits)
      BY <2>1
    <2>3. eq(f)
      <3> HIDE DEF eq
      <3> QED BY <2>2
    <2> HIDE DEF f, fits
    <2>4. \A i \in 1 .. n : f[i] = IF i = 1 THEN seqs[i] ELSE f[i - 1] \o seqs[i]
      BY <2>3
    <2> DEFINE Same == {i \in Nat : i \in 1 .. n => f[i] = fits[i]}
    <2>5. 0 \in Same
      OBVIOUS
    <2>6. ASSUME NEW i \in Same PROVE i + 1 \in Same
      <3>1. SUFFICES ASSUME i + 1 \in 1 .. n PROVE f[i + 1] = fits[i + 1]
        OBVIOUS
      <3>2. CASE i = 0
        BY <2>1, <2>4, <3>1, <3>2
      <3>3. CASE i # 0
        <4>1. i \in 1 .. n /\ (i + 1) - 1 = i /\ i + 1 # 1
          BY <3>1, <3>3
        <4> QED BY <2>1, <2>4, <3>1, <4>1
      <3> QED BY <3>2, <3>3
    <2>7. Nat \subseteq Same
      <3> HIDE DEF Same
      <3> QED BY <2>5, <2>6, SetInduction
    <2>8. n \in 1 .. n /\ f[n] = fits[n]
      BY <1>10, <2>7
    <2>9. fits[n] = g[n]
      BY <2>8 DEF fits
    <2>10. FlattenSeq(seqs) = f[n]
      BY <1>8, <1>10 DEF FlattenSeq, f
    <2> QED BY <1>7, <2>8, <2>9, <2>10
  <1> QED BY <1>9, <1>10

\* g says where each of the sequences begins in what they are put together to.
Marks(g, seqs, n) ==
  /\ g \in [0 .. n -> Nat] /\ g[0] = 0
  /\ \A k \in 1 .. n : g[k] = g[k - 1] + Len(seqs[k])

LEMMA ConcatsMarked ==
  ASSUME NEW S, NEW n \in Nat, NEW seqs, SeqsOf(seqs, S, n), NEW out, Concats(out, seqs, n),
         NEW g, Marks(g, seqs, n)
  PROVE  \A k \in 0 .. n : Len(out[k]) = g[k]
  <1>1. /\ out[0] = <<>>
        /\ \A k \in 1 .. n : out[k] = out[k - 1] \o seqs[k]
        /\ \A k \in 0 .. n : out[k] \in Seq(S)
    BY ConcatsAt, Zenon
  <1> DEFINE Good == {k \in Nat : k <= n => Len(out[k]) = g[k]}
  <1>2. 0 \in Good
    BY <1>1 DEF Marks
  <1>3. ASSUME NEW k \in Good PROVE k + 1 \in Good
    <2>1. SUFFICES ASSUME k + 1 <= n PROVE Len(out[k + 1]) = g[k + 1]
      OBVIOUS
    <2>2. PICK j \in 1 .. n : j = k + 1 /\ j - 1 = k
      BY <2>1
    <2>3. out[k] \in Seq(S) /\ seqs[j] \in Seq(S)
      BY <1>1, <2>1, <2>2 DEF SeqsOf
    <2>4. out[j] = out[k] \o seqs[j]
      BY <1>1, <2>2
    <2>5. Len(out[j]) = Len(out[k]) + Len(seqs[j])
      BY <2>3, <2>4, ConcatProperties
    <2>6. g[j] = g[k] + Len(seqs[j])
      BY <2>2 DEF Marks
    <2>7. Len(out[k]) = g[k]
      BY <2>1
    <2> QED BY <2>2, <2>5, <2>6, <2>7
  <1>4. Nat \subseteq Good
    <2> HIDE DEF Good
    <2> QED BY <1>2, <1>3, SetInduction
  <1> QED BY <1>4

\* Every element of the sequences is in FlattenSeq where the marks say.
LEMMA FlattenAt ==
  ASSUME NEW S, NEW n \in Nat, NEW seqs, SeqsOf(seqs, S, n), NEW g, Marks(g, seqs, n)
  PROVE  /\ FlattenSeq(seqs) \in Seq(S) /\ Len(FlattenSeq(seqs)) = g[n]
         /\ \A k \in 1 .. n : /\ g[k] = g[k - 1] + Len(seqs[k]) /\ g[k] <= g[n]
                              /\ \A i \in 1 .. Len(seqs[k]) :
                                   FlattenSeq(seqs)[g[k - 1] + i] = seqs[k][i]
  <1>1. PICK out : Concats(out, seqs, n) /\ FlattenSeq(seqs) = out[n]
    BY FlattenLoop
  <1>2. /\ out[0] = <<>>
        /\ \A k \in 1 .. n : out[k] = out[k - 1] \o seqs[k]
        /\ \A k \in 0 .. n : out[k] \in Seq(S)
    BY <1>1, ConcatsAt, Zenon
  <1>3. \A k \in 0 .. n : Len(out[k]) = g[k]
    BY <1>1, ConcatsMarked
  <1>4. ASSUME NEW k \in 1 .. n
        PROVE  /\ g[k] <= g[n]
               /\ \A i \in 1 .. Len(seqs[k]) : out[n][g[k - 1] + i] = seqs[k][i]
    <2>1. PICK j \in 0 .. n : j = k - 1
      OBVIOUS
    <2>2. PICK s \in Seq(S), t \in Seq(S) : s = out[j] /\ t = seqs[k]
      BY <1>2, <2>1 DEF SeqsOf
    <2>3. PICK l \in Nat, w \in Nat : l = Len(s) /\ w = Len(t)
      OBVIOUS
    <2>4. out[k] = s \o t /\ g[j] = l /\ g[k] = l + w
      BY <1>2, <1>3, <2>1, <2>2, <2>3 DEF Marks
    <2>5. /\ Len(out[k]) <= Len(out[n]) /\ \A p \in 1 .. Len(out[k]) : out[n][p] = out[k][p]
      <3>1. PICK h \in 0 .. n, i \in 0 .. n : h = n /\ i = k /\ i <= h
        OBVIOUS
      <3>2. BeginsWith(out[i], out[h])
        <4>1. i <= h
          BY <3>1
        <4>2. Concats(out, seqs, n)
          BY <1>1
        <4> QED BY <4>1, <4>2, ConcatsGrow
      <3> QED BY <3>1, <3>2 DEF BeginsWith
    <2>6. Len(out[k]) = l + w /\ g[k] <= g[n]
      BY <1>3, <2>4, <2>5
    <2>7. ASSUME NEW i \in 1 .. w PROVE out[n][l + i] = t[i]
      <3>1. l + i \in 1 .. l + w
        OBVIOUS
      <3>2. (s \o t)[l + i] = t[i]
        BY <2>3, ConcatAt
      <3> QED BY <2>4, <2>5, <2>6, <3>1, <3>2
    <2> QED BY <2>1, <2>2, <2>3, <2>4, <2>6, <2>7
  <1>5. n \in 0 .. n
    OBVIOUS
  <1> QED BY <1>1, <1>2, <1>3, <1>4, <1>5 DEF Marks

\* The elements of two sequences put together.
LEMMA ToSetConcat ==
  ASSUME NEW S, NEW s \in Seq(S), NEW t \in Seq(S)
  PROVE  ToSet(s \o t) = ToSet(s) \cup ToSet(t)
  <1>1. PICK a \in Nat, b \in Nat : a = Len(s) /\ b = Len(t)
    OBVIOUS
  <1>2. PICK u \in Seq(S) : u = s \o t
    BY ConcatProperties
  <1>3. Len(u) = a + b /\ \A p \in 1 .. a + b : u[p] = IF p <= a THEN s[p] ELSE t[p - a]
    BY <1>1, <1>2, ConcatProperties
  <1>4. DOMAIN s = 1 .. a /\ DOMAIN t = 1 .. b /\ DOMAIN u = 1 .. a + b
    BY <1>1, <1>3
  <1>8. /\ ToSet(s) = {s[p] : p \in 1 .. a} /\ ToSet(t) = {t[p] : p \in 1 .. b}
        /\ ToSet(u) = {u[p] : p \in 1 .. a + b}
    BY <1>4 DEF ToSet
  <1>5. ASSUME NEW p \in 1 .. a + b PROVE u[p] \in ToSet(s) \cup ToSet(t)
    <2>1. CASE p <= a
      <3>1. p \in 1 .. a /\ u[p] = s[p]
        BY <1>3, <2>1
      <3> QED BY <1>8, <3>1
    <2>2. CASE ~(p <= a)
      <3>1. p - a \in 1 .. b
        BY <2>2
      <3> QED BY <1>3, <1>8, <2>2, <3>1
    <2> QED BY <2>1, <2>2
  <1>6. ASSUME NEW p \in 1 .. a PROVE s[p] \in ToSet(u)
    <2>1. p \in 1 .. a + b /\ u[p] = s[p]
      BY <1>3
    <2> QED BY <1>8, <2>1
  <1>7. ASSUME NEW p \in 1 .. b PROVE t[p] \in ToSet(u)
    <2>1. a + p \in 1 .. a + b /\ ~(a + p <= a) /\ (a + p) - a = p
      OBVIOUS
    <2>2. u[a + p] = t[p]
      BY <1>3, <2>1
    <2> QED BY <1>8, <2>1, <2>2
  <1> QED BY <1>2, <1>5, <1>6, <1>7, <1>8, ZenonT(60)

\* FlattenSeq has the elements of all the sequences.
LEMMA FlattenElements ==
  ASSUME NEW S, NEW n \in Nat, NEW seqs, SeqsOf(seqs, S, n)
  PROVE  ToSet(FlattenSeq(seqs)) = UNION {ToSet(seqs[k]) : k \in 1 .. n}
  <1>1. PICK out : Concats(out, seqs, n) /\ FlattenSeq(seqs) = out[n]
    BY FlattenLoop
  <1>2. /\ out[0] = <<>>
        /\ \A k \in 1 .. n : out[k] = out[k - 1] \o seqs[k]
        /\ \A k \in 0 .. n : out[k] \in Seq(S)
    BY <1>1, ConcatsAt, Zenon
  <1> DEFINE all(k) == UNION {ToSet(seqs[i]) : i \in 1 .. k}
             Good == {k \in Nat : k <= n => ToSet(out[k]) = all(k)}
  <1>3. 0 \in Good
    <2>1. ToSet(out[0]) = {}
      BY <1>2 DEF ToSet
    <2> QED BY <2>1
  <1>4. ASSUME NEW k \in Good PROVE k + 1 \in Good
    <2>1. SUFFICES ASSUME k + 1 <= n PROVE ToSet(out[k + 1]) = all(k + 1)
      OBVIOUS
    <2>2. PICK j \in 1 .. n : j = k + 1 /\ j - 1 = k
      BY <2>1
    <2>3. out[k] \in Seq(S) /\ seqs[j] \in Seq(S)
      BY <1>2, <2>1, <2>2 DEF SeqsOf
    <2>4. out[j] = out[k] \o seqs[j]
      BY <1>2, <2>2
    <2>5. ToSet(out[j]) = ToSet(out[k]) \cup ToSet(seqs[j])
      BY <2>3, <2>4, ToSetConcat
    <2>6. 1 .. k + 1 = (1 .. k) \cup {j}
      BY <2>2
    <2>7. all(k + 1) = all(k) \cup ToSet(seqs[j])
      BY <2>6
    <2>8. ToSet(out[k]) = all(k)
      BY <2>1
    <2> HIDE DEF all
    <2> QED BY <2>2, <2>5, <2>7, <2>8
  <1>5. Nat \subseteq Good
    <2> HIDE DEF Good
    <2> QED BY <1>3, <1>4, SetInduction
  <1>6. ToSet(out[n]) = all(n)
    BY <1>5
  <1> QED BY <1>1, <1>6
-----------------------------------------------------------------------------
\* g is a solution of what FoldLeft chooses one of: what it makes of some places
\* of s is its step for the last of them and what it makes of the others.
Iterates(g, a, step, s) ==
  g = [P \in SUBSET DOMAIN s |->
         IF P = {} THEN a ELSE step[<<g[P \ {Max(P)}], s[Max(P)]>>]]

\* The last place of some.
LEMMA MaxIs ==
  ASSUME NEW n \in Nat, NEW P \in SUBSET (1 .. n), P # {}
  PROVE  Max(P) \in P /\ \A x \in P : Max(P) >= x
  <1>1. \E x \in P : \A y \in P : x >= y
    BY NatMax
  <1> QED BY <1>1 DEF Max

\* The last place of the first k.
LEMMA MaxOfAll == \A k \in Nat \ {0} : Max(1 .. k) = k /\ (1 .. k) \ {k} = 1 .. k - 1
  <1> SUFFICES ASSUME NEW k \in Nat \ {0}
               PROVE  Max(1 .. k) = k /\ (1 .. k) \ {k} = 1 .. k - 1
    OBVIOUS
  <1>1. Max(1 .. k) \in 1 .. k /\ \A x \in 1 .. k : Max(1 .. k) >= x
    <2>1. 1 .. k \in SUBSET (1 .. k) /\ k \in 1 .. k
      OBVIOUS
    <2> QED BY <2>1, MaxIs
  <1>2. Max(1 .. k) = k
    BY <1>1
  <1> QED BY <1>2

\* The last place of some of a sequence.
LEMMA MaxIn ==
  ASSUME NEW B, NEW s \in Seq(B)
  PROVE  \A P \in SUBSET DOMAIN s :
           P # {} => /\ Max(P) \in DOMAIN s /\ s[Max(P)] \in B
                     /\ P \ {Max(P)} \in SUBSET DOMAIN s
  <1>1. DOMAIN s = 1 .. Len(s) /\ Len(s) \in Nat /\ \A k \in DOMAIN s : s[k] \in B
    OBVIOUS
  <1>2. ASSUME NEW P \in SUBSET DOMAIN s, P # {}
        PROVE  /\ Max(P) \in DOMAIN s /\ s[Max(P)] \in B
               /\ P \ {Max(P)} \in SUBSET DOMAIN s
    <2>1. Max(P) \in P
      BY <1>1, <1>2, MaxIs
    <2> QED BY <1>1, <2>1
  <1> QED BY <1>2

\* There is such a function, and one with values in A.
LEMMA FoldExists ==
  ASSUME NEW A, NEW B, NEW a \in A, NEW step, StepOn(step, A, B), NEW s \in Seq(B)
  PROVE  \E g : Iterates(g, a, step, s) /\ g \in [SUBSET DOMAIN s -> A]
  <1> DEFINE D == DOMAIN s
             next[G \in [SUBSET D -> A]] ==
               [P \in SUBSET D |-> IF P = {} THEN a ELSE step[<<G[P \ {Max(P)}], s[Max(P)]>>]]
             Step[p \in [SUBSET D -> A] \X Nat] == next[p[1]]
  <1>1. D = 1 .. Len(s) /\ Len(s) \in Nat /\ \A k \in D : s[k] \in B
    OBVIOUS
  <1>2. ASSUME NEW P \in SUBSET D, P # {}
        PROVE  Max(P) \in P /\ Max(P) \in D /\ P \ {Max(P)} \in SUBSET D
    BY <1>1, <1>2, MaxIs
  <1>3. ASSUME NEW G \in [SUBSET D -> A] PROVE next[G] \in [SUBSET D -> A]
    <2>1. ASSUME NEW P \in SUBSET D, P # {} PROVE step[<<G[P \ {Max(P)}], s[Max(P)]>>] \in A
      BY <1>1, <1>2, <2>1 DEF StepOn
    <2> QED BY <2>1
  <1>4. Step \in [[SUBSET D -> A] \X Nat -> [SUBSET D -> A]]
    BY <1>3
  <1>5. [P \in SUBSET D |-> a] \in [SUBSET D -> A]
    OBVIOUS
  <1>6. PICK G : Follows(G, [SUBSET D -> A], [P \in SUBSET D |-> a], Step)
    <2> HIDE DEF Step
    <2> QED BY <1>4, <1>5, Recursion
  <1> HIDE DEF Step
  <1>7. /\ \A k \in Nat : G[k] \in [SUBSET D -> A]
        /\ \A P \in SUBSET D : G[0][P] = a
        /\ \A k \in Nat : G[k + 1] = next[G[k]]
    <2>1. \A k \in Nat : G[k + 1] = Step[<<G[k], k>>] /\ G[k] \in [SUBSET D -> A]
      BY <1>6 DEF Follows
    <2>2. \A k \in Nat : Step[<<G[k], k>>] = next[G[k]]
      BY <2>1 DEF Step
    <2> QED BY <1>6, <2>1, <2>2 DEF Follows
  <1>8. ASSUME NEW k \in Nat, NEW P \in SUBSET D
        PROVE  G[k + 1][P] = IF P = {} THEN a ELSE step[<<G[k][P \ {Max(P)}], s[Max(P)]>>]
    <2>1. G[k] \in [SUBSET D -> A] /\ G[k + 1] = next[G[k]]
      BY <1>7
    <2>2. next[G[k]] = [Q \in SUBSET D |->
                          IF Q = {} THEN a ELSE step[<<G[k][Q \ {Max(Q)}], s[Max(Q)]>>]]
      BY <2>1
    <2> QED BY <2>1, <2>2
  <1> HIDE DEF next
  <1> DEFINE Good == {k \in Nat : \A P \in SUBSET D : P \subseteq 1 .. k => G[k + 1][P] = G[k][P]}
  <1>9. 0 \in Good
    <2>1. ASSUME NEW P \in SUBSET D, P \subseteq 1 .. 0 PROVE G[0 + 1][P] = G[0][P]
      <3>1. P = {}
        BY <2>1
      <3> QED BY <1>7, <1>8, <3>1
    <2> QED BY <2>1
  <1>10. ASSUME NEW k \in Nat, k \in Good PROVE k + 1 \in Good
    <2>1. ASSUME NEW P \in SUBSET D, P \subseteq 1 .. k + 1 PROVE G[(k + 1) + 1][P] = G[k + 1][P]
      <3>0. k + 1 \in Nat
        OBVIOUS
      <3>1. CASE P = {}
        <4>1. G[k + 1][P] = a
          BY <1>8, <3>1
        <4>2. G[(k + 1) + 1][P] = a
          BY <1>8, <3>0, <3>1
        <4> QED BY <4>1, <4>2
      <3>2. CASE P # {}
        <4>1. Max(P) \in P /\ \A x \in P : Max(P) >= x
          BY <1>1, <3>2, MaxIs
        <4>2. P \ {Max(P)} \subseteq 1 .. k /\ P \ {Max(P)} \in SUBSET D
          BY <2>1, <4>1
        <4>3. G[k + 1][P \ {Max(P)}] = G[k][P \ {Max(P)}]
          BY <1>10, <4>2
        <4>4. G[k + 1][P] = step[<<G[k][P \ {Max(P)}], s[Max(P)]>>]
          BY <1>8, <3>2
        <4>5. G[(k + 1) + 1][P] = step[<<G[k + 1][P \ {Max(P)}], s[Max(P)]>>]
          BY <1>8, <3>0, <3>2
        <4> QED BY <4>3, <4>4, <4>5
      <3> QED BY <3>1, <3>2
    <2> QED BY <2>1
  <1>11. Nat \subseteq Good
    <2> HIDE DEF Good
    <2> QED BY <1>9, <1>10, SetInduction
  <1>12. ASSUME NEW P \in SUBSET D
         PROVE  G[Len(s)][P] = IF P = {} THEN a ELSE step[<<G[Len(s)][P \ {Max(P)}], s[Max(P)]>>]
    <2>1. Len(s) \in Good /\ P \subseteq 1 .. Len(s)
      BY <1>1, <1>11
    <2>2. G[Len(s) + 1][P] = G[Len(s)][P]
      BY <2>1
    <2> QED BY <1>1, <1>8, <2>2
  <1>13. G[Len(s)] \in [SUBSET D -> A]
    BY <1>1, <1>7
  <1>14. G[Len(s)] = [P \in SUBSET D |-> G[Len(s)][P]]
    BY <1>13
  <1>15. Iterates(G[Len(s)], a, step, s)
    BY <1>12, <1>14 DEF Iterates
  <1> QED BY <1>13, <1>15

\* A function that FoldLeft may choose does the steps as long as it is in A.
GoesBy(it, A, a, step, s) ==
  /\ it[{}] = a
  /\ \A P \in SUBSET DOMAIN s :
       P # {} /\ it[P \ {Max(P)}] \in A => it[P] = step[<<it[P \ {Max(P)}], s[Max(P)]>>]

\* What FoldLeft comes to, whatever it does outside of A.
LEMMA FoldIs ==
  ASSUME NEW A, NEW B, NEW a \in A, NEW step, StepOn(step, A, B), NEW s \in Seq(B),
         NEW it, GoesBy(it, A, a, step, s)
  PROVE  it[1 .. Len(s)] = Folded(a, step, s)
  <1>1. PICK f : LoopOver(f, a, step, s)
    BY LoopOverExists
  <1>2. /\ f[0] = a
        /\ \A i \in 1 .. Len(s) : f[i] = step[<<f[i - 1], s[i]>>] /\ f[i - 1] \in A
    BY <1>1, LoopOverAt
  <1>3. DOMAIN s = 1 .. Len(s) /\ Len(s) \in Nat
    OBVIOUS
  <1> DEFINE Good == {k \in Nat : k <= Len(s) => it[1 .. k] = f[k]}
  <1>4. 0 \in Good
    <2>1. 1 .. 0 = {}
      OBVIOUS
    <2> QED BY <1>2, <2>1 DEF GoesBy
  <1>5. ASSUME NEW k \in Nat, k \in Good PROVE k + 1 \in Good
    <2> SUFFICES ASSUME k + 1 <= Len(s) PROVE it[1 .. k + 1] = f[k + 1]
      OBVIOUS
    <2>1. it[1 .. k] = f[k] /\ k + 1 \in 1 .. Len(s) /\ (k + 1) - 1 = k
      BY <1>3, <1>5
    <2>2. Max(1 .. k + 1) = k + 1 /\ (1 .. k + 1) \ {k + 1} = 1 .. k /\ 1 .. k + 1 # {}
      <3>1. k + 1 \in Nat \ {0} /\ (k + 1) - 1 = k
        OBVIOUS
      <3>2. Max(1 .. k + 1) = k + 1 /\ (1 .. k + 1) \ {k + 1} = 1 .. ((k + 1) - 1)
        BY <3>1, MaxOfAll
      <3>3. k + 1 \in 1 .. k + 1
        OBVIOUS
      <3> QED BY <3>1, <3>2, <3>3
    <2>3. 1 .. k + 1 \in SUBSET DOMAIN s
      BY <1>3
    <2>4. f[k + 1] = step[<<f[k], s[k + 1]>>] /\ f[k] \in A
      BY <1>2, <2>1
    <2>5. it[1 .. k] \in A
      BY <2>1, <2>4
    <2>6. it[1 .. k + 1] = step[<<it[1 .. k], s[k + 1]>>]
      BY <2>2, <2>3, <2>5 DEF GoesBy
    <2> QED BY <2>1, <2>4, <2>6
  <1>6. Nat \subseteq Good
    <2> HIDE DEF Good
    <2> QED BY <1>4, <1>5, SetInduction
  <1>7. it[1 .. Len(s)] = f[Len(s)]
    BY <1>3, <1>6
  <1> QED BY <1>1, <1>3, <1>7, FoldedIs

\* Where each step keeps two values apart, and takes two elements to different
\* values, one other element leads to another result.
LEMMA FoldedDiffers ==
  ASSUME NEW A, NEW B, NEW a \in A, NEW step, StepOn(step, A, B),
         \A x, y \in A, c \in B : x # y => step[<<x, c>>] # step[<<y, c>>],
         \A x \in A, c, d \in B : c # d => step[<<x, c>>] # step[<<x, d>>],
         NEW s \in Seq(B), NEW t \in Seq(B), Len(s) = Len(t),
         NEW i \in 1 .. Len(s), s[i] # t[i],
         \A k \in 1 .. Len(s) : k # i => s[k] = t[k]
  PROVE  Folded(a, step, s) # Folded(a, step, t)
  <1>1. PICK f : LoopOver(f, a, step, s)
    BY LoopOverExists
  <1>2. PICK g : LoopOver(g, a, step, t)
    BY LoopOverExists
  <1>3. PICK n \in Nat : n = Len(s) /\ n = Len(t)
    OBVIOUS
  <1>4. /\ f[0] = a /\ f[0] \in A
        /\ \A k \in 1 .. n : f[k] = step[<<f[k - 1], s[k]>>] /\ f[k - 1] \in A /\ s[k] \in B
    BY <1>1, <1>3, LoopOverAt
  <1>5. /\ g[0] = a /\ g[0] \in A
        /\ \A k \in 1 .. n : g[k] = step[<<g[k - 1], t[k]>>] /\ g[k - 1] \in A /\ t[k] \in B
    BY <1>2, <1>3, LoopOverAt
  <1> DEFINE Good == {k \in Nat : k <= n => IF k < i THEN f[k] = g[k] ELSE f[k] # g[k]}
  <1>6. 0 \in Good
    BY <1>4, <1>5
  <1>7. ASSUME NEW k \in Nat, k \in Good PROVE k + 1 \in Good
    <2> SUFFICES ASSUME k + 1 <= n
                 PROVE  IF k + 1 < i THEN f[k + 1] = g[k + 1] ELSE f[k + 1] # g[k + 1]
      OBVIOUS
    <2>1. PICK j \in 1 .. n : j = k + 1 /\ j - 1 = k
      BY <1>3
    <2>2. /\ f[j] = step[<<f[k], s[j]>>] /\ f[k] \in A /\ s[j] \in B
          /\ g[j] = step[<<g[k], t[j]>>] /\ g[k] \in A /\ t[j] \in B
      BY <1>4, <1>5, <2>1
    <2>3. k <= n
      BY <2>1
    <2>4. CASE j < i
      <3>1. f[k] = g[k] /\ s[j] = t[j]
        BY <1>3, <1>7, <2>1, <2>3, <2>4
      <3> QED BY <2>1, <2>2, <2>4, <3>1
    <2>5. CASE j = i
      <3>1. f[k] = g[k] /\ s[j] # t[j]
        BY <1>7, <2>1, <2>3, <2>5
      <3>2. f[j] # g[j]
        BY <2>2, <3>1
      <3> QED BY <2>1, <2>5, <3>2
    <2>6. CASE j > i
      <3>1. f[k] # g[k] /\ s[j] = t[j]
        BY <1>3, <1>7, <2>1, <2>3, <2>6
      <3>2. f[j] # g[j]
        BY <2>2, <3>1
      <3> QED BY <2>1, <2>6, <3>2
    <2> QED BY <2>1, <2>4, <2>5, <2>6
  <1>8. Nat \subseteq Good
    <2> HIDE DEF Good
    <2> QED BY <1>6, <1>7, SetInduction
  <1>9. f[n] # g[n]
    BY <1>3, <1>8
  <1>10. Folded(a, step, s) = f[n] /\ Folded(a, step, t) = g[n]
    BY <1>1, <1>2, <1>3, FoldedIs
  <1> QED BY <1>9, <1>10
=============================================================================
