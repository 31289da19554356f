---------------------------- MODULE ChunkerProofs ----------------------------
(***************************************************************************)
(* Proofs about Chunker, for any stream, gear table, masks and sizes: no   *)
(* byte is lost, and where the cuts fall depends on content alone.         *)
(***************************************************************************)
EXTENDS Chunker, FiniteSetTheorems, SequenceTheorems, TLAPS

-----------------------------------------------------------------------------
(* Numbers. *)

(* The least of a set of numbers.                                          *)
LEMMA LeastOf ==
  ASSUME NEW S \in SUBSET Nat, S # {}
  PROVE  /\ Min(S) \in S
         /\ \A k \in S : Min(S) <= k
<1> DEFINE R == {ss \in Nat \X Nat : ss[1] < ss[2]}
<1>1. IsWellFoundedOn(R, Nat)
  BY NatLessThanWellFounded DEF OpToRel
<1>2. PICK x \in S : \A y \in S : ~ (<<y, x>> \in R)
  <2> HIDE DEF R
  <2> QED BY <1>1, WFMin
<1>3. ASSUME NEW y \in S, y < x PROVE FALSE
  <2>1. <<y, x>> \in R
    BY <1>3
  <2> QED BY <1>2, <2>1
<1>4. \A k \in S : k \in Nat /\ x \in Nat
  OBVIOUS
<1>5. \E m \in S : \A k \in S : m <= k
  BY <1>3, <1>4
<1> QED BY <1>5 DEF Min

LEMMA PowerOfTwo ==
  /\ 2^0 = 1
  /\ \A k \in Nat : 2^k \in Nat /\ 2^k > 0 /\ 2^(k + 1) = 2 * 2^k
<1>0. 2^0 = 1
  OBVIOUS
<1>1. ASSUME NEW k \in Nat
      PROVE  /\ IsFiniteSet(SUBSET (1 .. k)) /\ 2^k = Cardinality(SUBSET (1 .. k))
             /\ 2^k \in Nat
  <2>1. IsFiniteSet(1 .. k) /\ Cardinality(1 .. k) = k
    BY FS_Interval
  <2>2. IsFiniteSet(SUBSET (1 .. k)) /\ Cardinality(SUBSET (1 .. k)) = 2^k
    BY <2>1, FS_SUBSET
  <2> QED  BY <2>2, FS_CardinalityType
<1>2. ASSUME NEW k \in Nat
      PROVE  2^(k + 1) = 2 * 2^k
  <2> DEFINE S == SUBSET (1 .. k)
             T == {A \cup {k + 1} : A \in S}
             f == [A \in S |-> A \cup {k + 1}]
  <2>1. SUBSET (1 .. k + 1) = S \cup T
    <3>1. ASSUME NEW A \in SUBSET (1 .. k + 1), k + 1 \in A
          PROVE  A \in T
      <4>1. A = (A \ {k + 1}) \cup {k + 1} /\ A \ {k + 1} \in S
        BY <3>1
      <4> QED  BY <4>1
    <3>2. ASSUME NEW A \in SUBSET (1 .. k + 1), k + 1 \notin A
          PROVE  A \in S
      BY <3>2
    <3>3. 1 .. k \subseteq 1 .. k + 1 /\ k + 1 \in 1 .. k + 1
      OBVIOUS
    <3>4. S \subseteq SUBSET (1 .. k + 1) /\ T \subseteq SUBSET (1 .. k + 1)
      BY <3>3
    <3> QED  BY <3>1, <3>2, <3>4
  <2>2. S \cap T = {}
    OBVIOUS
  <2>3. f \in Bijection(S, T)
    <3>1. f \in [S -> T]
      OBVIOUS
    <3>2. \A A, B \in S : f[A] = f[B] => A = B
      OBVIOUS
    <3>3. \A B \in T : \E A \in S : f[A] = B
      OBVIOUS
    <3> HIDE DEF f, S, T
    <3> QED  BY <3>1, <3>2, <3>3 DEF Bijection, Injection, Surjection, IsInjective
  <2>4. IsFiniteSet(T) /\ Cardinality(T) = Cardinality(S)
    <3> HIDE DEF f, S, T
    <3>1. IsFiniteSet(S)
      BY <1>1 DEF S
    <3> QED  BY <2>3, <3>1, FS_Bijection DEF ExistsBijection
  <2>5. Cardinality(S \cup T) = Cardinality(S) + Cardinality(T)
    <3> HIDE DEF f, S, T
    <3>1. IsFiniteSet(S) /\ Cardinality(S) \in Nat
      BY <1>1, FS_CardinalityType DEF S
    <3>2. Cardinality(S \cap T) = 0
      BY <2>2, FS_EmptySet
    <3> QED  BY <2>4, <3>1, <3>2, FS_Union
  <2>6. 2^(k + 1) = Cardinality(SUBSET (1 .. k + 1))
    BY <1>1
  <2>7. 2^k = Cardinality(S) /\ 2^k \in Nat
    BY <1>1
  <2>8. 2^(k + 1) = Cardinality(S \cup T)
    BY <2>1, <2>6
  <2> HIDE DEF f, S, T
  <2> QED  BY <2>4, <2>5, <2>7, <2>8
<1>3. ASSUME NEW k \in Nat
      PROVE  2^k > 0
  <2>1. ASSUME 2^k = 0 PROVE FALSE
    <3>1. SUBSET (1 .. k) = {}
      BY <1>1, <2>1, FS_EmptySet
    <3> QED  BY <3>1
  <2>2. \A p \in Nat : p # 0 => p > 0
    OBVIOUS
  <2> QED  BY <1>1, <2>1, <2>2
<1> QED  BY <1>0, <1>1, <1>2, <1>3

(* f begins with start and goes on by step.                                *)
Iterates(f, n, V, start, step) ==
  /\ f \in [0 .. n -> V]
  /\ f[0] = start
  /\ \A k \in 1 .. n : f[k] = step[<<k, f[k - 1]>>]

(* What a recursive function on 0 .. n takes for granted.                  *)
LEMMA RecursionExists ==
  ASSUME NEW n \in Nat, NEW V, NEW start \in V, NEW step \in [(1 .. n) \X V -> V]
  PROVE  \E f : Iterates(f, n, V, start, step)
<1> DEFINE P(m) == \E f \in [0 .. m -> V] :
                     f[0] = start /\ \A k \in 1 .. m : f[k] = step[<<k, f[k - 1]>>]
           S == {m \in 0 .. n : ~P(m)}
<1>1. P(0)
  <2> DEFINE g == [k \in 0 .. 0 |-> start]
  <2>1. g \in [0 .. 0 -> V] /\ g[0] = start
    OBVIOUS
  <2>2. \A k \in 1 .. 0 : g[k] = step[<<k, g[k - 1]>>]
    OBVIOUS
  <2> HIDE DEF g
  <2> QED  BY <2>1, <2>2
<1>2. ASSUME NEW m \in 1 .. n, P(m - 1)
      PROVE  P(m)
  <2>1. PICK f \in [0 .. m - 1 -> V] :
          f[0] = start /\ \A k \in 1 .. m - 1 : f[k] = step[<<k, f[k - 1]>>]
    BY <1>2
  <2>2. f[m - 1] \in V /\ step[<<m, f[m - 1]>>] \in V
    OBVIOUS
  <2> DEFINE g == [k \in 0 .. m |-> IF k = m THEN step[<<m, f[m - 1]>>] ELSE f[k]]
  <2>3. g \in [0 .. m -> V] /\ g[0] = start
    BY <2>1, <2>2
  <2>4. ASSUME NEW k \in 1 .. m
        PROVE  g[k] = step[<<k, g[k - 1]>>]
    <3>1. g[k - 1] = f[k - 1]
      OBVIOUS
    <3>2. CASE k = m
      <4>1. g[m] = step[<<m, f[m - 1]>>]
        OBVIOUS
      <4> HIDE DEF g
      <4> QED  BY <3>1, <3>2, <4>1
    <3>3. CASE k # m
      <4>1. k \in 1 .. m - 1 /\ g[k] = f[k]
        BY <3>3
      <4> QED  BY <2>1, <3>1, <4>1
    <3> QED  BY <3>2, <3>3
  <2> HIDE DEF g
  <2> QED  BY <2>3, <2>4
<1>3. S = {}
  <2> SUFFICES ASSUME S # {} PROVE FALSE
    OBVIOUS
  <2>1. Min(S) \in S /\ \A k \in S : Min(S) <= k
    <3>1. S \in SUBSET Nat
      OBVIOUS
    <3> HIDE DEF S
    <3> QED  BY <3>1, LeastOf
  <2>2. PICK m \in 0 .. n : ~P(m) /\ \A k \in S : m <= k
    BY <2>1
  <2> HIDE DEF P
  <2>3. m # 0
    BY <1>1, <2>2
  <2>4. m \in 1 .. n /\ m - 1 \in 0 .. n /\ m - 1 \notin S
    BY <2>2, <2>3
  <2>5. P(m - 1)
    BY <2>4
  <2> QED  BY <1>2, <2>2, <2>4, <2>5
<1>4. P(n)
  <2> HIDE DEF P
  <2>1. n \in 0 .. n
    OBVIOUS
  <2>2. n \notin S
    BY <1>3
  <2> QED  BY <2>1, <2>2
<1> QED  BY <1>4 DEF Iterates

-----------------------------------------------------------------------------
(* The rolling hash. *)

Modulus == 2^Width

LEMMA SizeFacts ==
  /\ Width \in Nat /\ Width > 0 /\ MinSize \in Nat /\ MinSize > 0
  /\ MaxSize \in Nat /\ MinSize < MaxSize /\ ReadSize \in Nat /\ MaxSize <= ReadSize
  /\ Modulus \in Nat /\ Modulus > 0 /\ GEAR \in [Byte -> 0 .. Modulus - 1]
BY ChunkerAssumption, PowerOfTwo DEF Modulus

LEMMA ModuloType ==
  ASSUME NEW v \in Int, NEW M \in Nat, M > 0
  PROVE  /\ v % M \in 0 .. M - 1
         /\ \E q \in Int : v = q * M + (v % M)
<1>1. v \div M \in Int /\ v = (v \div M) * M + (v % M)
  OBVIOUS
<1> QED  BY <1>1

(* The recursion of Rolling is well-founded, and its values are hashes.    *)
LEMMA RollingFacts ==
  ASSUME NEW w \in Seq(Byte), Len(w) > MinSize
  PROVE  /\ Rolling(w) \in [MinSize .. Len(w) -> 0 .. Modulus - 1]
         /\ Rolling(w)[MinSize] = 0
         /\ \A i \in MinSize + 1 .. Len(w) :
              Rolling(w)[i] = (2 * Rolling(w)[i - 1] + GEAR[w[i]]) % Modulus
<1> USE SizeFacts
<1> DEFINE V == 0 .. Modulus - 1
           n == Len(w) - MinSize
           step == [a \in (1 .. n) \X V |-> (2 * a[2] + GEAR[w[MinSize + a[1]]]) % Modulus]
<1>0. n \in Nat /\ 0 \in V
  OBVIOUS
<1>1. step \in [(1 .. n) \X V -> V]
  <2>1. ASSUME NEW a \in (1 .. n) \X V
        PROVE  (2 * a[2] + GEAR[w[MinSize + a[1]]]) % Modulus \in V
    <3>1. MinSize + a[1] \in 1 .. Len(w) /\ a[2] \in Int
      OBVIOUS
    <3>2. w[MinSize + a[1]] \in Byte
      BY <3>1
    <3>3. 2 * a[2] + GEAR[w[MinSize + a[1]]] \in Int
      BY <3>1, <3>2
    <3> QED  BY <3>3, ModuloType
  <2> QED  BY <2>1
<1>2. PICK f \in [0 .. n -> V] : f[0] = 0 /\ \A k \in 1 .. n : f[k] = step[<<k, f[k - 1]>>]
  <2> HIDE DEF V, n, step
  <2>1. \E f : Iterates(f, n, V, 0, step)
    BY <1>0, <1>1, RecursionExists
  <2> QED  BY <2>1 DEF Iterates
<1> DEFINE E(fp) == [i \in MinSize .. Len(w) |->
                       IF i = MinSize THEN 0 ELSE (2 * fp[i - 1] + GEAR[w[i]]) % Modulus]
           g == [i \in MinSize .. Len(w) |-> f[i - MinSize]]
<1>3. g = E(g)
  <2>1. ASSUME NEW i \in MinSize .. Len(w)
        PROVE  g[i] = E(g)[i]
    <3>1. CASE i = MinSize
      BY <1>2, <3>1
    <3>2. CASE i # MinSize
      <4>1. i - MinSize \in 1 .. n /\ i - 1 \in MinSize .. Len(w)
            /\ (i - 1) - MinSize = (i - MinSize) - 1
        BY <3>2
      <4>2. g[i - 1] = f[(i - MinSize) - 1] /\ f[(i - MinSize) - 1] \in V
        BY <4>1
      <4>3. g[i] = step[<<i - MinSize, g[i - 1]>>]
        BY <1>2, <4>1, <4>2
      <4>4. step[<<i - MinSize, g[i - 1]>>] = (2 * g[i - 1] + GEAR[w[MinSize + (i - MinSize)]]) % Modulus
        BY <4>1, <4>2
      <4>5. MinSize + (i - MinSize) = i
        OBVIOUS
      <4> QED  BY <3>2, <4>3, <4>4, <4>5
    <3> QED  BY <3>1, <3>2
  <2> QED  BY <2>1
<1> HIDE DEF g
<1>4. Rolling(w) = E(Rolling(w))
  <2>1. Rolling(w) = CHOOSE fp : fp = E(fp)
    BY DEF Rolling, Modulus
  <2> HIDE DEF E
  <2> QED  BY <1>3, <2>1
<1> DEFINE R == Rolling(w)
<1>5. /\ DOMAIN R = MinSize .. Len(w) /\ R = [i \in DOMAIN R |-> R[i]]
      /\ R[MinSize] = 0
      /\ \A i \in MinSize + 1 .. Len(w) : R[i] = (2 * R[i - 1] + GEAR[w[i]]) % Modulus
  <2> HIDE DEF R
  <2>1. R = E(R)
    BY <1>4 DEF R
  <2>2. DOMAIN E(R) = MinSize .. Len(w) /\ E(R) = [i \in DOMAIN E(R) |-> E(R)[i]]
    OBVIOUS
  <2>3. E(R)[MinSize] = 0
    OBVIOUS
  <2>4. \A i \in MinSize + 1 .. Len(w) : E(R)[i] = (2 * R[i - 1] + GEAR[w[i]]) % Modulus
    OBVIOUS
  <2> HIDE DEF E
  <2> QED  BY <2>1, <2>2, <2>3, <2>4
<1>6. \A i \in MinSize .. Len(w) : R[i] \in V
  <2> DEFINE S == {i \in MinSize .. Len(w) : R[i] \notin V}
  <2> HIDE DEF R
  <2> SUFFICES ASSUME S # {} PROVE FALSE
    OBVIOUS
  <2>1. PICK i \in S : \A k \in S : i <= k
    <3>1. S \in SUBSET Nat
      OBVIOUS
    <3> HIDE DEF S
    <3> QED  BY <3>1, LeastOf
  <2>2. i \in MinSize + 1 .. Len(w)
    <3>1. i # MinSize
      BY <1>0, <1>5
    <3>2. i \in MinSize .. Len(w) /\ Len(w) \in Nat
      OBVIOUS
    <3> QED  BY <3>1, <3>2
  <2>3. i - 1 \in MinSize .. Len(w) /\ i - 1 \notin S
    BY <2>1, <2>2
  <2>4. R[i - 1] \in V /\ GEAR[w[i]] \in Int
    BY <2>2, <2>3
  <2>5. 2 * R[i - 1] + GEAR[w[i]] \in Int
    <3> DEFINE a == R[i - 1]
               b == GEAR[w[i]]
    <3>1. a \in Int /\ b \in Int
      BY <2>4, SizeFacts
    <3> HIDE DEF a, b
    <3>2. 2 * a + b \in Int
      BY ONLY <3>1
    <3> QED  BY <3>2 DEF a, b
  <2> QED  BY <1>5, <2>2, <2>5, ModuloType
<1> QED
  <2> HIDE DEF R, V
  <2>1. R \in [MinSize .. Len(w) -> V]
    BY <1>5, <1>6
  <2> QED  BY <1>5, <2>1 DEF R, V

-----------------------------------------------------------------------------
(* The hash in closed form. *)

LEMMA ModuloUnique ==
  ASSUME NEW v \in Int, NEW q \in Int, NEW M \in Nat, M > 0,
         NEW r \in 0 .. M - 1, v = (q * M) + r
  PROVE  v % M = r
OBVIOUS

LEMMA MinOfTwo ==
  ASSUME NEW a \in Nat, NEW b \in Nat
  PROVE  Min({a, b}) = IF a <= b THEN a ELSE b
<1>1. {a, b} \in SUBSET Nat /\ {a, b} # {}
  OBVIOUS
<1>2. Min({a, b}) \in {a, b} /\ Min({a, b}) <= a /\ Min({a, b}) <= b
  BY <1>1, LeastOf
<1> QED  BY <1>2

HasBytes(stream, o, m) == \A i \in 1 .. m : stream[o + i] \in Byte

(* The recursion of WindowSum is well-founded, and its values are numbers. *)
LEMMA WindowSumFacts ==
  ASSUME NEW stream, NEW o \in Nat, NEW m \in Nat, m > MinSize,
         HasBytes(stream, o, m)
  PROVE  /\ WindowSum(stream, o, m) \in [0 .. Counting(m) -> Nat]
         /\ WindowSum(stream, o, m)[0] = 0
         /\ \A k \in 1 .. Counting(m) :
              WindowSum(stream, o, m)[k] = WindowSum(stream, o, m)[k - 1] + (GEAR[stream[o + m - k + 1]] * 2^(k - 1))
<1> DEFINE n == Counting(m)
           step == [a \in (1 .. n) \X Nat |-> a[2] + (GEAR[stream[o + m - a[1] + 1]] * 2^(a[1] - 1))]
           E(s) == [k \in 0 .. n |->
                      IF k = 0 THEN 0 ELSE s[k - 1] + (GEAR[stream[o + m - k + 1]] * 2^(k - 1))]
<1>1. n \in Nat /\ n <= m - MinSize /\ n <= m
  BY SizeFacts, MinOfTwo DEF Counting
<1> HIDE DEF n
<1>2. ASSUME NEW k \in 1 .. n
      PROVE  GEAR[stream[o + m - k + 1]] * 2^(k - 1) \in Nat
  <2>1. m - k + 1 \in 1 .. m /\ k - 1 \in Nat /\ o + m - k + 1 = o + (m - k + 1)
    BY <1>1
  <2>2. GEAR[stream[o + m - k + 1]] \in Nat
    <3>1. stream[o + (m - k + 1)] \in Byte
      BY <2>1 DEF HasBytes
    <3> QED  BY <2>1, <3>1, SizeFacts
  <2>3. 2^(k - 1) \in Nat
    BY <2>1, PowerOfTwo
  <2> QED  BY <2>2, <2>3
<1>3. step \in [(1 .. n) \X Nat -> Nat]
  <2>1. ASSUME NEW a \in (1 .. n) \X Nat
        PROVE  a[2] + (GEAR[stream[o + m - a[1] + 1]] * 2^(a[1] - 1)) \in Nat
    BY <1>2
  <2> QED  BY <2>1
<1>4. PICK f : Iterates(f, n, Nat, 0, step)
  <2> HIDE DEF step
  <2> QED  BY <1>1, <1>3, RecursionExists
<1>5. f = E(f)
  <2>1. f \in [0 .. n -> Nat] /\ f[0] = 0
    BY <1>4 DEF Iterates
  <2>2. ASSUME NEW k \in 1 .. n
        PROVE  f[k] = f[k - 1] + (GEAR[stream[o + m - k + 1]] * 2^(k - 1))
    <3>1. f[k] = step[<<k, f[k - 1]>>]
      BY <1>4 DEF Iterates
    <3>2. <<k, f[k - 1]>> \in (1 .. n) \X Nat
      BY <2>1, <1>1
    <3> QED  BY <3>1, <3>2
  <2>3. ASSUME NEW k \in 0 .. n
        PROVE  f[k] = E(f)[k]
    <3>1. CASE k = 0
      BY <2>1, <3>1
    <3>2. CASE k # 0
      <4>1. k \in 1 .. n
        BY <3>2, <1>1
      <4> QED  BY <2>2, <3>2, <4>1
    <3> QED  BY <3>1, <3>2
  <2> QED  BY <2>1, <2>3
<1>6. WindowSum(stream, o, m) = E(WindowSum(stream, o, m))
  <2>1. WindowSum(stream, o, m) = CHOOSE s : s = E(s)
    BY DEF WindowSum, n
  <2> HIDE DEF E
  <2> QED  BY <1>5, <2>1
<1> DEFINE W == WindowSum(stream, o, m)
<1>7. /\ DOMAIN W = 0 .. n /\ W = [k \in DOMAIN W |-> W[k]]
      /\ W[0] = 0
      /\ \A k \in 1 .. n : W[k] = W[k - 1] + (GEAR[stream[o + m - k + 1]] * 2^(k - 1))
  <2> HIDE DEF W
  <2>1. W = E(W)
    BY <1>6 DEF W
  <2>2. DOMAIN E(W) = 0 .. n /\ E(W) = [k \in DOMAIN E(W) |-> E(W)[k]]
    OBVIOUS
  <2>3. E(W)[0] = 0
    BY <1>1
  <2>4. \A k \in 1 .. n : E(W)[k] = W[k - 1] + (GEAR[stream[o + m - k + 1]] * 2^(k - 1))
    BY <1>1
  <2> HIDE DEF E
  <2> QED  BY <2>1, <2>2, <2>3, <2>4
<1> HIDE DEF W
<1>8. \A k \in 0 .. n : W[k] \in Nat
  <2> DEFINE S == {k \in 0 .. n : W[k] \notin Nat}
  <2> SUFFICES ASSUME S # {} PROVE FALSE
    OBVIOUS
  <2>1. PICK k \in S : \A j \in S : k <= j
    <3>1. S \in SUBSET Nat
      OBVIOUS
    <3> HIDE DEF S
    <3> QED  BY <3>1, LeastOf
  <2>2. k # 0
    BY <1>7
  <2>3. k \in 1 .. n /\ k - 1 \in 0 .. n
    BY <2>2, <1>1
  <2>4. k - 1 \notin S
    BY <2>1, <2>3
  <2>5. W[k - 1] \in Nat
    BY <2>3, <2>4
  <2> QED  BY <1>2, <1>7, <2>3, <2>5
<1> QED
  <2>1. W \in [0 .. n -> Nat]
    BY <1>7, <1>8
  <2> QED  BY <1>7, <2>1 DEF W, n

(* The hash of a window of the stream depends on the stream alone.         *)
LEMMA WindowClosed ==
  ASSUME NEW w \in Seq(Byte), NEW stream, NEW o \in Nat, NEW m \in MinSize + 1 .. Len(w),
         \A i \in 1 .. Len(w) : w[i] = stream[o + i]
  PROVE  Rolling(w)[m] = WindowHash(stream, o, m)
<1> DEFINE R == Rolling(w)
           W == WindowSum(stream, o, m)
           n == Counting(m)
           M == Modulus
           P(k) == \E q \in Int : R[m] = (2^k * R[m - k]) + W[k] - (q * M)
<1>1. /\ m \in Nat /\ m > MinSize /\ Len(w) \in Nat /\ m <= Len(w) /\ MinSize \in Nat
      /\ M \in Nat /\ M > 0
  BY SizeFacts
<1>2. \A i \in 1 .. Len(w) : w[i] \in Byte /\ stream[o + i] \in Byte
  OBVIOUS
<1>3. HasBytes(stream, o, m)
  <2>1. \A i \in 1 .. m : i \in 1 .. Len(w)
    BY <1>1
  <2> QED  BY <1>2, <2>1 DEF HasBytes
<1>4. /\ n \in Nat /\ n <= m - MinSize
      /\ n = Width \/ n = m - MinSize
  BY <1>1, SizeFacts, MinOfTwo DEF Counting
<1>5. /\ R \in [MinSize .. Len(w) -> 0 .. M - 1]
      /\ R[MinSize] = 0
      /\ \A i \in MinSize + 1 .. Len(w) : R[i] = (2 * R[i - 1] + GEAR[w[i]]) % M
  <2>1. Len(w) > MinSize
    BY <1>1
  <2> QED  BY ONLY w \in Seq(Byte), <2>1, RollingFacts
<1>6. /\ W \in [0 .. n -> Nat] /\ W[0] = 0
      /\ \A k \in 1 .. n : W[k] = W[k - 1] + (GEAR[stream[o + m - k + 1]] * 2^(k - 1))
  <2>1. m \in Nat /\ m > MinSize /\ HasBytes(stream, o, m)
    BY <1>1, <1>3
  <2> QED  BY ONLY o \in Nat, <2>1, WindowSumFacts, ZenonT(30)
<1> HIDE DEF R, W, n, M
<1>7. ASSUME NEW i \in MinSize .. Len(w)
       PROVE  R[i] \in 0 .. M - 1 /\ R[i] \in Int
  <2>1. R[i] \in 0 .. M - 1
    BY <1>5
  <2> QED  BY <1>1, <2>1
<1>8. \A k \in 0 .. n : W[k] \in Int
  BY <1>4, <1>6
<1>9. P(0)
  <2>1. R[m] \in Int /\ m - 0 = m /\ 2^0 = 1
    BY <1>1, <1>5
  <2>2. R[m] = (2^0 * R[m - 0]) + W[0] - (0 * M)
    BY <1>1, <1>6, <2>1
  <2> QED  BY <2>2
<1>10. ASSUME NEW k \in 1 .. n, P(k - 1)
      PROVE  P(k)
  <2> DEFINE i == m - (k - 1)
             g == GEAR[w[i]]
             t == 2^(k - 1)
  <2>1. k \in Nat /\ k - 1 \in Nat /\ k - 1 \in 0 .. n /\ k \in 0 .. n
    BY <1>4
  <2>2. /\ i \in MinSize + 1 .. Len(w) /\ i - 1 \in MinSize .. Len(w) /\ i \in 1 .. Len(w)
        /\ i - 1 = m - k
    BY <1>1, <1>4, <2>1
  <2>3. o + m - k + 1 = o + i
    BY <1>1, <2>1
  <2> HIDE DEF i
  <2>4. g \in Int
    <3>1. w[i] \in Byte
      BY <1>2, <2>2
    <3> QED  BY <3>1, SizeFacts
  <2>5. W[k] = W[k - 1] + (g * t)
    <3>1. stream[o + i] = w[i]
      BY <2>2
    <3> QED  BY <1>6, <2>3, <3>1
  <2>6. /\ t \in Int /\ 2^k = 2 * t
    <3>1. (k - 1) + 1 = k
      BY <2>1
    <3> QED  BY <2>1, <3>1, PowerOfTwo
  <2>7. R[i] \in Int /\ R[i - 1] \in Int /\ R[m] \in Int
    BY <1>1, <1>7, <2>2
  <2>8. W[k - 1] \in Int
    BY <1>8, <2>1
  <2> HIDE DEF g, t
  <2>9. PICK p \in Int : R[i] = (2 * R[i - 1]) + g - (p * M)
    <3> DEFINE v == (2 * R[i - 1]) + g
               y == R[i]
    <3>1. y = v % M
      BY <1>5, <2>2 DEF g
    <3>2. v \in Int /\ y \in Int
      BY <2>4, <2>7
    <3> HIDE DEF v, y
    <3>3. PICK p \in Int : v = (p * M) + (v % M)
      BY <1>1, <3>2, ModuloType
    <3>4. p * M \in Int
      BY <1>1
    <3>5. y = v - (p * M)
      BY <3>1, <3>2, <3>3, <3>4
    <3>6. R[i] = (2 * R[i - 1]) + g - (p * M)
      BY <2>4, <2>7, <3>4, <3>5 DEF v, y
    <3> QED  BY <3>6
  <2>10. PICK q \in Int : R[m] = (t * R[i]) + W[k - 1] - (q * M)
    BY <1>10 DEF i, t
  <2>11. M \in Int
    BY <1>1
  <2>12. R[m] = ((2 * t) * R[i - 1]) + (W[k - 1] + (g * t)) - ((q + (t * p)) * M)
    <3> DEFINE x == R[m]
               y == R[i]
               z == R[i - 1]
               v == W[k - 1]
    <3>1. x \in Int /\ y \in Int /\ z \in Int /\ v \in Int /\ M \in Int
      BY <2>7, <2>8, <2>11
    <3>2. y = (2 * z) + g - (p * M) /\ x = (t * y) + v - (q * M)
      BY <2>9, <2>10
    <3> HIDE DEF x, y, z, v
    <3>3. t * y = ((2 * t) * z) + (g * t) - ((t * p) * M)
      BY <2>4, <2>6, <3>1, <3>2
    <3>4. (q + (t * p)) * M = (q * M) + ((t * p) * M)
      BY <2>6, <3>1
    <3>5. x = ((2 * t) * z) + (v + (g * t)) - ((q + (t * p)) * M)
      BY <2>4, <2>6, <3>1, <3>2, <3>3, <3>4
    <3> QED  BY <3>5 DEF x, y, z, v
  <2>13. R[m] = (2^k * R[m - k]) + W[k] - ((q + (t * p)) * M)
    BY <2>2, <2>5, <2>6, <2>12
  <2>14. q + (t * p) \in Int
    BY <2>6
  <2> QED  BY <2>13, <2>14
<1>11. P(n)
  <2> DEFINE S == {k \in 0 .. n : ~P(k)}
  <2> HIDE DEF P
  <2> SUFFICES ASSUME S # {} PROVE FALSE
    BY <1>4
  <2>1. PICK k \in S : \A j \in S : k <= j
    <3>1. S \in SUBSET Nat
      OBVIOUS
    <3> HIDE DEF S
    <3> QED  BY <3>1, LeastOf
  <2>2. k # 0
    BY <1>9
  <2>3. k \in 1 .. n /\ k - 1 \in 0 .. n
    BY <2>2, <1>4
  <2>4. P(k - 1)
    BY <2>1, <2>3
  <2> QED  BY <1>10, <2>3, <2>4
<1>12. \E q \in Int : R[m] = W[n] - (q * M)
  <2>1. PICK q \in Int : R[m] = (2^n * R[m - n]) + W[n] - (q * M)
    BY <1>11
  <2>2. R[m - n] \in Int /\ W[n] \in Int
    <3>1. m - n \in MinSize .. Len(w) /\ n \in 0 .. n
      BY <1>1, <1>4
    <3> QED  BY <3>1, <1>5, <1>6
  <2>3. CASE n = Width
    <3>1. 2^n = M
      BY <2>3 DEF M, Modulus
    <3>2. (q - R[m - n]) \in Int /\ (q - R[m - n]) * M = (q * M) - (M * R[m - n])
      BY <1>1, <2>2
    <3>3. q * M \in Int /\ M * R[m - n] \in Int
      BY <1>1, <2>2
    <3>4. R[m] = W[n] - ((q - R[m - n]) * M)
      BY <2>1, <2>2, <3>1, <3>2, <3>3
    <3> QED  BY <3>2, <3>4
  <2>4. CASE n = m - MinSize
    <3>1. R[m - n] = 0
      <4>1. m - n = MinSize
        BY <1>1, <2>4
      <4> QED  BY <1>5, <4>1
    <3>2. 2^n * R[m - n] = 0
      BY <3>1, <1>4, PowerOfTwo
    <3>3. R[m] = W[n] - (q * M)
      <4>1. q * M \in Int
        BY <1>1
      <4> QED  BY <2>1, <2>2, <3>2, <4>1
    <3> QED  BY <3>3
  <2> QED  BY <1>4, <2>3, <2>4
<1>13. W[n] % M = R[m]
  <2>1. PICK q \in Int : R[m] = W[n] - (q * M)
    BY <1>12
  <2>2. W[n] \in Int /\ R[m] \in 0 .. M - 1 /\ R[m] \in Int /\ q * M \in Int
    <3>1. n \in 0 .. n /\ m \in MinSize .. Len(w)
      BY <1>1, <1>4
    <3>2. q * M \in Int
      BY <1>1
    <3> QED  BY <3>1, <3>2, <1>7, <1>8
  <2> DEFINE v == W[n]
             r == R[m]
  <2>3. v = (q * M) + r /\ v \in Int /\ r \in 0 .. M - 1
    BY <2>1, <2>2
  <2> HIDE DEF v, r
  <2>4. v % M = r
    BY <1>1, <2>3, ModuloUnique
  <2> QED  BY <2>4 DEF v, r
<1> QED  BY <1>13 DEF WindowHash, R, W, n, M, Modulus

-----------------------------------------------------------------------------
(* The cut. *)

CutBits(m) == IF m <= AvgSize THEN HardBits ELSE EasyBits

LEMMA FindCutFacts ==
  ASSUME NEW w \in Seq(Byte), Len(w) > 0
  PROVE  /\ FindCut(w) \in 1 .. Len(w)
         /\ \A m \in MinSize + 1 .. FindCut(w) - 1 : ~ZeroAt(Rolling(w)[m], CutBits(m))
         /\ FindCut(w) # Len(w) =>
               FindCut(w) > MinSize /\ ZeroAt(Rolling(w)[FindCut(w)], CutBits(FindCut(w)))
<1>1. Len(w) \in Nat /\ MinSize \in Nat
  BY SizeFacts
<1>2. CASE Len(w) <= MinSize
  BY <1>1, <1>2 DEF FindCut
<1>3. CASE ~(Len(w) <= MinSize)
  <2> DEFINE fp == Rolling(w)
             hard == {i \in MinSize + 1 .. Len(w) : i <= AvgSize /\ ZeroAt(fp[i], HardBits)}
             easy == {i \in MinSize + 1 .. Len(w) : i > AvgSize /\ ZeroAt(fp[i], EasyBits)}
             S == hard \cup easy \cup {Len(w)}
  <2>1. FindCut(w) = Min(S)
    BY <1>3 DEF FindCut
  <2>2. S \in SUBSET (MinSize + 1 .. Len(w)) /\ S # {}
    BY <1>1, <1>3
  <2>3. \A i \in MinSize + 1 .. Len(w) : ZeroAt(fp[i], CutBits(i)) => i \in S
    <3> HIDE DEF fp
    <3> QED  BY <1>1, ChunkerAssumption DEF CutBits
  <2>4. \A i \in S : i # Len(w) => ZeroAt(fp[i], CutBits(i))
    <3> HIDE DEF fp
    <3> QED  BY <1>1, ChunkerAssumption DEF CutBits
  <2> HIDE DEF S
  <2>5. Min(S) \in S /\ \A i \in S : Min(S) <= i
    <3>1. S \in SUBSET Nat
      BY <1>1, <2>2
    <3> QED  BY <2>2, <3>1, LeastOf
  <2> HIDE DEF fp
  <2> DEFINE c == FindCut(w)
  <2>6. c \in S /\ c \in MinSize + 1 .. Len(w)
    BY <2>1, <2>2, <2>5
  <2>7. ASSUME NEW m \in MinSize + 1 .. c - 1
        PROVE  ~ZeroAt(fp[m], CutBits(m))
    <3>1. m \in MinSize + 1 .. Len(w) /\ ~(c <= m)
      BY <1>1, <2>6
    <3> QED  BY <2>1, <2>3, <2>5, <3>1
  <2>8. c # Len(w) => ZeroAt(fp[c], CutBits(c))
    BY <2>4, <2>6
  <2>9. c \in 1 .. Len(w) /\ c > MinSize
    BY <1>1, <2>6
  <2> QED  BY <2>7, <2>8, <2>9 DEF fp
<1> QED  BY <1>2, <1>3

-----------------------------------------------------------------------------
(* The invariant: beside the three properties, an ended stream was read to *)
(* its end, and the first chunk will begin where the stream does.          *)

LEMMA StreamIsSeq ==
  ASSUME input \in Streams
  PROVE  input \in Seq(Byte)
BY ChunkerAssumption DEF Streams

ReadToEnd == eof => pos = Len(input)

FromTheStart == chunks = <<>> => offset = 0

ChunkerInv == ChunkerTypeOK /\ ReadToEnd /\ FromTheStart /\ Lossless /\ ContentDefined

LEMMA ChunkerInit == Init => ChunkerInv
<1> SUFFICES ASSUME Init PROVE ChunkerInv
  OBVIOUS
<1>1. input \in Seq(Byte) /\ Len(input) \in Nat
  BY StreamIsSeq DEF Init
<1>2. ChunkerTypeOK
  <2>1. buf = <<>> /\ Len(<<>>) = 0 /\ 0 < MaxSize + ReadSize
    BY SizeFacts DEF Init
  <2>2. buf \in Seq(Byte) /\ Len(buf) < MaxSize + ReadSize
    BY <2>1
  <2>3. chunks \in Seq([offset : Nat, data : Seq(Byte)])
    BY DEF Init
  <2>4. pos \in 0 .. Len(input) /\ offset \in 0 .. pos
    BY <1>1 DEF Init
  <2> QED  BY <2>2, <2>3, <2>4 DEF Init, ChunkerTypeOK
<1>3. Lossless
  <2>1. SubSeq(input, 1, 0) = <<>>
    BY <1>1
  <2> QED  BY <2>1 DEF Init, Lossless
<1>4. ContentDefined
  BY DEF Init, ContentDefined
<1> QED  BY <1>2, <1>3, <1>4 DEF Init, ChunkerInv, ReadToEnd, FromTheStart

(* A read() moves what is buffered on, and nothing else.                   *)
LEMMA RefillKeeps ==
  ASSUME ChunkerInv, Refill
  PROVE  ChunkerInv'
<1>1. ChunkerTypeOK /\ ReadToEnd /\ Lossless /\ ContentDefined
  BY DEF ChunkerInv
<1>2. /\ input \in Seq(Byte) /\ Len(input) \in Nat
      /\ pos \in 0 .. Len(input) /\ offset \in 0 .. pos
      /\ buf \in Seq(Byte) /\ Len(buf) \in Nat
  BY <1>1, StreamIsSeq DEF ChunkerTypeOK
<1>3. UNCHANGED <<input, offset, chunks, done>> /\ Len(buf) < MaxSize
  BY DEF Refill
<1>4. ContentDefined'
  BY <1>1, <1>3 DEF ContentDefined
<1>5. CASE pos = Len(input)
  <2>1. eof' = TRUE /\ pos' = pos /\ buf' = buf
    BY <1>5 DEF Refill
  <2>2. ChunkerTypeOK'
    BY <1>1, <1>3, <2>1 DEF ChunkerTypeOK, Streams
  <2>3. Lossless'
    BY <1>1, <1>3, <2>1 DEF Lossless
  <2> QED  BY <1>3, <1>4, <1>5, <2>1, <2>2, <2>3 DEF ChunkerInv, ReadToEnd, FromTheStart
<1>6. CASE pos # Len(input)
  <2>1. PICK n \in 1 .. Min({ReadSize, Len(input) - pos}) :
          /\ buf' = buf \o SubSeq(input, pos + 1, pos + n)
          /\ pos' = pos + n
          /\ UNCHANGED eof
    BY <1>6 DEF Refill
  <2>2. n \in Nat /\ n >= 1 /\ n <= ReadSize /\ n <= Len(input) - pos
    <3>1. Len(input) - pos \in Nat /\ ReadSize \in Nat
      BY <1>2, SizeFacts
    <3> QED  BY <3>1, MinOfTwo
  <2>3. buf = SubSeq(input, offset + 1, pos)
    BY <1>1 DEF Lossless
  <2>4. /\ SubSeq(input, pos + 1, pos + n) \in Seq(Byte)
        /\ Len(SubSeq(input, pos + 1, pos + n)) = n
    BY <1>2, <2>2
  <2>5. buf' \in Seq(Byte) /\ Len(buf') = Len(buf) + n
    BY <1>2, <2>1, <2>4
  <2>6. buf' = SubSeq(input, offset + 1, pos')
    <3>1. Len(buf) = pos - offset
      BY <1>2, <2>3
    <3>2. SubSeq(input, offset + 1, pos + n) \in Seq(Byte)
          /\ Len(SubSeq(input, offset + 1, pos + n)) = (pos + n) - offset
      BY <1>2, <2>2
    <3>3. ASSUME NEW i \in 1 .. (pos + n) - offset
          PROVE  buf'[i] = SubSeq(input, offset + 1, pos + n)[i]
      <4>1. SubSeq(input, offset + 1, pos + n)[i] = input[offset + i]
        BY <1>2, <2>2
      <4>2. CASE i <= Len(buf)
        <5>1. buf'[i] = buf[i] /\ buf[i] = input[offset + i]
          BY <1>2, <2>1, <2>3, <2>4, <3>1, <4>2
        <5> QED  BY <4>1, <5>1
      <4>3. CASE i > Len(buf)
        <5>1. buf'[i] = SubSeq(input, pos + 1, pos + n)[i - Len(buf)]
          BY <1>2, <2>1, <2>2, <2>4, <3>1, <4>3
        <5>2. SubSeq(input, pos + 1, pos + n)[i - Len(buf)] = input[pos + (i - Len(buf))]
          BY <1>2, <2>2, <3>1, <4>3
        <5>3. pos + (i - Len(buf)) = offset + i
          BY <1>2, <3>1
        <5> QED  BY <4>1, <5>1, <5>2, <5>3
      <4> QED  BY <1>2, <4>2, <4>3
    <3>4. Len(buf') = (pos + n) - offset
      BY <1>2, <2>2, <2>5, <3>1
    <3> QED  BY <2>1, <2>5, <3>2, <3>3, <3>4, SeqEqual
  <2>7. ChunkerTypeOK'
    <3>1. Len(buf') < MaxSize + ReadSize
      BY <1>2, <1>3, <2>2, <2>5, SizeFacts
    <3>2. pos' \in 0 .. Len(input) /\ offset \in 0 .. pos'
      BY <1>2, <2>1, <2>2
    <3> QED  BY <1>1, <1>3, <2>1, <2>5, <3>1, <3>2 DEF ChunkerTypeOK, Streams
  <2>8. Lossless'
    BY <1>1, <1>3, <2>6 DEF Lossless
  <2>9. ~eof
    BY DEF Refill
  <2>10. FromTheStart'
    BY <1>3 DEF ChunkerInv, FromTheStart
  <2> QED  BY <1>4, <2>1, <2>7, <2>8, <2>9, <2>10 DEF ChunkerInv, ReadToEnd
<1> QED  BY <1>5, <1>6

Window == SubSeq(buf, 1, Min({Len(buf), MaxSize}))

(* What one pass of the generator yields: a cut of the stream.             *)
LEMMA NextChunk ==
  ASSUME ChunkerInv, buf # <<>>, eof \/ Len(buf) >= MaxSize
  PROVE  /\ Window \in Seq(Byte) /\ FindCut(Window) \in 1 .. Len(Window)
         /\ Len(Window) <= Len(buf)
         /\ \A i \in 1 .. Len(Window) : Window[i] = input[offset + i]
         /\ CutAt(input, offset, FindCut(Window))
<1> DEFINE window == Window
           c == FindCut(window)
           l == Min({Len(buf), MaxSize})
<1>1. ChunkerTypeOK /\ ReadToEnd /\ Lossless
  BY DEF ChunkerInv
<1>2. /\ input \in Seq(Byte) /\ Len(input) \in Nat
      /\ pos \in 0 .. Len(input) /\ offset \in 0 .. pos
      /\ buf \in Seq(Byte) /\ Len(buf) \in Nat /\ Len(buf) > 0
  BY <1>1, StreamIsSeq DEF ChunkerTypeOK
<1>3. buf = SubSeq(input, offset + 1, pos) /\ Len(buf) = pos - offset
  BY <1>1, <1>2 DEF Lossless
<1>4. /\ l \in Nat /\ l > 0 /\ l <= Len(buf) /\ l <= MaxSize
      /\ l = Len(buf) \/ l = MaxSize
  <2>1. MaxSize \in Nat /\ MaxSize > 0
    BY SizeFacts
  <2>2. l = IF Len(buf) <= MaxSize THEN Len(buf) ELSE MaxSize
    BY <1>2, <2>1, MinOfTwo
  <2> HIDE DEF l
  <2> QED  BY <1>2, <2>1, <2>2
<1> HIDE DEF l
<1>5. window \in Seq(Byte) /\ Len(window) = l
  <2>1. window = SubSeq(buf, 1, l)
    BY DEF l, Window
  <2>2. SubSeq(buf, 1, l) \in Seq(Byte) /\ Len(SubSeq(buf, 1, l)) = l
    BY <1>2, <1>4
  <2> QED  BY <2>1, <2>2
<1>6. ASSUME NEW i \in 1 .. l
      PROVE  window[i] = input[offset + i]
  <2>1. window[i] = buf[i]
    BY <1>2, <1>4 DEF l, Window
  <2>2. buf[i] = input[offset + i]
    BY <1>2, <1>3, <1>4
  <2> QED  BY <2>1, <2>2
<1>7. /\ c \in 1 .. l
      /\ \A m \in MinSize + 1 .. c - 1 : ~ZeroAt(Rolling(window)[m], CutBits(m))
      /\ c # l => c > MinSize /\ ZeroAt(Rolling(window)[c], CutBits(c))
  BY <1>4, <1>5, FindCutFacts
<1>8. c \in Nat /\ MinSize \in Nat /\ offset \in Nat
  BY <1>2, <1>4, <1>7, SizeFacts
<1> HIDE DEF c, window
<1>9. \A m \in MinSize + 1 .. l : Rolling(window)[m] = WindowHash(input, offset, m)
  BY <1>5, <1>6, <1>8, WindowClosed
<1>10. ASSUME NEW m \in 1 .. c - 1
       PROVE  ~Boundary(input, offset, m)
  <2>1. CASE m <= MinSize
    BY <1>8, <2>1 DEF Boundary
  <2>2. CASE m > MinSize
    <3>1. m \in MinSize + 1 .. c - 1 /\ m \in MinSize + 1 .. l
      BY <1>4, <1>7, <1>8, <2>2
    <3>2. ~ZeroAt(WindowHash(input, offset, m), CutBits(m))
      BY <1>7, <1>9, <3>1
    <3> QED  BY <3>2 DEF Boundary, CutBits
  <2> QED  BY <1>8, <2>1, <2>2
<1>11. Boundary(input, offset, c) \/ c = MaxSize \/ offset + c = Len(input)
  <2>1. CASE c # l
    <3>1. c \in MinSize + 1 .. l /\ c > MinSize
      BY <1>4, <1>7, <1>8, <2>1
    <3>2. ZeroAt(WindowHash(input, offset, c), CutBits(c))
      BY <1>7, <1>9, <2>1, <3>1
    <3> QED  BY <3>1, <3>2 DEF Boundary, CutBits
  <2>2. CASE c = l /\ l = MaxSize
    BY <2>2
  <2>3. CASE c = l /\ l = Len(buf) /\ l # MaxSize
    <3>1. eof
      BY <1>2, <1>4, <2>3, SizeFacts
    <3>2. pos = Len(input)
      BY <1>1, <3>1 DEF ReadToEnd
    <3> QED  BY <1>2, <1>3, <2>3, <3>2
  <2> QED  BY <1>4, <2>1, <2>2, <2>3
<1>12. CutAt(input, offset, c)
  <2>1. c > 0 /\ c <= MaxSize
    BY <1>4, <1>7, SizeFacts
  <2> QED  BY <1>10, <1>11, <2>1 DEF CutAt
<1> QED  BY <1>4, <1>5, <1>6, <1>7, <1>12 DEF c, window

(* A chunk leaves the buffer, and the next one begins behind it.           *)
LEMMA EmitKeeps ==
  ASSUME ChunkerInv, Emit
  PROVE  ChunkerInv'
<1> DEFINE window == Window
           c == FindCut(window)
           d == SubSeq(window, 1, c)
           chunk == [offset |-> offset, data |-> d]
<1>1. ChunkerTypeOK /\ ReadToEnd /\ Lossless /\ ContentDefined
  BY DEF ChunkerInv
<1>2. /\ input \in Seq(Byte) /\ Len(input) \in Nat
      /\ pos \in 0 .. Len(input) /\ offset \in 0 .. pos
      /\ buf \in Seq(Byte) /\ Len(buf) \in Nat
      /\ chunks \in Seq([offset : Nat, data : Seq(Byte)]) /\ Len(chunks) \in Nat
  BY <1>1, StreamIsSeq DEF ChunkerTypeOK
<1>3. buf = SubSeq(input, offset + 1, pos) /\ Len(buf) = pos - offset
  BY <1>1, <1>2 DEF Lossless
<1>4. /\ buf # <<>> /\ (eof \/ Len(buf) >= MaxSize)
      /\ chunks' = Append(chunks, chunk)
      /\ buf' = SubSeq(buf, c + 1, Len(buf))
      /\ offset' = offset + c
      /\ UNCHANGED <<input, pos, eof, done>>
  BY DEF Emit, Window
<1>5. /\ window \in Seq(Byte) /\ c \in 1 .. Len(window)
      /\ Len(window) <= Len(buf)
      /\ \A i \in 1 .. Len(window) : window[i] = input[offset + i]
      /\ CutAt(input, offset, c)
  <2>1. buf # <<>> /\ (eof \/ Len(buf) >= MaxSize)
    BY DEF Emit
  <2> QED  BY <2>1, NextChunk
<1> HIDE DEF window, c
<1>6. c \in Nat /\ c > 0 /\ c <= Len(buf) /\ Len(window) \in Nat /\ c <= Len(window)
  BY <1>2, <1>5
<1>7. d \in Seq(Byte) /\ Len(d) = c
  BY <1>5, <1>6
<1>8. d = SubSeq(input, offset + 1, offset + c)
  <2>1. /\ SubSeq(input, offset + 1, offset + c) \in Seq(Byte)
        /\ Len(SubSeq(input, offset + 1, offset + c)) = c
    BY <1>2, <1>3, <1>6
  <2>2. ASSUME NEW i \in 1 .. c
        PROVE  d[i] = SubSeq(input, offset + 1, offset + c)[i]
    <3>1. d[i] = window[i] /\ i \in 1 .. Len(window)
      BY <1>5, <1>6
    <3>2. SubSeq(input, offset + 1, offset + c)[i] = input[offset + i]
      BY <1>2, <1>3, <1>6
    <3> QED  BY <1>5, <3>1, <3>2
  <2> HIDE DEF d
  <2> QED  BY <1>7, <2>1, <2>2, SeqEqual
<1> HIDE DEF d
<1>9. chunk \in [offset : Nat, data : Seq(Byte)]
      /\ chunk.offset = offset /\ chunk.data = d
  BY <1>2, <1>7
<1> HIDE DEF chunk
<1>10. /\ chunks' \in Seq([offset : Nat, data : Seq(Byte)])
       /\ Len(chunks') = Len(chunks) + 1
       /\ chunks'[Len(chunks) + 1] = chunk
       /\ \A k \in 1 .. Len(chunks) : chunks'[k] = chunks[k]
  BY <1>2, <1>4, <1>9
<1>11. offset' \in 0 .. pos /\ offset' = offset + c
  BY <1>2, <1>3, <1>4, <1>6
<1>12. buf' \in Seq(Byte) /\ Len(buf') = Len(buf) - c
  BY <1>2, <1>4, <1>6
<1>13. buf' = SubSeq(input, offset' + 1, pos)
  <2>1. /\ SubSeq(input, offset' + 1, pos) \in Seq(Byte)
        /\ Len(SubSeq(input, offset' + 1, pos)) = Len(buf) - c
    BY <1>2, <1>3, <1>6, <1>11
  <2>2. ASSUME NEW i \in 1 .. Len(buf) - c
        PROVE  buf'[i] = SubSeq(input, offset' + 1, pos)[i]
    <3>1. buf'[i] = buf[c + i]
      BY <1>2, <1>4, <1>6
    <3>2. buf[c + i] = input[offset + (c + i)]
      <4>1. /\ input \in Seq(Byte) /\ pos \in 0 .. Len(input) /\ offset \in 0 .. pos
            /\ c + i \in 1 .. pos - offset
        BY <1>2, <1>3, <1>6
      <4>2. SubSeq(input, offset + 1, pos)[c + i] = input[offset + (c + i)]
        BY ONLY <4>1
      <4> QED  BY <1>3, <4>2
    <3>3. SubSeq(input, offset' + 1, pos)[i] = input[offset' + i]
      <4>0. input \in Seq(Byte)
        BY <1>2
      <4>1. offset' \in Nat /\ pos \in Nat /\ pos <= Len(input) /\ i \in 1 .. pos - offset'
        BY <1>2, <1>3, <1>6, <1>11
      <4>2. ASSUME NEW a \in Nat, i \in 1 .. pos - a
            PROVE  SubSeq(input, a + 1, pos)[i] = input[a + i]
        BY ONLY <4>0, <4>1, <4>2
      <4> QED  BY <4>1, <4>2
    <3>4. offset + (c + i) = offset' + i
      BY <1>2, <1>6, <1>11
    <3> QED  BY <3>1, <3>2, <3>3, <3>4
  <2> QED  BY <1>12, <2>1, <2>2, SeqEqual
<1>14. ChunkerTypeOK'
  <2>1. Len(buf') < MaxSize + ReadSize
    BY <1>1, <1>2, <1>6, <1>12, SizeFacts DEF ChunkerTypeOK
  <2>2. input \in Streams /\ eof' \in BOOLEAN /\ done' \in BOOLEAN /\ input' \in Streams
    BY <1>1, <1>4 DEF ChunkerTypeOK, Streams
  <2>3. pos' \in 0 .. Len(input') /\ offset' \in 0 .. pos'
    BY <1>2, <1>4, <1>11
  <2> QED  BY <1>10, <1>12, <2>1, <2>2, <2>3 DEF ChunkerTypeOK
<1>15. Lossless'
  <2>1. ASSUME NEW k \in 1 .. Len(chunks')
        PROVE  /\ chunks'[k].data = SubSeq(input, chunks'[k].offset + 1,
                                           chunks'[k].offset + Len(chunks'[k].data))
               /\ chunks'[k].offset + Len(chunks'[k].data) =
                    IF k = Len(chunks') THEN offset' ELSE chunks'[k + 1].offset
    <3>1. CASE k = Len(chunks) + 1
      BY <1>7, <1>8, <1>9, <1>10, <1>11, <3>1
    <3>2. CASE k # Len(chunks) + 1
      <4>1. k \in 1 .. Len(chunks) /\ chunks'[k] = chunks[k] /\ k # Len(chunks')
        <5>1. k \in 1 .. Len(chunks) + 1 /\ Len(chunks') = Len(chunks) + 1
          BY <1>10
        <5>2. k \in 1 .. Len(chunks) /\ k # Len(chunks) + 1
          BY <1>2, <3>2, <5>1
        <5> QED  BY <1>10, <5>1, <5>2
      <4>2. /\ chunks[k].data = SubSeq(input, chunks[k].offset + 1,
                                       chunks[k].offset + Len(chunks[k].data))
            /\ chunks[k].offset + Len(chunks[k].data) =
                 IF k = Len(chunks) THEN offset ELSE chunks[k + 1].offset
        BY <1>1, <4>1 DEF Lossless
      <4>3. CASE k = Len(chunks)
        BY <1>9, <1>10, <4>1, <4>2, <4>3
      <4>4. CASE k # Len(chunks)
        <5>1. k + 1 \in 1 .. Len(chunks)
          BY <1>2, <4>1, <4>4
        <5> QED  BY <1>10, <4>1, <4>2, <4>4, <5>1
      <4> QED  BY <4>3, <4>4
    <3> QED  BY <3>1, <3>2
  <2>2. chunks'[1].offset = 0
    <3>1. CASE Len(chunks) = 0
      <4>1. chunks = <<>>
        BY <1>2, <3>1
      <4>2. offset = 0
        BY <4>1 DEF ChunkerInv, FromTheStart
      <4> QED  BY <1>9, <1>10, <3>1, <4>2
    <3>2. CASE Len(chunks) # 0
      <4>1. 1 \in 1 .. Len(chunks) /\ chunks # <<>>
        BY <1>2, <3>2
      <4> QED  BY <1>1, <1>10, <4>1 DEF Lossless
    <3> QED  BY <3>1, <3>2
  <2>3. input' = input /\ pos' = pos
    BY <1>4
  <2> QED  BY <1>13, <2>1, <2>2, <2>3 DEF Lossless
<1>16. ContentDefined'
  <2>1. ASSUME NEW k \in 1 .. Len(chunks')
        PROVE  CutAt(input, chunks'[k].offset, Len(chunks'[k].data))
    <3>1. CASE k = Len(chunks) + 1
      BY <1>5, <1>7, <1>9, <1>10, <3>1
    <3>2. CASE k # Len(chunks) + 1
      <4>1. k \in 1 .. Len(chunks)
        BY <1>2, <1>10, <3>2
      <4> QED  BY <1>1, <1>10, <4>1 DEF ContentDefined
    <3> QED  BY <3>1, <3>2
  <2>2. input' = input
    BY <1>4
  <2> QED  BY <2>1, <2>2 DEF ContentDefined
<1>17. ReadToEnd'
  BY <1>1, <1>4 DEF ReadToEnd
<1>18. FromTheStart'
  <2>1. chunks' # <<>>
    BY <1>2, <1>10
  <2> QED  BY <2>1 DEF FromTheStart
<1> QED  BY <1>14, <1>15, <1>16, <1>17, <1>18 DEF ChunkerInv

LEMMA ChunkerInvHolds == Spec => []ChunkerInv
<1>1. Init => ChunkerInv
  BY ChunkerInit
<1>2. ChunkerInv /\ [Next]_vars => ChunkerInv'
  <2> SUFFICES ASSUME ChunkerInv, [Next]_vars PROVE ChunkerInv'
    OBVIOUS
  <2>1. CASE Refill
    BY <2>1, RefillKeeps
  <2>2. CASE Emit
    BY <2>2, EmitKeeps
  <2>3. CASE Finish
    BY <2>3 DEF Finish, ChunkerInv, ReadToEnd, FromTheStart, ChunkerTypeOK, Streams,
                Lossless, ContentDefined
  <2>4. CASE UNCHANGED vars
    BY <2>4 DEF vars, ChunkerInv, ReadToEnd, FromTheStart, ChunkerTypeOK, Streams,
                Lossless, ContentDefined
  <2> QED  BY <2>1, <2>2, <2>3, <2>4 DEF Next
<1> QED  BY <1>1, <1>2, PTL DEF Spec

(* The chunker's variables keep their types, and what is buffered stays    *)
(* below MaxSize and one read() (cas/chunker.py chunk_stream: the memory   *)
(* it takes is bounded by the buffer, never by the stream).                *)
THEOREM ChunkerTypeCorrect == Spec => []ChunkerTypeOK
BY ChunkerInvHolds, PTL DEF ChunkerInv

(* No byte is lost, repeated or moved (cas/chunker.py chunk_stream).       *)
THEOREM NoByteLost == Spec => []Lossless
BY ChunkerInvHolds, PTL DEF ChunkerInv

(* The cuts fall where the content of the stream says, whatever the blocks *)
(* in which it was read (cas/chunker.py _find_cut, chunk_stream).          *)
THEOREM CutsFollowContent == Spec => []ContentDefined
BY ChunkerInvHolds, PTL DEF ChunkerInv

-----------------------------------------------------------------------------
(* What deduplication takes from it. *)

(* A chunk has one end: with CutsFollowContent, chunk after chunk, a       *)
(* stream is cut the same way however often and in whatever blocks it is   *)
(* read (cas/chunker.py: the same bytes give the same chunks).             *)
THEOREM OneCut ==
  ASSUME NEW stream \in Seq(Byte), NEW o \in Nat, NEW n1 \in Nat, NEW n2 \in Nat,
         CutAt(stream, o, n1), o + n1 <= Len(stream),
         CutAt(stream, o, n2), o + n2 <= Len(stream)
  PROVE  n1 = n2
<1>0. MaxSize \in Nat /\ Len(stream) \in Nat
  BY SizeFacts
<1>1. ASSUME NEW n \in Nat, NEW longer \in Nat, n < longer,
             CutAt(stream, o, n), CutAt(stream, o, longer), o + longer <= Len(stream)
      PROVE  FALSE
  <2>1. n \in 1 .. longer - 1
    BY <1>1 DEF CutAt
  <2>2. ~Boundary(stream, o, n)
    BY <1>1, <2>1 DEF CutAt
  <2>3. longer <= MaxSize
    BY <1>1 DEF CutAt
  <2>4. n = MaxSize \/ o + n = Len(stream)
    BY <1>1, <2>2 DEF CutAt
  <2> QED  BY <1>0, <1>1, <2>3, <2>4
<1>2. ~(n1 < n2)
  BY <1>1
<1>3. ~(n2 < n1)
  BY <1>1
<1> QED  BY <1>2, <1>3

(* Behind a common cut the chunks of two streams agree as long as the      *)
(* streams do: a change early in a file leaves the chunks behind the next  *)
(* common cut as they were, wherever they have moved to (cas/chunker.py:   *)
(* boundaries resynchronise after an edit).                                *)
THEOREM CutsResynchronise ==
  ASSUME NEW s1 \in Seq(Byte), NEW o1 \in 0 .. Len(s1),
         NEW s2 \in Seq(Byte), NEW o2 \in 0 .. Len(s2),
         Len(s1) - o1 = Len(s2) - o2,
         \A i \in 1 .. Len(s1) - o1 : s1[o1 + i] = s2[o2 + i],
         NEW n \in 1 .. Len(s1) - o1, CutAt(s1, o1, n)
  PROVE  CutAt(s2, o2, n)
<1>0. /\ Len(s1) \in Nat /\ Len(s2) \in Nat /\ o1 \in Nat /\ o2 \in Nat /\ n \in Nat
      /\ MinSize \in Nat /\ n <= Len(s1) - o1
  BY SizeFacts
<1>1. ASSUME NEW m \in 1 .. n
      PROVE  Boundary(s1, o1, m) <=> Boundary(s2, o2, m)
  <2>1. CASE ~(m > MinSize)
    BY <2>1 DEF Boundary
  <2>2. CASE m > MinSize
    <3> DEFINE w == SubSeq(s1, o1 + 1, o1 + m)
    <3>1. m \in Nat /\ m <= Len(s1) - o1
      BY <1>0
    <3>2. w \in Seq(Byte) /\ Len(w) = m
      BY <1>0, <3>1
    <3>3. ASSUME NEW i \in 1 .. m
          PROVE  w[i] = s1[o1 + i] /\ w[i] = s2[o2 + i]
      <4>1. w[i] = s1[o1 + i]
        BY <1>0, <3>1
      <4>2. i \in 1 .. Len(s1) - o1
        BY <1>0, <3>1
      <4> QED  BY <4>1, <4>2
    <3> HIDE DEF w
    <3>4. m \in MinSize + 1 .. Len(w)
      BY <1>0, <2>2, <3>1, <3>2
    <3>5. Rolling(w)[m] = WindowHash(s1, o1, m)
      BY <1>0, <3>2, <3>3, <3>4, WindowClosed
    <3>6. Rolling(w)[m] = WindowHash(s2, o2, m)
      BY <1>0, <3>2, <3>3, <3>4, WindowClosed
    <3> QED  BY <3>5, <3>6 DEF Boundary
  <2> QED  BY <2>1, <2>2
<1>2. n > 0 /\ n <= MaxSize
  BY DEF CutAt
<1>3. \A m \in 1 .. n - 1 : ~Boundary(s2, o2, m)
  <2>1. \A m \in 1 .. n - 1 : m \in 1 .. n /\ ~Boundary(s1, o1, m)
    BY <1>0 DEF CutAt
  <2> QED  BY <1>1, <2>1
<1>4. Boundary(s2, o2, n) \/ n = MaxSize \/ o2 + n = Len(s2)
  <2>1. Boundary(s1, o1, n) \/ n = MaxSize \/ o1 + n = Len(s1)
    BY DEF CutAt
  <2>2. Boundary(s1, o1, n) => Boundary(s2, o2, n)
    BY <1>0, <1>1, <1>2
  <2>3. o1 + n = Len(s1) => o2 + n = Len(s2)
    BY <1>0
  <2> QED  BY <2>1, <2>2, <2>3
<1> QED  BY <1>2, <1>3, <1>4 DEF CutAt
=============================================================================
