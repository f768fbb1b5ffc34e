------------------------- MODULE StreamReaderProofs --------------------------
(***************************************************************************)
(* Proofs about StreamReader, for every set of files, every choice of      *)
(* sizes and any nonces: the type invariant, and that what a client gets   *)
(* is the bytes it asked for, in order and all of them.                    *)
(***************************************************************************)
EXTENDS StreamReaderInv, WellFoundedInduction, TLAPS

-----------------------------------------------------------------------------
(* Functions defined by recursion on a number exist.                       *)

LEMMA LeastNatural ==
  ASSUME NEW T, T \subseteq Nat, T # {}
  PROVE  \E x \in T : \A y \in T : x <= y
<1>1. PICK x \in T : \A y \in T : ~ (<<y, x>> \in OpToRel(<, Nat))
  BY NatLessThanWellFounded, WFMin
<1>2. \A y \in T : ~ (y < x)
  BY <1>1 DEF OpToRel
<1> QED  BY <1>2

\* g is the function up to n: a, and then a step for each number.
Begins(a, step, g, n) == g[0] = a /\ \A k \in 1..n : g[k] = step[k][g[k - 1]]

LEMMA BeginningsAgree ==
  ASSUME NEW a, NEW step, NEW n \in Nat, NEW m \in Nat, NEW g, NEW h,
         Begins(a, step, g, n), Begins(a, step, h, m), NEW k \in Nat, k <= n, k <= m
  PROVE  g[k] = h[k]
<1> DEFINE T == {l \in Nat : l <= n /\ l <= m /\ g[l] # h[l]}
<1> SUFFICES ASSUME T # {} PROVE FALSE
  OBVIOUS
<1>1. PICK l \in T : \A y \in T : l <= y
  BY LeastNatural
<1>2. l # 0
  BY <1>1 DEF Begins
<1>3. l - 1 \in Nat /\ l - 1 \notin T /\ l \in 1..n /\ l \in 1..m
  BY <1>1, <1>2
<1>4. g[l - 1] = h[l - 1]
  BY <1>1, <1>3
<1> QED  BY <1>1, <1>3, <1>4 DEF Begins

LEMMA BeginningExists ==
  ASSUME NEW D, D \subseteq Nat, \A k \in D : k # 0 => k - 1 \in D,
         NEW S, NEW a \in S, NEW step \in [D -> [S -> S]], NEW n \in D
  PROVE  \E g \in [0..n -> S] : Begins(a, step, g, n)
<1> DEFINE T == {k \in D : ~\E g \in [0..k -> S] : Begins(a, step, g, k)}
<1> SUFFICES ASSUME T # {} PROVE FALSE
  OBVIOUS
<1>1. PICK m \in T : \A y \in T : m <= y
  BY LeastNatural
<1>2. CASE m = 0
  <2> DEFINE g == [k \in 0..0 |-> a]
  <2>1. g \in [0..0 -> S] /\ Begins(a, step, g, 0)
    BY DEF Begins
  <2> QED  BY <1>1, <1>2, <2>1
<1>3. CASE m # 0
  <2>1. m \in Nat /\ m - 1 \in Nat /\ m - 1 \in D /\ m - 1 \notin T
    BY <1>1, <1>3
  <2>2. PICK g \in [0..(m - 1) -> S] : Begins(a, step, g, m - 1)
    BY <2>1
  <2> DEFINE h == [k \in 0..m |-> IF k = m THEN step[m][g[m - 1]] ELSE g[k]]
  <2>3. g[m - 1] \in S /\ step[m][g[m - 1]] \in S /\ \A k \in 0..m : k # m => g[k] \in S
    BY <1>1, <2>1, <2>2
  <2>4. h \in [0..m -> S]
    BY <2>3
  <2>5. h[0] = a /\ h[m] = step[m][g[m - 1]] /\ \A k \in 0..(m - 1) : h[k] = g[k]
    BY <2>1, <2>2, <1>3 DEF Begins
  <2> HIDE DEF h
  <2>6. ASSUME NEW k \in 1..m PROVE h[k] = step[k][h[k - 1]]
    <3>1. k - 1 \in 0..(m - 1) /\ h[k - 1] = g[k - 1]
      BY <2>1, <2>5
    <3>2. CASE k = m
      BY <2>5, <3>1, <3>2
    <3>3. CASE k # m
      <4>1. k \in 1..(m - 1) /\ k \in 0..(m - 1)
        BY <2>1, <3>3
      <4>2. g[k] = step[k][g[k - 1]]
        BY <2>2, <4>1 DEF Begins
      <4> QED  BY <2>5, <3>1, <4>1, <4>2
    <3> QED  BY <3>2, <3>3
  <2>7. Begins(a, step, h, m)
    BY <2>5, <2>6 DEF Begins
  <2> QED  BY <1>1, <2>4, <2>7
<1> QED  BY <1>2, <1>3

Recursive(f, D, a, step) == f = [k \in D |-> IF k = 0 THEN a ELSE step[k][f[k - 1]]]

LEMMA Recursion ==
  ASSUME NEW D, D \subseteq Nat, 0 \in D, \A k \in D : k # 0 => k - 1 \in D,
         NEW S, NEW a \in S, NEW step \in [D -> [S -> S]]
  PROVE  \E f \in [D -> S] : Recursive(f, D, a, step)
<1> DEFINE G(k) == CHOOSE g \in [0..k -> S] : Begins(a, step, g, k)
           f == [k \in D |-> G(k)[k]]
<1>1. ASSUME NEW k \in D PROVE G(k) \in [0..k -> S] /\ Begins(a, step, G(k), k)
  BY BeginningExists
<1>2. ASSUME NEW k \in D, k # 0 PROVE G(k)[k] = step[k][G(k - 1)[k - 1]]
  <2>1. k \in Nat /\ k - 1 \in D /\ k - 1 \in Nat /\ k \in 1..k /\ k - 1 <= k /\ k - 1 <= k - 1
    BY <1>2
  <2>2. PICK g : g = G(k)
    OBVIOUS
  <2>3. PICK h : h = G(k - 1)
    OBVIOUS
  <2>4. Begins(a, step, g, k) /\ Begins(a, step, h, k - 1)
    BY <1>1, <2>1, <2>2, <2>3
  <2>5. g[k - 1] = h[k - 1]
    BY <2>1, <2>4, BeginningsAgree
  <2>6. g[k] = step[k][g[k - 1]]
    BY <2>1, <2>4 DEF Begins
  <2> QED  BY <2>2, <2>3, <2>5, <2>6
<1>3. G(0)[0] = a
  BY <1>1 DEF Begins
<1>4. \A k \in D : G(k)[k] \in S
  <2> SUFFICES ASSUME NEW k \in D PROVE G(k)[k] \in S
    OBVIOUS
  <2>1. k \in 0..k
    OBVIOUS
  <2> QED  BY <1>1, <2>1
<1> HIDE DEF G
<1>5. Recursive(f, D, a, step)
  BY <1>2, <1>3 DEF Recursive
<1>6. f \in [D -> S]
  BY <1>4
<1> QED  BY <1>5, <1>6

\* What holds for 0 and for the next number holds for all.
LEMMA Inductive ==
  ASSUME NEW D, D \subseteq Nat, NEW T, 0 \in T,
         \A k \in D : k # 0 => k - 1 \in D /\ (k - 1 \in T => k \in T)
  PROVE  \A k \in D : k \in T
<1> DEFINE U == D \ T
<1> SUFFICES ASSUME U # {} PROVE FALSE
  OBVIOUS
<1>1. PICK k \in U : \A y \in U : k <= y
  BY LeastNatural
<1>2. k # 0 /\ k - 1 \in D /\ k - 1 < k
  BY <1>1
<1> QED  BY <1>1, <1>2

-----------------------------------------------------------------------------
(* The functions that are defined by recursion.                            *)

LEMMA HalvedIs ==
  /\ \A k \in Nat : Halved[k] \in Nat
  /\ Halved[0] = MaxChunk
  /\ \A k \in Nat \ {0} : Halved[k] = Halved[k - 1] \div 2
<1> DEFINE step == [k \in Nat |-> [c \in Nat |-> c \div 2]]
<1>1. step \in [Nat -> [Nat -> Nat]] /\ \A k, c \in Nat : step[k][c] = c \div 2
  OBVIOUS
<1>2. MaxChunk \in Nat /\ Nat \subseteq Nat /\ 0 \in Nat /\ \A k \in Nat : k # 0 => k - 1 \in Nat
  BY ReaderAssumption
<1> HIDE DEF step
<1>3. PICK f \in [Nat -> Nat] : Recursive(f, Nat, MaxChunk, step)
  BY <1>1, <1>2, Recursion
<1>4. f = [k \in Nat |-> IF k = 0 THEN MaxChunk ELSE f[k - 1] \div 2]
  BY <1>1, <1>2, <1>3, ZenonT(60) DEF Recursive
<1> DEFINE Q(g) == g = [k \in Nat |-> IF k = 0 THEN MaxChunk ELSE g[k - 1] \div 2]
<1>5. Q(Halved)
  BY <1>4 DEF Halved
<1>6. Halved[0] = MaxChunk /\ \A k \in Nat \ {0} : Halved[k] = Halved[k - 1] \div 2
  BY <1>5
<1> DEFINE T == {k \in Nat : Halved[k] \in Nat}
<1>7. 0 \in T /\ \A k \in Nat : k # 0 => k - 1 \in Nat /\ (k - 1 \in T => k \in T)
  BY <1>2, <1>6
<1>8. \A k \in Nat : k \in T
  BY <1>7, Inductive
<1> QED  BY <1>6, <1>8

LEMMA WorthIs ==
  /\ \A k \in Nat : Worth[k] \in Nat
  /\ Worth[0] = 1
  /\ \A k \in Nat \ {0} : Worth[k] = Worth[k - 1] * Base
<1> DEFINE step == [k \in Nat |-> [c \in Nat |-> c * Base]]
<1>1. Base \in Nat
  BY ReaderAssumption
<1>2. step \in [Nat -> [Nat -> Nat]] /\ \A k, c \in Nat : step[k][c] = c * Base
  BY <1>1
<1>3. Nat \subseteq Nat /\ 0 \in Nat /\ 1 \in Nat /\ \A k \in Nat : k # 0 => k - 1 \in Nat
  OBVIOUS
<1> HIDE DEF step
<1>4. PICK f \in [Nat -> Nat] : Recursive(f, Nat, 1, step)
  BY <1>2, <1>3, Recursion
<1>5. f = [k \in Nat |-> IF k = 0 THEN 1 ELSE f[k - 1] * Base]
  BY <1>2, <1>3, <1>4, ZenonT(60) DEF Recursive
<1> DEFINE Q(g) == g = [k \in Nat |-> IF k = 0 THEN 1 ELSE g[k - 1] * Base]
<1>6. Q(Worth)
  BY <1>5 DEF Worth
<1>7. Worth[0] = 1 /\ \A k \in Nat \ {0} : Worth[k] = Worth[k - 1] * Base
  BY <1>6
<1> DEFINE T == {k \in Nat : Worth[k] \in Nat}
<1>8. 0 \in T /\ \A k \in Nat : k # 0 => k - 1 \in Nat /\ (k - 1 \in T => k \in T)
  BY <1>1, <1>3, <1>7
<1>9. \A k \in Nat : k \in T
  BY <1>8, Inductive
<1> QED  BY <1>7, <1>9

LEMMA ValueIs ==
  ASSUME NEW n \in [1..NonceDigits -> 0..(Base - 1)]
  PROVE  /\ \A k \in 0..NonceDigits : Value(n)[k] \in Nat
         /\ Value(n)[0] = 0
         /\ \A k \in 1..NonceDigits : Value(n)[k] = Value(n)[k - 1] + n[k] * Worth[k - 1]
<1> DEFINE D == 0..NonceDigits
           step == [k \in D |-> [c \in Nat |-> IF k = 0 THEN 0 ELSE c + n[k] * Worth[k - 1]]]
<1>1. NonceDigits \in Nat /\ Base \in Nat
  BY ReaderAssumption
<1>2. D \subseteq Nat /\ 0 \in D /\ \A k \in D : k # 0 => k - 1 \in D
  BY <1>1
<1>3. \A k \in D : k # 0 => n[k] * Worth[k - 1] \in Nat
  <2> SUFFICES ASSUME NEW k \in D, k # 0 PROVE n[k] * Worth[k - 1] \in Nat
    OBVIOUS
  <2>1. n[k] \in Nat /\ Worth[k - 1] \in Nat
    BY <1>1, WorthIs
  <2> QED  BY <2>1
<1>4. step \in [D -> [Nat -> Nat]]
      /\ \A k \in D, c \in Nat : k # 0 => step[k][c] = c + n[k] * Worth[k - 1]
  BY <1>3
<1> HIDE DEF step, D
<1>5. PICK f \in [D -> Nat] : Recursive(f, D, 0, step)
  BY <1>2, <1>4, Recursion
<1>6. f = [k \in D |-> IF k = 0 THEN 0 ELSE f[k - 1] + n[k] * Worth[k - 1]]
  BY <1>2, <1>4, <1>5 DEF Recursive
<1> DEFINE Q(g) == g = [k \in D |-> IF k = 0 THEN 0 ELSE g[k - 1] + n[k] * Worth[k - 1]]
<1>7. Q(Value(n))
  BY <1>6 DEF Value, D
<1> DEFINE v == Value(n)
<1> HIDE DEF v
<1>8. v[0] = 0 /\ \A k \in D : k # 0 => v[k] = v[k - 1] + n[k] * Worth[k - 1]
  BY <1>2, <1>7 DEF v
<1> DEFINE T == {k \in D : v[k] \in Nat}
<1>9. 0 \in T /\ \A k \in D : k # 0 => k - 1 \in D /\ (k - 1 \in T => k \in T)
  BY <1>2, <1>3, <1>8
<1>10. \A k \in D : k \in T
  BY <1>2, <1>9, Inductive
<1> QED  BY <1>8, <1>10 DEF v, D

LEMMA IncrementIs ==
  ASSUME NEW n \in [1..NonceDigits -> 0..(Base - 1)], NEW i \in Int
  PROVE  Carry(n, i) \in [1..NonceDigits -> 0..(Base - 1)]
<1>1. Base \in Nat \ {0}
  BY ReaderAssumption
<1>2. \A k \in 1..NonceDigits : n[k] \in 0..(Base - 1) /\ (n[k] + 1) % Base \in 0..(Base - 1)
  BY <1>1
<1> QED  BY <1>2 DEF Carry

LEMMA SealsAre ==
  ASSUME NEW n \in [1..NonceDigits -> 0..(Base - 1)]
  PROVE  /\ \A b \in Nat : Seals(n)[b] \in [1..NonceDigits -> 0..(Base - 1)]
         /\ Seals(n)[0] = n
         /\ \A b \in Nat : Seals(n)[b + 1] = Increment(Seals(n)[b])
<1> DEFINE S == [1..NonceDigits -> 0..(Base - 1)]
           step == [b \in Nat |-> [m \in S |-> Increment(m)]]
<1>1. \A m \in S : Increment(m) \in S
  BY IncrementIs DEF Increment
<1>2. Nat \subseteq Nat /\ 0 \in Nat /\ \A k \in Nat : k # 0 => k - 1 \in Nat
  OBVIOUS
<1>3. step \in [Nat -> [S -> S]] /\ \A k \in Nat, m \in S : step[k][m] = Increment(m)
  BY <1>1
<1> HIDE DEF step, S
<1>4. PICK f \in [Nat -> S] : Recursive(f, Nat, n, step)
  BY <1>2, <1>3, Recursion DEF S
<1>5. f = [b \in Nat |-> IF b = 0 THEN n ELSE Increment(f[b - 1])]
  BY <1>2, <1>3, <1>4 DEF Recursive
<1> DEFINE Q(g) == g = [b \in Nat |-> IF b = 0 THEN n ELSE Increment(g[b - 1])]
<1>6. Q(Seals(n))
  BY <1>5 DEF Seals
<1> DEFINE s == Seals(n)
<1> HIDE DEF s
<1>7. s[0] = n /\ \A k \in Nat : k # 0 => s[k] = Increment(s[k - 1])
  BY <1>2, <1>6 DEF s
<1> DEFINE T == {k \in Nat : s[k] \in S}
<1>8. 0 \in T /\ \A k \in Nat : k # 0 => k - 1 \in Nat /\ (k - 1 \in T => k \in T)
  BY <1>1, <1>2, <1>7 DEF S
<1>9. \A k \in Nat : k \in T
  BY <1>8, Inductive
<1>10. \A b \in Nat : b + 1 \in Nat /\ b + 1 # 0 /\ (b + 1) - 1 = b
  OBVIOUS
<1> QED  BY <1>7, <1>9, <1>10 DEF s, S

-----------------------------------------------------------------------------
(* Sizes.                                                                  *)

LEMMA Sizes ==
  /\ BlockData \in Nat \ {0} /\ BlockHeader \in Nat \ {0} /\ FileHeader \in Nat \ {0}
  /\ MinChunk \in Nat \ {0} /\ MaxChunk \in Nat \ {0} /\ Concurrency \in Nat \ {0}
  /\ Buffers \in Nat \ {0} /\ CopyBuffer \in Nat \ {0}
  /\ BlockSize \in Nat \ {0} /\ BlockSize = BlockHeader + BlockData
<1>1. /\ BlockData \in Nat \ {0} /\ BlockHeader \in Nat \ {0} /\ FileHeader \in Nat \ {0}
      /\ MinChunk \in Nat \ {0} /\ MaxChunk \in Nat \ {0} /\ Concurrency \in Nat \ {0}
      /\ Buffers \in Nat \ {0} /\ CopyBuffer \in Nat \ {0}
  BY ReaderAssumption
<1> QED  BY <1>1 DEF BlockSize

LEMMA Division ==
  ASSUME NEW a \in Int, NEW d \in Nat \ {0}
  PROVE  /\ a \div d \in Int /\ a % d \in 0..(d - 1)
         /\ a % d = a - (a \div d) * d
         /\ a \in Nat => a \div d \in Nat
<1> DEFINE q == a \div d
           r == a % d
<1>1. q \in Int /\ r \in 0..(d - 1) /\ a = q * d + r
  OBVIOUS
<1> HIDE DEF q, r
<1>2. ASSUME q < 0 PROVE a < 0
  <2>1. (q + 1) * d <= 0 /\ (q + 1) * d = q * d + d
    BY <1>1, <1>2
  <2> QED  BY <1>1, <2>1
<1>3. a \in Nat => q \in Nat
  BY <1>1, <1>2
<1>4. a \div d \in Int /\ a % d \in 0..(d - 1) /\ a % d = a - (a \div d) * d
  OBVIOUS
<1>5. a \in Nat => a \div d \in Nat
  BY <1>3 DEF q
<1> QED  BY <1>4, <1>5

LEMMA Quotient ==
  ASSUME NEW d \in Nat \ {0}, NEW q \in Int, NEW r \in 0..(d - 1)
  PROVE  (q * d + r) \div d = q /\ (q * d + r) % d = r
  OBVIOUS

LEMMA Products ==
  ASSUME NEW d \in Nat, NEW a \in Int, NEW b \in Int
  PROVE  /\ a * d \in Int /\ (a + b) * d = a * d + b * d /\ (a - b) * d = a * d - b * d
         /\ a <= b => a * d <= b * d
         /\ a < b => a * d + d <= b * d
         /\ a \in Nat => a * d \in Nat
         /\ (a + 1) * d = a * d + d /\ (a - 1) * d = a * d - d /\ 0 * d = 0 /\ 1 * d = d
<1>1. /\ a * d \in Int /\ (a + b) * d = a * d + b * d /\ (a - b) * d = a * d - b * d
      /\ (a + 1) * d = a * d + d /\ (a - 1) * d = a * d - d /\ 0 * d = 0 /\ 1 * d = d
  OBVIOUS
<1>2. a <= b => a * d <= b * d
  OBVIOUS
<1>3. a < b => (a + 1) * d <= b * d
  OBVIOUS
<1>4. a \in Nat => a * d \in Nat
  OBVIOUS
<1> QED  BY <1>1, <1>2, <1>3, <1>4

LEMMA PartsOf ==
  ASSUME NEW f \in Files
  PROVE  f \in Seq(Nat \ {0}) /\ Len(f) \in Nat \ {0} /\ \A p \in 1..Len(f) : f[p] \in Nat \ {0}
<1>1. f \in Seq(Nat \ {0}) /\ f # <<>>
  BY ReaderAssumption
<1> QED  BY <1>1

EvenFile(f) == \A p \in 1..Len(f) : f[p] <= f[1] /\ (p < Len(f) => f[p] = f[1])

LEMMA SizeIs ==
  ASSUME NEW f \in Files
  PROVE  SizeOf(f) \in Nat /\ (EvenFile(f) => SizeOf(f) = (Len(f) - 1) * f[1] + f[Len(f)])
<1> DEFINE D == 0..Len(f)
           step == [p \in D |-> [c \in Nat |-> IF p = 0 THEN 0 ELSE c + f[p]]]
<1>1. Len(f) \in Nat \ {0} /\ \A p \in 1..Len(f) : f[p] \in Nat \ {0}
  BY PartsOf
<1>2. D \subseteq Nat /\ 0 \in D /\ \A k \in D : k # 0 => k - 1 \in D
  BY <1>1
<1>3. step \in [D -> [Nat -> Nat]] /\ \A k \in D, c \in Nat : k # 0 => step[k][c] = c + f[k]
  BY <1>1
<1> HIDE DEF step, D
<1>4. PICK g \in [D -> Nat] : Recursive(g, D, 0, step)
  BY <1>2, <1>3, Recursion
<1>5. g = [p \in D |-> IF p = 0 THEN 0 ELSE g[p - 1] + f[p]]
  BY <1>2, <1>3, <1>4 DEF Recursive
<1> DEFINE Q(h) == h = [p \in D |-> IF p = 0 THEN 0 ELSE h[p - 1] + f[p]]
<1>6. PICK sum : Q(sum) /\ SizeOf(f) = sum[Len(f)]
  BY <1>5 DEF SizeOf, D
<1>7. sum[0] = 0 /\ \A k \in D : k # 0 => sum[k] = sum[k - 1] + f[k]
  BY <1>2, <1>6
<1> DEFINE T == {k \in D : sum[k] \in Nat}
<1>8. 0 \in T /\ \A k \in D : k # 0 => k - 1 \in D /\ (k - 1 \in T => k \in T)
  BY <1>1, <1>2, <1>7, SMTT(30) DEF D
<1>9. \A k \in D : k \in T
  BY <1>2, <1>8, Inductive
<1>10. SizeOf(f) \in Nat
  BY <1>1, <1>6, <1>9 DEF D
<1>11. ASSUME EvenFile(f) PROVE SizeOf(f) = (Len(f) - 1) * f[1] + f[Len(f)]
  <2> DEFINE U == {k \in D : k < Len(f) => sum[k] = k * f[1]}
  <2>1. 0 \in U
    BY <1>1, <1>2, <1>7
  <2>2. ASSUME NEW k \in D, k # 0, k - 1 \in U PROVE k \in U
    <3> SUFFICES ASSUME k < Len(f) PROVE sum[k] = k * f[1]
      BY <2>2
    <3>1. k \in Nat /\ k - 1 < Len(f) /\ k \in 1..Len(f) /\ f[1] \in Nat
      BY <1>1, <1>2, <2>2
    <3>2. sum[k - 1] = (k - 1) * f[1] /\ f[k] = f[1]
      BY <1>11, <2>2, <3>1 DEF EvenFile
    <3>3. (k - 1) * f[1] + f[1] = k * f[1]
      BY <3>1
    <3> QED  BY <1>7, <2>2, <3>2, <3>3
  <2>3. \A k \in D : k \in U
    <3> HIDE DEF U
    <3> QED  BY <1>2, <2>1, <2>2, Inductive
  <2>4. Len(f) \in D /\ Len(f) # 0 /\ Len(f) - 1 \in D /\ Len(f) - 1 < Len(f)
    BY <1>1 DEF D
  <2>5. sum[Len(f) - 1] = (Len(f) - 1) * f[1]
    BY <2>3, <2>4
  <2> QED  BY <1>6, <1>7, <2>4, <2>5
<1> QED  BY <1>10, <1>11

\* A chunk has a byte: it is halved only while it has more than MinChunk.
LEMMA ChunkSizeIs ==
  ASSUME NEW start \in Int, NEW end \in Int
  PROVE  CalculateChunkSize(start, end) \in Nat \ {0}
<1> DEFINE Enough(k) == Halved[k] <= MinChunk \/ Halved[k] <= end - start
           T == {k \in 0..MaxChunk : Enough(k)}
           U == {k \in Nat : Halved[k] = 0 \/ Halved[k] + k <= MaxChunk}
<1>1. 0 \in U /\ Nat \subseteq Nat
  BY Sizes, HalvedIs
<1>2. \A k \in Nat : k # 0 => k - 1 \in Nat /\ (k - 1 \in U => k \in U)
  BY Sizes, HalvedIs
<1>3. \A k \in Nat : k \in U
  <2> HIDE DEF U
  <2> QED  BY <1>1, <1>2, Inductive
<1>4. MaxChunk \in T
  BY <1>3, Sizes, HalvedIs
<1>5. \E k \in T : \A j \in T : k <= j
  <2>1. T \subseteq Nat /\ T # {}
    BY <1>4
  <2> HIDE DEF T
  <2> QED  BY <2>1, LeastNatural
<1>6. \E k \in 0..MaxChunk : Enough(k) /\ \A j \in 0..(k - 1) : ~Enough(j)
  <2>1. PICK k \in T : \A j \in T : k <= j
    BY <1>5
  <2>2. k \in 0..MaxChunk /\ Enough(k) /\ \A j \in 0..(k - 1) : j \in 0..MaxChunk /\ j \notin T
    BY <2>1, Sizes
  <2> QED  BY <2>2
<1>7. PICK k \in 0..MaxChunk : /\ \A j \in 0..(k - 1) : ~Enough(j)
                               /\ CalculateChunkSize(start, end) = Halved[k]
  BY <1>6 DEF CalculateChunkSize
<1>8. CASE k = 0
  BY <1>7, <1>8, Sizes, HalvedIs
<1>9. CASE k # 0
  <2>1. k \in Nat \ {0} /\ k - 1 \in 0..(k - 1) /\ k - 1 \in Nat
    BY <1>9
  <2>2. Halved[k - 1] \in Nat /\ Halved[k - 1] > MinChunk /\ Halved[k] = Halved[k - 1] \div 2
    BY <1>7, <2>1, Sizes, HalvedIs
  <2>3. Halved[k - 1] \div 2 \in Nat \ {0}
    BY <2>2, Sizes
  <2> QED  BY <1>7, <2>2, <2>3
<1> QED  BY <1>8, <1>9

\* A block of a part, from its header to the next block or the end of the part.
LEMMA BlockLength ==
  ASSUME NEW z \in Nat \ {0}, NEW b \in Nat, b * BlockData < z
  PROVE  /\ EncryptedSize(z) \in Nat /\ BlockAt(b) \in Nat /\ BlockAt(b + 1) = BlockAt(b) + BlockSize
         /\ BlockAt(b) < EncryptedSize(z)
         /\ Least(BlockAt(b + 1), EncryptedSize(z))
              = BlockAt(b) + BlockHeader + Least(BlockData, z - b * BlockData)
         /\ (b + 1) * BlockData < z => BlockAt(b + 1) < EncryptedSize(z)
<1> DEFINE n == z \div BlockData
           r == z % BlockData
<1>1. n \in Nat /\ r \in 0..(BlockData - 1) /\ r = z - n * BlockData
  <2>1. z \in Int /\ BlockData \in Nat \ {0}
    BY Sizes
  <2>2. z \div BlockData \in Nat /\ z % BlockData \in 0..(BlockData - 1)
        /\ z % BlockData = z - (z \div BlockData) * BlockData
    BY <2>1, Division
  <2> QED  BY <2>2
<1>2. EncryptedSize(z) = FileHeader + n * BlockSize + IF r # 0 THEN BlockHeader + r ELSE 0
  BY DEF EncryptedSize
<1> HIDE DEF n, r
<1>3. /\ n * BlockData \in Nat /\ n * BlockSize \in Nat /\ b * BlockData \in Nat /\ b * BlockSize \in Nat
      /\ (b + 1) * BlockData = b * BlockData + BlockData
      /\ (b + 1) * BlockSize = b * BlockSize + BlockSize
  BY <1>1, Sizes, Products
<1>4. CASE b < n
  <2>1. b * BlockData + BlockData <= n * BlockData /\ b * BlockSize + BlockSize <= n * BlockSize
    BY <1>1, <1>4, Sizes, Products
  <2>2. CASE b + 1 < n
    <3>1. b * BlockSize + BlockSize + BlockSize <= n * BlockSize
      <4>1. b + 1 \in Nat
        OBVIOUS
      <4>2. (b + 1) * BlockSize + BlockSize <= n * BlockSize
        BY <1>1, <2>2, <4>1, Sizes, Products
      <4> QED  BY <1>3, <4>2
    <3> QED  BY <1>1, <1>2, <1>3, <2>1, <3>1, Sizes DEF BlockAt, Least
  <2>3. CASE b + 1 = n
    <3>1. n * BlockData = b * BlockData + BlockData /\ n * BlockSize = b * BlockSize + BlockSize
      BY <1>3, <2>3
    <3> QED  BY <1>1, <1>2, <1>3, <3>1, Sizes DEF BlockAt, Least
  <2> QED  BY <1>1, <1>4, <2>2, <2>3
<1>5. CASE b = n
  <2>1. r > 0
    BY <1>1, <1>3, <1>5
  <2> QED  BY <1>1, <1>2, <1>3, <1>5, <2>1, Sizes DEF BlockAt, Least
<1>6. CASE b > n
  <2>1. n * BlockData + BlockData <= b * BlockData
    BY <1>1, <1>6, Sizes, Products
  <2> QED  BY <1>1, <1>3, <2>1, Sizes
<1> QED  BY <1>1, <1>4, <1>5, <1>6

LEMMA Decrypted ==
  ASSUME NEW z \in Nat \ {0}
  PROVE  DecryptedSize(EncryptedSize(z)) = z /\ EncryptedSize(z) \in Nat /\ EncryptedSize(z) > FileHeader
<1> DEFINE n == z \div BlockData
           r == z % BlockData
           rest == IF r # 0 THEN BlockHeader + r ELSE 0
           size == EncryptedSize(z) - FileHeader
<1>1. n \in Nat /\ r \in 0..(BlockData - 1) /\ r = z - n * BlockData
  <2>1. z \in Int /\ BlockData \in Nat \ {0}
    BY Sizes
  <2>2. z \div BlockData \in Nat /\ z % BlockData \in 0..(BlockData - 1)
        /\ z % BlockData = z - (z \div BlockData) * BlockData
    BY <2>1, Division
  <2> QED  BY <2>2
<1>2. EncryptedSize(z) = FileHeader + n * BlockSize + rest
  BY DEF EncryptedSize
<1> HIDE DEF n, r
<1>3. rest \in 0..(BlockSize - 1)
  BY <1>1, Sizes
<1>4. n * BlockSize \in Nat /\ n * BlockData \in Nat
  BY <1>1, Sizes, Products
<1>5. size = n * BlockSize + rest
  BY <1>2, <1>3, <1>4, Sizes
<1>6. size \div BlockSize = n /\ size % BlockSize = rest
  <2>1. n \in Int /\ BlockSize \in Nat \ {0}
    BY <1>1, Sizes
  <2> HIDE DEF rest, size
  <2> QED  BY <1>3, <1>5, <2>1, Quotient
<1>7. DecryptedSize(EncryptedSize(z)) = n * BlockData + IF rest = 0 THEN 0 ELSE rest - BlockHeader
  BY <1>6 DEF DecryptedSize
<1>8. (n = 0 => n * BlockData = 0) /\ (n # 0 => n * BlockSize > 0)
  <2>1. n # 0 => 0 * BlockSize + BlockSize <= n * BlockSize
    BY <1>1, Sizes, Products
  <2> QED  BY <1>1, <2>1, Sizes
<1> QED  BY <1>1, <1>2, <1>3, <1>4, <1>7, <1>8, Sizes

-----------------------------------------------------------------------------
(* Nonces: adding x is incrementing x times.                               *)

LEMMA Bases ==
  /\ Base \in Nat /\ Base > 1 /\ NonceDigits \in Nat /\ LowDigits \in 1..NonceDigits
  /\ \A k \in Nat : Worth[k] \in Nat /\ Worth[k] > 0
  /\ \A k \in Nat : Worth[k + 1] = Worth[k] * Base
<1>1. Base \in Nat /\ Base > 1 /\ NonceDigits \in Nat /\ LowDigits \in 1..NonceDigits
  BY ReaderAssumption
<1> DEFINE T == {k \in Nat : Worth[k] > 0}
<1>2. 0 \in T
  BY WorthIs
<1>3. ASSUME NEW k \in Nat, k # 0 PROVE k - 1 \in Nat /\ (k - 1 \in T => k \in T)
  <2>1. k - 1 \in Nat
    BY <1>3
  <2>2. ASSUME Worth[k - 1] > 0 PROVE Worth[k] > 0
    <3>1. Worth[k - 1] \in Nat \ {0} /\ Worth[k] = Worth[k - 1] * Base
      BY <1>3, <2>1, <2>2, WorthIs
    <3>2. Worth[k - 1] * Base > 0
      BY <1>1, <3>1
    <3> QED  BY <3>1, <3>2
  <2> QED  BY <2>1, <2>2
<1>4. \A k \in Nat : k \in T
  <2> HIDE DEF T
  <2> QED  BY <1>2, <1>3, Inductive
<1>5. \A k \in Nat : k + 1 \in Nat \ {0} /\ (k + 1) - 1 = k
  OBVIOUS
<1>6. \A k \in Nat : Worth[k + 1] = Worth[k] * Base
  BY <1>5, WorthIs
<1> QED  BY <1>1, <1>4, <1>6, WorthIs

Digit(s, k) == (s \div Worth[k - 1]) % Base

\* The digits below k are all at their highest.
Full(s, k) == \A j \in 1..(k - 1) : Digit(s, j) = Base - 1

\* The remainder has one digit more.
LEMMA Remainder ==
  ASSUME NEW s \in Nat, NEW k \in Nat
  PROVE  /\ s % Worth[k] \in 0..(Worth[k] - 1)
         /\ Digit(s, k + 1) \in 0..(Base - 1)
         /\ s % Worth[k + 1] = (s % Worth[k]) + Digit(s, k + 1) * Worth[k]
<1> DEFINE w == Worth[k]
           q == s \div w
           r == s % w
           d == q % Base
           m == q \div Base
<1>1. w \in Nat \ {0} /\ Base \in Nat \ {0} /\ Worth[k + 1] = w * Base
  BY Bases
<1>2. q \in Int /\ r \in 0..(w - 1) /\ r = s - q * w
  <2> HIDE DEF w
  <2>1. s \in Int
    OBVIOUS
  <2>2. s \div w \in Int /\ s % w \in 0..(w - 1) /\ s % w = s - (s \div w) * w
    BY <1>1, <2>1, Division
  <2> QED  BY <2>2
<1>3. d \in 0..(Base - 1) /\ m \in Int /\ d = q - m * Base
  <2> HIDE DEF q
  <2>1. q \div Base \in Int /\ q % Base \in 0..(Base - 1) /\ q % Base = q - (q \div Base) * Base
    BY <1>1, <1>2, Division
  <2> QED  BY <2>1
<1>4. Digit(s, k + 1) = d
  BY DEF Digit
<1> HIDE DEF w, q, r, d, m
<1>5. s = m * (w * Base) + (r + d * w)
  <2>1. q * w = (m * Base + d) * w
    <3>1. q = m * Base + d
      <4>1. m * Base \in Int
        BY <1>1, <1>3
      <4> QED  BY <1>2, <1>3, <4>1
    <3> QED  BY <3>1
  <2>2. (m * Base + d) * w = m * (w * Base) + d * w
    <3> DEFINE e == m * Base
    <3>0. e \in Int
      BY <1>1, <1>3
    <3> HIDE DEF e
    <3>1. (e + d) * w = e * w + d * w
      BY <1>1, <1>3, <3>0
    <3>2. (m * Base) * w = m * (w * Base)
      BY <1>1, <1>3
    <3> QED  BY <3>1, <3>2 DEF e
  <2>3. m * (w * Base) \in Int /\ d * w \in Int /\ q * w \in Int
    BY <1>1, <1>2, <1>3
  <2> QED  BY <1>1, <1>2, <2>1, <2>2, <2>3
<1>6. r + d * w \in 0..(w * Base - 1)
  <2>1. d * w >= 0 /\ d * w \in Int
    BY <1>1, <1>3
  <2>2. (d + 1) * w <= Base * w /\ (d + 1) * w = d * w + w /\ Base * w = w * Base /\ w * Base \in Int
    BY <1>1, <1>3
  <2> QED  BY <1>1, <1>2, <2>1, <2>2
<1>7. w * Base \in Nat \ {0}
  BY <1>1
<1>8. s % (w * Base) = r + d * w
  <2> DEFINE u == w * Base
             t == r + d * w
  <2>1. s = m * u + t /\ t \in 0..(u - 1) /\ u \in Nat \ {0}
    BY <1>5, <1>6, <1>7
  <2> HIDE DEF u, t
  <2>2. (m * u + t) % u = t
    BY <1>3, <2>1, Quotient
  <2> QED  BY <2>1, <2>2 DEF u, t
<1> QED  BY <1>1, <1>2, <1>3, <1>4, <1>8 DEF w, r

LEMMA FullIs ==
  ASSUME NEW s \in Nat, NEW k \in Nat
  PROVE  Full(s, k + 1) <=> s % Worth[k] = Worth[k] - 1
<1> DEFINE T == {l \in Nat : Full(s, l + 1) <=> s % Worth[l] = Worth[l] - 1}
<1>1. 0 \in T
  <2>1. Full(s, 1)
    BY DEF Full
  <2>2. s % 1 = 0
    OBVIOUS
  <2> QED  BY <2>1, <2>2, WorthIs
<1>2. ASSUME NEW l \in Nat, l # 0 PROVE l - 1 \in Nat /\ (l - 1 \in T => l \in T)
  <2>1. l - 1 \in Nat /\ (l - 1) + 1 = l
    BY <1>2
  <2> DEFINE w == Worth[l - 1]
             r == s % w
             d == Digit(s, l)
  <2>2. /\ w \in Nat \ {0} /\ Base \in Nat \ {0} /\ Worth[l] = w * Base
        /\ r \in 0..(w - 1) /\ d \in 0..(Base - 1)
        /\ s % Worth[l] = r + d * w
    <3>1. /\ s % Worth[l - 1] \in 0..(Worth[l - 1] - 1)
          /\ Digit(s, l - 1 + 1) \in 0..(Base - 1)
          /\ s % Worth[l - 1 + 1] = (s % Worth[l - 1]) + Digit(s, l - 1 + 1) * Worth[l - 1]
      BY <2>1, Remainder
    <3>2. Worth[l - 1 + 1] = Worth[l - 1] * Base /\ Worth[l - 1] \in Nat \ {0} /\ Base \in Nat \ {0}
      BY <2>1, Bases
    <3> QED  BY <2>1, <3>1, <3>2
  <2>3. Full(s, l + 1) <=> Full(s, l) /\ d = Base - 1
    BY <2>1 DEF Full
  <2> SUFFICES ASSUME l - 1 \in T PROVE l \in T
    BY <2>1
  <2>4. Full(s, l) <=> r = w - 1
    BY <2>1
  <2> HIDE DEF w, r, d
  <2>5. r + d * w = w * Base - 1 <=> r = w - 1 /\ d = Base - 1
    <3>1. ASSUME d = Base - 1 PROVE r + d * w = w * Base - 1 <=> r = w - 1
      <4>1. (Base - 1) * w = w * Base - w /\ w * Base \in Int
        BY <2>2
      <4> QED  BY <2>2, <3>1, <4>1
    <3>2. ASSUME d # Base - 1 PROVE r + d * w # w * Base - 1
      <4>1. (d + 2) * w <= Base * w /\ (d + 2) * w = d * w + w + w /\ Base * w = w * Base
            /\ w * Base \in Int /\ d * w \in Int
        BY <2>2, <3>2
      <4> QED  BY <2>2, <4>1
    <3> QED  BY <3>1, <3>2
  <2> QED  BY <2>2, <2>3, <2>4, <2>5
<1>3. \A l \in Nat : l \in T
  <2> HIDE DEF T
  <2> QED  BY <1>1, <1>2, Inductive
<1> QED  BY <1>3

\* The digits of the next number.
LEMMA NextDigit ==
  ASSUME NEW s \in Nat, NEW k \in Nat \ {0}
  PROVE  Digit(s + 1, k) = IF Full(s, k) THEN (Digit(s, k) + 1) % Base ELSE Digit(s, k)
<1> DEFINE w == Worth[k - 1]
           q == s \div w
           r == s % w
<1>1. k - 1 \in Nat /\ (k - 1) + 1 = k
  OBVIOUS
<1>2. w \in Nat \ {0} /\ Base \in Nat \ {0}
  BY <1>1, Bases
<1>3. Full(s, k) <=> r = w - 1
  BY <1>1, FullIs
<1>4. Digit(s, k) = q % Base /\ Digit(s + 1, k) = ((s + 1) \div w) % Base
  BY DEF Digit
<1> HIDE DEF w
<1>5. q \in Int /\ r \in 0..(w - 1) /\ r = s - q * w
  <2>1. s \in Int
    OBVIOUS
  <2>2. s \div w \in Int /\ s % w \in 0..(w - 1) /\ s % w = s - (s \div w) * w
    BY <1>2, <2>1, Division
  <2> QED  BY <2>2
<1> HIDE DEF q, r
<1>6. q * w \in Int /\ (q + 1) * w = q * w + w /\ q + 1 \in Int
  BY <1>2, <1>5
<1>7. CASE r = w - 1
  <2>1. s + 1 = (q + 1) * w + 0 /\ 0 \in 0..(w - 1)
    BY <1>2, <1>5, <1>6, <1>7
  <2>2. (s + 1) \div w = q + 1
    BY <1>2, <1>6, <2>1, Quotient
  <2>3. (q + 1) % Base = ((q % Base) + 1) % Base
    <3> DEFINE m == q \div Base
               d == q % Base
    <3>1. m \in Int /\ d \in 0..(Base - 1) /\ d = q - m * Base
      <4>1. q \div Base \in Int /\ q % Base \in 0..(Base - 1) /\ q % Base = q - (q \div Base) * Base
        BY <1>2, <1>5, Division
      <4> QED  BY <4>1
    <3> HIDE DEF m, d
    <3>2. m * Base \in Int /\ (m + 1) * Base = m * Base + Base /\ m + 1 \in Int
      BY <1>2, <3>1
    <3>3. CASE d = Base - 1
      <4>1. q + 1 = (m + 1) * Base + 0 /\ d + 1 = 1 * Base + 0 /\ 0 \in 0..(Base - 1)
        BY <1>2, <1>5, <3>1, <3>2, <3>3
      <4>2. ((m + 1) * Base + 0) % Base = 0 /\ (1 * Base + 0) % Base = 0
        <5>1. 1 \in Int /\ m + 1 \in Int
          BY <3>2
        <5> QED  BY <1>2, <4>1, <5>1, Quotient
      <4>3. (q + 1) % Base = 0 /\ (d + 1) % Base = 0
        BY <4>1, <4>2
      <4> QED  BY <4>3 DEF d
    <3>4. CASE d # Base - 1
      <4>1. q + 1 = m * Base + (d + 1) /\ d + 1 = 0 * Base + (d + 1) /\ d + 1 \in 0..(Base - 1)
        BY <1>2, <1>5, <3>1, <3>2, <3>4
      <4>2. (m * Base + (d + 1)) % Base = d + 1 /\ (0 * Base + (d + 1)) % Base = d + 1
        <5>1. 0 \in Int /\ m \in Int
          BY <3>1
        <5> HIDE <3>1
        <5> QED  BY <1>2, <4>1, <5>1, Quotient
      <4>3. (q + 1) % Base = d + 1 /\ (d + 1) % Base = d + 1
        BY <4>1, <4>2
      <4> QED  BY <4>3 DEF d
    <3> QED  BY <3>3, <3>4
  <2> QED  BY <1>3, <1>4, <1>7, <2>2, <2>3
<1>8. CASE r # w - 1
  <2>1. s + 1 = q * w + (r + 1) /\ r + 1 \in 0..(w - 1)
    BY <1>2, <1>5, <1>6, <1>8
  <2>2. (s + 1) \div w = q
    BY <1>2, <1>5, <2>1, Quotient
  <2> QED  BY <1>3, <1>4, <1>8, <2>2
<1> QED  BY <1>7, <1>8

\* What adding x leaves in each digit.
LEMMA AddDigits ==
  ASSUME NEW n \in Digits, NEW x \in Nat
  PROVE  /\ Value(n)[LowDigits] \in Nat
         /\ Add(n, x) \in Digits
         /\ \A k \in 1..NonceDigits :
              Add(n, x)[k] = IF k <= LowDigits THEN Digit(Value(n)[LowDigits] + x, k)
                             ELSE IF /\ Value(n)[LowDigits] + x >= Worth[LowDigits]
                                     /\ \A j \in (LowDigits + 1)..(k - 1) : n[j] = Base - 1
                             THEN (n[k] + 1) % Base ELSE n[k]
<1> DEFINE sum == Value(n)[LowDigits] + x
           low == [k \in DOMAIN n |->
                     IF k <= LowDigits THEN (sum \div Worth[k - 1]) % Base ELSE n[k]]
<1>1. Value(n)[LowDigits] \in Nat /\ sum \in Nat
  <2>1. LowDigits \in 0..NonceDigits
    BY Bases
  <2>2. Value(n)[LowDigits] \in Nat
    BY <2>1, ValueIs DEF Digits
  <2> QED  BY <2>2
<1>2. DOMAIN n = 1..NonceDigits /\ \A k \in 1..NonceDigits : n[k] \in 0..(Base - 1)
  BY DEF Digits
<1>3. Add(n, x) = IF sum >= Worth[LowDigits] THEN Carry(low, LowDigits + 1) ELSE low
  BY DEF Add
<1> HIDE DEF sum
<1>4. \A k \in 1..NonceDigits : k <= LowDigits => Digit(sum, k) \in 0..(Base - 1)
  <2> SUFFICES ASSUME NEW k \in 1..NonceDigits PROVE Digit(sum, k) \in 0..(Base - 1)
    OBVIOUS
  <2>1. k - 1 \in Nat /\ (k - 1) + 1 = k
    OBVIOUS
  <2> QED  BY <1>1, <2>1, Remainder
<1>5. low \in Digits
  BY <1>2, <1>4 DEF Digits, Digit
<1>6. Add(n, x) \in Digits
  <2>1. LowDigits + 1 \in Int
    BY Bases
  <2> HIDE DEF low
  <2>2. Carry(low, LowDigits + 1) \in Digits
    BY <1>5, <2>1, IncrementIs DEF Digits
  <2> QED  BY <1>3, <1>5, <2>2
<1>7. ASSUME NEW k \in 1..NonceDigits
      PROVE  Add(n, x)[k] = IF k <= LowDigits THEN Digit(sum, k)
                            ELSE IF /\ sum >= Worth[LowDigits]
                                    /\ \A j \in (LowDigits + 1)..(k - 1) : n[j] = Base - 1
                            THEN (n[k] + 1) % Base ELSE n[k]
  <2>1. low[k] = IF k <= LowDigits THEN Digit(sum, k) ELSE n[k]
    BY <1>2 DEF Digit
  <2>2. \A j \in (LowDigits + 1)..(k - 1) : low[j] = n[j]
    BY <1>2, Bases
  <2>3. DOMAIN low = 1..NonceDigits
    BY <1>2
  <2> HIDE DEF low
  <2>4. Carry(low, LowDigits + 1)[k]
          = IF k >= LowDigits + 1 /\ \A j \in (LowDigits + 1)..(k - 1) : low[j] = Base - 1
            THEN (low[k] + 1) % Base ELSE low[k]
    BY <2>3 DEF Carry
  <2>5. CASE k <= LowDigits
    BY <1>3, <2>1, <2>4, <2>5, Bases
  <2>6. CASE k > LowDigits /\ sum >= Worth[LowDigits]
    <3>1. Add(n, x)[k] = IF \A j \in (LowDigits + 1)..(k - 1) : n[j] = Base - 1
                         THEN (n[k] + 1) % Base ELSE n[k]
      BY <1>3, <2>1, <2>2, <2>4, <2>6, Bases
    <3> QED  BY <2>6, <3>1, Bases
  <2>7. CASE k > LowDigits /\ ~(sum >= Worth[LowDigits])
    BY <1>3, <2>1, <2>7, Bases
  <2> QED  BY <2>5, <2>6, <2>7, Bases
<1> QED  BY <1>1, <1>6, <1>7 DEF sum

LEMMA ValueDigits ==
  ASSUME NEW n \in Digits
  PROVE  /\ Value(n)[LowDigits] < Worth[LowDigits]
         /\ \A k \in 1..LowDigits : Digit(Value(n)[LowDigits], k) = n[k]
<1> DEFINE v == Value(n)
<1>1. /\ \A k \in 0..NonceDigits : v[k] \in Nat
      /\ v[0] = 0
      /\ \A k \in 1..NonceDigits : v[k] = v[k - 1] + n[k] * Worth[k - 1]
  BY ValueIs DEF Digits
<1>2. \A k \in 1..NonceDigits : n[k] \in 0..(Base - 1)
  BY DEF Digits
<1> HIDE DEF v
<1> DEFINE T == {k \in 0..NonceDigits : v[k] < Worth[k]}
<1>3. \A k \in 0..NonceDigits : k \in T
  <2>1. 0 \in T /\ 0..NonceDigits \subseteq Nat
    BY <1>1, Bases
  <2>2. ASSUME NEW k \in 0..NonceDigits, k # 0
        PROVE  k - 1 \in 0..NonceDigits /\ (k - 1 \in T => k \in T)
    <3>1. k - 1 \in 0..NonceDigits /\ k - 1 \in Nat /\ k \in 1..NonceDigits /\ (k - 1) + 1 = k
      BY <2>2, Bases
    <3> DEFINE w == Worth[k - 1]
               d == n[k]
               u == v[k - 1]
    <3>2. w \in Nat /\ d \in 0..(Base - 1) /\ u \in Nat /\ Worth[k] = w * Base /\ v[k] = u + d * w
      BY <1>1, <1>2, <3>1, Bases
    <3> HIDE DEF w, d, u
    <3>3. ASSUME u < w PROVE u + d * w < w * Base
      <4>1. (d + 1) * w <= Base * w /\ (d + 1) * w = d * w + w /\ Base * w = w * Base
            /\ d * w \in Int /\ w * Base \in Int
        BY <3>2, Bases
      <4> QED  BY <3>2, <3>3, <4>1
    <3> QED  BY <3>1, <3>2, <3>3 DEF u, w
  <2> HIDE DEF T
  <2> QED  BY <2>1, <2>2, Inductive
<1>4. ASSUME NEW k \in 1..LowDigits PROVE Digit(v[LowDigits], k) = n[k]
  <2> DEFINE w == Worth[k - 1]
             U == {j \in 0..NonceDigits : j < k \/ \E m, c \in Nat :
                     /\ v[j] = v[k - 1] + (n[k] + m * Base) * w
                     /\ Worth[j] = (c * Base) * w}
  <2>1. k \in 1..NonceDigits /\ k - 1 \in Nat /\ k - 1 \in 0..NonceDigits /\ (k - 1) + 1 = k
    BY Bases
  <2>2. w \in Nat \ {0} /\ Base \in Nat \ {0} /\ Worth[k] = w * Base /\ n[k] \in 0..(Base - 1)
        /\ v[k] = v[k - 1] + n[k] * w /\ v[k - 1] \in 0..(w - 1)
    BY <1>1, <1>2, <1>3, <2>1, Bases
  <2> HIDE DEF w
  <2>3. k \in U
    <3>1. n[k] + 0 * Base = n[k] /\ (1 * Base) * w = w * Base
      BY <2>2
    <3>2. v[k] = v[k - 1] + (n[k] + 0 * Base) * w /\ Worth[k] = (1 * Base) * w
      BY <2>2, <3>1
    <3>3. \E m, c \in Nat : v[k] = v[k - 1] + (n[k] + m * Base) * w /\ Worth[k] = (c * Base) * w
      <4>1. 0 \in Nat /\ 1 \in Nat
        OBVIOUS
      <4> QED  BY <3>2, <4>1
    <3>4. k \in 0..NonceDigits
      BY <2>1
    <3> QED  BY <3>3, <3>4
  <2>4. ASSUME NEW j \in 0..NonceDigits, j # 0
        PROVE  j - 1 \in 0..NonceDigits /\ (j - 1 \in U => j \in U)
    <3>1. j - 1 \in 0..NonceDigits /\ j - 1 \in Nat /\ j \in 1..NonceDigits /\ (j - 1) + 1 = j
      BY <2>4, Bases
    <3>2. CASE j <= k
      BY <2>3, <3>1, <3>2
    <3>3. CASE j > k /\ j - 1 \in U
      <4>1. PICK m, c \in Nat : v[j - 1] = v[k - 1] + (n[k] + m * Base) * w
                                /\ Worth[j - 1] = (c * Base) * w
        BY <3>1, <3>3
      <4> DEFINE a == n[k] + m * Base
                 b == c * Base
                 d == n[j]
      <4>2. a \in Int /\ b \in Nat /\ d \in Nat /\ m * Base \in Int
        BY <1>2, <2>2, <3>1
      <4>3. v[j] = v[j - 1] + d * (b * w) /\ Worth[j] = (b * w) * Base
        BY <1>1, <3>1, <4>1, Bases
      <4>4. d * b = (d * c) * Base /\ d * c \in Nat
        BY <1>2, <2>2, <3>1
      <4>5. v[j] = v[k - 1] + (n[k] + (m + d * c) * Base) * w
        <5>1. a + d * b = n[k] + (m + d * c) * Base
          <6> DEFINE e == d * c
          <6>1. e \in Nat
            BY <4>4
          <6> HIDE DEF e
          <6>2. (m + e) * Base = m * Base + e * Base /\ e * Base \in Int
            BY <2>2, <6>1
          <6> HIDE DEF d
          <6> QED  BY <2>2, <4>2, <4>4, <6>2 DEF e
        <5> HIDE DEF a, b, d
        <5>2. d * (b * w) = (d * b) * w /\ d * b \in Int
          BY <2>2, <4>2
        <5> DEFINE g == d * b
        <5>3. g \in Int
          BY <5>2
        <5> HIDE DEF g
        <5>4. (a + g) * w = a * w + g * w /\ a * w \in Int /\ g * w \in Int
          BY <2>2, <4>2, <5>3
        <5>5. v[j] = v[k - 1] + (a + g) * w
          BY <2>2, <4>1, <4>3, <5>2, <5>4 DEF g, a
        <5> QED  BY <5>1, <5>5 DEF g
      <4>6. Worth[j] = ((b) * Base) * w
        <5> HIDE DEF b
        <5> QED  BY <2>2, <4>2, <4>3
      <4>7. m + d * c \in Nat
        BY <4>4
      <4> DEFINE e == m + d * c
      <4>8. \E m2, c2 \in Nat : v[j] = v[k - 1] + (n[k] + m2 * Base) * w
                                /\ Worth[j] = (c2 * Base) * w
        <5>1. e \in Nat /\ v[j] = v[k - 1] + (n[k] + e * Base) * w
              /\ Worth[j] = (b * Base) * w
          BY <4>5, <4>6, <4>7
        <5> HIDE DEF e, b
        <5> QED  BY <4>2, <5>1
      <4> QED  BY <3>1, <4>8
    <3> QED  BY <3>1, <3>2, <3>3
  <2>5. \A j \in 0..NonceDigits : j \in U
    <3>1. 0 \in U /\ 0..NonceDigits \subseteq Nat
      <4>1. 0 \in 0..NonceDigits /\ 0 < k
        BY Bases
      <4> QED  BY <4>1
    <3> HIDE DEF U
    <3> QED  BY <2>4, <3>1, Inductive
  <2>6. PICK m \in Nat : v[LowDigits] = v[k - 1] + (n[k] + m * Base) * w
    <3>1. LowDigits \in 0..NonceDigits /\ ~(LowDigits < k)
      BY Bases
    <3> QED  BY <2>5, <3>1
  <2> DEFINE a == n[k] + m * Base
  <2>7. a \in Int
    BY <2>2
  <2>8. a % Base = n[k]
    <3>1. m \in Int /\ m * Base \in Int
      BY <2>2
    <3> HIDE DEF a
    <3>2. (m * Base + n[k]) % Base = n[k]
      BY <2>2, <3>1, Quotient
    <3> QED  BY <2>2, <3>1, <3>2 DEF a
  <2> HIDE DEF a
  <2>9. (a * w + v[k - 1]) \div w = a
    BY <2>2, <2>7, Quotient
  <2>10. v[LowDigits] = a * w + v[k - 1]
    <3>1. a * w \in Int
      BY <2>2, <2>7
    <3> QED  BY <2>2, <2>6, <3>1 DEF a
  <2> QED  BY <2>8, <2>9, <2>10 DEF Digit, w
<1> QED  BY <1>3, <1>4, Bases DEF v

LEMMA SameDigits ==
  ASSUME NEW a \in Digits, NEW b \in Digits, \A k \in 1..NonceDigits : a[k] = b[k]
  PROVE  a = b
<1> DEFINE D == 1..NonceDigits
<1>1. a = [k \in D |-> a[k]] /\ b = [k \in D |-> b[k]]
  BY DEF Digits
<1>2. \A k \in D : a[k] = b[k]
  OBVIOUS
<1> HIDE DEF D
<1>3. [k \in D |-> a[k]] = [k \in D |-> b[k]]
  BY <1>2
<1> QED  BY <1>1, <1>3

\* A nonce with x added is the one after x increments, as long as the low digits count x.
LEMMA AddIsSeal ==
  ASSUME NEW n \in Digits, NEW x \in Nat, x < Worth[LowDigits]
  PROVE  Add(n, x) = Seals(n)[x]
<1> DEFINE v == Value(n)[LowDigits]
           w == Worth[LowDigits]
           T == {y \in Nat : y < w => Add(n, y) = Seals(n)[y]}
<1>1. v \in Nat /\ v < w /\ w \in Nat
  <2>1. LowDigits \in Nat
    BY Bases
  <2>2. w \in Nat
    BY <2>1, Bases
  <2>3. v \in Nat
    BY AddDigits
  <2>4. v < w
    BY ValueDigits
  <2> QED  BY <2>2, <2>3, <2>4
<1>2. 0 \in T
  <2>1. Add(n, 0) \in Digits /\ v + 0 = v /\ ~(v + 0 >= w)
    <3>1. 0 \in Nat
      OBVIOUS
    <3>2. Add(n, 0) \in Digits
      BY <3>1, AddDigits
    <3> QED  BY <1>1, <3>2
  <2>2. ASSUME NEW k \in 1..NonceDigits PROVE Add(n, 0)[k] = n[k]
    <3>1. 0 \in Nat
      OBVIOUS
    <3>2. Add(n, 0)[k] = IF k <= LowDigits THEN Digit(v + 0, k)
             ELSE IF v + 0 >= w /\ \A j \in (LowDigits + 1)..(k - 1) : n[j] = Base - 1
             THEN (n[k] + 1) % Base ELSE n[k]
      BY <3>1, AddDigits
    <3>3. k <= LowDigits => Digit(v, k) = n[k]
      <4>1. k <= LowDigits => k \in 1..LowDigits
        BY Bases
      <4> QED  BY <4>1, ValueDigits
    <3> HIDE DEF v, w
    <3> QED  BY <2>1, <3>2, <3>3
  <2>3. Add(n, 0) = n
    BY <2>1, <2>2, SameDigits
  <2> QED  BY <2>3, SealsAre DEF Digits
<1>3. ASSUME NEW y \in Nat, y + 1 < w, Add(n, y) = Seals(n)[y]
      PROVE  Add(n, y + 1) = Seals(n)[y + 1]
  <2> DEFINE s == v + y
             m == Add(n, y)
             next == Add(n, y + 1)
  <2>1. s \in Nat /\ s + 1 = v + (y + 1) /\ s + 1 < w + w - 1 /\ y + 1 \in Nat /\ w \in Nat \ {0}
    <3> HIDE DEF v, w
    <3> QED  BY <1>1, <1>3
  <2>2. Seals(n)[y + 1] = Increment(m)
    BY <1>3, SealsAre DEF Digits
  <2>3. m \in Digits /\ next \in Digits /\ Increment(m) \in Digits
    <3>1. m \in Digits /\ next \in Digits
      BY <2>1, AddDigits
    <3> HIDE DEF m, next
    <3>2. 1 \in Int
      OBVIOUS
    <3> QED  BY <3>1, <3>2, IncrementIs DEF Digits, Increment
  <2>4. \A k \in 1..NonceDigits :
          m[k] = IF k <= LowDigits THEN Digit(s, k)
                 ELSE IF s >= w /\ \A j \in (LowDigits + 1)..(k - 1) : n[j] = Base - 1
                 THEN (n[k] + 1) % Base ELSE n[k]
    BY AddDigits
  <2>5. \A k \in 1..NonceDigits :
          next[k] = IF k <= LowDigits THEN Digit(s + 1, k)
                    ELSE IF s + 1 >= w /\ \A j \in (LowDigits + 1)..(k - 1) : n[j] = Base - 1
                    THEN (n[k] + 1) % Base ELSE n[k]
    <3> DEFINE z == y + 1
    <3>1. z \in Nat /\ s + 1 = v + z
      BY <2>1
    <3> HIDE DEF z
    <3>2. \A k \in 1..NonceDigits :
            Add(n, z)[k] = IF k <= LowDigits THEN Digit(v + z, k)
                    ELSE IF v + z >= w /\ \A j \in (LowDigits + 1)..(k - 1) : n[j] = Base - 1
                    THEN (n[k] + 1) % Base ELSE n[k]
      BY <3>1, AddDigits
    <3> HIDE DEF s, v, w
    <3> QED  BY <3>1, <3>2 DEF z
  <2>6. Full(s, LowDigits + 1) <=> s = w - 1
    <3>1. Full(s, LowDigits + 1) <=> s % w = w - 1
      BY <2>1, FullIs, Bases
    <3>2. CASE s < w
      <4>1. s = 0 * w + s /\ s \in 0..(w - 1) /\ 0 \in Int /\ w \in Nat \ {0}
        BY <1>1, <2>1, <3>2
      <4>2. (0 * w + s) % w = s
        <5> HIDE DEF s, w
        <5> QED  BY <4>1, Quotient
      <4> QED  BY <3>1, <4>1, <4>2
    <3>3. CASE s >= w
      <4> DEFINE t == s - w
      <4>1. s = 1 * w + t /\ t \in 0..(w - 1) /\ t < w - 1 /\ 1 \in Int /\ w \in Nat \ {0}
        <5> HIDE DEF s, w, v
        <5> QED  BY <2>1, <3>3
      <4>2. (1 * w + t) % w = t
        <5> HIDE DEF t, w
        <5> QED  BY <4>1, Quotient
      <4>3. s # w - 1
        BY <1>1, <2>1, <3>3
      <4> HIDE DEF t
      <4> QED  BY <3>1, <4>1, <4>2, <4>3
    <3> QED  BY <1>1, <2>1, <3>2, <3>3
  <2> HIDE DEF s, m, next, v, w
  <2>7. \A k \in 1..NonceDigits :
          Increment(m)[k] = IF \A j \in 1..(k - 1) : m[j] = Base - 1
                            THEN (m[k] + 1) % Base ELSE m[k]
    BY <2>3 DEF Digits, Increment, Carry
  <2>8. ASSUME NEW k \in 1..NonceDigits PROVE Increment(m)[k] = next[k]
    <3>1. CASE k <= LowDigits
      <4>1. \A j \in 1..(k - 1) : j \in 1..NonceDigits /\ j <= LowDigits
        BY <3>1, Bases
      <4>2. (\A j \in 1..(k - 1) : m[j] = Base - 1) <=> Full(s, k)
        BY <2>4, <4>1 DEF Full
      <4>3. k \in Nat \ {0}
        OBVIOUS
      <4>4. Digit(s + 1, k) = IF Full(s, k) THEN (Digit(s, k) + 1) % Base ELSE Digit(s, k)
        BY <2>1, <4>3, NextDigit
      <4> QED  BY <2>4, <2>5, <2>7, <3>1, <4>2, <4>4
    <3>2. CASE k > LowDigits
      <4> DEFINE Rest == \A j \in (LowDigits + 1)..(k - 1) : n[j] = Base - 1
      <4>1. (\A j \in 1..(k - 1) : m[j] = Base - 1)
              <=> Full(s, LowDigits + 1) /\ \A j \in (LowDigits + 1)..(k - 1) : m[j] = Base - 1
        <5>1. (\A j \in 1..LowDigits : m[j] = Base - 1) <=> Full(s, LowDigits + 1)
          <6>1. (LowDigits + 1) - 1 = LowDigits /\ \A j \in 1..LowDigits : j \in 1..NonceDigits
            BY Bases
          <6> QED  BY <2>4, <6>1 DEF Full
        <5>2. \A j : j \in 1..(k - 1) <=> j \in 1..LowDigits \/ j \in (LowDigits + 1)..(k - 1)
          BY <3>2, Bases
        <5> QED  BY <5>1, <5>2
      <4>2. \A j \in (LowDigits + 1)..(k - 1) : j \in 1..NonceDigits /\ ~(j <= LowDigits)
        BY Bases
      <4>3. CASE s = w - 1
        <5>1. ~(s >= w) /\ s + 1 >= w
          BY <2>1, <4>3
        <5>2. \A j \in (LowDigits + 1)..(k - 1) : m[j] = n[j]
          BY <2>4, <4>2, <5>1
        <5>3. m[k] = n[k] /\ ~(k <= LowDigits)
          BY <2>4, <3>2, <5>1, Bases
        <5>4. (\A j \in 1..(k - 1) : m[j] = Base - 1) <=> Rest
          BY <2>6, <4>1, <4>3, <5>2
        <5>5. next[k] = IF Rest THEN (n[k] + 1) % Base ELSE n[k]
          BY <2>5, <5>1, <5>3
        <5> QED  BY <2>7, <5>3, <5>4, <5>5
      <4>4. CASE s # w - 1
        <5>1. s >= w <=> s + 1 >= w
          BY <1>1, <2>1, <4>4
        <5>2. Increment(m)[k] = m[k]
          BY <2>6, <2>7, <4>1, <4>4
        <5>3. ~(k <= LowDigits)
          BY <3>2, Bases
        <5> QED  BY <2>4, <2>5, <5>1, <5>2, <5>3
      <4> QED  BY <4>3, <4>4
    <3> QED  BY <3>1, <3>2, Bases
  <2>9. Increment(m) = next
    BY <2>3, <2>8, SameDigits
  <2> QED  BY <2>2, <2>9 DEF m, next
<1>4. ASSUME NEW y \in Nat, y # 0 PROVE y - 1 \in Nat /\ (y - 1 \in T => y \in T)
  <2>1. y - 1 \in Nat /\ (y - 1) + 1 = y
    BY <1>4
  <2> SUFFICES ASSUME y - 1 \in T, y < w PROVE Add(n, y) = Seals(n)[y]
    BY <2>1
  <2>2. Add(n, y - 1) = Seals(n)[y - 1]
    BY <1>1, <2>1
  <2>3. Add(n, (y - 1) + 1) = Seals(n)[(y - 1) + 1]
    BY <1>3, <2>1, <2>2
  <2> QED  BY <2>1, <2>3
<1>5. \A y \in Nat : y \in T
  <2> HIDE DEF T
  <2> QED  BY <1>2, <1>4, Inductive
<1> QED  BY <1>5

-----------------------------------------------------------------------------
(* Chunks in a row.                                                        *)

LEMMA Chunks ==
  ASSUME NEW s \in Seq(Chunk)
  PROVE  /\ Len(s) \in Nat /\ \A i \in 1..Len(s) : s[i] \in Chunk
         /\ s # <<>> => /\ Len(s) > 0 /\ Head(s) = s[1] /\ Head(s) \in Chunk
                        /\ Tail(s) \in Seq(Chunk) /\ Len(Tail(s)) = Len(s) - 1
                        /\ \A i \in 1..(Len(s) - 1) : Tail(s)[i] = s[i + 1]
         /\ \A c \in Chunk : /\ Append(s, c) \in Seq(Chunk) /\ Len(Append(s, c)) = Len(s) + 1
                             /\ Append(s, c)[Len(s) + 1] = c
                             /\ \A i \in 1..Len(s) : Append(s, c)[i] = s[i]
  OBVIOUS

LEMMA SpansAppend ==
  ASSUME NEW s \in Seq(Chunk), NEW c \in Chunk, NEW x \in Int, Spans(x, s, c.from), c.from < c.to
  PROVE  Spans(x, Append(s, c), c.to)
<1> DEFINE t == Append(s, c)
           n == Len(s)
<1>1. n \in Nat /\ Len(t) = n + 1 /\ t[n + 1] = c /\ \A i \in 1..n : t[i] = s[i] /\ s[i] \in Chunk
  BY Chunks
<1>2. c.from \in Int /\ c.to \in Int /\ \A i \in 1..n : s[i].from \in Int /\ s[i].to \in Int
  BY <1>1 DEF Chunk
<1>3. t # <<>>
  <2> HIDE DEF t
  <2>1. t = <<>> => Len(t) = 0
    OBVIOUS
  <2> QED  BY <1>1, <2>1
<1>4. CASE s = <<>>
  <2>1. n = 0 /\ x = c.from
    BY <1>4 DEF Spans
  <2> HIDE DEF t, n
  <2> QED  BY <1>1, <1>2, <1>3, <2>1 DEF Spans, t
<1>5. CASE s # <<>>
  <2>1. n > 0 /\ s[1].from = x /\ s[n].to = c.from
        /\ (\A i \in 1..n : s[i].from < s[i].to /\ s[i].to <= c.from)
        /\ (\A i \in 1..(n - 1) : s[i].to = s[i + 1].from)
    BY <1>1, <1>5, Chunks DEF Spans
  <2> HIDE DEF t, n
  <2>2. t[1].from = x /\ t[n + 1].to = c.to
    BY <1>1, <2>1
  <2>3. \A i \in 1..(n + 1) : t[i].from < t[i].to /\ t[i].to <= c.to
    BY <1>1, <1>2, <2>1, SMTT(30)
  <2>4. ASSUME NEW i \in 1..((n + 1) - 1) PROVE t[i].to = t[i + 1].from
    <3>1. CASE i = n
      <4>1. t[i] = s[n] /\ t[i + 1] = c
        BY <1>1, <2>1, <3>1
      <4> QED  BY <2>1, <4>1
    <3>2. CASE i # n
      <4>1. i \in 1..(n - 1) /\ i \in 1..n /\ i + 1 \in 1..n
        BY <1>1, <3>2
      <4>2. t[i] = s[i] /\ t[i + 1] = s[i + 1]
        BY <1>1, <4>1
      <4> QED  BY <2>1, <4>1, <4>2
    <3> QED  BY <3>1, <3>2
  <2> QED  BY <1>1, <1>3, <2>2, <2>3, <2>4 DEF Spans, t
<1> QED  BY <1>4, <1>5

LEMMA SpansTail ==
  ASSUME NEW s \in Seq(Chunk), NEW x \in Int, NEW y \in Int, Spans(x, s, y), s # <<>>
  PROVE  /\ Head(s).from = x /\ Head(s).from < Head(s).to /\ Head(s).to <= y
         /\ Spans(Head(s).to, Tail(s), y)
<1> DEFINE t == Tail(s)
           n == Len(s)
<1>1. n \in Nat \ {0} /\ Head(s) = s[1] /\ t \in Seq(Chunk) /\ Len(t) = n - 1
      /\ \A i \in 1..(n - 1) : t[i] = s[i + 1]
  BY Chunks
<1>2. s[1].from = x /\ s[n].to = y /\ (\A i \in 1..n : s[i].from < s[i].to /\ s[i].to <= y)
      /\ (\A i \in 1..(n - 1) : s[i].to = s[i + 1].from)
  BY DEF Spans
<1> HIDE DEF t, n
<1>3. CASE n = 1
  <2>1. t = <<>>
    BY <1>1, <1>3
  <2> QED  BY <1>1, <1>2, <1>3, <2>1 DEF Spans, t
<1>4. CASE n # 1
  <2>1. n - 1 \in Nat \ {0} /\ t # <<>>
    BY <1>1, <1>4
  <2>2. t[1].from = s[1].to /\ t[n - 1].to = y
    BY <1>1, <1>2, <2>1
  <2>3. ASSUME NEW i \in 1..(n - 1) PROVE t[i].from < t[i].to /\ t[i].to <= y
    <3>1. i + 1 \in 1..n /\ t[i] = s[i + 1]
      BY <1>1
    <3> QED  BY <1>2, <3>1
  <2>4. ASSUME NEW i \in 1..((n - 1) - 1) PROVE t[i].to = t[i + 1].from
    <3>1. i \in 1..(n - 1) /\ i + 1 \in 1..(n - 1) /\ t[i] = s[i + 1] /\ t[i + 1] = s[(i + 1) + 1]
      BY <1>1
    <3> QED  BY <1>2, <3>1
  <2> QED  BY <1>1, <1>2, <2>1, <2>2, <2>3, <2>4 DEF Spans, t
<1> QED  BY <1>3, <1>4

LEMMA SpansRange ==
  ASSUME NEW s \in Seq(Chunk), NEW x \in Int, NEW y \in Int, Spans(x, s, y)
  PROVE  x <= y
<1>1. CASE s = <<>>
  BY <1>1 DEF Spans
<1>2. CASE s # <<>>
  <2>1. Head(s) \in Chunk /\ Head(s).from = x /\ Head(s).from < Head(s).to /\ Head(s).to <= y
    BY <1>2, Chunks, SpansTail
  <2> QED  BY <2>1 DEF Chunk
<1> QED  BY <1>1, <1>2

-----------------------------------------------------------------------------
(* The source.                                                             *)

LEMMA SrcTypes ==
  ASSUME SrcTyped
  PROVE  /\ src.limit \in Int /\ src.offset \in Int /\ src.chunk \in Nat \ {0} /\ src.left \in Int
         /\ src.right \in Int /\ src.total \in Int /\ src.current \in Nat
         /\ Stop \in Int /\ At \in Int /\ Ahead \in Int /\ Fetched \in Int /\ Waiting \in Int
         /\ cur \in Chunk /\ cur.from \in Int /\ cur.to \in Int /\ Length(cur) \in Int
         /\ (Length(cur) > 0 <=> cur.from < cur.to)
<1>1. /\ src.limit \in Int /\ src.offset \in Int /\ src.chunk \in Nat \ {0} /\ src.left \in Int
      /\ src.right \in Int /\ src.total \in Int /\ src.current \in Nat
      /\ cur \in Chunk /\ cur.from \in Int /\ cur.to \in Int
  BY DEF SrcTyped, Chunk
<1>2. (src.total - src.current - 1) * src.chunk \in Int /\ src.chunk * Concurrency \in Int
  BY <1>1, Sizes
<1>3. Stop \in Int /\ At \in Int /\ Waiting \in Int
  BY <1>1, <1>2 DEF Stop, At, Waiting
<1>4. Ahead \in Int
  BY <1>1, <1>2, <1>3 DEF Ahead
<1>5. batch # <<>> => batch[1].from \in Int
  <2>1. batch # <<>> => batch[1] \in Chunk
    BY Chunks DEF SrcTyped
  <2> QED  BY <2>1 DEF Chunk
<1>6. Fetched \in Int
  BY <1>4, <1>5 DEF Fetched
<1> QED  BY <1>1, <1>3, <1>4, <1>6 DEF Length

\* A source that was just opened: all of it is ahead.
LEMMA Opened ==
  ASSUME NEW s \in Int, NEW e \in Int, OpenSource(s, e)
  PROVE  /\ SrcTyped' /\ src'.limit = e - s + 1
         /\ 0 <= s /\ s <= e => InLine' /\ Stop' = e + 1 /\ At' = s /\ Length(cur)' = 0
<1> DEFINE chunk == CalculateChunkSize(s, e)
           offset == s - (s % chunk)
           total == (e - offset + chunk) \div chunk
<1>1. chunk \in Nat \ {0}
  BY ChunkSizeIs
<1> HIDE DEF chunk
<1>2. s % chunk \in 0..(chunk - 1) /\ e % chunk \in 0..(chunk - 1)
      /\ s % chunk = s - (s \div chunk) * chunk /\ e % chunk = e - (e \div chunk) * chunk
      /\ s \div chunk \in Int /\ e \div chunk \in Int /\ (s \in Nat => s \div chunk \in Nat)
  BY <1>1, Division
<1>3. offset \in Int /\ offset = (s \div chunk) * chunk
  <2>1. (s \div chunk) * chunk \in Int
    BY <1>1, <1>2
  <2> QED  BY <1>2, <2>1
<1> DEFINE a == s \div chunk
           b == e \div chunk
           r == e % chunk
<1>4. total = b - a + 1
  <2>1. a \in Int /\ b \in Int /\ r \in 0..(chunk - 1) /\ e = b * chunk + r /\ offset = a * chunk
        /\ b * chunk \in Int /\ a * chunk \in Int
    <3>1. a * chunk \in Int /\ b * chunk \in Int
      BY <1>1, <1>2
    <3> QED  BY <1>2, <1>3, <3>1
  <2> HIDE DEF a, b, r, offset
  <2>2. (b - a + 1) * chunk = b * chunk - a * chunk + chunk
    <3>1. (b - a) * chunk = b * chunk - a * chunk /\ b - a \in Int
      BY <1>1, <2>1, Products
    <3> DEFINE c == b - a
    <3>2. c \in Int
      BY <3>1
    <3> HIDE DEF c
    <3>3. (c + 1) * chunk = c * chunk + chunk
      BY <1>1, <3>2
    <3> QED  BY <3>1, <3>3 DEF c
  <2>3. e - offset + chunk = (b - a + 1) * chunk + r
    BY <1>1, <2>1, <2>2
  <2>4. ((b - a + 1) * chunk + r) \div chunk = b - a + 1
    <3>1. b - a + 1 \in Int
      BY <2>1
    <3> QED  BY <1>1, <2>1, <3>1, Quotient
  <2> QED  BY <2>3, <2>4
<1> HIDE DEF offset, total
<1>5. /\ src' = [limit |-> e - s + 1, offset |-> offset, chunk |-> chunk, left |-> s - offset,
                 right |-> r + 1, total |-> total, current |-> 0]
      /\ producer' = (IF e < offset THEN "closed" ELSE "fetch")
      /\ batch' = <<>> /\ buffers' = <<>> /\ cur' = Nothing
  BY DEF OpenSource, chunk, offset, total
<1>6. a \in Int /\ b \in Int /\ r \in 0..(chunk - 1) /\ e = b * chunk + r /\ offset = a * chunk
        /\ b * chunk \in Int /\ a * chunk \in Int /\ s - offset \in 0..(chunk - 1)
        /\ (s \in Nat => a \in Nat)
  <2>1. a * chunk \in Int /\ b * chunk \in Int
    BY <1>1, <1>2
  <2>2. s - offset = s % chunk
    BY <1>2 DEF offset
  <2> QED  BY <1>2, <1>3, <2>1, <2>2
<1> HIDE DEF a, b, r
<1>7. e >= offset => total >= 1
  <2>1. b < a => b * chunk + chunk <= a * chunk
    BY <1>1, <1>6, Products
  <2> QED  BY <1>1, <1>4, <1>6, <2>1
<1>8. SrcTyped'
  <2>1. /\ src' \in [limit : Int, offset : Int, chunk : Nat \ {0}, left : Int, right : Int,
                     total : Int, current : Nat]
        /\ src'.current = 0 /\ src'.total = total
    BY <1>1, <1>3, <1>4, <1>5, <1>6
  <2>2. producer' \in Producers /\ (producer' = "fetch" => src'.current < src'.total)
    BY <1>3, <1>4, <1>5, <1>6, <1>7, <2>1 DEF Producers
  <2>3. Nothing \in Chunk /\ <<>> \in Seq(Chunk) /\ Len(<<>>) = 0
    BY DEF Nothing, Chunk
  <2> QED  BY <1>5, <2>1, <2>2, <2>3, Sizes DEF SrcTyped
<1>9. ASSUME 0 <= s, s <= e PROVE InLine' /\ Stop' = e + 1 /\ At' = s /\ Length(cur)' = 0
  <2>1. a <= b
    <3>1. b < a => b * chunk + chunk <= a * chunk
      BY <1>1, <1>6, Products
    <3> QED  BY <1>1, <1>6, <1>9, <3>1
  <2>2. total \in Nat \ {0} /\ (total - 1) * chunk = b * chunk - a * chunk /\ (total - 1) * chunk \in Int
    <3>1. total - 1 = b - a
      BY <1>4, <1>6
    <3>2. (b - a) * chunk = b * chunk - a * chunk
      BY <1>1, <1>6, Products
    <3> QED  BY <1>4, <1>6, <2>1, <3>1, <3>2
  <2>3. Stop' = e + 1
    <3>1. Stop' = offset + (total - 0 - 1) * chunk + (r + 1)
      BY <1>5 DEF Stop
    <3>2. total - 0 - 1 = total - 1
      BY <2>2
    <3> QED  BY <1>1, <1>6, <2>2, <3>1, <3>2
  <2>4. At' = s /\ Length(cur)' = 0 /\ Waiting' = s
    BY <1>5, <2>3 DEF At, Length, Nothing, Waiting
  <2>5. a \in Nat /\ a * chunk >= 0
    BY <1>1, <1>6, <1>9
  <2>6. e >= offset /\ producer' = "fetch"
    BY <1>1, <1>3, <1>5, <1>6, <1>9
  <2>7. Ahead' = s
    <3>1. Ahead' = offset + (s - offset)
      BY <1>5, <2>2, <2>6 DEF Ahead
    <3> QED  BY <1>3, <3>1
  <2>8. Fetched' = s
    BY <1>5, <2>7 DEF Fetched
  <2>9. total = 1 => s - offset < r + 1
    <3>1. total = 1 => a * chunk = b * chunk
      <4>1. total = 1 => b = a
        BY <1>4, <1>6
      <4> QED  BY <4>1
    <3> QED  BY <1>1, <1>6, <1>9, <3>1
  <2>10. Spans(Waiting, buffers, Fetched)' /\ Spans(Fetched, batch, Ahead)'
    BY <1>5, <2>4, <2>7, <2>8 DEF Spans
  <2>11. src'.limit >= 0 /\ src'.offset >= 0 /\ src'.left \in 0..(src'.chunk - 1)
         /\ src'.right \in 1..src'.chunk /\ (src'.total = 1 => src'.left < src'.right)
    BY <1>1, <1>5, <1>6, <1>9, <2>5, <2>9
  <2>12. Fetched' <= Ahead' /\ Ahead' <= Stop'
    BY <1>9, <2>3, <2>7, <2>8
  <2>13. InLine'
    BY <1>5, <2>4, <2>6, <2>10, <2>11, <2>12 DEF InLine
  <2> QED  BY <2>3, <2>4, <2>13
<1> QED  BY <1>5, <1>8, <1>9

-----------------------------------------------------------------------------
(* Parts.                                                                  *)

LEMMA PartIs ==
  ASSUME ReqTyped
  PROVE  /\ PartSizes \in Files /\ PartSizes[1] \in Nat \ {0} /\ PartSize = PartSizes[1]
         /\ Len(PartSizes) \in Nat \ {0} /\ SizeOf(req.file) \in Nat
         /\ HasPart => /\ pos + 1 \in 1..Len(PartSizes) /\ PartSizes[pos + 1] \in Nat \ {0}
                       /\ Stored(pos) \in Nat \ {0}
                       /\ pos * PartSizes[1] <= req.end
<1> DEFINE z == PartSizes[1]
<1>1. PartSizes \in Files /\ req.enc \in BOOLEAN /\ pos \in Nat /\ req.end \in Int
  BY DEF ReqTyped, PartSizes
<1>2. Len(PartSizes) \in Nat \ {0} /\ \A p \in 1..Len(PartSizes) : PartSizes[p] \in Nat \ {0}
  BY <1>1, PartsOf
<1>3. z \in Nat \ {0}
  BY <1>2
<1>4. PartSize = z
  <2>1. 0 + 1 = 1
    OBVIOUS
  <2>2. req.enc => PartSize = DecryptedSize(EncryptedSize(z))
    BY <2>1 DEF PartSize, Stored
  <2>3. ~req.enc => PartSize = z
    BY <2>1 DEF PartSize, Stored
  <2> HIDE DEF z
  <2> QED  BY <1>3, <2>2, <2>3, Decrypted
<1>5. SizeOf(req.file) \in Nat
  BY <1>1, SizeIs DEF PartSizes
<1>6. ASSUME HasPart
      PROVE  /\ pos + 1 \in 1..Len(PartSizes) /\ PartSizes[pos + 1] \in Nat \ {0}
             /\ Stored(pos) \in Nat \ {0} /\ pos * z <= req.end
  <2>1. pos + 1 \in 1..Len(PartSizes) /\ pos <= req.end \div z
    BY <1>1, <1>2, <1>4, <1>6 DEF HasPart
  <2>2. PartSizes[pos + 1] \in Nat \ {0}
    BY <1>2, <2>1
  <2>3. Stored(pos) \in Nat \ {0}
    BY <2>2, Decrypted, Sizes DEF Stored
  <2> HIDE DEF z
  <2>4. req.end \div z \in Int /\ req.end % z \in 0..(z - 1) /\ req.end % z = req.end - (req.end \div z) * z
    BY <1>1, <1>3, Division
  <2> DEFINE q == req.end \div z
  <2>5. pos * z <= q * z /\ q * z \in Int /\ pos * z \in Int
    BY <1>1, <1>3, <2>1, <2>4, Products, SMTT(30)
  <2> QED  BY <1>1, <1>3, <2>1, <2>2, <2>3, <2>4, <2>5, SMTT(30)
<1> QED  BY <1>1, <1>2, <1>3, <1>4, <1>5, <1>6

-----------------------------------------------------------------------------
(* Steps of the source.                                                    *)

Available == Length(cur) > 0 \/ buffers # <<>>

LEMMA AtHandIs ==
  ASSUME SrcTyped, Available
  PROVE  /\ AtHand \in Chunk /\ AtHand = IF Length(cur) > 0 THEN cur ELSE buffers[1]
         /\ ~(Length(cur) > 0) => buffers # <<>> /\ Head(buffers) = buffers[1]
<1>1. cur \in Chunk /\ (buffers # <<>> => Head(buffers) = buffers[1] /\ buffers[1] \in Chunk)
  BY Chunks DEF SrcTyped
<1> QED  BY <1>1 DEF Available, AtHand

LEMMA PieceIs ==
  ASSUME SrcTyped, Available, NEW want \in Nat
  PROVE  /\ Piece(want) \in Chunk /\ Length(Piece(want)) \in 0..want
         /\ Piece(want).from = AtHand.from /\ Piece(want).to <= AtHand.to
         /\ Piece(want).to = Piece(want).from + Length(Piece(want))
         /\ want > 0 /\ AtHand.from < AtHand.to => Length(Piece(want)) > 0
         /\ Piece(Length(Piece(want))) = Piece(want)
<1>1. AtHand \in Chunk
  BY AtHandIs
<1> DEFINE h == AtHand
<1>2. h.from \in Int /\ h.to \in Int /\ h.from <= h.to
  BY <1>1 DEF Chunk
<1>3. \A w : Piece(w) = [from |-> h.from, to |-> Least(h.from + w, h.to)]
  BY DEF Piece
<1> HIDE DEF h
<1>4. Piece(want).from = h.from /\ Piece(want).to = Least(h.from + want, h.to)
  BY <1>3
<1>5. Least(h.from + want, h.to) \in h.from..h.to /\ Least(h.from + want, h.to) <= h.from + want
      /\ (want > 0 /\ h.from < h.to => h.from < Least(h.from + want, h.to))
      /\ Least(h.from + want, h.to) \in Int
  BY <1>2 DEF Least
<1>6. Piece(want) \in Chunk
  BY <1>2, <1>3, <1>5 DEF Chunk
<1> DEFINE m == Least(h.from + want, h.to)
<1>7. Length(Piece(want)) = m - h.from
  BY <1>4 DEF Length
<1>8. Least(h.from + (m - h.from), h.to) = m
  <2> HIDE DEF m
  <2>1. m \in Int /\ m <= h.to
    BY <1>2, <1>5 DEF m
  <2> QED  BY <1>2, <2>1 DEF Least
<1>9. Piece(Length(Piece(want))) = Piece(want)
  BY <1>3, <1>7, <1>8
<1> HIDE DEF m
<1>10. m \in Int /\ m \in h.from..h.to /\ m <= h.from + want /\ (want > 0 /\ h.from < h.to => h.from < m)
  BY <1>5 DEF m
<1> QED  BY <1>2, <1>4, <1>6, <1>7, <1>9, <1>10 DEF h, m

LEMMA SourceReadsTyped ==
  ASSUME SrcTyped, Available, NEW want \in Nat, SourceReads(want)
  PROVE  SrcTyped' /\ src'.limit = src.limit - Length(Piece(want))
<1> DEFINE p == Piece(want)
<1>1. p \in Chunk /\ p.to <= AtHand.to /\ AtHand \in Chunk /\ Length(p) \in Int /\ p.to \in Int
  BY PieceIs, AtHandIs DEF Chunk
<1> HIDE DEF p
<1>2. /\ cur' = [AtHand EXCEPT !.from = p.to]
      /\ buffers' = (IF Length(cur) > 0 THEN buffers ELSE Tail(buffers))
      /\ src' = [src EXCEPT !.limit = @ - Length(p)]
      /\ producer' = producer /\ batch' = batch
  BY DEF SourceReads, p
<1>3. cur' \in Chunk
  BY <1>1, <1>2 DEF Chunk
<1>4. buffers' \in Seq(Chunk) /\ Len(buffers') <= Buffers
  <2>1. ~(Length(cur) > 0) => Tail(buffers) \in Seq(Chunk) /\ Len(Tail(buffers)) = Len(buffers) - 1
    BY Chunks, AtHandIs DEF SrcTyped
  <2>2. Len(buffers) \in Nat /\ Len(buffers) <= Buffers /\ buffers \in Seq(Chunk)
    BY DEF SrcTyped
  <2> QED  BY <1>2, <2>1, <2>2, Sizes
<1>5. /\ src' \in [limit : Int, offset : Int, chunk : Nat \ {0}, left : Int, right : Int,
                   total : Int, current : Nat]
      /\ src'.current = src.current /\ src'.total = src.total /\ src'.limit = src.limit - Length(p)
  BY <1>1, <1>2, SMTT(30) DEF SrcTyped
<1> QED  BY <1>2, <1>3, <1>4, <1>5 DEF SrcTyped, p

\* The source hands out the bytes in their order.
LEMMA SourceReadsInLine ==
  ASSUME SrcTyped, Available, NEW want \in Nat, SourceReads(want), InLine, UNCHANGED faulted
  PROVE  /\ AtHand.from = At /\ At < AtHand.to /\ AtHand.to <= Stop
         /\ InLine' /\ Stop' = Stop /\ At' = At + Length(Piece(want))
<1> DEFINE p == Piece(want)
<1>1. p \in Chunk /\ p.from = AtHand.from /\ p.to <= AtHand.to /\ AtHand \in Chunk /\ Length(p) \in Nat
      /\ p.to \in Int /\ p.to = p.from + Length(p) /\ p.from \in Int /\ AtHand.to \in Int
  BY PieceIs, AtHandIs DEF Chunk
<1> HIDE DEF p
<1>2. /\ cur' = [AtHand EXCEPT !.from = p.to]
      /\ buffers' = (IF Length(cur) > 0 THEN buffers ELSE Tail(buffers))
      /\ src' = [src EXCEPT !.limit = @ - Length(p)]
      /\ producer' = producer /\ batch' = batch
  BY DEF SourceReads, p
<1>3. /\ cur'.from = p.to /\ cur'.to = AtHand.to
      /\ src'.limit = src.limit - Length(p) /\ src'.offset = src.offset /\ src'.chunk = src.chunk
      /\ src'.left = src.left /\ src'.right = src.right /\ src'.total = src.total
      /\ src'.current = src.current
  BY <1>1, <1>2 DEF SrcTyped, Chunk
<1>4. Stop' = Stop /\ Ahead' = Ahead /\ Fetched' = Fetched
  <2>1. Stop' = Stop
    BY <1>3 DEF Stop
  <2>2. Ahead' = Ahead
    BY <1>2, <1>3, <2>1 DEF Ahead
  <2> QED  BY <1>2, <2>1, <2>2 DEF Fetched
<1>5. At' = At + Length(p)
  <2>1. At' = Stop - (src.limit - Length(p)) /\ At = Stop - src.limit
    BY <1>3, <1>4 DEF At
  <2> QED  BY <1>1, <2>1, SrcTypes
<1>6. /\ AtHand.from = At /\ At < AtHand.to /\ AtHand.to <= Stop
      /\ Spans(AtHand.to, buffers', Fetched) /\ buffers' \in Seq(Chunk)
  <2>1. CASE Length(cur) > 0
    <3>1. cur.from = At /\ cur.to <= Stop /\ cur.from < cur.to /\ Waiting = cur.to /\ AtHand = cur
      BY <2>1, SrcTypes, AtHandIs DEF InLine, Waiting
    <3> QED  BY <1>2, <2>1, <3>1 DEF InLine, SrcTyped
  <2>2. CASE ~(Length(cur) > 0)
    <3>1. Waiting = At /\ buffers # <<>> /\ AtHand = Head(buffers) /\ buffers \in Seq(Chunk)
          /\ Spans(At, buffers, Fetched) /\ At \in Int /\ Fetched \in Int /\ Ahead \in Int /\ Stop \in Int
          /\ Fetched <= Ahead /\ Ahead <= Stop /\ buffers' = Tail(buffers)
      BY <1>2, <2>2, SrcTypes, AtHandIs DEF InLine, Waiting, SrcTyped
    <3>2. AtHand.from = At /\ At < AtHand.to /\ AtHand.to <= Fetched
          /\ Spans(AtHand.to, Tail(buffers), Fetched) /\ Tail(buffers) \in Seq(Chunk)
      BY <3>1, SpansTail, Chunks
    <3> QED  BY <1>1, <3>1, <3>2
  <2> QED  BY <2>1, <2>2
<1>7. At' = p.to
  BY <1>1, <1>5, <1>6, SrcTypes
<1>8. src'.limit >= 0
  <2>1. At = Stop - src.limit /\ Stop \in Int /\ src.limit \in Int
    BY SrcTypes DEF At
  <2>2. src'.limit = src.limit - Length(p) /\ Length(p) \in Int /\ p.to = At + Length(p)
        /\ p.to \in Int /\ p.to <= Stop
    <3>1. p.to <= Stop
      BY <1>1, <1>6, SrcTypes, SMTT(30)
    <3> QED  BY <1>1, <1>3, <1>6, <3>1
  <2>3. src'.limit = Stop - p.to
    BY <2>1, <2>2
  <2> QED  BY <2>1, <2>2, <2>3
<1>9. Waiting' = AtHand.to
  <2>1. Length(cur)' = AtHand.to - p.to
    BY <1>3 DEF Length
  <2> QED  BY <1>1, <1>3, <1>7, <2>1 DEF Waiting
<1>10. Spans(Waiting, buffers, Fetched)' /\ Spans(Fetched, batch, Ahead)'
  BY <1>2, <1>4, <1>6, <1>9 DEF InLine
<1>11. InLine'
  BY <1>2, <1>3, <1>4, <1>6, <1>7, <1>8, <1>10 DEF InLine
<1> QED  BY <1>4, <1>5, <1>6, <1>11 DEF p

LEMMA FetchBatchTyped ==
  ASSUME ReqTyped, HasPart, SrcTyped, FetchBatch
  PROVE  SrcTyped'
<1> DEFINE m == Least(Concurrency, src.total - src.current)
<1>1. /\ producer = "fetch" /\ producer' = "push" /\ src' = src /\ buffers' = buffers /\ cur' = cur
      /\ batch' = [k \in 1..m |-> ChunkOf(k - 1)] /\ \A k \in 0..(m - 1) : Exists(k)
  BY DEF FetchBatch, InBatch
<1>2. m \in Nat \ {0} /\ m <= Concurrency
  BY <1>1, Sizes, SrcTypes, SMTT(30) DEF Least, SrcTyped
<1> HIDE DEF m
<1>3. ASSUME NEW k \in 0..(m - 1) PROVE ChunkOf(k) \in Chunk
  <2> DEFINE from == src.offset + k * src.chunk
             to   == Least(from + src.chunk, Stored(pos))
  <2>1. k * src.chunk \in Int /\ Stored(pos) \in Int
    <3>1. Stored(pos) \in Int
      BY PartIs
    <3>2. k \in Int /\ src.chunk \in Int
      BY <1>2, SrcTypes
    <3> QED  BY <3>1, <3>2
  <2>2. from \in Int /\ to \in Int
    BY <2>1, SrcTypes DEF Least
  <2>3. ChunkOf(k) = [from |-> IF src.current + k = 0 THEN from + src.left ELSE from,
                      to   |-> IF src.current + k + 1 = src.total THEN from + src.right ELSE to]
    BY DEF ChunkOf, Cut
  <2> HIDE DEF from, to
  <2>4. ChunkOf(k) \in [from : Int, to : Int]
    <3>1. from + src.left \in Int /\ from + src.right \in Int
      BY <2>2, SrcTypes
    <3> QED  BY <2>2, <2>3, <3>1
  <2>5. ChunkOf(k).from <= ChunkOf(k).to
    BY <1>1 DEF Exists
  <2> QED  BY <2>4, <2>5 DEF Chunk
<1>4. batch' \in Seq(Chunk) /\ Len(batch') = m
  <2>1. \A k \in 1..m : ChunkOf(k - 1) \in Chunk
    BY <1>2, <1>3
  <2> QED  BY <1>1, <1>2, <2>1
<1> QED  BY <1>1, <1>2, <1>4 DEF SrcTyped, Producers

\* A chunk of a batch, cut to the source.
LEMMA ChunkIs ==
  ASSUME ReqTyped, HasPart, SrcTyped, InLine, Stop <= Stored(pos), producer = "fetch",
         NEW k \in Nat, k < src.total - src.current
  PROVE  /\ ChunkOf(k).from = src.offset + k * src.chunk
                                + IF src.current = 0 /\ k = 0 THEN src.left ELSE 0
         /\ ChunkOf(k).to = IF k + 1 = src.total - src.current THEN Stop
                            ELSE src.offset + (k + 1) * src.chunk
         /\ ChunkOf(k).from < ChunkOf(k).to /\ ChunkOf(k).to <= Stop
         /\ ChunkOf(k).from \in Int /\ ChunkOf(k).to \in Int
<1> DEFINE o == src.offset
           c == src.chunk
           t == src.total - src.current
           from == o + k * c
           stored == Stored(pos)
<1>1. /\ o \in Int /\ c \in Nat \ {0} /\ t \in Nat \ {0} /\ src.left \in 0..(c - 1) /\ src.right \in 1..c
      /\ src.current \in Nat /\ src.total \in Int
      /\ stored \in Int /\ Stop \in Int /\ Stop <= stored
      /\ (src.current = 0 /\ src.total = 1 => src.left < src.right)
  <2>1. /\ o \in Int /\ c \in Nat \ {0} /\ src.current \in Nat /\ src.total \in Int
        /\ Stop \in Int
    BY SrcTypes
  <2>2. stored \in Int /\ Stop <= stored
    BY PartIs
  <2>3. t \in Nat \ {0}
    BY <2>1
  <2>4. src.left \in 0..(c - 1) /\ src.right \in 1..c
        /\ (src.current = 0 /\ src.total = 1 => src.left < src.right)
    BY DEF InLine
  <2> QED  BY <2>1, <2>2, <2>3, <2>4
<1>2. k * c \in Int /\ (k + 1) * c = k * c + c /\ (t - 1) * c \in Int
      /\ (k + 1 < t => k * c + c <= (t - 1) * c)
      /\ (k + 1 = t => k * c = (t - 1) * c)
  <2> HIDE DEF c, t
  <2>1. k * c \in Int /\ (k + 1) * c = k * c + c
    BY <1>1, Products
  <2>2. (t - 1) * c \in Int
    BY <1>1
  <2>3. k < t - 1 => k * c + c <= (t - 1) * c
    <3>1. t - 1 \in Int
      BY <1>1
    <3> QED  BY <1>1, <3>1, Products
  <2>4. k + 1 = t => k = t - 1
    BY <1>1
  <2> QED  BY <1>1, <2>1, <2>2, <2>3, <2>4
<1>3. Stop = o + (t - 1) * c + src.right
  BY DEF Stop
<1>4. ChunkOf(k) = [from |-> IF src.current + k = 0 THEN from + src.left ELSE from,
                    to   |-> IF src.current + k + 1 = src.total THEN from + src.right
                             ELSE Least(from + c, stored)]
  BY DEF ChunkOf, Cut
<1>5. (src.current + k = 0 <=> src.current = 0 /\ k = 0) /\ (src.current + k + 1 = src.total <=> k + 1 = t)
      /\ (k + 1 = t /\ src.current = 0 /\ k = 0 => src.total = 1)
  BY <1>1
<1>6. from \in Int /\ from = o + k * c
  BY <1>1, <1>2
<1>7. (k + 1) * c = k * c + c /\ o + (k + 1) * c = from + c
  BY <1>1, <1>2, <1>6
<1> DEFINE kc == k * c
           tc == (t - 1) * c
<1>8. kc \in Int /\ tc \in Int /\ (k + 1 < t => kc + c <= tc) /\ (k + 1 = t => kc = tc)
      /\ Stop = o + tc + src.right /\ from = o + kc
  BY <1>2, <1>3, <1>6
<1> HIDE DEF kc, tc, from, stored
<1>9. CASE k + 1 = t
  <2>1. ChunkOf(k).to = from + src.right /\ from + src.right = Stop
    BY <1>1, <1>4, <1>5, <1>8, <1>9
  <2>2. ChunkOf(k).from = from + IF src.current = 0 /\ k = 0 THEN src.left ELSE 0
    BY <1>4, <1>5, <1>6
  <2>3. (IF src.current = 0 /\ k = 0 THEN src.left ELSE 0) \in 0..(src.right - 1)
    BY <1>1, <1>5, <1>9, SMTT(30)
  <2> QED  BY <1>1, <1>6, <1>9, <2>1, <2>2, <2>3
<1>10. CASE k + 1 # t
  <2>1. k + 1 < t
    BY <1>1, <1>10
  <2>2. from + c <= Stop /\ from + c <= stored
    BY <1>1, <1>8, <2>1
  <2>3. ChunkOf(k).to = from + c
    BY <1>1, <1>4, <1>5, <1>6, <1>10, <2>2 DEF Least
  <2>4. ChunkOf(k).from = from + IF src.current = 0 /\ k = 0 THEN src.left ELSE 0
    BY <1>4, <1>5, <1>6
  <2>5. (IF src.current = 0 /\ k = 0 THEN src.left ELSE 0) \in 0..(c - 1)
    BY <1>1
  <2>6. ChunkOf(k).to = IF k + 1 = t THEN Stop ELSE o + (k + 1) * c
    BY <1>7, <1>10, <2>3
  <2>7. ChunkOf(k).from < ChunkOf(k).to /\ ChunkOf(k).to <= Stop
        /\ ChunkOf(k).from \in Int /\ ChunkOf(k).to \in Int
    BY <1>1, <1>6, <2>2, <2>3, <2>4, <2>5
  <2> QED  BY <1>6, <2>4, <2>6, <2>7
<1> QED  BY <1>9, <1>10

\* Nothing is missing from a part, so cutting a chunk does not panic.
LEMMA AllExist ==
  ASSUME ReqTyped, HasPart, SrcTyped, InLine, Stop <= Stored(pos), producer = "fetch",
         NEW k \in InBatch
  PROVE  Exists(k)
<1>1. k \in Nat /\ k < src.total - src.current
  BY Sizes, SrcTypes DEF InBatch, Least
<1>2. ChunkOf(k).from < ChunkOf(k).to /\ ChunkOf(k).to <= Stop
      /\ ChunkOf(k).from \in Int /\ ChunkOf(k).to \in Int
  BY <1>1, ChunkIs
<1>3. Stop \in Int /\ Stored(pos) \in Int
  BY SrcTypes, PartIs
<1> QED  BY <1>2, <1>3 DEF Exists

LEMMA FetchBatchInLine ==
  ASSUME ReqTyped, HasPart, SrcTyped, InLine, Stop <= Stored(pos), FetchBatch
  PROVE  InLine' /\ Stop' = Stop /\ At' = At
<1> DEFINE t == src.total - src.current
           m == Least(Concurrency, t)
           o == src.offset
           c == src.chunk
           s == batch'
<1>1. /\ producer = "fetch" /\ producer' = "push" /\ src' = src /\ buffers' = buffers /\ cur' = cur
      /\ s = [k \in 1..m |-> ChunkOf(k - 1)] /\ faulted' = faulted
  BY DEF FetchBatch, InBatch
<1>2. t \in Nat \ {0} /\ m \in 1..t /\ m <= Concurrency /\ (m = t \/ m = Concurrency)
      /\ o \in Int /\ c \in Nat \ {0} /\ src.current \in Nat /\ src.total \in Int
      /\ src.left \in Int /\ src.current < src.total /\ Stop \in Int
  <2>1. o \in Int /\ c \in Nat \ {0} /\ src.current \in Nat /\ src.total \in Int
        /\ src.left \in Int /\ Stop \in Int
    BY SrcTypes
  <2>2. src.current < src.total /\ t \in Nat \ {0}
    BY <1>1, <2>1 DEF SrcTyped
  <2>3. Concurrency \in Nat \ {0}
    BY Sizes
  <2> HIDE DEF t
  <2>4. m \in 1..t /\ m <= Concurrency /\ (m = t \/ m = Concurrency)
    BY <2>2, <2>3 DEF Least
  <2> QED  BY <2>1, <2>2, <2>4
<1> HIDE DEF m
<1>3. s \in Seq(Chunk) /\ Len(s) = m /\ s # <<>>
  <2>1. s \in Seq(Chunk)
    BY FetchBatchTyped DEF SrcTyped
  <2>2. Len(s) = m
    BY <1>1, <1>2
  <2> HIDE DEF s
  <2> QED  BY <1>2, <2>1, <2>2
<1>4. ASSUME NEW i \in 1..m
      PROVE  /\ s[i].from = o + (i - 1) * c + IF src.current = 0 /\ i = 1 THEN src.left ELSE 0
             /\ s[i].to = IF i = t THEN Stop ELSE o + i * c
             /\ s[i].from < s[i].to /\ s[i].to <= Stop /\ s[i].from \in Int /\ s[i].to \in Int
  <2> DEFINE k == i - 1
  <2>1. k \in Nat /\ k < t /\ k + 1 = i /\ (k = 0 <=> i = 1) /\ s[i] = ChunkOf(k)
    BY <1>1, <1>2
  <2> HIDE DEF k, s
  <2>2. /\ ChunkOf(k).from = o + k * c + IF src.current = 0 /\ k = 0 THEN src.left ELSE 0
        /\ ChunkOf(k).to = IF k + 1 = t THEN Stop ELSE o + (k + 1) * c
        /\ ChunkOf(k).from < ChunkOf(k).to /\ ChunkOf(k).to <= Stop
        /\ ChunkOf(k).from \in Int /\ ChunkOf(k).to \in Int
    BY <1>1, <2>1, ChunkIs
  <2> QED  BY <2>1, <2>2 DEF k
<1> DEFINE y == IF src.current + Concurrency < src.total THEN o + c * Concurrency ELSE Stop
<1>5. Stop' = Stop /\ At' = At
  BY <1>1 DEF Stop, At
<1>6. Ahead' = y
  BY <1>1, <1>2, <1>5 DEF Ahead
<1>7. y = (IF m = t THEN Stop ELSE o + m * c) /\ y \in Int
  <2>1. CASE src.current + Concurrency < src.total
    <3>1. m = Concurrency /\ m # t /\ m * c = c * Concurrency /\ m * c \in Int
      <4>1. m = Concurrency /\ m # t
        BY <1>2, <2>1, Sizes
      <4> QED  BY <1>2, <4>1, Sizes
    <3> QED  BY <1>2, <2>1, <3>1
  <2>2. CASE ~(src.current + Concurrency < src.total)
    <3>1. m = t
      BY <1>2, <2>2, Sizes
    <3> QED  BY <1>2, <2>2, <3>1
  <2> QED  BY <2>1, <2>2
<1> HIDE DEF y
<1>8. \A i \in 1..m : s[i].to <= y
  <2> SUFFICES ASSUME NEW i \in 1..m PROVE s[i].to <= y
    OBVIOUS
  <2>1. CASE m = t
    BY <1>4, <1>7, <2>1
  <2>2. CASE m # t
    <3>1. i # t /\ i * c <= m * c
      BY <1>2, <2>2, Products
    <3>2. s[i].to = o + i * c /\ y = o + m * c /\ i * c \in Int /\ m * c \in Int
      BY <1>2, <1>4, <1>7, <2>2, <3>1
    <3> QED  BY <1>2, <3>1, <3>2
  <2> QED  BY <2>1, <2>2
<1>9. \A i \in 1..(m - 1) : s[i].to = s[i + 1].from
  <2> SUFFICES ASSUME NEW i \in 1..(m - 1) PROVE s[i].to = s[i + 1].from
    OBVIOUS
  <2>1. i \in 1..m /\ i + 1 \in 1..m /\ i # t /\ i + 1 # 1 /\ (i + 1) - 1 = i
    BY <1>2
  <2>2. s[i].to = o + i * c
    BY <1>4, <2>1
  <2>3. s[i + 1].from = o + ((i + 1) - 1) * c + 0
    BY <1>4, <2>1
  <2>4. i * c \in Int
    BY <1>2
  <2> QED  BY <1>2, <2>1, <2>2, <2>3, <2>4
<1>10. s[m].to = y
  BY <1>2, <1>4, <1>7
<1>11. s[1].from = Fetched
  <2>1. batch = <<>> /\ Fetched = Ahead /\ Ahead = o + IF src.current = 0 THEN src.left ELSE 0
    BY <1>1, <1>2 DEF InLine, Fetched, Ahead
  <2>2. 1 \in 1..m /\ (1 - 1) * c = 0
    BY <1>2
  <2>3. s[1].from = o + (1 - 1) * c + IF src.current = 0 /\ 1 = 1 THEN src.left ELSE 0
    BY <1>4, <2>2
  <2> QED  BY <1>2, <2>1, <2>2, <2>3
<1>12. Fetched' = Fetched
  BY <1>3, <1>11 DEF Fetched
<1>13. Spans(Fetched, s, y)
  <2> HIDE DEF s
  <2> QED  BY <1>3, <1>4, <1>8, <1>9, <1>10, <1>11 DEF Spans
<1>14. Spans(Waiting, buffers, Fetched)'
  <2>1. Waiting' = Waiting
    BY <1>1, <1>5 DEF Waiting, Length
  <2> QED  BY <1>1, <1>12, <2>1 DEF InLine
<1>15. Fetched <= y
  BY <1>3, <1>7, <1>13, SpansRange, SrcTypes
<1>16. y <= Stop
  BY <1>2, <1>4, <1>10
<1>17. (src.current = 0 /\ src.total = 1 => src.left < src.right) /\ src.limit >= 0 /\ src.offset >= 0
       /\ src.left \in 0..(src.chunk - 1) /\ src.right \in 1..src.chunk
       /\ (Length(cur) > 0 => cur.from = At /\ cur.to <= Stop)
  BY DEF InLine
<1>18. InLine'
  BY <1>1, <1>5, <1>6, <1>12, <1>13, <1>14, <1>15, <1>16, <1>17 DEF InLine, Length
<1> QED  BY <1>5, <1>18

LEMMA HandOverKeeps ==
  ASSUME SrcTyped, HandOver
  PROVE  SrcTyped' /\ (InLine => InLine' /\ Stop' = Stop /\ At' = At)
<1> DEFINE h == Head(batch)
<1>1. /\ producer = "push" /\ batch # <<>> /\ Len(buffers) < Buffers
      /\ buffers' = Append(buffers, h) /\ batch' = Tail(batch)
      /\ producer' = producer /\ src' = src /\ cur' = cur /\ faulted' = faulted
  BY DEF HandOver, Room
<1>2. /\ h \in Chunk /\ Tail(batch) \in Seq(Chunk) /\ Len(Tail(batch)) = Len(batch) - 1
      /\ Len(batch) \in Nat /\ Len(batch) <= Concurrency /\ batch \in Seq(Chunk) /\ buffers \in Seq(Chunk)
      /\ Append(buffers, h) \in Seq(Chunk) /\ Len(Append(buffers, h)) = Len(buffers) + 1
      /\ Len(buffers) \in Nat
  BY <1>1, Chunks DEF SrcTyped
<1> HIDE DEF h
<1>3. SrcTyped'
  BY <1>1, <1>2, Sizes DEF SrcTyped
<1>4. ASSUME InLine PROVE InLine' /\ Stop' = Stop /\ At' = At
  <2>1. Stop' = Stop /\ At' = At /\ Ahead' = Ahead /\ Waiting' = Waiting
    BY <1>1 DEF Stop, At, Ahead, Waiting, Length
  <2>2. Fetched = batch[1].from /\ Spans(Fetched, batch, Ahead) /\ Fetched \in Int /\ Ahead \in Int
        /\ Waiting \in Int /\ Ahead <= Stop
    BY <1>1, <1>4, SrcTypes DEF Fetched, InLine
  <2>3. h.from = Fetched /\ h.from < h.to /\ h.to <= Ahead /\ Spans(h.to, Tail(batch), Ahead)
    BY <1>1, <1>2, <2>2, SpansTail DEF h
  <2>4. Fetched' = h.to
    BY <1>1, <2>1, <2>3 DEF Fetched, Spans
  <2>5. Spans(Waiting, Append(buffers, h), h.to)
    <3>1. Spans(Waiting, buffers, h.from)
      BY <1>4, <2>3 DEF InLine
    <3> QED  BY <1>2, <2>2, <2>3, <3>1, SpansAppend
  <2>6. Spans(Waiting, buffers, Fetched)' /\ Spans(Fetched, batch, Ahead)' /\ (Fetched <= Ahead)'
    BY <1>1, <2>1, <2>3, <2>4, <2>5
  <2> QED  BY <1>1, <1>4, <2>1, <2>2, <2>6 DEF InLine, Length
<1> QED  BY <1>3, <1>4

LEMMA NextBatchKeeps ==
  ASSUME SrcTyped, NextBatch
  PROVE  SrcTyped' /\ (InLine => InLine' /\ Stop' = Stop /\ At' = At)
<1> DEFINE n == Concurrency
           c == src.chunk
           g == c * n
<1>1. /\ producer = "push" /\ batch = <<>> /\ batch' = batch /\ buffers' = buffers /\ cur' = cur
      /\ producer' = (IF src.current + n < src.total THEN "fetch" ELSE "closed")
      /\ src' = [src EXCEPT !.current = @ + n, !.offset = @ + c * n] /\ faulted' = faulted
  BY DEF NextBatch
<1>2. n \in Nat \ {0} /\ c \in Nat \ {0} /\ g \in Nat /\ src.current \in Nat /\ src.total \in Int
      /\ src.offset \in Int
  BY Sizes, SrcTypes
<1>3. /\ src'.current = src.current + n /\ src'.offset = src.offset + g /\ src'.chunk = c
      /\ src'.limit = src.limit /\ src'.left = src.left /\ src'.right = src.right
      /\ src'.total = src.total
  BY <1>1 DEF SrcTyped
<1>4. src' \in [limit : Int, offset : Int, chunk : Nat \ {0}, left : Int, right : Int,
                total : Int, current : Nat]
  <2>1. src' = [src EXCEPT !.current = @ + n, !.offset = @ + g]
    BY <1>1
  <2>2. src.current + n \in Nat /\ src.offset + g \in Int
    BY <1>2
  <2> HIDE DEF g, n
  <2> QED  BY <2>1, <2>2 DEF SrcTyped
<1>5. SrcTyped'
  BY <1>1, <1>2, <1>3, <1>4 DEF SrcTyped, Producers
<1>6. ASSUME InLine PROVE InLine' /\ Stop' = Stop /\ At' = At
  <2> DEFINE a == src.total - src.current - 1
  <2>1. a \in Int /\ src'.total - src'.current - 1 = a - n
    BY <1>2, <1>3
  <2>2. (a - n) * c = a * c - n * c /\ n * c = g /\ a * c \in Int
    <3> HIDE DEF a, n, c
    <3>1. (a - n) * c = a * c - n * c /\ n * c = c * n /\ a * c \in Int
      BY <1>2, <2>1
    <3> QED  BY <3>1 DEF n, c
  <2> HIDE DEF a, g
  <2>3. Stop' = src.offset + g + (a - n) * c + src.right /\ Stop = src.offset + a * c + src.right
    BY <1>3, <2>1 DEF Stop, a
  <2>4. Stop' = Stop
    <3>1. src.right \in Int
      BY SrcTypes
    <3> QED  BY <1>2, <2>2, <2>3, <3>1
  <2>5. At' = At /\ Waiting' = Waiting
    BY <1>1, <1>3, <2>4 DEF At, Waiting, Length
  <2>6. Ahead' = Ahead
    <3>1. CASE src.current + n < src.total
      <4>1. Ahead = src.offset + g
        BY <1>1, <1>2, <3>1 DEF Ahead, g
      <4>2. Ahead' = src.offset + g + 0
        BY <1>1, <1>2, <1>3, <3>1 DEF Ahead
      <4> QED  BY <1>2, <4>1, <4>2
    <3>2. CASE ~(src.current + n < src.total)
      <4>1. Ahead = Stop
        BY <1>1, <1>2, <3>2 DEF Ahead
      <4>2. Ahead' = Stop'
        BY <1>1, <1>2, <1>3, <3>2 DEF Ahead
      <4> QED  BY <2>4, <4>1, <4>2
    <3> QED  BY <3>1, <3>2
  <2>7. Fetched' = Fetched
    BY <1>1, <2>6 DEF Fetched
  <2>8. Spans(Waiting, buffers, Fetched)' /\ Spans(Fetched, batch, Ahead)'
        /\ Fetched' <= Ahead' /\ Ahead' <= Stop'
    BY <1>1, <1>6, <2>4, <2>5, <2>6, <2>7 DEF InLine
  <2>9. /\ src'.limit >= 0 /\ src'.offset >= 0
        /\ src'.left \in 0..(src'.chunk - 1) /\ src'.right \in 1..src'.chunk /\ src'.current # 0
    BY <1>2, <1>3, <1>6 DEF InLine
  <2>10. producer' = "closed" => src'.current >= src'.total
    BY <1>1, <1>2, <1>3
  <2>11. Length(cur)' > 0 => cur'.from = At' /\ cur'.to <= Stop'
    BY <1>1, <1>6, <2>4, <2>5 DEF InLine, Length
  <2> QED  BY <1>1, <2>4, <2>5, <2>8, <2>9, <2>10, <2>11 DEF InLine
<1> QED  BY <1>5, <1>6

LEMMA FetchFailsKeeps ==
  ASSUME SrcTyped, FetchFails
  PROVE  SrcTyped' /\ (InLine => InLine' /\ Stop' = Stop /\ At' = At)
<1>1. /\ producer = "fetch" /\ producer' = "closed" /\ src' = src /\ batch' = batch
      /\ buffers' = buffers /\ cur' = cur /\ faulted' = TRUE
  BY DEF FetchFails, Abandoned
<1>2. SrcTyped'
  BY <1>1 DEF SrcTyped, Producers
<1>3. ASSUME InLine PROVE InLine' /\ Stop' = Stop /\ At' = At
  <2>1. Stop' = Stop /\ At' = At /\ Waiting' = Waiting
    BY <1>1 DEF Stop, At, Waiting, Length
  <2>2. Ahead' = Ahead
    BY <1>1, <2>1 DEF Ahead
  <2>3. Fetched' = Fetched
    BY <1>1, <2>2 DEF Fetched
  <2> QED  BY <1>1, <1>3, <2>1, <2>2, <2>3 DEF InLine, Length
<1> QED  BY <1>2, <1>3

LEMMA ClosedTyped ==
  ASSUME Close
  PROVE  SrcTyped' /\ DecTyped' /\ producer' = "none" /\ src'.limit = 0
<1>1. Nothing \in Chunk /\ <<>> \in Seq(Chunk) /\ Len(<<>>) = 0
  BY DEF Nothing, Chunk
<1> QED  BY <1>1, Sizes DEF Close, SrcTyped, DecTyped, NoDecrypter, NoSource, Producers

-----------------------------------------------------------------------------
(* Requests.                                                               *)

LEMMA Nonce ==
  Nonces \subseteq Digits
  BY ReaderAssumption DEF Digits

\* The range within the part being read.
LEMMA PartRange ==
  ASSUME ReqTyped
  PROVE  /\ pos * PartSizes[1] \in Nat /\ (pos + 1) * PartSizes[1] = pos * PartSizes[1] + PartSizes[1]
         /\ PartStart(pos) \in Nat /\ PartEnd(pos) \in Int
         /\ PartStart(pos) = IF req.start > pos * PartSizes[1] THEN req.start - pos * PartSizes[1] ELSE 0
         /\ PartEnd(pos) = Least(PartSizes[1] - 1, req.end - pos * PartSizes[1])
<1> DEFINE z == PartSizes[1]
           m == pos * z
<1>1. pos \in Nat /\ req.start \in Int /\ req.end \in Int
  BY DEF ReqTyped
<1>2. z \in Nat \ {0} /\ PartSize = z
  BY PartIs
<1>3. PartStart(pos) = (IF req.start > m THEN req.start - m ELSE 0)
      /\ PartEnd(pos) = Least(z - 1, req.end - m)
  BY <1>2 DEF PartStart, PartEnd
<1> HIDE DEF z
<1>4. m \in Nat /\ (pos + 1) * z = m + z
  BY <1>1, <1>2, Products
<1> HIDE DEF m
<1>5. PartStart(pos) \in Nat /\ PartEnd(pos) \in Int
  BY <1>1, <1>2, <1>3, <1>4 DEF Least
<1> QED  BY <1>3, <1>4, <1>5 DEF m, z

LEMMA PlainRange ==
  ASSUME BaseInv, req.st \in {"open", "reading"}, HasPart
  PROVE  PartStart(pos) <= PartEnd(pos) /\ PartEnd(pos) < PartSizes[1] /\ PartStart(pos) < PartSizes[1]
<1> DEFINE z == PartSizes[1]
           m == pos * z
<1>1. /\ req.start \in Nat /\ req.end \in Int /\ req.start <= req.end
      /\ req.start < (pos + 1) * z
  BY DEF BaseInv, Asked, Reads, ReqTyped
<1>2. z \in Nat \ {0} /\ m <= req.end
  BY PartIs DEF BaseInv
<1>3. m \in Nat /\ (pos + 1) * z = m + z
      /\ PartStart(pos) = (IF req.start > m THEN req.start - m ELSE 0)
      /\ PartEnd(pos) = Least(z - 1, req.end - m)
  BY PartRange DEF BaseInv
<1> HIDE DEF z, m
<1> QED  BY <1>1, <1>2, <1>3 DEF Least, z, m

\* The request and the place in it stay as they are.
LEMMA RequestKept ==
  ASSUME BaseInv, req' = req, pos' = pos, given' = given, wrong' = wrong, faulted' \in BOOLEAN,
         producer' \in {"fetch", "push"} => req.st = "reading", src' = src \/ req.st = "reading"
  PROVE  ReqTyped' /\ Asked' /\ Within' /\ Reads'
<1>1. HasPart' <=> HasPart
  BY DEF HasPart, PartSizes, PartSize, Stored
<1>2. Reads'
  BY <1>1 DEF Reads, BaseInv, PartSizes
<1> QED  BY <1>2 DEF ReqTyped, Asked, Within, BaseInv

\* The request ends, but not with the last byte.
LEMMA RequestEnds ==
  ASSUME BaseInv, NEW s \in {"short", "failed", "gone", "crashed"}, req' = [req EXCEPT !.st = s],
         pos' = pos, given' = given, wrong' = wrong, faulted' \in BOOLEAN,
         producer' \notin {"fetch", "push"}, SrcTyped', DecTyped'
  PROVE  BaseInv'
<1>1. /\ req'.st = s /\ req'.file = req.file
      /\ req' \in [st : Statuses, file : Files, enc : BOOLEAN, nonce : Nonces,
                   start : Int, end : Int, first : Int, last : Int]
  BY DEF BaseInv, ReqTyped, Statuses, Ended
<1>2. ReqTyped' /\ Asked' /\ Within' /\ Reads' /\ Decrypting'
  BY <1>1 DEF BaseInv, ReqTyped, Asked, Within, Reads, Decrypting
<1> QED  BY <1>2 DEF BaseInv

\* Bytes are written.
LEMMA GivesBase ==
  ASSUME BaseInv, req.st = "reading", NEW from \in Int, NEW to \in Int, NEW ok \in BOOLEAN,
         NEW ended \in BOOLEAN, from <= to, to - from <= Left(0), Gives(from, to, ok, ended),
         faulted' = faulted
  PROVE  /\ ReqTyped' /\ Asked' /\ Within' /\ Reads' /\ given' = given + (to - from)
         /\ Left(0) \in Nat \ {0} /\ Left(0) = req.end - req.start + 1 - given
         /\ Left(to - from) = Left(0) - (to - from)
         /\ Left(to - from) <= 0 => Ends("whole") /\ pos' = pos
         /\ Left(to - from) > 0 /\ ended => MoveToNextPart
         /\ Left(to - from) > 0 /\ ~ended => UNCHANGED <<req, pos>>
<1> DEFINE n == to - from
           z == PartSizes[1]
<1>1. n \in Nat /\ given \in Nat /\ req.start \in Nat /\ req.end \in Nat /\ req.end < SizeOf(req.file)
      /\ given <= req.end - req.start /\ SizeOf(req.file) \in Nat /\ pos \in Nat
      /\ wrong \in BOOLEAN /\ faulted \in BOOLEAN
  BY PartIs DEF BaseInv, ReqTyped, Asked, Within
<1>2. /\ given' = given + n
      /\ wrong' = (wrong \/ ~ok \/ pos * PartSize + from # req.start + given)
      /\ (Left(n) <= 0 => Ends("whole") /\ pos' = pos)
      /\ (Left(n) > 0 => IF ended THEN MoveToNextPart ELSE req' = req /\ pos' = pos)
  BY DEF Gives
<1>3. Left(n) = req.end - req.start + 1 - given - n /\ Left(0) = req.end - req.start + 1 - given - 0
  BY DEF Left
<1> HIDE DEF n
<1>4. Left(n) = Left(0) - n /\ Left(0) \in Nat \ {0} /\ Left(0) = req.end - req.start + 1 - given
      /\ n <= Left(0)
  BY <1>1, <1>3 DEF n
<1>5. given' \in Nat /\ given' <= req.end - req.start + 1 /\ wrong' \in BOOLEAN
  BY <1>1, <1>2, <1>4
<1>6. ReqTyped' /\ Asked' /\ Within' /\ Reads'
  <2>1. CASE Left(n) <= 0
    <3>1. /\ req' = [req EXCEPT !.st = "whole"] /\ pos' = pos /\ producer' = "none"
      BY <1>2, <2>1 DEF Ends, Close
    <3>2. /\ req'.st = "whole" /\ req'.file = req.file /\ req'.start = req.start /\ req'.end = req.end
          /\ req'.first = req.first /\ req'.last = req.last
          /\ req' \in [st : Statuses, file : Files, enc : BOOLEAN, nonce : Nonces,
                       start : Int, end : Int, first : Int, last : Int]
      BY <3>1 DEF BaseInv, ReqTyped, Statuses, Ended
    <3>3. given' = req.end - req.start + 1
      BY <1>1, <1>2, <1>3, <1>4, <2>1
    <3>4. ReqTyped'
      BY <1>1, <1>5, <3>1, <3>2 DEF ReqTyped
    <3>5. Asked'
      BY <3>2 DEF Asked, BaseInv
    <3>6. Within'
      BY <1>1, <3>2, <3>3 DEF Within
    <3>7. Reads'
      BY <3>1, <3>2 DEF Reads
    <3> QED  BY <3>4, <3>5, <3>6, <3>7
  <2>2. CASE Left(n) > 0 /\ ended
    <3>1. /\ req' = [req EXCEPT !.st = "open"] /\ pos' = pos + 1 /\ producer' = "none"
      BY <1>2, <2>2 DEF MoveToNextPart, Close
    <3>2. /\ req'.st = "open" /\ req'.file = req.file /\ req'.start = req.start /\ req'.end = req.end
          /\ req'.first = req.first /\ req'.last = req.last
          /\ req' \in [st : Statuses, file : Files, enc : BOOLEAN, nonce : Nonces,
                       start : Int, end : Int, first : Int, last : Int]
      BY <3>1 DEF BaseInv, ReqTyped, Statuses, Ended
    <3>3. given' <= req.end - req.start
      BY <1>1, <1>2, <1>3, <2>2
    <3>4. ReqTyped'
      BY <1>1, <1>5, <3>1, <3>2 DEF ReqTyped
    <3>5. Asked'
      BY <3>2 DEF Asked, BaseInv
    <3>6. Within'
      BY <1>1, <1>5, <3>2, <3>3 DEF Within
    <3>7. req.start < (pos + 1 + 1) * z
      <4>1. z \in Nat \ {0} /\ req.start < (pos + 1) * z
        BY PartIs DEF BaseInv, Reads
      <4> HIDE DEF z
      <4>2. (pos + 1) * z \in Int /\ (pos + 1 + 1) * z = (pos + 1) * z + z
        <5>1. pos + 1 \in Int
          BY <1>1
        <5> QED  BY <4>1, <5>1, Products
      <4> QED  BY <1>1, <4>1, <4>2
    <3>8. Reads'
      BY <3>1, <3>2, <3>7 DEF Reads, PartSizes
    <3> QED  BY <3>4, <3>5, <3>6, <3>8
  <2>3. CASE Left(n) > 0 /\ ~ended
    <3>1. req' = req /\ pos' = pos
      BY <1>2, <2>3
    <3>2. given' <= req.end - req.start
      BY <1>1, <1>2, <1>3, <2>3
    <3>3. ReqTyped'
      BY <1>1, <1>5, <3>1 DEF ReqTyped, BaseInv
    <3>4. Asked'
      BY <3>1 DEF Asked, BaseInv
    <3>5. Within'
      BY <1>1, <1>5, <3>1, <3>2 DEF Within
    <3>6. HasPart' <=> HasPart
      BY <3>1 DEF HasPart, PartSizes, PartSize, Stored
    <3>7. Reads'
      BY <3>1, <3>6 DEF Reads, PartSizes, BaseInv
    <3> QED  BY <3>3, <3>4, <3>5, <3>7
  <2>4. Left(n) \in Int
    BY <1>1, <1>4
  <2> QED  BY <2>1, <2>2, <2>3, <2>4
<1> QED  BY <1>2, <1>4, <1>6 DEF n

-----------------------------------------------------------------------------
(* Every step keeps what does not depend on the sizes of parts.            *)

LEMMA InitBase ==
  ASSUME ReadInit
  PROVE  BaseInv
<1> DEFINE f == CHOOSE f \in Files : TRUE
           n == CHOOSE n \in Nonces : TRUE
<1>1. f \in Files /\ n \in Nonces
  BY ReaderAssumption
<1>2. SizeOf(f) \in Nat
  BY <1>1, SizeIs
<1> HIDE DEF f, n
<1>3. /\ req = [st |-> "none", file |-> f, enc |-> FALSE, nonce |-> n, start |-> 0, end |-> 0,
                first |-> 0, last |-> NoValue]
      /\ pos = 0 /\ given = 0 /\ wrong = FALSE /\ src = NoSource /\ producer = "none"
      /\ batch = <<>> /\ buffers = <<>> /\ cur = Nothing /\ dec = NoDecrypter /\ faulted = FALSE
  BY DEF ReadInit, f, n
<1>4. NoValue \in Int /\ Nothing \in Chunk /\ <<>> \in Seq(Chunk) /\ Len(<<>>) = 0
  BY DEF NoValue, Nothing, Chunk
<1>5. ReqTyped
  <2>1. req \in [st : Statuses, file : Files, enc : BOOLEAN, nonce : Nonces,
                start : Int, end : Int, first : Int, last : Int]
    BY <1>1, <1>3, <1>4 DEF Statuses
  <2> QED  BY <1>3, <2>1 DEF ReqTyped
<1>6. SrcTyped /\ DecTyped
  BY <1>3, <1>4, Sizes DEF SrcTyped, DecTyped, NoDecrypter, NoSource, Producers
<1>7. Asked /\ Within /\ Reads /\ Decrypting
  BY <1>2, <1>3 DEF Asked, Within, Reads, Decrypting, NoSource
<1> QED  BY <1>5, <1>6, <1>7 DEF BaseInv

LEMMA BeginBase ==
  ASSUME BaseInv, NEW file \in Files, NEW enc \in BOOLEAN, NEW nonce \in Nonces,
         NEW first \in {NoValue} \cup 0..(SizeOf(file) + 1),
         NEW last \in {NoValue} \cup 0..(SizeOf(file) + 1),
         <<first, last>> # <<NoValue, NoValue>>, Begin(file, enc, nonce, first, last)
  PROVE  BaseInv'
<1> DEFINE size  == SizeOf(file)
           range == Parse(size, first, last)
           start == range.start
           end   == range.end
           st    == IF range.ok THEN "open" ELSE "refused"
<1>1. size \in Nat /\ first \in Int /\ last \in Int /\ NoValue = -1
  BY SizeIs DEF NoValue
<1>2. /\ range.ok = (start <= end /\ start >= 0)
      /\ start = (IF first = NoValue THEN size - last ELSE first)
      /\ end = (IF first = NoValue \/ last = NoValue THEN size - 1 ELSE Least(last, size - 1))
  BY DEF Parse
<1>3. /\ req.st = "none"
      /\ req' = [st |-> st, file |-> file, enc |-> enc, nonce |-> nonce, start |-> start,
                 end |-> end, first |-> first, last |-> last]
      /\ pos' = (IF range.ok THEN start \div PartSize' ELSE 0)
      /\ UNCHANGED <<given, wrong, src, producer, batch, buffers, cur, dec, faulted>>
  BY DEF Begin
<1>4. given = 0 /\ ~wrong /\ src.limit >= 0 /\ producer \notin {"fetch", "push"}
  BY <1>3 DEF BaseInv, Within, Reads
<1> DEFINE z == file[1]
<1>5. z \in Nat \ {0}
  <2>1. Len(file) \in Nat \ {0} /\ \A p \in 1..Len(file) : file[p] \in Nat \ {0}
    BY PartsOf
  <2> QED  BY <2>1
<1>6. PartSize' = z
  <2>1. req'.enc = enc /\ req'.file = file /\ 0 + 1 = 1
    BY <1>3
  <2>2. Stored(0)' = IF enc THEN EncryptedSize(z) ELSE z
    BY <2>1 DEF Stored, PartSizes
  <2>3. PartSize' = IF enc THEN DecryptedSize(Stored(0)') ELSE Stored(0)'
    BY <2>1 DEF PartSize
  <2> HIDE DEF z
  <2> QED  BY <1>5, <2>2, <2>3, Decrypted
<1> HIDE DEF range, z, size
<1>7. start \in Int /\ end \in Int /\ end <= size - 1
  BY <1>1, <1>2 DEF Least
<1> DEFINE q == start \div z
<1>8. range.ok => /\ start \in Nat /\ start <= end
                  /\ pos' = q /\ q \in Nat /\ start < (q + 1) * z
  <2> SUFFICES ASSUME range.ok PROVE /\ start \in Nat /\ start <= end
                                     /\ pos' = q /\ q \in Nat /\ start < (q + 1) * z
    OBVIOUS
  <2>1. start <= end /\ start >= 0
    BY <1>2
  <2>2. pos' = q
    BY <1>3, <1>6
  <2> HIDE DEF start, end
  <2>3. start \in Nat /\ start \in Int
    BY <1>7, <2>1
  <2>4. q \in Nat /\ start % z \in 0..(z - 1) /\ start % z = start - q * z
    <3>1. start \div z \in Nat /\ start % z \in 0..(z - 1) /\ start % z = start - (start \div z) * z
      BY <1>5, <2>3, Division
    <3> QED  BY <3>1
  <2>5. (q + 1) * z = q * z + z /\ q * z \in Int
    <3> HIDE DEF q
    <3> QED  BY <1>5, <2>4, Products
  <2> HIDE DEF q
  <2> QED  BY <1>5, <2>1, <2>2, <2>3, <2>4, <2>5
<1>9. range.ok => start..end =
         {b \in 0..(size - 1) :
            IF first = NoValue THEN b >= size - last
            ELSE b >= first /\ (last = NoValue \/ b <= last)}
  <2> SUFFICES ASSUME range.ok
               PROVE  \A b \in Int : b \in start..end <=>
                        /\ b \in 0..(size - 1)
                        /\ IF first = NoValue THEN b >= size - last
                           ELSE b >= first /\ (last = NoValue \/ b <= last)
    BY <1>7
  <2> HIDE DEF start, end
  <2>1. start \in Nat /\ start <= end /\ end \in Int /\ end <= size - 1
    BY <1>7, <1>8
  <2> QED  BY <1>1, <1>2, <2>1 DEF Least
<1> HIDE DEF q, start, end
<1>10. st \in {"open", "refused"} /\ (st = "open" => range.ok) /\ st # "reading" /\ st # "whole"
  OBVIOUS
<1> HIDE DEF st
<1>11. pos' \in Nat
  <2>1. range.ok \in BOOLEAN
    BY <1>2
  <2> QED  BY <1>3, <1>8, <2>1
<1>12. ReqTyped'
  <2>1. req' \in [st : Statuses, file : Files, enc : BOOLEAN, nonce : Nonces,
                  start : Int, end : Int, first : Int, last : Int]
    BY <1>1, <1>3, <1>7, <1>10 DEF Statuses
  <2> QED  BY <1>3, <1>11, <2>1 DEF ReqTyped, BaseInv
<1>13. Asked'
  BY <1>1, <1>3, <1>7, <1>8, <1>9, <1>10 DEF Asked, size
<1>14. Within'
  <2>1. st = "open" => 0 <= end - start
    BY <1>7, <1>8, <1>10
  <2> QED  BY <1>1, <1>3, <1>4, <1>10, <2>1 DEF Within, size
<1>15. Reads' /\ Decrypting'
  BY <1>3, <1>4, <1>8, <1>10 DEF Reads, Decrypting, PartSizes, z
<1>16. SrcTyped' /\ DecTyped'
  BY <1>3 DEF SrcTyped, DecTyped, BaseInv
<1> QED  BY <1>12, <1>13, <1>14, <1>15, <1>16 DEF BaseInv

LEMMA Underlying ==
  ASSUME NEW limit \in Int, NEW discard \in Int
  PROVE  BlocksToRead(limit, discard) \in Int /\ UnderlyingLimit(limit, discard) \in Int
<1> DEFINE more == limit - (BlockData - discard)
<1>1. more + BlockData - 1 \in Int
  BY Sizes
<1> HIDE DEF more
<1>2. (more + BlockData - 1) \div BlockData \in Int
  BY <1>1, Sizes, Division
<1>3. BlocksToRead(limit, discard) = 1 + IF more > 0 THEN (more + BlockData - 1) \div BlockData ELSE 0
  BY DEF BlocksToRead, more
<1>4. BlocksToRead(limit, discard) \in Int
  BY <1>2, <1>3
<1>5. BlocksToRead(limit, discard) * BlockSize \in Int
  <2> DEFINE n == BlocksToRead(limit, discard)
  <2> HIDE DEF n
  <2>1. n \in Int
    BY <1>4 DEF n
  <2>2. n * BlockSize \in Int
    BY <2>1, Sizes, Products
  <2> QED  BY <2>2 DEF n
<1> QED  BY <1>4, <1>5 DEF UnderlyingLimit

\* OpenPart, with its names.
LEMMA OpenPartIs ==
  ASSUME OpenPart, NEW start, start = PartStart(pos), NEW limit, limit = PartEnd(pos) - start + 1
  PROVE  /\ req.st = "open" /\ HasPart /\ req' = [req EXCEPT !.st = "reading"]
         /\ ~req.enc => OpenSource(start, PartEnd(pos)) /\ dec' = NoDecrypter
         /\ req.enc =>
              /\ dec' = [NoDecrypter EXCEPT !.st = "header", !.limit = limit,
                                            !.discard = start % BlockData]
              /\ OpenSource(0, IF start > 0 THEN FileHeader - 1
                               ELSE Least(Stored(pos), FileHeader + UnderlyingLimit(limit, 0)) - 1)
         /\ UNCHANGED <<pos, given, wrong, faulted>>
  BY DEF OpenPart

LEMMA OpenPartBase ==
  ASSUME BaseInv, OpenPart
  PROVE  BaseInv'
<1> DEFINE start == PartStart(pos)
           limit == PartEnd(pos) - start + 1
           end   == IF start > 0 THEN FileHeader - 1
                    ELSE Least(Stored(pos), FileHeader + UnderlyingLimit(limit, 0)) - 1
<1>1. /\ req.st = "open" /\ HasPart /\ req' = [req EXCEPT !.st = "reading"]
      /\ (~req.enc => OpenSource(start, PartEnd(pos)) /\ dec' = NoDecrypter)
      /\ (req.enc => /\ dec' = [NoDecrypter EXCEPT !.st = "header", !.limit = limit,
                                                   !.discard = start % BlockData]
                     /\ OpenSource(0, end))
      /\ UNCHANGED <<pos, given, wrong, faulted>>
  BY OpenPartIs, Zenon
<1>2. start \in Nat /\ PartEnd(pos) \in Int /\ start <= PartEnd(pos) /\ Stored(pos) \in Int
  BY <1>1, PartRange, PlainRange, PartIs DEF BaseInv
<1> HIDE DEF start
<1>3. limit \in Nat \ {0}
  BY <1>2
<1> HIDE DEF limit
<1>4. end \in Int
  <2>1. UnderlyingLimit(limit, 0) \in Int
    BY <1>3, Underlying
  <2> QED  BY <1>2, <2>1, Sizes DEF Least
<1> HIDE DEF end
<1>5. SrcTyped'
  BY <1>1, <1>2, <1>4, Opened DEF BaseInv, ReqTyped
<1>6. start % BlockData \in Int
  BY <1>2, Sizes, Division
<1>7. NoDecrypter \in [st : {"off", "header", "fill", "serve"}, limit : Int, discard : Int,
           nonce : Digits \cup {<<>>}, held : Chunk, from : Int, to : Int, ok : BOOLEAN]
  BY DEF NoDecrypter, Nothing, Chunk
<1>8. /\ DecTyped' /\ (req.enc => dec'.st = "header" /\ dec'.limit = limit)
      /\ (~req.enc => dec'.st = "off") /\ Length(dec.held)' = 0
  <2> DEFINE off == NoDecrypter
             d   == start % BlockData
  <2>1. req.enc \in BOOLEAN
    BY DEF BaseInv, ReqTyped
  <2>2. ~req.enc => dec' = off
    BY <1>1
  <2>3. req.enc => dec' = [off EXCEPT !.st = "header", !.limit = limit, !.discard = d]
    BY <1>1
  <2> HIDE DEF off, d
  <2>4. d \in Int /\ limit \in Int
    BY <1>3, <1>6 DEF d
  <2>5. off \in [st : {"off", "header", "fill", "serve"}, limit : Int, discard : Int,
               nonce : Digits \cup {<<>>}, held : Chunk, from : Int, to : Int, ok : BOOLEAN]
    BY <1>7 DEF off
  <2>6. off.st = "off" /\ off.held.from = 0 /\ off.held.to = 0
    BY DEF off, NoDecrypter, Nothing
  <2>7. DecTyped' /\ (req.enc => dec'.st = "header" /\ dec'.limit = limit)
        /\ (~req.enc => dec'.st = "off")
    BY <2>1, <2>2, <2>3, <2>4, <2>5, <2>6 DEF DecTyped
  <2>8. dec'.held = off.held
    BY <2>1, <2>2, <2>3, <2>5
  <2> QED  BY <2>6, <2>7, <2>8 DEF Length
<1>9. /\ req'.st = "reading" /\ req'.file = req.file /\ req'.enc = req.enc
      /\ req'.start = req.start /\ req'.end = req.end
      /\ req'.first = req.first /\ req'.last = req.last
      /\ req' \in [st : Statuses, file : Files, enc : BOOLEAN, nonce : Nonces,
                   start : Int, end : Int, first : Int, last : Int]
  BY <1>1 DEF BaseInv, ReqTyped, Statuses, Ended
<1>10. HasPart' <=> HasPart
  BY <1>1, <1>9 DEF HasPart, PartSizes, PartSize, Stored
<1>11. ReqTyped' /\ Asked' /\ Within'
  BY <1>1, <1>9 DEF BaseInv, ReqTyped, Asked, Within
<1>12. Reads'
  BY <1>1, <1>9, <1>10 DEF BaseInv, Reads, PartSizes
<1>13. Decrypting'
  BY <1>3, <1>8, <1>9, Sizes DEF Decrypting, BaseInv, ReqTyped
<1> QED  BY <1>5, <1>8, <1>11, <1>12, <1>13 DEF BaseInv

\* The goroutine.
LEMMA ProducingBase ==
  ASSUME BaseInv, FetchBatch \/ FetchFails \/ FetchPanics \/ HandOver \/ NextBatch
  PROVE  BaseInv'
<1>1. producer \in {"fetch", "push"} /\ req.st = "reading" /\ HasPart
  BY DEF BaseInv, Reads, FetchBatch, FetchFails, FetchPanics, HandOver, NextBatch
<1>2. CASE FetchPanics
  <2>1. /\ req' = [req EXCEPT !.st = "crashed"] /\ producer' = "closed"
        /\ UNCHANGED <<pos, given, wrong, src, batch, buffers, cur, dec, faulted>>
    BY <1>2 DEF FetchPanics
  <2>2. SrcTyped' /\ DecTyped' /\ faulted' \in BOOLEAN
    BY <2>1 DEF SrcTyped, DecTyped, BaseInv, Producers, ReqTyped
  <2> QED  BY <2>1, <2>2, RequestEnds
<1>3. CASE FetchBatch \/ FetchFails \/ HandOver \/ NextBatch
  <2>1. req' = req /\ pos' = pos /\ given' = given /\ wrong' = wrong /\ faulted' \in BOOLEAN
        /\ dec' = dec
    BY <1>3 DEF FetchBatch, FetchFails, HandOver, NextBatch, BaseInv, ReqTyped
  <2>2. SrcTyped'
    BY <1>1, <1>3, FetchBatchTyped, FetchFailsKeeps, HandOverKeeps, NextBatchKeeps DEF BaseInv
  <2>3. ReqTyped' /\ Asked' /\ Within' /\ Reads'
    BY <1>1, <2>1, RequestKept
  <2>4. DecTyped' /\ Decrypting'
    BY <2>1 DEF DecTyped, Decrypting, BaseInv, Length
  <2> QED  BY <2>2, <2>3, <2>4 DEF BaseInv
<1> QED  BY <1>2, <1>3

LEMMA EndingBase ==
  ASSUME BaseInv, OutOfParts \/ SourceFails \/ Disconnect
  PROVE  BaseInv'
<1>1. \E s \in {"short", "failed", "gone", "crashed"} : Ends(s)
  BY DEF OutOfParts, SourceFails, Disconnect
<1>2. PICK s \in {"short", "failed", "gone", "crashed"} : Ends(s)
  BY <1>1
<1>3. req' = [req EXCEPT !.st = s] /\ SrcTyped' /\ DecTyped' /\ producer' \notin {"fetch", "push"}
  BY <1>2, ClosedTyped DEF Ends
<1>4. pos' = pos /\ given' = given /\ wrong' = wrong /\ faulted' \in BOOLEAN
  BY DEF OutOfParts, SourceFails, Disconnect, BaseInv, ReqTyped
<1> QED  BY <1>3, <1>4, RequestEnds

LEMMA BlocksEndBase ==
  ASSUME BaseInv, BlocksEnd
  PROVE  BaseInv'
<1> DEFINE z == PartSizes[1]
<1>1. /\ req.st = "reading" /\ req' = [req EXCEPT !.st = "open"] /\ pos' = pos + 1
      /\ SrcTyped' /\ DecTyped' /\ producer' = "none" /\ UNCHANGED <<given, wrong, faulted>>
  BY ClosedTyped DEF BlocksEnd, MoveToNextPart
<1>2. /\ req'.st = "open" /\ req'.file = req.file /\ req'.start = req.start /\ req'.end = req.end
      /\ req'.first = req.first /\ req'.last = req.last
      /\ req' \in [st : Statuses, file : Files, enc : BOOLEAN, nonce : Nonces,
                   start : Int, end : Int, first : Int, last : Int]
  BY <1>1 DEF BaseInv, ReqTyped, Statuses, Ended
<1>3. ReqTyped' /\ Asked' /\ Within' /\ Decrypting'
  BY <1>1, <1>2 DEF BaseInv, ReqTyped, Asked, Within, Decrypting
<1>4. req.start < (pos + 1 + 1) * z
  <2>1. z \in Nat \ {0} /\ req.start < (pos + 1) * z /\ pos \in Nat /\ req.start \in Int
    BY <1>1, PartIs DEF BaseInv, Reads, ReqTyped
  <2> HIDE DEF z
  <2>2. (pos + 1) * z \in Int /\ (pos + 1 + 1) * z = (pos + 1) * z + z
    <3>1. pos + 1 \in Int
      BY <2>1
    <3> QED  BY <2>1, <3>1, Products
  <2> QED  BY <2>1, <2>2
<1>5. Reads'
  BY <1>1, <1>2, <1>4 DEF Reads, PartSizes
<1> QED  BY <1>1, <1>3, <1>5 DEF BaseInv

\* The steps of a copy, with their names.
LEMMA CopyPlainIs ==
  ASSUME CopyPlain, NEW piece, piece = Piece(Least(CopyBuffer, Left(0))),
         NEW ended, ended = (src.limit <= Length(piece))
  PROVE  /\ req.st = "reading" /\ ~req.enc /\ src.limit > 0 /\ Available
         /\ Gives(piece.from, piece.to, TRUE, ended)
         /\ Left(Length(piece)) > 0 /\ ~ended => SourceReads(Length(piece)) /\ dec' = dec
         /\ faulted' = faulted
  BY DEF CopyPlain, Available

LEMMA CopyPlainBase ==
  ASSUME BaseInv, CopyPlain
  PROVE  BaseInv' /\ req'.file = req.file
<1> DEFINE want  == Least(CopyBuffer, Left(0))
           piece == Piece(want)
           ended == src.limit <= Length(piece)
<1>1. /\ req.st = "reading" /\ ~req.enc /\ src.limit > 0 /\ Available
      /\ Gives(piece.from, piece.to, TRUE, ended)
      /\ (Left(Length(piece)) > 0 /\ ~ended => SourceReads(Length(piece)) /\ dec' = dec)
      /\ faulted' = faulted
  BY CopyPlainIs
<1>2. Left(0) \in Nat \ {0}
  BY <1>1 DEF BaseInv, Within, ReqTyped, Left
<1>3. want \in Nat /\ want <= Left(0)
  BY <1>2, Sizes DEF Least
<1>4. ended \in BOOLEAN
  OBVIOUS
<1> HIDE DEF want
<1>5. piece \in Chunk /\ Length(piece) \in 0..want /\ Length(piece) = piece.to - piece.from
      /\ piece.from \in Int /\ piece.to \in Int /\ piece.from <= piece.to
      /\ Piece(Length(piece)) = piece
  BY <1>1, <1>3, PieceIs DEF BaseInv, Length, Chunk
<1> HIDE DEF piece, ended
<1>6. piece.to - piece.from <= Left(0)
  BY <1>2, <1>3, <1>5
<1>7. /\ ReqTyped' /\ Asked' /\ Within' /\ Reads'
      /\ (Left(piece.to - piece.from) <= 0 => Ends("whole") /\ pos' = pos)
      /\ (Left(piece.to - piece.from) > 0 /\ ended => MoveToNextPart)
      /\ (Left(piece.to - piece.from) > 0 /\ ~ended => req' = req /\ pos' = pos)
      /\ Left(piece.to - piece.from) = Left(0) - (piece.to - piece.from)
  BY <1>1, <1>4, <1>5, <1>6, GivesBase
<1> DEFINE l == Left(piece.to - piece.from)
<1>8. l \in Int
  BY <1>2, <1>5, <1>7
<1>9. SrcTyped' /\ DecTyped'
  <2>1. CASE l <= 0 \/ ended
    <3>1. Close
      BY <1>4, <1>7, <1>8, <2>1 DEF Ends, MoveToNextPart
    <3> QED  BY <3>1, ClosedTyped
  <2>2. CASE l > 0 /\ ~ended
    <3>1. SourceReads(Length(piece)) /\ dec' = dec /\ Length(piece) \in Nat
      BY <1>1, <1>3, <1>5, <2>2
    <3> QED  BY <1>1, <3>1, SourceReadsTyped DEF BaseInv, DecTyped
  <2> QED  BY <1>4, <1>8, <2>1, <2>2
<1>10. Decrypting' /\ req'.file = req.file
  <2>1. \/ req' = [req EXCEPT !.st = "whole"]
        \/ req' = [req EXCEPT !.st = "open"]
        \/ req' = req /\ dec' = dec
    <3>1. Length(piece) = piece.to - piece.from
      BY <1>5
    <3> QED  BY <1>1, <1>4, <1>7, <1>8, <3>1 DEF Ends, MoveToNextPart
  <2> QED  BY <1>1, <2>1 DEF Decrypting, BaseInv, ReqTyped, Length
<1> QED  BY <1>7, <1>9, <1>10 DEF BaseInv

LEMMA CopyDecryptedIs ==
  ASSUME CopyDecrypted, NEW size, NEW ended, ended = (size = dec.limit),
         size = Least(Least(CopyBuffer, Left(0)), Least(dec.to - dec.from, dec.limit))
  PROVE  /\ req.st = "reading" /\ dec.st = "serve" /\ dec.from < dec.to
         /\ Gives(dec.from, dec.from + size, dec.ok, ended)
         /\ Left(size) > 0 /\ ~ended =>
              /\ dec' = [dec EXCEPT !.from = @ + size, !.limit = @ - size,
                                    !.st = IF dec.from + size = dec.to THEN "fill" ELSE "serve"]
              /\ UNCHANGED <<src, producer, batch, buffers, cur>>
         /\ faulted' = faulted
  BY DEF CopyDecrypted

LEMMA CopyDecryptedBase ==
  ASSUME BaseInv, CopyDecrypted
  PROVE  BaseInv' /\ req'.file = req.file
<1> DEFINE size  == Least(Least(CopyBuffer, Left(0)), Least(dec.to - dec.from, dec.limit))
           ended == size = dec.limit
           to    == dec.from + size
<1>1. /\ req.st = "reading" /\ dec.st = "serve" /\ dec.from < dec.to
      /\ Gives(dec.from, to, dec.ok, ended)
      /\ (Left(size) > 0 /\ ~ended =>
            /\ dec' = [dec EXCEPT !.from = @ + size, !.limit = @ - size,
                                  !.st = IF dec.from + size = dec.to THEN "fill" ELSE "serve"]
            /\ UNCHANGED <<src, producer, batch, buffers, cur>>)
      /\ faulted' = faulted
  BY CopyDecryptedIs, Zenon
<1>2. Left(0) \in Nat \ {0}
  BY <1>1 DEF BaseInv, Within, ReqTyped, Left
<1>3. dec.from \in Int /\ dec.to \in Int /\ dec.limit \in Int /\ dec.ok \in BOOLEAN
  BY DEF BaseInv, DecTyped
<1>4. req.enc /\ dec.limit > 0
  BY <1>1 DEF BaseInv, Decrypting
<1>5. BaseInv' /\ req'.file = req.file
  <2>1. size \in Nat \ {0} /\ size <= Left(0) /\ size <= dec.limit
    BY <1>1, <1>2, <1>3, <1>4, Sizes DEF Least
  <2>2. ended \in BOOLEAN /\ (ended <=> size = dec.limit)
    OBVIOUS
  <2> HIDE DEF size, ended
  <2>3. to - dec.from = size /\ to \in Int /\ dec.from <= to
    BY <1>3, <2>1
  <2> HIDE DEF to
  <2>4. /\ ReqTyped' /\ Asked' /\ Within' /\ Reads'
        /\ (Left(size) <= 0 => Ends("whole") /\ pos' = pos)
        /\ (Left(size) > 0 /\ ended => MoveToNextPart)
        /\ (Left(size) > 0 /\ ~ended => req' = req /\ pos' = pos)
        /\ Left(size) = Left(0) - size
    BY <1>1, <1>3, <2>1, <2>2, <2>3, GivesBase
  <2>5. Left(size) \in Int
    BY <1>2, <2>1, <2>4
  <2>6. CASE Left(size) <= 0 \/ ended
    <3>1. Close /\ (req' = [req EXCEPT !.st = "whole"] \/ req' = [req EXCEPT !.st = "open"])
      BY <2>2, <2>4, <2>5, <2>6 DEF Ends, MoveToNextPart
    <3>2. SrcTyped' /\ DecTyped'
      BY <3>1, ClosedTyped
    <3>3. Decrypting' /\ req'.file = req.file
      BY <3>1 DEF Decrypting, BaseInv, ReqTyped
    <3> QED  BY <2>4, <3>2, <3>3 DEF BaseInv
  <2>7. CASE Left(size) > 0 /\ ~ended
    <3>1. /\ dec' = [dec EXCEPT !.from = @ + size, !.limit = @ - size,
                                !.st = IF dec.from + size = dec.to THEN "fill" ELSE "serve"]
          /\ UNCHANGED <<src, producer, batch, buffers, cur>> /\ req' = req
      BY <1>1, <2>4, <2>7
    <3>2. DecTyped' /\ dec'.st \in {"fill", "serve"} /\ dec'.limit = dec.limit - size
          /\ dec'.nonce = dec.nonce /\ dec'.held = dec.held
      <4> DEFINE st == IF dec.from + size = dec.to THEN "fill" ELSE "serve"
      <4>1. dec' = [dec EXCEPT !.from = dec.from + size, !.limit = dec.limit - size, !.st = st]
        BY <3>1
      <4>2. st \in {"fill", "serve"} /\ dec.from + size \in Int /\ dec.limit - size \in Int
        BY <1>3, <2>1
      <4> HIDE DEF st
      <4> QED  BY <4>1, <4>2 DEF DecTyped, BaseInv
    <3>3. dec'.limit > 0
      BY <1>3, <2>1, <2>2, <2>7, <3>2
    <3>4. Decrypting'
      BY <1>1, <3>1, <3>2, <3>3 DEF Decrypting, BaseInv, Length
    <3>5. SrcTyped'
      BY <3>1 DEF SrcTyped, BaseInv
    <3> QED  BY <2>4, <3>1, <3>2, <3>4, <3>5 DEF BaseInv
  <2> QED  BY <2>2, <2>5, <2>6, <2>7
<1> QED  BY <1>5

-----------------------------------------------------------------------------
(* Steps of the decrypter.                                                 *)

\* What readFill holds, with one piece more.
LEMMA HoldingIs ==
  ASSUME DecTyped, NEW piece \in Chunk
  PROVE  /\ Holding(piece) \in Chunk
         /\ Length(dec.held) \in Nat
         /\ Length(Holding(piece)) = Length(dec.held) + Length(piece)
         /\ Length(dec.held) = 0 => Holding(piece) = piece
         /\ Length(dec.held) # 0 => /\ Holding(piece).from = dec.held.from
                                    /\ Holding(piece).to = dec.held.to + Length(piece)
<1>1. dec.held \in Chunk
  BY DEF DecTyped
<1> DEFINE h == dec.held
           n == Length(piece)
<1>2. h.from \in Int /\ h.to \in Int /\ h.from <= h.to /\ n \in Nat /\ Length(h) = h.to - h.from
      /\ Length(h) \in Nat
  BY <1>1 DEF Chunk, Length
<1>3. Holding(piece) = IF Length(h) = 0 THEN piece ELSE [h EXCEPT !.to = @ + n]
  BY DEF Holding
<1> HIDE DEF n
<1>4. CASE Length(h) = 0
  BY <1>2, <1>3, <1>4 DEF n
<1>5. CASE Length(h) # 0
  <2>1. Holding(piece) = [h EXCEPT !.to = h.to + n] /\ h \in [from : Int, to : Int]
    BY <1>1, <1>3, <1>5 DEF Chunk
  <2>2. Holding(piece).from = h.from /\ Holding(piece).to = h.to + n
        /\ Holding(piece) \in [from : Int, to : Int]
    BY <1>2, <2>1
  <2>3. Length(Holding(piece)) = Length(h) + n
    BY <1>2, <2>2 DEF Length
  <2> QED  BY <1>2, <1>5, <2>2, <2>3 DEF Chunk, n
<1> QED  BY <1>4, <1>5

LEMMA ReadHeaderIs ==
  ASSUME ReadHeader, NEW piece, piece = Piece(FileHeader - Length(dec.held)),
         NEW start, start = PartStart(pos), NEW blocks, blocks = start \div BlockData,
         NEW offset, offset = FileHeader + blocks * BlockSize
  PROVE  /\ req.st = "reading" /\ dec.st = "header" /\ src.limit > 0 /\ Available
         /\ Length(Holding(piece)) < FileHeader =>
              dec' = [dec EXCEPT !.held = Holding(piece)] /\ SourceReads(Length(piece))
         /\ ~(Length(Holding(piece)) < FileHeader) =>
              /\ dec' = [dec EXCEPT !.st = "fill", !.held = Nothing,
                                    !.nonce = IF start = 0 THEN req.nonce ELSE Add(req.nonce, blocks)]
              /\ IF start = 0 THEN SourceReads(Length(piece))
                 ELSE OpenSource(offset,
                        Least(Stored(pos), offset + UnderlyingLimit(dec.limit, dec.discard)) - 1)
         /\ UNCHANGED <<req, pos, given, wrong, faulted>>
  BY DEF ReadHeader, Available

LEMMA ReadHeaderBase ==
  ASSUME BaseInv, ReadHeader
  PROVE  BaseInv'
<1> DEFINE want   == FileHeader - Length(dec.held)
           piece  == Piece(want)
           start  == PartStart(pos)
           blocks == start \div BlockData
           offset == FileHeader + blocks * BlockSize
           nonce  == IF start = 0 THEN req.nonce ELSE Add(req.nonce, blocks)
           last   == Least(Stored(pos), offset + UnderlyingLimit(dec.limit, dec.discard)) - 1
           block  == Holding(piece)
<1>1. /\ req.st = "reading" /\ dec.st = "header" /\ src.limit > 0 /\ Available
      /\ (Length(block) < FileHeader => dec' = [dec EXCEPT !.held = block] /\ SourceReads(Length(piece)))
      /\ (~(Length(block) < FileHeader) =>
            /\ dec' = [dec EXCEPT !.st = "fill", !.held = Nothing, !.nonce = nonce]
            /\ IF start = 0 THEN SourceReads(Length(piece)) ELSE OpenSource(offset, last))
      /\ UNCHANGED <<req, pos, given, wrong, faulted>>
  BY ReadHeaderIs, Zenon
<1>2. want \in Nat
  <2>1. dec.held \in Chunk /\ Length(dec.held) < FileHeader
    BY <1>1 DEF BaseInv, DecTyped, Decrypting
  <2> QED  BY <2>1, Sizes DEF Length, Chunk
<1> HIDE DEF want
<1>3. piece \in Chunk /\ Length(piece) \in Nat
  BY <1>1, <1>2, PieceIs DEF BaseInv
<1> HIDE DEF piece
<1>4. block \in Chunk /\ Length(block) \in Int
  BY <1>3, HoldingIs DEF BaseInv, Chunk, Length
<1> HIDE DEF block
<1>5. start \in Nat /\ Stored(pos) \in Int /\ dec.limit \in Int /\ dec.discard \in Int
      /\ req.nonce \in Digits
  BY <1>1, PartRange, PartIs, Nonce DEF BaseInv, Reads, DecTyped, ReqTyped
<1> HIDE DEF start
<1>6. blocks \in Nat
  <2>1. start \in Int /\ BlockData \in Nat \ {0}
    BY <1>5, Sizes
  <2> QED  BY <1>5, <2>1, Division
<1> HIDE DEF blocks
<1>7. nonce \in Digits
  BY <1>5, <1>6, AddDigits
<1> HIDE DEF nonce
<1>8. offset \in Int /\ last \in Int
  <2>1. blocks * BlockSize \in Int
    BY <1>6, Sizes, Products
  <2>2. offset \in Int
    BY <2>1, Sizes
  <2> HIDE DEF offset
  <2>3. UnderlyingLimit(dec.limit, dec.discard) \in Int
    BY <1>5, Underlying
  <2> QED  BY <1>5, <2>2, <2>3 DEF Least
<1> HIDE DEF offset, last
<1>9. SrcTyped'
  <2>1. SourceReads(Length(piece)) \/ OpenSource(offset, last)
    BY <1>1
  <2> QED  BY <1>1, <1>3, <1>8, <2>1, SourceReadsTyped, Opened DEF BaseInv
<1>10. DecTyped' /\ Decrypting'
  <2>1. Nothing \in Chunk
    BY DEF Nothing, Chunk
  <2>2. DecTyped' /\ dec'.st \in {"header", "fill"} /\ dec'.limit = dec.limit
        /\ (dec'.st = "fill" => dec'.nonce \in Digits /\ dec'.held = Nothing)
        /\ (dec'.st = "header" => dec'.held = block /\ Length(block) < FileHeader)
    BY <1>1, <1>4, <1>7, <2>1 DEF DecTyped, BaseInv
  <2>3. (dec'.st = "fill" => Length(dec.held)' < BlockSize)
        /\ (dec'.st = "header" => Length(dec.held)' < FileHeader)
    BY <2>2, Sizes DEF Length, Nothing
  <2>4. req'.st = req.st /\ req'.enc = req.enc
    BY <1>1
  <2> QED  BY <1>1, <2>2, <2>3, <2>4 DEF Decrypting, BaseInv
<1>11. ReqTyped' /\ Asked' /\ Within' /\ Reads'
  <2>1. faulted' \in BOOLEAN
    BY <1>1 DEF BaseInv, ReqTyped
  <2> QED  BY <1>1, <2>1, RequestKept
<1> QED  BY <1>9, <1>10, <1>11 DEF BaseInv

LEMMA FillBlockIs ==
  ASSUME FillBlock, NEW piece, piece = Piece(BlockSize - Length(dec.held)),
         NEW block, block = Holding(piece), NEW size, size = Length(block) - BlockHeader
  PROVE  /\ req.st = "reading" /\ dec.st = "fill" /\ src.limit > 0 /\ Available
         /\ \/ /\ ~Filled(piece, BlockSize)
               /\ dec' = [dec EXCEPT !.held = block, !.ok = @ /\ Fits(piece)]
               /\ SourceReads(Length(piece)) /\ req' = req
            \/ /\ Filled(piece, BlockSize) /\ size > 0 /\ dec.discard <= size
               /\ dec' = [dec EXCEPT !.st = IF dec.discard < size THEN "serve" ELSE "fill",
                                     !.held = Nothing, !.discard = 0, !.nonce = Increment(@),
                                     !.ok = @ /\ Fits(piece) /\ Opens(block),
                                     !.from = Skipping(block), !.to = PlainFrom(block) + size]
               /\ SourceReads(Length(piece)) /\ req' = req
            \/ Filled(piece, BlockSize) /\ (size <= 0 \/ dec.discard > size) /\ Ends("failed")
         /\ UNCHANGED <<pos, given, wrong, faulted>>
  BY DEF FillBlock, Available, NextNonce

LEMMA FillBlockBase ==
  ASSUME BaseInv, FillBlock
  PROVE  BaseInv'
<1> DEFINE want  == BlockSize - Length(dec.held)
           piece == Piece(want)
           block == Holding(piece)
           size  == Length(block) - BlockHeader
<1>1. /\ req.st = "reading" /\ dec.st = "fill" /\ src.limit > 0 /\ Available
      /\ \/ /\ ~Filled(piece, BlockSize)
            /\ dec' = [dec EXCEPT !.held = block, !.ok = @ /\ Fits(piece)]
            /\ SourceReads(Length(piece)) /\ req' = req
         \/ /\ Filled(piece, BlockSize) /\ size > 0 /\ dec.discard <= size
            /\ dec' = [dec EXCEPT !.st = IF dec.discard < size THEN "serve" ELSE "fill",
                                  !.held = Nothing, !.discard = 0, !.nonce = Increment(@),
                                  !.ok = @ /\ Fits(piece) /\ Opens(block),
                                  !.from = Skipping(block), !.to = PlainFrom(block) + size]
            /\ SourceReads(Length(piece)) /\ req' = req
         \/ Filled(piece, BlockSize) /\ (size <= 0 \/ dec.discard > size) /\ Ends("failed")
      /\ UNCHANGED <<pos, given, wrong, faulted>>
  BY FillBlockIs, Zenon
<1>2. want \in Nat /\ Length(dec.held) \in Nat /\ want = BlockSize - Length(dec.held)
  <2>1. dec.held \in Chunk /\ Length(dec.held) < BlockSize
    BY <1>1 DEF BaseInv, DecTyped, Decrypting
  <2> QED  BY <2>1, Sizes DEF Length, Chunk
<1> HIDE DEF want
<1>3. piece \in Chunk /\ Length(piece) \in 0..want
  BY <1>1, <1>2, PieceIs DEF BaseInv
<1> HIDE DEF piece
<1>4. block \in Chunk /\ Length(block) \in Nat /\ Length(block) <= BlockSize
  <2>1. block \in Chunk /\ Length(block) = Length(dec.held) + Length(piece)
    BY <1>3, HoldingIs DEF BaseInv
  <2> QED  BY <1>2, <1>3, <2>1, Sizes
<1>5. Filled(piece, BlockSize) <=> Length(block) = BlockSize \/ src.limit <= Length(piece)
  BY DEF Filled
<1>6. block.from \in Int /\ size \in Int
  BY <1>4, Sizes DEF Chunk
<1> HIDE DEF block, size
<1>7. PlainFrom(block) \in Int /\ Skipping(block) \in Int
  <2> DEFINE a == block.from - FileHeader
             n == a \div BlockSize
  <2>1. a \in Int
    BY <1>6, Sizes
  <2> HIDE DEF a
  <2>2. n \in Int
    BY <2>1, Sizes, Division
  <2> HIDE DEF n
  <2>3. n * BlockData \in Int
    BY <2>2, Sizes, Products
  <2>4. PlainFrom(block) = n * BlockData /\ Skipping(block) = PlainFrom(block) + dec.discard
    BY DEF PlainFrom, Skipping, n, a
  <2>5. dec.discard \in Int
    BY DEF BaseInv, DecTyped
  <2> QED  BY <2>3, <2>4, <2>5
<1>8. Increment(dec.nonce) \in Digits
  BY <1>1, IncrementIs DEF Increment, Digits, BaseInv, Decrypting
<1>9. CASE Ends("failed")
  <2>1. req' = [req EXCEPT !.st = "failed"] /\ SrcTyped' /\ DecTyped' /\ producer' \notin {"fetch", "push"}
    BY <1>9, ClosedTyped DEF Ends
  <2>2. faulted' \in BOOLEAN
    BY <1>1 DEF BaseInv, ReqTyped
  <2> QED  BY <1>1, <2>1, <2>2, RequestEnds
<1>10. ASSUME req' = req, SourceReads(Length(piece)), DecTyped', dec'.limit = dec.limit,
              dec'.st \in {"fill", "serve"}, dec'.nonce \in Digits, Length(dec'.held) < BlockSize
       PROVE  BaseInv'
  <2>1. SrcTyped'
    BY <1>1, <1>3, <1>10, SourceReadsTyped DEF BaseInv
  <2>2. Decrypting'
    BY <1>1, <1>10 DEF Decrypting, BaseInv, Length
  <2>3. ReqTyped' /\ Asked' /\ Within' /\ Reads'
    <3>1. faulted' \in BOOLEAN
      BY <1>1 DEF BaseInv, ReqTyped
    <3> QED  BY <1>1, <1>10, <3>1, RequestKept
  <2> QED  BY <1>10, <2>1, <2>2, <2>3 DEF BaseInv
<1>11. CASE /\ ~Filled(piece, BlockSize)
            /\ dec' = [dec EXCEPT !.held = block, !.ok = @ /\ Fits(piece)]
            /\ SourceReads(Length(piece)) /\ req' = req
  <2>1. Length(block) < BlockSize
    BY <1>4, <1>5, <1>11, Sizes
  <2>2. DecTyped' /\ dec'.st = "fill" /\ dec'.limit = dec.limit /\ dec'.nonce = dec.nonce
        /\ dec'.held = block
    <3> DEFINE ok == dec.ok /\ Fits(piece)
    <3>1. ok \in BOOLEAN /\ dec' = [dec EXCEPT !.held = block, !.ok = ok]
      BY <1>11
    <3> HIDE DEF ok
    <3> QED  BY <1>1, <1>4, <3>1 DEF DecTyped, BaseInv
  <2>3. dec.nonce \in Digits
    BY <1>1 DEF BaseInv, Decrypting
  <2> QED  BY <1>10, <1>11, <2>1, <2>2, <2>3
<1>12. CASE /\ dec' = [dec EXCEPT !.st = IF dec.discard < size THEN "serve" ELSE "fill",
                                  !.held = Nothing, !.discard = 0, !.nonce = Increment(@),
                                  !.ok = @ /\ Fits(piece) /\ Opens(block),
                                  !.from = Skipping(block), !.to = PlainFrom(block) + size]
            /\ SourceReads(Length(piece)) /\ req' = req
  <2> DEFINE ok == dec.ok /\ Fits(piece) /\ Opens(block)
             st == IF dec.discard < size THEN "serve" ELSE "fill"
             to == PlainFrom(block) + size
             from == Skipping(block)
             next == Increment(dec.nonce)
  <2>1. dec' = [dec EXCEPT !.st = st, !.held = Nothing, !.discard = 0, !.nonce = next,
                           !.ok = ok, !.from = from, !.to = to]
    BY <1>12
  <2>2. ok \in BOOLEAN /\ st \in {"fill", "serve"} /\ to \in Int /\ from \in Int /\ next \in Digits
        /\ Nothing \in Chunk /\ Length(Nothing) = 0
    BY <1>6, <1>7, <1>8 DEF Nothing, Chunk, Length
  <2> HIDE DEF ok, st, to, from, next
  <2>3. DecTyped' /\ dec'.st \in {"fill", "serve"} /\ dec'.limit = dec.limit /\ dec'.nonce = next
        /\ dec'.held = Nothing
    <3>1. dec' \in [st : {"off", "header", "fill", "serve"}, limit : Int, discard : Int,
                    nonce : Digits \cup {<<>>}, held : Chunk, from : Int, to : Int, ok : BOOLEAN]
      <4>1. dec' = [st |-> st, limit |-> dec.limit, discard |-> 0, nonce |-> next, held |-> Nothing,
                    from |-> from, to |-> to, ok |-> ok]
        BY <2>1 DEF DecTyped, BaseInv
      <4>2. dec.limit \in Int /\ st \in {"off", "header", "fill", "serve"}
            /\ next \in Digits \cup {<<>>}
        BY <2>2 DEF DecTyped, BaseInv
      <4> QED  BY <2>2, <4>1, <4>2
    <3>2. dec'.st = st /\ dec'.limit = dec.limit /\ dec'.nonce = next /\ dec'.held = Nothing
      BY <2>1 DEF DecTyped, BaseInv
    <3> QED  BY <2>2, <3>1, <3>2 DEF DecTyped
  <2>4. Length(dec'.held) < BlockSize
    BY <2>2, <2>3, Sizes
  <2> QED  BY <1>10, <1>12, <2>2, <2>3, <2>4
<1> QED  BY <1>1, <1>9, <1>11, <1>12

LEMMA BaseStep ==
  ASSUME BaseInv, [ReadNext]_readVars
  PROVE  BaseInv'
<1>1. CASE UNCHANGED readVars
  <2>1. req' = req /\ pos' = pos /\ given' = given /\ wrong' = wrong /\ faulted' \in BOOLEAN
        /\ producer' = producer /\ dec' = dec /\ SrcTyped' /\ src' = src
    BY <1>1 DEF readVars, BaseInv, SrcTyped, ReqTyped
  <2>2. ReqTyped' /\ Asked' /\ Within' /\ Reads'
    BY <2>1, RequestKept DEF BaseInv, Reads
  <2> QED  BY <2>1, <2>2 DEF BaseInv, DecTyped, Decrypting, Length
<1>2. ASSUME NEW file \in Files, NEW enc \in BOOLEAN, NEW nonce \in Nonces,
             NEW first \in {NoValue} \cup 0..(SizeOf(file) + 1),
             NEW last \in {NoValue} \cup 0..(SizeOf(file) + 1),
             <<first, last>> # <<NoValue, NoValue>>, Begin(file, enc, nonce, first, last)
      PROVE  BaseInv'
  BY <1>2, BeginBase
<1>3. CASE FetchBatch \/ FetchFails \/ FetchPanics \/ HandOver \/ NextBatch
  BY <1>3, ProducingBase
<1>4. CASE OutOfParts \/ SourceFails \/ Disconnect
  BY <1>4, EndingBase
<1>5. CASE OpenPart
  BY <1>5, OpenPartBase
<1>6. CASE CopyPlain
  BY <1>6, CopyPlainBase
<1>7. CASE ReadHeader
  BY <1>7, ReadHeaderBase
<1>8. CASE FillBlock
  BY <1>8, FillBlockBase
<1>9. CASE CopyDecrypted
  BY <1>9, CopyDecryptedBase
<1>10. CASE BlocksEnd
  BY <1>10, BlocksEndBase
<1> QED  BY <1>1, <1>2, <1>3, <1>4, <1>5, <1>6, <1>7, <1>8, <1>9, <1>10 DEF ReadNext

-----------------------------------------------------------------------------
(* Files whose parts are as long as the first, but the last.               *)

\* Blocks of the plain part.
LEMMA InBlock ==
  ASSUME NEW x \in Nat
  PROVE  /\ BlockOf(x) \in Nat /\ x % BlockData \in 0..(BlockData - 1)
         /\ x % BlockData = x - BlockOf(x) * BlockData
         /\ BlockOf(x) * BlockData \in Nat /\ BlockOf(x) * BlockData <= x
         /\ (BlockOf(x) + 1) * BlockData = BlockOf(x) * BlockData + BlockData
         /\ x < (BlockOf(x) + 1) * BlockData
<1> DEFINE b == x \div BlockData
<1>1. x \in Int /\ BlockData \in Nat \ {0}
  BY Sizes
<1>2. b \in Nat /\ x % BlockData \in 0..(BlockData - 1) /\ x % BlockData = x - b * BlockData
  BY <1>1, Division
<1> HIDE DEF b
<1>3. b * BlockData \in Nat /\ (b + 1) * BlockData = b * BlockData + BlockData
  BY <1>1, <1>2, Products
<1> DEFINE m == b * BlockData
<1>4. m \in Nat /\ m <= x /\ x < m + BlockData
  <2>1. m \in Nat /\ x % BlockData = x - m
    BY <1>2, <1>3
  <2> HIDE DEF m
  <2> QED  BY <1>1, <1>2, <2>1
<1> QED  BY <1>2, <1>3, <1>4 DEF BlockOf, b

LEMMA BlockIs ==
  ASSUME NEW x \in Nat, NEW b \in Nat, b * BlockData <= x, x < (b + 1) * BlockData
  PROVE  BlockOf(x) = b /\ x % BlockData = x - b * BlockData
<1> DEFINE m == b * BlockData
           r == x - m
<1>1. BlockData \in Nat \ {0} /\ m \in Nat /\ (b + 1) * BlockData = m + BlockData
  BY Sizes, Products
<1>2. r \in 0..(BlockData - 1) /\ m + r = x
  <2> HIDE DEF m
  <2>1. m <= x /\ x < m + BlockData
    BY <1>1 DEF m
  <2> QED  BY <1>1, <2>1
<1>3. b \in Int
  OBVIOUS
<1> HIDE DEF r
<1>4. (b * BlockData + r) \div BlockData = b /\ (b * BlockData + r) % BlockData = r
  BY <1>1, <1>2, <1>3, Quotient
<1>5. b * BlockData + r = x
  BY <1>2
<1> QED  BY <1>4, <1>5 DEF BlockOf, r

LEMMA BlocksInOrder ==
  ASSUME NEW x \in Nat, NEW y \in Nat, x <= y
  PROVE  BlockOf(x) <= BlockOf(y)
<1> DEFINE a == BlockOf(x)
           b == BlockOf(y)
<1>1. a \in Nat /\ b \in Nat /\ a * BlockData <= x /\ y < (b + 1) * BlockData
      /\ a * BlockData \in Nat /\ BlockData \in Nat \ {0}
  BY InBlock, Sizes
<1> HIDE DEF a, b
<1>2. (b + 1) * BlockData \in Nat
  <2>1. b + 1 \in Nat /\ b + 1 \in Int
    BY <1>1
  <2> QED  BY <1>1, <2>1, Products
<1>3. CASE b < a
  <2>1. b + 1 <= a
    BY <1>1, <1>3
  <2>2. b + 1 \in Int
    BY <1>1
  <2>3. (b + 1) * BlockData <= a * BlockData
    BY <1>1, <2>1, <2>2, Products
  <2> QED  BY <1>1, <1>2, <2>3
<1> QED  BY <1>1, <1>3 DEF a, b

\* Where blocks are stored, in order.
LEMMA BlocksStored ==
  ASSUME NEW a \in Nat, NEW b \in Nat, a <= b
  PROVE  BlockAt(a) \in Nat /\ BlockAt(b) \in Nat /\ BlockAt(a) <= BlockAt(b)
         /\ BlockAt(a + 1) = BlockAt(a) + BlockSize
         /\ BlockAt(0) = FileHeader
<1>1. a * BlockSize \in Nat /\ b * BlockSize \in Nat /\ a * BlockSize <= b * BlockSize
      /\ (a + 1) * BlockSize = a * BlockSize + BlockSize /\ 0 * BlockSize = 0
  BY Sizes, Products
<1> DEFINE m == a * BlockSize
           n == b * BlockSize
<1>2. m \in Nat /\ n \in Nat /\ m <= n
  BY <1>1
<1>3. BlockAt(a) = FileHeader + m /\ BlockAt(b) = FileHeader + n
      /\ BlockAt(a + 1) = FileHeader + (m + BlockSize) /\ BlockAt(0) = FileHeader + 0
  BY <1>1 DEF BlockAt
<1> HIDE DEF m, n
<1> QED  BY <1>2, <1>3, Sizes

\* calculateUnderlying: the blocks from the one of s to the one of e.
LEMMA BlocksAre ==
  ASSUME NEW s \in Nat, NEW e \in Nat, s <= e
  PROVE  BlockAt(BlockOf(s)) + UnderlyingLimit(e + 1 - s, s % BlockData) = BlockAt(BlockOf(e) + 1)
<1> DEFINE b == BlockOf(s)
           l == BlockOf(e)
           d == s % BlockData
           limit == e + 1 - s
           more  == limit - (BlockData - d)
           bd == b * BlockData
           ld == l * BlockData
<1>1. /\ b \in Nat /\ bd \in Nat /\ d \in 0..(BlockData - 1) /\ d = s - bd
      /\ l \in Nat /\ ld \in Nat /\ ld <= e /\ e < (l + 1) * BlockData
      /\ (l + 1) * BlockData = ld + BlockData
      /\ b <= l /\ BlockData \in Nat \ {0}
  BY InBlock, BlocksInOrder, Sizes
<1>2. (l - b) * BlockData = ld - bd /\ l - b \in Nat
  <2> HIDE DEF b, l
  <2> QED  BY <1>1, Products
<1>3. BlocksToRead(limit, d) = 1 + (l - b)
  <2>1. BlocksToRead(limit, d) = 1 + IF more > 0 THEN (more + BlockData - 1) \div BlockData ELSE 0
    BY DEF BlocksToRead
  <2> HIDE DEF b, l, d
  <2>2. more = e + 1 - bd - BlockData /\ more \in Int
    <3> HIDE DEF bd
    <3> QED  BY <1>1
  <2>3. CASE more > 0
    <3> DEFINE r == e - ld
               q == l - b
    <3>1. r \in 0..(BlockData - 1) /\ q \in Int
      BY <1>1
    <3>2. more + BlockData - 1 = q * BlockData + r
      <4> HIDE DEF bd, ld, more
      <4>1. q * BlockData = ld - bd
        BY <1>2
      <4> HIDE DEF q
      <4> QED  BY <1>1, <2>2, <4>1
    <3> HIDE DEF r, q
    <3>3. (q * BlockData + r) \div BlockData = q
      BY <1>1, <3>1, Quotient
    <3> QED  BY <2>1, <2>3, <3>2, <3>3 DEF q
  <2>4. CASE ~(more > 0)
    <3>1. e < bd + BlockData
      <4> HIDE DEF bd, more
      <4> QED  BY <1>1, <2>2, <2>4
    <3>2. l = b
      <4>1. bd <= ld
        <5> HIDE DEF bd, ld
        <5> QED  BY <1>1, <1>2, Products DEF bd, ld
      <4>2. ld < bd + BlockData
        <5> HIDE DEF bd, ld
        <5> QED  BY <1>1, <3>1
      <4>3. ~(b < l)
        <5>1. b < l => bd + BlockData <= ld
          BY <1>1, Products
        <5> HIDE DEF bd, ld
        <5> QED  BY <1>1, <4>2, <5>1
      <4> QED  BY <1>1, <4>3
    <3> QED  BY <1>1, <2>1, <2>4, <3>2
  <2> QED  BY <2>2, <2>3, <2>4
<1> HIDE DEF b, l, d, limit
<1>4. UnderlyingLimit(limit, d) = (1 + (l - b)) * BlockSize
  BY <1>3 DEF UnderlyingLimit
<1>5. b * BlockSize \in Int /\ (l + 1) * BlockSize = b * BlockSize + (1 + (l - b)) * BlockSize
      /\ (1 + (l - b)) * BlockSize \in Int
  <2> DEFINE n == 1 + (l - b)
  <2>1. n \in Int /\ l + 1 = b + n
    BY <1>1
  <2> HIDE DEF n
  <2> QED  BY <1>1, <2>1, Sizes, Products
<1> DEFINE x == b * BlockSize
           y == (1 + (l - b)) * BlockSize
<1>6. BlockAt(b) = FileHeader + x /\ BlockAt(l + 1) = FileHeader + (x + y) /\ x \in Int /\ y \in Int
      /\ UnderlyingLimit(limit, d) = y
  BY <1>4, <1>5 DEF BlockAt
<1> HIDE DEF x, y
<1>7. BlockAt(b) + UnderlyingLimit(limit, d) = BlockAt(l + 1)
  BY <1>6, Sizes
<1> QED  BY <1>7 DEF b, l, d, limit

\* What is left of the request lies within the file, and within the part as far as it goes.
LEMMA EvenIs ==
  ASSUME BaseInv, Even
  PROVE  EvenFile(PartSizes) /\ SizeOf(req.file) = (Len(PartSizes) - 1) * PartSizes[1] + PartSizes[Len(PartSizes)]
         /\ \A p \in 1..Len(PartSizes) : PartSizes[p] <= PartSizes[1]
<1>1. PartSizes \in Files /\ PartSizes = req.file
  BY DEF BaseInv, ReqTyped, PartSizes
<1>2. PartSizes \in Seq(Nat \ {0})
  BY <1>1, PartsOf
<1>3. DOMAIN PartSizes = 1..Len(PartSizes)
  BY <1>2
<1>4. EvenFile(PartSizes)
  BY <1>3 DEF Even, EvenFile
<1>5. \A p \in 1..Len(PartSizes) : PartSizes[p] <= PartSizes[1]
  BY <1>4 DEF EvenFile
<1> QED  BY <1>1, <1>4, <1>5, SizeIs

LEMMA EvenPart ==
  ASSUME BaseInv, Even, req.st \in {"open", "reading"}, HasPart
  PROVE  /\ PartEnd(pos) \in Nat /\ PartEnd(pos) < PartSizes[pos + 1] /\ PartStart(pos) \in Nat
         /\ PartStart(pos) <= PartEnd(pos) /\ PartSizes[pos + 1] \in Nat \ {0}
         /\ Stored(pos) = IF req.enc THEN EncryptedSize(PartSizes[pos + 1]) ELSE PartSizes[pos + 1]
         /\ pos + 1 \in DOMAIN PartSizes
<1> DEFINE z == PartSizes[1]
           n == Len(PartSizes)
           l == PartSizes[n]
           m == pos * z
           k == (n - 1) * z
<1>1. /\ req.end < SizeOf(req.file) /\ req.end \in Int /\ pos \in Nat
  BY DEF BaseInv, Asked, ReqTyped
<1>2. /\ z \in Nat \ {0} /\ pos + 1 \in 1..n /\ PartSizes[pos + 1] \in Nat \ {0} /\ n \in Nat \ {0}
      /\ SizeOf(req.file) = k + l /\ PartSizes \in Files /\ SizeOf(req.file) \in Int
  BY PartIs, EvenIs DEF BaseInv
<1>3. l \in Nat \ {0}
  BY <1>2, PartsOf
<1>4. /\ m \in Nat /\ PartStart(pos) \in Nat /\ PartEnd(pos) \in Int
      /\ PartEnd(pos) = Least(z - 1, req.end - m) /\ PartStart(pos) <= PartEnd(pos)
      /\ PartEnd(pos) < z
  BY PartRange, PlainRange DEF BaseInv
<1>5. PartEnd(pos) < PartSizes[pos + 1]
  <2>1. CASE pos + 1 < n
    <3>1. PartSizes[pos + 1] = z
      BY <1>2, <2>1, EvenIs DEF EvenFile
    <3> QED  BY <1>4, <3>1
  <2>2. CASE ~(pos + 1 < n)
    <3>1. pos + 1 = n /\ pos = n - 1
      BY <1>1, <1>2, <2>2
    <3>2. req.end - m < l
      <4>1. m = k
        BY <3>1
      <4> HIDE DEF z, m, k, l, n
      <4> QED  BY <1>1, <1>2, <1>3, <1>4, <4>1
    <3>3. PartEnd(pos) <= req.end - m
      <4> HIDE DEF m, z
      <4> QED  BY <1>1, <1>2, <1>4 DEF Least
    <3>4. PartSizes[pos + 1] = l
      BY <3>1
    <3> HIDE DEF l, m
    <3> QED  BY <1>1, <1>3, <1>4, <3>2, <3>3, <3>4
  <2> QED  BY <2>1, <2>2
<1>6. pos + 1 \in DOMAIN PartSizes
  BY <1>2, PartsOf
<1>7. PartEnd(pos) \in Nat
  BY <1>4
<1> QED  BY <1>2, <1>4, <1>5, <1>6, <1>7 DEF Stored

\* Source, chunk and decrypter are those of a request being read.
LEMMA OtherStates ==
  ASSUME req'.st # "reading", Place'
  PROVE  EvenInv'
  BY DEF EvenInv, Source, Plain, Header, Block

LEMMA EvenKept ==
  ASSUME req'.file = req.file
  PROVE  Even' <=> Even
  BY DEF Even, PartSizes

LEMMA BeginEven ==
  ASSUME BaseInv, NEW file \in Files, NEW enc \in BOOLEAN, NEW nonce \in Nonces,
         NEW first \in {NoValue} \cup 0..(SizeOf(file) + 1),
         NEW last \in {NoValue} \cup 0..(SizeOf(file) + 1), Begin(file, enc, nonce, first, last)
  PROVE  EvenInv'
<1> DEFINE range == Parse(SizeOf(file), first, last)
           start == range.start
           st    == IF range.ok THEN "open" ELSE "refused"
           z     == file[1]
           q     == start \div z
<1>1. /\ req.st = "none"
      /\ req' = [st |-> st, file |-> file, enc |-> enc, nonce |-> nonce, start |-> start,
                 end |-> range.end, first |-> first, last |-> last]
      /\ pos' = (IF range.ok THEN start \div PartSize' ELSE 0)
      /\ given' = given /\ wrong' = wrong /\ src' = src
  BY DEF Begin
<1>2. given = 0 /\ ~wrong /\ src.limit >= 0
  BY <1>1 DEF BaseInv, Within
<1>3. z \in Nat \ {0}
  <2>1. Len(file) \in Nat \ {0} /\ \A p \in 1..Len(file) : file[p] \in Nat \ {0}
    BY PartsOf
  <2> QED  BY <2>1
<1>4. PartSize' = z
  <2>1. req'.enc = enc /\ req'.file = file /\ 0 + 1 = 1
    BY <1>1
  <2>2. Stored(0)' = IF enc THEN EncryptedSize(z) ELSE z
    BY <2>1 DEF Stored, PartSizes
  <2>3. PartSize' = IF enc THEN DecryptedSize(Stored(0)') ELSE Stored(0)'
    BY <2>1 DEF PartSize
  <2> HIDE DEF z
  <2> QED  BY <1>3, <2>2, <2>3, Decrypted
<1>5. range.ok = (start <= range.end /\ start >= 0) /\ start \in Int
  <2>1. first \in Int /\ last \in Int /\ SizeOf(file) \in Int
    BY SizeIs DEF NoValue
  <2> QED  BY <2>1 DEF Parse
<1> HIDE DEF range, z
<1>6. req'.st = st /\ req'.start = start /\ PartSizes' = file
  BY <1>1 DEF PartSizes
<1>7. ASSUME range.ok PROVE start + given' = pos' * z + PartStart(pos)'
  <2>1. start \in Nat /\ start \in Int
    <3>1. start <= range.end /\ start >= 0
      BY <1>5, <1>7
    <3> QED  BY <1>5, <3>1
  <2> HIDE DEF start
  <2>2. q \in Nat /\ start % z = start - q * z /\ start % z \in 0..(z - 1)
    BY <1>3, <2>1, Division
  <2>3. pos' = q
    BY <1>1, <1>4, <1>7
  <2> HIDE DEF q
  <2>4. q * z \in Nat
    BY <1>3, <2>2, Products
  <2> DEFINE m == q * z
  <2>5. m \in Nat /\ m <= start
    <3>1. m \in Nat /\ start % z = start - m
      BY <2>2, <2>4
    <3> HIDE DEF m
    <3> QED  BY <1>3, <2>1, <2>2, <3>1
  <2>6. PartStart(pos)' = IF start > m THEN start - m ELSE 0
    BY <1>4, <1>6, <2>3 DEF PartStart
  <2> HIDE DEF m
  <2>7. start + 0 = m + PartStart(pos)'
    BY <2>1, <2>5, <2>6
  <2> QED  BY <1>1, <1>2, <2>3, <2>7 DEF m
<1>8. st = "open" => range.ok
  OBVIOUS
<1> HIDE DEF start
<1>9. Place'
  <2>1. PartSizes'[1] = z
    BY <1>6 DEF z
  <2>2. ~wrong'
    BY <1>1, <1>2
  <2>3. st \in {"open", "refused"}
    OBVIOUS
  <2> HIDE DEF st
  <2> QED  BY <1>1, <1>2, <1>6, <1>7, <1>8, <2>1, <2>2, <2>3 DEF Place
<1>10. req'.st # "reading"
  BY <1>6
<1> QED  BY <1>9, <1>10, OtherStates

LEMMA BlockRange ==
  ASSUME BaseInv, Even, req.st \in {"open", "reading"}, HasPart, req.enc,
         NEW x \in Nat, x <= PartEnd(pos)
  PROVE  /\ LastStop \in Nat /\ LastStop <= Stored(pos)
         /\ BlockAt(BlockOf(x)) \in Nat /\ BlockAt(BlockOf(x)) < LastStop
         /\ BlockAt(BlockOf(x) + 1) = BlockAt(BlockOf(x)) + BlockSize
         /\ Least(BlockAt(BlockOf(x) + 1), Stored(pos)) <= LastStop
         /\ Stored(pos) \in Nat /\ FileHeader < LastStop /\ FileHeader < Stored(pos)
         /\ BlockOf(x) * BlockData < PartSizes[pos + 1]
<1> DEFINE e == PartEnd(pos)
           z == PartSizes[pos + 1]
           b == BlockOf(x)
           l == BlockOf(e)
           s == Stored(pos)
<1>1. e \in Nat /\ e < z /\ z \in Nat \ {0} /\ s = EncryptedSize(z)
  BY EvenPart
<1> HIDE DEF e, z
<1>2. b \in Nat /\ l \in Nat /\ b <= l /\ b * BlockData <= x /\ b * BlockData \in Nat
  BY <1>1, InBlock, BlocksInOrder DEF e
<1>3. b * BlockData < z
  <2> DEFINE m == b * BlockData
  <2>1. m \in Nat /\ m <= x /\ x <= e
    BY <1>2 DEF e
  <2> HIDE DEF m
  <2>2. m < z
    BY <1>1, <2>1
  <2> QED  BY <2>2 DEF m
<1> HIDE DEF b, l
<1>4. s \in Nat /\ BlockAt(b) \in Nat /\ BlockAt(b) < s /\ BlockAt(b + 1) = BlockAt(b) + BlockSize
      /\ s > FileHeader
  <2> HIDE DEF s
  <2> QED  BY <1>1, <1>2, <1>3, BlockLength, Decrypted
<1>5. b + 1 \in Nat /\ l + 1 \in Nat /\ b + 1 <= l + 1 /\ 0 \in Nat /\ 0 <= l
  BY <1>2
<1>6. BlockAt(b + 1) \in Nat /\ BlockAt(l + 1) \in Nat /\ BlockAt(b + 1) <= BlockAt(l + 1)
  BY <1>5, BlocksStored
<1>7. BlockAt(0) = FileHeader /\ BlockAt(0) <= BlockAt(l) /\ BlockAt(l + 1) = BlockAt(l) + BlockSize
      /\ BlockAt(l) \in Nat
  <2>1. BlockAt(0) = FileHeader /\ BlockAt(0) <= BlockAt(l) /\ BlockAt(l) \in Nat
    BY <1>2, <1>5, BlocksStored
  <2>2. BlockAt(l + 1) = BlockAt(l) + BlockSize
    BY <1>2, BlocksStored
  <2> QED  BY <2>1, <2>2
<1> DEFINE t == BlockAt(l + 1)
           u == BlockAt(b + 1)
<1>8. LastStop = Least(s, t)
  BY DEF LastStop, l, e
<1> HIDE DEF s, t, u
<1>9. s \in Nat /\ t \in Nat /\ u \in Nat /\ u <= t /\ BlockAt(b) \in Nat /\ BlockAt(b) < s
      /\ u = BlockAt(b) + BlockSize /\ FileHeader < t /\ FileHeader < s
      /\ FileHeader \in Nat /\ BlockSize \in Nat \ {0}
  <2>1. t = BlockAt(l) + BlockSize /\ FileHeader <= BlockAt(l)
    BY <1>7 DEF t
  <2>2. FileHeader < t
    BY <1>7, <2>1, Sizes
  <2> QED  BY <1>4, <1>6, <2>2, Sizes DEF s, t, u
<1>10. /\ Least(s, t) \in Nat /\ Least(s, t) <= s /\ BlockAt(b) < Least(s, t)
       /\ Least(u, s) <= Least(s, t) /\ FileHeader < Least(s, t)
  BY <1>9 DEF Least
<1> QED  BY <1>3, <1>4, <1>8, <1>9, <1>10 DEF b, z, s, u

LEMMA OpenPartEven ==
  ASSUME BaseInv, EvenInv, Even, OpenPart
  PROVE  EvenInv'
<1> DEFINE start == PartStart(pos)
           limit == PartEnd(pos) - start + 1
           end   == IF start > 0 THEN FileHeader - 1
                    ELSE Least(Stored(pos), FileHeader + UnderlyingLimit(limit, 0)) - 1
           P     == PartSizes[1]
<1>1. /\ req.st = "open" /\ HasPart /\ req' = [req EXCEPT !.st = "reading"]
      /\ (~req.enc => OpenSource(start, PartEnd(pos)) /\ dec' = NoDecrypter)
      /\ (req.enc => /\ dec' = [NoDecrypter EXCEPT !.st = "header", !.limit = limit,
                                                   !.discard = start % BlockData]
                     /\ OpenSource(0, end))
      /\ UNCHANGED <<pos, given, wrong, faulted>>
  BY OpenPartIs, Zenon
<1>2. /\ start \in Nat /\ PartEnd(pos) \in Nat /\ start <= PartEnd(pos) /\ PartEnd(pos) < PartSizes[pos + 1]
      /\ PartSizes[pos + 1] \in Nat \ {0} /\ limit = PartEnd(pos) + 1 - start
      /\ Stored(pos) = IF req.enc THEN EncryptedSize(PartSizes[pos + 1]) ELSE PartSizes[pos + 1]
  BY <1>1, EvenPart
<1>3. /\ req'.st = "reading" /\ req'.file = req.file /\ req'.enc = req.enc
      /\ req'.start = req.start /\ req'.end = req.end /\ req'.nonce = req.nonce
  BY <1>1 DEF BaseInv, ReqTyped
<1>4. /\ PartStart(pos)' = start /\ PartEnd(pos)' = PartEnd(pos) /\ Stored(pos)' = Stored(pos)
      /\ PartSizes' = PartSizes /\ LastStop' = LastStop /\ Here' = Here
  <2>1. PartSizes' = PartSizes /\ PartSize' = PartSize /\ Stored(pos)' = Stored(pos)
    BY <1>1, <1>3 DEF PartSizes, PartSize, Stored
  <2>2. PartStart(pos)' = PartStart(pos) /\ PartEnd(pos)' = PartEnd(pos)
    BY <1>1, <1>3, <2>1 DEF PartStart, PartEnd
  <2> QED  BY <1>1, <1>3, <2>1, <2>2 DEF LastStop, Here
<1>5. Here = start
  <2>1. req.start + given = pos * P + start /\ pos * P \in Nat /\ Here = req.start + given - pos * P
    BY <1>1, PartRange DEF EvenInv, Place, BaseInv, Here
  <2> DEFINE m == pos * P
  <2>2. req.start + given = m + start /\ m \in Nat /\ Here = req.start + given - m
        /\ req.start \in Int /\ given \in Int
    BY <2>1 DEF BaseInv, ReqTyped
  <2> HIDE DEF m, start
  <2> QED  BY <1>2, <2>2
<1>6. Place'
  BY <1>1, <1>3 DEF EvenInv, Place
<1>7. req.enc \in BOOLEAN
  BY DEF BaseInv, ReqTyped
<1>8. CASE ~req.enc
  <2>1. InLine' /\ Stop' = PartEnd(pos) + 1 /\ At' = start
    <3>1. OpenSource(start, PartEnd(pos)) /\ 0 <= start /\ start <= PartEnd(pos)
          /\ start \in Int /\ PartEnd(pos) \in Int
      BY <1>1, <1>2, <1>8
    <3> HIDE DEF start
    <3> QED  BY <3>1, Opened
  <2> HIDE DEF start
  <2>2. Source'
    BY <1>2, <1>4, <1>8, <2>1 DEF Source
  <2>3. Plain'
    BY <1>4, <1>5, <2>1 DEF Plain
  <2>4. Header' /\ Block'
    BY <1>3, <1>8 DEF Header, Block
  <2> QED  BY <1>6, <2>2, <2>3, <2>4 DEF EvenInv
<1>9. CASE req.enc
  <2> DEFINE stop == IF start > 0 THEN FileHeader ELSE LastStop
  <2>1. /\ LastStop \in Nat /\ LastStop <= Stored(pos) /\ Stored(pos) \in Nat /\ FileHeader < LastStop
        /\ FileHeader < Stored(pos) /\ FileHeader \in Nat \ {0}
    BY <1>1, <1>2, <1>9, BlockRange, Sizes
  <2>2. end = stop - 1
    <3>1. CASE start > 0
      BY <3>1
    <3>2. CASE ~(start > 0)
      <4>1. start = 0 /\ 0 \in Nat
        BY <1>2, <3>2
      <4>2. BlockOf(start) = 0 /\ start % BlockData = 0
        <5>1. 0 * BlockData <= start /\ start < (0 + 1) * BlockData /\ start % BlockData = start - 0 * BlockData
              <=> 0 <= 0 /\ 0 < BlockData /\ start % BlockData = 0
          BY <4>1, Sizes
        <5>2. 0 * BlockData <= 0 /\ 0 < (0 + 1) * BlockData /\ 0 - 0 * BlockData = 0
          BY Sizes
        <5>3. BlockOf(0) = 0 /\ 0 % BlockData = 0
          BY <5>2, BlockIs
        <5> QED  BY <4>1, <5>3
      <4>3. BlockAt(0) + UnderlyingLimit(limit, 0) = BlockAt(BlockOf(PartEnd(pos)) + 1)
            /\ BlockAt(0) = FileHeader
        <5>1. BlockAt(BlockOf(start)) + UnderlyingLimit(PartEnd(pos) + 1 - start, start % BlockData)
                = BlockAt(BlockOf(PartEnd(pos)) + 1)
          BY <1>2, BlocksAre
        <5>2. BlockAt(0) = FileHeader
          <6>1. 0 \in Nat /\ 0 <= 0
            OBVIOUS
          <6> QED  BY <6>1, BlocksStored
        <5> QED  BY <1>2, <4>2, <5>1, <5>2
      <4> QED  BY <3>2, <4>3 DEF LastStop
    <3> QED  BY <3>1, <3>2
  <2>3. stop \in Nat \ {0} /\ stop <= Stored(pos)
    BY <2>1
  <2> HIDE DEF stop, end
  <2>4. InLine' /\ Stop' = stop /\ At' = 0
    <3>1. OpenSource(0, end) /\ 0 <= end /\ end \in Int /\ 0 \in Int /\ 0 <= 0 /\ end + 1 = stop
      BY <1>1, <1>9, <2>2, <2>3
    <3> QED  BY <3>1, Opened
  <2>5. /\ dec'.st = "header" /\ dec'.limit = limit /\ dec'.discard = start % BlockData
        /\ Length(dec.held)' = 0 /\ dec'.ok = TRUE
    <3> DEFINE d == start % BlockData
    <3>1. dec' = [NoDecrypter EXCEPT !.st = "header", !.limit = limit, !.discard = d]
      BY <1>1, <1>9
    <3> HIDE DEF d, limit
    <3>2. /\ dec'.st = "header" /\ dec'.limit = limit /\ dec'.discard = d
          /\ dec'.held = Nothing /\ dec'.ok = TRUE
      BY <3>1 DEF NoDecrypter
    <3> QED  BY <3>2 DEF d, Length, Nothing
  <2>6. Source'
    BY <1>4, <2>3, <2>4 DEF Source
  <2>7. Plain'
    BY <1>3, <1>9 DEF Plain
  <2>8. Header'
    BY <1>4, <1>5, <2>1, <2>4, <2>5 DEF Header, stop
  <2>9. Block'
    <3>1. start \in start..PartEnd(pos)
      BY <1>2
    <3> HIDE DEF start
    <3> QED  BY <1>2, <1>4, <1>5, <2>5, <3>1 DEF Block
  <2> QED  BY <1>6, <2>6, <2>7, <2>8, <2>9 DEF EvenInv
<1> QED  BY <1>7, <1>8, <1>9

\* Steps of the goroutine leave the source where it is.
LEMMA SourceKept ==
  ASSUME BaseInv, EvenInv, Even, req.st = "reading", req' = req, pos' = pos, given' = given,
         wrong' = wrong, dec' = dec, faulted \in BOOLEAN, faulted => faulted', InLine', Stop' = Stop, At' = At
  PROVE  EvenInv'
<1>1. /\ PartSizes' = PartSizes /\ PartSize' = PartSize /\ Stored(pos)' = Stored(pos) /\ Here' = Here
  BY DEF PartSizes, PartSize, Stored, Here
<1>2. PartStart(pos)' = PartStart(pos) /\ PartEnd(pos)' = PartEnd(pos)
  BY <1>1 DEF PartStart, PartEnd
<1>3. LastStop' = LastStop /\ Length(dec.held)' = Length(dec.held)
  BY <1>1, <1>2 DEF LastStop, Length
<1>4. Place' /\ Source' /\ Plain'
  BY <1>1, <1>2 DEF EvenInv, Place, Source, Plain
<1>5. Header'
  BY <1>1, <1>2, <1>3 DEF EvenInv, Header
<1>6. Block'
  BY <1>1, <1>2, <1>3 DEF EvenInv, Block
<1> QED  BY <1>4, <1>5, <1>6 DEF EvenInv

LEMMA ProducingEven ==
  ASSUME BaseInv, EvenInv, Even, FetchBatch \/ FetchFails \/ FetchPanics \/ HandOver \/ NextBatch
  PROVE  EvenInv'
<1>1. producer \in {"fetch", "push"} /\ req.st = "reading" /\ HasPart /\ ReqTyped /\ SrcTyped
      /\ faulted \in BOOLEAN
  BY DEF BaseInv, Reads, FetchBatch, FetchFails, FetchPanics, HandOver, NextBatch, ReqTyped
<1>2. InLine /\ Stop <= Stored(pos)
  BY <1>1 DEF EvenInv, Source
<1>3. CASE FetchPanics
  BY <1>1, <1>2, <1>3, AllExist DEF FetchPanics
<1>4. CASE FetchBatch \/ FetchFails \/ HandOver \/ NextBatch
  <2>1. req' = req /\ pos' = pos /\ given' = given /\ wrong' = wrong /\ dec' = dec
        /\ (faulted => faulted')
    BY <1>4 DEF FetchBatch, FetchFails, HandOver, NextBatch
  <2>2. InLine' /\ Stop' = Stop /\ At' = At
    BY <1>1, <1>2, <1>4, FetchBatchInLine, FetchFailsKeeps, HandOverKeeps, NextBatchKeeps
  <2> QED  BY <1>1, <2>1, <2>2, SourceKept
<1> QED  BY <1>3, <1>4

\* A source whose channel is closed before its end has failed.
LEMMA NoMoreFaulted ==
  ASSUME SrcTyped, InLine, NoMore
  PROVE  faulted
<1>1. src.limit > 0 /\ Length(cur) <= 0 /\ buffers = <<>> /\ producer = "closed"
  BY DEF NoMore
<1>2. CASE src.current >= src.total
  <2>1. Ahead = Stop /\ batch = <<>>
    BY <1>1, <1>2 DEF Ahead, InLine
  <2>2. Fetched = Stop
    BY <2>1 DEF Fetched
  <2>3. Waiting = At
    BY <1>1, SrcTypes DEF Waiting
  <2>4. At = Stop
    BY <1>1, <2>2, <2>3 DEF InLine, Spans
  <2> QED  BY <1>1, <2>4, SrcTypes DEF At
<1> QED  BY <1>1, <1>2 DEF InLine

\* Every part of the range is there.
LEMMA HasEveryPart ==
  ASSUME BaseInv, EvenInv, Even, req.st = "open"
  PROVE  HasPart
<1> DEFINE z == PartSizes[1]
           n == Len(PartSizes)
           l == PartSizes[n]
           m == pos * z
           k == (n - 1) * z
           p == PartStart(pos)
           e == req.end
           q == e \div z
<1>1. /\ given <= req.end - req.start /\ req.end < SizeOf(req.file) /\ req.end \in Int
      /\ req.start \in Int /\ given \in Nat /\ pos \in Nat /\ req.start + given = m + p
  BY DEF BaseInv, Asked, Within, ReqTyped, EvenInv, Place
<1>2. /\ z \in Nat \ {0} /\ n \in Nat \ {0} /\ PartSize = z /\ SizeOf(req.file) = k + l
      /\ PartSizes \in Files /\ SizeOf(req.file) \in Nat
  BY PartIs, EvenIs DEF BaseInv
<1>3. l \in Nat \ {0} /\ l <= z
  <2>1. n \in 1..n
    BY <1>2
  <2>2. l \in Nat \ {0}
    BY <1>2, <2>1, PartsOf
  <2> QED  BY <2>1, <2>2, EvenIs
<1>4. m \in Nat /\ p \in Nat
  BY PartRange DEF BaseInv
<1> HIDE DEF p, z, l, n
<1>5. m <= e /\ e < k + l /\ e \in Nat
  <2> HIDE DEF m, k
  <2> QED  BY <1>1, <1>2, <1>4
<1>6. pos < n
  <2>1. n - 1 \in Int /\ n \in Int
    BY <1>2
  <2>2. n * z = k + z /\ k \in Int
    <3>1. ((n - 1) + 1) * z = (n - 1) * z + z /\ (n - 1) * z \in Int
      BY <1>2, <2>1, Products
    <3>2. (n - 1) + 1 = n
      BY <1>2
    <3> QED  BY <3>1, <3>2
  <2>3. n <= pos => n * z <= m
    BY <1>1, <1>2, <2>1, Products
  <2> DEFINE nz == n * z
  <2>4. nz = k + z /\ k \in Int /\ (n <= pos => nz <= m)
    BY <2>2, <2>3
  <2> HIDE DEF nz, m, k
  <2> QED  BY <1>1, <1>2, <1>3, <1>4, <1>5, <2>4
<1>7. pos <= e \div z
  <2> HIDE DEF e
  <2>1. e \in Int /\ z \in Nat \ {0} /\ q \in Nat /\ e % z \in 0..(z - 1) /\ e % z = e - q * z
    <3>1. e \in Nat /\ e \in Int /\ z \in Nat \ {0}
      BY <1>2, <1>5
    <3>2. e \div z \in Nat /\ e % z \in 0..(z - 1) /\ e % z = e - (e \div z) * z
      BY <3>1, Division
    <3> QED  BY <3>1, <3>2
  <2> HIDE DEF q
  <2>2. q < pos => q * z + z <= m
    BY <1>1, <1>2, <2>1, Products
  <2> DEFINE r == q * z
  <2>3. r \in Nat /\ e % z = e - r /\ (q < pos => r + z <= m)
    BY <1>2, <2>1, <2>2, Products
  <2> HIDE DEF r, m
  <2>4. ~(q < pos)
    BY <1>2, <1>4, <1>5, <2>1, <2>3
  <2> QED  BY <1>1, <2>1, <2>4 DEF q
<1> QED  BY <1>2, <1>6, <1>7 DEF HasPart, n

LEMMA EndingEven ==
  ASSUME BaseInv, EvenInv, Even, OutOfParts \/ SourceFails \/ Disconnect
  PROVE  EvenInv'
<1>1. PICK s \in {"short", "failed", "gone"} : Ends(s) /\ (s # "gone" => OutOfParts \/ SourceFails)
                                              /\ (s = "gone" => faulted')
  BY DEF OutOfParts, SourceFails, Disconnect
<1>2. req' = [req EXCEPT !.st = s] /\ wrong' = wrong /\ (faulted => faulted') /\ req'.st = s
  BY <1>1 DEF OutOfParts, SourceFails, Disconnect, Ends, BaseInv, ReqTyped
<1>3. s # "gone" => faulted'
  <2>1. OutOfParts => FALSE
    BY HasEveryPart DEF OutOfParts
  <2>2. SourceFails => faulted
    <3> SUFFICES ASSUME SourceFails PROVE faulted
      OBVIOUS
    <3>1. InLine /\ SrcTyped /\ NoMore
      BY DEF SourceFails, EvenInv, Source, BaseInv
    <3> QED  BY <3>1, NoMoreFaulted
  <2> QED  BY <1>1, <1>2, <2>1, <2>2
<1>4. src'.limit = 0
  BY <1>1, ClosedTyped DEF Ends
<1>5. Place'
  BY <1>1, <1>2, <1>3, <1>4 DEF EvenInv, Place
<1> QED  BY <1>2, <1>5, OtherStates

\* While a block is missing, the source has more.
LEMMA BlocksEndNever ==
  ASSUME BaseInv, EvenInv, Even, BlocksEnd
  PROVE  FALSE
<1>1. req.st = "reading" /\ dec.st = "fill" /\ src.limit <= 0
  BY DEF BlocksEnd
<1>2. req.enc /\ HasPart /\ SrcTyped
  BY <1>1 DEF BaseInv, Decrypting, Reads
<1>3. /\ Here \in PartStart(pos)..PartEnd(pos) /\ Stop = LastStop
      /\ (Length(dec.held) = 0 => At = BlockAt(BlockOf(Here)))
      /\ (Length(dec.held) # 0 => At < Stop)
  BY <1>1, <1>2 DEF EvenInv, Block
<1>4. Here \in Nat /\ Here <= PartEnd(pos)
  BY <1>1, <1>2, <1>3, EvenPart
<1>5. BlockAt(BlockOf(Here)) < LastStop
  BY <1>1, <1>2, <1>4, BlockRange
<1>6. At < Stop
  BY <1>3, <1>5
<1> QED  BY <1>1, <1>2, <1>6, SrcTypes DEF At

\* The chunk at hand begins with the next byte.
LEMMA AtHandInLine ==
  ASSUME SrcTyped, Available, InLine
  PROVE  AtHand.from = At /\ At < AtHand.to /\ AtHand.to <= Stop /\ AtHand.to \in Int
<1>1. CASE Length(cur) > 0
  <2>1. cur.from = At /\ cur.to <= Stop /\ cur.from < cur.to /\ AtHand = cur /\ cur.to \in Int
    BY <1>1, SrcTypes, AtHandIs DEF InLine
  <2> QED  BY <2>1
<1>2. CASE ~(Length(cur) > 0)
  <2>1. Waiting = At /\ buffers # <<>> /\ AtHand = Head(buffers) /\ buffers \in Seq(Chunk)
        /\ Spans(At, buffers, Fetched) /\ At \in Int /\ Fetched \in Int /\ Ahead \in Int /\ Stop \in Int
        /\ Fetched <= Ahead /\ Ahead <= Stop
    BY <1>2, SrcTypes, AtHandIs DEF InLine, Waiting, SrcTyped
  <2>2. AtHand.from = At /\ At < AtHand.to /\ AtHand.to <= Fetched /\ AtHand \in Chunk
    BY <2>1, SpansTail, Chunks
  <2>3. AtHand.to \in Int
    BY <2>2 DEF Chunk
  <2> QED  BY <2>1, <2>2, <2>3
<1> QED  BY <1>1, <1>2

\* After bytes are written: the request has ended, or the next part is next, or
\* the part goes on.
LEMMA GivesEven ==
  ASSUME BaseInv, EvenInv, Even, req.st = "reading", NEW from \in Int, NEW to \in Int, NEW ok \in BOOLEAN,
         NEW ended \in BOOLEAN, from <= to, to - from <= Left(0), Gives(from, to, ok, ended),
         faulted' = faulted, ok, from = Here, ended <=> to = PartEnd(pos) + 1, to <= PartEnd(pos) + 1
  PROVE  /\ ~wrong'
         /\ Left(to - from) <= 0 \/ ended => EvenInv'
         /\ Left(to - from) > 0 /\ ~ended =>
              req' = req /\ pos' = pos /\ Here' = to /\ to <= PartEnd(pos)
<1> DEFINE n == to - from
           P == PartSizes[1]
           m == pos * P
<1>1. /\ given' = given + n
      /\ wrong' = (wrong \/ ~ok \/ pos * PartSize + from # req.start + given)
      /\ (Left(n) <= 0 => Ends("whole") /\ pos' = pos)
      /\ (Left(n) > 0 /\ ended => MoveToNextPart)
      /\ (Left(n) > 0 /\ ~ended => req' = req /\ pos' = pos)
  BY DEF Gives
<1>2. /\ Left(0) \in Nat \ {0} /\ Left(0) = req.end - req.start + 1 - given /\ Left(n) = Left(0) - n
  BY GivesBase
<1>3. /\ HasPart /\ PartSize = P /\ P \in Nat \ {0} /\ req.start \in Int /\ req.end \in Int
      /\ given \in Nat /\ pos \in Nat /\ wrong \in BOOLEAN /\ ~wrong
  BY PartIs DEF BaseInv, Reads, ReqTyped, EvenInv, Place
<1>4. /\ PartStart(pos) \in Nat /\ PartEnd(pos) = Least(P - 1, req.end - m)
      /\ m \in Nat /\ (pos + 1) * P = m + P /\ PartEnd(pos) \in Int /\ (pos + 1) * P \in Int
  BY PartRange, <1>3 DEF BaseInv
<1>5. Here = req.start + given - m
  BY DEF Here
<1> DEFINE next == (pos + 1) * P
<1> HIDE DEF m, next, P
<1>6. m + from = req.start + given
  BY <1>3, <1>4, <1>5
<1>7. ~wrong'
  BY <1>1, <1>3, <1>6 DEF m
<1> DEFINE asked == req.start
           last  == req.end
<1>14. m \in Int /\ asked \in Int /\ last \in Int /\ given \in Int /\ m + from = asked + given
       /\ from \in Int /\ to \in Int /\ n = to - from
  BY <1>3, <1>4, <1>6
<1> HIDE DEF asked, last
<1>8. Left(n) = req.end - m + 1 - to /\ Left(n) \in Int /\ n \in Int
  <2> DEFINE l == Left(0)
             k == Left(n)
  <2>1. l = last - asked + 1 - given /\ k = l - (to - from)
    BY <1>2 DEF asked, last
  <2> HIDE DEF l, k, n
  <2>2. k = last - m + 1 - to /\ k \in Int /\ n \in Int
    BY <1>14, <2>1
  <2> QED  BY <2>2 DEF k, last
<1>9. n \in Nat
  OBVIOUS
<1>10. ASSUME Left(n) <= 0 PROVE EvenInv'
  <2>1. req'.st = "whole" /\ src'.limit = 0
    BY <1>1, <1>10, ClosedTyped DEF Ends, BaseInv, ReqTyped
  <2> QED  BY <1>7, <2>1, OtherStates DEF Place
<1>11. ASSUME Left(n) > 0, ended PROVE EvenInv'
  <2>1. /\ req' = [req EXCEPT !.st = "open"] /\ pos' = pos + 1 /\ src'.limit = 0
    BY <1>1, <1>11, ClosedTyped DEF MoveToNextPart
  <2>2. /\ req'.st = "open" /\ req'.start = req.start /\ req'.file = req.file /\ req'.enc = req.enc
    BY <2>1 DEF BaseInv, ReqTyped
  <2>3. to = P
    BY <1>3, <1>4, <1>8, <1>11 DEF Least
  <2>4. req.start + given' = next
    <3>1. given' = given + n /\ next = m + P /\ P \in Int
      BY <1>1, <1>3, <1>4 DEF next
    <3> HIDE DEF n
    <3>2. asked + given' = next
      BY <1>14, <2>3, <3>1
    <3> QED  BY <3>2 DEF asked
  <2>5. PartSize' = P /\ PartSizes'[1] = P
    BY <1>3, <2>2 DEF PartSize, Stored, PartSizes, P
  <2>6. PartStart(pos)' = IF req.start > next THEN req.start - next ELSE 0
    BY <2>1, <2>2, <2>5 DEF PartStart, next
  <2>7. ~(req.start > next)
    <3>1. given' \in Nat
      BY <1>1, <1>3, <1>8, <1>9
    <3> QED  BY <1>3, <2>4, <3>1
  <2>8. PartStart(pos)' = 0 /\ req'.start + given' = next + 0
    <3>1. next \in Int
      BY <1>4 DEF next
    <3> QED  BY <2>2, <2>4, <2>6, <2>7, <3>1
  <2>9. Place'
    BY <1>7, <2>1, <2>2, <2>5, <2>8 DEF Place, next
  <2> QED  BY <2>2, <2>9, OtherStates
<1>12. ASSUME Left(n) > 0, ~ended
       PROVE  req' = req /\ pos' = pos /\ Here' = to /\ to <= PartEnd(pos)
  <2>1. req' = req /\ pos' = pos
    BY <1>1, <1>12
  <2>2. Here' = req.start + given' - m
    BY <2>1 DEF Here, PartSizes, m, P
  <2>3. Here' = to
    <3>1. given' = given + n /\ Here' = asked + given' - m
      BY <1>1, <2>2 DEF asked
    <3> HIDE DEF n
    <3> QED  BY <1>14, <3>1
  <2> QED  BY <1>4, <1>12, <2>1, <2>3
<1>13. Left(n) <= 0 \/ Left(n) > 0
  <2> DEFINE k == Left(n)
  <2>1. k \in Int
    BY <1>8
  <2> HIDE DEF k
  <2>2. k <= 0 \/ k > 0
    BY <2>1
  <2> QED  BY <2>2 DEF k
<1> QED  BY <1>7, <1>9, <1>10, <1>11, <1>12, <1>13

LEMMA CopyPlainEven ==
  ASSUME BaseInv, EvenInv, Even, CopyPlain
  PROVE  EvenInv'
<1> DEFINE want  == Least(CopyBuffer, Left(0))
           piece == Piece(want)
           ended == src.limit <= Length(piece)
           n     == piece.to - piece.from
<1>1. /\ req.st = "reading" /\ ~req.enc /\ src.limit > 0 /\ Available
      /\ Gives(piece.from, piece.to, TRUE, ended)
      /\ (Left(Length(piece)) > 0 /\ ~ended => SourceReads(Length(piece)) /\ dec' = dec)
      /\ faulted' = faulted
  BY CopyPlainIs
<1>2. Left(0) \in Nat \ {0}
  BY <1>1 DEF BaseInv, Within, ReqTyped, Left
<1>3. want \in Nat /\ want <= Left(0)
  BY <1>2, Sizes DEF Least
<1>4. ended \in BOOLEAN /\ (ended <=> src.limit <= Length(piece))
  OBVIOUS
<1> HIDE DEF want
<1>5. /\ SrcTyped /\ InLine /\ Stop = PartEnd(pos) + 1 /\ At = Here /\ HasPart /\ Stop <= Stored(pos)
      /\ ReqTyped
  BY <1>1 DEF EvenInv, Source, Plain, BaseInv, Reads
<1>6. piece \in Chunk /\ Length(piece) \in 0..want /\ Length(piece) = piece.to - piece.from
      /\ piece.from \in Int /\ piece.to \in Int /\ piece.from <= piece.to
      /\ Piece(Length(piece)) = piece /\ piece.from = AtHand.from /\ piece.to <= AtHand.to
  BY <1>1, <1>3, <1>5, PieceIs DEF Length, Chunk
<1>7. AtHand.from = At /\ AtHand.to <= Stop /\ AtHand.to \in Int
  BY <1>1, <1>5, AtHandInLine
<1>8. src.limit = Stop - At /\ Stop \in Int /\ At \in Int /\ src.limit \in Int
  BY <1>5, SrcTypes DEF At
<1> HIDE DEF piece, ended
<1>9. /\ piece.from = Here /\ piece.to <= PartEnd(pos) + 1 /\ (ended <=> piece.to = PartEnd(pos) + 1)
  BY <1>4, <1>5, <1>6, <1>7, <1>8
<1>10. n <= Left(0)
  BY <1>2, <1>3, <1>6
<1>11. /\ ~wrong'
       /\ (Left(n) <= 0 \/ ended => EvenInv')
       /\ (Left(n) > 0 /\ ~ended => req' = req /\ pos' = pos /\ Here' = piece.to)
  <2> DEFINE from == piece.from
             to   == piece.to
  <2>1. /\ from \in Int /\ to \in Int /\ from <= to /\ to - from <= Left(0) /\ from = Here
        /\ (ended <=> to = PartEnd(pos) + 1) /\ to <= PartEnd(pos) + 1 /\ Gives(from, to, TRUE, ended)
    BY <1>1, <1>6, <1>9, <1>10
  <2> HIDE DEF from, to
  <2>2. /\ ~wrong'
        /\ (Left(to - from) <= 0 \/ ended => EvenInv')
        /\ (Left(to - from) > 0 /\ ~ended => req' = req /\ pos' = pos /\ Here' = to)
    BY <1>1, <1>4, <2>1, GivesEven
  <2> QED  BY <2>2 DEF from, to
<1>12. Left(n) <= 0 \/ Left(n) > 0
  <2> DEFINE k == Left(n)
  <2>1. k = req.end - req.start + 1 - given - n
    BY DEF Left
  <2> HIDE DEF k
  <2>2. req.end \in Int /\ req.start \in Int /\ given \in Int /\ n \in Int
    BY <1>5, <1>6 DEF ReqTyped
  <2> HIDE DEF n
  <2>3. k \in Int
    BY <2>1, <2>2
  <2>4. k <= 0 \/ k > 0
    BY <2>3
  <2> QED  BY <2>4 DEF k
<1>13. CASE Left(n) > 0 /\ ~ended
  <2>1. /\ req' = req /\ pos' = pos /\ Here' = piece.to /\ SourceReads(Length(piece))
    BY <1>1, <1>6, <1>11, <1>13
  <2>2. InLine' /\ Stop' = Stop /\ At' = At + Length(piece)
    <3> DEFINE w == Length(piece)
    <3>1. w \in Nat /\ SourceReads(w) /\ Length(Piece(w)) = w
      BY <1>3, <1>6, <2>1
    <3> HIDE DEF w
    <3>2. InLine' /\ Stop' = Stop /\ At' = At + Length(Piece(w))
      BY <1>1, <1>5, <3>1, SourceReadsInLine
    <3> QED  BY <3>1, <3>2 DEF w
  <2>3. At' = Here'
    BY <1>5, <1>6, <1>8, <1>9, <2>1, <2>2
  <2>4. PartEnd(pos)' = PartEnd(pos) /\ Stored(pos)' = Stored(pos)
    BY <2>1 DEF PartEnd, PartSize, PartSizes, Stored
  <2>5. Place'
    BY <1>1, <1>11, <2>1 DEF Place
  <2>6. Source' /\ Plain'
    BY <1>5, <2>2, <2>3, <2>4 DEF Source, Plain
  <2>7. Header' /\ Block'
    BY <1>1, <2>1 DEF Header, Block
  <2> QED  BY <2>5, <2>6, <2>7 DEF EvenInv
<1> QED  BY <1>4, <1>11, <1>12, <1>13

LEMMA CopyDecryptedEven ==
  ASSUME BaseInv, EvenInv, Even, CopyDecrypted
  PROVE  EvenInv'
<1> DEFINE size  == Least(Least(CopyBuffer, Left(0)), Least(dec.to - dec.from, dec.limit))
           ended == size = dec.limit
           to    == dec.from + size
           e     == PartEnd(pos)
           z     == PartSizes[pos + 1]
           b     == BlockOf(Here)
<1>1. /\ req.st = "reading" /\ dec.st = "serve" /\ dec.from < dec.to
      /\ Gives(dec.from, to, dec.ok, ended)
      /\ (Left(size) > 0 /\ ~ended =>
            /\ dec' = [dec EXCEPT !.from = @ + size, !.limit = @ - size,
                                  !.st = IF dec.from + size = dec.to THEN "fill" ELSE "serve"]
            /\ UNCHANGED <<src, producer, batch, buffers, cur>>)
      /\ faulted' = faulted
  BY CopyDecryptedIs, Zenon
<1>2. Left(0) \in Nat \ {0}
  BY <1>1 DEF BaseInv, Within, ReqTyped, Left
<1>3. dec.from \in Int /\ dec.to \in Int /\ dec.limit \in Int /\ dec.ok \in BOOLEAN
  BY DEF BaseInv, DecTyped
<1>4. req.enc /\ dec.limit > 0 /\ HasPart
  BY <1>1 DEF BaseInv, Decrypting, Reads
<1>5. /\ Here \in PartStart(pos)..e /\ dec.limit = e + 1 - Here
      /\ dec.ok /\ dec.discard = 0 /\ Stop = LastStop
      /\ dec.nonce = Seals(req.nonce)[b + 1]
      /\ Length(dec.held) = 0 /\ dec.from = Here
      /\ dec.to = Least((b + 1) * BlockData, z)
      /\ At = Least(BlockAt(b + 1), Stored(pos))
  BY <1>1, <1>4 DEF EvenInv, Block
<1>6. e \in Nat /\ e < z /\ z \in Nat \ {0} /\ PartStart(pos) \in Nat /\ Stored(pos) = EncryptedSize(z)
  BY <1>1, <1>4, EvenPart
<1> HIDE DEF e, z
<1>7. Here \in Nat /\ Here <= e
  BY <1>5, <1>6
<1>8. size \in Nat \ {0} /\ size <= Left(0) /\ size <= dec.limit /\ size <= dec.to - dec.from
  BY <1>1, <1>2, <1>3, <1>4, Sizes DEF Least
<1>9. ended \in BOOLEAN /\ (ended <=> size = dec.limit)
  OBVIOUS
<1> HIDE DEF size, ended
<1>10. to - dec.from = size /\ to \in Int /\ dec.from <= to /\ to <= e + 1 /\ (ended <=> to = e + 1)
       /\ to <= dec.to /\ to \in Nat /\ Here < to
  BY <1>3, <1>5, <1>6, <1>7, <1>8, <1>9
<1>11. /\ ~wrong'
       /\ (Left(size) <= 0 \/ ended => EvenInv')
       /\ (Left(size) > 0 /\ ~ended => req' = req /\ pos' = pos /\ Here' = to /\ to <= e)
  <2> DEFINE from == dec.from
             ok == dec.ok
  <2>1. /\ from \in Int /\ to \in Int /\ from <= to /\ to - from <= Left(0) /\ from = Here
        /\ (ended <=> to = PartEnd(pos) + 1) /\ to <= PartEnd(pos) + 1 /\ Gives(from, to, ok, ended)
        /\ ok \in BOOLEAN /\ ok /\ to - from = size
    <3>1. to - from <= Left(0)
      BY <1>8, <1>10
    <3> QED  BY <1>1, <1>3, <1>5, <1>10, <3>1 DEF e
  <2> HIDE DEF from, to, ok
  <2>2. /\ ~wrong'
        /\ (Left(to - from) <= 0 \/ ended => EvenInv')
        /\ (Left(to - from) > 0 /\ ~ended => req' = req /\ pos' = pos /\ Here' = to /\ to <= PartEnd(pos))
    BY <1>1, <1>9, <2>1, GivesEven
  <2> QED  BY <2>1, <2>2 DEF e
<1>12. Left(size) <= 0 \/ Left(size) > 0
  <2> DEFINE k == Left(size)
  <2>1. k = req.end - req.start + 1 - given - size
    BY DEF Left
  <2> HIDE DEF k
  <2>2. req.end \in Int /\ req.start \in Int /\ given \in Int /\ size \in Int
    BY <1>8 DEF ReqTyped, BaseInv
  <2>3. k \in Int
    BY <2>1, <2>2
  <2>4. k <= 0 \/ k > 0
    BY <2>3
  <2> QED  BY <2>4 DEF k
<1>13. CASE Left(size) > 0 /\ ~ended
  <2> DEFINE st == IF to = dec.to THEN "fill" ELSE "serve"
  <2>1. /\ req' = req /\ pos' = pos /\ Here' = to /\ to <= e
        /\ dec' = [dec EXCEPT !.from = to, !.limit = dec.limit - size, !.st = st]
        /\ UNCHANGED <<src, producer, batch, buffers, cur>>
    BY <1>1, <1>11, <1>13
  <2>2. InLine /\ Stop <= Stored(pos)
    BY <1>1 DEF EvenInv, Source
  <2>3. Stop' = Stop /\ At' = At
    BY <2>1 DEF Stop, At
  <2>4. InLine'
    <3>1. Ahead' = Ahead /\ Waiting' = Waiting
      BY <2>1, <2>3 DEF Ahead, Waiting, Length
    <3>2. Fetched' = Fetched
      BY <2>1, <3>1 DEF Fetched
    <3> QED  BY <1>1, <2>1, <2>2, <2>3, <3>1, <3>2 DEF InLine, Length
  <2>5. /\ PartSizes' = PartSizes /\ PartEnd(pos)' = PartEnd(pos) /\ Stored(pos)' = Stored(pos)
        /\ PartStart(pos)' = PartStart(pos) /\ LastStop' = LastStop
    <3>1. PartSizes' = PartSizes /\ PartSize' = PartSize /\ Stored(pos)' = Stored(pos)
      BY <2>1 DEF PartSizes, PartSize, Stored
    <3>2. PartStart(pos)' = PartStart(pos) /\ PartEnd(pos)' = PartEnd(pos)
      BY <2>1, <3>1 DEF PartStart, PartEnd
    <3> QED  BY <2>1, <3>1, <3>2 DEF LastStop
  <2>6. Place'
    BY <1>1, <1>11, <2>1 DEF Place
  <2>7. Source' /\ Plain' /\ Header'
    <3>1. dec'.st \in {"fill", "serve"}
      BY <2>1 DEF BaseInv, DecTyped
    <3>2. Source'
      BY <2>2, <2>3, <2>4, <2>5 DEF Source
    <3>3. Plain' /\ Header'
      BY <1>4, <2>1, <3>1 DEF Plain, Header
    <3> QED  BY <3>2, <3>3
  <2>8. /\ dec'.st = st /\ dec'.from = to /\ dec'.to = dec.to /\ dec'.limit = dec.limit - size
        /\ dec'.ok = dec.ok /\ dec'.discard = dec.discard /\ dec'.nonce = dec.nonce
        /\ dec'.held = dec.held
    BY <2>1 DEF BaseInv, DecTyped
  <2> HIDE DEF to
  <2>9. /\ b \in Nat /\ b * BlockData <= Here /\ b * BlockData \in Nat
        /\ (b + 1) * BlockData = b * BlockData + BlockData /\ Here < (b + 1) * BlockData
        /\ BlockData \in Nat \ {0}
    BY <1>7, InBlock, Sizes
  <2> HIDE DEF b
  <2> DEFINE m == b * BlockData
             next == (b + 1) * BlockData
  <2>10. m \in Nat /\ m <= Here /\ next = m + BlockData /\ next \in Nat /\ dec.to = Least(next, z)
    BY <1>5, <2>9
  <2>11. to \in PartStart(pos)..e /\ dec'.limit = e + 1 - to
    <3>1. Here \in Int /\ PartStart(pos) <= Here
      BY <1>5, <1>6
    <3> QED  BY <1>5, <1>6, <1>7, <1>10, <2>1, <2>8, <3>1
  <2>12. CASE to = dec.to
    <3>1. to = next /\ next < z
      <4> HIDE DEF next, m
      <4> QED  BY <1>6, <1>10, <2>1, <2>10, <2>12 DEF Least
    <3>2. BlockOf(to) = b + 1 /\ to % BlockData = 0
      <4>1. (b + 1) * BlockData <= to /\ to < ((b + 1) + 1) * BlockData /\ b + 1 \in Nat
            /\ to = (b + 1) * BlockData /\ to \in Nat
        <5>1. b + 1 \in Nat /\ b + 1 \in Int
          BY <2>9
        <5>2. ((b + 1) + 1) * BlockData = (b + 1) * BlockData + BlockData
          BY <2>9, <5>1, Products
        <5> HIDE DEF m
        <5>3. to = next /\ to \in Nat
          BY <1>10, <3>1
        <5>4. to < next + BlockData
          <6> HIDE DEF next
          <6> QED  BY <2>9, <5>3
        <5> QED  BY <5>1, <5>2, <5>3, <5>4
      <4>2. BlockOf(to) = b + 1 /\ to % BlockData = to - (b + 1) * BlockData
        BY <4>1, BlockIs
      <4> HIDE DEF next, m
      <4>3. to - next = 0
        BY <1>10, <3>1
      <4> QED  BY <3>1, <4>2, <4>3 DEF next
    <3>3. BlockAt(b + 1) < Stored(pos) /\ BlockAt(b + 1) \in Nat /\ Stored(pos) \in Nat
      <4>1. b * BlockData < z /\ (b + 1) * BlockData < z
        <5>1. m < z
          <6> HIDE DEF m, next
          <6> QED  BY <1>6, <1>7, <2>10
        <5> QED  BY <3>1, <5>1
      <4>2. BlockAt(b + 1) < EncryptedSize(z) /\ EncryptedSize(z) \in Nat
        BY <1>6, <2>9, <4>1, BlockLength
      <4>3. BlockAt(b + 1) \in Nat
        <5>1. b + 1 \in Nat /\ b + 1 <= b + 1
          BY <2>9
        <5> QED  BY <5>1, BlocksStored
      <4> QED  BY <1>6, <4>2, <4>3
    <3>4. At = BlockAt(b + 1)
      BY <1>5, <3>3 DEF b, Least
    <3>5. dec'.st = "fill" /\ Length(dec.held)' = 0
      BY <1>5, <2>8, <2>12 DEF Length
    <3>6. dec.nonce = Seals(req.nonce)[b + 1]
      BY <1>5 DEF b
    <3>7. Block'
      BY <1>5, <2>1, <2>3, <2>5, <2>8, <2>11, <3>2, <3>4, <3>5, <3>6 DEF Block, e
    <3> QED  BY <2>6, <2>7, <3>7 DEF EvenInv
  <2>13. CASE to # dec.to
    <3>1. to < dec.to
      BY <1>3, <1>10, <2>13
    <3>2. BlockOf(to) = b
      <4>1. to < next /\ m <= to
        <5> HIDE DEF m, next
        <5> QED  BY <1>3, <1>6, <1>7, <1>10, <2>10, <3>1 DEF Least
      <4> QED  BY <1>10, <2>9, <4>1, BlockIs
    <3>3. dec'.st = "serve" /\ Length(dec.held)' = 0
      BY <1>5, <2>8, <2>13 DEF Length
    <3>4. Least((BlockOf(Here) + 1) * BlockData, PartSizes[pos + 1])' = dec.to
          /\ Least(BlockAt(BlockOf(Here) + 1), Stored(pos))' = At
      BY <1>5, <2>1, <2>5, <3>2 DEF b, z
    <3>5. dec.nonce = Seals(req.nonce)[b + 1]
      BY <1>5 DEF b
    <3>6. Block'
      BY <1>5, <2>1, <2>3, <2>5, <2>8, <2>11, <3>1, <3>2, <3>3, <3>4, <3>5 DEF Block, e
    <3> QED  BY <2>6, <2>7, <3>6 DEF EvenInv
  <2> QED  BY <2>12, <2>13
<1> QED  BY <1>9, <1>11, <1>12, <1>13

\* A block of the range is one that the nonce can count.
LEMMA NonceOf ==
  ASSUME BaseInv, Even, req.st \in {"open", "reading"}, HasPart, req.enc,
         NEW x \in Nat, x <= PartEnd(pos)
  PROVE  Add(req.nonce, BlockOf(x)) = Seals(req.nonce)[BlockOf(x)]
<1> DEFINE z == PartSizes[pos + 1]
           b == BlockOf(x)
           w == Worth[LowDigits]
<1>1. z \in Nat \ {0} /\ x < z /\ pos + 1 \in DOMAIN PartSizes
  <2>1. PartEnd(pos) \in Nat /\ PartEnd(pos) < z /\ z \in Nat \ {0} /\ pos + 1 \in DOMAIN PartSizes
    BY EvenPart
  <2> HIDE DEF z
  <2> QED  BY <2>1
<1>2. PartSizes \in Files /\ req.nonce \in Digits
  BY Nonce DEF BaseInv, ReqTyped, PartSizes
<1>3. z \div BlockData < w
  BY <1>1, <1>2, BlocksAssumption
<1>4. b <= BlockOf(z)
  <2> HIDE DEF z
  <2> QED  BY <1>1, BlocksInOrder
<1>5. b \in Nat /\ BlockOf(z) \in Nat /\ BlockOf(z) = z \div BlockData
  <2> HIDE DEF z
  <2> QED  BY <1>1, InBlock DEF BlockOf
<1>6. w \in Nat
  BY Bases
<1> HIDE DEF b, w, z
<1>7. b < w
  BY <1>3, <1>4, <1>5, <1>6
<1> QED  BY <1>2, <1>5, <1>7, AddIsSeal DEF b, w

LEMMA ReadHeaderEven ==
  ASSUME BaseInv, EvenInv, Even, ReadHeader
  PROVE  EvenInv'
<1> DEFINE held   == Length(dec.held)
           want   == FileHeader - held
           piece  == Piece(want)
           n      == Length(piece)
           start  == PartStart(pos)
           blocks == start \div BlockData
           offset == FileHeader + blocks * BlockSize
           nonce  == IF start = 0 THEN req.nonce ELSE Add(req.nonce, blocks)
           last   == Least(Stored(pos), offset + UnderlyingLimit(dec.limit, dec.discard)) - 1
           block  == Holding(piece)
           e      == PartEnd(pos)
<1>1. /\ req.st = "reading" /\ dec.st = "header" /\ src.limit > 0 /\ Available
      /\ (Length(block) < FileHeader => dec' = [dec EXCEPT !.held = block] /\ SourceReads(n))
      /\ (~(Length(block) < FileHeader) =>
            /\ dec' = [dec EXCEPT !.st = "fill", !.held = Nothing, !.nonce = nonce]
            /\ IF start = 0 THEN SourceReads(n) ELSE OpenSource(offset, last))
      /\ req' = req /\ pos' = pos /\ given' = given /\ wrong' = wrong /\ faulted' = faulted
  BY ReadHeaderIs, Zenon
<1>2. req.enc /\ HasPart /\ SrcTyped /\ DecTyped /\ ReqTyped /\ held < FileHeader
  BY <1>1 DEF BaseInv, Decrypting, Reads
<1>3. /\ At = held /\ Here = start /\ dec.discard = Here % BlockData /\ dec.ok
      /\ Stop = (IF Here > 0 THEN FileHeader ELSE LastStop)
      /\ InLine /\ Stop <= Stored(pos)
      /\ Here \in PartStart(pos)..e /\ dec.limit = e + 1 - Here
  BY <1>1, <1>2 DEF EvenInv, Header, Block, Source
<1>4. start \in Nat /\ e \in Nat /\ start <= e
  BY <1>1, <1>2, EvenPart
<1>5. held \in Nat /\ want \in Nat /\ want = FileHeader - held /\ FileHeader \in Nat \ {0}
  <2>1. held \in Nat
    BY <1>2 DEF DecTyped, Length, Chunk
  <2> HIDE DEF held
  <2> QED  BY <1>2, <2>1, Sizes
<1> HIDE DEF want
<1>6. piece \in Chunk /\ n \in 0..want /\ Piece(n) = piece
  BY <1>1, <1>2, <1>5, PieceIs
<1> HIDE DEF piece
<1>7. Length(block) = held + n /\ block \in Chunk
  BY <1>2, <1>6, HoldingIs
<1> HIDE DEF block
<1>8. n \in Nat
  BY <1>5, <1>6
<1>9. ASSUME SourceReads(n) PROVE InLine' /\ Stop' = Stop /\ At' = held + n
  <2> DEFINE w == n
  <2>1. w \in Nat /\ SourceReads(w) /\ Length(Piece(w)) = w
    BY <1>6, <1>8, <1>9
  <2> HIDE DEF w
  <2>2. InLine' /\ Stop' = Stop /\ At' = At + Length(Piece(w))
    BY <1>1, <1>2, <1>3, <2>1, SourceReadsInLine
  <2> QED  BY <1>3, <2>1, <2>2 DEF w
<1> HIDE DEF n
<1>10. /\ PartSizes' = PartSizes /\ PartEnd(pos)' = e /\ Stored(pos)' = Stored(pos)
       /\ PartStart(pos)' = start /\ LastStop' = LastStop /\ Here' = Here
  <2>1. PartSizes' = PartSizes /\ PartSize' = PartSize /\ Stored(pos)' = Stored(pos)
    BY <1>1 DEF PartSizes, PartSize, Stored
  <2>2. PartStart(pos)' = PartStart(pos) /\ PartEnd(pos)' = PartEnd(pos)
    BY <1>1, <2>1 DEF PartStart, PartEnd
  <2> QED  BY <1>1, <2>1, <2>2 DEF LastStop, Here
<1>11. Place' /\ Plain'
  BY <1>1, <1>2 DEF EvenInv, Place, Plain
<1>12. CASE Length(block) < FileHeader
  <2>1. dec' = [dec EXCEPT !.held = block] /\ SourceReads(n)
    BY <1>1, <1>12
  <2>2. InLine' /\ Stop' = Stop /\ At' = held + n
    BY <1>9, <2>1
  <2>3. /\ dec'.st = "header" /\ dec'.limit = dec.limit /\ dec'.discard = dec.discard
        /\ dec'.ok = dec.ok /\ Length(dec.held)' = held + n
    BY <1>1, <1>2, <1>7, <2>1 DEF DecTyped, Length
  <2>4. Source'
    BY <1>3, <1>10, <2>2 DEF Source
  <2>5. Header'
    BY <1>3, <1>7, <1>10, <1>12, <2>2, <2>3 DEF Header
  <2>6. Block'
    BY <1>3, <1>10, <2>3 DEF Block
  <2> QED  BY <1>11, <2>4, <2>5, <2>6 DEF EvenInv
<1>13. CASE ~(Length(block) < FileHeader)
  <2>1. /\ dec' = [dec EXCEPT !.st = "fill", !.held = Nothing, !.nonce = nonce]
        /\ (start = 0 => SourceReads(n)) /\ (start # 0 => OpenSource(offset, last))
    BY <1>1, <1>13
  <2>2. held + n = FileHeader
    BY <1>2, <1>5, <1>6, <1>7, <1>8, <1>13
  <2> DEFINE b == BlockOf(start)
  <2>3. blocks = b /\ offset = BlockAt(b)
    BY DEF BlockOf, BlockAt
  <2> HIDE DEF blocks, offset, start, e, b, held
  <2>4. /\ LastStop \in Nat /\ LastStop <= Stored(pos) /\ BlockAt(b) \in Nat /\ BlockAt(b) < LastStop
        /\ Stored(pos) \in Nat
    BY <1>1, <1>2, <1>4, BlockRange DEF b, e
  <2>5. start = 0 => b = 0 /\ BlockAt(b) = FileHeader
    <3>1. 0 * BlockData <= 0 /\ 0 < (0 + 1) * BlockData /\ 0 \in Nat /\ 0 <= 0
      BY Sizes
    <3>2. BlockOf(0) = 0 /\ BlockAt(0) = FileHeader
      BY <3>1, BlockIs, BlocksStored
    <3> QED  BY <3>2 DEF b
  <2>6. nonce = Seals(req.nonce)[b]
    <3>1. CASE start = 0
      <4>1. req.nonce \in Digits
        BY <1>2, Nonce DEF ReqTyped
      <4>2. Seals(req.nonce)[0] = req.nonce
        BY <4>1, SealsAre DEF Digits
      <4> QED  BY <2>5, <3>1, <4>2
    <3>2. CASE start # 0
      <4>1. Add(req.nonce, b) = Seals(req.nonce)[b]
        BY <1>1, <1>2, <1>4, NonceOf DEF b, e
      <4> QED  BY <2>3, <3>2, <4>1
    <3> QED  BY <3>1, <3>2
  <2> HIDE DEF nonce
  <2>7. InLine' /\ Stop' = LastStop /\ At' = BlockAt(b)
    <3>1. CASE start = 0
      <4>1. Stop = LastStop
        BY <1>3, <3>1
      <4> QED  BY <1>9, <2>1, <2>2, <2>5, <3>1, <4>1
    <3>2. CASE start # 0
      <4>1. last + 1 = LastStop /\ last \in Int
        <5>1. BlockAt(b) + UnderlyingLimit(e + 1 - start, start % BlockData) = BlockAt(BlockOf(e) + 1)
          BY <1>4, BlocksAre DEF b
        <5>2. offset + UnderlyingLimit(dec.limit, dec.discard) = BlockAt(BlockOf(e) + 1)
          BY <1>3, <2>3, <5>1
        <5>3. last = LastStop - 1
          BY <5>2 DEF LastStop, e
        <5> HIDE DEF last
        <5> QED  BY <2>4, <5>3
      <4>2. OpenSource(offset, last) /\ offset \in Int /\ 0 <= offset /\ offset <= last /\ offset = BlockAt(b)
        <5> HIDE DEF last
        <5> QED  BY <2>1, <2>3, <2>4, <3>2, <4>1
      <4> HIDE DEF last
      <4>3. InLine' /\ Stop' = last + 1 /\ At' = offset
        BY <4>1, <4>2, Opened
      <4> QED  BY <4>1, <4>2, <4>3
    <3> QED  BY <3>1, <3>2
  <2>8. /\ dec'.st = "fill" /\ dec'.limit = dec.limit /\ dec'.discard = dec.discard
        /\ dec'.ok = dec.ok /\ dec'.nonce = nonce /\ Length(dec.held)' = 0
    <3>1. /\ dec'.st = "fill" /\ dec'.limit = dec.limit /\ dec'.discard = dec.discard
          /\ dec'.ok = dec.ok /\ dec'.nonce = nonce /\ dec'.held = Nothing
      BY <1>2, <2>1 DEF DecTyped
    <3> QED  BY <3>1 DEF Length, Nothing
  <2>9. Source'
    BY <1>10, <2>4, <2>7 DEF Source
  <2>10. Header'
    BY <2>8 DEF Header
  <2>11. Block'
    BY <1>1, <1>3, <1>10, <2>6, <2>7, <2>8 DEF Block, b, e, start
  <2> QED  BY <1>11, <2>9, <2>10, <2>11 DEF EvenInv
<1> QED  BY <1>12, <1>13

\* A block is whole when it is as long as a block, or the source has no more.
LEMMA BlockFilled ==
  ASSUME BaseInv, EvenInv, Even, req.st = "reading", dec.st = "fill", Available,
         NEW want, want = BlockSize - Length(dec.held), NEW piece, piece = Piece(want),
         NEW b, b = BlockOf(Here)
  PROVE  /\ piece \in Chunk /\ Piece(Length(piece)) = piece /\ Length(piece) \in Nat
         /\ Holding(piece) \in Chunk /\ Fits(piece)
         /\ Holding(piece).from = BlockAt(b) /\ Holding(piece).to = At + Length(piece)
         /\ Length(Holding(piece)) = Holding(piece).to - BlockAt(b)
         /\ Holding(piece).to \in Int /\ At \in Int /\ Holding(piece).to <= Stop
         /\ ~Filled(piece, BlockSize) =>
              Holding(piece).to < Stop /\ Length(Holding(piece)) < BlockSize
         /\ Filled(piece, BlockSize) => Holding(piece).to = Least(BlockAt(b + 1), Stored(pos))
<1> DEFINE held  == Length(dec.held)
           n     == Length(piece)
           block == Holding(piece)
           a     == BlockAt(b)
           s     == Stored(pos)
<1>1. /\ req.enc /\ HasPart /\ SrcTyped /\ DecTyped /\ ReqTyped /\ held < BlockSize
      /\ src.limit \in Int /\ Stop \in Int /\ At \in Int /\ At = Stop - src.limit
  <2>1. req.enc /\ HasPart /\ SrcTyped /\ DecTyped /\ ReqTyped /\ held < BlockSize
    BY DEF BaseInv, Decrypting, Reads
  <2> QED  BY <2>1, SrcTypes DEF At
<1>2. /\ Here \in PartStart(pos)..PartEnd(pos) /\ Stop = LastStop
      /\ (held = 0 => At = a)
      /\ (held # 0 => dec.held.from = a /\ dec.held.to = At)
      /\ InLine
  BY <1>1 DEF EvenInv, Block, Source
<1>3. /\ a \in Nat /\ BlockAt(b + 1) = a + BlockSize /\ Least(a + BlockSize, s) <= Stop
      /\ s \in Nat /\ Stop <= s
  <2>1. Here \in Nat /\ Here <= PartEnd(pos)
    BY <1>1, <1>2, EvenPart
  <2> HIDE DEF s
  <2>2. /\ a \in Nat /\ BlockAt(b + 1) = a + BlockSize /\ Least(BlockAt(b + 1), Stored(pos)) <= LastStop
        /\ LastStop <= Stored(pos) /\ Stored(pos) \in Nat
    BY <1>1, <2>1, BlockRange
  <2> QED  BY <1>2, <2>2 DEF s
<1>4. held \in Nat /\ want \in Nat /\ want = BlockSize - held /\ BlockSize \in Nat \ {0}
  <2>1. held \in Nat
    BY <1>1 DEF DecTyped, Length, Chunk
  <2> HIDE DEF held
  <2> QED  BY <1>1, <2>1, Sizes DEF held
<1>5. /\ piece \in Chunk /\ n \in 0..want /\ Piece(n) = piece
      /\ piece.from = AtHand.from /\ piece.to <= AtHand.to /\ piece.to = piece.from + n
  BY <1>1, <1>4, PieceIs
<1>6. AtHand.from = At /\ AtHand.to <= Stop /\ AtHand.to \in Int
  BY <1>1, <1>2, AtHandInLine
<1>7. n \in Nat /\ piece.from = At /\ piece.to = At + n /\ At + n <= Stop
  <2>1. piece.to \in Int /\ piece.from \in Int
    BY <1>5 DEF Chunk
  <2> HIDE DEF n
  <2> QED  BY <1>1, <1>4, <1>5, <1>6, <2>1
<1>8. /\ block \in Chunk /\ Length(block) = held + n
      /\ (held = 0 => block = piece)
      /\ (held # 0 => block.from = dec.held.from /\ block.to = dec.held.to + n)
  BY <1>1, <1>5, HoldingIs
<1>9. block.from = a /\ block.to = At + n
  BY <1>2, <1>7, <1>8
<1>10. Length(block) = (At + n) - a
  <2>1. Length(block) = block.to - block.from
    BY DEF Length
  <2> HIDE DEF n, block, a
  <2> QED  BY <1>9, <2>1
<1>11. Fits(piece)
  BY <1>2, <1>7 DEF Fits
<1>12. Filled(piece, BlockSize) <=> Length(block) = BlockSize \/ src.limit <= n
  BY DEF Filled
<1> DEFINE filled == Filled(piece, BlockSize)
           t == At + n
           u == Least(a + BlockSize, s)
<1>13. /\ t \in Int /\ t <= Stop /\ Length(block) \in Int /\ Length(block) = t - a /\ t - a <= BlockSize
       /\ (src.limit <= n <=> t >= Stop)
  <2>1. t - a <= BlockSize
    <3> HIDE DEF held, n, block, a, t
    <3>1. held + n <= BlockSize
      BY <1>4, <1>5, <1>7
    <3>2. t - a = held + n
      BY <1>8, <1>10 DEF t
    <3> QED  BY <3>1, <3>2
  <2> HIDE DEF n, block, a
  <2> QED  BY <1>1, <1>3, <1>7, <1>10, <2>1
<1> HIDE DEF held, n, block, a, s, t, u, filled
<1>14. (filled <=> t - a = BlockSize \/ t >= Stop) /\ u <= Stop /\ u <= a + BlockSize
       /\ (u = a + BlockSize \/ u = s) /\ u \in Int
  BY <1>3, <1>4, <1>12, <1>13 DEF filled, u, Least
<1>15. ASSUME filled PROVE t = u
  <2>1. CASE t - a = BlockSize
    <3>1. t = a + BlockSize
      BY <1>3, <1>4, <1>13, <2>1
    <3>2. u <= t /\ t <= s
      BY <1>1, <1>3, <1>13, <1>14, <3>1
    <3> QED  BY <1>3, <1>13, <1>14, <3>1, <3>2
  <2>2. CASE t >= Stop
    BY <1>1, <1>3, <1>4, <1>13, <1>14, <2>2
  <2> QED  BY <1>14, <1>15, <2>1, <2>2
<1>16. ASSUME ~filled PROVE t < Stop /\ t - a < BlockSize
  BY <1>1, <1>3, <1>4, <1>13, <1>14, <1>16
<1> QED  BY <1>1, <1>3, <1>5, <1>7, <1>8, <1>9, <1>11, <1>13, <1>15, <1>16 DEF n, block, a, s, t, u, filled

LEMMA FillBlockEven ==
  ASSUME BaseInv, EvenInv, Even, FillBlock
  PROVE  EvenInv'
<1> DEFINE want  == BlockSize - Length(dec.held)
           piece == Piece(want)
           block == Holding(piece)
           size  == Length(block) - BlockHeader
<1>1. /\ req.st = "reading" /\ dec.st = "fill" /\ src.limit > 0 /\ Available
      /\ \/ /\ ~Filled(piece, BlockSize)
            /\ dec' = [dec EXCEPT !.held = block, !.ok = @ /\ Fits(piece)]
            /\ SourceReads(Length(piece)) /\ req' = req
         \/ /\ Filled(piece, BlockSize) /\ size > 0 /\ dec.discard <= size
            /\ dec' = [dec EXCEPT !.st = IF dec.discard < size THEN "serve" ELSE "fill",
                                  !.held = Nothing, !.discard = 0, !.nonce = Increment(@),
                                  !.ok = @ /\ Fits(piece) /\ Opens(block),
                                  !.from = Skipping(block), !.to = PlainFrom(block) + size]
            /\ SourceReads(Length(piece)) /\ req' = req
         \/ Filled(piece, BlockSize) /\ (size <= 0 \/ dec.discard > size) /\ Ends("failed")
      /\ UNCHANGED <<pos, given, wrong, faulted>>
  BY FillBlockIs, ZenonT(60)
<1> DEFINE n     == Length(piece)
           b     == BlockOf(Here)
           a     == BlockAt(b)
           z     == PartSizes[pos + 1]
           e     == PartEnd(pos)
           bd    == b * BlockData
           next  == (b + 1) * BlockData
           u     == Least(BlockAt(b + 1), Stored(pos))
<1>2. /\ req.enc /\ HasPart /\ SrcTyped /\ DecTyped /\ ReqTyped
  BY <1>1 DEF BaseInv, Decrypting, Reads
<1>3. /\ Here \in PartStart(pos)..e /\ dec.limit = e + 1 - Here
      /\ dec.ok /\ dec.discard = Here % BlockData /\ Stop = LastStop
      /\ dec.nonce = Seals(req.nonce)[b]
      /\ InLine /\ Stop <= Stored(pos)
      /\ (Length(dec.held) = 0 => At = a)
      /\ (Length(dec.held) # 0 => dec.held.from = a)
  BY <1>1, <1>2 DEF EvenInv, Block, Source
<1>4. /\ e \in Nat /\ e < z /\ z \in Nat \ {0} /\ PartStart(pos) \in Nat /\ Stored(pos) = EncryptedSize(z)
  BY <1>1, <1>2, EvenPart
<1>5. /\ piece \in Chunk /\ Piece(n) = piece /\ n \in Nat
      /\ block \in Chunk /\ Fits(piece) /\ block.from = a /\ block.to = At + n
      /\ Length(block) = block.to - a /\ block.to \in Int /\ At \in Int
      /\ (~Filled(piece, BlockSize) => block.to < Stop /\ Length(block) < BlockSize)
      /\ (Filled(piece, BlockSize) => block.to = u)
  BY <1>1, BlockFilled
<1> HIDE DEF piece, e, z
<1>6. Here \in Nat /\ Here <= e /\ Here < z
  BY <1>3, <1>4
<1>7. /\ b \in Nat /\ bd \in Nat /\ bd <= Here /\ next = bd + BlockData /\ Here < next
      /\ Here % BlockData = Here - bd /\ BlockData \in Nat \ {0} /\ BlockHeader \in Nat \ {0}
      /\ FileHeader \in Nat \ {0} /\ BlockSize \in Nat \ {0}
  BY <1>6, InBlock, Sizes
<1>8. bd < z
  <2> HIDE DEF bd
  <2> QED  BY <1>4, <1>6, <1>7
<1> HIDE DEF b
<1>9. /\ a \in Nat /\ BlockAt(b + 1) = a + BlockSize /\ u = a + BlockHeader + Least(BlockData, z - bd)
      /\ (a - FileHeader) = b * BlockSize
  <2>1. b * BlockData < z
    BY <1>8
  <2>2. EncryptedSize(z) \in Nat /\ a \in Nat /\ BlockAt(b + 1) = a + BlockSize
        /\ u = a + BlockHeader + Least(BlockData, z - bd)
    BY <1>4, <1>7, <2>1, BlockLength
  <2>3. b * BlockSize \in Int
    BY <1>7, Products
  <2> DEFINE m == b * BlockSize
  <2>4. a = FileHeader + m /\ m \in Int
    BY <2>3 DEF BlockAt
  <2> HIDE DEF m, a
  <2>5. a - FileHeader = m
    <3>1. FileHeader \in Int
      BY <1>7
    <3> QED  BY <2>4, <3>1
  <2> QED  BY <2>2, <2>5 DEF m
<1>10. ASSUME SourceReads(n) PROVE InLine' /\ Stop' = Stop /\ At' = At + n
  <2> DEFINE w == n
  <2>1. w \in Nat /\ SourceReads(w) /\ Length(Piece(w)) = w
    BY <1>5, <1>10
  <2> HIDE DEF w
  <2>2. InLine' /\ Stop' = Stop /\ At' = At + Length(Piece(w))
    BY <1>1, <1>2, <1>3, <2>1, SourceReadsInLine
  <2> QED  BY <2>1, <2>2 DEF w
<1>11. ASSUME req' = req
       PROVE  /\ PartSizes' = PartSizes /\ PartEnd(pos)' = e /\ Stored(pos)' = Stored(pos)
              /\ PartStart(pos)' = PartStart(pos) /\ LastStop' = LastStop /\ Here' = Here
              /\ Place' /\ Plain'
  <2>1. PartSizes' = PartSizes /\ PartSize' = PartSize /\ Stored(pos)' = Stored(pos)
    BY <1>1, <1>11 DEF PartSizes, PartSize, Stored
  <2>2. PartStart(pos)' = PartStart(pos) /\ PartEnd(pos)' = PartEnd(pos)
    BY <1>1, <1>11, <2>1 DEF PartStart, PartEnd
  <2>3. Place' /\ Plain'
    BY <1>1, <1>2, <1>11 DEF EvenInv, Place, Plain
  <2> QED  BY <1>1, <1>11, <2>1, <2>2, <2>3 DEF LastStop, Here, e
<1>12. CASE /\ ~Filled(piece, BlockSize)
            /\ dec' = [dec EXCEPT !.held = block, !.ok = @ /\ Fits(piece)]
            /\ SourceReads(n) /\ req' = req
  <2> HIDE DEF block
  <2>1. InLine' /\ Stop' = Stop /\ At' = At + n
    BY <1>10, <1>12
  <2>2. /\ dec'.st = "fill" /\ dec'.limit = dec.limit /\ dec'.discard = dec.discard
        /\ dec'.nonce = dec.nonce /\ dec'.held = block /\ dec'.ok
    <3> DEFINE ok == dec.ok /\ Fits(piece)
    <3>1. ok /\ dec' = [dec EXCEPT !.held = block, !.ok = ok]
      BY <1>3, <1>5, <1>12
    <3> HIDE DEF ok
    <3> QED  BY <1>1, <1>2, <3>1 DEF DecTyped
  <2>3. Length(dec.held)' = Length(block)
    BY <2>2 DEF Length
  <2>4. Source' /\ Header'
    BY <1>3, <1>11, <1>12, <2>1, <2>2 DEF Source, Header
  <2>5. Length(block) = 0 => At' = a
    <3>1. Length(block) = At' - a /\ At' \in Int /\ a \in Int
      BY <1>5, <1>9, <2>1
    <3> HIDE DEF a
    <3> QED  BY <3>1
  <2>6. block.to = At' /\ At' < Stop /\ Length(block) < BlockSize /\ block.from = a
    BY <1>5, <1>12, <2>1
  <2>7. Block'
    BY <1>3, <1>11, <1>12, <2>1, <2>2, <2>3, <2>5, <2>6 DEF Block, a, b
  <2> QED  BY <1>11, <1>12, <2>4, <2>7 DEF EvenInv
<1>13. ASSUME Filled(piece, BlockSize)
       PROVE  /\ size = Least(BlockData, z - bd) /\ size \in Nat \ {0} /\ dec.discard < size
              /\ block.to = u
  <2> DEFINE least == Least(BlockData, z - bd)
             d == Here % BlockData
  <2> HIDE DEF bd, a, u, d, block
  <2>1. least \in Nat \ {0} /\ Here - bd < least
    BY <1>4, <1>6, <1>7, <1>8 DEF Least
  <2> HIDE DEF least
  <2>2. size = least
    BY <1>5, <1>7, <1>9, <1>13, <2>1 DEF least
  <2>3. dec.discard = Here - bd
    BY <1>3, <1>7 DEF d
  <2> HIDE DEF size
  <2> QED  BY <1>5, <1>13, <2>1, <2>2, <2>3 DEF least
<1>14. CASE Filled(piece, BlockSize) /\ (size <= 0 \/ dec.discard > size)
  <2> HIDE DEF size, bd, u
  <2>1. dec.discard \in Int
    BY <1>2 DEF DecTyped
  <2> QED  BY <1>13, <1>14, <2>1
<1>15. CASE /\ Filled(piece, BlockSize)
            /\ dec' = [dec EXCEPT !.st = IF dec.discard < size THEN "serve" ELSE "fill",
                                  !.held = Nothing, !.discard = 0, !.nonce = Increment(@),
                                  !.ok = @ /\ Fits(piece) /\ Opens(block),
                                  !.from = Skipping(block), !.to = PlainFrom(block) + size]
            /\ SourceReads(n) /\ req' = req
  <2> HIDE DEF block
  <2>1. InLine' /\ Stop' = Stop /\ At' = At + n
    BY <1>10, <1>15
  <2>2. size = Least(BlockData, z - bd) /\ size \in Nat \ {0} /\ dec.discard < size /\ block.to = u
    BY <1>13, <1>15
  <2> HIDE DEF size
  <2>3. (block.from - FileHeader) \div BlockSize = b /\ (block.from - FileHeader) % BlockSize = 0
    <3>1. 0 \in 0..(BlockSize - 1) /\ b \in Int
      BY <1>7
    <3>2. (b * BlockSize + 0) \div BlockSize = b /\ (b * BlockSize + 0) % BlockSize = 0
      BY <1>7, <3>1, Quotient
    <3>3. b * BlockSize + 0 = b * BlockSize
      BY <1>7
    <3>4. block.from - FileHeader = b * BlockSize
      BY <1>5, <1>9
    <3> QED  BY <3>2, <3>3, <3>4
  <2>4. Opens(block)
    <3>1. block.to = Least(block.from + BlockSize, Stored(pos))
      BY <1>5, <1>9, <2>2
    <3>2. dec.nonce = SealedWith(b)
      BY <1>3 DEF SealedWith
    <3> QED  BY <2>3, <3>1, <3>2 DEF Opens
  <2>5. PlainFrom(block) = bd
    BY <2>3 DEF PlainFrom
  <2>6. Skipping(block) = Here
    <3>1. Skipping(block) = bd + dec.discard /\ dec.discard = Here - bd
      BY <1>3, <1>7, <2>5 DEF Skipping
    <3> HIDE DEF bd
    <3> QED  BY <1>6, <1>7, <3>1
  <2>7. bd + size = Least(next, z) /\ Here < bd + size
    <3>1. dec.discard = Here - bd
      BY <1>3, <1>7
    <3> HIDE DEF bd, next
    <3> QED  BY <1>4, <1>6, <1>7, <2>2, <3>1 DEF Least
  <2>8. Increment(dec.nonce) = Seals(req.nonce)[b + 1]
    <3>1. req.nonce \in Digits
      BY <1>2, Nonce DEF ReqTyped
    <3>2. Seals(req.nonce)[b + 1] = Increment(Seals(req.nonce)[b])
      BY <1>7, <3>1, SealsAre DEF Digits
    <3> QED  BY <1>3, <3>2
  <2>9. /\ dec'.st = "serve" /\ dec'.limit = dec.limit /\ dec'.discard = 0 /\ dec'.ok
        /\ dec'.nonce = Seals(req.nonce)[b + 1] /\ dec'.held = Nothing
        /\ dec'.from = Here /\ dec'.to = bd + size
    <3> DEFINE ok == dec.ok /\ Fits(piece) /\ Opens(block)
               nonce == Seals(req.nonce)[b + 1]
               here == Here
               to == bd + size
    <3>1. dec' = [dec EXCEPT !.st = "serve", !.held = Nothing, !.discard = 0, !.nonce = nonce,
                             !.ok = ok, !.from = here, !.to = to]
      BY <1>15, <2>2, <2>5, <2>6, <2>8
    <3>2. ok
      BY <1>3, <1>5, <2>4
    <3> HIDE DEF ok, nonce, here, to
    <3>3. dec' = [st |-> "serve", limit |-> dec.limit, discard |-> 0, nonce |-> nonce,
                  held |-> Nothing, from |-> here, to |-> to, ok |-> ok]
      BY <1>2, <3>1 DEF DecTyped
    <3> QED  BY <3>2, <3>3 DEF nonce, here, to
  <2>10. Length(dec.held)' = 0
    BY <2>9 DEF Length, Nothing
  <2>11. Source' /\ Header'
    BY <1>3, <1>11, <1>15, <2>1, <2>9 DEF Source, Header
  <2>12. At' = Least(BlockAt(b + 1), Stored(pos))
    BY <1>5, <2>1, <2>2
  <2>13. Block'
    <3> DEFINE to == bd + size
    <3>1. /\ Here' \in PartStart(pos)'..PartEnd(pos)' /\ dec'.limit = PartEnd(pos)' + 1 - Here'
          /\ Stop' = LastStop'
      BY <1>3, <1>11, <1>15, <2>1, <2>9
    <3>2. BlockOf(Here)' = b /\ req' = req
      BY <1>11, <1>15 DEF b
    <3>3. dec'.nonce = Seals(req'.nonce)[BlockOf(Here)' + 1]
      BY <2>9, <3>2
    <3>4. Least((BlockOf(Here) + 1) * BlockData, PartSizes[pos + 1])' = to
      BY <1>1, <1>11, <1>15, <2>7, <3>2 DEF z
    <3>5. At' = Least(BlockAt(BlockOf(Here) + 1), Stored(pos))'
      BY <1>11, <1>15, <2>12, <3>2
    <3> HIDE DEF to
    <3>6. dec'.from = Here' /\ dec'.from < dec'.to /\ dec'.to = to
      BY <1>11, <1>15, <2>7, <2>9 DEF to
    <3> QED  BY <2>9, <2>10, <3>1, <3>3, <3>4, <3>5, <3>6 DEF Block
  <2> QED  BY <1>11, <1>15, <2>11, <2>13 DEF EvenInv
<1> QED  BY <1>1, <1>12, <1>14, <1>15

-----------------------------------------------------------------------------
(* The invariant and the properties.                                       *)

LEMMA InitInv ==
  ASSUME ReadInit
  PROVE  ReadInv
<1>1. BaseInv
  BY InitBase
<1>2. /\ req.st = "none" /\ wrong = FALSE /\ src.limit = 0
  BY DEF ReadInit, NoSource
<1>3. EvenInv
  BY <1>2 DEF EvenInv, Place, Source, Plain, Header, Block
<1> QED  BY <1>1, <1>3 DEF ReadInv

LEMMA EvenStep ==
  ASSUME ReadInv, [ReadNext]_readVars
  PROVE  EvenInv'
<1>1. BaseInv /\ EvenInv
  BY DEF ReadInv
<1>2. ASSUME NEW file \in Files, NEW enc \in BOOLEAN, NEW nonce \in Nonces,
             NEW first \in {NoValue} \cup 0..(SizeOf(file) + 1),
             NEW last \in {NoValue} \cup 0..(SizeOf(file) + 1),
             Begin(file, enc, nonce, first, last)
      PROVE  EvenInv'
  BY <1>1, <1>2, BeginEven
<1>3. ASSUME req'.file = req.file, Even => EvenInv' PROVE EvenInv'
  <2>1. Even' <=> Even
    BY <1>3, EvenKept
  <2> QED  BY <1>3, <2>1 DEF EvenInv
<1>4. ASSUME UNCHANGED readVars PROVE EvenInv'
  <2>1. req' = req /\ pos' = pos /\ given' = given /\ wrong' = wrong /\ dec' = dec /\ faulted' = faulted
        /\ src' = src /\ producer' = producer /\ batch' = batch /\ buffers' = buffers /\ cur' = cur
    BY <1>4 DEF readVars
  <2>2. ASSUME Even, req.st # "reading" PROVE EvenInv'
    <3>1. Place'
      BY <1>1, <2>1, <2>2 DEF EvenInv, Place, PartSizes, PartStart, PartSize, Stored
    <3> QED  BY <2>1, <2>2, <3>1, OtherStates
  <2>3. ASSUME Even, req.st = "reading" PROVE EvenInv'
    <3>1. InLine
      BY <1>1, <2>3 DEF EvenInv, Source
    <3>2. Stop' = Stop /\ At' = At
      BY <2>1 DEF Stop, At
    <3>3. Ahead' = Ahead /\ Waiting' = Waiting
      BY <2>1, <3>2 DEF Ahead, Waiting, Length
    <3>4. Fetched' = Fetched
      BY <2>1, <3>3 DEF Fetched
    <3>5. InLine'
      BY <2>1, <3>1, <3>2, <3>3, <3>4 DEF InLine, Length
    <3>6. faulted \in BOOLEAN
      BY <1>1 DEF BaseInv, ReqTyped
    <3> QED  BY <1>1, <2>1, <2>3, <3>2, <3>5, <3>6, SourceKept
  <2> QED  BY <1>3, <2>1, <2>2, <2>3
<1>5. ASSUME OpenPart \/ SourceFails \/ Disconnect \/ FetchBatch \/ FetchFails \/ FetchPanics \/ HandOver
               \/ NextBatch \/ ReadHeader \/ FillBlock \/ OutOfParts \/ BlocksEnd
      PROVE  req'.file = req.file
  <2>1. (\E s : req' = [req EXCEPT !.st = s]) \/ req' = req
    BY <1>5 DEF OpenPart, SourceFails, Disconnect, FetchBatch, FetchFails, FetchPanics, HandOver, NextBatch,
                ReadHeader, FillBlock, OutOfParts, BlocksEnd, Ends, MoveToNextPart
  <2> QED  BY <1>1, <2>1 DEF BaseInv, ReqTyped
<1>6. CASE FetchBatch \/ FetchFails \/ FetchPanics \/ HandOver \/ NextBatch
  BY <1>1, <1>3, <1>5, <1>6, ProducingEven
<1>7. CASE OutOfParts \/ SourceFails \/ Disconnect
  BY <1>1, <1>3, <1>5, <1>7, EndingEven
<1>8. CASE OpenPart
  BY <1>1, <1>3, <1>5, <1>8, OpenPartEven
<1>9. CASE CopyPlain
  BY <1>1, <1>3, <1>9, CopyPlainBase, CopyPlainEven
<1>10. CASE ReadHeader
  BY <1>1, <1>3, <1>5, <1>10, ReadHeaderEven
<1>11. CASE FillBlock
  BY <1>1, <1>3, <1>5, <1>11, FillBlockEven
<1>12. CASE CopyDecrypted
  BY <1>1, <1>3, <1>12, CopyDecryptedBase, CopyDecryptedEven
<1>13. CASE BlocksEnd
  BY <1>1, <1>3, <1>5, <1>13, BlocksEndNever
<1> QED  BY <1>2, <1>4, <1>6, <1>7, <1>8, <1>9, <1>10, <1>11, <1>12, <1>13 DEF ReadNext

\* The reader's invariant: whatever the files, the request is what was asked
\* and what was given is part of it; if the parts are even, the source is in
\* line, the decrypter is at its block, and its nonce is the block's.
THEOREM ReaderInvariant == ReadSpec => []ReadInv
<1>1. ReadInit => ReadInv
  BY InitInv
<1>2. ReadInv /\ [ReadNext]_readVars => ReadInv'
  <2> SUFFICES ASSUME ReadInv, [ReadNext]_readVars PROVE ReadInv'
    OBVIOUS
  <2>1. BaseInv'
    BY BaseStep DEF ReadInv
  <2> QED  BY <2>1, EvenStep DEF ReadInv
<1> QED  BY <1>1, <1>2, PTL DEF ReadSpec

\* The status is one of the program's, no more is given than the file has, the
\* limit of the multi reader does not fall below 0, and neither the channel nor
\* the batch outgrows its size, for files, chunks and channels of every size.
THEOREM ReadTypeCorrect == ReadSpec => []ReadTypeOK
<1>1. ReadInv => ReadTypeOK
  <2> SUFFICES ASSUME ReadInv PROVE ReadTypeOK
    OBVIOUS
  <2>1. BaseInv /\ EvenInv
    BY DEF ReadInv
  <2>2. given \in 0..SizeOf(req.file)
    BY <2>1, PartIs DEF BaseInv, ReqTyped, Within
  <2>3. Even => src.limit >= 0
    BY <2>1 DEF EvenInv, Source, Place, InLine
  <2> QED  BY <2>1, <2>2, <2>3 DEF BaseInv, ReqTyped, SrcTyped, ReadTypeOK, Statuses, Producers
<1> QED  BY <1>1, ReaderInvariant, PTL

\* A client is given the bytes it asked for, in order, and nothing else, for
\* files, blocks, chunks, batches and nonces of every size.
THEOREM InOrderHolds == ReadSpec => []InOrder
<1>1. ReadInv => InOrder
  BY DEF ReadInv, BaseInv, EvenInv, Asked, Place, InOrder
<1> QED  BY <1>1, ReaderInvariant, PTL

\* A download that nothing disturbed ends with the last byte asked for: it is
\* not cut short, does not fail and does not crash, unless a fetch failed, the
\* client went away or a part in the middle is not as long as the first.
THEOREM WholeHolds == ReadSpec => []WholeUnlessDisturbed
<1>1. ReadInv => WholeUnlessDisturbed
  BY DEF ReadInv, BaseInv, EvenInv, Within, Place, WholeUnlessDisturbed
<1> QED  BY <1>1, ReaderInvariant, PTL
==============================================================================
