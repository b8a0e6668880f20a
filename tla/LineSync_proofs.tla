---------------------------- MODULE LineSync_proofs ----------------------------
(***************************************************************************)
(* What line_sync finds in a capture, for every line size, phase, number   *)
(* of lines and noise: as long as the markers outvote the noise, the gap   *)
(* met most often is the line size and the remainder met most often the    *)
(* phase, and tools/framing.py agrees.  The argument counts: a noisy sample *)
(* falls between two line starts at most, so it spoils one gap and makes   *)
(* two of its own.                                                         *)
(***************************************************************************)
EXTENDS LineSync, FiniteSetTheorems, TLAPS

-----------------------------------------------------------------------------
(* Least and largest elements. *)
LEMMA MinOf ==
  ASSUME NEW S, S \subseteq Nat, S # {}
  PROVE  Min(S) \in S /\ \A y \in S : Min(S) <= y
  <1> DEFINE R == OpToRel(<, Nat)
  <1>1. IsWellFoundedOn(R, Nat)
    BY NatLessThanWellFounded
  <1> HIDE DEF R
  <1>2. PICK x \in S : \A y \in S : ~ (<<y, x>> \in R)
    BY <1>1, WFMin
  <1>3. \A y \in S : x <= y
    <2> SUFFICES ASSUME NEW y \in S, y < x PROVE FALSE
      OBVIOUS
    <2>1. <<y, x>> \in R
      BY DEF R, OpToRel
    <2> QED
      BY <1>2, <2>1
  <1> QED
    BY <1>3 DEF Min

LEMMA MaxOf ==
  ASSUME NEW n \in Nat, NEW S, S \subseteq 0..n, S # {}
  PROVE  Max(S) \in S /\ \A y \in S : Max(S) >= y
  <1> DEFINE D == {n - x : x \in S}
  <1>1. D \subseteq Nat /\ D # {}
    <2>1. \A x \in S : n - x \in Nat
      OBVIOUS
    <2> QED
      BY <2>1
  <1>2. PICK x \in S : Min(D) = n - x
    BY <1>1, MinOf
  <1>3. \A y \in S : x >= y
    <2> SUFFICES ASSUME NEW y \in S PROVE x >= y
      OBVIOUS
    <2>1. n - y \in D
      OBVIOUS
    <2>2. n - x <= n - y
      BY <1>1, <1>2, <2>1, MinOf
    <2> QED
      BY <2>2
  <1> QED
    BY <1>3 DEF Max

-----------------------------------------------------------------------------
LEMMA Modulo ==
  ASSUME NEW f \in Nat, NEW p \in Nat \ {0}, f < p, NEW k \in Nat
  PROVE  (f + k * p) % p = f
  <1> DEFINE b == f + k * p
             q == b \div p
             r == b % p
  <1>1. b \in Nat
    OBVIOUS
  <1>2. b = f + k * p
    OBVIOUS
  <1> HIDE DEF b
  <1>3. q \in Nat /\ r \in 0..(p - 1) /\ b = p * q + r
    BY <1>1
  <1> HIDE DEF q, r
  <1>4. CASE q = k
    BY <1>2, <1>3, <1>4 DEF r, b
  <1>5. CASE q < k
    <2>1. (k - q - 1) \in Nat /\ (k - q - 1) * p \in Nat
      BY <1>3, <1>5
    <2>2. (k - q - 1) * p = k * p - q * p - p
      BY <1>3
    <2> QED
      BY <1>2, <1>3, <2>1, <2>2
  <1>6. CASE q > k
    <2>1. (q - k - 1) \in Nat /\ (q - k - 1) * p \in Nat
      BY <1>3, <1>6
    <2>2. (q - k - 1) * p = q * p - k * p - p
      BY <1>3
    <2> QED
      BY <1>2, <1>3, <2>1, <2>2
  <1> QED
    BY <1>3, <1>4, <1>5, <1>6

(* The line starts are one period apart. *)
LEMMA StartIs ==
  ASSUME NEW f \in Nat, NEW p \in Nat \ {0}, NEW n \in Nat
  PROVE  /\ \A s \in Starts(f, p, n) : \E k \in 0..(n - 1) : s = f + k * p /\ s \in Nat
         /\ \A k \in 0..(n - 1) : f + k * p \in Starts(f, p, n)
  <1>1. \A k \in 0..(n - 1) : k * p \in Nat
    OBVIOUS
  <1> DEFINE at(k) == f + k * p
  <1>2. \A k \in 0..(n - 1) : at(k) \in Nat
    BY <1>1
  <1>3. Starts(f, p, n) = {at(k) : k \in 0..(n - 1)}
    BY DEF Starts
  <1>4. /\ \A s \in Starts(f, p, n) : \E k \in 0..(n - 1) : s = at(k) /\ s \in Nat
        /\ \A k \in 0..(n - 1) : at(k) \in Starts(f, p, n)
    <2> HIDE DEF at
    <2> QED
      BY <1>2, <1>3
  <1> QED
    BY <1>4

LEMMA StartsApart ==
  ASSUME NEW f \in Nat, NEW p \in Nat \ {0}, NEW n \in Nat,
         NEW a \in Starts(f, p, n), NEW b \in Starts(f, p, n), a < b
  PROVE  a + p <= b
  <1>0. \A s \in Starts(f, p, n) : \E k \in 0..(n - 1) : s = f + k * p /\ s \in Nat
    BY StartIs
  <1>1. PICK j \in 0..(n - 1) : a = f + j * p
    BY ONLY <1>0, a \in Starts(f, p, n), Zenon
  <1>2. PICK k \in 0..(n - 1) : b = f + k * p
    BY ONLY <1>0, b \in Starts(f, p, n), Zenon
  <1>3. j < k
    <2> SUFFICES ASSUME k <= j PROVE FALSE
      OBVIOUS
    <2>1. j - k \in Nat
      OBVIOUS
    <2>2. (j - k) * p \in Nat /\ (j - k) * p = j * p - k * p
      BY <2>1
    <2> QED
      BY <1>1, <1>2, <2>2
  <1>4. k - j - 1 \in Nat
    BY <1>3
  <1>5. (k - j - 1) * p \in Nat /\ (k - j - 1) * p = k * p - j * p - p
    BY <1>4
  <1> QED
    BY <1>1, <1>2, <1>5

LEMMA StartsCounted ==
  ASSUME NEW f \in Nat, NEW p \in Nat \ {0}, NEW n \in Nat
  PROVE  IsFiniteSet(Starts(f, p, n)) /\ Cardinality(Starts(f, p, n)) = n
  <1> DEFINE K == 0..(n - 1)
             S == Starts(f, p, n)
             F == [k \in K |-> f + k * p]
  <1>1. IsFiniteSet(K) /\ Cardinality(K) = n
    <2>1. 0 \in Int /\ n - 1 \in Int
      OBVIOUS
    <2>2. IsFiniteSet(K) /\ Cardinality(K) = IF 0 > n - 1 THEN 0 ELSE (n - 1) - 0 + 1
      BY ONLY <2>1, FS_Interval, Zenon
    <2> QED
      BY <2>2
  <1>2. F \in [K -> S]
    BY StartIs
  <1>3. \A j, k \in K : F[j] = F[k] => j = k
    <2> SUFFICES ASSUME NEW j \in K, NEW k \in K, j < k PROVE F[j] # F[k]
      OBVIOUS
    <2>1. k - j \in Nat \ {0}
      OBVIOUS
    <2>2. (k - j) * p \in Nat \ {0} /\ (k - j) * p = k * p - j * p
      BY <2>1
    <2>3. j * p \in Nat /\ k * p \in Nat
      OBVIOUS
    <2> QED
      BY <2>2, <2>3
  <1>4. \A s \in S : \E k \in K : F[k] = s
    BY DEF Starts
  <1>5. F \in Bijection(K, S)
    <2> HIDE DEF F, K, S
    <2>1. DOMAIN F = K
      BY <1>2
    <2> QED
      BY <1>2, <1>3, <1>4, <2>1 DEF Bijection, Injection, Surjection, IsInjective
  <1>6. ExistsBijection(K, S)
    BY <1>5 DEF ExistsBijection
  <1> HIDE DEF F, K, S
  <1> QED
    BY <1>1, <1>6, FS_Bijection DEF S

-----------------------------------------------------------------------------
(* A value that outvotes every other is what both ways of counting find. *)
LEMMA CountTyped ==
  ASSUME NEW f, IsFiniteSet(DOMAIN f), NEW v
  PROVE  Count(f, v) \in Nat /\ Count(f, v) <= Cardinality(DOMAIN f)
  <1> DEFINE A == {i \in DOMAIN f : f[i] = v}
  <1>1. A \in SUBSET DOMAIN f
    OBVIOUS
  <1> HIDE DEF A
  <1>2. IsFiniteSet(A) /\ Cardinality(A) <= Cardinality(DOMAIN f)
    BY <1>1, FS_Subset
  <1>3. Cardinality(A) \in Nat
    BY <1>2, FS_CardinalityType
  <1> QED
    BY <1>2, <1>3 DEF Count, A

LEMMA Outvoted ==
  ASSUME NEW f, IsFiniteSet(DOMAIN f), DOMAIN f \subseteq Nat,
         NEW v \in Nat, \E i \in DOMAIN f : f[i] = v,
         \A i \in DOMAIN f : f[i] # v => Count(f, f[i]) < Count(f, v)
  PROVE  MostCommon(f) = v /\ LeastMostCommon(f) = v
  <1> DEFINE D == DOMAIN f
             C == {Count(f, f[i]) : i \in D}
             A == {i \in D : f[i] = v}
  <1>1. Cardinality(D) \in Nat
    BY FS_CardinalityType
  <1>2. \A u : Count(f, u) \in 0..Cardinality(D)
    BY <1>1, CountTyped
  <1>3. A # {} /\ A \subseteq Nat
    OBVIOUS
  <1>4. C \subseteq 0..Cardinality(D) /\ C # {} /\ Count(f, v) \in C
    BY <1>2, <1>3
  <1>5. \A c \in C : c <= Count(f, v)
    BY <1>2
  <1>6. Max(C) = Count(f, v)
    <2> HIDE DEF C, D
    <2>1. Max(C) \in C /\ Max(C) >= Count(f, v)
      BY <1>1, <1>4, MaxOf
    <2>2. Max(C) \in Int /\ Count(f, v) \in Int
      <3>1. \A x \in 0..Cardinality(D) : x \in Int
        BY <1>1
      <3>2. \A x \in C : x \in Int
        BY ONLY <1>4, <3>1, Zenon
      <3> QED
        BY ONLY <1>4, <2>1, <3>2, Zenon
    <2>3. Max(C) <= Count(f, v)
      BY <1>5, <2>1
    <2> QED
      BY <2>1, <2>2, <2>3
  <1>7. Favoured(f) = A
    <2>1. Favoured(f) = {i \in D : Count(f, f[i]) = Count(f, v)}
      BY <1>6 DEF Favoured
    <2>2. \A i \in D : Count(f, f[i]) = Count(f, v) <=> f[i] = v
      BY <1>2
    <2> QED
      BY <2>1, <2>2
  <1>8. Min(A) \in A
    BY <1>3, MinOf
  <1>9. {f[i] : i \in A} = {v}
    BY <1>3
  <1>10. Min({v}) = v
    BY DEF Min
  <1> QED
    BY <1>7, <1>8, <1>9, <1>10 DEF MostCommon, LeastMostCommon

-----------------------------------------------------------------------------
(* The layout of a legible capture: what is no line start is noise, and a start
   is spoiled if noise comes before the next one. *)
Noise(marks, f, p, n) == marks \ Starts(f, p, n)
Spoiled(marks, f, p, n) ==
  {a \in Starts(f, p, n) : \E x \in Noise(marks, f, p, n) : a < x /\ x < a + p}

LEMMA Layout ==
  ASSUME NEW marks, NEW f, NEW p, NEW n \in Nat, Legible(marks, f, p, n)
  PROVE  /\ p \in Nat \ {0} /\ f \in Nat /\ f < p
         /\ n >= 2 /\ n * p - 1 \in Nat /\ marks \subseteq 0..(n * p - 1)
         /\ IsFiniteSet(marks) /\ marks # {} /\ marks \subseteq Nat
         /\ Starts(f, p, n) \subseteq marks
         /\ IsFiniteSet(Noise(marks, f, p, n))
         /\ Cardinality(Noise(marks, f, p, n)) \in Nat
         /\ 3 * Cardinality(Noise(marks, f, p, n)) < n - 1
  <1> DEFINE S == Starts(f, p, n)
             N == Noise(marks, f, p, n)
             c == Cardinality(N)
  <1>1. /\ p \in Nat \ {0} /\ f \in 0..(p - 1)
        /\ S \subseteq marks /\ marks \subseteq 0..(n * p - 1)
        /\ 3 * c < n - 1
    BY DEF Legible, Noise
  <1> HIDE DEF S
  <1>2. f \in Nat /\ f < p
    BY <1>1
  <1>3. n * p \in Nat
    BY <1>1
  <1>4. IsFiniteSet(0..(n * p - 1))
    <2>1. 0 \in Int /\ n * p - 1 \in Int
      BY <1>3
    <2> QED
      BY ONLY <2>1, FS_Interval, Zenon
  <1>5. IsFiniteSet(marks)
    <2>1. marks \in SUBSET (0..(n * p - 1))
      BY <1>1
    <2> QED
      BY ONLY <1>4, <2>1, FS_Subset, Zenon
  <1>6. IsFiniteSet(N) /\ c \in Nat
    <2>1. N \in SUBSET marks
      BY DEF Noise
    <2> HIDE DEF N
    <2> QED
      BY <1>5, <2>1, FS_Subset, FS_CardinalityType
  <1> HIDE DEF N, c
  <1>7. n >= 2
    BY <1>1, <1>6
  <1>8. n * p - 1 \in Nat
    <2>1. (n - 1) * p \in Nat /\ (n - 1) * p = n * p - p
      BY <1>1, <1>7
    <2> QED
      BY <1>1, <1>3, <2>1
  <1>9. marks # {}
    <2>1. f + 0 * p \in S
      <3>1. 0 \in 0..(n - 1)
        BY <1>7
      <3> QED
        BY <1>1, <1>2, <3>1, StartIs DEF S
    <2> QED
      BY <1>1, <2>1
  <1>10. marks \subseteq Nat
    BY <1>1, <1>3
  <1> QED
    BY <1>1, <1>2, <1>5, <1>6, <1>7, <1>8, <1>9, <1>10 DEF S, N, c

LEMMA SpoiledFew ==
  ASSUME NEW marks, NEW f, NEW p, NEW n \in Nat, Legible(marks, f, p, n)
  PROVE  LET Z == Spoiled(marks, f, p, n)
         IN  /\ IsFiniteSet(Z) /\ Cardinality(Z) \in Nat
             /\ Cardinality(Z) <= Cardinality(Noise(marks, f, p, n))
  <1> DEFINE S == Starts(f, p, n)
             N == Noise(marks, f, p, n)
             Z == Spoiled(marks, f, p, n)
             G == [a \in Z |-> CHOOSE x \in N : a < x /\ x < a + p]
  <1>1. /\ p \in Nat \ {0} /\ f \in Nat /\ IsFiniteSet(N)
        /\ N \subseteq Nat /\ S \subseteq Nat
    BY Layout DEF Noise
  <1>2. \A a \in Z : a \in S /\ G[a] \in N /\ a < G[a] /\ G[a] < a + p
    BY DEF Spoiled
  <1>3. G \in [Z -> N] /\ DOMAIN G = Z
    BY <1>2
  <1> HIDE DEF G
  <1>4. \A a, b \in Z : G[a] = G[b] => ~(a < b)
    <2> SUFFICES ASSUME NEW a \in Z, NEW b \in Z, G[a] = G[b], a < b PROVE FALSE
      OBVIOUS
    <2>1. a \in S /\ b \in S
      BY <1>2
    <2>2. a + p <= b
      BY <1>1, <2>1, StartsApart
    <2>3. /\ a \in Nat /\ b \in Nat /\ G[a] \in Nat
          /\ G[a] < a + p /\ b < G[b]
      BY <1>1, <1>2
    <2> QED
      BY <1>1, <2>2, <2>3
  <1>5. \A a, b \in Z : G[a] = G[b] => a = b
    <2>1. \A a \in Z : a \in Nat
      BY <1>1, <1>2
    <2> QED
      BY <1>4, <2>1
  <1> HIDE DEF Z, N
  <1>6. G \in Injection(Z, N)
    BY <1>3, <1>5 DEF Injection, IsInjective
  <1> QED
    BY <1>1, <1>6, FS_Injection, FS_CardinalityType DEF Z, N

(* The gap from a marker, but the last, to the next one. *)
LEMMA GapIs ==
  ASSUME NEW m \in Nat, NEW marks, marks \subseteq 0..m, marks # {},
         NEW a \in DOMAIN Gaps(marks)
  PROVE  LET gap == Gaps(marks)[a]
         IN  /\ a \in marks /\ gap \in Nat \ {0} /\ a + gap \in marks
             /\ \A b \in marks : b > a => a + gap <= b
  <1> DEFINE B == {b \in marks : b > a}
  <1>1. a \in marks /\ a # Max(marks) /\ Gaps(marks)[a] = Min(B) - a
    BY DEF Gaps
  <1>2. Max(marks) \in marks /\ Max(marks) >= a
    BY <1>1, MaxOf
  <1>3. Max(marks) \in B /\ B \subseteq Nat
    <2>1. marks \subseteq Nat
      OBVIOUS
    <2>2. a \in Nat /\ Max(marks) \in Nat
      BY ONLY <1>1, <1>2, <2>1, Zenon
    <2>3. Max(marks) > a
      BY <1>1, <1>2, <2>2
    <2> QED
      BY <1>2, <2>1, <2>3
  <1>4. Min(B) \in B /\ \A y \in B : Min(B) <= y
    BY <1>3, MinOf
  <1>5. \A b \in marks : b > a => Min(B) <= b
    BY <1>4
  <1>6. Min(B) \in marks /\ Min(B) > a
    BY <1>4
  <1> HIDE DEF B
  <1>7. a \in Nat /\ Min(B) \in Nat
    <2>1. marks \subseteq Nat
      OBVIOUS
    <2> QED
      BY ONLY <1>1, <1>6, <2>1, Zenon
  <1>8. a + Gaps(marks)[a] = Min(B) /\ Gaps(marks)[a] \in Nat \ {0}
    BY <1>1, <1>6, <1>7
  <1> QED
    BY <1>1, <1>5, <1>6, <1>8

(* From a start that is not spoiled the gap is a line. *)
LEMMA StartGap ==
  ASSUME NEW marks, NEW f, NEW p, NEW n \in Nat, Legible(marks, f, p, n),
         NEW a \in DOMAIN Gaps(marks), a \in Starts(f, p, n),
         a \notin Spoiled(marks, f, p, n)
  PROVE  Gaps(marks)[a] = p
  <1> DEFINE S == Starts(f, p, n)
             m == n * p - 1
             gap == Gaps(marks)[a]
             b == a + gap
  <1>1. /\ p \in Nat \ {0} /\ f \in Nat /\ m \in Nat /\ marks \subseteq 0..m
        /\ marks # {} /\ S \subseteq marks /\ S \subseteq Nat
    BY Layout
  <1>2. /\ gap \in Nat \ {0} /\ b \in marks /\ a \in Nat
        /\ \A y \in marks : y > a => b <= y
    <2> HIDE DEF m
    <2> QED
      BY <1>1, GapIs
  <1>3. b >= a + p
    <2> SUFFICES ASSUME b < a + p PROVE FALSE
      BY <1>1, <1>2
    <2>1. a < b
      BY <1>2
    <2>2. CASE b \in S
      BY <1>1, <1>2, <2>1, <2>2, StartsApart
    <2>3. CASE b \notin S
      BY <1>2, <2>1, <2>3 DEF Noise, Spoiled
    <2> QED
      BY <2>2, <2>3
  <1>4. b <= a + p
    <2>0. \A s \in S : \E k \in 0..(n - 1) : s = f + k * p /\ s \in Nat
      BY <1>1, StartIs
    <2>1. PICK k \in 0..(n - 1) : a = f + k * p
      BY ONLY <2>0, a \in S, Zenon
    <2>2. CASE k < n - 1
      <3>1. k + 1 \in 0..(n - 1)
        BY <2>2
      <3>2. f + (k + 1) * p \in S
        BY <1>1, <3>1, StartIs
      <3>3. f + (k + 1) * p = a + p
        BY <1>1, <2>1
      <3>4. a + p \in marks /\ a + p > a
        BY <1>1, <1>2, <3>2, <3>3
      <3> QED
        BY <1>2, <3>4
    <2>3. CASE k = n - 1
      <3>1. k * p = n * p - p
        BY <1>1, <2>3
      <3>2. b \in 0..m
        BY <1>1, <1>2
      <3>3. b <= n * p - 1 /\ n * p \in Nat
        BY <1>1, <3>2
      <3> QED
        BY <1>1, <1>2, <2>1, <3>1, <3>3
    <2> QED
      BY <2>2, <2>3
  <1> QED
    BY <1>1, <1>2, <1>3, <1>4

-----------------------------------------------------------------------------
(* The count.  All starts but the last and the spoiled ones vote for the line
   size; only noise and spoiled starts vote for anything else. *)
LEMMA GapVotes ==
  ASSUME NEW marks, NEW f, NEW p, NEW n \in Nat, Legible(marks, f, p, n)
  PROVE  Count(Gaps(marks), p) >= n - 1 - Cardinality(Noise(marks, f, p, n))
  <1> DEFINE T == Starts(f, p, n - 1)
             Z == Spoiled(marks, f, p, n)
             g == Gaps(marks)
             A == {a \in DOMAIN g : g[a] = p}
             c == Cardinality(Noise(marks, f, p, n))
             m == n * p - 1
  <1>1. /\ p \in Nat \ {0} /\ f \in Nat /\ m \in Nat /\ marks \subseteq 0..m
        /\ marks # {} /\ Starts(f, p, n) \subseteq marks /\ marks \subseteq Nat
        /\ IsFiniteSet(marks) /\ n - 1 \in Nat /\ c \in Nat
    BY Layout
  <1>2. IsFiniteSet(T) /\ Cardinality(T) = n - 1
    BY <1>1, StartsCounted
  <1>3. IsFiniteSet(Z) /\ Cardinality(Z) \in Nat /\ Cardinality(Z) <= c
    BY SpoiledFew
  <1>4. DOMAIN g = marks \ {Max(marks)}
    BY DEF Gaps
  <1> HIDE DEF m
  <1>5. T \ Z \subseteq A
    <2> SUFFICES ASSUME NEW a \in T, a \notin Z PROVE a \in A
      OBVIOUS
    <2>0. \A s \in T : \E k \in 0..((n - 1) - 1) : s = f + k * p /\ s \in Nat
      BY <1>1, StartIs
    <2>1. PICK k \in 0..((n - 1) - 1) : a = f + k * p
      BY ONLY <2>0, a \in T, Zenon
    <2>2. k \in 0..(n - 1) /\ k + 1 \in 0..(n - 1)
      BY <1>1
    <2>3. a \in Starts(f, p, n) /\ f + (k + 1) * p \in Starts(f, p, n)
      BY <1>1, <2>1, <2>2, StartIs
    <2>4. f + (k + 1) * p = a + p
      BY <1>1, <2>1
    <2>5. a \in marks /\ a + p \in marks
      BY <1>1, <2>3, <2>4
    <2>6. a # Max(marks)
      <3>1. Max(marks) >= a + p
        BY <1>1, <2>5, MaxOf
      <3> QED
        BY <1>1, <2>5, <3>1
    <2>7. a \in DOMAIN g
      BY <1>4, <2>5, <2>6
    <2> QED
      BY <2>3, <2>7, StartGap
  <1>6. A \subseteq marks
    BY <1>4
  <1> HIDE DEF T, Z, A, g, c
  <1>7. IsFiniteSet(A) /\ Cardinality(A) \in Nat
    BY <1>1, <1>6, FS_Subset, FS_CardinalityType
  <1>8. IsFiniteSet(A \union Z)
        /\ Cardinality(A \union Z) = Cardinality(A) + Cardinality(Z) - Cardinality(A \cap Z)
    BY <1>3, <1>7, FS_Union
  <1>9. Cardinality(A \cap Z) \in Nat
    BY <1>7, FS_Subset, FS_CardinalityType
  <1>10. T \in SUBSET (A \union Z)
    BY <1>5
  <1>11. Cardinality(T) <= Cardinality(A \union Z)
    BY <1>8, <1>10, FS_Subset
  <1>12. Cardinality(A) >= n - 1 - c
    BY <1>1, <1>2, <1>3, <1>7, <1>8, <1>9, <1>11
  <1> QED
    BY <1>12 DEF Count, A, g, c

LEMMA OtherGapVotes ==
  ASSUME NEW marks, NEW f, NEW p, NEW n \in Nat, Legible(marks, f, p, n),
         NEW v, v # p
  PROVE  Count(Gaps(marks), v) <= 2 * Cardinality(Noise(marks, f, p, n))
  <1> DEFINE Z == Spoiled(marks, f, p, n)
             N == Noise(marks, f, p, n)
             g == Gaps(marks)
             A == {a \in DOMAIN g : g[a] = v}
  <1>1. IsFiniteSet(N) /\ Cardinality(N) \in Nat
    BY Layout
  <1>2. IsFiniteSet(Z) /\ Cardinality(Z) \in Nat /\ Cardinality(Z) <= Cardinality(N)
    BY SpoiledFew
  <1>3. A \in SUBSET (N \union Z)
    <2> SUFFICES ASSUME NEW a \in DOMAIN g, g[a] = v, a \notin Z PROVE a \in N
      OBVIOUS
    <2>1. a \in marks
      BY DEF Gaps
    <2>2. a \notin Starts(f, p, n)
      BY StartGap
    <2> QED
      BY <2>1, <2>2 DEF Noise
  <1> HIDE DEF Z, N, A, g
  <1>4. IsFiniteSet(N \union Z) /\ Cardinality(N \union Z)
          = Cardinality(N) + Cardinality(Z) - Cardinality(N \cap Z)
    BY <1>1, <1>2, FS_Union
  <1>5. Cardinality(N \cap Z) \in Nat
    BY <1>1, FS_Subset, FS_CardinalityType
  <1>6. Cardinality(A) <= Cardinality(N \union Z) /\ Cardinality(A) \in Nat
    BY <1>3, <1>4, FS_Subset, FS_CardinalityType
  <1>7. Cardinality(A) <= 2 * Cardinality(N)
    BY <1>1, <1>2, <1>4, <1>5, <1>6
  <1> QED
    BY <1>7 DEF Count, A, N, g

LEMMA GapFound ==
  ASSUME NEW marks, NEW f, NEW p, NEW n \in Nat, Legible(marks, f, p, n)
  PROVE  MostCommon(Gaps(marks)) = p /\ LeastMostCommon(Gaps(marks)) = p
  <1> DEFINE g == Gaps(marks)
             c == Cardinality(Noise(marks, f, p, n))
  <1>1. /\ p \in Nat /\ c \in Nat /\ 3 * c < n - 1
        /\ IsFiniteSet(marks) /\ marks \subseteq Nat
    BY Layout
  <1>2. DOMAIN g \in SUBSET marks
    BY DEF Gaps
  <1>3. Count(g, p) >= n - 1 - c
    BY GapVotes
  <1>4. \A v : v # p => Count(g, v) <= 2 * c
    BY OtherGapVotes
  <1> HIDE DEF g, c
  <1>5. IsFiniteSet(DOMAIN g)
    BY <1>1, <1>2, FS_Subset
  <1>6. \A v : Count(g, v) \in Nat
    BY <1>5, CountTyped
  <1>7. Count(g, p) > 2 * c
    BY <1>1, <1>3, <1>6
  <1>8. \E i \in DOMAIN g : g[i] = p
    <2> SUFFICES ASSUME ~ \E i \in DOMAIN g : g[i] = p PROVE FALSE
      OBVIOUS
    <2>1. {i \in DOMAIN g : g[i] = p} = {}
      OBVIOUS
    <2>2. Count(g, p) = 0
      BY <2>1, FS_EmptySet DEF Count
    <2> QED
      BY <1>1, <1>7, <2>2
  <1>9. \A i \in DOMAIN g : g[i] # p => Count(g, g[i]) < Count(g, p)
    BY <1>1, <1>4, <1>6, <1>7
  <1>10. DOMAIN g \subseteq Nat
    BY <1>1, <1>2
  <1> QED
    BY <1>1, <1>5, <1>8, <1>9, <1>10, Outvoted DEF g

(* Every start votes for the phase, only noise for another remainder. *)
LEMMA PhaseFound ==
  ASSUME NEW marks, NEW f, NEW p, NEW n \in Nat, Legible(marks, f, p, n)
  PROVE  /\ MostCommon(Phases(marks, p)) = f
         /\ LeastMostCommon(Phases(marks, p)) = f
  <1> DEFINE S == Starts(f, p, n)
             N == Noise(marks, f, p, n)
             h == Phases(marks, p)
  <1>1. /\ p \in Nat \ {0} /\ f \in Nat /\ f < p /\ n >= 2
        /\ IsFiniteSet(marks) /\ marks \subseteq Nat /\ S \subseteq marks
        /\ IsFiniteSet(N) /\ Cardinality(N) \in Nat /\ 3 * Cardinality(N) < n - 1
    BY Layout
  <1>2. DOMAIN h = marks /\ \A a \in marks : h[a] = a % p
    BY DEF Phases
  <1>3. \A s \in S : s % p = f
    <2> SUFFICES ASSUME NEW s \in S PROVE s % p = f
      OBVIOUS
    <2>0. \A t \in S : \E k \in 0..(n - 1) : t = f + k * p /\ t \in Nat
      BY <1>1, StartIs
    <2>1. PICK k \in 0..(n - 1) : s = f + k * p
      BY ONLY <2>0, s \in S, Zenon
    <2>2. k \in Nat
      OBVIOUS
    <2> QED
      BY <1>1, <2>1, <2>2, Modulo
  <1>4. IsFiniteSet(S) /\ Cardinality(S) = n
    BY <1>1, StartsCounted
  <1>5. S \in SUBSET {i \in DOMAIN h : h[i] = f}
    BY <1>1, <1>2, <1>3
  <1>6. \A v : v # f => {i \in DOMAIN h : h[i] = v} \in SUBSET N
    BY <1>1, <1>2, <1>3 DEF Noise
  <1> HIDE DEF S, N, h
  <1>7. \A v : Count(h, v) \in Nat
    BY <1>1, <1>2, CountTyped
  <1>8. Count(h, f) >= n
    <2>1. IsFiniteSet({i \in DOMAIN h : h[i] = f})
      BY <1>1, <1>2, FS_Subset
    <2> QED
      BY <1>4, <1>5, <2>1, FS_Subset DEF Count
  <1>9. \A v : v # f => Count(h, v) <= Cardinality(N)
    BY <1>1, <1>6, FS_Subset DEF Count
  <1>10. \E i \in DOMAIN h : h[i] = f
    <2>1. S # {}
      BY <1>1, <1>4, FS_EmptySet
    <2> QED
      BY <1>5, <2>1
  <1>11. \A i \in DOMAIN h : h[i] # f => Count(h, h[i]) < Count(h, f)
    BY <1>1, <1>7, <1>8, <1>9
  <1> QED
    BY <1>1, <1>2, <1>10, <1>11, Outvoted DEF h

(* The bridge and the tool that checks its captures find the lines of a legible
   capture, or say they see none. *)
THEOREM LinesFound ==
  ASSUME NEW marks, NEW f, NEW p, NEW n \in Nat, Legible(marks, f, p, n)
  PROVE  /\ line_sync(marks) \in {NoSync, [phase |-> f, period |-> p]}
         /\ report(marks) \in {NoSync, [phase |-> f, period |-> p]}
  <1>1. MostCommon(Gaps(marks)) = p /\ LeastMostCommon(Gaps(marks)) = p
    BY GapFound
  <1>2. /\ MostCommon(Phases(marks, p)) = f
        /\ LeastMostCommon(Phases(marks, p)) = f
    BY PhaseFound
  <1> QED
    BY <1>1, <1>2 DEF line_sync, report
=============================================================================
