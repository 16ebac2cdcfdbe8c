-------------------------- MODULE ConsoleLoggerProofs --------------------------
(* Theorems about getopt_long() and about console_logger's main(), for every     *)
(* table of options and every command line.                                      *)
EXTENDS ConsoleLogger, TLAPS, SequenceTheorems, FiniteSetTheorems, WellFoundedInduction

-----------------------------------------------------------------------------
(* Numbers                                                                       *)

\* The library's order on finite sets is well founded: so is the one on the numbers.
LEMMA Least ==
  ASSUME NEW T, T \subseteq Nat, T # {}
  PROVE  \E m \in T : \A k \in T : m <= k
<1> DEFINE Below(n) == 0..(n - 1)
           D == {Below(n) : n \in T}
<1>1. IsWellFoundedOn(StrictSubsetOrdering(Nat), FiniteSubsetsOf(Nat))
  BY FS_StrictSubsetOrderingWellFounded
<1>2. D \subseteq FiniteSubsetsOf(Nat) /\ D # {}
  <2>1. ASSUME NEW n \in T PROVE Below(n) \in FiniteSubsetsOf(Nat)
    BY FS_Interval DEF FiniteSubsetsOf
  <2> QED BY <2>1
<1>3. \E x \in D : \A y \in D : ~(<<y, x>> \in StrictSubsetOrdering(Nat))
  <2> HIDE DEF D
  <2> QED BY <1>1, <1>2, WFMin
<1>4. PICK m \in T : \A k \in T : ~(<<Below(k), Below(m)>> \in StrictSubsetOrdering(Nat))
  BY <1>3
<1>5. ASSUME NEW k \in T, k < m PROVE FALSE
  <2>1. Below(k) \subseteq Below(m) /\ k \in Below(m) /\ k \notin Below(k) /\ Below(m) \subseteq Nat
    BY <1>5
  <2> HIDE DEF Below
  <2> QED BY <1>4, <2>1 DEF StrictSubsetOrdering
<1>6. m \in Int /\ \A k \in T : k \in Int
  OBVIOUS
<1> QED BY <1>5, <1>6

\* A set of numbers that has zero, and with every number the next one, has all of them.
LEMMA SetInduction ==
  ASSUME NEW S, 0 \in S, \A n \in Nat : n \in S => n + 1 \in S
  PROVE  Nat \subseteq S
<1> SUFFICES ASSUME Nat \ S # {} PROVE FALSE
  OBVIOUS
<1>1. PICK m \in Nat \ S : \A k \in Nat \ S : m <= k
  BY Least
<1>2. m - 1 \in Nat /\ m - 1 \notin Nat \ S
  BY <1>1
<1> QED BY <1>1, <1>2

-----------------------------------------------------------------------------
(* Remainders and the greatest common divisor                                   *)

LEMMA Remainder ==
  ASSUME NEW a \in Nat, NEW b \in Nat \ {0}
  PROVE  a % b \in 0..(b - 1)
OBVIOUS

\* g is gcd as far as its second argument goes up to n.
IsGcd(g, n) ==
  g = [b \in 1..n |-> [a \in Nat |-> IF a % b = 0 THEN b ELSE g[a % b][b]]]

\* Two tables of the greatest common divisors agree where both have entries.
LEMMA GcdUnique ==
  ASSUME NEW g, NEW h, NEW n \in Nat, NEW m \in Nat, IsGcd(g, n), IsGcd(h, m),
         NEW b \in 1..n, b <= m
  PROVE  g[b] = h[b]
<1> DEFINE T == {c \in 1..n : c <= m /\ g[c] # h[c]}
<1> SUFFICES ASSUME T # {} PROVE FALSE
  OBVIOUS
<1>1. PICK c \in T : \A d \in T : c <= d
  <2>1. T \subseteq Nat
    OBVIOUS
  <2> HIDE DEF T
  <2> QED BY <2>1, Least
<1>2. c \in 1..n /\ c \in 1..m
  OBVIOUS
<1>3. ASSUME NEW a \in Nat, a % c # 0
      PROVE  g[a % c][c] = h[a % c][c]
  <2>1. a % c \in 1..(c - 1)
    BY <1>2, <1>3, Remainder
  <2>2. a % c \notin T
    BY <1>1, <1>2, <2>1
  <2> QED BY <1>2, <2>1, <2>2
<1>4. g[c] = [a \in Nat |-> IF a % c = 0 THEN c ELSE g[a % c][c]]
  BY <1>2 DEF IsGcd
<1>5. h[c] = [a \in Nat |-> IF a % c = 0 THEN c ELSE h[a % c][c]]
  BY <1>2 DEF IsGcd
<1>6. g[c] = h[c]
  BY <1>3, <1>4, <1>5
<1> QED BY <1>6

\* There is a table of them up to any n.
LEMMA GcdUpTo == \A n \in Nat : \E g : IsGcd(g, n)
<1> DEFINE S == {n \in Nat : \E g : IsGcd(g, n)}
<1>1. 0 \in S
  <2>1. IsGcd([b \in 1..0 |-> 0], 0)
    BY DEF IsGcd
  <2> QED BY <2>1
<1>2. ASSUME NEW n \in Nat, n \in S
      PROVE  n + 1 \in S
  <2>1. PICK g : IsGcd(g, n)
    BY <1>2
  <2> DEFINE last == [a \in Nat |-> IF a % (n + 1) = 0 THEN n + 1 ELSE g[a % (n + 1)][n + 1]]
             h == [b \in 1..(n + 1) |-> IF b = n + 1 THEN last ELSE g[b]]
  <2>2. \A b \in 1..n : h[b] = g[b]
    OBVIOUS
  <2>3. ASSUME NEW b \in 1..(n + 1)
        PROVE  h[b] = [a \in Nat |-> IF a % b = 0 THEN b ELSE h[a % b][b]]
    <3>1. \A a \in Nat : a % b # 0 => a % b \in 1..n
      BY Remainder
    <3>2. \A a \in Nat : a % b # 0 => h[a % b] = g[a % b]
      BY <2>2, <3>1
    <3>3. CASE b = n + 1
      BY <3>2, <3>3
    <3>4. CASE b # n + 1
      <4>1. b \in 1..n
        BY <3>4
      <4>2. h[b] = g[b] /\ g[b] = [a \in Nat |-> IF a % b = 0 THEN b ELSE g[a % b][b]]
        BY <2>1, <2>2, <4>1 DEF IsGcd
      <4> HIDE DEF h
      <4> QED BY <3>2, <4>2
    <3> QED BY <3>3, <3>4
  <2>4. h = [b \in 1..(n + 1) |-> h[b]]
    OBVIOUS
  <2> HIDE DEF h
  <2>5. IsGcd(h, n + 1)
    BY <2>3, <2>4 DEF IsGcd
  <2> QED BY <2>5
<1> HIDE DEF S
<1>3. Nat \subseteq S
  BY <1>1, <1>2, SetInduction
<1> QED BY <1>3 DEF S

\* The recursive function of the model is such a table.
LEMMA GcdDefined ==
  gcd = [b \in Nat \ {0} |-> [a \in Nat |-> IF a % b = 0 THEN b ELSE gcd[a % b][b]]]
<1> DEFINE f == [b \in Nat \ {0} |-> (CHOOSE g : IsGcd(g, b))[b]]
<1>1. ASSUME NEW b \in Nat \ {0}
      PROVE  f[b] = [a \in Nat |-> IF a % b = 0 THEN b ELSE f[a % b][b]]
  <2> DEFINE g == CHOOSE h : IsGcd(h, b)
  <2>1. IsGcd(g, b)
    BY GcdUpTo
  <2>2. g[b] = [a \in Nat |-> IF a % b = 0 THEN b ELSE g[a % b][b]]
    <3> HIDE DEF g
    <3>1. b \in 1..b
      OBVIOUS
    <3> QED BY <2>1, <3>1 DEF IsGcd
  <2>3. ASSUME NEW c \in 1..b PROVE f[c] = g[c]
    <3> DEFINE h == CHOOSE k : IsGcd(k, c)
    <3>1. IsGcd(h, c)
      BY GcdUpTo
    <3>2. f[c] = h[c]
      OBVIOUS
    <3> HIDE DEF g, h, f
    <3> QED BY <2>1, <3>1, <3>2, GcdUnique
  <2>4. \A a \in Nat : a % b # 0 => a % b \in 1..b
    BY Remainder
  <2>5. f[b] = g[b]
    OBVIOUS
  <2> HIDE DEF f, g
  <2> QED BY <2>2, <2>3, <2>4, <2>5
<1>2. f = [b \in Nat \ {0} |-> [a \in Nat |-> IF a % b = 0 THEN b ELSE f[a % b][b]]]
  <2>1. f = [b \in Nat \ {0} |-> f[b]]
    OBVIOUS
  <2> HIDE DEF f
  <2> QED BY <1>1, <2>1
<1> HIDE DEF f
<1> QED BY <1>2 DEF gcd

Divides(d, a) == \E i \in Int : a = d * i

\* What gcd() returns divides both its arguments (getopt.h:156-166).
LEMMA GcdDivides ==
  \A b \in Nat \ {0}, a \in Nat :
    /\ gcd[b][a] \in Nat \ {0}
    /\ Divides(gcd[b][a], a) /\ Divides(gcd[b][a], b)
    /\ \E x, y \in Int : gcd[b][a] = a * x + b * y
<1> DEFINE P(b) == \A a \in Nat :
             /\ gcd[b][a] \in Nat \ {0}
             /\ Divides(gcd[b][a], a) /\ Divides(gcd[b][a], b)
             /\ \E x, y \in Int : gcd[b][a] = a * x + b * y
           T == {b \in Nat \ {0} : ~P(b)}
<1> HIDE DEF P
<1> SUFFICES ASSUME T # {} PROVE FALSE
  BY DEF P
<1>1. PICK b \in T : \A c \in T : b <= c
  <2>1. T \subseteq Nat
    OBVIOUS
  <2> HIDE DEF T
  <2> QED BY <2>1, Least
<1>2. ASSUME NEW a \in Nat
      PROVE  /\ gcd[b][a] \in Nat \ {0}
             /\ Divides(gcd[b][a], a) /\ Divides(gcd[b][a], b)
             /\ \E x, y \in Int : gcd[b][a] = a * x + b * y
  <2>0. a \div b \in Int /\ a = b * (a \div b) + (a % b)
    OBVIOUS
  <2>1. PICK q \in Int : a = b * q + (a % b)
    BY <2>0
  <2>2. b \in Nat \ {0} /\ b \in Int /\ a \in Int
    OBVIOUS
  <2>3. gcd[b][a] = IF a % b = 0 THEN b ELSE gcd[a % b][b]
    BY <2>2, GcdDefined
  <2>4. CASE a % b = 0
    <3>1. a = b * q /\ b = b * 1 /\ b = a * 0 + b * 1
      BY <2>1, <2>2, <2>4
    <3>2. gcd[b][a] = b
      BY <2>3, <2>4
    <3>3. Divides(b, a) /\ Divides(b, b)
      BY <2>2, <3>1 DEF Divides
    <3>4. \E x, y \in Int : b = a * x + b * y
      BY <3>1
    <3> QED BY <2>2, <3>2, <3>3, <3>4
  <2>5. CASE a % b # 0
    <3> DEFINE r == a % b
               d == gcd[r][b]
    <3>1. r \in 1..(b - 1)
      BY <2>2, <2>5, Remainder
    <3> HIDE DEF r
    <3>2. r \notin T
      BY <1>1, <2>2, <3>1
    <3>3. /\ d \in Nat \ {0} /\ Divides(d, b) /\ Divides(d, r)
          /\ \E x, y \in Int : d = b * x + r * y
      <4>1. P(r)
        BY <3>1, <3>2
      <4> QED BY <2>2, <4>1 DEF P, d
    <3> HIDE DEF d
    <3>4. PICK i \in Int, j \in Int : b = d * i /\ r = d * j
      BY <3>3 DEF Divides
    <3>5. PICK x \in Int, y \in Int : d = b * x + r * y
      BY <3>3
    <3>6. a = b * q + r
      BY <2>1 DEF r
    <3>7. a = d * (i * q + j)
      <4>1. d * (i * q + j) = (d * i) * q + d * j
        BY <3>3
      <4> QED BY <3>4, <3>6, <4>1
    <3>8. d = a * y + b * (x - q * y)
      BY <2>2, <3>1, <3>3, <3>5, <3>6
    <3>9. i * q + j \in Int /\ x - q * y \in Int
      OBVIOUS
    <3>10. gcd[b][a] = d
      BY <2>3, <2>5 DEF d, r
    <3> QED BY <3>3, <3>4, <3>7, <3>8, <3>9, <3>10 DEF Divides
  <2> QED BY <2>4, <2>5
<1> QED BY <1>2 DEF P

\* Zero is the only multiple of n between -n and n.
LEMMA NoMultipleBetween ==
  ASSUME NEW n \in Nat \ {0}, NEW t \in Int, -n < n * t, n * t < n
  PROVE  t = 0
<1>1. CASE t >= 1
  <2>1. n * t >= n
    BY <1>1
  <2> QED BY <2>1
<1>2. CASE t <= -1
  <2>1. n * t <= -n
    <3>1. n * (-t) >= n
      BY <1>2
    <3> QED BY <3>1
  <2> QED BY <2>1
<1> QED BY <1>1, <1>2

\* A quotient and a remainder are the only ones.
LEMMA QuotientRemainder ==
  ASSUME NEW n \in Nat \ {0}, NEW q \in Int, NEW r \in 0..(n - 1), NEW z \in Int,
         z = n * q + r
  PROVE  z \div n = q /\ z % n = r
<1> DEFINE q1 == z \div n
           r1 == z % n
<1>1. q1 \in Int /\ r1 \in 0..(n - 1) /\ z = n * q1 + r1
  OBVIOUS
<1> HIDE DEF q1, r1
<1>2. n * (q - q1) = r1 - r
  BY <1>1
<1>3. q - q1 = 0
  BY <1>1, <1>2, NoMultipleBetween
<1>4. q = q1
  BY <1>1, <1>3
<1>5. n * q = n * q1
  BY <1>4
<1> QED BY <1>1, <1>4, <1>5 DEF q1, r1

LEMMA Division ==
  ASSUME NEW z \in Int, NEW n \in Nat \ {0}
  PROVE  z \div n \in Int /\ z % n \in 0..(n - 1) /\ z = n * (z \div n) + (z % n)
OBVIOUS

\* The remainder of z + m goes round at most once.
LEMMA RemainderOfSum ==
  ASSUME NEW n \in Nat \ {0}, NEW z \in Int, NEW m \in 0..(n - 1)
  PROVE  (z + m) % n = IF (z % n) + m >= n THEN (z % n) + m - n ELSE (z % n) + m
<1> DEFINE q == z \div n
           r == z % n
<1>1. q \in Int /\ r \in 0..(n - 1) /\ z = n * q + r
  BY Division
<1> HIDE DEF q, r
<1>2. CASE r + m >= n
  <2> DEFINE p == q + 1
             t == r + m - n
             w == z + m
  <2>1. w = n * p + t
    BY <1>1
  <2>2. t \in 0..(n - 1) /\ p \in Int /\ w \in Int
    BY <1>1, <1>2
  <2>3. w % n = t
    <3> HIDE DEF p, t, w
    <3> QED BY <2>1, <2>2, QuotientRemainder
  <2> QED BY <1>2, <2>3 DEF r
<1>3. CASE r + m < n
  <2>1. z + m = n * q + (r + m) /\ r + m \in 0..(n - 1) /\ z + m \in Int
    BY <1>1, <1>3
  <2>2. (z + m) % n = r + m
    BY <1>1, <2>1, QuotientRemainder
  <2>3. ~(r + m >= n)
    BY <1>1, <1>3
  <2> QED BY <2>2, <2>3 DEF r
<1> QED BY <1>1, <1>2, <1>3

\* n divides the difference of numbers with one remainder.
LEMMA SameRemainder ==
  ASSUME NEW n \in Nat \ {0}, NEW y \in Int, NEW z \in Int, y % n = z % n
  PROVE  Divides(n, y - z)
<1>1. /\ y \div n \in Int /\ y = n * (y \div n) + (y % n) /\ y % n \in Int
      /\ z \div n \in Int /\ z = n * (z \div n) + (z % n)
  BY Division
<1>2. y - z = n * ((y \div n) - (z \div n))
  BY <1>1
<1>3. (y \div n) - (z \div n) \in Int
  BY <1>1
<1> QED BY <1>2, <1>3 DEF Divides
-----------------------------------------------------------------------------
(* The places that permute_args() meets, cycle by cycle                         *)

LEMMA ExactQuotient ==
  ASSUME NEW n \in Nat \ {0}, NEW q \in Int, NEW z \in Int, z = n * q
  PROVE  z \div n = q /\ z % n = 0
<1>1. 0 \in 0..(n - 1) /\ z = n * q + 0
  OBVIOUS
<1> QED BY <1>1, QuotientRemainder

\* Blocks of nn and no arguments, g cycles of length L.
CycleSize(nn, no, n, g, L) ==
  /\ nn \in Nat \ {0} /\ no \in Nat \ {0} /\ n = nn + no
  /\ g = gcd[no][nn] /\ L = n \div g

\* What gcd() gives permute_args(): n = g * L, and cycles of length L come back.
LEMMA Cycles ==
  ASSUME NEW nn, NEW no, NEW n, NEW g, NEW L, CycleSize(nn, no, n, g, L)
  PROVE  /\ g \in 1..no /\ L \in Nat \ {0} /\ n = g * L
         /\ Divides(n, L * no) /\ Divides(g, no) /\ Divides(g, nn)
         /\ \A d \in Int : Divides(n, d * no) => Divides(L, d)
<1>0. nn \in Nat \ {0} /\ no \in Nat \ {0} /\ n = nn + no
  BY DEF CycleSize
<1>1. /\ g \in Nat \ {0} /\ Divides(g, nn) /\ Divides(g, no)
      /\ \E x, y \in Int : g = nn * x + no * y
  BY <1>0, GcdDivides DEF CycleSize
<1>2. PICK i \in Int, j \in Int : nn = g * i /\ no = g * j
  BY <1>1 DEF Divides
<1>3. i >= 1 /\ j >= 1
  <2>1. ASSUME i <= 0 PROVE FALSE
    <3>1. g * i <= 0
      BY <1>1, <2>1
    <3> QED BY <1>0, <1>2, <3>1
  <2>2. ASSUME j <= 0 PROVE FALSE
    <3>1. g * j <= 0
      BY <1>1, <2>2
    <3> QED BY <1>0, <1>2, <3>1
  <2> QED BY <2>1, <2>2
<1>4. n = g * (i + j)
  <2>1. g * i + g * j = g * (i + j)
    BY <1>1
  <2> QED BY <1>0, <1>2, <2>1
<1>5. n \in Nat \ {0} /\ 0 \in 0..(g - 1) /\ i + j \in Int /\ n = g * (i + j) + 0
  BY <1>0, <1>1, <1>4
<1>6. L = i + j
  <2> DEFINE s == i + j
  <2>1. n = g * s /\ s \in Int /\ n \in Int
    BY <1>1, <1>5
  <2> HIDE DEF s
  <2>2. n \div g = s
    BY <1>1, <2>1, ExactQuotient
  <2>3. L = n \div g
    BY DEF CycleSize
  <2> QED BY <2>2, <2>3 DEF s
<1>7. L \in Nat \ {0} /\ n = g * L
  BY <1>3, <1>4, <1>6
<1>8. g <= no
  <2>1. g * j >= g
    BY <1>1, <1>3
  <2> QED BY <1>0, <1>2, <2>1
<1>9. Divides(n, L * no)
  <2>1. L * no = (g * L) * j
    <3>1. L * no = L * (g * j)
      BY <1>2
    <3>2. L * (g * j) = (g * L) * j
      BY <1>1, <1>7
    <3> QED BY <3>1, <3>2
  <2> QED BY <1>7, <2>1 DEF Divides
<1>10. ASSUME NEW d \in Int, Divides(n, d * no)
       PROVE  Divides(L, d)
  <2>1. PICK t \in Int : d * no = n * t
    BY <1>10 DEF Divides
  <2>2. PICK x \in Int, y \in Int : g = nn * x + no * y
    BY <1>1
  <2>3. g = n * x + no * (y - x)
    BY <1>0, <1>5, <2>2
  <2>4. g * d = g * (L * (x * d + t * (y - x)))
    <3>1. g * d = (n * x) * d + (d * no) * (y - x)
      <4> DEFINE z == y - x
                 p == n * x
      <4>1. p \in Int /\ z \in Int /\ g * d = (p + no * z) * d
        <5>1. p \in Int /\ z \in Int
          BY <1>5
        <5>2. g = p + no * z
          BY <2>3
        <5> QED BY <5>1, <5>2
      <4> HIDE DEF p, z
      <4>2. (p + no * z) * d = p * d + (d * no) * z
        BY <1>0, <4>1
      <4> QED BY <4>1, <4>2 DEF p, z
    <3>2. g * d = (n * x) * d + (n * t) * (y - x)
      BY <2>1, <3>1
    <3>3. g * d = n * (x * d + t * (y - x))
      BY <1>5, <3>2
    <3> DEFINE u == x * d + t * (y - x)
    <3>4. u \in Int
      OBVIOUS
    <3>5. g * d = n * u
      BY <3>3
    <3> HIDE DEF u
    <3>6. n * u = g * (L * u)
      BY <1>1, <1>7, <3>4
    <3> QED BY <3>5, <3>6 DEF u
  <2> DEFINE u == x * d + t * (y - x)
  <2>5. u \in Int
    OBVIOUS
  <2>6. g * d = g * (L * u)
    BY <2>4
  <2> HIDE DEF u
  <2>7. d = L * u
    <3> DEFINE w == L * u
    <3>1. w \in Int /\ g * d = g * w
      BY <1>7, <2>5, <2>6
    <3> HIDE DEF w
    <3>2. g * (d - w) = 0
      BY <1>1, <3>1
    <3>3. d - w \in Int /\ -g < g * (d - w) /\ g * (d - w) < g
      BY <1>1, <3>1, <3>2
    <3>4. d - w = 0
      BY <1>1, <3>3, NoMultipleBetween
    <3> QED BY <3>1, <3>4 DEF w
  <2> QED BY <2>5, <2>7 DEF Divides
<1>11. \A d \in Int : Divides(n, d * no) => Divides(L, d)
  BY <1>10
<1>12. g \in 1..no
  BY <1>0, <1>1, <1>8
<1> QED BY <1>1, <1>7, <1>9, <1>11, <1>12, Zenon

LEMMA SmallRemainder ==
  ASSUME NEW n \in Nat \ {0}, NEW z \in 0..(n - 1)
  PROVE  z % n = z
<1> DEFINE q == 0
<1>1. q \in Int /\ z \in Int /\ z = n * q + z
  OBVIOUS
<1> HIDE DEF q
<1> QED BY <1>1, QuotientRemainder

\* Where, counted from the start of the two blocks, the j-th exchange of cycle c is.
At(nn, no, c, j) == (nn + c + j * no) % (nn + no)

\* Where the steps of cycle c lead: into the blocks, and by one step further round.
LEMMA AtOffsets ==
  ASSUME NEW nn, NEW no, NEW n, NEW g, NEW L, CycleSize(nn, no, n, g, L),
         NEW c \in 0..(g - 1)
  PROVE  /\ \A j \in Nat : /\ At(nn, no, c, j) \in 0..(n - 1)
                           /\ At(nn, no, c, j + 1) =
                                IF At(nn, no, c, j) >= nn THEN At(nn, no, c, j) - nn
                                ELSE At(nn, no, c, j) + no
         /\ At(nn, no, c, 0) = nn + c /\ At(nn, no, c, L) = nn + c
<1>0. /\ n \in Nat \ {0} /\ no \in 0..(n - 1) /\ nn \in Nat \ {0} /\ no \in Nat \ {0}
      /\ n = nn + no
  BY DEF CycleSize
<1>1. /\ g \in 1..no /\ L \in Nat \ {0} /\ Divides(n, L * no)
      /\ c \in Int /\ nn + c \in 0..(n - 1)
  <2>1. g \in 1..no /\ L \in Nat \ {0} /\ Divides(n, L * no)
    BY Cycles
  <2> QED BY <1>0, <2>1
<1>2. ASSUME NEW j \in Nat
      PROVE  /\ At(nn, no, c, j) \in 0..(n - 1)
             /\ At(nn, no, c, j + 1) =
                  IF At(nn, no, c, j) >= nn THEN At(nn, no, c, j) - nn
                  ELSE At(nn, no, c, j) + no
  <2> DEFINE z == nn + c + j * no
             y == nn + c + (j + 1) * no
  <2>1. z \in Int /\ y = z + no
    BY <1>0, <1>1
  <2>2. At(nn, no, c, j) = z % n /\ At(nn, no, c, j + 1) = y % n
    BY <1>0 DEF At
  <2> HIDE DEF z, y
  <2>3. (z + no) % n = IF (z % n) + no >= n THEN (z % n) + no - n ELSE (z % n) + no
    BY <1>0, <2>1, RemainderOfSum
  <2>4. z % n \in 0..(n - 1)
    BY <1>0, <2>1, Division
  <2> DEFINE a == At(nn, no, c, j)
             b == At(nn, no, c, j + 1)
  <2>5. a = z % n /\ b = (z + no) % n
    BY <2>1, <2>2
  <2> HIDE DEF a, b
  <2>6. a \in 0..(n - 1) /\ b = IF a >= nn THEN a - nn ELSE a + no
    BY <1>0, <2>3, <2>4, <2>5
  <2> QED BY <2>6 DEF a, b
<1>3. At(nn, no, c, 0) = nn + c
  <2> DEFINE z == nn + c
  <2>1. z \in 0..(n - 1)
    BY <1>1
  <2> HIDE DEF z
  <2>2. z % n = z
    BY <1>0, <2>1, SmallRemainder
  <2>3. nn + c + 0 * no = z
    BY <1>0, <1>1 DEF z
  <2> QED BY <1>0, <2>2, <2>3 DEF At, z
<1>4. At(nn, no, c, L) = nn + c
  <2>1. PICK i \in Int : L * no = n * i
    BY <1>1 DEF Divides
  <2> DEFINE z == nn + c + L * no
             r == nn + c
  <2>2. z = n * i + r /\ r \in 0..(n - 1) /\ z \in Int
    BY <1>0, <1>1, <2>1
  <2> HIDE DEF z, r
  <2>3. z % n = r
    BY <1>0, <2>2, QuotientRemainder
  <2> QED BY <1>0, <2>3 DEF At, z, r
<1> QED BY <1>2, <1>3, <1>4

\* No place is met twice, neither in one cycle nor in two.
LEMMA AtInjective ==
  ASSUME NEW nn, NEW no, NEW n, NEW g, NEW L, CycleSize(nn, no, n, g, L),
         NEW c \in 0..(g - 1), NEW d \in 0..(g - 1), NEW i \in 1..L, NEW j \in 1..L,
         At(nn, no, c, i) = At(nn, no, d, j)
  PROVE  c = d /\ i = j
<1>1. /\ g \in 1..no /\ L \in Nat \ {0} /\ n = g * L /\ Divides(g, no)
      /\ \A k \in Int : Divides(n, k * no) => Divides(L, k)
  BY Cycles
<1>2. n \in Nat \ {0} /\ n \in Int /\ nn \in Nat /\ no \in Nat /\ n = nn + no
  BY DEF CycleSize
<1>3. PICK t \in Int : (c - d) + (i - j) * no = n * t
  <2> DEFINE y == nn + c + i * no
             z == nn + d + j * no
  <2>1. y % n = z % n
    BY <1>2 DEF At
  <2>2. y \in Int /\ z \in Int /\ y - z = (c - d) + (i - j) * no
    BY <1>1, <1>2
  <2> HIDE DEF y, z
  <2>3. Divides(n, y - z)
    BY <1>2, <2>1, <2>2, SameRemainder
  <2> QED BY <2>2, <2>3 DEF Divides
<1>4. c = d
  <2>1. PICK h \in Int : no = g * h
    BY <1>1 DEF Divides
  <2> DEFINE w == L * t - (i - j) * h
  <2>2. w \in Int
    BY <1>1
  <2>3. c - d = g * w
    <3>1. n * t = g * (L * t)
      <4>1. (g * L) * t = g * (L * t)
        BY <1>1
      <4> QED BY <1>1, <4>1
    <3>2. (i - j) * no = g * ((i - j) * h)
      <4> DEFINE k == i - j
      <4>1. k \in Int
        BY <1>1
      <4> HIDE DEF k
      <4>2. k * (g * h) = g * (k * h)
        BY <1>1, <4>1
      <4> QED BY <2>1, <4>2 DEF k
    <3> DEFINE p == L * t
               k == (i - j) * h
    <3>3. p \in Int /\ k \in Int
      BY <1>1
    <3>4. c - d = g * p - g * k
      BY <1>1, <1>2, <1>3, <3>1, <3>2
    <3> HIDE DEF p, k
    <3>5. c - d = g * (p - k)
      BY <1>1, <3>3, <3>4
    <3> QED BY <3>5 DEF p, k
  <2> HIDE DEF w
  <2>4. -g < g * w /\ g * w < g
    BY <1>1, <2>3
  <2>5. w = 0
    BY <1>1, <2>2, <2>4, NoMultipleBetween
  <2>6. c - d = 0
    BY <1>1, <2>3, <2>5
  <2> QED BY <1>1, <2>6
<1>5. i = j
  <2> DEFINE k == i - j
  <2>1. k \in Int /\ k * no = n * t
    BY <1>1, <1>2, <1>3, <1>4
  <2> HIDE DEF k
  <2>2. Divides(L, k)
    BY <1>1, <2>1 DEF Divides
  <2>3. PICK w \in Int : k = L * w
    BY <2>2 DEF Divides
  <2>4. -L < L * w /\ L * w < L
    BY <1>1, <2>3 DEF k
  <2>5. w = 0
    BY <1>1, <2>4, NoMultipleBetween
  <2> QED BY <1>1, <2>3, <2>5 DEF k
<1> QED BY <1>4, <1>5

\* Where the k-th exchange is.
Spot(s, e, o, L, k) == s + At(e - s, o - e, (k - 1) \div L, ((k - 1) % L) + 1)

\* The two blocks s to e - 1 and e to o - 1, and the length of the cycles.
Blocks(s, e, o, L) ==
  /\ s \in Int /\ e \in Int /\ o \in Int /\ s < e /\ e < o
  /\ L = (o - s) \div gcd[o - e][e - s]

\* The cycles are as many as the greatest common divisor, and of one length.
LEMMA CycleOf ==
  ASSUME NEW s, NEW e, NEW o, NEW L, Blocks(s, e, o, L)
  PROVE  /\ L \in Nat \ {0}
         /\ \E g \in 1..(o - e) :
              /\ g = gcd[o - e][e - s] /\ o - s = g * L
              /\ \A k \in 1..(o - s) : (k - 1) \div L \in 0..(g - 1)
         /\ \A k \in 1..(o - s) : /\ k - 1 = L * ((k - 1) \div L) + ((k - 1) % L)
                                  /\ ((k - 1) % L) \in 0..(L - 1)
<1> DEFINE nn == e - s
           no == o - e
           n  == o - s
           g  == gcd[no][nn]
<1>1. nn \in Nat \ {0} /\ no \in Nat \ {0} /\ n = nn + no /\ n \in Nat
  BY DEF Blocks
<1>2. L = n \div g
  BY DEF Blocks
<1> HIDE DEF nn, no, n
<1>3. g \in 1..no /\ L \in Nat \ {0} /\ n = g * L
  <2>1. CycleSize(nn, no, n, g, L)
    BY <1>1, <1>2 DEF CycleSize
  <2> HIDE DEF g
  <2> QED BY <2>1, Cycles
<1> HIDE DEF g
<1>4. ASSUME NEW k \in 1..n
      PROVE  /\ k - 1 = L * ((k - 1) \div L) + ((k - 1) % L)
             /\ ((k - 1) % L) \in 0..(L - 1) /\ (k - 1) \div L \in 0..(g - 1)
  <2> DEFINE z == k - 1
             q == z \div L
             r == z % L
  <2>1. z \in 0..(n - 1) /\ z \in Int
    BY <1>1
  <2> HIDE DEF z
  <2>2. q \in Int /\ r \in 0..(L - 1) /\ z = L * q + r
    BY <1>3, <2>1, Division
  <2> HIDE DEF q, r
  <2>3. q < g
    <3>1. ASSUME q >= g PROVE FALSE
      <4>1. L * q >= L * g
        BY <1>3, <2>2, <3>1
      <4> QED BY <1>1, <1>3, <2>1, <2>2, <4>1
    <3> QED BY <1>3, <2>2, <3>1
  <2>4. q >= 0
    <3>1. ASSUME q <= -1 PROVE FALSE
      <4>1. L * q <= -L
        <5>1. L * (-q) >= L
          BY <1>3, <2>2, <3>1
        <5> QED BY <1>3, <2>2, <5>1
      <4> QED BY <1>1, <1>3, <2>1, <2>2, <4>1
    <3> QED BY <2>2, <3>1
  <2>5. q \in 0..(g - 1)
    BY <1>3, <2>2, <2>3, <2>4
  <2> QED BY <2>2, <2>5 DEF z, q, r
<1> QED BY <1>3, <1>4 DEF nn, no, n, g

\* What the k-th assignment of the two nested loops reads and writes.
LEMMA SpotFacts ==
  ASSUME NEW s, NEW e, NEW o, NEW L, Blocks(s, e, o, L)
  PROVE  /\ \A k \in 1..(o - s) : /\ Spot(s, e, o, L, k) \in s..(o - 1)
                                  /\ e + ((k - 1) \div L) \in e..(o - 1)
         /\ \A i, k \in 1..(o - s) : Spot(s, e, o, L, i) = Spot(s, e, o, L, k) => i = k
<1> DEFINE nn == e - s
           no == o - e
           n  == o - s
           g  == gcd[no][nn]
<1>1. nn \in Nat \ {0} /\ no \in Nat \ {0} /\ n = nn + no
  BY DEF Blocks
<1>2. L = n \div g
  BY DEF Blocks
<1>3. /\ L \in Nat \ {0} /\ g \in 1..no
      /\ \A k \in 1..n : /\ (k - 1) \div L \in 0..(g - 1)
                         /\ k - 1 = L * ((k - 1) \div L) + ((k - 1) % L)
                         /\ ((k - 1) % L) + 1 \in 1..L
  BY CycleOf
<1>4. s \in Int /\ e \in Int /\ o \in Int /\ n = o - s /\ no = o - e
  BY DEF Blocks
<1>5. \A k : Spot(s, e, o, L, k) = s + At(nn, no, (k - 1) \div L, ((k - 1) % L) + 1)
  BY DEF Spot
<1> HIDE DEF nn, no, n
<1>9. CycleSize(nn, no, n, g, L)
  BY <1>1, <1>2 DEF CycleSize
<1> HIDE DEF g
<1>6. ASSUME NEW k \in 1..n
      PROVE  At(nn, no, (k - 1) \div L, ((k - 1) % L) + 1) \in 0..(n - 1)
  <2> DEFINE c == (k - 1) \div L
             j == ((k - 1) % L) + 1
  <2>1. c \in 0..(g - 1) /\ j \in Nat
    BY <1>3
  <2> HIDE DEF c, j
  <2>2. At(nn, no, c, j) \in 0..(n - 1)
    BY <1>9, <2>1, AtOffsets
  <2> QED BY <2>2 DEF c, j
<1>7. ASSUME NEW k \in 1..n
      PROVE  /\ Spot(s, e, o, L, k) \in s..(o - 1)
             /\ e + ((k - 1) \div L) \in e..(o - 1)
  <2> DEFINE a == At(nn, no, (k - 1) \div L, ((k - 1) % L) + 1)
             c == (k - 1) \div L
  <2>1. a \in 0..(n - 1) /\ c \in 0..(g - 1) /\ Spot(s, e, o, L, k) = s + a
    BY <1>3, <1>5, <1>6
  <2> HIDE DEF a, c
  <2>2. s + a \in s..(o - 1) /\ e + c \in e..(o - 1)
    BY <1>1, <1>3, <1>4, <2>1
  <2> QED BY <2>1, <2>2 DEF c
<1>8. ASSUME NEW i \in 1..n, NEW k \in 1..n, Spot(s, e, o, L, i) = Spot(s, e, o, L, k)
      PROVE  i = k
  <2> DEFINE c  == (i - 1) \div L
             d  == (k - 1) \div L
             ri == ((i - 1) % L) + 1
             rk == ((k - 1) % L) + 1
  <2>1. /\ c \in 0..(g - 1) /\ d \in 0..(g - 1) /\ ri \in 1..L /\ rk \in 1..L
        /\ i - 1 = L * c + (ri - 1) /\ k - 1 = L * d + (rk - 1)
    BY <1>3
  <2>2. At(nn, no, c, ri) \in 0..(n - 1) /\ At(nn, no, d, rk) \in 0..(n - 1)
    BY <1>6
  <2>3. s + At(nn, no, c, ri) = s + At(nn, no, d, rk)
    BY <1>5, <1>8
  <2> HIDE DEF c, d, ri, rk
  <2>4. At(nn, no, c, ri) = At(nn, no, d, rk)
    BY <1>4, <2>2, <2>3
  <2>5. c = d /\ ri = rk
    BY <1>9, <2>1, <2>4, AtInjective
  <2>6. i - 1 = k - 1
    BY <2>1, <2>5
  <2> QED BY <2>6
<1> QED BY <1>7, <1>8 DEF n

\* The exchanges meet every place of the two blocks.
LEMMA SpotsCover ==
  ASSUME NEW s, NEW e, NEW o, NEW L, Blocks(s, e, o, L), NEW p \in s..(o - 1)
  PROVE  \E k \in 1..(o - s) : Spot(s, e, o, L, k) = p
<1> DEFINE f == [k \in 1..(o - s) |-> Spot(s, e, o, L, k)]
<1>1. s \in Int /\ e \in Int /\ o \in Int /\ o - s \in Nat /\ o - 1 \in Int /\ s <= o - 1
  BY DEF Blocks
<1>2. IsFiniteSet(1..(o - s)) /\ Cardinality(1..(o - s)) = o - s
  BY <1>1, FS_Interval
<1>3. IsFiniteSet(s..(o - 1)) /\ Cardinality(s..(o - 1)) = o - s
  <2>1. /\ IsFiniteSet(s..(o - 1))
        /\ Cardinality(s..(o - 1)) = IF s > o - 1 THEN 0 ELSE (o - 1) - s + 1
    BY <1>1, FS_Interval
  <2> QED BY <1>1, <2>1
<1>4. f \in Injection(1..(o - s), s..(o - 1))
  BY SpotFacts DEF Injection, IsInjective
<1> HIDE DEF f
<1>5. f \in Surjection(1..(o - s), s..(o - 1))
  BY <1>2, <1>3, <1>4, FS_Injection
<1> QED BY <1>5 DEF Surjection, f

\* The k-th exchange is the one numbered r of cycle c, both counted from 0.
InCycle(k, L, c, r) == /\ k \in Int /\ L \in Nat \ {0} /\ c \in Int /\ r \in 0..(L - 1)
                       /\ k - 1 = L * c + r

NrOfCycles(s, e, o, L, g) ==
  g \in 1..(o - e) /\ g = gcd[o - e][e - s] /\ o - s = g * L

\* Assignment k belongs to step r of cycle c.
LEMMA CycleNumber ==
  ASSUME NEW k, NEW L, NEW c, NEW r, InCycle(k, L, c, r)
  PROVE  (k - 1) \div L = c /\ (k - 1) % L = r
<1> DEFINE z == k - 1
<1>1. z \in Int /\ L \in Nat \ {0} /\ c \in Int /\ r \in 0..(L - 1) /\ z = L * c + r
  BY DEF InCycle
<1> HIDE DEF z
<1>2. z \div L = c /\ z % L = r
  BY <1>1, QuotientRemainder
<1> QED BY <1>2 DEF z

\* The assignments next to k are of the steps next to r.
LEMMA NextRemainder ==
  ASSUME NEW L, NEW c, NEW r, NEW k, InCycle(k, L, c, r)
  PROVE  /\ r + 1 < L => k % L = r + 1
         /\ r > 0 => ((k - 1) - 1) \div L = c /\ ((k - 1) - 1) % L = r - 1
<1>0. /\ k \in Int /\ L \in Nat \ {0} /\ c \in Int /\ r \in 0..(L - 1)
      /\ k - 1 = L * c + r
  BY DEF InCycle
<1>1. ASSUME r + 1 < L PROVE k % L = r + 1
  <2> DEFINE t == r + 1
  <2>1. t \in 0..(L - 1) /\ k = L * c + t
    BY <1>0, <1>1
  <2> HIDE DEF t
  <2>2. k % L = t
    BY <1>0, <2>1, QuotientRemainder
  <2> QED BY <2>2 DEF t
<1>2. ASSUME r > 0
      PROVE  ((k - 1) - 1) \div L = c /\ ((k - 1) - 1) % L = r - 1
  <2> DEFINE t == r - 1
             h == k - 1
  <2>1. InCycle(h, L, c, t)
    BY <1>0, <1>2 DEF InCycle
  <2> HIDE DEF t, h
  <2>2. (h - 1) \div L = c /\ (h - 1) % L = t
    BY <2>1, CycleNumber
  <2> QED BY <2>2 DEF t, h
<1> QED BY <1>1, <1>2

\* A step of the loop lands in the block that its argument goes to.
LEMMA Landing ==
  ASSUME NEW s \in Int, NEW e \in Int, NEW o \in Int, NEW a \in Int, NEW b,
         b = IF a >= e - s THEN a - (e - s) ELSE a + (o - e),
         NEW from, from = s + a
  PROVE  s + b = IF from >= e THEN from - (e - s) ELSE from + (o - e)
OBVIOUS

\* The last exchange of a cycle is where the cycle started.
LEMMA CycleEnds ==
  ASSUME NEW s, NEW e, NEW o, NEW L, Blocks(s, e, o, L), NEW k \in 1..(o - s),
         NEW g, NrOfCycles(s, e, o, L, g), NEW c \in 0..(g - 1), NEW r,
         InCycle(k, L, c, r)
  PROVE  /\ L * c + L \in k..(o - s) /\ Spot(s, e, o, L, L * c + L) = e + c
         /\ k % L = 0 <=> k = L * c + L
<1> DEFINE m == L * c + L
<1>1. /\ c \in Int /\ r \in Int /\ r \in 0..(L - 1) /\ g \in Nat \ {0}
      /\ g = gcd[o - e][e - s] /\ o - s = g * L
  BY DEF Blocks, InCycle, NrOfCycles
<1>2. L \in Nat \ {0} /\ k - 1 = L * c + r
  BY DEF InCycle
<1>3. /\ s \in Int /\ e \in Int /\ o \in Int /\ k \in Int
      /\ e - s \in Nat \ {0} /\ o - e \in Nat \ {0} /\ o - s = (e - s) + (o - e)
      /\ L = (o - s) \div g /\ g \in 1..(o - e)
  BY <1>1 DEF Blocks, NrOfCycles
<1>4. m = L * c + L /\ m \in Int
  BY <1>1, <1>2
<1>5. m \in k..(o - s)
  <2>1. k <= m
    BY <1>2, <1>3, <1>4, <1>1
  <2>2. L * c + L <= L * g
    <3>1. c + 1 <= g
      BY <1>1
    <3>2. L * (c + 1) <= L * g
      BY <1>1, <1>2, <3>1
    <3> QED BY <1>1, <1>2, <3>2
  <2>3. m <= o - s
    BY <1>1, <1>2, <1>3, <2>2
  <2> QED BY <1>3, <1>4, <2>1, <2>3
<1>6. (m - 1) \div L = c /\ (m - 1) % L = L - 1
  <2> DEFINE z == m - 1
             t == L - 1
  <2>1. z = L * c + t /\ t \in 0..(L - 1) /\ z \in Int /\ c \in Int
    BY <1>1, <1>2, <1>4
  <2> HIDE DEF z, t
  <2>2. z \div L = c /\ z % L = t
    BY <1>2, <2>1, QuotientRemainder
  <2> QED BY <2>2 DEF z, t
<1>7. Spot(s, e, o, L, m) = e + c
  <2>1. At(e - s, o - e, c, L) = (e - s) + c
    <3> DEFINE n  == o - s
               nn == e - s
               no == o - e
    <3>1. /\ nn \in Nat \ {0} /\ no \in Nat \ {0} /\ n = nn + no /\ g = gcd[no][nn]
          /\ L = n \div g
      BY <1>1, <1>3
    <3> HIDE DEF nn, no, n
    <3>2. At(nn, no, c, L) = nn + c
      BY <3>1, AtOffsets DEF CycleSize
    <3> QED BY <3>2 DEF nn, no
  <2>2. Spot(s, e, o, L, m) = s + At(e - s, o - e, c, (L - 1) + 1)
    <3> HIDE DEF m
    <3> QED BY <1>6 DEF Spot
  <2>3. (L - 1) + 1 = L
    BY <1>2
  <2> QED BY <1>1, <1>3, <2>1, <2>2, <2>3
<1>8. k % L = 0 <=> k = m
  <2>1. CASE r = L - 1
    <3>1. k = L * (c + 1) /\ c + 1 \in Int /\ k = m
      BY <1>1, <1>2, <1>3, <2>1
    <3>2. k % L = 0
      <4> DEFINE d == c + 1
      <4>1. d \in Int /\ k = L * d
        BY <3>1
      <4> HIDE DEF d
      <4> QED BY <1>2, <1>3, <4>1, ExactQuotient
    <3> QED BY <3>1, <3>2
  <2>2. CASE r # L - 1
    <3>1. r + 1 < L
      BY <1>1, <1>2, <2>2
    <3>2. k % L = r + 1
      BY <3>1, NextRemainder
    <3>3. k # m
      BY <1>1, <1>2, <1>4, <3>1
    <3>4. r + 1 # 0
      BY <1>1
    <3> QED BY <3>2, <3>3, <3>4
  <2> QED BY <2>1, <2>2
<1> QED BY <1>5, <1>7, <1>8

\* An assignment writes where its step leads to, after what stood there was read.
LEMMA SpotSteps ==
  ASSUME NEW s, NEW e, NEW o, NEW L, Blocks(s, e, o, L), NEW k \in 1..(o - s),
         NEW g, NrOfCycles(s, e, o, L, g), NEW c \in 0..(g - 1), NEW r,
         InCycle(k, L, c, r),
         NEW from, from = IF r = 0 THEN e + c ELSE Spot(s, e, o, L, k - 1)
  PROVE  /\ Spot(s, e, o, L, k) = IF from >= e THEN from - (e - s) ELSE from + (o - e)
         /\ r # 0 => k - 1 \in 1..(o - s) /\ (k - 1) - 1 = L * c + (r - 1)
<1> DEFINE nn == e - s
           no == o - e
<1>0. g \in 1..(o - e) /\ g = gcd[o - e][e - s]
  BY DEF NrOfCycles
<1>1. c \in Int /\ r \in Nat /\ L \in Nat \ {0} /\ r \in 0..(L - 1)
  BY DEF InCycle
<1>2. (k - 1) \div L = c /\ (k - 1) % L = r /\ k - 1 \in Int
  BY CycleNumber
<1>3. /\ s \in Int /\ e \in Int /\ o \in Int /\ k \in Int /\ e = s + nn
      /\ nn \in Nat \ {0} /\ no \in Nat \ {0} /\ o - s = nn + no
      /\ L = (o - s) \div g
  BY <1>0 DEF Blocks
<1>4. /\ At(nn, no, c, r) \in 0..(nn + no - 1) /\ At(nn, no, c, 0) = nn + c
      /\ At(nn, no, c, r + 1) = IF At(nn, no, c, r) >= nn THEN At(nn, no, c, r) - nn
                                ELSE At(nn, no, c, r) + no
  <2>1. /\ \A j \in Nat : /\ At(nn, no, c, j) \in 0..((o - s) - 1)
                           /\ At(nn, no, c, j + 1) =
                                IF At(nn, no, c, j) >= nn THEN At(nn, no, c, j) - nn
                                ELSE At(nn, no, c, j) + no
        /\ At(nn, no, c, 0) = nn + c
    <3> DEFINE n == o - s
    <3>1. /\ nn \in Nat \ {0} /\ no \in Nat \ {0} /\ n = nn + no /\ g = gcd[no][nn]
          /\ L = n \div g
      BY <1>0, <1>3
    <3> HIDE DEF nn, no, n
    <3>2. /\ \A j \in Nat : /\ At(nn, no, c, j) \in 0..(n - 1)
                             /\ At(nn, no, c, j + 1) =
                                  IF At(nn, no, c, j) >= nn THEN At(nn, no, c, j) - nn
                                  ELSE At(nn, no, c, j) + no
          /\ At(nn, no, c, 0) = nn + c
      BY <3>1, AtOffsets DEF CycleSize
    <3> QED BY <3>2 DEF n
  <2> QED BY <1>1, <1>3, <2>1
<1>5. Spot(s, e, o, L, k) = s + At(nn, no, c, r + 1)
  BY <1>2 DEF Spot
<1>6. from = s + At(nn, no, c, r)
      /\ (r # 0 => k - 1 \in 1..(o - s) /\ (k - 1) - 1 = L * c + (r - 1))
  <2>1. CASE r = 0
    BY <1>1, <1>3, <1>4, <2>1
  <2>2. CASE r # 0
    <3>1. r > 0
      BY <1>1, <2>2
    <3>2. ((k - 1) - 1) \div L = c /\ ((k - 1) - 1) % L = r - 1
      BY <3>1, NextRemainder
    <3>3. (r - 1) + 1 = r
      BY <1>1
    <3>4. Spot(s, e, o, L, k - 1) = s + At(nn, no, c, r)
      BY <3>2, <3>3 DEF Spot
    <3>5. k - 1 \in 1..(o - s)
      <4>1. L * c >= 0
        BY <1>0, <1>1, <1>3
      <4>2. k - 1 = L * c + r
        BY DEF InCycle
      <4> QED BY <1>1, <1>3, <2>2, <4>1, <4>2
    <3>6. (k - 1) - 1 = L * c + (r - 1)
      BY <1>1, <1>3 DEF InCycle
    <3> QED BY <2>2, <3>4, <3>5, <3>6
  <2> QED BY <2>1, <2>2
<1>7. Spot(s, e, o, L, k) = IF from >= e THEN from - (e - s) ELSE from + (o - e)
  <2> DEFINE a == At(nn, no, c, r)
             b == At(nn, no, c, r + 1)
  <2>1. a \in Int /\ b = IF a >= nn THEN a - nn ELSE a + no
    BY <1>3, <1>4
  <2>2. from = s + a /\ Spot(s, e, o, L, k) = s + b
    BY <1>5, <1>6
  <2> HIDE DEF a, b
  <2>3. b = IF a >= e - s THEN a - (e - s) ELSE a + (o - e)
    BY <2>1
  <2>4. s + b = IF from >= e THEN from - (e - s) ELSE from + (o - e)
    BY <1>3, <2>1, <2>2, <2>3, Landing
  <2> QED BY <2>2, <2>4
<1> QED BY <1>6, <1>7
-----------------------------------------------------------------------------
(* The exchanges of permute_args()                                              *)

\* What the exchanges are, one after the other.
LEMMA ExchangesDefined ==
  ASSUME NEW s, NEW e, NEW o, NEW v, o - s \in Nat
  PROVE  LET m == Exchanges(s, e, o, v) IN
         /\ m[0] = [argv |-> v, pos |-> e]
         /\ \A k \in 1..(o - s) : m[k] = Exchange(s, e, o, k, m[k - 1])
<1> DEFINE Upto(m, n) == m = [k \in 0..n |->
                           IF k = 0 THEN [argv |-> v, pos |-> e]
                           ELSE Exchange(s, e, o, k, m[k - 1])]
           S == {n \in Nat : \E m : Upto(m, n)}
<1>1. 0 \in S
  <2> DEFINE m == [k \in 0..0 |-> [argv |-> v, pos |-> e]]
  <2>1. Upto(m, 0)
    OBVIOUS
  <2> HIDE DEF m, Upto
  <2> QED BY <2>1
<1>2. ASSUME NEW n \in Nat, n \in S
      PROVE  n + 1 \in S
  <2>1. PICK m : Upto(m, n)
    BY <1>2
  <2> DEFINE last == Exchange(s, e, o, n + 1, m[n])
             h == [k \in 0..(n + 1) |-> IF k = n + 1 THEN last ELSE m[k]]
  <2>2. \A k \in 0..n : h[k] = m[k]
    OBVIOUS
  <2>3. ASSUME NEW k \in 0..(n + 1)
        PROVE  h[k] = IF k = 0 THEN [argv |-> v, pos |-> e]
                      ELSE Exchange(s, e, o, k, h[k - 1])
    <3>1. CASE k = n + 1
      <4>1. h[k] = last /\ k # 0 /\ k - 1 = n
        BY <3>1
      <4>2. h[k - 1] = m[n]
        BY <2>2, <4>1
      <4> HIDE DEF h
      <4> QED BY <3>1, <4>1, <4>2
    <3>2. CASE k # n + 1
      <4>1. k \in 0..n
        BY <3>2
      <4>2. m[k] = IF k = 0 THEN [argv |-> v, pos |-> e] ELSE Exchange(s, e, o, k, m[k - 1])
        BY <2>1, <4>1
      <4>3. k # 0 => h[k - 1] = m[k - 1]
        <5>1. k # 0 => k - 1 \in 0..n
          BY <4>1
        <5> QED BY <2>2, <5>1
      <4>4. h[k] = m[k]
        BY <2>2, <4>1
      <4> HIDE DEF h
      <4> QED BY <4>2, <4>3, <4>4
    <3> QED BY <3>1, <3>2
  <2>4. h = [k \in 0..(n + 1) |-> h[k]]
    OBVIOUS
  <2> HIDE DEF h
  <2>5. Upto(h, n + 1)
    BY <2>3, <2>4
  <2> HIDE DEF Upto
  <2> QED BY <2>5
<1> HIDE DEF S
<1>3. o - s \in S
  BY <1>1, <1>2, SetInduction
<1> DEFINE m == Exchanges(s, e, o, v)
<1>4. Upto(m, o - s)
  <2>1. \E h : Upto(h, o - s)
    BY <1>3 DEF S
  <2>2. m = CHOOSE h : Upto(h, o - s)
    BY DEF Exchanges
  <2> HIDE DEF Upto, m
  <2> QED BY <2>1, <2>2
<1> HIDE DEF m
<1>5. 0 \in 0..(o - s) /\ \A k \in 1..(o - s) : k \in 0..(o - s) /\ k # 0
  OBVIOUS
<1>6. m[0] = [argv |-> v, pos |-> e]
  BY <1>4, <1>5
<1>7. ASSUME NEW k \in 1..(o - s)
      PROVE  m[k] = Exchange(s, e, o, k, m[k - 1])
  BY <1>4, <1>5
<1> QED BY <1>6, <1>7 DEF m

\* Where what permute_args() puts at p comes from.
Source(s, e, o, p) == IF p < s + (o - e) THEN p + (e - s) ELSE p - (o - e)

\* After k exchanges: the places met so far have what they are to have, and the
\* start of a cycle that is not done holds what was at the last of them.
Moved(s, e, o, L, v, k, w) ==
  /\ DOMAIN w = DOMAIN v /\ w = [p \in DOMAIN v |-> w[p]]
  /\ \A i \in 1..k : w[Spot(s, e, o, L, i)] = v[Source(s, e, o, Spot(s, e, o, L, i))]
  /\ k >= 1 /\ k % L # 0 => w[e + ((k - 1) \div L)] = v[Spot(s, e, o, L, k)]
  /\ \A p \in DOMAIN v :
       /\ \A i \in 1..k : p # Spot(s, e, o, L, i)
       /\ k >= 1 /\ k % L # 0 => p # e + ((k - 1) \div L)
       => w[p] = v[p]

\* What exchange K, the one numbered r of cycle c, does.
LEMMA ExchangeMoves ==
  ASSUME NEW s, NEW e, NEW o, NEW L, Blocks(s, e, o, L),
         NEW v, s..(o - 1) \subseteq DOMAIN v, NEW k \in Nat, k + 1 \in 1..(o - s),
         NEW w, Moved(s, e, o, L, v, k, w),
         NEW last, last.argv = w, k >= 1 => last.pos = Spot(s, e, o, L, k)
  PROVE  LET next == Exchange(s, e, o, k + 1, last) IN
         /\ next.pos = Spot(s, e, o, L, k + 1)
         /\ Moved(s, e, o, L, v, k + 1, next.argv)
<1> DEFINE c == k \div L
           r == k % L
           from == IF r = 0 THEN e + c ELSE Spot(s, e, o, L, k)
           pos == Spot(s, e, o, L, k + 1)
           x == [w EXCEPT ![pos] = w[e + c], ![e + c] = w[pos]]
           Sp(i) == Spot(s, e, o, L, i)
<1>1. s \in Int /\ e \in Int /\ o \in Int /\ s < e /\ e < o /\ (k + 1) - 1 = k
      /\ L = (o - s) \div gcd[o - e][e - s]
  BY DEF Blocks
<1>2. PICK g : NrOfCycles(s, e, o, L, g) /\ c \in 0..(g - 1)
  <2>1. PICK g \in 1..(o - e) :
              /\ g = gcd[o - e][e - s] /\ o - s = g * L
              /\ \A i \in 1..(o - s) : (i - 1) \div L \in 0..(g - 1)
    BY CycleOf
  <2>2. ((k + 1) - 1) \div L \in 0..(g - 1)
    BY <2>1
  <2> QED BY <1>1, <2>1, <2>2 DEF NrOfCycles
<1>3. InCycle(k + 1, L, c, r)
  <2>1. /\ L \in Nat \ {0}
        /\ (k + 1) - 1 = L * (((k + 1) - 1) \div L) + (((k + 1) - 1) % L)
        /\ (((k + 1) - 1) % L) \in 0..(L - 1)
    BY CycleOf
  <2>2. c \in Int
    BY <1>2
  <2> QED BY <1>1, <2>1, <2>2 DEF InCycle
<1>4. /\ pos = IF from >= e THEN from - (e - s) ELSE from + (o - e)
      /\ r # 0 => k \in 1..(o - s) /\ k - 1 = L * c + (r - 1)
  <2> DEFINE K == k + 1
  <2>1. K \in 1..(o - s) /\ K - 1 = k
    OBVIOUS
  <2>2. InCycle(K, L, c, r)
    BY <1>3
  <2> HIDE DEF K, c, r
  <2>3. from = IF r = 0 THEN e + c ELSE Spot(s, e, o, L, K - 1)
    BY <2>1
  <2> HIDE DEF from
  <2>4. Spot(s, e, o, L, K) = IF from >= e THEN from - (e - s) ELSE from + (o - e)
    BY <1>2, <2>1, <2>2, <2>3, SpotSteps
  <2>5. r # 0 => K - 1 \in 1..(o - s) /\ (K - 1) - 1 = L * c + (r - 1)
    BY <1>2, <2>1, <2>2, <2>3, SpotSteps
  <2> QED BY <2>1, <2>4, <2>5 DEF K
<1>5. /\ Exchange(s, e, o, k + 1, last).pos = pos
      /\ Exchange(s, e, o, k + 1, last).argv = x
  <2> DEFINE ff == IF k % L = 0 THEN e + c ELSE last.pos
             pp == IF ff >= e THEN ff - (e - s) ELSE ff + (o - e)
             y  == [w EXCEPT ![pp] = w[e + c], ![e + c] = w[pp]]
  <2>1. Exchange(s, e, o, k + 1, last) = [argv |-> y, pos |-> pp]
    BY <1>1 DEF Exchange
  <2>2. ff = from
    <3>1. k % L # 0 => k >= 1
      BY <1>4
    <3> QED BY <3>1
  <2>3. pp = pos
    BY <1>4, <2>2
  <2> HIDE DEF pp, pos, c
  <2>4. y = x
    BY <2>3
  <2> HIDE DEF y, x
  <2> QED BY <2>1, <2>3, <2>4
<1>6. /\ pos \in s..(o - 1) /\ e + c \in s..(o - 1)
      /\ \A i \in 1..k : Sp(i) # pos
      /\ r # 0 => from \in s..(o - 1)
  <2>1. /\ pos \in s..(o - 1) /\ e + c \in e..(o - 1)
        /\ \A i \in 1..k : i \in 1..(o - s) /\ i # k + 1
        /\ r # 0 => from \in s..(o - 1)
    <3>1. pos \in s..(o - 1) /\ (r # 0 => from \in s..(o - 1))
      BY <1>4, SpotFacts
    <3>2. e + c \in e..(o - 1)
      BY <1>1, SpotFacts
    <3>3. \A i \in 1..k : i \in 1..(o - s) /\ i # k + 1
      BY <1>1
    <3> HIDE DEF pos, c, r, from
    <3> QED BY <3>1, <3>2, <3>3
  <2>2. \A i \in 1..k : Sp(i) # pos
    BY <2>1, SpotFacts
  <2>3. e + c \in s..(o - 1)
    <3> HIDE DEF c
    <3> QED BY <1>1, <2>1
  <2> HIDE DEF pos, c, r, from, Sp
  <2> QED BY <2>1, <2>2, <2>3
\* The start of the cycle is met by its last exchange.
<1>7. /\ \A i \in 1..k : Sp(i) # e + c
      /\ (k + 1) % L = 0 <=> pos = e + c
  <2> DEFINE K == k + 1
             m == L * c + L
  <2>1. K \in 1..(o - s) /\ InCycle(K, L, c, r) /\ K = k + 1
    BY <1>3
  <2> HIDE DEF K, c, r
  <2>2. m \in K..(o - s) /\ Spot(s, e, o, L, m) = e + c /\ (K % L = 0 <=> K = m)
    BY <1>2, <2>1, CycleEnds
  <2> HIDE DEF m
  <2>3. m \in 1..(o - s) /\ \A i \in 1..k : i \in 1..(o - s) /\ i # m
    BY <1>1, <2>1, <2>2
  <2>4. \A i \in 1..k : Sp(i) # e + c
    BY <2>2, <2>3, SpotFacts
  <2>5. pos = Spot(s, e, o, L, K)
    BY <2>1
  <2>6. K % L = 0 <=> pos = e + c
    BY <2>1, <2>2, <2>3, <2>5, SpotFacts
  <2> QED BY <2>4, <2>6 DEF K
<1>8. r # 0 => k >= 1 /\ (k - 1) \div L = c
  <2> SUFFICES ASSUME r # 0 PROVE k >= 1 /\ (k - 1) \div L = c
    OBVIOUS
  <2>1. k >= 1
    BY <1>4
  <2>2. r > 0
    BY <1>3 DEF InCycle
  <2> DEFINE K == k + 1
  <2>3. InCycle(K, L, c, r) /\ (K - 1) - 1 = k - 1
    BY <1>3
  <2> HIDE DEF K, c, r
  <2>4. ((K - 1) - 1) \div L = c
    BY <2>2, <2>3, NextRemainder
  <2> QED BY <2>1, <2>3, <2>4
<1> HIDE DEF c
<1>9. /\ DOMAIN w = DOMAIN v /\ w = [p \in DOMAIN v |-> w[p]]
      /\ \A i \in 1..k : w[Sp(i)] = v[Source(s, e, o, Sp(i))]
      /\ r # 0 => w[e + c] = v[Sp(k)]
      /\ \A p \in DOMAIN v : (\A i \in 1..k : p # Sp(i)) /\ (r # 0 => p # e + c)
                               => w[p] = v[p]
  BY <1>8 DEF Moved
<1> HIDE DEF r
<1>10. w[e + c] = v[from]
  <2>1. CASE r = 0
    BY <1>6, <1>7, <1>9, <2>1
  <2>2. CASE r # 0
    BY <1>9, <2>2
  <2> QED BY <2>1, <2>2
<1>11. from = Source(s, e, o, pos)
  <2>1. from \in s..(o - 1)
    BY <1>6
  <2> HIDE DEF from, pos
  <2> QED BY <1>1, <1>4, <2>1 DEF Source
<1> HIDE DEF from, pos
<1>12. /\ DOMAIN x = DOMAIN v /\ x = [p \in DOMAIN v |-> x[p]]
       /\ x[pos] = w[e + c] /\ (pos # e + c => x[e + c] = w[pos])
       /\ \A p \in DOMAIN v : p # pos /\ p # e + c => x[p] = w[p]
  <2>1. pos \in DOMAIN v /\ e + c \in DOMAIN v
    BY <1>6
  <2> QED BY <1>9, <2>1
<1> HIDE DEF x
<1>13. \A i \in 1..(k + 1) : x[Spot(s, e, o, L, i)] = v[Source(s, e, o, Spot(s, e, o, L, i))]
  <2>1. ASSUME NEW i \in 1..k PROVE x[Sp(i)] = v[Source(s, e, o, Sp(i))]
    <3>1. Sp(i) \in DOMAIN v /\ Sp(i) # pos /\ Sp(i) # e + c
      <4>1. i \in 1..(o - s)
        BY <1>1
      <4> QED BY <1>6, <1>7, <4>1, SpotFacts
    <3> QED BY <1>9, <1>12, <3>1
  <2>2. x[pos] = v[Source(s, e, o, pos)]
    BY <1>10, <1>11, <1>12
  <2>3. \A i \in 1..(k + 1) : i \in 1..k \/ i = k + 1
    OBVIOUS
  <2> QED BY <2>1, <2>2, <2>3 DEF pos
<1>14. (k + 1) % L # 0 => x[e + c] = v[pos]
  <2> SUFFICES ASSUME (k + 1) % L # 0 PROVE x[e + c] = v[pos]
    OBVIOUS
  <2>1. pos # e + c
    BY <1>7
  <2>2. w[pos] = v[pos]
    BY <1>6, <1>9, <2>1
  <2> QED BY <1>12, <2>1, <2>2
<1>15. ASSUME NEW p \in DOMAIN v, \A i \in 1..(k + 1) : p # Spot(s, e, o, L, i),
              (k + 1) % L # 0 => p # e + c
       PROVE  x[p] = v[p]
  <2>1. p # pos /\ \A i \in 1..k : p # Sp(i)
    BY <1>15 DEF pos
  <2>2. p # e + c
    BY <1>7, <1>15, <2>1
  <2> QED BY <1>9, <1>12, <2>1, <2>2
<1>16. Moved(s, e, o, L, v, k + 1, x)
  <2>1. ((k + 1) - 1) \div L = c
    BY <1>1 DEF c
  <2> QED BY <1>12, <1>13, <1>14, <1>15, <2>1 DEF Moved, pos
<1> QED BY <1>5, <1>16 DEF pos

\* Whatever the two blocks of arguments, permute_args() exchanges them: each keeps the
\* order of its arguments, and the arguments outside stay (getopt.h:174-202).  Its two
\* loops follow the cycles of the exchange, as many as the greatest common divisor of
\* the blocks' lengths, and leave no argument out.
THEOREM BlocksExchanged ==
  ASSUME NEW s \in Int, NEW e \in Int, NEW o \in Int, s < e, e < o,
         NEW v, v = [p \in DOMAIN v |-> v[p]], s..(o - 1) \subseteq DOMAIN v
  PROVE  PermuteArgs(s, e, o, v) =
           [p \in DOMAIN v |-> IF p \in s..(o - 1) THEN v[Source(s, e, o, p)] ELSE v[p]]
<1> DEFINE L == (o - s) \div gcd[o - e][e - s]
           m == Exchanges(s, e, o, v)
           Good(k) == /\ k >= 1 => m[k].pos = Spot(s, e, o, L, k)
                      /\ Moved(s, e, o, L, v, k, m[k].argv)
           S == {k \in Nat : k <= o - s => Good(k)}
<1>1. Blocks(s, e, o, L) /\ o - s \in Nat \ {0}
  BY DEF Blocks
<1>2. m[0] = [argv |-> v, pos |-> e] /\ \A k \in 1..(o - s) : m[k] = Exchange(s, e, o, k, m[k - 1])
  BY <1>1, ExchangesDefined
<1> HIDE DEF L, m
<1>3. 0 \in S
  <2>1. m[0].argv = v
    BY <1>2
  <2>2. Good(0)
    BY <2>1 DEF Moved
  <2> HIDE DEF Good
  <2> QED BY <2>2
<1>4. ASSUME NEW k \in Nat, k \in S
      PROVE  k + 1 \in S
  <2> SUFFICES ASSUME k + 1 <= o - s PROVE Good(k + 1)
    OBVIOUS
  <2>1. k + 1 \in 1..(o - s) /\ k <= o - s /\ (k + 1) - 1 = k
    BY <1>1
  <2>2. Good(k)
    BY <1>4, <2>1
  <2> DEFINE next == Exchange(s, e, o, k + 1, m[k])
  <2>3. next.pos = Spot(s, e, o, L, k + 1) /\ Moved(s, e, o, L, v, k + 1, next.argv)
    BY <1>1, <2>1, <2>2, ExchangeMoves
  <2>4. m[k + 1] = next
    BY <1>2, <2>1
  <2> HIDE DEF next
  <2> QED BY <2>3, <2>4
<1> HIDE DEF S
<1>5. o - s \in S
  BY <1>1, <1>3, <1>4, SetInduction
<1> DEFINE w == m[o - s].argv
<1>6. Moved(s, e, o, L, v, o - s, w)
  BY <1>1, <1>5 DEF S
<1>7. PermuteArgs(s, e, o, v) = w
  BY DEF PermuteArgs, m
<1> HIDE DEF w
<1>8. ASSUME NEW p \in s..(o - 1)
      PROVE  w[p] = v[Source(s, e, o, p)]
  <2>1. PICK k \in 1..(o - s) : Spot(s, e, o, L, k) = p
    BY <1>1, SpotsCover
  <2> QED BY <1>6, <2>1 DEF Moved
<1>9. ASSUME NEW p \in DOMAIN v, p \notin s..(o - 1)
      PROVE  w[p] = v[p]
  <2>1. \A k \in 1..(o - s) : p # Spot(s, e, o, L, k)
    BY <1>1, <1>9, SpotFacts
  <2>2. p # e + (((o - s) - 1) \div L)
    <3>1. o - s \in 1..(o - s)
      BY <1>1
    <3>2. e + (((o - s) - 1) \div L) \in e..(o - 1)
      BY <1>1, <3>1, SpotFacts
    <3> QED BY <1>9, <3>2
  <2> QED BY <1>6, <2>1, <2>2 DEF Moved
<1>10. w = [p \in DOMAIN v |-> w[p]]
  BY <1>6 DEF Moved
<1> QED BY <1>7, <1>8, <1>9, <1>10

-----------------------------------------------------------------------------
(* Counting the arguments of a role                                             *)

\* The number of arguments of a role before the i-th of n.
Nr(rl, n, kind, i) == Cardinality({j \in 0..(n - 1) : j < i /\ rl[j] = kind})

\* One more argument counts or does not.
LEMMA NrStep ==
  ASSUME NEW rl, NEW n \in Nat, NEW kind, NEW i \in 0..(n - 1)
  PROVE  /\ Nr(rl, n, kind, i + 1) = IF rl[i] = kind THEN Nr(rl, n, kind, i) + 1
                                     ELSE Nr(rl, n, kind, i)
         /\ Nr(rl, n, kind, i) \in Nat
<1> DEFINE S == {j \in 0..(n - 1) : j < i /\ rl[j] = kind}
           T == {j \in 0..(n - 1) : j < i + 1 /\ rl[j] = kind}
<1>1. IsFiniteSet(S)
  <2>1. IsFiniteSet(0..(n - 1))
    BY FS_Interval
  <2> QED BY <2>1, FS_Subset
<1>2. Cardinality(S) \in Nat
  BY <1>1, FS_CardinalityType
<1>3. CASE rl[i] = kind
  <2>1. T = S \cup {i} /\ i \notin S
    BY <1>3
  <2> HIDE DEF S, T
  <2>2. Cardinality(T) = Cardinality(S) + 1
    BY <1>1, <2>1, FS_AddElement
  <2> QED BY <1>2, <1>3, <2>2 DEF Nr, S, T
<1>4. CASE rl[i] # kind
  <2>1. T = S
    BY <1>4
  <2> QED BY <1>2, <1>4, <2>1 DEF Nr
<1> QED BY <1>3, <1>4

LEMMA NrGrows ==
  ASSUME NEW rl, NEW n \in Nat, NEW kind, NEW i \in 0..n, NEW j \in i..n
  PROVE  Nr(rl, n, kind, i) <= Nr(rl, n, kind, j) /\ Nr(rl, n, kind, j) \in Nat
                                                  /\ Nr(rl, n, kind, i) \in Nat
<1> DEFINE S == {k \in 0..(n - 1) : k < i /\ rl[k] = kind}
           T == {k \in 0..(n - 1) : k < j /\ rl[k] = kind}
<1>1. S \subseteq T /\ T \subseteq 0..(n - 1)
  OBVIOUS
<1>2. IsFiniteSet(0..(n - 1))
  BY FS_Interval
<1> HIDE DEF S, T
<1>3. IsFiniteSet(T)
  BY <1>1, <1>2, FS_Subset
<1>4. IsFiniteSet(S) /\ Cardinality(S) <= Cardinality(T)
  BY <1>1, <1>3, FS_Subset
<1>5. Cardinality(S) \in Nat /\ Cardinality(T) \in Nat
  BY <1>3, <1>4, FS_CardinalityType
<1> QED BY <1>4, <1>5 DEF Nr, S, T

\* Only the roles before i count, and only those of that kind.
LEMMA NrSame ==
  ASSUME NEW rl, NEW rk, NEW n \in Nat, NEW kind, NEW i \in 0..n, NEW j \in i..n,
         \A k \in 0..(i - 1) : rl[k] = rk[k], \A k \in i..(j - 1) : rk[k] # kind
  PROVE  Nr(rl, n, kind, i) = Nr(rk, n, kind, j)
<1>1. {k \in 0..(n - 1) : k < i /\ rl[k] = kind} = {k \in 0..(n - 1) : k < j /\ rk[k] = kind}
  OBVIOUS
<1> QED BY <1>1 DEF Nr

LEMMA NrUnchanged ==
  ASSUME NEW rl, NEW rk, NEW n \in Nat, NEW kind, NEW i \in 0..n,
         \A k \in 0..(i - 1) : rl[k] = rk[k]
  PROVE  Nr(rl, n, kind, i) = Nr(rk, n, kind, i)
<1>1. {k \in 0..(n - 1) : k < i /\ rl[k] = kind} = {k \in 0..(n - 1) : k < i /\ rk[k] = kind}
  OBVIOUS
<1> QED BY <1>1 DEF Nr

LEMMA NrNone ==
  ASSUME NEW rl, NEW n, NEW kind
  PROVE  Nr(rl, n, kind, 0) = 0
<1>1. {j \in 0..(n - 1) : j < 0 /\ rl[j] = kind} = {}
  OBVIOUS
<1> QED BY <1>1, FS_EmptySet DEF Nr

\* An argument of a kind is counted by those after it.
LEMMA NrBelow ==
  ASSUME NEW rl, NEW n \in Nat, NEW kind, NEW i \in 0..(n - 1), NEW j \in (i + 1)..n,
         rl[i] = kind
  PROVE  /\ Nr(rl, n, kind, i) < Nr(rl, n, kind, j)
         /\ Nr(rl, n, kind, i) \in Nat /\ Nr(rl, n, kind, j) \in Nat
<1>1. Nr(rl, n, kind, i + 1) = Nr(rl, n, kind, i) + 1 /\ Nr(rl, n, kind, i) \in Nat
  BY NrStep
<1>2. Nr(rl, n, kind, i + 1) <= Nr(rl, n, kind, j) /\ Nr(rl, n, kind, j) \in Nat
  <2>1. i + 1 \in 0..n
    OBVIOUS
  <2> QED BY <2>1, NrGrows
<1> QED BY <1>1, <1>2

\* A row of arguments of one kind.
LEMMA NrRow ==
  ASSUME NEW rl, NEW n \in Nat, NEW kind, NEW m \in 0..n, \A k \in m..(n - 1) : rl[k] = kind,
         \A k \in 0..(m - 1) : rl[k] # kind, NEW i \in m..n
  PROVE  Nr(rl, n, kind, i) = i - m
<1>1. {j \in 0..(n - 1) : j < i /\ rl[j] = kind} = m..(i - 1)
  OBVIOUS
<1>2. Cardinality(m..(i - 1)) = i - m
  <2>1. m \in Int /\ i - 1 \in Int
    OBVIOUS
  <2>2. Cardinality(m..(i - 1)) = IF m > i - 1 THEN 0 ELSE (i - 1) - m + 1
    BY <2>1, FS_Interval
  <2> QED BY <2>2
<1> QED BY <1>1, <1>2 DEF Nr

-----------------------------------------------------------------------------
(* Where the arguments are while they are read                                  *)

\* Where argument i is while words have been passed over from f to p - 1.
Put(rl, n, f, p, i) ==
  IF rl[i] = "word" THEN f + Nr(rl, n, "word", i)
  ELSE IF Nr(rl, n, "option", i) < f THEN Nr(rl, n, "option", i)
  ELSE Nr(rl, n, "option", i) + (p - f)

\* The three lists are functions of the same n indices.
ArgumentsFit(av, gv, rl, n) ==
  /\ n \in Nat /\ DOMAIN av = 0..(n - 1) /\ DOMAIN gv = 0..(n - 1) /\ DOMAIN rl = 0..(n - 1)
  /\ av = [i \in DOMAIN av |-> av[i]] /\ rl = [i \in DOMAIN rl |-> rl[i]]

\* The first m arguments have been read: options, the words from f to p - 1, options.
Placed(av, gv, rl, n, m, f, p) ==
  /\ ArgumentsFit(av, gv, rl, n)
  /\ f \in 1..p /\ p \in 1..m /\ m \in 1..n
  /\ \A i \in 0..(m - 1) : rl[i] \in {"option", "word"} /\ av[Put(rl, n, f, p, i)] = gv[i]
  /\ \A i \in m..(n - 1) : rl[i] = "unread" /\ av[i] = gv[i]
  /\ Nr(rl, n, "word", m) = p - f /\ Nr(rl, n, "option", m) = f + m - p

LEMMA PlacedTypes ==
  ASSUME NEW av, NEW gv, NEW rl, NEW n, NEW m, NEW f, NEW p, Placed(av, gv, rl, n, m, f, p)
  PROVE  /\ n \in Nat /\ m \in Nat /\ f \in Nat /\ p \in Nat
         /\ 1 <= f /\ f <= p /\ p <= m /\ m <= n
         /\ \A i \in 0..(m - 1) : rl[i] \in {"option", "word"} /\ i \in 0..(n - 1) /\ i \in Nat
         /\ \A i \in 0..(m - 1) : Nr(rl, n, rl[i], i) \in Nat
         /\ \A i \in 0..(m - 1) : rl[i] = "word" => Nr(rl, n, "word", i) < p - f
         /\ \A i \in 0..(m - 1) : rl[i] = "option" => Nr(rl, n, "option", i) < f + m - p
<1>1. /\ n \in Nat /\ m \in 1..n /\ f \in 1..p /\ p \in 1..m
      /\ \A i \in 0..(m - 1) : rl[i] \in {"option", "word"}
      /\ Nr(rl, n, "word", m) = p - f /\ Nr(rl, n, "option", m) = f + m - p
  BY DEF Placed, ArgumentsFit
<1>2. n \in Nat /\ m \in Nat /\ f \in Nat /\ p \in Nat /\ 1 <= f /\ f <= p /\ p <= m /\ m <= n
  BY <1>1
<1>3. ASSUME NEW i \in 0..(m - 1)
      PROVE  /\ i \in 0..(n - 1) /\ i \in Nat /\ Nr(rl, n, rl[i], i) \in Nat
             /\ Nr(rl, n, rl[i], i) < Nr(rl, n, rl[i], m)
  <2>1. i \in 0..(n - 1) /\ m \in (i + 1)..n /\ i \in Nat
    BY <1>2
  <2> QED BY <1>2, <2>1, NrBelow
<1> QED BY <1>1, <1>2, <1>3

\* With no words passed over, the block is empty wherever it is.
LEMMA NoWords ==
  ASSUME NEW av, NEW gv, NEW rl, NEW n, NEW m, NEW f, Placed(av, gv, rl, n, m, f, f),
         NEW g \in 1..m
  PROVE  Placed(av, gv, rl, n, m, g, g)
<1>1. \A i \in 0..(m - 1) : rl[i] = "option" /\ i \in Nat /\ Nr(rl, n, "option", i) \in Nat
  <2>1. ASSUME NEW i \in 0..(m - 1), rl[i] = "word" PROVE FALSE
    <3>1. Nr(rl, n, "word", i) < 0 /\ Nr(rl, n, "word", i) \in Nat
      BY <2>1, PlacedTypes
    <3> QED BY <3>1
  <2> QED BY <2>1, PlacedTypes
<1>2. m \in Nat /\ n \in Nat /\ f \in Nat /\ g \in Nat
  BY PlacedTypes
<1>3. \A i \in 0..(m - 1) : Put(rl, n, f, f, i) = Put(rl, n, g, g, i)
  BY <1>1, <1>2 DEF Put
<1>4. f - f = g - g /\ f + m - f = g + m - g
  BY <1>2
<1> QED BY <1>2, <1>3, <1>4 DEF Placed

Read(rl, from, to, kind) == [i \in DOMAIN rl |-> IF i \in from..to THEN kind ELSE rl[i]]

\* The next argument has been read: what it counts for.
LEMMA ReadOne ==
  ASSUME NEW av, NEW gv, NEW rl, NEW n, NEW m, NEW f, NEW p, Placed(av, gv, rl, n, m, f, p),
         m < n, NEW kind, kind \in {"option", "word"}, NEW rk, rk = Read(rl, m, m, kind)
  PROVE  /\ ArgumentsFit(av, gv, rk, n) /\ m + 1 \in 1..n
         /\ \A i \in 0..(m - 1) : rk[i] = rl[i]
         /\ rk[m] = kind /\ av[m] = gv[m]
         /\ \A i \in (m + 1)..(n - 1) : rk[i] = "unread" /\ av[i] = gv[i]
         /\ \A k : \A i \in 0..m : Nr(rk, n, k, i) = Nr(rl, n, k, i)
         /\ \A k \in {"option", "word"} :
              Nr(rk, n, k, m + 1) = IF k = kind THEN Nr(rl, n, k, m) + 1 ELSE Nr(rl, n, k, m)
<1>1. /\ n \in Nat /\ m \in Nat /\ m + 1 \in 1..n /\ m \in 0..(n - 1)
      /\ DOMAIN rl = 0..(n - 1) /\ ArgumentsFit(av, gv, rl, n)
      /\ \A i \in m..(n - 1) : rl[i] = "unread" /\ av[i] = gv[i]
  BY PlacedTypes DEF Placed, ArgumentsFit
<1>2. ArgumentsFit(av, gv, rk, n)
  BY <1>1 DEF ArgumentsFit, Read
<1>3. /\ rk[m] = kind
      /\ \A i \in 0..(n - 1) : i # m => rk[i] = rl[i]
  BY <1>1 DEF Read
<1>4. ASSUME NEW k, NEW i \in 0..m PROVE Nr(rk, n, k, i) = Nr(rl, n, k, i)
  <2>1. \A j \in 0..(i - 1) : rk[j] = rl[j]
    BY <1>1, <1>3
  <2>2. i \in 0..n
    BY <1>1
  <2> QED BY <1>1, <2>1, <2>2, NrUnchanged
<1>5. ASSUME NEW k \in {"option", "word"}
      PROVE  Nr(rk, n, k, m + 1) = IF k = kind THEN Nr(rl, n, k, m) + 1 ELSE Nr(rl, n, k, m)
  <2>1. Nr(rk, n, k, m + 1) = IF rk[m] = k THEN Nr(rk, n, k, m) + 1 ELSE Nr(rk, n, k, m)
    BY <1>1, NrStep
  <2>2. Nr(rk, n, k, m) = Nr(rl, n, k, m)
    BY <1>1, <1>4
  <2> QED BY <1>3, <2>1, <2>2
<1>6. /\ \A i \in 0..(m - 1) : rk[i] = rl[i]
      /\ \A i \in (m + 1)..(n - 1) : rk[i] = "unread" /\ av[i] = gv[i]
      /\ av[m] = gv[m]
  BY <1>1, <1>3
<1> QED BY <1>1, <1>2, <1>3, <1>4, <1>5, <1>6

\* The argument that is read next is an option, or the value of one.
LEMMA OptionRead ==
  ASSUME NEW av, NEW gv, NEW rl, NEW n, NEW m, NEW f, NEW p, Placed(av, gv, rl, n, m, f, p),
         m < n, NEW rk, rk = Read(rl, m, m, "option")
  PROVE  Placed(av, gv, rk, n, m + 1, f, p)
<1>1. /\ ArgumentsFit(av, gv, rk, n) /\ m + 1 \in 1..n
      /\ \A i \in 0..(m - 1) : rk[i] = rl[i]
      /\ rk[m] = "option" /\ av[m] = gv[m]
      /\ \A i \in (m + 1)..(n - 1) : rk[i] = "unread" /\ av[i] = gv[i]
      /\ Nr(rk, n, "option", m + 1) = Nr(rl, n, "option", m) + 1
      /\ Nr(rk, n, "word", m + 1) = Nr(rl, n, "word", m)
  BY ReadOne
<1>2. ASSUME NEW k, NEW i \in 0..m PROVE Nr(rk, n, k, i) = Nr(rl, n, k, i)
  BY ReadOne
<1>3. /\ m \in Nat /\ n \in Nat /\ f \in Nat /\ p \in Nat /\ 1 <= f /\ f <= p /\ p <= m
      /\ Nr(rl, n, "word", m) = p - f /\ Nr(rl, n, "option", m) = f + m - p
      /\ \A i \in 0..(m - 1) : rl[i] \in {"option", "word"} /\ av[Put(rl, n, f, p, i)] = gv[i]
  BY PlacedTypes DEF Placed
<1>4. ASSUME NEW i \in 0..(m - 1) PROVE Put(rk, n, f, p, i) = Put(rl, n, f, p, i)
  <2>1. Nr(rk, n, "word", i) = Nr(rl, n, "word", i) /\ Nr(rk, n, "option", i) = Nr(rl, n, "option", i)
    BY <1>2, <1>3
  <2> QED BY <1>1, <2>1 DEF Put
<1>5. Put(rk, n, f, p, m) = m
  <2>1. Nr(rk, n, "option", m) = f + m - p
    BY <1>2, <1>3
  <2>2. ~(f + m - p < f) /\ (f + m - p) + (p - f) = m
    BY <1>3
  <2> QED BY <1>1, <2>1, <2>2 DEF Put
<1>6. ASSUME NEW i \in 0..((m + 1) - 1)
      PROVE  rk[i] \in {"option", "word"} /\ av[Put(rk, n, f, p, i)] = gv[i]
  <2>1. i \in 0..(m - 1) \/ i = m
    BY <1>3
  <2> QED BY <1>1, <1>3, <1>4, <1>5, <2>1
<1>7. /\ f \in 1..p /\ p \in 1..(m + 1)
      /\ (f + m - p) + 1 = f + (m + 1) - p
  BY <1>3
<1> QED BY <1>1, <1>3, <1>6, <1>7 DEF Placed

\* The argument that is read next is one more word, behind those passed over.
LEMMA WordRead ==
  ASSUME NEW av, NEW gv, NEW rl, NEW n, NEW m, NEW f, Placed(av, gv, rl, n, m, f, m),
         m < n, NEW rk, rk = Read(rl, m, m, "word")
  PROVE  Placed(av, gv, rk, n, m + 1, f, m + 1)
<1>1. /\ ArgumentsFit(av, gv, rk, n) /\ m + 1 \in 1..n
      /\ \A i \in 0..(m - 1) : rk[i] = rl[i]
      /\ rk[m] = "word" /\ av[m] = gv[m]
      /\ \A i \in (m + 1)..(n - 1) : rk[i] = "unread" /\ av[i] = gv[i]
      /\ Nr(rk, n, "option", m + 1) = Nr(rl, n, "option", m)
      /\ Nr(rk, n, "word", m + 1) = Nr(rl, n, "word", m) + 1
  BY ReadOne
<1>2. ASSUME NEW k, NEW i \in 0..m PROVE Nr(rk, n, k, i) = Nr(rl, n, k, i)
  BY ReadOne
<1>3. /\ m \in Nat /\ n \in Nat /\ f \in Nat /\ 1 <= f /\ f <= m
      /\ Nr(rl, n, "word", m) = m - f /\ Nr(rl, n, "option", m) = f + m - m
      /\ \A i \in 0..(m - 1) : rl[i] \in {"option", "word"} /\ av[Put(rl, n, f, m, i)] = gv[i]
  BY PlacedTypes DEF Placed
<1>4. ASSUME NEW i \in 0..(m - 1) PROVE Put(rk, n, f, m + 1, i) = Put(rl, n, f, m, i)
  <2>1. Nr(rk, n, "word", i) = Nr(rl, n, "word", i) /\ Nr(rk, n, "option", i) = Nr(rl, n, "option", i)
    BY <1>2, <1>3
  <2>2. rl[i] = "option" => Nr(rl, n, "option", i) < f + m - m
    BY PlacedTypes
  <2>3. rl[i] = "option" => Nr(rl, n, "option", i) < f
    BY <1>3, <2>2
  <2> QED BY <1>1, <1>3, <2>1, <2>3 DEF Put
<1>5. Put(rk, n, f, m + 1, m) = m
  <2>1. Nr(rk, n, "word", m) = m - f
    BY <1>2, <1>3
  <2>2. f + (m - f) = m
    BY <1>3
  <2> QED BY <1>1, <2>1, <2>2 DEF Put
<1>6. ASSUME NEW i \in 0..((m + 1) - 1)
      PROVE  rk[i] \in {"option", "word"} /\ av[Put(rk, n, f, m + 1, i)] = gv[i]
  <2>1. i \in 0..(m - 1) \/ i = m
    BY <1>3
  <2> QED BY <1>1, <1>3, <1>4, <1>5, <2>1
<1>7. /\ f \in 1..(m + 1) /\ m + 1 \in 1..(m + 1)
      /\ (m - f) + 1 = (m + 1) - f /\ f + m - m = f + (m + 1) - (m + 1)
  BY <1>3
<1> QED BY <1>1, <1>3, <1>6, <1>7 DEF Placed

\* The options behind the words are exchanged with them.
LEMMA WordsMoved ==
  ASSUME NEW av, NEW gv, NEW rl, NEW n, NEW m, NEW f, NEW p, Placed(av, gv, rl, n, m, f, p),
         f < p, p < m, NEW bv, bv = PermuteArgs(f, p, m, av)
  PROVE  Placed(bv, gv, rl, n, m, f + (m - p), m)
<1> DEFINE h == f + (m - p)
<1>1. /\ n \in Nat /\ m \in Nat /\ f \in Nat /\ p \in Nat /\ 1 <= f /\ m <= n
      /\ h \in Nat /\ h \in 1..m /\ m \in 1..m /\ h < m
  BY PlacedTypes
<1>2. /\ DOMAIN av = 0..(n - 1) /\ av = [q \in DOMAIN av |-> av[q]] /\ f..(m - 1) \subseteq DOMAIN av
  BY <1>1 DEF Placed, ArgumentsFit
<1>3. bv = [q \in DOMAIN av |-> IF q \in f..(m - 1) THEN av[Source(f, p, m, q)] ELSE av[q]]
  BY <1>1, <1>2, BlocksExchanged
<1>4. /\ \A q \in f..(h - 1) : bv[q] = av[q + (p - f)]
      /\ \A q \in h..(m - 1) : bv[q] = av[q - (m - p)]
      /\ \A q \in 0..(n - 1) : q \notin f..(m - 1) => bv[q] = av[q]
  <2>1. ASSUME NEW q \in f..(h - 1) PROVE bv[q] = av[q + (p - f)]
    <3>1. q \in f..(m - 1) /\ q \in 0..(n - 1) /\ Source(f, p, m, q) = q + (p - f)
      BY <1>1 DEF Source
    <3> QED BY <1>2, <1>3, <3>1
  <2>2. ASSUME NEW q \in h..(m - 1) PROVE bv[q] = av[q - (m - p)]
    <3>1. q \in f..(m - 1) /\ q \in 0..(n - 1) /\ Source(f, p, m, q) = q - (m - p)
      BY <1>1 DEF Source
    <3> QED BY <1>2, <1>3, <3>1
  <2>3. ASSUME NEW q \in 0..(n - 1), q \notin f..(m - 1) PROVE bv[q] = av[q]
    BY <1>2, <1>3, <2>3
  <2> QED BY <2>1, <2>2, <2>3
<1>5. ArgumentsFit(bv, gv, rl, n)
  <2>1. ArgumentsFit(av, gv, rl, n)
    BY DEF Placed
  <2>2. DOMAIN bv = DOMAIN av /\ bv = [q \in DOMAIN bv |-> bv[q]]
    BY <1>3
  <2> QED BY <2>1, <2>2 DEF ArgumentsFit
<1>6. /\ \A i \in 0..(m - 1) : rl[i] \in {"option", "word"} /\ av[Put(rl, n, f, p, i)] = gv[i]
      /\ \A i \in m..(n - 1) : rl[i] = "unread" /\ av[i] = gv[i]
      /\ Nr(rl, n, "word", m) = p - f /\ Nr(rl, n, "option", m) = f + m - p
  BY DEF Placed
<1>7. ASSUME NEW i \in 0..(m - 1) PROVE bv[Put(rl, n, h, m, i)] = gv[i]
  <2>1. CASE rl[i] = "word"
    <3> DEFINE w == Nr(rl, n, "word", i)
    <3>1. w \in Nat /\ w < p - f
      BY <2>1, PlacedTypes
    <3>2. Put(rl, n, h, m, i) = h + w /\ Put(rl, n, f, p, i) = f + w
      BY <2>1 DEF Put
    <3> HIDE DEF w
    <3>3. h + w \in h..(m - 1) /\ (h + w) - (m - p) = f + w
      BY <1>1, <3>1
    <3> QED BY <1>4, <1>6, <3>2, <3>3
  <2>2. CASE rl[i] = "option"
    <3> DEFINE k == Nr(rl, n, "option", i)
    <3>1. k \in Nat /\ k < f + m - p
      BY <2>2, PlacedTypes
    <3>2. /\ Put(rl, n, h, m, i) = IF k < h THEN k ELSE k + (m - h)
          /\ Put(rl, n, f, p, i) = IF k < f THEN k ELSE k + (p - f)
      BY <2>2 DEF Put
    <3> HIDE DEF k
    <3>3. k < h
      BY <1>1, <3>1
    <3>4. CASE k < f
      <4>1. k \in 0..(n - 1) /\ k \notin f..(m - 1)
        BY <1>1, <3>1, <3>4
      <4> QED BY <1>4, <1>6, <3>2, <3>3, <3>4, <4>1
    <3>5. CASE ~(k < f)
      <4>1. k \in f..(h - 1)
        BY <1>1, <3>1, <3>3, <3>5
      <4> QED BY <1>4, <1>6, <3>2, <3>3, <3>5, <4>1
    <3> QED BY <3>4, <3>5
  <2> QED BY <1>6, <2>1, <2>2
<1>8. \A i \in m..(n - 1) : bv[i] = gv[i]
  <2>1. \A i \in m..(n - 1) : i \in 0..(n - 1) /\ i \notin f..(m - 1)
    BY <1>1
  <2> QED BY <1>4, <1>6, <2>1
<1>9. m - h = p - f /\ h + m - m = f + m - p /\ m \in 1..n
  BY <1>1
<1> HIDE DEF h
<1>10. Placed(bv, gv, rl, n, m, h, m)
  BY <1>1, <1>5, <1>6, <1>7, <1>8, <1>9 DEF Placed
<1> QED BY <1>10 DEF h

\* Once the words stand last, every argument is where it is to be.
LEMMA AllPlaced ==
  ASSUME NEW av, NEW gv, NEW rl, NEW n, NEW m, NEW f, Placed(av, gv, rl, n, m, f, m),
         NEW i \in 0..(n - 1)
  PROVE  /\ f = Nr(rl, n, "option", n)
         /\ av[Nr(rl, n, rl[i], i)
               + (IF rl[i] # "option" THEN Nr(rl, n, "option", n) ELSE 0)
               + (IF rl[i] = "unread" THEN Nr(rl, n, "word", n) ELSE 0)] = gv[i]
<1>1. /\ n \in Nat /\ m \in Nat /\ f \in Nat /\ 1 <= f /\ f <= m /\ m <= n
      /\ \A j \in 0..(m - 1) : rl[j] \in {"option", "word"} /\ av[Put(rl, n, f, m, j)] = gv[j]
      /\ \A j \in m..(n - 1) : rl[j] = "unread" /\ av[j] = gv[j]
      /\ Nr(rl, n, "word", m) = m - f /\ Nr(rl, n, "option", m) = f + m - m
  BY PlacedTypes DEF Placed
<1>2. Nr(rl, n, "word", n) = m - f /\ Nr(rl, n, "option", n) = f
  <2>1. m \in 0..n /\ n \in m..n /\ \A j \in m..(n - 1) : rl[j] # "word" /\ rl[j] # "option"
    BY <1>1
  <2>2. Nr(rl, n, "word", m) = Nr(rl, n, "word", n)
    BY <1>1, <2>1, NrSame
  <2>3. Nr(rl, n, "option", m) = Nr(rl, n, "option", n)
    BY <1>1, <2>1, NrSame
  <2>4. f + m - m = f
    BY <1>1
  <2> QED BY <1>1, <2>2, <2>3, <2>4
<1>3. CASE i \in m..(n - 1)
  <2>1. /\ \A j \in m..(n - 1) : rl[j] = "unread"
        /\ \A j \in 0..(m - 1) : rl[j] # "unread"
        /\ m \in 0..n /\ i \in m..n
    BY <1>1, <1>3
  <2>2. Nr(rl, n, "unread", i) = i - m
    BY <1>1, <2>1, NrRow
  <2>3. (i - m) + f + (m - f) = i /\ rl[i] = "unread" /\ av[i] = gv[i]
    BY <1>1, <1>3
  <2> QED BY <1>2, <2>2, <2>3
<1>4. CASE i \in 0..(m - 1) /\ rl[i] = "word"
  <2>1. Put(rl, n, f, m, i) = f + Nr(rl, n, "word", i) /\ Nr(rl, n, "word", i) \in Nat
    BY <1>4, PlacedTypes DEF Put
  <2>2. f + Nr(rl, n, "word", i) = Nr(rl, n, "word", i) + f + 0
    BY <1>1, <2>1
  <2> QED BY <1>1, <1>2, <1>4, <2>1, <2>2
<1>5. CASE i \in 0..(m - 1) /\ rl[i] = "option"
  <2>1. Nr(rl, n, "option", i) \in Nat /\ Nr(rl, n, "option", i) < f + m - m
    BY <1>5, PlacedTypes
  <2>2. Put(rl, n, f, m, i) = Nr(rl, n, "option", i)
    BY <1>1, <1>5, <2>1 DEF Put
  <2>3. Nr(rl, n, "option", i) = Nr(rl, n, "option", i) + 0 + 0
    BY <2>1
  <2> QED BY <1>1, <1>2, <1>5, <2>2, <2>3
<1> QED BY <1>1, <1>3, <1>4, <1>5

\* Where the words begin that have been passed over, and where they end.
First == IF nonoptStart = -1 THEN optind ELSE nonoptStart
Past  == IF nonoptEnd = -1 THEN optind ELSE nonoptEnd

\* nonopt_start and nonopt_end enclose the words that were passed, once there are any.
Pointers ==
  /\ nonoptStart = -1 => nonoptEnd = -1
  /\ nonoptStart # -1 => First < Past
  /\ place = << >> /\ nonoptEnd # -1 => Past < optind
  /\ place # << >> => optind < Argc /\ (nonoptStart # -1 => nonoptEnd # -1)
  /\ ~permute => nonoptStart = -1

\* What holds of the arguments at every call, and how they stand when it was the last.
Passed ==
  /\ answer # Nothing =>
       /\ Placed(argv, given, role, Argc, optind, First, Past)
       /\ Pointers
       /\ place \in Seq(Token)
       /\ \A i \in 1..(Argc - 1) : given[i] \in Seq(Token)
  /\ answer = Nothing => Parted

\* What the bounds of these pointers are.
LEMMA Shape ==
  ASSUME Placed(argv, given, role, Argc, optind, First, Past)
  PROVE  /\ Argc \in Nat /\ DOMAIN argv = 0..(Argc - 1) /\ DOMAIN given = 0..(Argc - 1)
         /\ DOMAIN role = 0..(Argc - 1)
         /\ optind \in Nat /\ First \in Nat /\ Past \in Nat
         /\ 1 <= First /\ First <= Past /\ Past <= optind /\ optind <= Argc
         /\ \A i \in optind..(Argc - 1) : role[i] = "unread" /\ argv[i] = given[i]
<1>1. /\ DOMAIN argv = 0..(Argc - 1) /\ DOMAIN given = 0..(Argc - 1)
      /\ DOMAIN role = 0..(Argc - 1)
      /\ \A i \in optind..(Argc - 1) : role[i] = "unread" /\ argv[i] = given[i]
  BY DEF Placed, ArgumentsFit
<1> QED BY <1>1, PlacedTypes

\* When getopt_long() is done, the words stand last.
LEMMA PartedWhenPlaced ==
  ASSUME NEW m, NEW f,
         answer' = Nothing => Placed(argv', given', role', Argc', m, f, m),
         optind' = f
  PROVE  Parted'
<1> SUFFICES ASSUME answer' = Nothing PROVE Parted'
  BY DEF Parted
<1> DEFINE n == Argc'
<1>1. Placed(argv', given', role', n, m, f, m) /\ n \in Nat
      /\ DOMAIN given' = 0..(n - 1) /\ 0 \in 0..(n - 1)
  BY PlacedTypes DEF Placed, ArgumentsFit
<1>3. n = Argc'
  OBVIOUS
<1> HIDE DEF n
<1>4. ASSUME NEW i \in 0..(n - 1)
      PROVE  argv'[PlaceOf(i)'] = given'[i] /\ f = Nr(role', n, "option", n)
  <2>1. /\ f = Nr(role', n, "option", n)
        /\ argv'[Nr(role', n, role'[i], i)
              + (IF role'[i] # "option" THEN Nr(role', n, "option", n) ELSE 0)
              + (IF role'[i] = "unread" THEN Nr(role', n, "word", n) ELSE 0)] = given'[i]
    BY <1>1, AllPlaced
  <2> QED BY <1>1, <1>3, <2>1 DEF PlaceOf, NrBefore, Nr
<1>5. optind' = NrBefore("option", Argc)'
  <2>1. NrBefore("option", Argc)' = Nr(role', n, "option", n)
    BY <1>1, <1>3 DEF NrBefore, Nr
  <2> QED BY <1>1, <1>4, <2>1
<1>6. \A i \in DOMAIN given' : argv'[PlaceOf(i)'] = given'[i]
  BY <1>1, <1>4
<1> QED BY <1>3, <1>5, <1>6 DEF Parted

\* The arguments from optind to next - 1 are options and values.
LEMMA OptionsRead ==
  ASSUME Placed(argv, given, role, Argc, optind, First, Past),
         nonoptStart = -1 <=> nonoptEnd = -1,
         NEW next, next \in {optind, optind + 1, optind + 2}, next <= Argc,
         Reads(optind, next - 1, "option")
  PROVE  /\ next \in Nat
         /\ Placed(argv, given, role', Argc, next,
                   IF nonoptStart = -1 THEN next ELSE nonoptStart,
                   IF nonoptEnd = -1 THEN next ELSE nonoptEnd)
<1> DEFINE n == Argc
           m == optind
           f == First
           p == Past
           r1 == Read(role, m, m, "option")
           r2 == Read(r1, m + 1, m + 1, "option")
<1>1. /\ n \in Nat /\ m \in Nat /\ 1 <= m /\ DOMAIN role = 0..(n - 1) /\ next \in Nat /\ next >= 1
      /\ role = [i \in DOMAIN role |-> role[i]]
  BY Shape DEF Placed, ArgumentsFit
<1>2. role' = [i \in DOMAIN role |-> IF i \in m..(next - 1) THEN "option" ELSE role[i]]
  BY DEF Reads
<1>3. Placed(argv, given, role', n, next, f, p)
  <2>1. CASE next = m
    <3>1. \A i : i \notin m..(next - 1)
      BY <1>1, <2>1
    <3>2. role' = [i \in DOMAIN role |-> role[i]]
      BY <1>2, <3>1
    <3>3. role' = role
      BY <1>1, <3>2
    <3> QED BY <2>1, <3>3
  <2>2. CASE next = m + 1
    <3>1. next - 1 = m /\ m < n
      BY <1>1, <2>2
    <3>2. role' = r1
      BY <1>2, <3>1 DEF Read
    <3> QED BY <2>2, <3>1, <3>2, OptionRead
  <2>3. CASE next = m + 2
    <3>1. next - 1 = m + 1 /\ m < n /\ m + 1 < n /\ (m + 1) + 1 = next
      BY <1>1, <2>3
    <3>2. \A i \in DOMAIN role : i \in m..(next - 1) <=> i \in m..m \/ i \in (m + 1)..(m + 1)
      BY <1>1, <3>1
    <3>3. role' = r2
      BY <1>2, <3>2 DEF Read
    <3>4. Placed(argv, given, r1, n, m + 1, f, p)
      BY <3>1, OptionRead
    <3> HIDE DEF r1, f, p
    <3>5. Placed(argv, given, r2, n, (m + 1) + 1, f, p)
      BY <3>1, <3>4, OptionRead
    <3> QED BY <3>1, <3>3, <3>5
  <2> QED BY <2>1, <2>2, <2>3
<1>4. CASE nonoptStart = -1
  <2>1. f = m /\ p = m
    BY <1>4 DEF First, Past
  <2>2. next \in 1..next
    BY <1>1
  <2>3. Placed(argv, given, role', n, next, next, next)
    BY <1>3, <2>1, <2>2, NoWords
  <2> QED BY <1>1, <1>4, <2>3
<1>5. CASE nonoptStart # -1
  <2>1. f = nonoptStart /\ p = nonoptEnd /\ nonoptEnd # -1
    BY <1>5 DEF First, Past
  <2> QED BY <1>1, <1>3, <1>5, <2>1
<1> QED BY <1>4, <1>5

\* An answer is given for the argument at optind.
LEMMA PassedByReport ==
  ASSUME Passed, InArgument, NEW c, c # Nothing, NEW value, NEW next, Reports(c, value, next),
         next \in {optind, optind + 1, optind + 2}, next <= Argc,
         place' \in Seq(Token), place' # << >> => next = optind, place' = << >> => next # optind,
         UNCHANGED <<argv, nonoptStart, nonoptEnd, permute, given>>
  PROVE  Passed'
<1>1. /\ Placed(argv, given, role, Argc, optind, First, Past) /\ Pointers
      /\ \A i \in 1..(Argc - 1) : given[i] \in Seq(Token)
  BY DEF Passed, InArgument, Nothing
<1>2. /\ nonoptStart = -1 <=> nonoptEnd = -1
      /\ nonoptStart # -1 => First < Past
      /\ optind < Argc /\ (~permute => nonoptStart = -1)
  BY <1>1 DEF Pointers, InArgument
<1>3. Reads(optind, next - 1, "option") /\ optind' = next /\ answer' = c
  BY DEF Reports, Answers
<1>4. Argc' = Argc
  BY DEF Argc
<1>5. /\ next \in Nat
      /\ Placed(argv, given, role', Argc, next,
                   IF nonoptStart = -1 THEN next ELSE nonoptStart,
                   IF nonoptEnd = -1 THEN next ELSE nonoptEnd)
  BY <1>1, <1>2, <1>3, OptionsRead
<1>6. /\ First' = IF nonoptStart = -1 THEN next ELSE nonoptStart
      /\ Past' = IF nonoptEnd = -1 THEN next ELSE nonoptEnd
  BY <1>3 DEF First, Past
<1>7. Placed(argv', given', role', Argc', optind', First', Past')
  BY <1>3, <1>4, <1>5, <1>6
<1>8. optind \in Nat /\ Past <= optind /\ Argc \in Nat /\ Past \in Nat
  BY <1>1, Shape
<1>9. Pointers'
  <2>1. nonoptStart # -1 => First' = First /\ Past' = Past
    BY <1>2, <1>6 DEF First, Past
  <2>2. place' = << >> => next > optind
    BY <1>8
  <2>3. nonoptEnd # -1 => Past' = Past
    BY <1>2, <2>1
  <2>4. place' = << >> /\ nonoptEnd # -1 => Past' < optind'
    BY <1>3, <1>5, <1>8, <2>2, <2>3
  <2>5. place' # << >> => optind' < Argc'
    BY <1>2, <1>3, <1>4
  <2> QED BY <1>2, <2>1, <2>4, <2>5 DEF Pointers
<1> QED BY <1>1, <1>3, <1>4, <1>7, <1>9 DEF Passed

\* The entry that is taken for a name is one of the table.
LEMMA FirstMatch ==
  ASSUME NEW name, Matches(name) # {}
  PROVE  FirstOf(Matches(name)) \in DOMAIN LongOption
<1>1. DOMAIN LongOption \subseteq Nat
  BY OptionAssumption
<1>2. Exact(name) \subseteq DOMAIN LongOption /\ Partial(name) \subseteq DOMAIN LongOption
  BY DEF Exact, Partial
<1>3. ASSUME NEW S, S \subseteq DOMAIN LongOption, S # {}
      PROVE  FirstOf(S) \in S
  <2>1. \E i \in S : \A j \in S : i <= j
    BY <1>1, <1>3, Least
  <2> QED BY <2>1 DEF FirstOf
<1>4. Matches(name) \subseteq DOMAIN LongOption
  BY <1>2, <1>3 DEF Matches
<1> QED BY <1>3, <1>4

LEMMA LongerThanOne ==
  ASSUME NEW s \in Seq(Token), Len(s) > 1
  PROVE  Tail(s) \in Seq(Token) /\ Tail(s) # << >> /\ Len(Tail(s)) = Len(s) - 1
<1>1. s # << >> /\ Len(s) \in Nat
  BY LenProperties, EmptySeq
<1>2. Tail(s) \in Seq(Token) /\ Len(Tail(s)) = Len(s) - 1
  BY <1>1, HeadTailProperties
<1>3. Tail(s) # << >>
  <2>1. Len(Tail(s)) # 0
    BY <1>1, <1>2
  <2> QED BY <2>1, EmptySeq
<1> QED BY <1>2, <1>3

\* What holds while getopt_long() looks at the next argument.
LEMMA WhileScanning ==
  ASSUME Passed, Scanning
  PROVE  /\ Placed(argv, given, role, Argc, optind, First, Past)
         /\ Pointers
         /\ Argc \in Nat /\ optind \in Nat /\ First \in Nat /\ Past \in Nat
         /\ First <= Past /\ Past <= optind /\ optind <= Argc
         /\ nonoptStart = -1 => nonoptEnd = -1 /\ First = optind /\ Past = optind
         /\ nonoptEnd = -1 => Past = optind
         /\ nonoptEnd # -1 => /\ nonoptStart = First /\ nonoptEnd = Past
                              /\ First < Past /\ Past < optind
         /\ nonoptStart # -1 => nonoptStart = First /\ First < Past
         /\ \A i \in 1..(Argc - 1) : given[i] \in Seq(Token)
<1>1. /\ Placed(argv, given, role, Argc, optind, First, Past) /\ Pointers
      /\ \A i \in 1..(Argc - 1) : given[i] \in Seq(Token)
  BY DEF Passed, Scanning, Nothing
<1>2. /\ Argc \in Nat /\ optind \in Nat /\ First \in Nat /\ Past \in Nat
      /\ First <= Past /\ Past <= optind /\ optind <= Argc
  BY <1>1, Shape
<1> QED BY <1>1, <1>2 DEF Pointers, Scanning, First, Past

LEMMA SameArgc ==
  ASSUME NEW gv, NEW rl, NEW m, NEW f, NEW p,
         Placed(argv, given, role, Argc, optind, First, Past),
         Placed(argv', gv, rl, Argc, m, f, p)
  PROVE  Argc' = Argc
<1>1. DOMAIN argv = 0..(Argc - 1) /\ DOMAIN argv' = 0..(Argc - 1)
  BY DEF Placed, ArgumentsFit
<1> QED BY <1>1 DEF Argc

\* The arguments have ended.
LEMMA PassedByEnd ==
  ASSUME Passed, EndOfArguments
  PROVE  Passed'
<1> USE DEF EndOfArguments
<1>1. UNCHANGED <<given, role>> /\ answer' = Nothing
  BY DEF Answers
<1>2. \E f : Placed(argv', given, role, Argc, optind, f, optind) /\ optind' = f
  <2>1. CASE nonoptEnd # -1
    <3>1. /\ argv' = PermuteArgs(First, Past, optind, argv)
          /\ optind' = optind - (Past - First) /\ First < Past /\ Past < optind
      BY <2>1, WhileScanning DEF Exchanged
    <3>2. Placed(argv', given, role, Argc, optind, First + (optind - Past), optind)
      BY <3>1, WhileScanning, WordsMoved
    <3>3. optind' = First + (optind - Past)
      BY <3>1, WhileScanning
    <3> QED BY <3>2, <3>3
  <2>2. CASE nonoptEnd = -1
    <3>1. argv' = argv /\ Past = optind /\ optind' = First
      BY <2>2, WhileScanning DEF First
    <3> QED BY <3>1, WhileScanning
  <2> QED BY <2>1, <2>2
<1>3. PICK f : Placed(argv', given, role, Argc, optind, f, optind) /\ optind' = f
  BY <1>2
<1>4. Argc' = Argc
  BY <1>3, WhileScanning, SameArgc
<1>5. Placed(argv', given', role', Argc', optind, f, optind)
  BY <1>1, <1>3, <1>4
<1>6. Parted'
  BY <1>3, <1>5, PartedWhenPlaced
<1> QED BY <1>1, <1>6 DEF Passed

\* A word has ended the options.
LEMMA PassedByStop ==
  ASSUME Passed, StopAtWord
  PROVE  Passed'
<1>1. UNCHANGED <<argv, given, role, optind>> /\ answer' = Nothing /\ ~permute /\ Scanning
  BY DEF StopAtWord, Answers, scanVars
<1>2. nonoptStart = -1
  BY <1>1, WhileScanning DEF Pointers
<1>3. Placed(argv, given, role, Argc, optind, optind, optind)
  <2>1. First = optind /\ Past = optind
    BY <1>1, <1>2, WhileScanning
  <2> QED BY <1>1, <2>1, WhileScanning
<1>4. Argc' = Argc
  BY <1>1 DEF Argc
<1>5. Placed(argv', given', role', Argc', optind, optind, optind) /\ optind' = optind
  BY <1>1, <1>3, <1>4
<1>6. Parted'
  <2> DEFINE f == optind
  <2>1. Placed(argv', given', role', Argc', f, f, f) /\ optind' = f
    BY <1>5
  <2> HIDE DEF f
  <2> QED BY <2>1, PartedWhenPlaced
<1> QED BY <1>1, <1>6 DEF Passed

\* A word has been passed over.
LEMMA PassedByWord ==
  ASSUME Passed, SkipWord
  PROVE  Passed'
<1>1. /\ Scanning /\ optind < Argc /\ permute /\ answer # Nothing
      /\ UNCHANGED <<place, permute, answer, given>>
      /\ optind' = optind + 1 /\ Reads(optind, optind, "word") /\ place = << >>
  BY DEF SkipWord, Scanning, Nothing
<1>2. role' = Read(role, optind, optind, "word")
  BY <1>1 DEF Reads, Read
<1>3. \E f \in Nat : /\ Placed(argv', given, role, Argc, optind, f, optind)
                     /\ nonoptStart' = f /\ nonoptEnd' = -1
  <2>1. CASE nonoptStart = -1 /\ nonoptStart' = optind /\ UNCHANGED <<argv, nonoptEnd>>
    <3>1. First = optind /\ Past = optind /\ nonoptEnd = -1 /\ optind \in Nat
      BY <1>1, <2>1, WhileScanning
    <3> QED BY <1>1, <2>1, <3>1, WhileScanning
  <2>2. CASE /\ nonoptEnd # -1
             /\ argv' = Exchanged
             /\ nonoptStart' = optind - (nonoptEnd - nonoptStart)
             /\ nonoptEnd' = -1
    <3>1. /\ argv' = PermuteArgs(First, Past, optind, argv)
          /\ nonoptStart' = optind - (Past - First) /\ First < Past /\ Past < optind
          /\ First \in Nat /\ Past \in Nat /\ optind \in Nat
      BY <1>1, <2>2, WhileScanning DEF Exchanged
    <3>2. Placed(argv', given, role, Argc, optind, First + (optind - Past), optind)
      BY <1>1, <3>1, WhileScanning, WordsMoved
    <3>3. nonoptStart' = First + (optind - Past) /\ First + (optind - Past) \in Nat
      BY <3>1
    <3> QED BY <2>2, <3>2, <3>3
  <2>3. CASE nonoptStart # -1 /\ nonoptEnd = -1 /\ UNCHANGED <<argv, nonoptStart, nonoptEnd>>
    <3>1. nonoptStart = First /\ Past = optind /\ First \in Nat
      BY <1>1, <2>3, WhileScanning
    <3> QED BY <1>1, <2>3, <3>1, WhileScanning
  <2> QED BY <2>1, <2>2, <2>3 DEF SkipWord
<1>4. PICK f \in Nat : /\ Placed(argv', given, role, Argc, optind, f, optind)
                       /\ nonoptStart' = f /\ nonoptEnd' = -1
  BY <1>3
<1>5. Placed(argv', given, role', Argc, optind + 1, f, optind + 1)
  BY <1>1, <1>2, <1>4, WordRead
<1>6. Argc' = Argc
  BY <1>1, <1>4, WhileScanning, SameArgc
<1>7. First' = f /\ Past' = optind + 1 /\ f <= optind /\ optind \in Nat
  <2>1. f <= optind /\ optind \in Nat
    BY <1>4, PlacedTypes
  <2> QED BY <1>1, <1>4, <2>1 DEF First, Past
<1>8. Placed(argv', given', role', Argc', optind', First', Past')
  BY <1>1, <1>5, <1>6, <1>7
<1>9. Pointers'
  BY <1>1, <1>4, <1>7 DEF Pointers
<1>10. place' \in Seq(Token) /\ \A i \in 1..(Argc' - 1) : given'[i] \in Seq(Token)
  BY <1>1, <1>6, WhileScanning, EmptySeq
<1> QED BY <1>1, <1>8, <1>9, <1>10 DEF Passed

\* "--" has ended the options.
LEMMA PassedByDashes ==
  ASSUME Passed, EndOfOptions
  PROVE  Passed'
<1>1. /\ Scanning /\ optind < Argc /\ answer' = Nothing /\ UNCHANGED given
      /\ Reads(optind, optind, "option")
  BY DEF EndOfOptions, Answers
<1>2. role' = Read(role, optind, optind, "option")
  BY <1>1 DEF Reads, Read
<1>3. /\ Argc \in Nat /\ optind \in Nat /\ First \in Nat /\ Past \in Nat
      /\ First <= Past /\ Past <= optind
  BY <1>1, WhileScanning
<1>4. Placed(argv, given, role', Argc, optind + 1, First, Past)
  BY <1>1, <1>2, WhileScanning, OptionRead
<1>5. \E f : Placed(argv', given, role', Argc, optind + 1, f, optind + 1) /\ optind' = f
  <2>1. CASE WordsEnd # -1
    <3>1. nonoptStart = First /\ WordsEnd = Past /\ First < Past
      BY <1>1, <2>1, WhileScanning DEF WordsEnd
    <3>2. /\ argv' = PermuteArgs(First, Past, optind + 1, argv)
          /\ optind' = (optind + 1) - (Past - First)
      <4>1. /\ argv' = PermuteArgs(nonoptStart, WordsEnd, optind + 1, argv)
            /\ optind' = optind + 1 - (WordsEnd - nonoptStart)
        BY <2>1 DEF EndOfOptions
      <4> QED BY <1>3, <3>1, <4>1
    <3>3. Past < optind + 1
      BY <1>3
    <3>4. Placed(argv', given, role', Argc, optind + 1, First + ((optind + 1) - Past), optind + 1)
      BY <1>4, <3>1, <3>2, <3>3, WordsMoved
    <3>5. optind' = First + ((optind + 1) - Past)
      BY <1>3, <3>2
    <3> QED BY <3>4, <3>5
  <2>2. CASE WordsEnd = -1
    <3>1. First = optind /\ Past = optind
      BY <1>1, <1>3, <2>2, WhileScanning DEF WordsEnd
    <3>2. argv' = argv /\ optind' = optind + 1
      BY <2>2 DEF EndOfOptions
    <3>3. optind + 1 \in 1..(optind + 1)
      BY <1>3
    <3>4. Placed(argv, given, role', Argc, optind + 1, optind, optind)
      BY <1>4, <3>1
    <3>5. Placed(argv, given, role', Argc, optind + 1, optind + 1, optind + 1)
      BY <3>3, <3>4, NoWords
    <3> QED BY <3>2, <3>5
  <2> QED BY <2>1, <2>2
<1>6. PICK f : Placed(argv', given, role', Argc, optind + 1, f, optind + 1) /\ optind' = f
  BY <1>5
<1>7. Argc' = Argc
  BY <1>1, <1>6, WhileScanning, SameArgc
<1>8. Placed(argv', given', role', Argc', optind + 1, f, optind + 1)
  BY <1>1, <1>6, <1>7
<1>9. Parted'
  BY <1>6, <1>8, PartedWhenPlaced
<1> QED BY <1>1, <1>9 DEF Passed

\* An argument with options has been opened.
LEMMA PassedByOpening ==
  ASSUME Passed, OpenArgument
  PROVE  Passed' /\ place' = Tail(given[optind]) /\ Len(given[optind]) > 1
         /\ given[optind] \in Seq(Token) /\ given[optind][1] = "-"
<1>1. /\ Scanning /\ optind < Argc /\ ~IsWord(argv[optind])
      /\ place' = Tail(argv[optind]) /\ nonoptEnd' = WordsEnd /\ answer # Nothing
      /\ UNCHANGED <<argv, nonoptStart, optind, permute, answer, given, role>>
  BY DEF OpenArgument, Scanning, Nothing
<1>2. /\ Argc \in Nat /\ optind \in Nat /\ First \in Nat /\ Past \in Nat /\ 1 <= optind
      /\ First <= Past /\ Past <= optind
      /\ Placed(argv, given, role, Argc, optind, First, Past)
      /\ argv[optind] = given[optind] /\ given[optind] \in Seq(Token)
  <2>1. /\ Placed(argv, given, role, Argc, optind, First, Past)
        /\ \A i \in 1..(Argc - 1) : given[i] \in Seq(Token)
    BY <1>1, WhileScanning
  <2>2. /\ Argc \in Nat /\ optind \in Nat /\ First \in Nat /\ Past \in Nat
        /\ 1 <= First /\ First <= Past /\ Past <= optind
        /\ \A i \in optind..(Argc - 1) : argv[i] = given[i]
    BY <2>1, Shape
  <2>3. optind \in optind..(Argc - 1) /\ optind \in 1..(Argc - 1)
    BY <1>1, <2>2
  <2> QED BY <2>1, <2>2, <2>3
<1>3. /\ place' \in Seq(Token) /\ place' # << >> /\ place' = Tail(given[optind])
      /\ Len(given[optind]) > 1 /\ given[optind][1] = "-"
  BY <1>1, <1>2, LongerThanOne DEF IsWord
<1>4. First' = First /\ Past' = Past
  BY <1>1, <1>2, WhileScanning DEF First, Past, WordsEnd
<1>5. Argc' = Argc
  BY <1>1 DEF Argc
<1>6. Pointers'
  <2>1. Pointers
    BY <1>1, WhileScanning
  <2>2. nonoptStart = -1 => nonoptEnd' = -1
    BY <1>1, <2>1 DEF Pointers, WordsEnd
  <2>3. nonoptStart # -1 => nonoptEnd' # -1
    BY <1>1, <1>2 DEF WordsEnd
  <2> QED BY <1>1, <1>3, <1>4, <1>5, <2>1, <2>2, <2>3 DEF Pointers
<1>7. /\ Placed(argv', given', role', Argc', optind', First', Past')
      /\ \A i \in 1..(Argc' - 1) : given'[i] \in Seq(Token)
  BY <1>1, <1>2, <1>4, <1>5, WhileScanning
<1> QED BY <1>1, <1>2, <1>3, <1>6, <1>7 DEF Passed

\* An option has been reported.
LEMMA PassedByAnswer ==
  ASSUME Passed,
         LongRejected \/ LongAccepted \/ ShortUnknown \/ ShortPlain \/ ShortWithValue
  PROVE  Passed'
<1>1. /\ InArgument /\ UNCHANGED <<argv, nonoptStart, nonoptEnd, permute, given>>
  BY DEF LongRejected, LongAccepted, ShortUnknown, ShortPlain, ShortWithValue
<1>2. /\ Argc \in Nat /\ optind \in Nat /\ optind < Argc /\ place \in Seq(Token) /\ place # << >>
  <2>1. Placed(argv, given, role, Argc, optind, First, Past) /\ Pointers /\ place \in Seq(Token)
        /\ place # << >>
    BY <1>1 DEF Passed, InArgument, Nothing
  <2> QED BY <2>1, Shape DEF Pointers
<1>3. Tail(place) \in Seq(Token) /\ << >> \in Seq(Token)
  BY <1>2, HeadTailProperties, EmptySeq
<1>4. CASE LongRejected \/ LongAccepted \/ ShortWithValue
  <2>1. \E c, value, next : /\ Reports(c, value, next) /\ c # Nothing
                            /\ next = optind + 1 \/ (next = optind + 2 /\ optind + 1 < Argc)
    <3>1. CASE LongRejected
      BY <3>1 DEF LongRejected, Unknown, Nothing
    <3>2. CASE LongAccepted
      <4>1. PICK o : /\ o = LongOption[FirstOf(Matches(NameIn(Tail(place))))]
                     /\ \/ \E value : Reports(o.val, value, optind + 1)
                        \/ /\ optind + 1 < Argc
                           /\ \E value : Reports(o.val, value, optind + 2)
                        \/ Reports(Unknown, Null, optind + 1)
        BY <3>2 DEF LongAccepted
      <4>2. o.val # Nothing
        <5>1. Matches(NameIn(Tail(place))) # {}
          BY <3>2 DEF LongAccepted
        <5>2. FirstOf(Matches(NameIn(Tail(place)))) \in DOMAIN LongOption
          BY <5>1, FirstMatch
        <5> QED BY <4>1, <5>2, OptionAssumption
      <4> QED BY <4>1, <4>2 DEF Unknown, Nothing
    <3>3. CASE ShortWithValue
      <4>1. Letter # Nothing
        BY <3>3, OptionAssumption DEF ShortWithValue, Takes
      <4>2. \/ \E value : Reports(Letter, value, optind + 1)
            \/ /\ optind + 1 < Argc
               /\ \E value : Reports(Letter, value, optind + 2)
            \/ Reports(Unknown, Null, optind + 1)
        BY <3>3 DEF ShortWithValue
      <4> QED BY <4>1, <4>2 DEF Unknown, Nothing
    <3> QED BY <1>4, <3>1, <3>2, <3>3
  <2>2. PICK c, value, next : /\ Reports(c, value, next) /\ c # Nothing
                              /\ next = optind + 1 \/ (next = optind + 2 /\ optind + 1 < Argc)
    BY <2>1
  <2>3. next <= Argc /\ next # optind /\ next \in {optind, optind + 1, optind + 2}
    BY <1>2, <2>2
  <2>4. place' = << >>
    BY <1>4 DEF LongRejected, LongAccepted, ShortWithValue
  <2> QED BY <1>1, <1>3, <2>2, <2>3, <2>4, PassedByReport
<1>5. CASE ShortUnknown \/ ShortPlain
  <2>1. /\ place' = Tail(place)
        /\ \E c, value : Reports(c, value, NextAfterLetter) /\ c # Nothing
    <3>1. CASE ShortUnknown
      BY <3>1 DEF ShortUnknown, Unknown, Nothing
    <3>2. CASE ShortPlain
      <4>1. Letter # Nothing
        BY <3>2, OptionAssumption DEF ShortPlain, Takes
      <4> QED BY <3>2, <4>1 DEF ShortPlain
    <3> QED BY <1>5, <3>1, <3>2
  <2>2. PICK c, value : Reports(c, value, NextAfterLetter) /\ c # Nothing
    BY <2>1
  <2> DEFINE next == NextAfterLetter
  <2>3. /\ next \in {optind, optind + 1, optind + 2} /\ next <= Argc
        /\ place' # << >> => next = optind
        /\ place' = << >> => next # optind
    BY <1>2, <2>1 DEF NextAfterLetter
  <2>4. Reports(c, value, next)
    BY <2>2
  <2> HIDE DEF next
  <2> QED BY <1>1, <1>3, <2>1, <2>2, <2>3, <2>4, PassedByReport
<1> QED BY <1>4, <1>5

-----------------------------------------------------------------------------
(* The reports of getopt_long()                                                 *)

IsSequence(s) == s \in Seq({s[i] : i \in DOMAIN s})

\* Append makes a sequence longer by its last element.
LEMMA Longer ==
  ASSUME NEW s, IsSequence(s), NEW e
  PROVE  /\ IsSequence(Append(s, e))
         /\ Len(s) \in Nat /\ DOMAIN s = 1..Len(s) /\ DOMAIN Append(s, e) = 1..(Len(s) + 1)
         /\ \A i \in DOMAIN s : Append(s, e)[i] = s[i]
         /\ Append(s, e)[Len(s) + 1] = e
<1> DEFINE S == {s[i] : i \in DOMAIN s} \cup {e}
           t == Append(s, e)
<1>1. Len(s) \in Nat /\ DOMAIN s = 1..Len(s) /\ s \in [1..Len(s) -> {s[i] : i \in DOMAIN s}]
  <2>1. s \in Seq({s[i] : i \in DOMAIN s})
    BY DEF IsSequence
  <2> QED BY <2>1, LenProperties
<1>2. s \in Seq(S) /\ e \in S
  <2>1. s \in [1..Len(s) -> S]
    BY <1>1
  <2> QED BY <1>1, <2>1, SeqDef
<1> HIDE DEF S
<1>3. /\ t \in Seq(S) /\ Len(t) = Len(s) + 1
      /\ \A i \in 1..Len(s) : t[i] = s[i]
      /\ t[Len(s) + 1] = e
  BY <1>2, AppendProperties
<1>4. DOMAIN t = 1..(Len(s) + 1)
  BY <1>3, LenProperties
<1> HIDE DEF t
<1>5. IsSequence(t)
  <2> DEFINE n == Len(s) + 1
             R == {t[i] : i \in DOMAIN t}
  <2>1. t \in [1..n -> R] /\ n \in Nat
    <3>1. t \in [1..n -> S]
      BY <1>3, <1>4, LenProperties
    <3> QED BY <1>1, <1>4, <3>1
  <2> HIDE DEF n, R
  <2>2. t \in Seq(R)
    BY <2>1, SeqDef
  <2> QED BY <2>2 DEF IsSequence, R
<1> QED BY <1>1, <1>3, <1>4, <1>5 DEF t

\* The number of reports of argument a among the first i.
Cnt(rep, i, a) == Cardinality({j \in 1..i : rep[j].at = a})

\* Report i is as ReportedAsGiven has it, and its arguments are there.
AsGiven(rep, gv, rl, m, i) ==
  LET r == rep[i]
      k == Cnt(rep, i, r.at)
      o == gv[r.at][k + 1]
  IN /\ r.at \in DOMAIN rl
     /\ rl[r.at] = "option" \/ r.at = m
     /\ k < Len(gv[r.at])
     /\ o # "-" => r.answer \in {o, Unknown}
     /\ r.value # Null => \/ InArgumentOf(r.value, gv[r.at])
                          \/ /\ r.value = gv[r.at + 1]
                             /\ r.at + 1 \in DOMAIN rl
                             /\ rl[r.at + 1] = "option"

\* What came before stays as given.
LEMMA AsGivenStays ==
  ASSUME NEW rep, NEW req, NEW gv, NEW rl, NEW rk, NEW m, NEW n, NEW i \in Nat \ {0},
         \A j \in 1..i : req[j] = rep[j], DOMAIN rk = DOMAIN rl,
         \A x \in DOMAIN rl : rl[x] = "option" => rk[x] = "option",
         rk[rep[i].at] = "option" \/ rep[i].at = n,
         AsGiven(rep, gv, rl, m, i)
  PROVE  AsGiven(req, gv, rk, n, i)
<1>1. i \in 1..i /\ req[i] = rep[i]
  OBVIOUS
<1>2. {j \in 1..i : req[j].at = rep[i].at} = {j \in 1..i : rep[j].at = rep[i].at}
  OBVIOUS
<1> QED BY <1>1, <1>2 DEF AsGiven, Cnt

LEMMA CntTypes ==
  ASSUME NEW rep, NEW i \in Nat, NEW a
  PROVE  /\ Cnt(rep, i, a) \in Nat
         /\ rep[i + 1].at = a => Cnt(rep, i + 1, a) = Cnt(rep, i, a) + 1
         /\ (\A j \in 1..i : rep[j].at # a) => Cnt(rep, i, a) = 0
<1> DEFINE S == {j \in 1..i : rep[j].at = a}
           T == {j \in 1..(i + 1) : rep[j].at = a}
<1>1. IsFiniteSet(S)
  <2>1. IsFiniteSet(1..i)
    BY FS_Interval
  <2> QED BY <2>1, FS_Subset
<1>2. Cardinality(S) \in Nat
  BY <1>1, FS_CardinalityType
<1>3. ASSUME rep[i + 1].at = a PROVE Cardinality(T) = Cardinality(S) + 1
  <2>1. T = S \cup {i + 1} /\ i + 1 \notin S
    BY <1>3
  <2> HIDE DEF S, T
  <2> QED BY <1>1, <2>1, FS_AddElement
<1>4. ASSUME \A j \in 1..i : rep[j].at # a PROVE Cardinality(S) = 0
  <2>1. S = {}
    BY <1>4
  <2> QED BY <2>1, FS_EmptySet
<1> QED BY <1>2, <1>3, <1>4 DEF Cnt

\* place is what is left of argument a, k of its letters having been reported.
RestOf(text, a, k) ==
  /\ a \in Seq(Token) /\ k \in Nat
  /\ Len(text) = Len(a) - 1 - k
  /\ \A q \in 1..Len(text) : text[q] = a[q + 1 + k]

\* The reports go forward through the arguments, and each is as given.
AllAsGiven ==
  /\ \A i, j \in DOMAIN reported : i < j => reported[i].at <= reported[j].at
  /\ \A i \in DOMAIN reported : AsGiven(reported, given, role, optind, i)

\* With it, how far the argument that is open has been read.
ReportsHold ==
  /\ AllAsGiven
  /\ answer # Nothing =>
       /\ answer = "running" => optarg = Null
       /\ IsSequence(reported)
       /\ \A i \in DOMAIN reported :
            /\ reported[i].at \in 1..optind
            /\ role[reported[i].at] = "option" \/ (reported[i].at = optind /\ place # << >>)
       /\ place # << >> =>
            RestOf(place, given[optind], Cnt(reported, Len(reported), optind))

\* A new report is as given when its letter and value come from the argument that is open.
LEMMA NewReport ==
  ASSUME Passed, ReportsHold, InArgument, NEW c, c \notin {Nothing, "running"},
         NEW value, NEW next, Reports(c, value, next),
         next \in {optind, optind + 1, optind + 2}, next <= Argc,
         place' # << >> => next = optind /\ place' = Tail(place),
         place' = << >> => next # optind,
         UNCHANGED <<argv, given>>,
         NEW g, g = given[optind], NEW k, k = Cnt(reported, Len(reported), optind) + 1,
         g[k + 1] # "-" => c \in {g[k + 1], Unknown},
         value # Null => InArgumentOf(value, g) \/ (value = given[optind + 1] /\ next = optind + 2)
  PROVE  ReportsHold'
<1> DEFINE n == Len(reported)
           r == [answer |-> c, value |-> value, at |-> optind]
           rq == reported'
           rk == role'
<1>1. /\ Placed(argv, given, role, Argc, optind, First, Past) /\ optind < Argc
      /\ place # << >> /\ place \in Seq(Token)
  BY DEF Passed, InArgument, Nothing, Pointers
<1>2. /\ Argc \in Nat /\ DOMAIN role = 0..(Argc - 1) /\ optind \in Nat /\ 1 <= optind
  BY <1>1, Shape
<1>3. /\ AllAsGiven /\ IsSequence(reported)
      /\ \A i \in DOMAIN reported :
            /\ reported[i].at \in 1..optind
            /\ role[reported[i].at] = "option" \/ reported[i].at = optind
      /\ RestOf(place, g, k - 1) /\ k - 1 \in Nat /\ k \in Nat
  <2>1. IsSequence(reported) /\ RestOf(place, g, Cnt(reported, n, optind))
    BY <1>1 DEF ReportsHold, InArgument, Nothing
  <2>2. Cnt(reported, n, optind) \in Nat
    BY <2>1 DEF RestOf
  <2>3. k - 1 = Cnt(reported, n, optind)
    BY <2>2
  <2> QED BY <1>1, <2>1, <2>2, <2>3 DEF ReportsHold, InArgument, Nothing
<1>4. /\ optind' = next /\ answer' = c /\ reported' = Append(reported, r) /\ next \in Nat
      /\ Reads(optind, next - 1, "option")
  BY <1>2 DEF Reports, Answers
<1>5. /\ IsSequence(rq)
      /\ n \in Nat /\ DOMAIN reported = 1..n /\ DOMAIN rq = 1..(n + 1) /\ Len(rq) = n + 1
      /\ \A i \in 1..n : rq[i] = reported[i]
      /\ rq[n + 1] = r
  <2>1. /\ IsSequence(rq)
        /\ n \in Nat /\ DOMAIN reported = 1..n /\ DOMAIN rq = 1..(n + 1)
        /\ \A i \in 1..n : rq[i] = reported[i]
        /\ rq[n + 1] = r
    BY <1>3, <1>4, Longer
  <2>2. Len(rq) = n + 1
    <3>1. rq \in Seq({rq[i] : i \in DOMAIN rq})
      BY <2>1 DEF IsSequence
    <3>2. DOMAIN rq = 1..Len(rq) /\ Len(rq) \in Nat
      BY <3>1, LenProperties
    <3>3. n + 1 \in 1..Len(rq) /\ (Len(rq) >= 1 => Len(rq) \in 1..(n + 1))
      BY <2>1, <3>2
    <3> QED BY <2>1, <3>2, <3>3
  <2> QED BY <2>1, <2>2
<1>6. /\ DOMAIN rk = DOMAIN role
      /\ \A x \in DOMAIN role : role[x] = "option" => rk[x] = "option"
      /\ next # optind => rk[optind] = "option"
      /\ next = optind + 2 => optind + 1 \in DOMAIN role /\ rk[optind + 1] = "option"
  BY <1>1, <1>2, <1>4 DEF Reads
<1>7. r.at = optind /\ r.answer = c /\ r.value = value /\ optind \in DOMAIN role
  BY <1>1, <1>2
<1> HIDE DEF n, r, rq, rk
<1>8. ASSUME NEW i \in DOMAIN rq
      PROVE  /\ rq[i].at \in 1..optind /\ rq[i].at \in DOMAIN role
             /\ rk[rq[i].at] = "option" \/ (rq[i].at = optind /\ next = optind)
  <2>1. CASE i \in 1..n
    <3>1. rq[i].at \in 1..optind /\ (role[rq[i].at] = "option" \/ rq[i].at = optind)
      BY <1>3, <1>5, <2>1
    <3>2. rq[i].at \in DOMAIN role
      BY <1>1, <1>2, <3>1
    <3> QED BY <1>6, <3>1, <3>2
  <2>2. CASE i = n + 1
    BY <1>2, <1>5, <1>6, <1>7, <2>2
  <2> QED BY <1>5, <2>1, <2>2
<1>9. \A i, j \in DOMAIN rq : i < j => rq[i].at <= rq[j].at
  <2> SUFFICES ASSUME NEW i \in DOMAIN rq, NEW j \in DOMAIN rq, i < j
               PROVE  rq[i].at <= rq[j].at
    OBVIOUS
  <2>1. i \in 1..n
    BY <1>5
  <2>2. CASE j \in 1..n
    BY <1>3, <1>5, <2>1, <2>2 DEF AllAsGiven
  <2>3. CASE j = n + 1
    <3>1. rq[j].at = optind /\ rq[i].at \in 1..optind
      BY <1>5, <1>7, <1>8, <2>3
    <3> QED BY <1>2, <3>1
  <2> QED BY <1>5, <2>2, <2>3
<1>10. Cnt(rq, n + 1, optind) = k
  <2>1. Cnt(rq, n, optind) = Cnt(reported, n, optind)
    <3>1. {j \in 1..n : rq[j].at = optind} = {j \in 1..n : reported[j].at = optind}
      BY <1>5
    <3> QED BY <3>1 DEF Cnt
  <2>2. rq[n + 1].at = optind
    BY <1>5, <1>7
  <2>3. Cnt(rq, n + 1, optind) = Cnt(rq, n, optind) + 1
    BY <1>5, <2>2, CntTypes
  <2> QED BY <2>1, <2>3 DEF n
<1>11. k < Len(g) /\ Len(place) \in Nat /\ Len(place) >= 1 /\ Len(g) \in Nat
  <2>1. Len(place) \in Nat /\ Len(place) # 0 /\ Len(g) \in Nat /\ Len(place) = Len(g) - 1 - (k - 1)
    BY <1>1, <1>3, LenProperties, EmptySeq DEF RestOf
  <2> QED BY <1>3, <2>1
<1>12. AsGiven(rq, given, rk, next, n + 1)
  <2> DEFINE i == n + 1
  <2>1. rq[i] = r /\ rq[i].at = optind /\ rq[i].answer = c /\ rq[i].value = value
        /\ Cnt(rq, i, rq[i].at) = k /\ given[rq[i].at] = g
    BY <1>5, <1>7, <1>10
  <2>2. rk[optind] = "option" \/ optind = next
    BY <1>6
  <2>3. value # Null => \/ InArgumentOf(value, g)
                        \/ /\ value = given[optind + 1]
                           /\ optind + 1 \in DOMAIN rk /\ rk[optind + 1] = "option"
    BY <1>6
  <2>4. optind \in DOMAIN rk
    BY <1>6, <1>7
  <2> HIDE DEF i
  <2>5. AsGiven(rq, given, rk, next, i)
    BY <1>11, <2>1, <2>2, <2>3, <2>4 DEF AsGiven
  <2> QED BY <2>5 DEF i
<1>13. ASSUME NEW i \in 1..n PROVE AsGiven(rq, given, rk, next, i)
  <2>1. /\ i \in Nat \ {0} /\ \A j \in 1..i : rq[j] = reported[j]
    BY <1>5
  <2>2. AsGiven(reported, given, role, optind, i)
    BY <1>3, <1>5 DEF AllAsGiven
  <2>3. i \in DOMAIN rq /\ rq[i] = reported[i]
    BY <1>5
  <2>4. rk[reported[i].at] = "option" \/ reported[i].at = next
    BY <1>8, <2>3
  <2> QED BY <1>6, <2>1, <2>2, <2>4, AsGivenStays
<1>14. AllAsGiven'
  <2>1. \A i \in DOMAIN rq : AsGiven(rq, given, rk, next, i)
    <3>1. \A i \in DOMAIN rq : i \in 1..n \/ i = n + 1
      BY <1>5
    <3> QED BY <1>12, <1>13, <3>1
  <2>2. UNCHANGED given
    OBVIOUS
  <2> QED BY <1>4, <1>9, <2>1, <2>2 DEF AllAsGiven, rq, rk
<1>15. place' # << >> => RestOf(place', given'[optind'], Cnt(reported', Len(reported'), optind'))
  <2> SUFFICES ASSUME place' # << >>
               PROVE  RestOf(place', g, k)
    BY <1>4, <1>5, <1>10 DEF rq
  <2>1. place' = Tail(place) /\ Len(place') = Len(place) - 1
        /\ \A q \in 1..Len(place') : place'[q] = place[q + 1]
    BY <1>1, HeadTailProperties
  <2>2. /\ g \in Seq(Token) /\ Len(place) = Len(g) - 1 - (k - 1)
        /\ \A q \in 1..Len(place) : place[q] = g[q + 1 + (k - 1)]
    BY <1>3 DEF RestOf
  <2>3. Len(place') = Len(g) - 1 - k
    <3> DEFINE a == Len(g)
               b == Len(place)
    <3>1. a \in Nat /\ b \in Nat /\ k \in Nat /\ b = a - 1 - (k - 1)
      BY <1>3, <1>11, <2>2
    <3> HIDE DEF a, b
    <3>2. b - 1 = a - 1 - k
      BY <3>1
    <3> QED BY <2>1, <3>2 DEF a, b
  <2>4. ASSUME NEW q \in 1..Len(place') PROVE place'[q] = g[q + 1 + k]
    <3>1. q + 1 \in 1..Len(place) /\ (q + 1) + 1 + (k - 1) = q + 1 + k
      BY <1>3, <1>11, <2>1
    <3> QED BY <2>1, <2>2, <3>1
  <2> QED BY <1>3, <2>2, <2>3, <2>4 DEF RestOf
<1>16. \A i \in DOMAIN reported' :
         /\ reported'[i].at \in 1..optind'
         /\ role'[reported'[i].at] = "option" \/ (reported'[i].at = optind' /\ place' # << >>)
  <2>1. 1..optind \subseteq 1..next
    BY <1>2
  <2> QED BY <1>4, <1>8, <2>1 DEF rq, rk
<1> QED BY <1>4, <1>5, <1>14, <1>15, <1>16 DEF ReportsHold, rq

\* Ends of one sequence are ends of the other it is an end of.
LEMMA SameEnd ==
  ASSUME NEW s \in Seq(Token), NEW t \in Seq(Token), NEW d \in Nat, Len(s) = Len(t) - d,
         \A q \in 1..Len(s) : s[q] = t[q + d], NEW e \in 1..(Len(s) + 1)
  PROVE  SubSeq(s, e, Len(s)) = SubSeq(t, e + d, Len(t))
<1> DEFINE m == Len(s)
           n == Len(t)
           f == e + d
           u == SubSeq(s, e, m)
           v == SubSeq(t, f, n)
<1>1. m \in Nat /\ n \in Nat /\ f \in Nat /\ m = n - d /\ e \in Nat /\ e >= 1 /\ f = e + d
  BY LenProperties
<1>2. /\ \A i \in 1..m : s[i] \in Token
      /\ \A i \in 1..n : t[i] \in Token
  BY ElementOfSeq
<1>3. /\ u \in Seq(Token) /\ Len(u) = IF e <= m THEN m - e + 1 ELSE 0
      /\ \A i \in 1..(m - e + 1) : u[i] = s[e + i - 1]
  <2>1. \A i \in e..m : s[i] \in Token
    BY <1>1, <1>2
  <2> QED BY <1>1, <2>1, SubSeqProperties
<1>4. /\ v \in Seq(Token) /\ Len(v) = IF f <= n THEN n - f + 1 ELSE 0
      /\ \A i \in 1..(n - f + 1) : v[i] = t[f + i - 1]
  <2>1. \A i \in f..n : t[i] \in Token
    BY <1>1, <1>2
  <2> HIDE DEF f
  <2> QED BY <1>1, <2>1, SubSeqProperties
<1> HIDE DEF u, v, f, m, n
<1>5. Len(u) = Len(v) /\ Len(u) <= m - e + 1 /\ Len(u) \in Nat
  BY <1>1, <1>3, <1>4 DEF m
<1>6. ASSUME NEW i \in 1..Len(u) PROVE u[i] = v[i]
  <2>1. /\ i \in 1..(m - e + 1) /\ i \in 1..(n - f + 1)
        /\ e + i - 1 \in 1..m /\ (e + i - 1) + d = f + i - 1
    BY <1>1, <1>5
  <2>2. s[e + i - 1] = t[(e + i - 1) + d]
    BY <2>1 DEF m
  <2> QED BY <1>3, <1>4, <2>1, <2>2
<1>7. u = v
  BY <1>3, <1>4, <1>5, <1>6, SeqEqual
<1> QED BY <1>7 DEF u, v, f, m, n

\* What getopt_long() looks at inside an argument.
LEMMA InsideArgument ==
  ASSUME Passed, ReportsHold, InArgument, NEW g, g = given[optind],
         NEW k, k = Cnt(reported, Len(reported), optind) + 1
  PROVE  /\ k \in Nat /\ k >= 1 /\ g \in Seq(Token) /\ place \in Seq(Token) /\ Len(place) = Len(g) - k
         /\ \A q \in 1..Len(place) : place[q] = g[q + k]
         /\ place[1] = g[k + 1] /\ Len(place) \in Nat /\ Len(place) >= 1
         /\ optarg = Null /\ optind < Argc /\ Argc \in Nat /\ optind \in Nat
         /\ optind + 1 < Argc => argv[optind + 1] = given[optind + 1]
<1>1. /\ Placed(argv, given, role, Argc, optind, First, Past) /\ Pointers
      /\ place # << >> /\ place \in Seq(Token)
      /\ RestOf(place, g, k - 1) /\ k - 1 \in Nat /\ optarg = Null
  <2>1. /\ RestOf(place, g, Cnt(reported, Len(reported), optind)) /\ optarg = Null
        /\ Cnt(reported, Len(reported), optind) \in Nat
    BY DEF ReportsHold, InArgument, Nothing, RestOf
  <2>2. k - 1 = Cnt(reported, Len(reported), optind) /\ k - 1 \in Nat
    BY <2>1
  <2> QED BY <2>1, <2>2 DEF Passed, InArgument, Nothing
<1>2. /\ optind < Argc /\ Argc \in Nat /\ optind \in Nat
      /\ optind + 1 < Argc => argv[optind + 1] = given[optind + 1]
  <2>1. /\ Argc \in Nat /\ optind \in Nat
        /\ \A i \in optind..(Argc - 1) : argv[i] = given[i]
    BY <1>1, Shape
  <2>2. optind + 1 < Argc => optind + 1 \in optind..(Argc - 1)
    BY <2>1
  <2> QED BY <1>1, <2>1, <2>2 DEF Pointers
<1>3. Len(place) \in Nat /\ Len(place) >= 1
  <2>1. Len(place) \in Nat /\ Len(place) # 0
    BY <1>1, LenProperties, EmptySeq
  <2> QED BY <2>1
<1>4. /\ g \in Seq(Token) /\ Len(place) = Len(g) - 1 - (k - 1)
      /\ \A q \in 1..Len(place) : place[q] = g[q + 1 + (k - 1)]
  BY <1>1 DEF RestOf
<1>5. k \in Nat /\ k >= 1 /\ Len(g) \in Nat /\ Len(g) - 1 - (k - 1) = Len(g) - k
  BY <1>1, <1>4, LenProperties
<1>6. \A q \in 1..Len(place) : q + 1 + (k - 1) = q + k
  BY <1>5
<1>7. \A q \in 1..Len(place) : place[q] = g[q + k]
  BY <1>4, <1>6
<1>8. place[1] = g[k + 1]
  BY <1>3, <1>5, <1>7
<1> QED BY <1>1, <1>2, <1>3, <1>4, <1>5, <1>7, <1>8

\* A value within the argument is the end of it.
LEMMA ValueInside ==
  ASSUME Passed, ReportsHold, InArgument, NEW g, g = given[optind]
  PROVE  /\ Tail(place) \in Seq(Token)
         /\ InArgumentOf(Tail(place), g)
         /\ ValueIn(Tail(place)) # Null => InArgumentOf(ValueIn(Tail(place)), g)
<1> DEFINE k == Cnt(reported, Len(reported), optind) + 1
           text == Tail(place)
<1>1. /\ k \in Nat /\ g \in Seq(Token) /\ place \in Seq(Token) /\ Len(place) = Len(g) - k
      /\ \A q \in 1..Len(place) : place[q] = g[q + k]
      /\ Len(place) \in Nat /\ Len(place) >= 1
  BY InsideArgument
<1> HIDE DEF k
<1>2. place # << >> /\ Len(g) \in Nat /\ DOMAIN g = 1..Len(g)
  <2>1. Len(<< >>) = 0
    BY EmptySeq
  <2> QED BY <1>1, <2>1, LenProperties
<1>3. text \in Seq(Token) /\ Len(text) = Len(place) - 1 /\ text = SubSeq(place, 2, Len(place))
      /\ \A q \in 1..Len(text) : text[q] = place[q + 1]
  BY <1>1, <1>2, HeadTailProperties, TailIsSubSeq
<1>4. InArgumentOf(text, g)
  <2>1. 2 \in 1..(Len(place) + 1)
    BY <1>1
  <2>2. text = SubSeq(g, 2 + k, Len(g))
    BY <1>1, <1>3, <2>1, SameEnd
  <2>3. k + 1 \in DOMAIN g /\ (k + 1) + 1 = 2 + k
    BY <1>1, <1>2
  <2> QED BY <2>2, <2>3 DEF InArgumentOf
<1>5. ASSUME Equals(text) # {} PROVE InArgumentOf(ValueIn(text), g)
  <2>1. DOMAIN text = 1..Len(text) /\ Len(text) \in Nat
    BY <1>3, LenProperties
  <2>2. PICK e \in Equals(text) : e = FirstOf(Equals(text))
    <3>1. Equals(text) \subseteq Nat
      BY <2>1 DEF Equals
    <3>2. \E i \in Equals(text) : \A j \in Equals(text) : i <= j
      BY <1>5, <3>1, Least
    <3>3. FirstOf(Equals(text)) \in Equals(text)
      BY <3>2 DEF FirstOf
    <3> QED BY <3>3
  <2>3. e \in 1..Len(text)
    BY <2>1 DEF Equals
  <2>4. ValueIn(text) = SubSeq(text, e + 1, Len(text))
    BY <1>5, <2>2 DEF ValueIn
  <2> DEFINE d == k + 1
  <2>5. /\ d \in Nat /\ Len(text) = Len(g) - d
        /\ \A q \in 1..Len(text) : text[q] = g[q + d]
    <3>1. d \in Nat /\ Len(text) = Len(g) - d
      BY <1>1, <1>2, <1>3
    <3>2. ASSUME NEW q \in 1..Len(text) PROVE text[q] = g[q + d]
      <4>1. q + 1 \in 1..Len(place) /\ (q + 1) + k = q + d
        BY <1>1, <1>3
      <4> QED BY <1>1, <1>3, <4>1
    <3> QED BY <3>1, <3>2
  <2> HIDE DEF d, text
  <2>6. e + 1 \in 1..(Len(text) + 1)
    BY <2>1, <2>3
  <2>7. SubSeq(text, e + 1, Len(text)) = SubSeq(g, (e + 1) + d, Len(g))
    <3>1. text \in Seq(Token) /\ g \in Seq(Token)
      BY <1>1, <1>3
    <3> QED BY <2>5, <2>6, <3>1, SameEnd
  <2>8. e + d \in DOMAIN g /\ (e + d) + 1 = (e + 1) + d
    BY <1>2, <2>1, <2>3, <2>5
  <2> QED BY <2>4, <2>7, <2>8 DEF InArgumentOf
<1>6. ValueIn(text) # Null => Equals(text) # {}
  BY DEF ValueIn
<1> QED BY <1>3, <1>4, <1>5, <1>6

\* Every branch that reports takes letter and value from there.
LEMMA ReportedByAnswer ==
  ASSUME Passed, ReportsHold,
         LongRejected \/ LongAccepted \/ ShortUnknown \/ ShortPlain \/ ShortWithValue
  PROVE  ReportsHold'
<1> DEFINE g == given[optind]
           k == Cnt(reported, Len(reported), optind) + 1
<1>1. InArgument /\ UNCHANGED <<argv, given>>
  BY DEF LongRejected, LongAccepted, ShortUnknown, ShortPlain, ShortWithValue
<1>2. /\ place[1] = g[k + 1] /\ optarg = Null
      /\ optind < Argc /\ Argc \in Nat /\ optind \in Nat
      /\ optind + 1 < Argc => argv[optind + 1] = given[optind + 1]
  BY <1>1, InsideArgument
<1>3. /\ InArgumentOf(Tail(place), g)
      /\ ValueIn(Tail(place)) # Null => InArgumentOf(ValueIn(Tail(place)), g)
  BY <1>1, ValueInside
<1> HIDE DEF g, k
\* One report, of an option that is taken for what it is.
<1>5. ASSUME NEW c, c \notin {Nothing, "running"}, NEW value, NEW next, Reports(c, value, next),
             next = optind + 1 \/ (next = optind + 2 /\ optind + 1 < Argc), place' = << >>,
             g[k + 1] # "-" => c \in {g[k + 1], Unknown},
             value # Null => InArgumentOf(value, g)
                             \/ (value = given[optind + 1] /\ next = optind + 2)
      PROVE  ReportsHold'
  <2>1. next \in {optind, optind + 1, optind + 2} /\ next <= Argc /\ next # optind
    BY <1>2, <1>5
  <2> QED BY <1>1, <1>5, <2>1, NewReport DEF g, k
<1>6. Unknown \notin {Nothing, "running"}
  BY DEF Unknown, Nothing
<1>7. CASE LongRejected
  <2>1. Reports(Unknown, Null, optind + 1) /\ place' = << >>
    BY <1>2, <1>7 DEF LongRejected
  <2> QED BY <1>5, <1>6, <2>1
<1>8. CASE LongAccepted
  <2> DEFINE o == LongOption[FirstOf(Matches(NameIn(Tail(place))))]
  <2>1. o.val \notin {Nothing, "running"}
    <3>1. Matches(NameIn(Tail(place))) # {}
      BY <1>8 DEF LongAccepted
    <3>2. FirstOf(Matches(NameIn(Tail(place)))) \in DOMAIN LongOption
      BY <3>1, FirstMatch
    <3> QED BY <3>2, OptionAssumption
  <2>2. g[k + 1] = "-" /\ place' = << >>
    BY <1>2, <1>8 DEF LongAccepted, IsLong
  <2>3. \/ Reports(o.val, Null, optind + 1)
        \/ /\ ValueIn(Tail(place)) # Null
           /\ Reports(o.val, ValueIn(Tail(place)), optind + 1)
        \/ optind + 1 < Argc /\ Reports(o.val, argv[optind + 1], optind + 2)
        \/ Reports(Unknown, Null, optind + 1)
    BY <1>2, <1>8 DEF LongAccepted
  <2> HIDE DEF o
  <2>4. CASE Reports(o.val, Null, optind + 1)
    BY <1>5, <2>1, <2>2, <2>4
  <2>5. CASE /\ ValueIn(Tail(place)) # Null
             /\ Reports(o.val, ValueIn(Tail(place)), optind + 1)
    BY <1>3, <1>5, <2>1, <2>2, <2>5
  <2>6. CASE optind + 1 < Argc /\ Reports(o.val, argv[optind + 1], optind + 2)
    BY <1>2, <1>5, <2>1, <2>2, <2>6
  <2>7. CASE Reports(Unknown, Null, optind + 1)
    BY <1>5, <1>6, <2>2, <2>7
  <2> QED BY <2>3, <2>4, <2>5, <2>6, <2>7
<1>9. CASE ShortWithValue
  <2>1. Letter \notin {Nothing, "running"}
    BY <1>9, OptionAssumption DEF ShortWithValue, Takes
  <2>2. g[k + 1] = Letter /\ place' = << >>
    BY <1>2, <1>9 DEF ShortWithValue, Letter
  <2>3. \/ Reports(Letter, Tail(place), optind + 1)
        \/ Reports(Letter, Null, optind + 1)
        \/ optind + 1 < Argc /\ Reports(Letter, argv[optind + 1], optind + 2)
        \/ Reports(Unknown, Null, optind + 1)
    BY <1>9 DEF ShortWithValue
  <2>4. CASE Reports(Letter, Tail(place), optind + 1)
    BY <1>3, <1>5, <2>1, <2>2, <2>4
  <2>5. CASE Reports(Letter, Null, optind + 1)
    BY <1>5, <2>1, <2>2, <2>5
  <2>6. CASE optind + 1 < Argc /\ Reports(Letter, argv[optind + 1], optind + 2)
    BY <1>2, <1>5, <2>1, <2>2, <2>6
  <2>7. CASE Reports(Unknown, Null, optind + 1)
    BY <1>5, <1>6, <2>2, <2>7
  <2> QED BY <2>3, <2>4, <2>5, <2>6, <2>7
<1>10. CASE ShortUnknown \/ ShortPlain
  <2> DEFINE next == NextAfterLetter
  <2>1. \E c : c \in {Letter, Unknown} /\ c \notin {Nothing, "running"} /\ Reports(c, Null, next)
    <3>1. CASE ShortUnknown
      BY <1>2, <1>6, <3>1 DEF ShortUnknown
    <3>2. CASE ShortPlain
      BY <1>2, <3>2, OptionAssumption DEF ShortPlain, Takes
    <3> QED BY <1>10, <3>1, <3>2
  <2>2. PICK c : c \in {Letter, Unknown} /\ c \notin {Nothing, "running"} /\ Reports(c, Null, next)
    BY <2>1
  <2>3. g[k + 1] = Letter /\ place' = Tail(place)
    BY <1>2, <1>10 DEF ShortUnknown, ShortPlain, Letter
  <2>4. /\ next \in {optind, optind + 1, optind + 2} /\ next <= Argc
        /\ place' # << >> => next = optind /\ place' = Tail(place)
        /\ place' = << >> => next # optind
    BY <1>2, <2>3 DEF NextAfterLetter
  <2> HIDE DEF next
  <2> QED BY <1>1, <2>2, <2>3, <2>4, NewReport DEF g, k
<1> QED BY <1>7, <1>8, <1>9, <1>10

\* While getopt_long() looks for the next argument, what was reported stays.
LEMMA ReportsStay ==
  ASSUME Passed, ReportsHold, Scanning, UNCHANGED <<given, reported>>,
         role' = role \/ \E kind : optind < Argc /\ Reads(optind, optind, kind)
  PROVE  /\ AllAsGiven' /\ optarg = Null /\ IsSequence(reported)
         /\ \A i \in DOMAIN reported : /\ reported[i].at \in 1..optind /\ reported[i].at # optind
                                       /\ role'[reported[i].at] = "option"
         /\ optind < Argc => Cnt(reported, Len(reported), optind) = 0
<1>1. /\ Placed(argv, given, role, Argc, optind, First, Past)
      /\ AllAsGiven /\ optarg = Null /\ IsSequence(reported)
      /\ \A i \in DOMAIN reported : /\ reported[i].at \in 1..optind
                                    /\ role[reported[i].at] = "option"
  <2>1. answer # Nothing /\ answer = "running" /\ place = << >>
    BY DEF Scanning, Nothing
  <2> QED BY <2>1, WhileScanning DEF ReportsHold
<1>2. /\ Argc \in Nat /\ DOMAIN role = 0..(Argc - 1) /\ optind \in Nat /\ optind <= Argc
      /\ \A i \in optind..(Argc - 1) : role[i] = "unread"
  BY <1>1, Shape
<1>3. /\ DOMAIN role' = DOMAIN role
      /\ \A x \in DOMAIN role : role[x] = "option" => role'[x] = "option" /\ x # optind
  <2>1. optind < Argc => role[optind] = "unread" /\ optind \in DOMAIN role
    BY <1>2
  <2>2. CASE role' = role
    <3>1. \A x \in DOMAIN role : role[x] = "option" => x # optind
      BY <1>2, <2>1
    <3> QED BY <2>2, <3>1
  <2>3. CASE \E kind : optind < Argc /\ Reads(optind, optind, kind)
    <3>1. \A x \in DOMAIN role : x \in optind..optind <=> x = optind
      BY <1>2
    <3> QED BY <2>1, <2>3, <3>1 DEF Reads
  <2> QED BY <2>2, <2>3
<1>4. DOMAIN reported = 1..Len(reported) /\ Len(reported) \in Nat
  BY <1>1, LenProperties DEF IsSequence
<1>5. ASSUME NEW i \in DOMAIN reported
      PROVE  /\ AsGiven(reported, given, role', optind', i)
             /\ reported[i].at \in DOMAIN role /\ role'[reported[i].at] = "option"
  <2>1. AsGiven(reported, given, role, optind, i) /\ role[reported[i].at] = "option"
    BY <1>1 DEF AllAsGiven
  <2>2. reported[i].at \in DOMAIN role
    BY <2>1 DEF AsGiven
  <2>3. role'[reported[i].at] = "option"
    BY <1>3, <2>1, <2>2
  <2>4. i \in Nat \ {0}
    BY <1>4
  <2> QED BY <1>3, <2>1, <2>2, <2>3, <2>4, AsGivenStays
<1>6. AllAsGiven'
  BY <1>1, <1>5 DEF AllAsGiven
<1>7. \A i \in DOMAIN reported : reported[i].at # optind
  BY <1>1, <1>3, <1>5
<1>8. Cnt(reported, Len(reported), optind) = 0
  BY <1>4, <1>7, CntTypes
<1> QED BY <1>1, <1>5, <1>6, <1>7, <1>8

\* A branch without a report opens the next argument or ends the options.
LEMMA ReportedByScanning ==
  ASSUME Passed, ReportsHold,
         EndOfArguments \/ StopAtWord \/ SkipWord \/ EndOfOptions \/ OpenArgument
  PROVE  ReportsHold'
<1>1. /\ Scanning /\ UNCHANGED <<given, reported>>
      /\ role' = role \/ \E kind : optind < Argc /\ Reads(optind, optind, kind)
  BY DEF EndOfArguments, StopAtWord, SkipWord, EndOfOptions, OpenArgument, scanVars
<1>2. /\ AllAsGiven' /\ optarg = Null /\ IsSequence(reported)
      /\ \A i \in DOMAIN reported : /\ reported[i].at \in 1..optind
                                    /\ role'[reported[i].at] = "option"
      /\ optind < Argc => Cnt(reported, Len(reported), optind) = 0
  BY <1>1, ReportsStay
<1>3. CASE EndOfArguments \/ StopAtWord \/ EndOfOptions
  <2>1. answer' = Nothing
    BY <1>3 DEF EndOfArguments, StopAtWord, EndOfOptions, Answers
  <2> QED BY <1>2, <2>1 DEF ReportsHold
<1>4. CASE SkipWord
  <2>1. place' = << >> /\ optarg' = optarg /\ optind' = optind + 1 /\ reported' = reported
    BY <1>4 DEF SkipWord, Scanning
  <2>2. optind \in Nat
    BY <1>1, WhileScanning
  <2>3. 1..optind \subseteq 1..optind'
    BY <2>1, <2>2
  <2> QED BY <1>2, <2>1, <2>3 DEF ReportsHold
<1>5. CASE OpenArgument
  <2>1. /\ optarg' = optarg /\ optind' = optind /\ optind < Argc
        /\ reported' = reported /\ given' = given
    BY <1>1, <1>5 DEF OpenArgument
  <2> DEFINE g == given[optind]
  <2>2. place' = Tail(g) /\ Len(g) > 1 /\ g \in Seq(Token)
    BY <1>5, PassedByOpening
  <2> HIDE DEF g
  <2>3. RestOf(place', g, 0)
    <3>1. g # << >> /\ Len(g) \in Nat
      BY <2>2, LenProperties, EmptySeq
    <3>2. Len(place') = Len(g) - 1 /\ \A q \in 1..Len(place') : place'[q] = g[q + 1]
      BY <2>2, <3>1, HeadTailProperties
    <3>3. Len(g) - 1 = Len(g) - 1 - 0 /\ \A q \in 1..Len(place') : q + 1 + 0 = q + 1
      BY <3>1
    <3> QED BY <2>2, <3>2, <3>3 DEF RestOf
  <2> QED BY <1>2, <2>1, <2>3 DEF ReportsHold, g
<1> QED BY <1>3, <1>4, <1>5

-----------------------------------------------------------------------------
(* Every command line is read                                                   *)

\* The first call: only argv[0] counts as read.
LEMMA FirstCall ==
  ASSUME Init
  PROVE  Passed /\ ReportsHold
<1>1. PICK line \in CommandLine :
           argv = [i \in 0..Len(line) |-> IF i = 0 THEN Program ELSE line[i]]
  BY DEF Init, GetoptInit
<1>2. /\ given = argv /\ optind = 1 /\ optarg = Null /\ place = << >>
      /\ nonoptStart = -1 /\ nonoptEnd = -1 /\ answer = "running" /\ reported = << >>
      /\ role = [i \in DOMAIN argv |-> IF i = 0 THEN "option" ELSE "unread"]
  BY DEF Init, GetoptInit
<1>3. line \in Seq(Seq(Token))
  BY CommandAssumption
<1>4. /\ Len(line) \in Nat /\ DOMAIN argv = 0..Len(line)
      /\ \A i \in 1..Len(line) : line[i] \in Seq(Token)
  BY <1>1, <1>3, LenProperties, ElementOfSeq
<1> DEFINE n == Argc
<1>5. n = Len(line) + 1 /\ n \in Nat /\ n >= 1 /\ 0..Len(line) = 0..(n - 1)
  <2>1. Cardinality(0..Len(line)) = Len(line) + 1
    <3>1. 0 \in Int /\ Len(line) \in Int /\ ~(0 > Len(line)) /\ (Len(line) - 0) + 1 = Len(line) + 1
      BY <1>4
    <3> QED BY <3>1, FS_Interval
  <2> QED BY <1>4, <2>1 DEF Argc
<1> HIDE DEF n
<1>6. ArgumentsFit(argv, given, role, n)
  BY <1>1, <1>2, <1>4, <1>5 DEF ArgumentsFit
<1>7. role[0] = "option" /\ \A i \in 1..(n - 1) : role[i] = "unread" /\ given[i] \in Seq(Token)
  BY <1>1, <1>2, <1>4, <1>5
<1>8. Nr(role, n, "option", 1) = 1 /\ Nr(role, n, "word", 1) = 0 /\ Nr(role, n, "option", 0) = 0
  <2>1. 0 \in 0..(n - 1) /\ 0 + 1 = 1
    BY <1>5
  <2>2. Nr(role, n, "option", 0) = 0 /\ Nr(role, n, "word", 0) = 0
    BY NrNone
  <2>3. Nr(role, n, "option", 0 + 1) = IF role[0] = "option" THEN Nr(role, n, "option", 0) + 1
                                       ELSE Nr(role, n, "option", 0)
    BY <1>5, <2>1, NrStep
  <2>4. Nr(role, n, "word", 0 + 1) = IF role[0] = "word" THEN Nr(role, n, "word", 0) + 1
                                     ELSE Nr(role, n, "word", 0)
    BY <1>5, <2>1, NrStep
  <2> QED BY <1>7, <2>1, <2>2, <2>3, <2>4
<1>9. Placed(argv, given, role, n, 1, 1, 1)
  <2>1. Put(role, n, 1, 1, 0) = 0
    BY <1>7, <1>8 DEF Put
  <2>2. \A i \in 0..(1 - 1) : i = 0
    OBVIOUS
  <2>3. 1 \in 1..n
    BY <1>5
  <2> QED BY <1>2, <1>6, <1>7, <1>8, <2>1, <2>2, <2>3 DEF Placed
<1>10. First = 1 /\ Past = 1
  BY <1>2 DEF First, Past
<1>11. Pointers
  BY <1>2 DEF Pointers
<1>12. Passed
  <2>1. answer # Nothing /\ place \in Seq(Token)
    BY <1>2, EmptySeq DEF Nothing
  <2> QED BY <1>2, <1>7, <1>9, <1>10, <1>11, <2>1 DEF Passed, n
<1>13. DOMAIN reported = {} /\ IsSequence(reported)
  <2>1. << >> \in Seq({<< >>[i] : i \in DOMAIN << >>}) /\ DOMAIN << >> = {}
    BY EmptySeq
  <2> QED BY <1>2, <2>1 DEF IsSequence
<1>14. ReportsHold
  BY <1>2, <1>13 DEF ReportsHold, AllAsGiven
<1> QED BY <1>12, <1>14

\* main() calls again.
LEMMA NextCall ==
  ASSUME Passed, ReportsHold, answer # Nothing, CallAgain
  PROVE  Passed' /\ ReportsHold'
<1>1. /\ answer' = "running" /\ optarg' = Null /\ answer' # Nothing
      /\ UNCHANGED <<argv, place, nonoptStart, nonoptEnd, optind, permute, given, role, reported>>
  BY DEF CallAgain, scanVars, Nothing
<1>2. Argc' = Argc /\ First' = First /\ Past' = Past
  BY <1>1 DEF Argc, First, Past
<1>3. Passed'
  <2>1. Pointers'
    BY <1>1, <1>2 DEF Passed, Pointers
  <2> QED BY <1>1, <1>2, <2>1 DEF Passed
<1>4. AllAsGiven'
  BY <1>1 DEF ReportsHold, AllAsGiven
<1>5. ReportsHold'
  BY <1>1, <1>4 DEF ReportsHold
<1> QED BY <1>3, <1>5

\* The answer that no letter is.
LEMMA LeftTable ==
  ASSUME Passed, ReportsHold, ReadsPastTable
  PROVE  Passed' /\ ReportsHold'
<1>1. /\ answer' # Nothing /\ answer # Nothing /\ answer' # "running"
      /\ UNCHANGED <<argv, place, nonoptStart, nonoptEnd, optind, optarg, permute, given, role,
                     reported>>
  BY DEF ReadsPastTable, InArgument, scanVars, Nothing
<1>2. Argc' = Argc /\ First' = First /\ Past' = Past
  BY <1>1 DEF Argc, First, Past
<1>3. Passed'
  <2>1. Pointers'
    BY <1>1, <1>2 DEF Passed, Pointers
  <2> QED BY <1>1, <1>2, <2>1 DEF Passed
<1>4. AllAsGiven'
  BY <1>1 DEF ReportsHold, AllAsGiven
<1>5. ReportsHold'
  BY <1>1, <1>4 DEF ReportsHold
<1> QED BY <1>3, <1>5

\* main() returns, or ends, with getopt_long() as it was.
LEMMA NoCall ==
  ASSUME Passed, ReportsHold, UNCHANGED getoptVars
  PROVE  Passed' /\ ReportsHold'
<1>1. UNCHANGED <<argv, place, nonoptStart, nonoptEnd, optind, optarg, permute, answer, given,
                  role, reported>>
  BY DEF getoptVars, scanVars
<1>2. Argc' = Argc /\ First' = First /\ Past' = Past
  BY <1>1 DEF Argc, First, Past
<1>3. Parted' = Parted
  BY <1>1 DEF Parted, PlaceOf, NrBefore, Argc
<1>4. Passed'
  <2>1. Pointers' = Pointers
    BY <1>1, <1>2 DEF Pointers
  <2> QED BY <1>1, <1>2, <1>3, <2>1 DEF Passed
<1>5. AllAsGiven'
  BY <1>1 DEF ReportsHold, AllAsGiven
<1>6. ReportsHold'
  BY <1>1, <1>5 DEF ReportsHold
<1> QED BY <1>4, <1>6

\* Every step of main() keeps both.
LEMMA ReadOn ==
  ASSUME Passed, ReportsHold, [Next]_vars
  PROVE  Passed' /\ ReportsHold'
<1>1. CASE Parse
  <2>1. GetoptStep
    BY <1>1 DEF Parse
  <2>2. CASE EndOfArguments \/ StopAtWord \/ SkipWord \/ EndOfOptions \/ OpenArgument
    BY <2>2, PassedByEnd, PassedByStop, PassedByWord, PassedByDashes, PassedByOpening,
       ReportedByScanning
  <2>3. CASE LongRejected \/ LongAccepted \/ ShortUnknown \/ ShortPlain \/ ShortWithValue
    BY <2>3, PassedByAnswer, ReportedByAnswer
  <2>4. CASE ReadsPastTable
    BY <2>4, LeftTable
  <2> QED BY <2>1, <2>2, <2>3, <2>4 DEF GetoptStep
<1>2. CASE UNCHANGED getoptVars
  BY <1>2, NoCall
<1>3. CASE answer # Nothing /\ CallAgain
  BY <1>3, NextCall
<1>4. ASSUME OnHelp \/ OptionsEnd \/ LogAndFlush \/ UNCHANGED vars
      PROVE  UNCHANGED getoptVars
  BY <1>4 DEF OnHelp, OptionsEnd, LogAndFlush, Usage, vars
<1>5. ASSUME OnFile \/ OnAddress \/ OnMessage \/ OnExtra \/ OnUnknown
      PROVE  answer # Nothing /\ CallAgain
  BY <1>5 DEF OnFile, OnAddress, OnMessage, OnExtra, OnUnknown, Goes, On, Nothing, Unknown
<1>6. ASSUME OnPort \/ OnTime \/ OnLevel
      PROVE  UNCHANGED getoptVars \/ (answer # Nothing /\ CallAgain)
  BY <1>6 DEF OnPort, OnTime, OnLevel, Unreadable, Usage, Goes, On, Nothing
<1> QED BY <1>1, <1>2, <1>3, <1>4, <1>5, <1>6 DEF Next

LEMMA AlwaysRead == Spec => [](Passed /\ ReportsHold)
<1>1. Init => Passed /\ ReportsHold
  BY FirstCall
<1>2. (Passed /\ ReportsHold) /\ [Next]_vars => (Passed /\ ReportsHold)'
  BY ReadOn
<1> QED BY <1>1, <1>2, PTL DEF Spec

\* Whatever the table of options and the command line, once getopt_long() has ended the
\* options and their values come first and the words after them, each in the order they
\* were given in (getopt.h:436-504).
THEOREM WordsStandLast == Spec => []Parted
<1>1. Passed => Parted
  BY DEF Passed, Parted
<1> QED BY <1>1, AlwaysRead, PTL

LEMMA EachAsGiven == ReportsHold => ReportedAsGiven
BY DEF ReportsHold, AllAsGiven, ReportedAsGiven, AsGiven, Cnt

\* Whatever the table of options and the command line, the options are reported in the
\* order of the command line, each with a letter and a value that stand in its own
\* argument, or with the next argument as its value (getopt.h:285-391 and 527-581).
THEOREM OptionsAsGiven == Spec => []ReportedAsGiven
BY AlwaysRead, EachAsGiven, PTL

-----------------------------------------------------------------------------
(* The last report of an option                                                 *)

\* A report of option c is the last of it, one of another option changes nothing.
LEMMA LastReport ==
  ASSUME IsSequence(reported), NEW c, NEW default, NEW r, reported' = Append(reported, r)
  PROVE  /\ r.answer = c => NameGiven(c, default)' = {r.value} \ {Null, << >>}
         /\ r.answer # c => NameGiven(c, default)' = NameGiven(c, default)
<1> DEFINE n       == Len(reported)
           places  == {i \in DOMAIN reported : reported[i].answer = c}
           more    == {i \in DOMAIN reported' : reported'[i].answer = c}
<1>1. /\ n \in Nat /\ DOMAIN reported = 1..n /\ DOMAIN reported' = 1..(n + 1)
      /\ \A i \in 1..n : reported'[i] = reported[i]
      /\ reported'[n + 1] = r
  BY Longer
<1>2. ASSUME r.answer = c
      PROVE  NameGiven(c, default)' = {r.value} \ {Null, << >>}
  <2>1. n + 1 \in more /\ \A j \in more : j <= n + 1 /\ j \in Nat
    BY <1>1, <1>2
  <2>2. LastOf(more) = {n + 1}
    <3> HIDE DEF more, n
    <3> QED BY <1>1, <2>1 DEF LastOf
  <2>3. {reported'[i].value : i \in LastOf(more)} = {r.value}
    <3> HIDE DEF more, n
    <3> QED BY <1>1, <2>2
  <2> HIDE DEF n
  <2> QED BY <2>1, <2>3 DEF NameGiven
<1>3. ASSUME r.answer # c
      PROVE  NameGiven(c, default)' = NameGiven(c, default)
  <2>1. more = places
    BY <1>1, <1>3
  <2>2. \A i \in places : reported'[i] = reported[i]
    BY <1>1
  <2>3. {reported'[i].value : i \in LastOf(more)} = {reported[i].value : i \in LastOf(places)}
    <3>1. LastOf(more) = LastOf(places) /\ \A i \in LastOf(places) : i \in places
      BY <2>1 DEF LastOf
    <3> HIDE DEF more, places
    <3> QED BY <2>2, <3>1
  <2> QED BY <2>1, <2>3 DEF NameGiven
<1> QED BY <1>2, <1>3
-----------------------------------------------------------------------------
(* The names that main() has read                                               *)

\* What main() has of the option's name, unless it still has to read a report of it.
NameRead(c, name, default) ==
  /\ answer # c => {name} \ {<< >>} = NameGiven(c, default)
  /\ answer = c => {optarg} \ {Null, << >>} = NameGiven(c, default)

FileRead    == NameRead("f", fileName, <<"messages.log">>)
AddressRead == NameRead("a", address1, <<"localhost">>)

\* Calls are made at the end only, with a message and after the last option.
Told == /\ phase # "done" => calls = << >>
        /\ phase = "done" => calls = LibraryCalls /\ msg # << >> /\ answer = Nothing

Inv == IsSequence(reported) /\ FileRead /\ AddressRead /\ sevLevel \in 0..7 /\ Told

\* getopt_long() answers with a report, or it reports nothing.
LEMMA GetoptAnswers ==
  ASSUME GetoptStep
  PROVE  /\ answer = "running"
         /\ \/ \E c, value, next : Reports(c, value, next)
            \/ reported' = reported /\ answer' \in {"running", Nothing, "undefined"}
<1>1. CASE EndOfArguments \/ StopAtWord \/ SkipWord \/ EndOfOptions \/ OpenArgument
  BY <1>1
  DEF EndOfArguments, StopAtWord, SkipWord, EndOfOptions, OpenArgument, Scanning, Answers
<1>2. CASE LongRejected \/ LongAccepted
  <2>1. answer = "running"
    BY <1>2 DEF LongRejected, LongAccepted, InArgument
  <2>2. \E c, value, next : Reports(c, value, next)
    BY <1>2 DEF LongRejected, LongAccepted
  <2> QED BY <2>1, <2>2
<1>3. CASE ReadsPastTable
  BY <1>3 DEF ReadsPastTable, InArgument
<1>4. CASE ShortUnknown \/ ShortPlain \/ ShortWithValue
  <2>1. answer = "running"
    BY <1>4 DEF ShortUnknown, ShortPlain, ShortWithValue, InArgument
  <2>2. \E c, value, next : Reports(c, value, next)
    BY <1>4 DEF ShortUnknown, ShortPlain, ShortWithValue
  <2> QED BY <2>1, <2>2
<1> QED BY <1>1, <1>2, <1>3, <1>4 DEF GetoptStep

\* A report of option c leaves main() to read it, another one leaves c's name.
LEMMA NameReported ==
  ASSUME IsSequence(reported), NEW c \in {"f", "a"}, NEW name, NEW default,
         NameRead(c, name, default), GetoptStep
  PROVE  /\ IsSequence(reported')
         /\ answer' # c => {name} \ {<< >>} = NameGiven(c, default)'
         /\ answer' = c => {optarg'} \ {Null, << >>} = NameGiven(c, default)'
<1>1. answer = "running" /\ {name} \ {<< >>} = NameGiven(c, default)
  BY GetoptAnswers DEF NameRead
<1>2. ASSUME NEW d, NEW value, NEW nxt, Reports(d, value, nxt)
      PROVE  /\ IsSequence(reported')
             /\ answer' # c => {name} \ {<< >>} = NameGiven(c, default)'
             /\ answer' = c => {optarg'} \ {Null, << >>} = NameGiven(c, default)'
  <2> DEFINE r == [answer |-> d, value |-> value, at |-> optind]
  <2>1. reported' = Append(reported, r) /\ answer' = d /\ optarg' = value
    BY <1>2 DEF Reports, Answers
  <2>2. r.answer = d /\ r.value = value
    OBVIOUS
  <2> HIDE DEF r
  <2>3. IsSequence(reported')
    BY <2>1, Longer
  <2>4. /\ d = c => NameGiven(c, default)' = {value} \ {Null, << >>}
        /\ d # c => NameGiven(c, default)' = NameGiven(c, default)
    BY <2>1, <2>2, LastReport
  <2> QED BY <1>1, <2>1, <2>3, <2>4
<1>3. ASSUME reported' = reported, answer' \in {"running", Nothing, "undefined"}
      PROVE  /\ IsSequence(reported') /\ answer' # c
             /\ {name} \ {<< >>} = NameGiven(c, default)'
  BY <1>1, <1>3 DEF NameGiven, Nothing
<1> QED BY <1>2, <1>3, GetoptAnswers

LEMMA Start == Init => Inv
<1> SUFFICES ASSUME Init PROVE Inv
  OBVIOUS
<1>1. reported = << >> /\ answer = "running" /\ calls = << >> /\ phase = "options"
      /\ fileName = <<"messages.log">> /\ address1 = <<"localhost">> /\ sevLevel = 7
  BY DEF Init, GetoptInit
<1>2. IsSequence(<< >>)
  <2>1. << >> \in Seq({}) /\ {<< >>[i] : i \in DOMAIN << >>} = {}
    BY EmptySeq
  <2> QED BY <2>1 DEF IsSequence
<1>3. ASSUME NEW c, NEW default
      PROVE  NameGiven(c, default) = {default} \ {Null, << >>}
  BY <1>1 DEF NameGiven
<1>4. /\ {<<"messages.log">>} \ {Null, << >>} = {<<"messages.log">>} \ {<< >>}
      /\ {<<"localhost">>} \ {Null, << >>} = {<<"localhost">>} \ {<< >>}
  BY DEF Null
<1>5. FileRead /\ AddressRead
  BY <1>1, <1>3, <1>4 DEF FileRead, AddressRead, NameRead
<1> QED BY <1>1, <1>2, <1>5 DEF Inv, Told

\* A step that reads no name: of another option, or of none.
LEMMA OthersKeep ==
  ASSUME NEW c, NEW name, NEW default, NameRead(c, name, default), answer # c,
         reported' = reported, answer' # c
  PROVE  /\ answer' # c => {name} \ {<< >>} = NameGiven(c, default)'
         /\ answer' = c => {optarg'} \ {Null, << >>} = NameGiven(c, default)'
BY DEF NameRead, NameGiven

\* The option's name is set, or cleared.
LEMMA NameSet ==
  ASSUME NEW c, NEW name, NEW default, NameRead(c, name, default), answer = c,
         reported' = reported, answer' # c,
         NEW to, to = IF optarg # Null THEN optarg ELSE << >>
  PROVE  {to} \ {<< >>} = NameGiven(c, default)'
<1>1. {optarg} \ {Null, << >>} = NameGiven(c, default)
  BY DEF NameRead
<1>2. NameGiven(c, default)' = NameGiven(c, default)
  BY DEF NameGiven
<1> QED BY <1>1, <1>2

\* Nothing is read.
LEMMA NamesStay ==
  ASSUME NEW c, NEW default, UNCHANGED <<reported, answer, optarg>>
  PROVE  /\ NameGiven(c, default)' = NameGiven(c, default)
         /\ \A name : NameRead(c, name, default) =>
              /\ answer' # c => {name} \ {<< >>} = NameGiven(c, default)'
              /\ answer' = c => {optarg'} \ {Null, << >>} = NameGiven(c, default)'
<1>1. NameGiven(c, default)' = NameGiven(c, default)
  BY DEF NameGiven
<1> QED BY <1>1 DEF NameRead

LEMMA Keep == Inv /\ [Next]_vars => Inv'
<1> SUFFICES ASSUME Inv, [Next]_vars PROVE Inv'
  OBVIOUS
<1> USE DEF optionVars
<1>0. /\ IsSequence(reported) /\ NameRead("f", fileName, <<"messages.log">>)
      /\ NameRead("a", address1, <<"localhost">>) /\ sevLevel \in 0..7 /\ Told
  BY DEF Inv, FileRead, AddressRead
<1>1. ASSUME phase = "options", phase' # "done", calls' = calls
      PROVE  Told'
  BY <1>0, <1>1 DEF Told
<1>2. CASE Parse
  <2>1. /\ GetoptStep /\ UNCHANGED <<optionVars, phase, calls>> /\ phase = "options"
    BY <1>2 DEF Parse
  <2>2. /\ IsSequence(reported')
        /\ answer' # "f" => {fileName} \ {<< >>} = NameGiven("f", <<"messages.log">>)'
        /\ answer' = "f" => {optarg'} \ {Null, << >>} = NameGiven("f", <<"messages.log">>)'
    BY <1>0, <2>1, NameReported
  <2>3. /\ answer' # "a" => {address1} \ {<< >>} = NameGiven("a", <<"localhost">>)'
        /\ answer' = "a" => {optarg'} \ {Null, << >>} = NameGiven("a", <<"localhost">>)'
    BY <1>0, <2>1, NameReported
  <2> QED BY <1>0, <1>1, <2>1, <2>2, <2>3 DEF Inv, FileRead, AddressRead, NameRead
<1>3. ASSUME phase = "options", phase' # "done", calls' = calls,
             answer \notin {"f", "a"}, reported' = reported,
             answer' = answer \/ answer' = "running",
             UNCHANGED <<fileName, address1>>, sevLevel' \in 0..7
      PROVE  Inv'
  <2>1. /\ answer' # "f" => {fileName} \ {<< >>} = NameGiven("f", <<"messages.log">>)'
        /\ answer' = "f" => {optarg'} \ {Null, << >>} = NameGiven("f", <<"messages.log">>)'
    BY <1>0, <1>3, OthersKeep
  <2>2. /\ answer' # "a" => {address1} \ {<< >>} = NameGiven("a", <<"localhost">>)'
        /\ answer' = "a" => {optarg'} \ {Null, << >>} = NameGiven("a", <<"localhost">>)'
    BY <1>0, <1>3, OthersKeep
  <2> QED BY <1>0, <1>1, <1>3, <2>1, <2>2 DEF Inv, FileRead, AddressRead, NameRead
<1>4. CASE OnFile
  <2>1. /\ phase = "options" /\ answer = "f" /\ UNCHANGED <<reported, phase, calls>>
        /\ answer' = "running" /\ UNCHANGED <<address1, sevLevel>>
        /\ fileName' = IF optarg # Null THEN optarg ELSE << >>
    BY <1>4 DEF OnFile, On, Goes, CallAgain
  <2>2. {fileName'} \ {<< >>} = NameGiven("f", <<"messages.log">>)'
    BY <1>0, <2>1, NameSet
  <2>3. {address1} \ {<< >>} = NameGiven("a", <<"localhost">>)'
    BY <1>0, <2>1, OthersKeep
  <2> QED BY <1>0, <1>1, <2>1, <2>2, <2>3 DEF Inv, FileRead, AddressRead, NameRead
<1>5. CASE OnAddress
  <2>1. /\ phase = "options" /\ answer = "a" /\ UNCHANGED <<reported, phase, calls>>
        /\ answer' = "running" /\ UNCHANGED <<fileName, sevLevel>>
        /\ address1' = IF optarg # Null THEN optarg ELSE << >>
    BY <1>5 DEF OnAddress, On, Goes, CallAgain
  <2>2. {address1'} \ {<< >>} = NameGiven("a", <<"localhost">>)'
    BY <1>0, <2>1, NameSet
  <2>3. {fileName} \ {<< >>} = NameGiven("f", <<"messages.log">>)'
    BY <1>0, <2>1, OthersKeep
  <2> QED BY <1>0, <1>1, <2>1, <2>2, <2>3 DEF Inv, FileRead, AddressRead, NameRead
<1>6. CASE OnHelp \/ OnMessage \/ OnExtra
  <2>1. /\ phase = "options" /\ phase' # "done" /\ UNCHANGED <<calls, reported>>
        /\ answer \notin {"f", "a"} /\ (answer' = answer \/ answer' = "running")
        /\ UNCHANGED <<fileName, address1, sevLevel>>
    BY <1>6 DEF OnHelp, OnMessage, OnExtra, On, Usage, Goes, CallAgain, getoptVars
  <2> QED BY <1>0, <1>3, <2>1
<1>7. CASE OnPort \/ OnTime \/ OnLevel
  <2>1. /\ phase = "options" /\ phase' # "done" /\ UNCHANGED <<calls, reported>>
        /\ answer \notin {"f", "a"} /\ (answer' = answer \/ answer' = "running")
        /\ UNCHANGED <<fileName, address1>>
    BY <1>7 DEF OnPort, OnTime, OnLevel, On, Unreadable, Usage, Goes, CallAgain, getoptVars
  <2>2. sevLevel' = sevLevel \/ sevLevel' \in 0..7
    BY <1>7 DEF OnPort, OnTime, OnLevel, Unreadable, Usage, Goes
  <2> QED BY <1>0, <1>3, <2>1, <2>2
<1>8. CASE OnUnknown \/ OptionsEnd
  <2>1. /\ phase = "options" /\ phase' # "done" /\ UNCHANGED <<calls, reported>>
        /\ answer \notin {"f", "a"} /\ (answer' = answer \/ answer' = "running")
        /\ UNCHANGED <<fileName, address1, sevLevel>>
    BY <1>8 DEF OnUnknown, OptionsEnd, On, Usage, Goes, CallAgain, getoptVars, Unknown, Nothing
  <2> QED BY <1>0, <1>3, <2>1
<1>9. CASE LogAndFlush
  <2>1. /\ calls' = LibraryCalls /\ phase' = "done" /\ answer = Nothing /\ msg # << >>
        /\ UNCHANGED <<getoptVars, optionVars>>
    BY <1>9 DEF LogAndFlush, On
  <2>2. LibraryCalls' = LibraryCalls
    BY <2>1 DEF LibraryCalls, getoptVars, scanVars, HandlerCalls, Offer, Argc
  <2>3. Told'
    BY <2>1, <2>2 DEF Told, getoptVars
  <2>4. UNCHANGED <<reported, answer, optarg, fileName, address1, sevLevel>>
    BY <2>1 DEF getoptVars
  <2> QED BY <1>0, <2>3, <2>4, NamesStay DEF Inv, FileRead, AddressRead, NameRead
<1>10. CASE UNCHANGED vars
  <2>1. LibraryCalls' = LibraryCalls
    BY <1>10 DEF vars, LibraryCalls, getoptVars, scanVars, HandlerCalls, Offer, Argc
  <2>2. Told'
    BY <1>0, <1>10, <2>1 DEF Told, vars, getoptVars
  <2>3. UNCHANGED <<reported, answer, optarg, fileName, address1, sevLevel>>
    BY <1>10 DEF vars, getoptVars
  <2> QED BY <1>0, <2>2, <2>3, NamesStay DEF Inv, FileRead, AddressRead, NameRead
<1> QED BY <1>2, <1>4, <1>5, <1>6, <1>7, <1>8, <1>9, <1>10 DEF Next

LEMMA Invariant == Spec => []Inv
<1>1. Inv /\ [Next]_vars => Inv'
  BY Keep
<1> QED BY <1>1, Start, PTL DEF Spec

-----------------------------------------------------------------------------
(* The calls that main() makes                                                  *)

Console == [call |-> "AddLogHandler", handler |-> "ConsoleInterface"]
File    == [call |-> "AddLogHandler", handler |-> "FileInterface", name |-> fileName]
Server  == [call |-> "AddLogHandler", handler |-> "GraylogInterface",
            name |-> address1, port |-> port]

\* An item that is offered, and the items of two sequences.
LEMMA Offered ==
  ASSUME NEW b \in BOOLEAN, NEW x, NEW S, x \in S
  PROVE  /\ Offer(b, x) \in Seq(S)
         /\ Range(Offer(b, x)) = IF b THEN {x} ELSE {}
<1>1. CASE b
  <2>1. <<x>> \in Seq(S) /\ Range(<<x>>) = {x}
    BY DEF Range
  <2> QED BY <1>1, <2>1 DEF Offer
<1>2. CASE ~b
  <2>1. << >> \in Seq(S) /\ Range(<< >>) = {}
    BY EmptySeq DEF Range
  <2> QED BY <1>2, <2>1 DEF Offer
<1> QED BY <1>1, <1>2

LEMMA Together ==
  ASSUME NEW S, NEW s \in Seq(S), NEW t \in Seq(S)
  PROVE  /\ s \o t \in Seq(S) /\ Range(s \o t) = Range(s) \cup Range(t)
         /\ Len(s) \in Nat /\ Len(t) \in Nat /\ DOMAIN (s \o t) = 1..(Len(s) + Len(t))
         /\ \A i \in DOMAIN (s \o t) :
              /\ i \in 1..(Len(s) + Len(t))
              /\ (s \o t)[i] \in IF i <= Len(s) THEN Range(s) ELSE Range(t)
<1> DEFINE st == s \o t
<1>1. /\ st \in Seq(S) /\ Len(st) = Len(s) + Len(t) /\ Len(s) \in Nat /\ Len(t) \in Nat
      /\ \A i \in 1..(Len(s) + Len(t)) : st[i] = IF i <= Len(s) THEN s[i] ELSE t[i - Len(s)]
  BY ConcatProperties, LenProperties
<1>2. DOMAIN st = 1..(Len(s) + Len(t))
  BY <1>1, LenProperties
<1>3. Range(st) = Range(s) \cup Range(t)
  BY RangeConcatenation
<1>4. /\ \A i \in 1..Len(s) : s[i] \in Range(s)
      /\ \A i \in 1..Len(t) : t[i] \in Range(t)
  BY RangeEquality
<1> HIDE DEF st
<1>5. ASSUME NEW i \in DOMAIN st
      PROVE  /\ i \in 1..(Len(s) + Len(t))
             /\ st[i] \in IF i <= Len(s) THEN Range(s) ELSE Range(t)
  <2>1. i \in 1..(Len(s) + Len(t))
    BY <1>2
  <2>2. CASE i <= Len(s)
    BY <1>1, <1>4, <2>1, <2>2
  <2>3. CASE ~(i <= Len(s))
    <3>1. i - Len(s) \in 1..Len(t)
      BY <1>1, <2>1, <2>3
    <3> QED BY <1>1, <1>4, <2>1, <2>3, <3>1
  <2> QED BY <2>1, <2>2, <2>3
<1> QED BY <1>1, <1>2, <1>3, <1>5 DEF st

\* The handlers that are added are those that have a name.
LEMMA HandlersAdded ==
  ASSUME NEW S, {[call |-> "RemoveAllHandlers"], Console, File, Server} \subseteq S
  PROVE  /\ HandlerCalls \in Seq(S)
         /\ Range(HandlerCalls) = {[call |-> "RemoveAllHandlers"], Console}
                                  \cup (IF fileName # << >> THEN {File} ELSE {})
                                  \cup (IF address1 # << >> THEN {Server} ELSE {})
<1> DEFINE r == [call |-> "RemoveAllHandlers"]
           s == <<r, Console>>
           f == Offer(fileName # << >>, File)
           g == Offer(address1 # << >>, Server)
<1>1. HandlerCalls = (s \o f) \o g
  BY DEF HandlerCalls, Console, File, Server
<1> HIDE DEF r
<1>2. s \in Seq(S) /\ Range(s) = {r, Console}
  <2>1. r \in S /\ Console \in S
    BY DEF r
  <2> QED BY <2>1 DEF Range
<1>3. f \in Seq(S) /\ Range(f) = IF fileName # << >> THEN {File} ELSE {}
  BY Offered
<1>4. g \in Seq(S) /\ Range(g) = IF address1 # << >> THEN {Server} ELSE {}
  BY Offered
<1> HIDE DEF s, f, g
<1>5. s \o f \in Seq(S) /\ Range(s \o f) = Range(s) \cup Range(f)
  BY <1>2, <1>3, Together
<1>6. (s \o f) \o g \in Seq(S) /\ Range((s \o f) \o g) = Range(s \o f) \cup Range(g)
  BY <1>4, <1>5, Together
<1> QED BY <1>1, <1>2, <1>3, <1>4, <1>5, <1>6 DEF r

Arguments == [call |-> "AddField", key |-> "arguments",
              value |-> [i \in 1..(Argc - 1) |-> argv[i]]]
Lowest    == [call |-> "SetMinimumSeverity", level |-> 7]
Message   == [call |-> "Msg", level |-> sevLevel, msg |-> msg,
              extra |-> IF extraKey # << >> THEN <<extraKey, extraField>> ELSE << >>]
Formatted == [call |-> "FmtMsg", level |-> 6]
Flushed   == [call |-> "Flush", seconds |-> timeout]

AllCalls == {Arguments, Lowest, [call |-> "RemoveAllHandlers"], Console, File, Server,
             Message, Formatted, Flushed}

\* What the calls are, whatever their other fields.
LEMMA CallNames ==
  /\ Arguments.call = "AddField" /\ Lowest.call = "SetMinimumSeverity"
  /\ [call |-> "RemoveAllHandlers"].call = "RemoveAllHandlers"
  /\ Console.call = "AddLogHandler" /\ File.call = "AddLogHandler"
  /\ Server.call = "AddLogHandler"
  /\ Message.call = "Msg" /\ Formatted.call = "FmtMsg" /\ Flushed.call = "Flush"
<1>1. Arguments.call = "AddField"
  BY DEF Arguments
<1>2. Message.call = "Msg"
  BY DEF Message
<1> QED BY <1>1, <1>2 DEF Lowest, Console, File, Server, Formatted, Flushed

\* The calls are those before the message, and the message and what follows it.
LEMMA MainCalls ==
  \E before, after :
    /\ before \in Seq(AllCalls) /\ after \in Seq(AllCalls) /\ LibraryCalls = before \o after
    /\ Range(before) = {Arguments, Lowest} \cup Range(HandlerCalls)
    /\ Range(after) = {Message, Formatted, Flushed}
<1> DEFINE first  == <<Arguments, Lowest>>
           before == first \o HandlerCalls
           after  == <<Message, Formatted, Flushed>>
<1>1. LibraryCalls = before \o after
  BY DEF LibraryCalls, Arguments, Lowest, Message, Formatted, Flushed
<1>2. first \in Seq(AllCalls) /\ Range(first) = {Arguments, Lowest}
  BY DEF AllCalls, Range
<1>3. after \in Seq(AllCalls) /\ Range(after) = {Message, Formatted, Flushed}
  BY DEF AllCalls, Range
<1>4. HandlerCalls \in Seq(AllCalls)
  BY HandlersAdded DEF AllCalls
<1> HIDE DEF first, after
<1>5. before \in Seq(AllCalls) /\ Range(before) = Range(first) \cup Range(HandlerCalls)
  BY <1>2, <1>4, Together
<1> HIDE DEF before
<1> QED BY <1>1, <1>2, <1>3, <1>5

\* All the calls main() makes.
LEMMA CallsRange ==
  Range(LibraryCalls) = {Arguments, Lowest, [call |-> "RemoveAllHandlers"], Console,
                         Message, Formatted, Flushed}
                        \cup (IF fileName # << >> THEN {File} ELSE {})
                        \cup (IF address1 # << >> THEN {Server} ELSE {})
<1>1. PICK before, after :
        /\ before \in Seq(AllCalls) /\ after \in Seq(AllCalls)
        /\ LibraryCalls = before \o after
        /\ Range(before) = {Arguments, Lowest} \cup Range(HandlerCalls)
        /\ Range(after) = {Message, Formatted, Flushed}
  BY MainCalls
<1>2. Range(LibraryCalls) = Range(before) \cup Range(after)
  BY <1>1, Together
<1>3. Range(HandlerCalls) = {[call |-> "RemoveAllHandlers"], Console}
                            \cup (IF fileName # << >> THEN {File} ELSE {})
                            \cup (IF address1 # << >> THEN {Server} ELSE {})
  BY HandlersAdded DEF AllCalls
<1> QED BY <1>1, <1>2, <1>3
-----------------------------------------------------------------------------
(* The properties of the calls                                                  *)

\* The handlers of the calls made are those of the two names.
LEMMA NamesOfHandlers ==
  ASSUME calls = LibraryCalls
  PROVE  /\ {c.name : c \in {x \in CallsOf("AddLogHandler") : x.handler = "FileInterface"}}
              = {fileName} \ {<< >>}
         /\ {c.name : c \in {x \in CallsOf("AddLogHandler") : x.handler = "GraylogInterface"}}
              = {address1} \ {<< >>}
<1> DEFINE added == {Console} \cup (IF fileName # << >> THEN {File} ELSE {})
                              \cup (IF address1 # << >> THEN {Server} ELSE {})
<1>1. CallsOf("AddLogHandler") = {c \in Range(LibraryCalls) : c.call = "AddLogHandler"}
  BY DEF CallsOf, Range
<1>2. CallsOf("AddLogHandler") = added
  BY <1>1, CallsRange, CallNames
<1>3. /\ Console.handler = "ConsoleInterface" /\ File.handler = "FileInterface"
      /\ Server.handler = "GraylogInterface"
      /\ File.name = fileName /\ Server.name = address1
  BY DEF Console, File, Server
<1>4. /\ {x \in added : x.handler = "FileInterface"}
           = IF fileName # << >> THEN {File} ELSE {}
      /\ {x \in added : x.handler = "GraylogInterface"}
           = IF address1 # << >> THEN {Server} ELSE {}
  BY <1>3
<1> HIDE DEF added
<1> QED BY <1>2, <1>3, <1>4

\* Whatever the command line, and however often -f and -a come in it, the log file
\* and the server main() adds handlers for are those of the last -f and of the last
\* -a, and none when that one has no name (ConsoleLogger.cpp:60-73 and 150-156).
THEOREM HandlersOfTheLastNames == Spec => []HandlersAsAsked
<1>1. ASSUME Inv PROVE HandlersAsAsked
  <2> SUFFICES ASSUME phase = "done" PROVE HandlersAsAsked
    BY DEF HandlersAsAsked
  <2>1. calls = LibraryCalls /\ answer # "f" /\ answer # "a"
    BY <1>1 DEF Inv, Told, Nothing
  <2>2. /\ {fileName} \ {<< >>} = NameGiven("f", <<"messages.log">>)
        /\ {address1} \ {<< >>} = NameGiven("a", <<"localhost">>)
    BY <1>1, <2>1 DEF Inv, FileRead, AddressRead, NameRead
  <2> QED BY <2>1, <2>2, NamesOfHandlers DEF HandlersAsAsked
<1> QED BY <1>1, Invariant, PTL

\* Whatever the options, the message main() sends has text and a level of 0 to 7,
\* within the minimum it has set, and all handlers are removed and added before it
\* (ConsoleLogger.cpp:98-119 and 137-172).
THEOREM MessageHasText == Spec => []MessageGoesOut
<1>1. ASSUME Inv PROVE MessageGoesOut
  <2>1. CASE phase # "done"
    BY <1>1, <2>1 DEF Inv, Told, MessageGoesOut
  <2>2. CASE phase = "done"
    <3>1. calls = LibraryCalls /\ msg # << >> /\ sevLevel \in 0..7
      BY <1>1, <2>2 DEF Inv, Told
    <3>2. PICK before, after :
            /\ before \in Seq(AllCalls) /\ after \in Seq(AllCalls)
            /\ LibraryCalls = before \o after
            /\ Range(before) = {Arguments, Lowest} \cup Range(HandlerCalls)
            /\ Range(after) = {Message, Formatted, Flushed}
      BY MainCalls
    <3>3. Range(HandlerCalls) \subseteq {[call |-> "RemoveAllHandlers"], Console, File, Server}
      BY HandlersAdded DEF AllCalls
    <3>4. /\ Len(before) \in Nat /\ DOMAIN calls = 1..(Len(before) + Len(after))
          /\ \A i \in DOMAIN calls :
               calls[i] \in IF i <= Len(before) THEN Range(before) ELSE Range(after)
      BY <3>1, <3>2, Together
    <3>5. \A x \in Range(before) : x.call # "Msg"
      BY <3>2, <3>3, CallNames
    <3>6. \A x \in Range(after) :
            /\ x.call \notin {"RemoveAllHandlers", "AddLogHandler"}
            /\ x.call = "Msg" => x = Message
      BY <3>2, CallNames
    <3>7. CallsOf("SetMinimumSeverity") = {Lowest}
      <4>1. CallsOf("SetMinimumSeverity")
              = {c \in Range(LibraryCalls) : c.call = "SetMinimumSeverity"}
        BY <3>1 DEF CallsOf, Range
      <4> QED BY <4>1, CallsRange, CallNames
    <3>8. ASSUME NEW i \in DOMAIN calls, calls[i].call = "Msg"
          PROVE  /\ calls[i].msg # << >>
                 /\ \A c \in CallsOf("SetMinimumSeverity") : calls[i].level \in 0..c.level
                 /\ \A j \in DOMAIN calls :
                      calls[j].call \in {"RemoveAllHandlers", "AddLogHandler"} => j < i
      <4>1. Len(before) < i /\ calls[i] = Message
        <5>1. ~(i <= Len(before))
          BY <3>4, <3>5, <3>8
        <5>2. calls[i] \in Range(after) /\ i \in 1..(Len(before) + Len(after))
          BY <3>4, <5>1
        <5>3. calls[i] = Message
          BY <3>6, <3>8, <5>2
        <5>4. i \in Int /\ Len(before) \in Int
          BY <3>4
        <5> QED BY <5>1, <5>3, <5>4
      <4>2. calls[i].msg = msg /\ calls[i].level = sevLevel
        BY <4>1 DEF Message
      <4>3. \A c \in CallsOf("SetMinimumSeverity") : calls[i].level \in 0..c.level
        BY <3>1, <3>7, <4>2 DEF Lowest
      <4>4. ASSUME NEW j \in DOMAIN calls,
                   calls[j].call \in {"RemoveAllHandlers", "AddLogHandler"}
            PROVE  j < i
        <5>1. j <= Len(before) /\ j \in Int /\ i \in Int /\ Len(before) \in Int
          BY <3>4, <3>6, <4>4
        <5> QED BY <4>1, <5>1
      <4> QED BY <3>1, <4>2, <4>3, <4>4
    <3> QED BY <3>8 DEF MessageGoesOut
  <2> QED BY <2>1, <2>2
<1> QED BY <1>1, Invariant, PTL
-----------------------------------------------------------------------------
(* The field that -e gives                                                      *)

\* The value an option was reported with is text.
LEMMA ValueIsText ==
  ASSUME Passed, ReportsHold, answer # Nothing,
         NEW i \in DOMAIN reported, reported[i].value # Null
  PROVE  reported[i].value \in Seq(Token)
<1> DEFINE r == reported[i]
           t == given[r.at]
<1>1. /\ r.at \in 1..optind /\ r.at \in DOMAIN role
      /\ \/ InArgumentOf(r.value, t)
         \/ r.value = given[r.at + 1] /\ r.at + 1 \in DOMAIN role
  BY DEF ReportsHold, AllAsGiven, AsGiven
<1>2. /\ Argc \in Nat /\ DOMAIN role = 0..(Argc - 1) /\ optind \in Nat
      /\ \A k \in 1..(Argc - 1) : given[k] \in Seq(Token)
  BY Shape DEF Passed
<1> HIDE DEF r
<1>3. CASE r.value = given[r.at + 1] /\ r.at + 1 \in DOMAIN role
  BY <1>1, <1>2, <1>3 DEF r
<1>4. CASE InArgumentOf(r.value, t)
  <2>1. t \in Seq(Token)
    BY <1>1, <1>2
  <2> HIDE DEF t
  <2>2. PICK k \in DOMAIN t : r.value = SubSeq(t, k + 1, Len(t))
    BY <1>4 DEF InArgumentOf
  <2>3. /\ Len(t) \in Nat /\ k \in 1..Len(t)
        /\ \A j \in (k + 1)..Len(t) : t[j] \in Token
    BY <2>1, <2>2, LenProperties, ElementOfSeq
  <2>4. SubSeq(t, k + 1, Len(t)) \in Seq(Token)
    BY <2>3, SubSeqProperties
  <2> QED BY <2>2, <2>4 DEF r
<1> QED BY <1>1, <1>3, <1>4

\* The option's value is the two halves that main() takes and the colon between.
LEMMA Halves ==
  ASSUME NEW v \in Seq(Token), ":" \in {v[i] : i \in DOMAIN v},
         NEW key, key = SubSeq(v, 1, Colon(v) - 1),
         NEW field, field = SubSeq(v, Colon(v) + 1, Len(v))
  PROVE  /\ v = key \o <<":">> \o field
         /\ key = << >> => v[1] = ":"
         /\ field = << >> => v[Len(v)] = ":"
<1> DEFINE C == {i \in DOMAIN v : v[i] = ":"}
           c == Colon(v)
           n == Len(v)
<1>1. n \in Nat /\ DOMAIN v = 1..n /\ \A i \in 1..n : v[i] \in Token
  BY LenProperties, ElementOfSeq
<1>2. c \in 1..n /\ v[c] = ":"
  <2>1. C \subseteq Nat /\ C # {}
    BY <1>1
  <2>2. \E m \in C : \A k \in C : m <= k
    BY <2>1, Least
  <2>3. c \in C
    <3> HIDE DEF C
    <3>1. FirstOf(C) \in C
      BY <2>2 DEF FirstOf
    <3> QED BY <3>1 DEF Colon, C
  <2> QED BY <1>1, <2>3
<1> HIDE DEF c, C
<1>3. /\ key \in Seq(Token) /\ Len(key) = c - 1
      /\ \A i \in 1..(c - 1) : key[i] = v[i]
  <2>1. \A i \in 1..(c - 1) : v[i] \in Token
    BY <1>1, <1>2
  <2>2. c - 1 \in Int /\ c \in Int
    BY <1>1, <1>2
  <2>3. /\ SubSeq(v, 1, c - 1) \in Seq(Token)
        /\ Len(SubSeq(v, 1, c - 1)) = IF 1 <= c - 1 THEN c - 1 - 1 + 1 ELSE 0
        /\ \A i \in 1..(c - 1 - 1 + 1) : SubSeq(v, 1, c - 1)[i] = v[1 + i - 1]
    BY <2>1, <2>2, SubSeqProperties
  <2>4. key = SubSeq(v, 1, c - 1)
    BY DEF c
  <2>5. Len(key) = c - 1
    <3>1. c \in Nat /\ 1 <= c
      BY <1>1, <1>2
    <3>2. (IF 1 <= c - 1 THEN c - 1 - 1 + 1 ELSE 0) = c - 1
      BY <3>1
    <3> QED BY <2>3, <2>4, <3>2
  <2>6. ASSUME NEW i \in 1..(c - 1) PROVE key[i] = v[i]
    <3>1. i \in 1..(c - 1 - 1 + 1) /\ 1 + i - 1 = i
      BY <2>2
    <3> QED BY <2>3, <2>4, <3>1
  <2> QED BY <2>3, <2>4, <2>5, <2>6
<1>4. /\ field \in Seq(Token) /\ Len(field) = n - c
      /\ \A i \in 1..(n - c) : field[i] = v[c + i]
  <2>1. \A i \in (c + 1)..n : v[i] \in Token
    BY <1>1, <1>2
  <2>2. c + 1 \in Int /\ n \in Int /\ c \in Int
    BY <1>1, <1>2
  <2>3. /\ SubSeq(v, c + 1, n) \in Seq(Token)
        /\ Len(SubSeq(v, c + 1, n)) = IF c + 1 <= n THEN n - (c + 1) + 1 ELSE 0
        /\ \A i \in 1..(n - (c + 1) + 1) : SubSeq(v, c + 1, n)[i] = v[(c + 1) + i - 1]
    BY <2>1, <2>2, SubSeqProperties
  <2>4. field = SubSeq(v, c + 1, n)
    BY DEF c
  <2>5. Len(field) = n - c
    <3>1. c <= n
      BY <1>1, <1>2
    <3> HIDE DEF n
    <3>2. (IF c + 1 <= n THEN n - (c + 1) + 1 ELSE 0) = n - c
      BY <2>2, <3>1
    <3> QED BY <2>3, <2>4, <3>2
  <2>6. ASSUME NEW i \in 1..(n - c) PROVE field[i] = v[c + i]
    <3>1. i \in 1..(n - (c + 1) + 1) /\ (c + 1) + i - 1 = c + i
      BY <2>2
    <3> QED BY <2>3, <2>4, <3>1
  <2> QED BY <2>3, <2>4, <2>5, <2>6
<1>5. ":" \in Token
  BY <1>1, <1>2
<1> DEFINE m == <<":">>
<1>6. m \in Seq(Token) /\ Len(m) = 1 /\ m[1] = ":"
  BY <1>5
<1> HIDE DEF m, n
<1>7. /\ key \o m \in Seq(Token) /\ Len(key \o m) = c
      /\ \A i \in 1..c : (key \o m)[i] = v[i]
  <2>1. /\ key \o m \in Seq(Token) /\ Len(key \o m) = Len(key) + Len(m)
        /\ \A i \in 1..(Len(key) + Len(m)) :
             (key \o m)[i] = IF i <= Len(key) THEN key[i] ELSE m[i - Len(key)]
    BY <1>3, <1>6, ConcatProperties
  <2> QED BY <1>1, <1>2, <1>3, <1>6, <2>1
<1> DEFINE km == key \o m
<1>8. /\ km \o field \in Seq(Token) /\ Len(km \o field) = n
      /\ \A i \in 1..n : (km \o field)[i] = v[i]
  <2>1. /\ km \o field \in Seq(Token) /\ Len(km \o field) = Len(km) + Len(field)
        /\ \A i \in 1..(Len(km) + Len(field)) :
             (km \o field)[i] = IF i <= Len(km) THEN km[i] ELSE field[i - Len(km)]
    <3>1. km \in Seq(Token) /\ field \in Seq(Token)
      BY <1>4, <1>7
    <3> HIDE DEF km
    <3> QED BY <3>1, ConcatProperties
  <2>2. Len(km) = c /\ \A i \in 1..c : km[i] = v[i]
    BY <1>7
  <2> HIDE DEF km
  <2>3. ASSUME NEW i \in 1..n PROVE (km \o field)[i] = v[i]
    <3>1. CASE i <= c
      BY <1>1, <1>2, <1>4, <2>1, <2>2, <3>1
    <3>2. CASE ~(i <= c)
      <4>1. i - c \in 1..(n - c) /\ c + (i - c) = i
        BY <1>1, <1>2, <3>2
      <4>2. i \in 1..(Len(km) + Len(field)) /\ ~(i <= Len(km))
        BY <1>1, <1>2, <1>4, <2>2, <3>2
      <4>3. (km \o field)[i] = field[i - c]
        BY <2>1, <2>2, <4>2
      <4> QED BY <1>4, <4>1, <4>3
    <3> QED BY <3>1, <3>2
  <2> QED BY <1>1, <1>2, <1>4, <2>1, <2>2, <2>3
<1>9. v = km \o field
  <2> HIDE DEF km
  <2> QED BY <1>8, SeqEqual DEF n
<1>10. key = << >> => v[1] = ":"
  BY <1>1, <1>2, <1>3, EmptySeq
<1>11. field = << >> => v[Len(v)] = ":"
  <2>1. ASSUME field = << >> PROVE n = c
    <3>1. Len(field) = 0
      BY <2>1, EmptySeq
    <3> QED BY <1>1, <1>2, <1>4, <3>1
  <2> QED BY <1>2, <2>1 DEF n
<1> QED BY <1>9, <1>10, <1>11 DEF m

\* The reports of -e up to m with a colon in the value.
FieldsTo(rep, m) ==
  {i \in 1..m : LET v == rep[i].value
                IN rep[i].answer = "e" /\ v # Null /\ \E k \in DOMAIN v : v[k] = ":"}

\* The field that main() has is that of the last of these reports, or none.
FieldOf(rep, m, key, field) ==
  /\ key # << >> => FieldsTo(rep, m) # {} /\ field # << >>
  /\ \A i \in LastOf(FieldsTo(rep, m)) :
       LET v == rep[i].value
       IN IF key = << >> THEN v[1] = ":" \/ v[Len(v)] = ":"
          ELSE v = key \o <<":">> \o field

\* What main() has of -e, unless it still has to read the last report.
FieldRead ==
  LET n == Len(reported) IN
  /\ answer # "e" => FieldOf(reported, n, extraKey, extraField)
  /\ answer = "e" => /\ n > 0 /\ reported[n].answer = "e" /\ reported[n].value = optarg
                     /\ FieldOf(reported, n - 1, extraKey, extraField)

\* The reports up to m alone matter.
LEMMA SameFields ==
  ASSUME NEW rep, NEW new, NEW m \in Nat, \A i \in 1..m : new[i] = rep[i],
         NEW key, NEW field, FieldOf(rep, m, key, field)
  PROVE  FieldOf(new, m, key, field)
<1> DEFINE F == FieldsTo(rep, m)
           G == FieldsTo(new, m)
<1>1. F \subseteq 1..m /\ G = F
  BY DEF FieldsTo
<1>2. \A i \in LastOf(G) : new[i] = rep[i] /\ i \in LastOf(F)
  <2> HIDE DEF F, G
  <2> QED BY <1>1 DEF LastOf
<1>3. /\ key # << >> => F # {} /\ field # << >>
      /\ \A i \in LastOf(F) : LET v == rep[i].value
                              IN IF key = << >> THEN v[1] = ":" \/ v[Len(v)] = ":"
                                 ELSE v = key \o <<":">> \o field
  BY DEF FieldOf
<1>4. \A i \in LastOf(G) : LET v == new[i].value
                           IN IF key = << >> THEN v[1] = ":" \/ v[Len(v)] = ":"
                              ELSE v = key \o <<":">> \o field
  <2> HIDE DEF F, G
  <2> QED BY <1>2, <1>3
<1> HIDE DEF F, G
<1>5. FieldsTo(new, m) = G
  BY DEF G
<1> QED BY <1>1, <1>3, <1>4, <1>5 DEF FieldOf

\* A report without a field in it changes nothing.
LEMMA NoFieldHere ==
  ASSUME NEW rep, NEW m \in Nat, m > 0,
         \/ rep[m].answer # "e"
         \/ rep[m].value = Null
         \/ \A k \in DOMAIN rep[m].value : rep[m].value[k] # ":",
         NEW key, NEW field, FieldOf(rep, m - 1, key, field)
  PROVE  FieldOf(rep, m, key, field)
<1>1. FieldsTo(rep, m) = FieldsTo(rep, m - 1)
  <2>1. \A i \in 1..m : i \in 1..(m - 1) \/ i = m
    OBVIOUS
  <2>2. 1..(m - 1) \subseteq 1..m
    OBVIOUS
  <2> QED BY <2>1, <2>2 DEF FieldsTo
<1> QED BY <1>1 DEF FieldOf

\* A report with a field in it sets it, or clears the key.
LEMMA FieldHere ==
  ASSUME NEW rep, NEW m \in Nat, m > 0, NEW v, v = rep[m].value,
         rep[m].answer = "e", v # Null, v \in Seq(Token), ":" \in {v[k] : k \in DOMAIN v},
         NEW key, NEW field, field = SubSeq(v, Colon(v) + 1, Len(v)),
         key = IF field = << >> THEN << >> ELSE SubSeq(v, 1, Colon(v) - 1)
  PROVE  FieldOf(rep, m, key, field)
<1> DEFINE F == FieldsTo(rep, m)
<1>1. m \in F /\ \A i \in F : i \in Nat /\ i <= m
  BY DEF FieldsTo
<1>2. LastOf(F) = {m}
  <2> HIDE DEF F
  <2>1. m \in LastOf(F)
    BY <1>1 DEF LastOf
  <2>2. ASSUME NEW i \in LastOf(F) PROVE i = m
    <3>1. i \in Nat /\ i <= m /\ m <= i
      BY <1>1, <2>2 DEF LastOf
    <3> QED BY <3>1
  <2> QED BY <2>1, <2>2
<1>3. key # << >> => F # {} /\ field # << >>
  BY <1>1
<1>4. key = << >> => v[1] = ":" \/ v[Len(v)] = ":"
  BY Halves
<1>5. key # << >> => v = key \o <<":">> \o field
  <2>1. ASSUME key # << >> PROVE v = key \o <<":">> \o field
    <3>1. key = SubSeq(v, 1, Colon(v) - 1)
      BY <2>1
    <3> DEFINE c == Colon(v)
    <3>2. field = SubSeq(v, c + 1, Len(v)) /\ key = SubSeq(v, 1, c - 1)
      BY <3>1
    <3> HIDE DEF c
    <3>3. c = Colon(v)
      BY DEF c
    <3> QED BY <3>2, <3>3, Halves
  <2> QED BY <2>1
<1> HIDE DEF F
<1>6. FieldsTo(rep, m) = F
  BY DEF F
<1> QED BY <1>2, <1>3, <1>4, <1>5, <1>6 DEF FieldOf

LEMMA FieldStays ==
  ASSUME FieldRead, answer # "e", answer' # "e",
         UNCHANGED <<reported, extraKey, extraField>>
  PROVE  FieldRead'
BY DEF FieldRead

\* A report of -e leaves main() to read it, another one leaves the field.
LEMMA FieldReported ==
  ASSUME IsSequence(reported), FieldRead, GetoptStep, UNCHANGED <<extraKey, extraField>>
  PROVE  FieldRead'
<1> DEFINE n == Len(reported)
<1>1. answer = "running" /\ FieldOf(reported, n, extraKey, extraField) /\ n \in Nat
  BY GetoptAnswers, Longer DEF FieldRead
<1>2. ASSUME NEW d, NEW value, NEW nxt, Reports(d, value, nxt)
      PROVE  FieldRead'
  <2> DEFINE r == [answer |-> d, value |-> value, at |-> optind]
  <2>1. reported' = Append(reported, r) /\ answer' = d /\ optarg' = value
    BY <1>2 DEF Reports, Answers
  <2>2. r.answer = d /\ r.value = value
    OBVIOUS
  <2> HIDE DEF r
  <2>3. /\ IsSequence(reported') /\ DOMAIN reported = 1..n /\ DOMAIN reported' = 1..(n + 1)
        /\ \A i \in 1..n : reported'[i] = reported[i]
        /\ reported'[n + 1] = r
    BY <2>1, Longer
  <2>4. Len(reported') = n + 1
    <3>1. DOMAIN reported' = 1..Len(reported') /\ Len(reported') \in Nat
      BY <2>3, Longer
    <3> HIDE DEF n
    <3> QED BY <1>1, <2>3, <3>1
  <2> HIDE DEF n
  <2>5. FieldOf(reported', n, extraKey, extraField)
    BY <1>1, <2>3, SameFields
  <2>6. FieldOf(reported', (n + 1) - 1, extraKey, extraField) /\ n + 1 \in Nat /\ n + 1 > 0
    <3>1. (n + 1) - 1 = n /\ n + 1 \in Nat /\ n + 1 > 0
      BY <1>1
    <3> QED BY <2>5, <3>1
  <2>7. CASE d = "e"
    <3>1. /\ answer' = "e" /\ Len(reported') > 0
          /\ reported'[Len(reported')].answer = "e" /\ reported'[Len(reported')].value = optarg'
      BY <2>1, <2>2, <2>3, <2>4, <2>6, <2>7
    <3>2. FieldOf(reported', Len(reported') - 1, extraKey', extraField')
      <4>1. extraKey' = extraKey /\ extraField' = extraField
        OBVIOUS
      <4> QED BY <2>4, <2>6, <4>1
    <3> QED BY <3>1, <3>2 DEF FieldRead
  <2>8. CASE d # "e"
    <3>1. FieldOf(reported', n + 1, extraKey, extraField)
      <4>1. reported'[n + 1].answer # "e"
        BY <2>2, <2>3, <2>8
      <4> DEFINE new == reported'
                 m == n + 1
      <4>2. m \in Nat /\ m > 0 /\ new[m].answer # "e" /\ FieldOf(new, m - 1, extraKey, extraField)
        BY <2>6, <4>1
      <4>3. FieldOf(new, m, extraKey, extraField)
        <5> HIDE DEF new, m
        <5> QED BY <4>2, NoFieldHere
      <4> QED BY <4>3
    <3> QED BY <2>1, <2>4, <2>8, <3>1 DEF FieldRead
  <2> QED BY <2>7, <2>8
<1>3. ASSUME reported' = reported, answer' \in {"running", Nothing, "undefined"}
      PROVE  FieldRead'
  <2>1. answer # "e" /\ answer' # "e"
    BY <1>1, <1>3 DEF Nothing
  <2> QED BY <1>3, <2>1, FieldStays
<1> QED BY <1>2, <1>3, GetoptAnswers

\* main() reads it.
LEMMA FieldSet ==
  ASSUME IsSequence(reported), Passed, ReportsHold, FieldRead, OnExtra
  PROVE  FieldRead'
<1> DEFINE n == Len(reported)
           v == reported[n].value
<1>1. /\ answer = "e" /\ answer' = "running" /\ reported' = reported
      /\ IF optarg = Null \/ ":" \notin {optarg[i] : i \in DOMAIN optarg}
         THEN UNCHANGED <<extraKey, extraField>>
         ELSE /\ extraField' = SubSeq(optarg, Colon(optarg) + 1, Len(optarg))
              /\ extraKey' = IF extraField' = << >> THEN << >>
                             ELSE SubSeq(optarg, 1, Colon(optarg) - 1)
  BY DEF OnExtra, On, Goes, CallAgain
<1>2. /\ n \in Nat /\ n > 0 /\ reported[n].answer = "e" /\ v = optarg /\ n \in DOMAIN reported
      /\ FieldOf(reported, n - 1, extraKey, extraField)
  <2>1. n \in Nat /\ DOMAIN reported = 1..n
    BY Longer
  <2>2. /\ n > 0 /\ reported[n].answer = "e" /\ v = optarg
        /\ FieldOf(reported, n - 1, extraKey, extraField)
    BY <1>1 DEF FieldRead
  <2> QED BY <2>1, <2>2
<1>3. FieldOf(reported, n, extraKey', extraField')
  <2>1. CASE optarg = Null \/ ":" \notin {optarg[i] : i \in DOMAIN optarg}
    <3>1. extraKey' = extraKey /\ extraField' = extraField
      BY <1>1, <2>1
    <3>2. v = Null \/ \A k \in DOMAIN v : v[k] # ":"
      BY <1>2, <2>1
    <3>3. FieldOf(reported, n, extraKey, extraField)
      <4> HIDE DEF n
      <4> QED BY <1>2, <3>2, NoFieldHere
    <3> QED BY <3>1, <3>3
  <2>2. CASE ~(optarg = Null \/ ":" \notin {optarg[i] : i \in DOMAIN optarg})
    <3>1. answer # Nothing
      BY <1>1 DEF Nothing
    <3>2. v \in Seq(Token)
      BY <1>2, <2>2, <3>1, ValueIsText
    <3>3. v # Null /\ ":" \in {v[k] : k \in DOMAIN v}
      BY <1>2, <2>2
    <3>4. /\ extraField' = SubSeq(v, Colon(v) + 1, Len(v))
          /\ extraKey' = IF extraField' = << >> THEN << >> ELSE SubSeq(v, 1, Colon(v) - 1)
      BY <1>1, <1>2, <2>2
    <3>5. v = reported[n].value
      OBVIOUS
    <3> HIDE DEF v, n
    <3> QED BY <1>2, <3>2, <3>3, <3>4, <3>5, FieldHere
  <2> QED BY <2>1, <2>2
<1> HIDE DEF v
<1> QED BY <1>1, <1>3 DEF FieldRead

LEMMA FieldKept ==
  ASSUME IsSequence(reported), Passed, ReportsHold, FieldRead, [Next]_vars
  PROVE  FieldRead'
<1> USE DEF optionVars
<1>1. CASE Parse
  BY <1>1, FieldReported DEF Parse
<1>2. CASE OnExtra
  BY <1>2, FieldSet
<1>3. ASSUME answer # "e", answer' \in {answer, "running"},
             UNCHANGED <<reported, extraKey, extraField>>
      PROVE  FieldRead'
  BY <1>3, FieldStays
<1>4. CASE OnHelp \/ OnFile \/ OnAddress \/ OnMessage
  BY <1>3, <1>4
  DEF OnHelp, OnFile, OnAddress, OnMessage, On, Usage, Goes, CallAgain, getoptVars
<1>5. CASE OnPort \/ OnTime \/ OnLevel
  BY <1>3, <1>5
  DEF OnPort, OnTime, OnLevel, On, Unreadable, Usage, Goes, CallAgain, getoptVars
<1>6. CASE OnUnknown \/ OptionsEnd \/ LogAndFlush
  BY <1>3, <1>6
  DEF OnUnknown, OptionsEnd, LogAndFlush, On, Usage, Goes, CallAgain, getoptVars, Unknown, Nothing
<1>7. CASE UNCHANGED vars
  BY <1>7 DEF vars, getoptVars, FieldRead
<1> QED BY <1>1, <1>2, <1>4, <1>5, <1>6, <1>7 DEF Next

LEMMA NoFieldYet == Init => FieldRead
<1> SUFFICES ASSUME Init PROVE FieldRead
  OBVIOUS
<1>1. reported = << >> /\ answer = "running" /\ extraKey = << >>
  BY DEF Init, GetoptInit
<1>2. Len(reported) = 0
  BY <1>1, EmptySeq
<1>3. FieldsTo(reported, 0) = {} /\ LastOf({}) = {}
  BY DEF FieldsTo, LastOf
<1> QED BY <1>1, <1>2, <1>3 DEF FieldRead, FieldOf

\* Whatever the command line, and however often -e comes in it, the extra field that is
\* logged is both halves of the last -e that has a colon, or none when one of these
\* halves is empty: no key goes with the value of another -e (ConsoleLogger.cpp:120-132).
THEOREM FieldFromOneOption == Spec => []ExtraFromOneOption
<1>1. ASSUME Inv, FieldRead PROVE ExtraFromOneOption
  <2> SUFFICES ASSUME NEW c \in CallsOf("Msg")
               PROVE  /\ c.extra # << >> => Fields # {} /\ c.extra[1] # << >> /\ c.extra[2] # << >>
                      /\ \A i \in LastOf(Fields) :
                           LET v == reported[i].value
                           IN IF c.extra = << >> THEN v[1] = ":" \/ v[Len(v)] = ":"
                              ELSE v = c.extra[1] \o <<":">> \o c.extra[2]
    BY DEF ExtraFromOneOption
  <2>1. phase = "done" /\ calls = LibraryCalls /\ answer # "e"
    <3>1. calls # << >>
      BY DEF CallsOf
    <3> QED BY <1>1, <3>1 DEF Inv, Told, Nothing
  <2>2. c \in Range(LibraryCalls) /\ c.call = "Msg"
    BY <2>1 DEF CallsOf, Range
  <2>3. c = Message
    BY <2>2, CallsRange, CallNames
  <2>4. c.extra = IF extraKey # << >> THEN <<extraKey, extraField>> ELSE << >>
    BY <2>3 DEF Message
  <2>5. FieldsTo(reported, Len(reported)) = Fields
    <3>1. DOMAIN reported = 1..Len(reported)
      BY <1>1, Longer DEF Inv
    <3> QED BY <3>1 DEF FieldsTo, Fields
  <2>6. FieldOf(reported, Len(reported), extraKey, extraField)
    BY <1>1, <2>1 DEF FieldRead
  <2>7. /\ extraKey # << >> => Fields # {} /\ extraField # << >>
        /\ \A i \in LastOf(Fields) :
             LET v == reported[i].value
             IN IF extraKey = << >> THEN v[1] = ":" \/ v[Len(v)] = ":"
                ELSE v = extraKey \o <<":">> \o extraField
    BY <2>5, <2>6 DEF FieldOf
  <2>8. CASE extraKey = << >>
    BY <2>4, <2>7, <2>8
  <2>9. CASE extraKey # << >>
    <3>1. c.extra # << >> /\ c.extra[1] = extraKey /\ c.extra[2] = extraField
      BY <2>4, <2>9
    <3> QED BY <2>7, <2>9, <3>1
  <2> QED BY <2>8, <2>9
<1>2. Inv /\ Passed /\ ReportsHold /\ FieldRead /\ [Next]_vars => FieldRead'
  BY FieldKept DEF Inv
<1> QED BY <1>1, <1>2, NoFieldYet, Invariant, AlwaysRead, PTL DEF Spec
=============================================================================
