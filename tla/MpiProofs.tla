------------------------------ MODULE MpiProofs ------------------------------
(***************************************************************************)
(* Theorems about the big numbers: the multiplication modulo N of          *)
(* MpiMontgomery, the functions that MpiRegisters calls in any order, and  *)
(* the long division of MpiDivision, for operands of every size and limbs  *)
(* of every width.                                                         *)
(***************************************************************************)
EXTENDS MpiDivision, MpiMontgomery, MpiRegisters, MpiLemmas

(* The inverse of mpi_montg_init. *)

\* One Newton step doubles the bits that are right.
LEMMA NewtonStep ==
  ASSUME NEW S \in Nat \ {0}, NEW P \in Nat \ {0}, NEW c \in Nat, S = (P * P) * c,
         NEW m0 \in Int, NEW x \in Int, Congruent(m0 * x, 1, P)
  PROVE  Congruent(m0 * ((x * ((2 - ((m0 * x) % S)) % S)) % S), 1, P * P)
<1> DEFINE u == m0 * x
           y == (2 - (u % S)) % S
           w == (x * y) % S
           Q == P * P
<1>1. u \in Int /\ Q \in Nat \ {0}
  OBVIOUS
<1>2. PICK e \in Int : u = 1 + P * e
  BY DEF Congruent
<1>3. Congruent(y, 2 - u, S) /\ y \in Int
  <2> HIDE DEF u
  <2>1. Congruent(u % S, u, S) /\ u % S \in Int
    BY <1>1, RemainderIsCongruent
  <2> DEFINE a == u % S
             b == 2 - a
             h == 2
             f == 2 - u
  <2>2. a \in Int /\ b \in Int /\ h \in Int /\ f \in Int
    BY <1>1, <2>1
  <2>3. Congruent(a, u, S)
    BY <2>1
  <2> HIDE DEF a
  <2>4. Congruent(h, h, S)
    BY <2>2, CongruentTo
  <2> HIDE DEF h
  <2>5. Congruent(h - a, h - u, S)
    BY <1>1, <2>2, <2>3, <2>4, CongruentSum
  <2>6. h - a = b /\ h - u = f
    BY DEF h
  <2> HIDE DEF b, f
  <2>7. Congruent(b, f, S)
    BY <2>5, <2>6
  <2>8. Congruent(b % S, b, S) /\ b % S \in Int
    BY <2>2, RemainderIsCongruent
  <2>9. Congruent(b % S, f, S)
    BY <2>2, <2>7, <2>8, CongruentThrough
  <2> QED BY <2>8, <2>9 DEF a, b, f
<1>4. Congruent(w, x * (2 - u), S) /\ w \in Int
  <2> DEFINE f == 2 - u
             p == x * y
             q == x * f
  <2>1. f \in Int
    BY <1>1
  <2> HIDE DEF u, y, f
  <2>2. p \in Int /\ q \in Int
    BY <1>3, <2>1
  <2>3. Congruent(x, x, S)
    BY CongruentTo
  <2>4. Congruent(y, f, S)
    BY <1>3 DEF f
  <2>5. Congruent(p, q, S)
    BY <1>3, <2>1, <2>3, <2>4, CongruentProduct
  <2> HIDE DEF p, q
  <2>6. Congruent(p % S, p, S) /\ p % S \in Int
    BY <2>2, RemainderIsCongruent
  <2>7. Congruent(p % S, q, S)
    BY <2>2, <2>5, <2>6, CongruentThrough
  <2> QED BY <2>6, <2>7 DEF p, q, f
<1>5. PICK g \in Int : w = x * (2 - u) + S * g
  BY <1>4 DEF Congruent
<1> DEFINE z == m0 * (c * g) - e * e
<1>6. z \in Int
  OBVIOUS
<1>7. m0 * w = u * (2 - u) + Q * (m0 * (c * g))
  <2> HIDE DEF w
  <2>1. m0 * w = m0 * (x * (2 - u)) + m0 * (S * g)
    BY <1>1, <1>5
  <2>2. m0 * (x * (2 - u)) = u * (2 - u)
    OBVIOUS
  <2>3. m0 * (S * g) = Q * (m0 * (c * g))
    OBVIOUS
  <2> QED BY <2>1, <2>2, <2>3
<1>8. u * (2 - u) = 1 - Q * (e * e)
  <2> HIDE DEF u
  <2>1. u * (2 - u) = (1 + P * e) * (1 - P * e)
    BY <1>2
  <2>2. (1 + P * e) * (1 - P * e) = 1 - Q * (e * e)
    OBVIOUS
  <2> QED BY <2>1, <2>2
<1>9. m0 * w = 1 + Q * z
  <2> DEFINE a == m0 * (c * g)
             b == e * e
  <2>1. a \in Int /\ b \in Int /\ z = a - b
    OBVIOUS
  <2>2. m0 * w = 1 - Q * b + Q * a
    <3>1. m0 * w = (1 - Q * b) + Q * a
      BY <1>7, <1>8
    <3>2. Q * a \in Int /\ Q * b \in Int
      BY <1>1, <2>1
    <3> DEFINE aa == Q * a  bb == Q * b
    <3> HIDE DEF aa, bb
    <3>3. m0 * w = (1 - bb) + aa /\ aa \in Int /\ bb \in Int
      BY <3>1, <3>2 DEF aa, bb
    <3>4. m0 * w = 1 - bb + aa
      BY <3>3
    <3> QED BY <3>4 DEF aa, bb
  <2> HIDE DEF a, b, z, Q, w
  <2>3. 1 - Q * b + Q * a = 1 + Q * (a - b)
    BY <1>1, <2>1
  <2> QED BY <2>1, <2>2, <2>3
<1> QED BY <1>6, <1>9 DEF Congruent

\* The first guess is right modulo 16.
LEMMA FirstInverse ==
  ASSUME NEW m0 \in Nat, m0 % 2 = 1
  PROVE  Congruent(m0 * (m0 + 2 * (4 * (((m0 + 2) \div 4) % 2))), 1, 16)
<1> DEFINE a == m0 \div 16
           r == m0 % 16
           b == ((m0 + 2) \div 4) % 2
<1>1. a \in Int /\ r \in 0..15 /\ m0 = 16 * a + r
  OBVIOUS
<1>2. /\ \/ r \in {1, 7, 9, 15} /\ b = 0
         \/ r \in {3, 5, 11, 13} /\ b = 1
      /\ 2 * (4 * b) = 8 * b
  <2> HIDE DEF a, r
  <2>1. r % 2 = 1
    <3>1. 16 * a = 2 * (8 * a) /\ 8 * a \in Int
      BY <1>1
    <3> QED BY <1>1, <3>1
  <2>2. r \in {1, 3, 5, 7, 9, 11, 13, 15}
    BY <1>1, <2>1
  <2>3. b = ((16 * a + (r + 2)) \div 4) % 2
    <3>1. m0 + 2 = 16 * a + (r + 2)
      BY <1>1
    <3> QED BY <3>1
  <2>4. \A f \in 0..17 : ((16 * a + f) \div 4) % 2 = (f \div 4) % 2
    BY <1>1
  <2>5. b = ((r + 2) \div 4) % 2
    BY <2>2, <2>3, <2>4
  <2>6. /\ \A f \in {1, 7, 9, 15} : ((f + 2) \div 4) % 2 = 0
        /\ \A f \in {3, 5, 11, 13} : ((f + 2) \div 4) % 2 = 1
    OBVIOUS
  <2> HIDE DEF b
  <2>7. \/ r \in {1, 7, 9, 15} /\ b = 0
        \/ r \in {3, 5, 11, 13} /\ b = 1
    BY <2>2, <2>5, <2>6
  <2> QED BY <2>7
<1>3. PICK e \in Int : r * (r + 8 * b) = 1 + 16 * e
  <2> HIDE DEF a, r, b
  <2>1. \E e \in {0, 2, 3, 4, 5, 13, 14, 17} : r * (r + 8 * b) = 1 + 16 * e
    BY <1>2
  <2> QED BY <2>1
<1> HIDE DEF a, r, b
<1> DEFINE z == 16 * (a * a) + (2 * r + 8 * b) * a + e
<1>4. r \in Int /\ b \in Int
  BY <1>2
<1>5. z \in Int
  BY <1>1, <1>4
<1>6. (16 * a + r) * (16 * a + r + 8 * b) = r * (r + 8 * b) + 16 * (z - e)
  BY <1>1, <1>4
<1>7. m0 * (m0 + 8 * b) = 1 + 16 * z
  <2> HIDE DEF z
  <2>1. m0 + 8 * b = 16 * a + r + 8 * b
    BY <1>1, <1>4
  <2>2. m0 * (m0 + 8 * b) = r * (r + 8 * b) + 16 * (z - e)
    BY <1>1, <1>6, <2>1
  <2> QED BY <1>3, <1>5, <2>2
<1> HIDE DEF z
<1> QED BY <1>2, <1>5, <1>7 DEF Congruent, b

\* How often the loop over the width runs.
HalvedTo(h, w) == \A j \in 0..w : h[j] = IF j < 8 THEN 0 ELSE 1 + h[j \div 2]

LEMMA HalvingsExist ==
  ASSUME NEW w \in Nat
  PROVE  \E h \in [0..w -> Nat] : HalvedTo(h, w)
<1> DEFINE S == {m \in Nat : \E h \in [0..m -> Nat] : HalvedTo(h, m)}
<1>1. 0 \in S
  <2>1. [j \in 0..0 |-> 0] \in [0..0 -> Nat] /\ HalvedTo([j \in 0..0 |-> 0], 0)
    BY DEF HalvedTo
  <2> QED BY <2>1
<1>2. ASSUME NEW m \in Nat, m \in S PROVE m + 1 \in S
  <2>1. PICK h \in [0..m -> Nat] : HalvedTo(h, m)
    BY <1>2
  <2> DEFINE l == m + 1
             g == [j \in 0..l |-> IF j <= m THEN h[j]
                                  ELSE IF j < 8 THEN 0 ELSE 1 + h[j \div 2]]
  <2>2. \A j \in 0..l : j \div 2 \in 0..l /\ (j >= 8 => j \div 2 \in 0..m)
    OBVIOUS
  <2>3. g \in [0..l -> Nat]
    BY <2>1, <2>2
  <2>4. ASSUME NEW j \in 0..l PROVE g[j] = IF j < 8 THEN 0 ELSE 1 + g[j \div 2]
    <3>1. j >= 8 => g[j \div 2] = h[j \div 2]
      <4>1. SUFFICES ASSUME j >= 8 PROVE g[j \div 2] = h[j \div 2]
        OBVIOUS
      <4> DEFINE f == j \div 2
      <4>2. f \in 0..l /\ f \in 0..m
        BY <2>2, <4>1
      <4> HIDE DEF f
      <4>3. g[f] = h[f]
        BY <4>2
      <4> QED BY <4>3 DEF f
    <3>2. CASE j <= m
      <4>1. j \in 0..m
        BY <3>2
      <4>2. g[j] = h[j] /\ h[j] = IF j < 8 THEN 0 ELSE 1 + h[j \div 2]
        BY <2>1, <4>1 DEF HalvedTo
      <4> HIDE DEF g
      <4> QED BY <3>1, <4>2
    <3>3. CASE ~(j <= m)
      <4>1. g[j] = IF j < 8 THEN 0 ELSE 1 + h[j \div 2]
        BY <3>3
      <4> HIDE DEF g
      <4> QED BY <3>1, <4>1
    <3> QED BY <3>2, <3>3
  <2> HIDE DEF g
  <2>5. HalvedTo(g, l)
    BY <2>4 DEF HalvedTo
  <2>6. l \in Nat
    OBVIOUS
  <2> HIDE DEF l
  <2>7. l \in S
    BY <2>3, <2>5, <2>6
  <2> QED BY <2>7 DEF l
<1> HIDE DEF S
<1>3. Nat \subseteq S
  BY <1>1, <1>2, Induction
<1> QED BY <1>3 DEF S

LEMMA HalvingsAre ==
  ASSUME NEW w \in Nat
  PROVE  /\ w < 8 => Halvings(w) = 0
         /\ \A l \in Nat : w = 4 * TwoTo[l] => Halvings(w) = l
<1> DEFINE Is(h) == h = [j \in 0..w |-> IF j < 8 THEN 0 ELSE 1 + h[j \div 2]]
           h0 == CHOOSE h : Is(h)
<1>1. \E h : Is(h)
  <2>1. PICK h \in [0..w -> Nat] : HalvedTo(h, w)
    BY HalvingsExist
  <2>2. Is(h)
    BY <2>1 DEF HalvedTo
  <2> QED BY <2>2
<1>2. Is(h0)
  BY <1>1
<1>3. Halvings(w) = h0[w]
  BY DEF Halvings
<1>4. \A j \in 0..w : h0[j] = IF j < 8 THEN 0 ELSE 1 + h0[j \div 2]
  BY <1>2
<1> HIDE DEF h0, Is
<1>5. w < 8 => h0[w] = 0
  BY <1>4
<1>6. ASSUME NEW l \in Nat, w = 4 * TwoTo[l] PROVE h0[w] = l
  <2> DEFINE W == {j \in 0..l : h0[4 * TwoTo[j]] = j}
  <2>1. 0 \in W
    <3>1. TwoTo[0] = 1 /\ TwoTo[l] \in Nat \ {0}
      BY TwoToIsDefined
    <3>2. 4 * 1 \in 0..w /\ 4 * 1 < 8
      BY <1>6, <3>1
    <3>3. h0[4 * 1] = 0
      BY <1>4, <3>2
    <3> QED BY <3>1, <3>3
  <2>2. ASSUME NEW j \in 0..(l - 1), j \in W PROVE j + 1 \in W
    <3> DEFINE f == l - (j + 1)
               g == j + 1
               p == TwoTo[j]
               q == TwoTo[f]
    <3>1. f \in Nat /\ g \in Nat /\ g \in 0..l /\ g + f = l /\ j \in Nat
      OBVIOUS
    <3> HIDE DEF f
    <3>2. TwoTo[g] = 2 * p /\ p \in Nat \ {0} /\ q \in Nat \ {0}
      BY <3>1, TwoToAt
    <3> HIDE DEF g
    <3>3. TwoTo[l] = TwoTo[g] * q
      BY <3>1, TwoToSum
    <3> HIDE DEF p, q
    <3>4. 4 * (2 * p) <= w
      <4>1. \A x, y \in Nat \ {0} : x <= x * y
        OBVIOUS
      <4>2. 2 * p \in Nat \ {0}
        BY <3>2
      <4>3. 2 * p <= (2 * p) * q /\ TwoTo[l] = (2 * p) * q
        BY <3>2, <3>3, <4>1, <4>2
      <4>4. (2 * p) * q \in Nat
        BY <3>2
      <4> QED BY <1>6, <4>2, <4>3, <4>4
    <3>5. 4 * (2 * p) \in 0..w /\ 4 * (2 * p) >= 8 /\ (4 * (2 * p)) \div 2 = 4 * p
      BY <3>2, <3>4
    <3>6. h0[4 * (2 * p)] = 1 + h0[4 * p]
      BY <1>4, <3>5
    <3>7. h0[4 * p] = j
      BY <2>2 DEF p
    <3>8. h0[4 * TwoTo[g]] = g
      BY <3>2, <3>6, <3>7 DEF g
    <3>9. g \in W
      BY <3>1, <3>8
    <3> QED BY <3>9 DEF g
  <2>3. \A j \in 0..l : j \in W
    <3> HIDE DEF W
    <3> QED BY <2>1, <2>2, BoundedInduction
  <2>4. l \in W
    BY <2>3
  <2> QED BY <1>6, <2>4
<1> QED BY <1>3, <1>5, <1>6

LEMMA CongruentModuloPart ==
  ASSUME NEW m \in Nat \ {0}, NEW c \in Nat \ {0}, NEW x \in Int, NEW y \in Int,
         Congruent(x, y, m * c)
  PROVE  Congruent(x, y, m)
<1>1. PICK z \in Int : x = y + (m * c) * z
  BY DEF Congruent
<1> DEFINE u == c * z
<1>2. u \in Int /\ (m * c) * z = m * u
  OBVIOUS
<1> HIDE DEF u
<1> QED BY <1>1, <1>2 DEF Congruent

\* The powers of two that divide one another.
LEMMA TwoToDivides ==
  ASSUME NEW a \in Nat, NEW b \in Nat, a <= b
  PROVE  /\ TwoTo[b] = TwoTo[a] * TwoTo[b - a] /\ TwoTo[b - a] \in Nat \ {0}
         /\ TwoTo[a] \in Nat \ {0} /\ TwoTo[b] \in Nat \ {0}
<1> DEFINE e == b - a
<1>1. e \in Nat /\ a + e = b
  OBVIOUS
<1> HIDE DEF e
<1>2. TwoTo[a + e] = TwoTo[a] * TwoTo[e]
  BY <1>1, TwoToSum
<1>3. TwoTo[e] \in Nat \ {0} /\ TwoTo[a] \in Nat \ {0} /\ TwoTo[b] \in Nat \ {0}
  BY <1>1, TwoToAt
<1> QED BY <1>1, <1>2, <1>3 DEF e

Multiple(y, x) == \E c \in Nat \ {0} : y = x * c

Invertible(w) == w \in Nat /\ (w <= 4 \/ \E h \in Nat : w = 4 * TwoTo[h])

LEMMA MontgInit ==
  ASSUME NEW w, Invertible(w), NEW m0 \in Nat, m0 % 2 = 1
  PROVE  /\ montg_init(m0, w) \in 0..(TwoTo[w] - 1)
         /\ (m0 * montg_init(m0, w) + 1) % TwoTo[w] = 0
<1> DEFINE S == TwoTo[w]
           H == Halvings(w)
           y0 == m0 + 2 * (4 * (((m0 + 2) \div 4) % 2))
           first == y0 % S
           Step == [s \in Nat \X Int |->
                      (s[2] * ((2 - ((m0 * s[2]) % S)) % S)) % S]
           Is(x) == x = [j \in 0..H |-> IF j = 0 THEN first
                      ELSE (x[j - 1] * ((2 - ((m0 * x[j - 1]) % S)) % S)) % S]
           x0 == CHOOSE x : Is(x)
           Places4(j) == TwoTo[4 * TwoTo[j]]
<1>1. w \in Nat /\ S \in Nat \ {0}
  <2>1. w \in Nat
    BY DEF Invertible
  <2> QED BY <2>1, TwoToAt
<1>2. \/ w <= 4 /\ H = 0
      \/ H \in Nat /\ w = 4 * TwoTo[H]
  <2>1. w < 8 => H = 0
    BY <1>1, HalvingsAre
  <2>2. ASSUME NEW h \in Nat, w = 4 * TwoTo[h] PROVE H = h
    BY <1>1, <2>2, HalvingsAre
  <2> HIDE DEF H
  <2> QED BY <1>1, <2>1, <2>2 DEF Invertible
<1>3. y0 \in Int /\ Congruent(m0 * y0, 1, 16) /\ H \in Nat
  <2>1. y0 \in Int
    OBVIOUS
  <2>2. Congruent(m0 * y0, 1, 16)
    BY FirstInverse
  <2> HIDE DEF H, y0
  <2> QED BY <1>2, <2>1, <2>2
<1>4. first \in Int /\ Congruent(first, y0, S)
  <2> HIDE DEF y0, S
  <2> QED BY <1>1, <1>3, RemainderIsCongruent
<1> HIDE DEF S, H, y0, first
<1>5. \A j \in Nat, v1 \in Int :
        /\ Step[<<j, v1>>] = (v1 * ((2 - ((m0 * v1) % S)) % S)) % S
        /\ Step[<<j, v1>>] \in Int
  <2>1. \A j \in Nat, v1 \in Int :
          Step[<<j, v1>>] = (v1 * ((2 - ((m0 * v1) % S)) % S)) % S
    OBVIOUS
  <2> HIDE DEF Step
  <2>2. ASSUME NEW v1 \in Int
        PROVE  (v1 * ((2 - ((m0 * v1) % S)) % S)) % S \in Int
    <3>1. \A y \in Int : y % S \in Int
      BY <1>1
    <3>2. m0 * v1 \in Int
      OBVIOUS
    <3>3. (m0 * v1) % S \in Int
      BY <3>1, <3>2
    <3>4. (2 - ((m0 * v1) % S)) % S \in Int
      BY <3>1, <3>3
    <3>5. v1 * ((2 - ((m0 * v1) % S)) % S) \in Int
      BY <3>4
    <3> QED BY <3>1, <3>5
  <2> QED BY <2>1, <2>2
<1> HIDE DEF Step
<1>6. \E x : Is(x)
  <2>1. Stays(Int, Step)
    BY <1>5 DEF Stays
  <2>2. PICK g \in [0..H -> Int] : Steps(g, H, first, Step)
    BY <1>3, <1>4, <2>1, StepsExist
  <2>3. ASSUME NEW j \in 0..H, j # 0
        PROVE  g[j] = (g[j - 1] * ((2 - ((m0 * g[j - 1]) % S)) % S)) % S
    <3> DEFINE f == j - 1
    <3>1. f \in 0..(H - 1) /\ f + 1 = j /\ f \in Nat /\ f \in 0..H
      BY <1>3, <2>3
    <3> HIDE DEF f
    <3>2. g[f + 1] = Step[<<f, g[f]>>] /\ g[f] \in Int
      BY <2>2, <3>1 DEF Steps
    <3>3. g[j] = (g[f] * ((2 - ((m0 * g[f]) % S)) % S)) % S
      BY <1>5, <3>1, <3>2
    <3> QED BY <3>3 DEF f
  <2>4. Is(g)
    BY <2>2, <2>3 DEF Steps
  <2> QED BY <2>4
<1>7. Is(x0)
  BY <1>6
<1>8. montg_init(m0, w) = (-x0[H]) % S
  BY DEF montg_init, S, H, y0, first
<1>9. \A j \in 0..H : x0[j] = IF j = 0 THEN first
        ELSE (x0[j - 1] * ((2 - ((m0 * x0[j - 1]) % S)) % S)) % S
  BY <1>7
<1> HIDE DEF x0, Is
<1>10. x0[0] = first
  <2>1. 0 \in 0..H
    BY <1>3
  <2> QED BY <1>9, <2>1
<1>11. ASSUME NEW P \in Nat \ {0}, Multiple(S, P), Multiple(16, P)
       PROVE  Congruent(m0 * first, 1, P)
  <2>a. PICK c \in Nat \ {0} : S = P * c
    BY <1>11 DEF Multiple
  <2>b. PICK e \in Nat \ {0} : 16 = P * e
    BY <1>11 DEF Multiple
  <2>1. Congruent(m0 * y0, 1, P)
    <3> DEFINE u == m0 * y0
    <3>1. u \in Int /\ Congruent(u, 1, P * e)
      BY <1>3, <2>b
    <3> HIDE DEF u
    <3>2. Congruent(u, 1, P)
      BY <3>1, CongruentModuloPart
    <3> QED BY <3>2 DEF u
  <2>2. Congruent(first, y0, P)
    <3>1. Congruent(first, y0, P * c)
      BY <1>4, <2>a
    <3> QED BY <1>3, <1>4, <3>1, CongruentModuloPart
  <2>3. m0 \in Int /\ first \in Int /\ y0 \in Int
    BY <1>3, <1>4
  <2>c. Congruent(m0, m0, P)
    BY <2>3, CongruentTo
  <2>4. Congruent(m0 * first, m0 * y0, P)
    BY <2>2, <2>3, <2>c, CongruentProduct
  <2> DEFINE u == m0 * y0  z == m0 * first
  <2>5. u \in Int /\ z \in Int
    BY <1>3, <1>4
  <2> HIDE DEF u, z
  <2>6. Congruent(z, 1, P)
    BY <2>1, <2>4, <2>5, CongruentThrough DEF u, z
  <2> QED BY <2>6 DEF z
<1>12. ASSUME w <= 4, H = 0
       PROVE  x0[H] \in Int /\ Congruent(m0 * x0[H], 1, S)
  <2> DEFINE e == TwoTo[4 - w]
  <2>1. 16 = S * e /\ e \in Nat \ {0}
    <3>1. TwoTo[4] = TwoTo[w] * TwoTo[4 - w] /\ TwoTo[4 - w] \in Nat \ {0}
      BY <1>1, <1>12, TwoToDivides
    <3> QED BY <3>1, SmallPowersOfTwo DEF S
  <2> HIDE DEF e
  <2>2. S = S * 1 /\ 1 \in Nat \ {0}
    BY <1>1
  <2>3. Multiple(S, S) /\ Multiple(16, S)
    BY <2>1, <2>2 DEF Multiple
  <2>4. Congruent(m0 * first, 1, S)
    BY <1>1, <1>11, <2>3
  <2>5. x0[H] = first
    BY <1>10, <1>12
  <2> QED BY <1>4, <2>4, <2>5
<1>13. ASSUME w = 4 * TwoTo[H]
       PROVE  x0[H] \in Int /\ Congruent(m0 * x0[H], 1, S)
  <2> DEFINE W == {j \in 0..H : x0[j] \in Int /\ Congruent(m0 * x0[j], 1, Places4(j))}
  <2>1. \A j \in 0..H : /\ TwoTo[j] \in Nat \ {0} /\ 4 * TwoTo[j] \in Nat
                        /\ 4 * TwoTo[j] <= w /\ j \in Nat
    <3> SUFFICES ASSUME NEW j \in 0..H
                 PROVE  /\ TwoTo[j] \in Nat \ {0} /\ 4 * TwoTo[j] \in Nat
                        /\ 4 * TwoTo[j] <= w /\ j \in Nat
      OBVIOUS
    <3>1. j \in Nat /\ j <= H
      BY <1>3
    <3> DEFINE p == TwoTo[j]  q == TwoTo[H - j]
    <3>2. TwoTo[H] = p * q /\ q \in Nat \ {0} /\ p \in Nat \ {0}
      BY <1>3, <3>1, TwoToDivides
    <3> HIDE DEF p, q
    <3>3. \A y, z \in Nat \ {0} : y <= y * z
      OBVIOUS
    <3>4. p <= p * q /\ p * q \in Nat
      BY <3>2, <3>3
    <3> QED BY <1>13, <3>1, <3>2, <3>4 DEF p
  <2>2. 0 \in W
    <3>1. Places4(0) = 16
      <4>1. TwoTo[0] = 1 /\ 4 * 1 = 4
        BY TwoToIsDefined
      <4> QED BY <4>1, SmallPowersOfTwo
    <3>2. 0 \in 0..H
      BY <1>3
    <3>3. S = 16 * TwoTo[w - 4] /\ TwoTo[w - 4] \in Nat \ {0}
      <4>1. 4 <= w
        <5>1. TwoTo[0] = 1
          BY TwoToIsDefined
        <5> QED BY <2>1, <3>2, <5>1
      <4>2. TwoTo[w] = TwoTo[4] * TwoTo[w - 4] /\ TwoTo[w - 4] \in Nat \ {0}
        BY <1>1, <4>1, TwoToDivides
      <4> QED BY <4>2, SmallPowersOfTwo DEF S
    <3>4. Congruent(m0 * first, 1, 16)
      <4> DEFINE c == TwoTo[w - 4]
      <4>1. c \in Nat \ {0} /\ S = 16 * c /\ 16 = 16 * 1
        BY <3>3
      <4> HIDE DEF c
      <4>2. Multiple(S, 16) /\ Multiple(16, 16)
        BY <4>1 DEF Multiple
      <4> QED BY <1>11, <4>2
    <3> QED BY <1>4, <1>10, <3>1, <3>2, <3>4
  <2>3. ASSUME NEW j \in 0..(H - 1), j \in W PROVE j + 1 \in W
    <3> DEFINE l == j + 1
               P == Places4(j)
               x == x0[j]
               c == TwoTo[w - 4 * TwoTo[l]]
    <3>1. l \in 0..H /\ l # 0 /\ l - 1 = j /\ l \in Nat /\ j \in Nat /\ j \in 0..H
      BY <1>3
    <3>2. x \in Int /\ Congruent(m0 * x, 1, P)
      BY <2>3
    <3> HIDE DEF l
    <3>3. x0[l] = (x * ((2 - ((m0 * x) % S)) % S)) % S
      BY <1>9, <3>1
    <3>4. P \in Nat \ {0} /\ Places4(l) = P * P
      <4> DEFINE a == 4 * TwoTo[j]
      <4>1. a \in Nat /\ TwoTo[l] = 2 * TwoTo[j] /\ TwoTo[j] \in Nat
        BY <2>1, <3>1, TwoToAt
      <4>2. 4 * TwoTo[l] = a + a
        BY <4>1
      <4> HIDE DEF a
      <4>3. TwoTo[a + a] = TwoTo[a] * TwoTo[a] /\ TwoTo[a] \in Nat \ {0}
        BY <4>1, TwoToSum, TwoToAt
      <4> QED BY <4>2, <4>3 DEF a
    <3>5. S = Places4(l) * c /\ c \in Nat \ {0}
      <4> DEFINE a == 4 * TwoTo[l]
      <4>1. a \in Nat /\ a <= w
        BY <2>1, <3>1
      <4> HIDE DEF a
      <4>2. TwoTo[w] = TwoTo[a] * TwoTo[w - a] /\ TwoTo[w - a] \in Nat \ {0}
        BY <1>1, <4>1, TwoToDivides
      <4> QED BY <4>2 DEF S, a
    <3>6. S = (P * P) * c
      BY <3>4, <3>5
    <3> HIDE DEF P, x, c
    <3>7. Congruent(m0 * x0[l], 1, P * P)
      <4>1. c \in Nat /\ m0 \in Int
        BY <3>5
      <4> QED BY <1>1, <3>2, <3>3, <3>4, <3>6, <4>1, NewtonStep
    <3>8. x0[l] \in Int
      <4>1. Step[<<j, x>>] \in Int /\ Step[<<j, x>>] = x0[l]
        BY <1>5, <3>1, <3>2, <3>3
      <4> QED BY <4>1
    <3>9. l \in W
      BY <3>1, <3>4, <3>7, <3>8
    <3> QED BY <3>9 DEF l
  <2>4. \A j \in 0..H : j \in W
    <3> HIDE DEF W
    <3> QED BY <1>3, <2>2, <2>3, BoundedInduction
  <2>5. H \in W
    BY <1>3, <2>4
  <2>6. x0[H] \in Int /\ Congruent(m0 * x0[H], 1, TwoTo[4 * TwoTo[H]])
    BY <2>5
  <2>7. S = TwoTo[4 * TwoTo[H]]
    BY <1>13 DEF S
  <2> QED BY <2>6, <2>7
<1>14. x0[H] \in Int /\ Congruent(m0 * x0[H], 1, S)
  BY <1>2, <1>12, <1>13
<1> DEFINE x == x0[H]
           z == -x
           r == z % S
<1>15. x \in Int /\ z \in Int /\ Congruent(m0 * x, 1, S)
  BY <1>14
<1> HIDE DEF x
<1>16. r \in 0..(S - 1) /\ r \in Int /\ Congruent(r, z, S)
  <2> HIDE DEF z
  <2> QED BY <1>1, <1>15, QuotientRemainder, RemainderIsCongruent
<1> HIDE DEF r
<1>17. m0 * z = -(m0 * x) /\ m0 * x \in Int
  BY <1>15
<1>18. PICK f \in Int : r = z + S * f
  BY <1>16 DEF Congruent
<1>19. PICK g \in Int : m0 * x = 1 + S * g
  BY <1>15 DEF Congruent
<1>20. m0 * r + 1 = S * (m0 * f - g) + 0
  <2>1. m0 * r = m0 * z + S * (m0 * f)
    BY <1>1, <1>15, <1>18
  <2>2. S * (m0 * f - g) = S * (m0 * f) - S * g
    BY <1>1
  <2>3. S * (m0 * f) \in Int /\ S * g \in Int
    BY <1>1
  <2> QED BY <1>17, <1>19, <2>1, <2>2, <2>3
<1>21. (m0 * r + 1) % S = 0
  <2> DEFINE q == m0 * f - g
  <2>1. q \in Int /\ 0 \in 0..(S - 1)
    BY <1>1
  <2> HIDE DEF q
  <2>2. (S * q + 0) % S = 0
    BY <1>1, <2>1, QuotientUnique
  <2> QED BY <1>20, <2>2 DEF q
<1>22. montg_init(m0, w) = r
  BY <1>8 DEF r, x
<1> QED BY <1>16, <1>21, <1>22 DEF S
----------------------------------------------------------------------------
(* One round of mpi_montmul. *)

AreLimbs(p, f, s, h) ==
  /\ p \in Seq(Limbs) /\ f \in Seq(Limbs)
  /\ s \in Seq(Limbs) /\ h \in Seq(Limbs)

\* What the window holds after both multiplications, when it is not too large.
LEMMA WindowGathers ==
  ASSUME NEW p, NEW f, NEW s, NEW o, AreLimbs(p, f, s, o),
         NEW at \in Nat, at + (Len(p) + 2) <= Len(s),
         NEW m \in Nat, m = Min({Len(f), Len(p)}), NEW u \in Limbs, NEW q \in Limbs,
         Magnitude(f) <= Magnitude(p), Part(s, at)[Len(p) + 2] < 2 * Magnitude(p)
  PROVE  LET l == Len(p)
             x == mul_hlp(m, f, s, at, u)
             y == mul_hlp(l, p, x, at, q)
         IN /\ y \in Seq(Limbs) /\ Len(y) = Len(s)
            /\ Part(y, at)[l + 2]
                 = Part(s, at)[l + 2] + u * Magnitude(f) + q * Magnitude(p)
<1>0. p \in Seq(Limbs) /\ f \in Seq(Limbs) /\ s \in Seq(Limbs)
  BY DEF AreLimbs
<1> USE <1>0
<1> DEFINE l == Len(p)
           x == mul_hlp(m, f, s, at, u)
           y == mul_hlp(l, p, x, at, q)
           a == l + 2
           M == Magnitude(p)
           F == Magnitude(f)
           P == Places[a]
           W == Part(s, at)[a]
<1>1. a \in Nat /\ l <= a /\ l \in Nat
  BY LimbsAreNatural
<1>2. M \in Nat /\ F \in Nat /\ M < Places[l] /\ F <= M
  BY MagnitudeIs, MagnitudeIsNatural
<1>3. m <= Len(f) /\ m <= l /\ (m = Len(f) \/ m = l) /\ Len(f) \in Nat
  <2>1. Len(f) \in Nat /\ Len(p) \in Nat
    BY LimbsAreNatural
  <2> DEFINE g == Len(f)  h == Len(p)
  <2>2. g \in Nat /\ h \in Nat /\ m = Min({g, h})
    BY <2>1
  <2> HIDE DEF g, h
  <2>3. m = IF g <= h THEN g ELSE h
    BY <2>2, MinOfTwo
  <2>4. m <= g /\ m <= h /\ (m = g \/ m = h) /\ g \in Nat
    BY <2>2, <2>3
  <2> QED BY <2>4 DEF g, h
<1>4. Worth(f)[m] = F
  <2>1. CASE m = Len(f)
    <3>1. m >= Len(f)
      BY <1>3, <2>1
    <3> QED BY <3>1, MagnitudeIs
  <2>2. CASE m = l
    <3>1. Magnitude(f) < Places[m]
      <4>1. l \in Nat
        BY <1>1
      <4> HIDE DEF l
      <4>2. Places[l] \in Nat
        BY <4>1, PlacesAre
      <4> QED BY <1>2, <2>2, <4>2
    <3> QED BY <3>1, WorthOfLow
  <2> QED BY <1>3, <2>1, <2>2
<1>5. u \in Nat /\ q \in Nat /\ u <= Base - 1 /\ q <= Base - 1 /\ Base \in Nat \ {0, 1}
  <2>1. u \in Nat /\ u < Base /\ q \in Nat /\ q < Base
    BY LimbsAreSmall
  <2> QED BY <2>1, BaseIsBig
<1>6. P \in Nat \ {0} /\ W \in Nat /\ W < 2 * M
  BY <1>1, PlacesAre, PartOf
<1>7. 2 * M * Base <= P
  <2> DEFINE b == l + 1
             e == Places[l]
  <2>1. Places[b] = Base * e /\ e \in Nat \ {0}
    <3>1. l \in Nat
      BY <1>1
    <3> HIDE DEF l
    <3> QED BY <3>1, PlacesAre
  <2>2. b \in Nat /\ a = b + 1
    BY <1>1
  <2> HIDE DEF a
  <2>3. P = Base * Places[b]
    <3> HIDE DEF b
    <3> QED BY <2>2, PlacesAre
  <2> HIDE DEF P, e, M
  <2>4. P = Base * (Base * e)
    BY <2>1, <2>3
  <2>5. 2 * M <= Base * e
    <3>1. \A g, h, j \in Nat : g <= h => g * j <= h * j
      OBVIOUS
    <3>2. 2 * M <= Base * M
      BY <1>2, <1>5, <3>1
    <3>3. M * Base <= e * Base
      <4>1. M <= e /\ M \in Nat /\ e \in Nat /\ Base \in Nat
        BY <1>2, <1>5, <2>1, SMTT(30) DEF e
      <4> QED BY <3>1, <4>1
    <3>4. Base * M = M * Base /\ Base * e = e * Base /\ M * Base \in Nat
          /\ e * Base \in Nat
      BY <1>2, <1>5, <2>1
    <3> QED BY <1>2, <3>2, <3>3, <3>4
  <2>6. 2 * M * Base <= (Base * e) * Base
    <3>1. \A g, h, j \in Nat : g <= h => g * j <= h * j
      OBVIOUS
    <3>2. 2 * M \in Nat /\ Base * e \in Nat /\ Base \in Nat
      BY <1>2, <1>5, <2>1
    <3> QED BY <2>5, <3>1, <3>2
  <2>7. (Base * e) * Base = Base * (Base * e)
    BY <1>5, <2>1
  <2> QED BY <2>4, <2>6, <2>7
<1>8. /\ W + u * F + q * M < P /\ u * F \in Nat /\ q * M \in Nat
      /\ W + u * F < P
  <2> HIDE DEF M, F, W, P
  <2>1. \A g, h, j, e \in Nat : g <= h /\ j <= e => g * j <= h * e
    BY ProductsGrow
  <2> DEFINE b == Base - 1
  <2>2. b \in Nat /\ u <= b /\ q <= b
    BY <1>5
  <2>3. u * F <= b * M /\ q * M <= b * M
    <3>1. M <= M
      BY <1>2
    <3> QED BY <1>2, <1>5, <2>1, <2>2, <3>1
  <2>4. u * F \in Nat /\ q * M \in Nat /\ b * M \in Nat
    BY <1>2, <1>5, <2>2
  <2>5. 2 * M * Base = 2 * M + 2 * (b * M) /\ 2 * M \in Nat
    BY <1>2, <1>5
  <2> DEFINE uF == u * F  qM == q * M  bM == b * M
  <2>6. uF \in Nat /\ qM \in Nat /\ bM \in Nat /\ uF <= bM /\ qM <= bM
        /\ 2 * M + 2 * bM <= P
    BY <1>7, <2>3, <2>4, <2>5
  <2> HIDE DEF uF, qM, bM, b
  <2>7. W + uF + qM < P /\ W + uF < P
    BY <1>2, <1>6, <2>6
  <2> QED BY <2>4, <2>7 DEF uF, qM
<1>9. /\ x \in Seq(Limbs) /\ Len(x) = Len(s) /\ Part(x, at)[a] = W + u * F
  <2>1. m <= a /\ at + m <= Len(s) /\ m <= Len(f) /\ at + a <= Len(s)
    BY <1>1, <1>3
  <2>2. W + Row(f, m, u) < Places[a]
    BY <1>4, <1>8 DEF Row
  <2> HIDE DEF a
  <2>3. /\ x \in Seq(Limbs) /\ Len(x) = Len(s)
        /\ Part(x, at)[a] = W + Row(f, m, u)
    BY <1>1, <2>1, <2>2, MulHlpFits, SMTT(30)
  <2> QED BY <1>4, <2>3 DEF Row
<1> HIDE DEF x, l
<1>10. /\ y \in Seq(Limbs) /\ Len(y) = Len(s) /\ Part(y, at)[a] = W + u * F + q * M
  <2>1. l <= a /\ at + l <= Len(x) /\ l <= Len(p) /\ at + a <= Len(x) /\ l \in Nat
    BY <1>1, <1>9 DEF l
  <2>2. Worth(p)[l] = M
    BY MagnitudeIs DEF l
  <2>3. Part(x, at)[a] + Row(p, l, q) < Places[a]
    BY <1>8, <1>9, <2>2 DEF Row
  <2>4. x \in Seq(Limbs) /\ a \in Nat
    BY <1>1, <1>9
  <2> HIDE DEF a, y
  <2>5. /\ mul_hlp(l, p, x, at, q) \in Seq(Limbs)
        /\ Len(mul_hlp(l, p, x, at, q)) = Len(x)
        /\ Part(mul_hlp(l, p, x, at, q), at)[a] = Part(x, at)[a] + Row(p, l, q)
    BY <2>1, <2>3, <2>4, MulHlpFits, SMTT(30)
  <2> QED BY <1>9, <2>2, <2>5 DEF y, Row
<1> QED BY <1>9, <1>10 DEF x, l

\* What clears the limb x when w inverts -N.
Clears(q, x, w) == q = (x * w) % Base
Inverts(w, x) == (w * x + 1) % Base = 0

\* The limb below the new window is cleared, so that nothing is lost.
LEMMA LowLimbCleared ==
  ASSUME NEW p, NEW f, NEW s, NEW y, AreLimbs(p, f, s, y), NEW at \in Nat, NEW l \in Nat, NEW u \in Limbs,
         NEW w \in Nat, NEW q \in Nat,
         Clears(q, Limb(s, at + 1) + u * Limb(f, 1), w), Inverts(w, Limb(p, 1)),
         Part(y, at)[l + 1]
           = Part(s, at)[l + 1] + u * Magnitude(f) + q * Magnitude(p)
  PROVE  /\ Part(y, at)[l + 1] = Base * Part(y, at + 1)[l]
<1>0. p \in Seq(Limbs) /\ f \in Seq(Limbs) /\ s \in Seq(Limbs) /\ y \in Seq(Limbs)
  BY DEF AreLimbs
<1> USE <1>0
<1> DEFINE s1 == Limb(s, at + 1)  f1 == Limb(f, 1)  p1 == Limb(p, 1)
           y1 == Limb(y, at + 1)
           z == s1 + u * f1
           K == Part(y, at + 1)[l]
           W == Part(s, at)[l + 1]
           M == Magnitude(p)  F == Magnitude(f)
<1>1. /\ s1 \in Nat /\ f1 \in Nat /\ p1 \in Nat /\ u \in Nat
      /\ y1 \in 0..(Base - 1) /\ Base \in Nat \ {0}
  <2>1. s1 \in Limbs /\ f1 \in Limbs /\ p1 \in Limbs /\ y1 \in 0..(Base - 1)
    BY LimbIsSmall
  <2> HIDE DEF s1, f1, p1, y1
  <2> QED BY <2>1, LimbsAreSmall, BaseIsBig
<1>2. z \in Nat
  <2> DEFINE e == u * f1
  <2>1. e \in Nat /\ s1 \in Nat
    <3> HIDE DEF s1, f1
    <3> QED BY <1>1
  <2> HIDE DEF s1, e
  <2>2. s1 + e \in Nat
    BY <2>1
  <2> QED BY <2>2 DEF e
<1>3. PICK g \in Int : w * p1 + 1 = Base * g
  <2> DEFINE x == w * p1 + 1
  <2>1. x \in Int /\ x % Base = 0
    <3> HIDE DEF p1
    <3>1. w * p1 \in Nat
      BY <1>1
    <3>2. x \in Int
      BY <3>1
    <3> QED BY <3>2 DEF p1, Inverts
  <2> HIDE DEF x
  <2>2. x \div Base \in Int /\ x = Base * (x \div Base) + (x % Base)
    BY <1>1, <2>1, QuotientRemainder
  <2>3. Base * (x \div Base) \in Int
    BY <1>1, <2>2, SMTT(30)
  <2>4. x = Base * (x \div Base)
    BY <2>1, <2>2, <2>3
  <2> QED BY <2>2, <2>4 DEF x
<1>4. PICK h \in Int : q = z * w - Base * h
  <2> DEFINE x == z * w
  <2>1. x \in Int /\ q = x % Base
    <3> HIDE DEF z
    <3>1. x \in Int
      BY <1>2
    <3> QED BY <3>1 DEF z, Clears
  <2> HIDE DEF x
  <2>2. x \div Base \in Int /\ x = Base * (x \div Base) + (x % Base)
    BY <1>1, <2>1, QuotientRemainder
  <2> DEFINE e == x \div Base
  <2>3. e \in Int /\ x = Base * e + q
    BY <2>1, <2>2
  <2> HIDE DEF e
  <2>4. q = x - Base * e
    <3> DEFINE b == Base * e
    <3>1. b \in Int /\ x = b + q
      BY <1>1, <2>3
    <3> HIDE DEF b
    <3>2. q = x - b
      BY <2>1, <3>1
    <3> QED BY <3>2 DEF b
  <2> QED BY <2>3, <2>4 DEF x
<1>5. \E j \in Nat : F = f1 + Base * j
  BY FirstOfMagnitude
<1>6. \E j \in Nat : M = p1 + Base * j
  BY FirstOfMagnitude
<1>7. \E j \in Nat : W = s1 + Base * j
  <2>1. W = s1 + Base * Part(s, at + 1)[l]
    BY PartFirst
  <2>2. Part(s, at + 1)[l] \in Nat
    <3> DEFINE e == at + 1
    <3>1. e \in Nat
      OBVIOUS
    <3> HIDE DEF e
    <3>2. Part(s, e)[l] \in Nat
      BY <3>1, PartOf
    <3> QED BY <3>2 DEF e
  <2> QED BY <2>1, <2>2
<1>8. K \in Nat /\ Part(y, at)[l + 1] = y1 + Base * K
  <2>1. Part(y, at)[l + 1] = y1 + Base * Part(y, at + 1)[l]
    BY PartFirst
  <2> DEFINE e == at + 1
  <2>2. e \in Nat
    OBVIOUS
  <2> HIDE DEF e
  <2>3. Part(y, e)[l] \in Nat
    BY <2>2, PartOf
  <2> QED BY <2>1, <2>3 DEF e
<1> DEFINE V == Part(y, at)[l + 1]
<1>9. V = W + u * F + q * M /\ V = y1 + Base * K
  BY <1>8
<1> HIDE DEF s1, f1, p1, y1, z, K, W, M, F, V
<1>10. PICK jF \in Nat, jM \in Nat, jW \in Nat :
         F = f1 + Base * jF /\ M = p1 + Base * jM /\ W = s1 + Base * jW
  BY <1>5, <1>6, <1>7
<1> DEFINE G == z * g - h * p1 + jW + u * jF + q * jM
<1>11. q * p1 = z * (w * p1) - Base * (h * p1)
  <2> DEFINE a1 == z * w  a2 == Base * h
  <2>1. a1 \in Int /\ a2 \in Int /\ q = a1 - a2
    BY <1>1, <1>2, <1>4
  <2>2. a1 * p1 = z * (w * p1) /\ a2 * p1 = Base * (h * p1)
    BY <1>1, <1>2
  <2> HIDE DEF a1, a2
  <2>3. (a1 - a2) * p1 = a1 * p1 - a2 * p1
    BY <1>1, <2>1
  <2> QED BY <2>1, <2>2, <2>3
<1>12. z * (w * p1) = Base * (z * g) - z
  <2>1. w * p1 = Base * g - 1
    <3>1. w * p1 \in Int /\ Base * g \in Int
      BY <1>1
    <3> QED BY <1>3, <3>1
  <2>2. z * (Base * g - 1) = Base * (z * g) - z
    BY <1>1, <1>2
  <2> QED BY <2>1, <2>2
<1>13. u * F = u * f1 + Base * (u * jF)
  BY <1>1, <1>10
<1>14. q * M = q * p1 + Base * (q * jM)
  BY <1>1, <1>10
<1>15. z = s1 + u * f1
  BY DEF z
<1>16. V = Base * G
  <2> DEFINE a1 == z * g  a2 == h * p1  a3 == u * jF  a4 == q * jM  a5 == u * f1
             a6 == q * p1
  <2>1. a1 \in Int /\ a2 \in Int /\ a3 \in Int /\ a4 \in Int /\ a5 \in Int /\ a6 \in Int
        /\ z \in Int
    BY <1>1, <1>2
  <2>2. a6 = (Base * a1 - z) - Base * a2
    BY <1>11, <1>12
  <2>3. V = (s1 + Base * jW) + (a5 + Base * a3) + (a6 + Base * a4)
    BY <1>9, <1>10, <1>13, <1>14
  <2>4. z = s1 + a5
    BY <1>15
  <2> HIDE DEF a1, a2, a3, a4, a5, a6
  <2>5. V = Base * jW + Base * a3 + Base * a4 + Base * a1 - Base * a2
    <3> DEFINE b1 == Base * jW  b2 == Base * a3  b3 == Base * a4  b4 == Base * a1
               b5 == Base * a2
    <3>1. b1 \in Int /\ b2 \in Int /\ b3 \in Int /\ b4 \in Int /\ b5 \in Int
      BY <1>1, <2>1
    <3>2. V = (s1 + b1) + (a5 + b2) + (a6 + b3) /\ a6 = (b4 - z) - b5
      BY <2>2, <2>3
    <3> HIDE DEF b1, b2, b3, b4, b5
    <3>3. V = b1 + b2 + b3 + b4 - b5
      BY <1>1, <2>1, <2>4, <3>1, <3>2
    <3> QED BY <3>3 DEF b1, b2, b3, b4, b5
  <2>6. Base * (a1 - a2 + jW + a3 + a4)
          = Base * jW + Base * a3 + Base * a4 + Base * a1 - Base * a2
    BY <1>1, <2>1
  <2> QED BY <2>5, <2>6 DEF a1, a2, a3, a4
<1>17. G \in Int
  <2> DEFINE a1 == z * g  a2 == h * p1  a3 == u * jF  a4 == q * jM
  <2>1. a1 \in Int /\ a2 \in Int /\ a3 \in Int /\ a4 \in Int
    BY <1>1, <1>2
  <2> HIDE DEF a1, a2, a3, a4
  <2>2. a1 - a2 + jW + a3 + a4 \in Int
    BY <2>1
  <2> QED BY <2>2 DEF a1, a2, a3, a4
<1> HIDE DEF G
<1>18. y1 = 0
  <2>5. K \in Int /\ y1 \in 0..(Base - 1) /\ Base \in Nat \ {0}
    BY <1>1, <1>8
  <2>1. (Base * K + y1) % Base = y1
    BY <2>5, QuotientUnique
  <2>2. (Base * G + 0) % Base = 0
    <3>1. 0 \in 0..(Base - 1)
      BY <1>1
    <3> QED BY <1>1, <1>17, <3>1, QuotientUnique
  <2>3. Base * G \in Int /\ Base * K \in Int
    BY <1>1, <1>8, <1>17
  <2>4. Base * K + y1 = Base * G + 0
    BY <1>1, <1>9, <1>16, <2>3
  <2> QED BY <2>1, <2>2, <2>4
<1>19. V = Base * K
  <2>1. Base * K \in Int
    BY <1>1, <1>8
  <2> QED BY <1>9, <1>18, <2>1
<1> QED BY <1>19 DEF V, K

\* W P is low F modulo M, and W below 2 M.
Reduces(W, P, low, F, M) == Congruent(W * P, low * F, M) /\ W < 2 * M

LEMMA WindowStaysReduced ==
  ASSUME NEW P \in Nat \ {0}, NEW W \in Nat, NEW W2 \in Nat, NEW u \in Limbs,
         NEW q \in Limbs, NEW F \in Nat, NEW M \in Nat \ {0}, NEW low \in Nat, F <= M,
         Reduces(W, P, low, F, M), Base * W2 = W + u * F + q * M
  PROVE  Reduces(W2, Base * P, low + u * P, F, M)
<1> DEFINE b == Base - 1
           uF == u * F  qM == q * M  bM == b * M  BW == Base * W2
<1>1. /\ u \in Nat /\ q \in Nat /\ b \in Nat /\ u <= b /\ q <= b
      /\ Base \in Nat \ {0} /\ Base = b + 1
  <2>1. u \in Nat /\ q \in Nat /\ u < Base /\ q < Base
    BY LimbsAreSmall
  <2> QED BY <2>1, BaseIsBig
<1>2. /\ uF \in Nat /\ qM \in Nat /\ bM \in Nat /\ BW \in Nat
      /\ uF <= bM /\ qM <= bM
  <2>1. M <= M
    OBVIOUS
  <2>2. M \in Nat
    OBVIOUS
  <2> HIDE DEF b
  <2>3. u * F <= b * M /\ u * F \in Nat /\ b * M \in Nat
    BY <1>1, <2>2, ProductsGrow
  <2>4. q * M <= b * M /\ q * M \in Nat
    BY <1>1, <2>1, <2>2, ProductsGrow
  <2>5. BW \in Nat
    BY <1>1
  <2> QED BY <2>3, <2>4, <2>5
<1>3. BW = W + uF + qM
  OBVIOUS
<1>4. W2 < 2 * M
  <2>1. W < 2 * M
    BY DEF Reduces
  <2>2. SUFFICES ASSUME W2 >= 2 * M PROVE FALSE
    OBVIOUS
  <2> DEFINE h == 2 * M  c == Base * h
  <2>3. h \in Nat /\ h <= W2 /\ Base <= Base
    BY <1>1, <2>2
  <2> HIDE DEF h
  <2>4. c <= BW
    BY <1>1, <2>3, ProductsGrow
  <2>5. c = h + 2 * bM
    <3> HIDE DEF b
    <3>1. Base * h = b * h + h /\ b * h = 2 * (b * M)
      BY <1>1, <2>3 DEF h
    <3>2. b * h \in Nat
      BY <1>1, <2>3
    <3> QED BY <2>3, <3>1, <3>2
  <2> HIDE DEF uF, qM, bM, BW, c
  <2> QED BY <1>2, <1>3, <2>1, <2>3, <2>4, <2>5 DEF h
<1>5. PICK z \in Int : W * P = low * F + M * z
  BY DEF Reduces, Congruent
<1> DEFINE g == z + q * P
<1>6. g \in Int
  BY <1>1
<1>7. W2 * (Base * P) = BW * P
  BY <1>1
<1>8. BW * P = W * P + (u * P) * F + M * (q * P)
  <2>1. (W + uF + qM) * P = W * P + uF * P + qM * P
    <3> HIDE DEF uF, qM, BW
    <3> QED BY <1>2
  <2>2. uF * P = (u * P) * F /\ qM * P = M * (q * P)
    BY <1>1
  <2> QED BY <1>3, <2>1, <2>2
<1>9. W2 * (Base * P) = (low + u * P) * F + M * g
  <2> DEFINE a1 == u * P  a2 == q * P  a3 == low * F  a4 == a1 * F  a5 == M * z
             a6 == M * a2
  <2>1. a1 \in Int /\ a2 \in Int /\ a3 \in Int
    BY <1>1
  <2>2. a4 \in Int /\ a5 \in Int /\ a6 \in Int
    <3> HIDE DEF a1, a2
    <3> QED BY <2>1
  <2>3. W2 * (Base * P) = (a3 + a5) + a4 + a6
    BY <1>5, <1>7, <1>8
  <2>4. (low + a1) * F = a3 + a4
    <3> HIDE DEF a1
    <3> QED BY <2>1
  <2>5. M * (z + a2) = a5 + a6
    <3> HIDE DEF a2
    <3> QED BY <2>1
  <2> HIDE DEF a3, a4, a5, a6
  <2>6. (a3 + a5) + a4 + a6 = (a3 + a4) + (a5 + a6)
    BY <2>1, <2>2
  <2> QED BY <2>3, <2>4, <2>5, <2>6
<1> HIDE DEF g
<1>10. Congruent(W2 * (Base * P), (low + u * P) * F, M)
  BY <1>6, <1>9 DEF Congruent
<1> QED BY <1>4, <1>10 DEF Reduces

\* The scratch limbs for operands as long as p.
Room(s, p) == Len(s) = 2 * (Len(p) + 1)

\* One round: the window moves up by a limb and stays reduced.
RoundOf(p, f, s, at, m, u, q) ==
  [mul_hlp(Len(p), p, mul_hlp(m, f, s, at, u), at, q)
     EXCEPT ![at + 1] = u, ![at + Len(p) + 3] = 0]

RoundMay(p, f, s, h, at, m, q, w) ==
  /\ AreLimbs(p, f, s, h) /\ Room(s, p)
  /\ at \in Nat /\ at < Len(p)
  /\ m \in Nat /\ m = Min({Len(f), Len(p)})
  /\ w \in Nat /\ Inverts(w, Limb(p, 1))
  /\ q \in Limbs /\ Clears(q, Limb(s, at + 1) + Limb(h, at + 1) * Limb(f, 1), w)
  /\ Magnitude(f) <= Magnitude(p) /\ Magnitude(p) # 0
  /\ Reduces(Part(s, at)[Len(p) + 2], Places[at], Worth(h)[at], Magnitude(f),
             Magnitude(p))

LEMMA RoundStaysReduced ==
  ASSUME NEW p, NEW f, NEW s, NEW h, NEW at, NEW m, NEW q, NEW w,
         RoundMay(p, f, s, h, at, m, q, w)
  PROVE  LET r == RoundOf(p, f, s, at, m, Limb(h, at + 1), q)
         IN /\ r \in Seq(Limbs) /\ Len(r) = Len(s)
            /\ Reduces(Part(r, at + 1)[Len(p) + 2], Places[at + 1], Worth(h)[at + 1],
                       Magnitude(f), Magnitude(p))
<1>0. /\ AreLimbs(p, f, s, h) /\ Room(s, p)
      /\ at \in Nat /\ at < Len(p)
      /\ m \in Nat /\ m = Min({Len(f), Len(p)})
      /\ w \in Nat /\ Inverts(w, Limb(p, 1))
      /\ q \in Limbs /\ Clears(q, Limb(s, at + 1) + Limb(h, at + 1) * Limb(f, 1), w)
      /\ Magnitude(f) <= Magnitude(p) /\ Magnitude(p) # 0
      /\ Reduces(Part(s, at)[Len(p) + 2], Places[at], Worth(h)[at], Magnitude(f),
                 Magnitude(p))
  BY DEF RoundMay
<1> USE <1>0
<1> DEFINE l == Len(p)
           u == Limb(h, at + 1)
           y == mul_hlp(l, p, mul_hlp(m, f, s, at, u), at, q)
           r == [y EXCEPT ![at + 1] = u, ![at + l + 3] = 0]
           M == Magnitude(p)
           F == Magnitude(f)
           W == Part(s, at)[l + 2]
           c == l + 1
           j == at + 1
<1>P. p \in Seq(Limbs)
  BY DEF AreLimbs
<1>F. f \in Seq(Limbs)
  BY DEF AreLimbs
<1>S. s \in Seq(Limbs)
  BY DEF AreLimbs
<1>H. h \in Seq(Limbs)
  BY DEF AreLimbs
<1>1. /\ l \in Nat /\ c \in Nat /\ j \in Nat /\ c + 1 = l + 2 /\ j >= 1 /\ j <= l
      /\ at + (l + 2) <= Len(s) /\ at + l + 3 <= Len(s) /\ Len(s) \in Nat
      /\ j + (c + 1) = at + l + 3
  <2>1. l \in Nat
    BY <1>P, LimbsAreNatural
  <2> HIDE DEF l
  <2>2. at < l /\ Len(s) = 2 * (l + 1)
    BY DEF l, Room
  <2> QED BY <2>1, <2>2
<1>2. M \in Nat \ {0} /\ F \in Nat /\ F <= M
  BY <1>P, <1>F, MagnitudeIsNatural
<1>3. W < 2 * M /\ W \in Nat
  <2>1. W < 2 * M
    BY DEF Reduces
  <2> DEFINE e == l + 2
  <2>2. e \in Nat
    BY <1>1
  <2> HIDE DEF e
  <2>3. Part(s, at)[e] \in Nat
    BY <1>S, <2>2, PartOf
  <2> QED BY <2>1, <2>3 DEF e
<1>5. q \in Nat /\ u \in Nat /\ u \in Limbs
  <2>1. u \in Limbs
    BY <1>H, LimbIsSmall
  <2> HIDE DEF u
  <2> QED BY <2>1, LimbsAreSmall
<1> HIDE DEF u
<1>4. /\ y \in Seq(Limbs) /\ Len(y) = Len(s)
      /\ Part(y, at)[l + 2] = W + u * F + q * M
  <2>1. at + (Len(p) + 2) <= Len(s)
    BY <1>1
  <2>2. Part(s, at)[Len(p) + 2] < 2 * Magnitude(p)
    BY <1>3
  <2>3. u \in Limbs
    BY <1>5
  <2> HIDE DEF l, y, M, F, W
  <2>4. LET x == mul_hlp(m, f, s, at, u)
            y1 == mul_hlp(Len(p), p, x, at, q)
         IN /\ y1 \in Seq(Limbs) /\ Len(y1) = Len(s)
            /\ Part(y1, at)[Len(p) + 2]
                 = Part(s, at)[Len(p) + 2] + u * Magnitude(f) + q * Magnitude(p)
    BY <2>1, <2>2, <2>3, WindowGathers
  <2> QED BY <2>4 DEF l, y, M, F, W
<1> HIDE DEF y
<1>6. Part(y, at)[c + 1] = Base * Part(y, at + 1)[c]
  <2> DEFINE z == Limb(s, at + 1) + u * Limb(f, 1)
  <2>1. Clears(q, z, w)
    BY DEF u
  <2>2. Part(y, at)[c + 1] = Part(s, at)[c + 1] + u * Magnitude(f) + q * Magnitude(p)
    BY <1>1, <1>4
  <2>3. y \in Seq(Limbs) /\ c \in Nat
    BY <1>1, <1>4
  <2>4. q \in Nat /\ u \in Limbs
    BY <1>5
  <2> HIDE DEF c, l, W, M, F
  <2>5. AreLimbs(p, f, s, y)
    BY <1>4 DEF AreLimbs
  <2> QED BY <2>1, <2>2, <2>3, <2>4, <2>5, LowLimbCleared, SMTT(30) DEF z
<1>7. /\ r \in Seq(Limbs) /\ Len(r) = Len(s)
      /\ \A i1 \in Nat : Limb(r, i1) = IF i1 = j + (c + 1) THEN 0
                                       ELSE IF i1 = j THEN u ELSE Limb(y, i1)
  <2>1. 0 \in Limbs
    BY LimbsAreSmall, BaseIsBig
  <2> DEFINE r1 == [y EXCEPT ![j] = u]
             e == at + l + 3
  <2>2. r = [r1 EXCEPT ![e] = 0]
    OBVIOUS
  <2>3. j \in 1..Len(y) /\ e \in 1..Len(y)
    BY <1>1, <1>4
  <2> HIDE DEF j, e, r
  <2>4. /\ r1 \in Seq(Limbs) /\ Len(r1) = Len(y)
        /\ \A i1 \in Nat : Limb(r1, i1) = IF i1 = j THEN u ELSE Limb(y, i1)
    BY <1>4, <1>5, <2>3, LimbReplaced, SMTT(30)
  <2> HIDE DEF r1
  <2>5. e \in 1..Len(r1)
    BY <2>3, <2>4
  <2>6. /\ r \in Seq(Limbs) /\ Len(r) = Len(r1)
        /\ \A i1 \in Nat : Limb(r, i1) = IF i1 = e THEN 0 ELSE Limb(r1, i1)
    <3>1. r1 \in Seq(Limbs)
      BY <2>4
    <3> DEFINE r2 == [r1 EXCEPT ![e] = 0]
    <3>2. /\ r2 \in Seq(Limbs) /\ Len(r2) = Len(r1)
          /\ \A i1 \in Nat : Limb(r2, i1) = IF i1 = e THEN 0 ELSE Limb(r1, i1)
      BY <2>1, <2>5, <3>1, LimbReplaced
    <3>3. r = r2
      BY <2>2
    <3> HIDE DEF r2
    <3> QED BY <3>2, <3>3
  <2>7. e = j + (c + 1)
    BY <1>1 DEF e
  <2> QED BY <1>4, <2>4, <2>6, <2>7
<1> HIDE DEF r
<1>8. Limb(r, j + (c + 1)) = 0
  <2>1. j + (c + 1) \in Nat
    BY <1>1
  <2> HIDE DEF c, j
  <2> QED BY <1>7, <2>1
<1>9. \A i1 \in 1..c : Limb(r, j + i1) = Limb(y, j + i1)
  <2> SUFFICES ASSUME NEW i1 \in 1..c PROVE Limb(r, j + i1) = Limb(y, j + i1)
    OBVIOUS
  <2> HIDE DEF c, j
  <2> DEFINE e == j + i1
  <2>1. e \in Nat /\ e # j /\ e # j + (c + 1)
    BY <1>1
  <2> HIDE DEF e
  <2>2. Limb(r, e) = Limb(y, e)
    BY <1>7, <2>1
  <2> QED BY <2>2 DEF e
<1>10. Part(r, j)[c + 1] = Part(r, j)[c]
  <2> HIDE DEF c, j
  <2> QED BY <1>1, <1>7, <1>8, PartStays
<1>11. Part(r, j)[c] = Part(y, j)[c]
  <2> HIDE DEF c, j
  <2> QED BY <1>1, <1>4, <1>7, <1>9, SameParts, SMTT(30)
<1> DEFINE W2 == Part(y, j)[c]
<1>12. W2 \in Nat /\ Part(r, j)[l + 2] = W2
  <2>1. W2 \in Nat
    <3> HIDE DEF c, j
    <3> QED BY <1>1, <1>4, PartOf
  <2> QED BY <1>1, <1>10, <1>11, <2>1
<1>13. Base * W2 = W + u * F + q * M
  BY <1>1, <1>4, <1>6
<1>14. /\ Places[j] = Base * Places[at] /\ Places[at] \in Nat \ {0}
       /\ Worth(h)[j] = Worth(h)[at] + u * Places[at] /\ Worth(h)[at] \in Nat
  BY <1>H, PlacesAre, WorthAt DEF u
<1>15. Reduces(W, Places[at], Worth(h)[at], F, M)
  OBVIOUS
<1> HIDE DEF W, F, M, W2
<1>16. Reduces(W2, Base * Places[at], Worth(h)[at] + u * Places[at], F, M)
  <2> DEFINE P == Places[at]  w1 == Worth(h)[at]
  <2>1. P \in Nat \ {0} /\ w1 \in Nat /\ W \in Nat /\ W2 \in Nat
    BY <1>3, <1>12, <1>14
  <2>2. Reduces(W, P, w1, F, M)
    BY <1>15
  <2> HIDE DEF P, w1
  <2>3. Reduces(W2, Base * P, w1 + u * P, F, M)
    BY <1>2, <1>5, <1>13, <2>1, <2>2, WindowStaysReduced
  <2> QED BY <2>3 DEF P, w1
<1>17. Reduces(Part(r, j)[l + 2], Places[j], Worth(h)[j], F, M)
  BY <1>12, <1>14, <1>16
<1> QED BY <1>7, <1>17 DEF r, y, F, M, u, RoundOf
----------------------------------------------------------------------------
(***************************************************************************)
(* The multiplication.  What every state satisfies: the modulus and B are  *)
(* as given, A0 is what A was worth on entry, mm inverts -N while there    *)
(* are rounds, and what was copied needs at most one subtraction.          *)
(***************************************************************************)
MontgomeryTypeOK ==
  /\ N \in Moduli /\ B \in Factors(N)
  /\ A \in Mpis /\ Len(A.p) > Nn /\ A0 \in Nat
  /\ pc \in {"init", "round", "copied", "multiplied"}
  /\ T \in Seq(Limbs) /\ d \in 0..Nn /\ mm \in Nat

OperandKept ==
  pc \in {"init", "round"} => Magnitude(A.p) = A0 /\ A0 <= Magnitude(N.p)

RoundIsReady == pc = "round" => Room(T, N.p) /\ Inverts(mm, N.p[1])

CopyIsClose ==
  pc = "copied" => Reduces(Magnitude(A.p), Places[Nn], A0, Magnitude(B.p), Magnitude(N.p))

MontgomeryInv ==
  /\ MontgomeryTypeOK /\ OperandKept /\ RoundIsReady /\ CopyIsClose
  /\ WindowReduces /\ ProductIsReduced

LEMMA OperandsAre ==
  ASSUME NEW x \in Moduli, NEW y \in Factors(x)
  PROVE  /\ x \in Mpis /\ x.p \in Seq(Limbs) /\ Len(x.p) \in Nat \ {0}
         /\ x.p[1] \in Limbs /\ x.p[1] % 2 = 1 /\ x.p[1] = Limb(x.p, 1)
         /\ Magnitude(x.p) \in Nat \ {0} /\ Magnitude(x.p) < Places[Len(x.p)]
         /\ y \in Mpis /\ y.p \in Seq(Limbs) /\ Len(y.p) \in Nat \ {0}
         /\ y.p[1] = Limb(y.p, 1)
         /\ Magnitude(y.p) \in Nat /\ Magnitude(y.p) <= Magnitude(x.p)
<1>1. /\ x \in Mpis /\ x.p # <<>> /\ x.p[1] % 2 = 1
      /\ y \in Mpis /\ y.p # <<>> /\ Magnitude(y.p) <= Magnitude(x.p)
  BY ModuliAssumption
<1>2. x.p \in Seq(Limbs) /\ y.p \in Seq(Limbs)
  BY <1>1 DEF Mpis
<1>3. \A f \in Seq(Limbs) : f # <<>> => Len(f) \in Nat \ {0} /\ 1 \in DOMAIN f
                                        /\ f[1] \in Limbs
  OBVIOUS
<1>4. /\ Len(x.p) \in Nat \ {0} /\ x.p[1] \in Limbs /\ x.p[1] = Limb(x.p, 1)
      /\ Len(y.p) \in Nat \ {0} /\ y.p[1] = Limb(y.p, 1)
  <2>1. 1 \in DOMAIN x.p /\ Len(x.p) \in Nat \ {0} /\ x.p[1] \in Limbs
    BY <1>1, <1>2, <1>3
  <2>2. 1 \in DOMAIN y.p /\ Len(y.p) \in Nat \ {0}
    BY <1>1, <1>2, <1>3
  <2> QED BY <2>1, <2>2 DEF Limb
<1>5. Magnitude(x.p) \in Nat /\ Magnitude(y.p) \in Nat
  BY <1>2, MagnitudeIsNatural
<1>6. Magnitude(x.p) < Places[Len(x.p)]
  <2> DEFINE f == x.p  l == Len(f)
  <2>1. f \in Seq(Limbs) /\ l \in Nat /\ l >= Len(f)
    BY <1>2, <1>4
  <2> HIDE DEF l
  <2>2. Magnitude(f) < Places[l]
    <3> HIDE DEF f
    <3> QED BY <2>1, MagnitudeIs
  <2> QED BY <2>2 DEF l
<1>7. Magnitude(x.p) # 0
  <2> DEFINE M == Magnitude(x.p)  x1 == Limb(x.p, 1)
  <2>1. PICK e \in Nat : M = x1 + Base * e
    BY <1>2, FirstOfMagnitude
  <2>2. x1 \in Nat /\ x1 % 2 = 1 /\ Base \in Nat /\ M \in Nat
    BY <1>1, <1>4, <1>5, LimbsAreSmall, BaseIsBig
  <2> HIDE DEF M, x1
  <2>3. x1 # 0
    BY <2>2
  <2>4. Base * e \in Nat
    BY <2>2
  <2>5. M # 0
    BY <2>1, <2>2, <2>3, <2>4
  <2> QED BY <2>5 DEF M
<1> QED BY <1>1, <1>2, <1>4, <1>5, <1>6, <1>7

LEMMA BaseIsEven == \E e \in Nat \ {0} : Base = 2 * e
<1> DEFINE h == biL - 1  e == TwoTo[h]
<1>1. h \in Nat /\ h + 1 = biL
  BY BaseIsPositive
<1> HIDE DEF h
<1>2. TwoTo[h + 1] = 2 * e /\ e \in Nat \ {0}
  BY <1>1, TwoToAt
<1>3. Base = 2 * e
  BY <1>1, <1>2, BaseIsPositive
<1> HIDE DEF e
<1> QED BY <1>2, <1>3

LEMMA WidthsAreInvertible ==
  ASSUME NEW w \in Widths \cup {biL}
  PROVE  Invertible(w)
<1>1. w \in Nat /\ (w <= 4 \/ \E h \in 0..w : w = 4 * TwoTo[h])
  BY WidthsAssumption
<1>2. w <= 4 \/ \E h \in Nat : w = 4 * TwoTo[h]
  <2>1. ASSUME NEW h \in 0..w, w = 4 * TwoTo[h] PROVE \E h1 \in Nat : w = 4 * TwoTo[h1]
    BY <1>1, <2>1
  <2> QED BY <1>1, <2>1
<1> QED BY <1>1, <1>2 DEF Invertible

\* What mpi_montmul starts from.
LEMMA InversesAreRight ==
  ASSUME NEW x \in Moduli, NEW y \in Factors(x), NEW w \in Widths \cup {biL},
         NEW q \in Nat
  PROVE  LET m0 == q * Base + x.p[1]
         IN /\ m0 \in Nat /\ montg_init(m0, w) \in 0..(TwoTo[w] - 1)
            /\ (m0 * montg_init(m0, w) + 1) % TwoTo[w] = 0
<1> DEFINE m0 == q * Base + x.p[1]  x1 == x.p[1]
<1>1. x1 \in Nat /\ x1 % 2 = 1
  BY OperandsAre, LimbsAreSmall
<1> HIDE DEF x1
<1>2. PICK e \in Nat \ {0} : Base = 2 * e
  BY BaseIsEven
<1>3. m0 = 2 * (q * e) + x1
  <2>1. q * Base = 2 * (q * e)
    BY <1>2
  <2> QED BY <2>1 DEF x1
<1>4. m0 \in Nat /\ m0 % 2 = 1
  <2> DEFINE h == q * e
  <2>1. h \in Nat
    BY <1>2
  <2> HIDE DEF h, m0
  <2>2. m0 = 2 * h + x1
    BY <1>3 DEF h
  <2> QED BY <1>1, <2>1, <2>2
<1> HIDE DEF m0
<1>5. Invertible(w)
  BY WidthsAreInvertible
<1>6. /\ montg_init(m0, w) \in 0..(TwoTo[w] - 1)
      /\ (m0 * montg_init(m0, w) + 1) % TwoTo[w] = 0
  BY <1>4, <1>5, MontgInit
<1> QED BY <1>4, <1>6 DEF m0

LEMMA DivisibleDifference ==
  ASSUME NEW M \in Nat \ {0}, NEW x \in Int, NEW y \in Int
  PROVE  (x - y) % M = 0 <=> Congruent(x, y, M)
<1>1. Congruent(x, y, M) => (x - y) % M = 0
  BY Congruences
<1>2. ASSUME (x - y) % M = 0 PROVE Congruent(x, y, M)
  <2> DEFINE z == x - y  e == z \div M
  <2>1. z \in Int /\ z % M = 0
    BY <1>2
  <2> HIDE DEF z
  <2>2. e \in Int /\ z = M * e + (z % M)
    BY <2>1, QuotientRemainder
  <2> HIDE DEF e
  <2>3. M * e \in Int
    BY <2>2
  <2>4. x = y + M * e
    <3> DEFINE b == M * e
    <3>1. b \in Int /\ z = b
      BY <2>1, <2>2, <2>3
    <3> HIDE DEF b
    <3>2. x = y + b
      BY <3>1 DEF z
    <3> QED BY <3>2 DEF b
  <2> QED BY <2>2, <2>4 DEF Congruent
<1> QED BY <1>1, <1>2

\* The window and the limbs of A so far, as sums of limbs.
LEMMA WindowIsPart ==
  ASSUME NEW x \in Seq(Limbs), NEW h \in Seq(Limbs), NEW l \in Nat, NEW at \in 0..l,
         NEW L \in Nat, L = 2 * (l + 1), Len(x) = L, NEW F \in Nat, NEW M \in Nat \ {0}
  PROVE  LET W == Magnitude(SubSeq(x, at + 1, at + l + 2))
             low == Magnitude(h) % Places[at]
         IN ((W * Places[at] - low * F) % M = 0 /\ W < 2 * M)
              <=> Reduces(Part(x, at)[l + 2], Places[at], Worth(h)[at], F, M)
<1> DEFINE W == Magnitude(SubSeq(x, at + 1, at + l + 2))
           low == Magnitude(h) % Places[at]
           c == l + 2
           P == Places[at]
<1>1. at \in Nat /\ c \in Nat /\ at + c <= L /\ at + c = at + l + 2
  OBVIOUS
<1>2. W = Part(x, at)[c] /\ W \in Nat
  <2> HIDE DEF c
  <2>1. at + c <= Len(x)
    BY <1>1
  <2>2. Magnitude(SubSeq(x, at + 1, at + c)) = Part(x, at)[c]
    BY <1>1, <2>1, MagnitudeOfPiece
  <2>3. Part(x, at)[c] \in Nat
    BY <1>1, PartOf
  <2> QED BY <1>1, <2>2, <2>3
<1>3. low = Worth(h)[at] /\ low \in Nat /\ P \in Nat
  <2>1. at \in Nat
    OBVIOUS
  <2>2. Worth(h)[at] = low
    BY <2>1, LowLimbs
  <2>3. Worth(h)[at] \in Nat /\ P \in Nat
    BY <2>1, WorthAt, PlacesAre
  <2> QED BY <2>2, <2>3
<1> HIDE DEF W, low, P
<1>4. W * P \in Int /\ low * F \in Int
  BY <1>2, <1>3
<1> DEFINE X == W * P  Y == low * F
<1>5. X \in Int /\ Y \in Int
  BY <1>4
<1> HIDE DEF X, Y
<1>6. (X - Y) % M = 0 <=> Congruent(X, Y, M)
  BY <1>5, DivisibleDifference
<1>7. ((W * P - low * F) % M = 0 /\ W < 2 * M) <=> Reduces(W, P, low, F, M)
  BY <1>6 DEF Reduces, X, Y
<1> QED BY <1>2, <1>3, <1>7 DEF W, low, P

RoundReducesParts ==
  Reduces(Part(T, d)[Nn + 2], Places[d], Worth(A.p)[d], Magnitude(B.p), Magnitude(N.p))

LEMMA WindowReducesIs ==
  ASSUME MontgomeryTypeOK, OperandKept, RoundIsReady, pc = "round"
  PROVE  WindowReduces <=> RoundReducesParts
<1>1. /\ T \in Seq(Limbs) /\ Nn \in Nat /\ d \in 0..Nn /\ A.p \in Seq(Limbs)
      /\ Magnitude(B.p) \in Nat /\ Magnitude(N.p) \in Nat \ {0}
  BY OperandsAre DEF MontgomeryTypeOK, Nn, Mpis
<1>2. Len(T) = 2 * (Nn + 1) /\ Magnitude(A.p) = A0
  BY DEF RoundIsReady, OperandKept, Room, Nn
<1> DEFINE h == A.p  l == Nn  L == 2 * (l + 1)  F == Magnitude(B.p)  M == Magnitude(N.p)
<1>3. /\ T \in Seq(Limbs) /\ h \in Seq(Limbs) /\ l \in Nat /\ d \in 0..l
      /\ L \in Nat /\ L = 2 * (l + 1) /\ Len(T) = L /\ F \in Nat /\ M \in Nat \ {0}
  BY <1>1, <1>2
<1> HIDE DEF h, l, L, F, M
<1>4. LET W == Magnitude(SubSeq(T, d + 1, d + l + 2))
          low == Magnitude(h) % Places[d]
      IN ((W * Places[d] - low * F) % M = 0 /\ W < 2 * M)
           <=> Reduces(Part(T, d)[l + 2], Places[d], Worth(h)[d], F, M)
  BY <1>3, WindowIsPart
<1> QED BY <1>2, <1>4 DEF WindowReduces, Window, RoundReducesParts, h, l, F, M

LEMMA MontgomeryStarts == MontgomeryInit => MontgomeryInv
<1> SUFFICES ASSUME MontgomeryInit PROVE MontgomeryInv
  OBVIOUS
<1>1. N \in Moduli /\ B \in Factors(N) /\ pc = "init" /\ mm = 0 /\ T = <<>> /\ d = 0
      /\ A0 = Magnitude(A.p)
  BY DEF MontgomeryInit
<1>2. PICK l \in {1, 2}, f \in Factors(N) : A = grow(f, Nn + l)
  BY DEF MontgomeryInit, Nn
<1>3. Nn \in Nat \ {0} /\ f \in Mpis /\ Magnitude(f.p) <= Magnitude(N.p)
  BY <1>1, OperandsAre DEF Nn
<1> DEFINE m == Nn + l
<1>4. m \in Nat /\ m > Nn
  BY <1>3
<1>5. A \in Mpis /\ Len(A.p) > Nn /\ Magnitude(A.p) = Magnitude(f.p)
  <2>1. A = grow(f, m)
    BY <1>2
  <2> HIDE DEF m
  <2>2. /\ grow(f, m) \in Mpis
        /\ Len(grow(f, m).p) = IF Len(f.p) >= m THEN Len(f.p) ELSE m
        /\ Magnitude(grow(f, m).p) = Magnitude(f.p)
    BY <1>3, <1>4, GrowIs
  <2>3. Len(f.p) \in Nat
    BY <1>1, OperandsAre
  <2>4. Len(A.p) > Nn
    BY <1>3, <1>4, <2>1, <2>2, <2>3
  <2> QED BY <2>1, <2>2, <2>4
<1>6. A0 \in Nat
  <2>1. A.p \in Seq(Limbs)
    BY <1>5 DEF Mpis
  <2> QED BY <1>1, <2>1, MagnitudeIsNatural
<1>7. <<>> \in Seq(Limbs) /\ 0 \in 0..Nn
  BY <1>3
<1>8. MontgomeryTypeOK
  BY <1>1, <1>5, <1>6, <1>7 DEF MontgomeryTypeOK
<1>9. OperandKept
  BY <1>1, <1>3, <1>5 DEF OperandKept
<1>10. RoundIsReady /\ CopyIsClose /\ WindowReduces /\ ProductIsReduced
  BY <1>1 DEF RoundIsReady, CopyIsClose, WindowReduces, ProductIsReduced
<1> QED BY <1>8, <1>9, <1>10 DEF MontgomeryInv

LEMMA StartReduces == MontgomeryInv /\ Start => MontgomeryInv'
<1> SUFFICES ASSUME MontgomeryInv, Start PROVE MontgomeryInv'
  OBVIOUS
<1>1. /\ pc = "init" /\ pc' = "round" /\ mm' = montg_init(N.p[1], biL)
      /\ T' = Scratch /\ d' = 0 /\ N' = N /\ A' = A /\ B' = B /\ A0' = A0
  BY DEF Start
<1>2. /\ N \in Moduli /\ B \in Factors(N) /\ A \in Mpis /\ Len(A.p) > Nn /\ A0 \in Nat
      /\ Magnitude(A.p) = A0 /\ A0 <= Magnitude(N.p)
  BY <1>1 DEF MontgomeryInv, MontgomeryTypeOK, OperandKept
<1>3. /\ Nn \in Nat \ {0} /\ A.p \in Seq(Limbs)
      /\ Magnitude(N.p) \in Nat \ {0} /\ N.p[1] \in Nat /\ Magnitude(B.p) \in Nat
  BY <1>2, OperandsAre, LimbsAreSmall DEF Nn, Mpis
<1>4. mm' \in Nat /\ Inverts(mm', N.p[1])
  <2> DEFINE x1 == N.p[1]  z == montg_init(x1, biL)
  <2>1. biL \in Widths \cup {biL} /\ 0 \in Nat
    OBVIOUS
  <2>2. LET m0 == 0 * Base + x1
        IN /\ montg_init(m0, biL) \in 0..(TwoTo[biL] - 1)
           /\ (m0 * montg_init(m0, biL) + 1) % TwoTo[biL] = 0
    BY <1>2, <2>1, InversesAreRight
  <2>3. 0 * Base + x1 = x1
    BY <1>3, BaseIsBig
  <2>4. z \in 0..(TwoTo[biL] - 1) /\ (x1 * z + 1) % TwoTo[biL] = 0
    BY <2>2, <2>3
  <2>5. Base = TwoTo[biL] /\ Base \in Nat /\ x1 \in Nat /\ mm' = z
    BY <1>1, <1>3, BaseIsPositive
  <2> HIDE DEF z, x1
  <2>6. z \in Nat /\ x1 * z = z * x1
    BY <2>4, <2>5
  <2> QED BY <2>4, <2>5, <2>6 DEF Inverts, x1
<1>5. /\ T' \in Seq(Limbs) /\ Len(T') = 2 * (Nn + 1)
      /\ \A i1 \in Nat : Limb(T', i1) = 0
  <2> DEFINE L == 2 * (Nn + 1)
  <2>1. L \in Nat /\ <<>> \in Seq(Limbs)
    BY <1>3
  <2> HIDE DEF L
  <2>2. /\ Resized(<<>>, L) \in Seq(Limbs) /\ Len(Resized(<<>>, L)) = L
        /\ \A i1 \in Nat : Limb(Resized(<<>>, L), i1) = IF i1 <= L THEN Limb(<<>>, i1) ELSE 0
    BY <2>1, ResizedIs
  <2>3. \A i1 \in Nat : Limb(<<>>, i1) = 0
    BY DEF Limb
  <2>4. T' = Resized(<<>>, L)
    BY <1>1 DEF Scratch, L
  <2> QED BY <2>2, <2>3, <2>4 DEF L
<1>6. MontgomeryTypeOK'
  <2>1. Nn' = Nn /\ 0 \in 0..Nn
    BY <1>1, <1>3 DEF Nn
  <2> QED BY <1>1, <1>2, <1>4, <1>5, <2>1 DEF MontgomeryTypeOK
<1>7. OperandKept'
  BY <1>1, <1>2 DEF OperandKept
<1>8. RoundIsReady'
  BY <1>1, <1>4, <1>5 DEF RoundIsReady, Room, Nn
<1>9. RoundReducesParts'
  <2> DEFINE c == Nn + 2  W == Part(T', 0)[c]
  <2>1. c \in Nat
    BY <1>3
  <2>2. W = 0
    <3> HIDE DEF c
    <3>1. Part(T', 0)[c] = Part(T', 0)[0]
      <4>1. 0 <= c
        BY <2>1
      <4>2. \A i1 \in (0 + 1)..c : Limb(T', 0 + i1) = 0
        BY <1>5
      <4> QED BY <1>5, <2>1, <4>1, <4>2, PartEnds
    <3>2. Part(T', 0)[0] = 0
      BY <1>5, <2>1, PartOf
    <3> QED BY <3>1, <3>2
  <2>3. Worth(A.p)[0] = 0 /\ Places[0] = 1
    BY <1>3, WorthAt, PlacesAre
  <2> DEFINE F == Magnitude(B.p)  M == Magnitude(N.p)
  <2>4. Reduces(0, 1, 0, F, M)
    <3>1. F \in Nat /\ M \in Nat \ {0}
      BY <1>3
    <3> HIDE DEF F, M
    <3>2. 0 * 1 = 0 * F + M * 0 /\ 0 < 2 * M /\ 0 \in Int
      BY <3>1
    <3> QED BY <3>2 DEF Reduces, Congruent
  <2>5. Nn' = Nn
    BY <1>1 DEF Nn
  <2> HIDE DEF c, F, M, W
  <2>6. Part(T', 0)[Nn + 2] = 0
    BY <2>2 DEF W, c
  <2> QED BY <1>1, <2>3, <2>4, <2>5, <2>6 DEF RoundReducesParts, F, M
<1>10. WindowReduces'
  <2>1. (pc = "round")'
    BY <1>1
  <2> QED BY <1>6, <1>7, <1>8, <1>9, <2>1, WindowReducesIs, PTL
<1>11. CopyIsClose' /\ ProductIsReduced'
  BY <1>1 DEF CopyIsClose, ProductIsReduced
<1> QED BY <1>6, <1>7, <1>8, <1>10, <1>11 DEF MontgomeryInv

\* What mpi_montmul relies on in every state after the first.
LEMMA StateIs ==
  ASSUME MontgomeryInv
  PROVE  /\ N \in Moduli /\ B \in Factors(N) /\ A \in Mpis /\ A0 \in Nat
         /\ Nn \in Nat \ {0} /\ Len(A.p) \in Nat /\ Len(A.p) > Nn
         /\ N.p \in Seq(Limbs) /\ A.p \in Seq(Limbs) /\ B.p \in Seq(Limbs)
         /\ T \in Seq(Limbs) /\ d \in 0..Nn /\ mm \in Nat
         /\ Magnitude(A.p) \in Nat /\ Magnitude(B.p) \in Nat
         /\ Magnitude(N.p) \in Nat \ {0} /\ Magnitude(N.p) < Places[Nn]
         /\ Magnitude(B.p) <= Magnitude(N.p)
<1>1. MontgomeryTypeOK
  BY DEF MontgomeryInv
<1>2. A.p \in Seq(Limbs) /\ Len(A.p) > Nn
  BY <1>1 DEF MontgomeryTypeOK, Mpis
<1>3. Magnitude(A.p) \in Nat /\ Len(A.p) \in Nat
  BY <1>2, MagnitudeIsNatural
<1> QED BY <1>1, <1>2, <1>3, OperandsAre DEF MontgomeryTypeOK, Nn

LEMMA RoundReducesWindow == MontgomeryInv /\ Round => MontgomeryInv'
<1> SUFFICES ASSUME MontgomeryInv, Round PROVE MontgomeryInv'
  OBVIOUS
<1> DEFINE u == A.p[d + 1]
           m == Min({Len(B.p), Nn})
           q == Clearing(u)
           y == mul_hlp(Nn, N.p, mul_hlp(m, B.p, T, d, u), d, q)
<1>1. /\ pc = "round" /\ pc' = "round" /\ d < Nn /\ d' = d + 1
      /\ T' = Slid(y, u)
      /\ N' = N /\ A' = A /\ B' = B /\ A0' = A0 /\ mm' = mm
  BY DEF Round
<1>2. /\ N \in Moduli /\ B \in Factors(N) /\ A \in Mpis /\ A0 \in Nat
      /\ Nn \in Nat \ {0} /\ Len(A.p) \in Nat /\ Len(A.p) > Nn
      /\ d \in 0..Nn /\ mm \in Nat
  BY StateIs
<1>3. /\ Magnitude(N.p) # 0 /\ Magnitude(B.p) <= Magnitude(N.p)
  BY StateIs
<1>4. /\ MontgomeryTypeOK /\ OperandKept /\ RoundIsReady /\ WindowReduces
      /\ Magnitude(A.p) = A0 /\ A0 <= Magnitude(N.p)
      /\ Room(T, N.p) /\ Inverts(mm, N.p[1])
  BY <1>1 DEF MontgomeryInv, OperandKept, RoundIsReady
<1>5. RoundReducesParts
  BY <1>1, <1>4, WindowReducesIs
<1>6. AreLimbs(N.p, B.p, T, A.p)
  BY StateIs DEF AreLimbs
<1>7. /\ d + 1 \in 1..Len(A.p) /\ d + 1 \in 1..Len(T)
  <2>1. Len(T) = 2 * (Nn + 1)
    BY <1>4 DEF Room, Nn
  <2> QED BY <1>1, <1>2, <2>1
<1>8. u = Limb(A.p, d + 1) /\ T[d + 1] = Limb(T, d + 1)
  <2>1. A.p \in Seq(Limbs) /\ T \in Seq(Limbs)
    BY StateIs
  <2> QED BY <1>7, <2>1 DEF Limb
<1>9. N.p[1] = Limb(N.p, 1) /\ B.p[1] = Limb(B.p, 1)
  BY <1>2, OperandsAre
<1>10. m \in Nat /\ m = Min({Len(B.p), Len(N.p)})
  <2>1. Len(B.p) \in Nat /\ Nn \in Nat
    BY <1>2, OperandsAre
  <2> DEFINE x1 == Len(B.p)  x2 == Nn
  <2>2. x1 \in Nat /\ x2 \in Nat
    BY <2>1
  <2> HIDE DEF x1, x2
  <2>3. Min({x1, x2}) \in Nat
    BY <2>2, MinOfTwo
  <2> QED BY <2>3 DEF x1, x2, Nn
<1>11. /\ q \in Limbs
       /\ Clears(q, Limb(T, d + 1) + Limb(A.p, d + 1) * Limb(B.p, 1), mm)
  <2> DEFINE x1 == Limb(T, d + 1)  x2 == Limb(A.p, d + 1)  x3 == Limb(B.p, 1)
             x4 == (x1 + x2 * x3) * mm
  <2>1. T \in Seq(Limbs) /\ A.p \in Seq(Limbs) /\ B.p \in Seq(Limbs)
    BY StateIs
  <2>2. x1 \in Limbs /\ x2 \in Limbs /\ x3 \in Limbs
    BY <2>1, LimbIsSmall
  <2> HIDE DEF x1, x2, x3
  <2>3. x1 \in Nat /\ x2 \in Nat /\ x3 \in Nat
    BY <2>2, LimbsAreSmall
  <2>4. x4 \in Nat
    <3>1. x2 * x3 \in Nat
      BY <2>3
    <3>2. x1 + x2 * x3 \in Nat
      BY <2>3, <3>1
    <3> QED BY <1>2, <3>2
  <2>5. q = x4 % Base
    BY <1>8, <1>9 DEF Clearing, x1, x2, x3
  <2>6. q \in Limbs
    <3> HIDE DEF x4
    <3>1. x4 % Base \in 0..(Base - 1)
      BY <2>4, BaseIsBig
    <3> QED BY <2>5, <3>1 DEF Limbs
  <2> HIDE DEF q
  <2> QED BY <2>5, <2>6 DEF Clears, x1, x2, x3
<1>12. LET c == Len(N.p)
           r == [y EXCEPT ![d + 1] = u, ![d + c + 3] = 0]
       IN /\ r \in Seq(Limbs) /\ Len(r) = Len(T)
          /\ Reduces(Part(r, d + 1)[c + 2], Places[d + 1], Worth(A.p)[d + 1],
                     Magnitude(B.p), Magnitude(N.p))
  <2>1. d \in Nat /\ d < Len(N.p)
    BY <1>1, <1>2 DEF Nn
  <2>2. Inverts(mm, Limb(N.p, 1))
    BY <1>4, <1>9
  <2>3. Reduces(Part(T, d)[Len(N.p) + 2], Places[d], Worth(A.p)[d], Magnitude(B.p),
                Magnitude(N.p))
    BY <1>5 DEF RoundReducesParts, Nn
  <2>5. m \in Nat /\ q \in Limbs /\ mm \in Nat
    BY <1>2, <1>10, <1>11
  <2> HIDE DEF q, m, y, u
  <2>4. RoundMay(N.p, B.p, T, A.p, d, m, q, mm)
    BY <1>3, <1>4, <1>6, <1>10, <1>11, <2>1, <2>2, <2>3, <2>5 DEF RoundMay
  <2>6. LET r == RoundOf(N.p, B.p, T, d, m, Limb(A.p, d + 1), q)
        IN /\ r \in Seq(Limbs) /\ Len(r) = Len(T)
           /\ Reduces(Part(r, d + 1)[Len(N.p) + 2], Places[d + 1], Worth(A.p)[d + 1],
                      Magnitude(B.p), Magnitude(N.p))
    BY <2>4, RoundStaysReduced
  <2> QED BY <1>8, <2>6 DEF Nn, RoundOf, y
<1>13. /\ T' \in Seq(Limbs) /\ Len(T') = Len(T)
       /\ Reduces(Part(T', d + 1)[Nn + 2], Places[d + 1], Worth(A.p)[d + 1],
                  Magnitude(B.p), Magnitude(N.p))
  <2> HIDE DEF y, u
  <2> QED BY <1>1, <1>12 DEF Slid, Nn
<1>14. Nn' = Nn
  BY <1>1 DEF Nn
<1>15. MontgomeryTypeOK'
  <2>1. d + 1 \in 0..Nn
    BY <1>1, <1>2
  <2> QED BY <1>1, <1>2, <1>13, <1>14, <2>1 DEF MontgomeryTypeOK
<1>16. OperandKept' /\ RoundIsReady'
  BY <1>1, <1>4, <1>13, <1>14 DEF OperandKept, RoundIsReady, Room
<1>17. RoundReducesParts'
  BY <1>1, <1>13, <1>14 DEF RoundReducesParts
<1>18. WindowReduces'
  <2>1. (pc = "round")'
    BY <1>1
  <2> QED BY <1>15, <1>16, <1>17, <2>1, WindowReducesIs, PTL
<1>19. CopyIsClose' /\ ProductIsReduced'
  BY <1>1 DEF CopyIsClose, ProductIsReduced
<1> QED BY <1>15, <1>16, <1>18, <1>19 DEF MontgomeryInv

\* Over A, of which only Nn limbs are in use, the window is copied as it is.
LEMMA CopiedIs ==
  ASSUME NEW x \in Seq(Limbs), NEW h \in Seq(Limbs), NEW l \in Nat, NEW at \in Nat,
         l < Len(h), at + (l + 1) <= Len(x), Magnitude(h) < Places[l],
         Part(x, at)[l + 2] < Base * Places[l]
  PROVE  LET r == SubSeq([k1 \in DOMAIN h |-> IF k1 <= l + 1 THEN x[at + k1] ELSE h[k1]],
                         1, Len(h))
         IN /\ r \in Seq(Limbs) /\ Len(r) = Len(h)
            /\ Magnitude(r) = Part(x, at)[l + 2]
<1> DEFINE L == Len(h)
           c == l + 1
           g == [k1 \in 1..L |-> IF k1 <= c THEN x[at + k1] ELSE h[k1]]
           r == SubSeq(g, 1, L)
<1>1. L \in Nat /\ DOMAIN h = 1..L /\ c \in Nat /\ c <= L /\ c + 1 = l + 2
  BY LimbsAreNatural
<1>2. \A k1 \in 1..L : /\ k1 <= c => at + k1 \in DOMAIN x
                       /\ k1 \in DOMAIN h
  BY <1>1
<1>3. \A k1 \in 1..L : g[k1] = (IF k1 <= c THEN Limb(x, at + k1) ELSE Limb(h, k1))
  BY <1>2 DEF Limb
<1>4. \A k1 \in 1..L : g[k1] \in Limbs
  <2> SUFFICES ASSUME NEW k1 \in 1..L PROVE g[k1] \in Limbs
    OBVIOUS
  <2> HIDE DEF g, c, L
  <2>1. Limb(x, at + k1) \in Limbs /\ Limb(h, k1) \in Limbs
    BY LimbIsSmall
  <2> QED BY <1>3, <2>1
<1>5. g = [k1 \in 1..L |-> g[k1]]
  OBVIOUS
<1> HIDE DEF g
<1>6. /\ r = g /\ g \in Seq(Limbs) /\ Len(g) = L
      /\ \A k1 \in 1..L : Limb(g, k1) = g[k1]
  <2> HIDE DEF L
  <2> QED BY <1>1, <1>4, <1>5, TableOfLimbs
<1>7. \A k1 \in Nat : k1 > l => Limb(h, k1) = 0
  BY WorthOfLow
<1>8. \A k1 \in 1..c : Limb(g, 0 + k1) = Limb(x, at + k1)
  <2> SUFFICES ASSUME NEW k1 \in 1..c PROVE Limb(g, 0 + k1) = Limb(x, at + k1)
    OBVIOUS
  <2>1. k1 \in 1..L /\ k1 <= c /\ 0 + k1 = k1
    BY <1>1
  <2> HIDE DEF c, L
  <2> QED BY <1>3, <1>6, <2>1
<1>9. \A k1 \in (c + 1)..L : Limb(g, 0 + k1) = 0
  <2> SUFFICES ASSUME NEW k1 \in (c + 1)..L PROVE Limb(g, 0 + k1) = 0
    OBVIOUS
  <2>1. k1 \in 1..L /\ ~(k1 <= c) /\ 0 + k1 = k1 /\ k1 \in Nat /\ k1 > l
    BY <1>1
  <2> HIDE DEF c, L
  <2> QED BY <1>3, <1>6, <1>7, <2>1
<1>10. Magnitude(g) = Part(x, at)[c]
  <2>1. L \in Nat /\ L >= Len(g) /\ 0 \in Nat /\ c <= L /\ c \in Nat /\ g \in Seq(Limbs)
    BY <1>1, <1>6
  <2> HIDE DEF c, L
  <2>2. Magnitude(g) = Worth(g)[L]
    BY <2>1, MagnitudeIs
  <2>3. Part(g, 0) = Worth(g)
    BY <2>1, PartOf
  <2>4. Part(g, 0)[L] = Part(g, 0)[c]
    BY <1>9, <2>1, PartEnds
  <2>5. Part(g, 0)[c] = Part(x, at)[c]
    BY <1>8, <2>1, SameParts
  <2> QED BY <2>2, <2>3, <2>4, <2>5
<1>11. Part(x, at)[c + 1] = Part(x, at)[c]
  <2> DEFINE a1 == Part(x, at)[c]  a2 == Limb(x, at + (c + 1))  P == Places[c]
  <2>1. Part(x, at)[c + 1] < P
    <3>1. Places[c] = Base * Places[l]
      BY PlacesAre
    <3> QED BY <1>1, <3>1
  <2>2. a1 \in Nat /\ P \in Nat \ {0} /\ Part(x, at)[c + 1] = a1 + a2 * P
    <3> HIDE DEF c
    <3> QED BY <1>1, PartOf, PlacesAre
  <2>3. a2 \in Nat
    <3>1. a2 \in Limbs
      BY LimbIsSmall
    <3> HIDE DEF a2
    <3> QED BY <3>1, LimbsAreSmall
  <2> HIDE DEF a1, a2, P
  <2>4. a2 = 0
    <3>1. SUFFICES ASSUME a2 # 0 PROVE FALSE
      OBVIOUS
    <3>2. \A e, f \in Nat \ {0} : e <= f * e /\ f * e \in Nat
      OBVIOUS
    <3> DEFINE b == a2 * P
    <3>3. P <= b /\ b \in Nat
      BY <2>2, <2>3, <3>1, <3>2
    <3>4. a1 + b < P
      BY <2>1, <2>2
    <3> HIDE DEF b
    <3> QED BY <2>2, <3>3, <3>4
  <2>5. 0 * P = 0
    BY <2>2
  <2> QED BY <2>2, <2>4, <2>5 DEF a1
<1>12. /\ r \in Seq(Limbs) /\ Len(r) = L /\ Magnitude(r) = Part(x, at)[l + 2]
  BY <1>1, <1>6, <1>10, <1>11
<1>13. r = SubSeq([k1 \in DOMAIN h |-> IF k1 <= l + 1 THEN x[at + k1] ELSE h[k1]], 1, L)
  BY <1>1 DEF g
<1> HIDE DEF r
<1> QED BY <1>12, <1>13

LEMMA CopyStaysReduced == MontgomeryInv /\ Copied => MontgomeryInv'
<1> SUFFICES ASSUME MontgomeryInv, Copied PROVE MontgomeryInv'
  OBVIOUS
<1>1. /\ pc = "round" /\ pc' = "copied" /\ d = Nn
      /\ A' = [A EXCEPT !.p = SubSeq(Moved(A.p), 1, Len(A.p))]
      /\ N' = N /\ B' = B /\ A0' = A0 /\ mm' = mm /\ T' = T /\ d' = d
  BY DEF Copied
<1>2. /\ N \in Moduli /\ B \in Factors(N) /\ A \in Mpis /\ A0 \in Nat
      /\ Nn \in Nat \ {0} /\ Len(A.p) \in Nat /\ Len(A.p) > Nn
      /\ d \in 0..Nn /\ mm \in Nat
      /\ Magnitude(N.p) \in Nat \ {0} /\ Magnitude(N.p) < Places[Nn]
  BY StateIs
<1>3. A.p \in Seq(Limbs) /\ T \in Seq(Limbs)
  BY StateIs
<1>4. /\ MontgomeryTypeOK /\ OperandKept /\ RoundIsReady /\ WindowReduces
      /\ Magnitude(A.p) = A0 /\ A0 <= Magnitude(N.p) /\ Room(T, N.p)
  BY <1>1 DEF MontgomeryInv, OperandKept, RoundIsReady
<1>5. RoundReducesParts
  BY <1>1, <1>4, WindowReducesIs
<1> DEFINE h == A.p
           r == SubSeq(Moved(h), 1, Len(h))
           W == Part(T, d)[Nn + 2]
           M == Magnitude(N.p)
           P == Places[Nn]
<1>6. P \in Nat \ {0} /\ A0 < P
  <2>1. P \in Nat \ {0}
    BY <1>2, PlacesAre
  <2> QED BY <1>2, <1>4, <2>1
<1>7. W < 2 * M /\ W \in Nat
  <2>1. W < 2 * M
    BY <1>5 DEF RoundReducesParts, Reduces
  <2> DEFINE c == Nn + 2
  <2>2. c \in Nat /\ d \in Nat
    BY <1>2
  <2> HIDE DEF c
  <2>3. Part(T, d)[c] \in Nat
    BY <1>3, <2>2, PartOf
  <2> QED BY <2>1, <2>3 DEF c
<1>8. W < Base * P
  <2>1. M \in Nat /\ M < P /\ Base \in Nat /\ 2 <= Base
    BY <1>2, BaseIsBig
  <2> HIDE DEF M, P, W
  <2>2. P \in Nat /\ P <= P /\ 2 \in Nat
    BY <1>6
  <2>3. 2 * P <= Base * P /\ 2 * P \in Nat /\ Base * P \in Nat
    BY <2>1, <2>2, ProductsGrow
  <2> QED BY <1>7, <2>1, <2>2, <2>3
<1>9. /\ r \in Seq(Limbs) /\ Len(r) = Len(h) /\ Magnitude(r) = W
  <2>1. /\ Nn \in Nat /\ d \in Nat /\ Nn < Len(h) /\ d + (Nn + 1) <= Len(T)
        /\ Magnitude(h) < Places[Nn] /\ h \in Seq(Limbs)
    <3>1. Len(T) = 2 * (Nn + 1)
      BY <1>4 DEF Room, Nn
    <3> QED BY <1>1, <1>2, <1>3, <1>4, <1>6, <3>1
  <2>2. r = SubSeq([k1 \in DOMAIN h |-> IF k1 <= Nn + 1 THEN T[d + k1] ELSE h[k1]], 1, Len(h))
    BY DEF Moved
  <2> DEFINE l == Nn
  <2> HIDE DEF h, l, r, M
  <2>3. LET z == SubSeq([k1 \in DOMAIN h |-> IF k1 <= l + 1 THEN T[d + k1] ELSE h[k1]],
                        1, Len(h))
        IN z \in Seq(Limbs) /\ Len(z) = Len(h) /\ Magnitude(z) = Part(T, d)[l + 2]
    <3>1. Part(T, d)[l + 2] < Base * Places[l]
      BY <1>8 DEF l
    <3>2. /\ l \in Nat /\ l < Len(h) /\ d + (l + 1) <= Len(T)
          /\ Magnitude(h) < Places[l]
      BY <2>1 DEF l
    <3> HIDE DEF W, P
    <3> QED BY <1>3, <2>1, <3>1, <3>2, CopiedIs, SMTT(30)
  <2> QED BY <2>2, <2>3 DEF l
<1>10. A' \in Mpis /\ A'.p = r
  <2>1. A' = [A EXCEPT !.p = r]
    BY <1>1
  <2> HIDE DEF r
  <2> QED BY <1>2, <1>9, <2>1 DEF Mpis
<1>11. Nn' = Nn
  BY <1>1 DEF Nn
<1>12. MontgomeryTypeOK'
  <2> HIDE DEF r
  <2> QED BY <1>1, <1>2, <1>3, <1>9, <1>10, <1>11 DEF MontgomeryTypeOK
<1>13. CopyIsClose'
  <2>1. Worth(h)[Nn] = A0
    <3>1. Magnitude(h) < Places[Nn] /\ Nn \in Nat /\ h \in Seq(Limbs)
      BY <1>2, <1>3, <1>4, <1>6
    <3> HIDE DEF h
    <3>2. Worth(h)[Nn] = Magnitude(h)
      BY <3>1, WorthOfLow
    <3> QED BY <1>4, <3>2 DEF h
  <2>2. Reduces(W, P, A0, Magnitude(B.p), M)
    BY <1>1, <1>5, <2>1 DEF RoundReducesParts
  <2> HIDE DEF r, W, P, M
  <2>3. Magnitude(A'.p) = W
    BY <1>9, <1>10
  <2> QED BY <1>1, <1>11, <2>2, <2>3 DEF CopyIsClose, P, M
<1>14. OperandKept' /\ RoundIsReady' /\ WindowReduces' /\ ProductIsReduced'
  BY <1>1 DEF OperandKept, RoundIsReady, WindowReduces, ProductIsReduced
<1> QED BY <1>12, <1>13, <1>14 DEF MontgomeryInv

LEMMA SubtractReduces == MontgomeryInv /\ Subtract => MontgomeryInv'
<1> SUFFICES ASSUME MontgomeryInv, Subtract PROVE MontgomeryInv'
  OBVIOUS
<1>1. /\ pc = "copied" /\ pc' = "multiplied" /\ Exceeds(A)
      /\ A' = [A EXCEPT !.p = sub_hlp(A.p, N.p)]
      /\ N' = N /\ B' = B /\ A0' = A0 /\ mm' = mm /\ T' = T /\ d' = d
  BY DEF Subtract
<1>2. /\ N \in Moduli /\ B \in Factors(N) /\ A \in Mpis /\ A0 \in Nat
      /\ Nn \in Nat \ {0} /\ Len(A.p) \in Nat /\ Len(A.p) > Nn
      /\ T \in Seq(Limbs) /\ d \in 0..Nn /\ mm \in Nat
      /\ Magnitude(A.p) \in Nat /\ Magnitude(B.p) \in Nat
      /\ Magnitude(N.p) \in Nat \ {0}
  BY StateIs
<1>3. A.p \in Seq(Limbs) /\ N.p \in Seq(Limbs)
  BY StateIs
<1>4. Reduces(Magnitude(A.p), Places[Nn], A0, Magnitude(B.p), Magnitude(N.p))
  BY <1>1 DEF MontgomeryInv, CopyIsClose
<1>5. Magnitude(A.p) >= Magnitude(N.p)
  <2>1. cmp_abs(A, N) >= 0
    BY <1>1 DEF Exceeds
  <2>2. cmp_abs(A, N) = IF Magnitude(A.p) > Magnitude(N.p) THEN 1
                        ELSE IF Magnitude(A.p) < Magnitude(N.p) THEN -1 ELSE 0
    BY <1>3, CmpAbs
  <2> QED BY <1>2, <2>1, <2>2
<1> DEFINE r == sub_hlp(A.p, N.p)
           M == Magnitude(N.p)
           W == Magnitude(A.p)
           P == Places[Nn]
           F == Magnitude(B.p)
<1>6. r \in Seq(Limbs) /\ Len(r) = Len(A.p) /\ Magnitude(r) = W - M
  BY <1>2, <1>3, <1>5, SubHlp
<1>7. A' \in Mpis /\ A'.p = r
  <2>1. A' = [A EXCEPT !.p = r]
    BY <1>1
  <2> HIDE DEF r
  <2> QED BY <1>2, <1>6, <2>1 DEF Mpis
<1>8. Nn' = Nn
  BY <1>1 DEF Nn
<1> HIDE DEF r
<1>9. MontgomeryTypeOK'
  BY <1>1, <1>2, <1>6, <1>7, <1>8 DEF MontgomeryTypeOK
<1>10. W < 2 * M /\ Congruent(W * P, A0 * F, M)
  BY <1>4 DEF Reduces
<1>11. W \in Nat /\ M \in Nat \ {0} /\ F \in Nat /\ P \in Nat \ {0} /\ W >= M
  BY <1>2, <1>5, PlacesAre
<1>12. Magnitude(r) < M /\ ((W - M) * P - A0 * F) % M = 0
  <2> HIDE DEF M, W, P, F
  <2>1. PICK z \in Int : W * P = A0 * F + M * z
    BY <1>10 DEF Congruent
  <2> DEFINE e == z - P  X == (W - M) * P  Y == A0 * F
  <2>2. e \in Int /\ X \in Int /\ Y \in Int
    BY <1>2, <1>11
  <2>3. X = Y + M * e
    <3>1. X = W * P - M * P /\ M * e = M * z - M * P
      BY <1>11
    <3>2. W * P \in Int /\ M * P \in Int /\ M * z \in Int
      BY <1>11
    <3> HIDE DEF X, Y, e
    <3>3. W * P = Y + M * z
      BY <2>1 DEF Y
    <3> QED BY <2>2, <3>1, <3>2, <3>3
  <2> HIDE DEF e, X, Y
  <2>4. (X - Y) % M = 0
    BY <1>11, <2>2, <2>3, DivisibleDifference DEF Congruent
  <2>5. Magnitude(r) < M
    BY <1>6, <1>10, <1>11
  <2> QED BY <2>4, <2>5 DEF X, Y
<1>13. ProductIsReduced'
  BY <1>1, <1>6, <1>7, <1>8, <1>12 DEF ProductIsReduced
<1>14. OperandKept' /\ RoundIsReady' /\ WindowReduces' /\ CopyIsClose'
  BY <1>1 DEF OperandKept, RoundIsReady, WindowReduces, CopyIsClose
<1> QED BY <1>9, <1>13, <1>14 DEF MontgomeryInv

LEMMA SubtractMaskedReduces == MontgomeryInv /\ SubtractMasked => MontgomeryInv'
<1> SUFFICES ASSUME MontgomeryInv, SubtractMasked PROVE MontgomeryInv'
  OBVIOUS
<1>1. /\ pc = "copied" /\ pc' = "multiplied" /\ ~Exceeds(A)
      /\ T' = sub_hlp(T, SubSeq(A.p, 1, Nn))
      /\ N' = N /\ A' = A /\ B' = B /\ A0' = A0 /\ mm' = mm /\ d' = d
  BY DEF SubtractMasked
<1>2. /\ N \in Moduli /\ B \in Factors(N) /\ A \in Mpis /\ A0 \in Nat
      /\ Nn \in Nat \ {0} /\ Len(A.p) \in Nat /\ Len(A.p) > Nn
      /\ d \in 0..Nn /\ mm \in Nat
      /\ Magnitude(A.p) \in Nat /\ Magnitude(B.p) \in Nat
      /\ Magnitude(N.p) \in Nat \ {0}
  BY StateIs
<1>3. A.p \in Seq(Limbs) /\ N.p \in Seq(Limbs) /\ T \in Seq(Limbs)
  BY StateIs
<1>4. Reduces(Magnitude(A.p), Places[Nn], A0, Magnitude(B.p), Magnitude(N.p))
  BY <1>1 DEF MontgomeryInv, CopyIsClose
<1>5. Magnitude(A.p) < Magnitude(N.p)
  <2>1. ~(cmp_abs(A, N) >= 0)
    BY <1>1 DEF Exceeds
  <2>2. cmp_abs(A, N) = IF Magnitude(A.p) > Magnitude(N.p) THEN 1
                        ELSE IF Magnitude(A.p) < Magnitude(N.p) THEN -1 ELSE 0
    BY <1>3, CmpAbs
  <2> QED BY <1>2, <2>1, <2>2
<1>6. T' \in Seq(Limbs)
  <2> DEFINE f == SubSeq(A.p, 0 + 1, 0 + Nn)
  <2>1. f \in Seq(Limbs)
    <3>1. 0 + Nn <= Len(A.p) /\ Nn \in Nat /\ 0 \in Nat
      BY <1>2
    <3> QED BY <1>3, <3>1, MagnitudeOfPiece
  <2>2. f = SubSeq(A.p, 1, Nn)
    BY <1>2
  <2> HIDE DEF f
  <2>3. sub_hlp(T, f) \in Seq(Limbs)
    BY <1>3, <2>1, Borrowed
  <2> QED BY <1>1, <2>2, <2>3
<1>7. Nn' = Nn
  BY <1>1 DEF Nn
<1>8. MontgomeryTypeOK'
  BY <1>1, <1>2, <1>6, <1>7 DEF MontgomeryTypeOK
<1> DEFINE X == Magnitude(A.p) * Places[Nn]  Y == A0 * Magnitude(B.p)
<1>9. (X - Y) % Magnitude(N.p) = 0
  <2>1. Congruent(X, Y, Magnitude(N.p))
    BY <1>4 DEF Reduces
  <2>2. Places[Nn] \in Nat
    BY <1>2, PlacesAre
  <2>3. X \in Int /\ Y \in Int
    BY <1>2, <2>2
  <2> HIDE DEF X, Y
  <2> QED BY <1>2, <2>1, <2>3, DivisibleDifference
<1>10. ProductIsReduced'
  BY <1>1, <1>5, <1>7, <1>9 DEF ProductIsReduced
<1>11. OperandKept' /\ RoundIsReady' /\ WindowReduces' /\ CopyIsClose'
  BY <1>1 DEF OperandKept, RoundIsReady, WindowReduces, CopyIsClose
<1> QED BY <1>8, <1>10, <1>11 DEF MontgomeryInv

\* Every state that the multiplication reaches satisfies MontgomeryInv.
LEMMA MontgomeryKeeps == MontgomerySpec => []MontgomeryInv
<1>1. MontgomeryInv /\ [MontgomeryNext]_montgomeryVars => MontgomeryInv'
  <2> SUFFICES ASSUME MontgomeryInv, [MontgomeryNext]_montgomeryVars
               PROVE  MontgomeryInv'
    OBVIOUS
  <2>1. CASE Start
    BY <2>1, StartReduces
  <2>2. CASE Round
    BY <2>2, RoundReducesWindow
  <2>3. CASE Copied
    BY <2>3, CopyStaysReduced
  <2>4. CASE Subtract
    BY <2>4, SubtractReduces
  <2>5. CASE SubtractMasked
    BY <2>5, SubtractMaskedReduces
  <2>6. CASE UNCHANGED montgomeryVars
    BY <2>6 DEF montgomeryVars, MontgomeryInv, MontgomeryTypeOK, OperandKept,
       RoundIsReady, CopyIsClose, WindowReduces, ProductIsReduced, Window, Nn
  <2> QED BY <2>1, <2>2, <2>3, <2>4, <2>5, <2>6 DEF MontgomeryNext
<1> QED BY <1>1, MontgomeryStarts, PTL DEF MontgomerySpec

(***************************************************************************)
(* mpi_montg_init inverts -N modulo the base for every odd modulus and     *)
(* every width of a limb, and between the rounds of mpi_montmul the window *)
(* of T is A's limbs so far times B, divided by the base once per limb,    *)
(* modulo N, and below 2 N (bignum.c:1468-1509).                           *)
(***************************************************************************)
THEOREM RoundsReduce == MontgomerySpec => []RoundReduces
<1>1. MontgomeryInv => RoundReduces
  <2> SUFFICES ASSUME MontgomeryInv PROVE RoundReduces
    OBVIOUS
  <2>1. N \in Moduli /\ B \in Factors(N)
    BY StateIs
  <2>2. ASSUME NEW width \in Widths \cup {biL}, NEW q \in 0..(TwoTo[width - biL] - 1)
        PROVE  LET m0 == q * Base + N.p[1]
               IN (m0 * montg_init(m0, width) + 1) % TwoTo[width] = 0
    <3>1. width - biL \in Nat
      BY WidthsAssumption, BaseIsPositive
    <3> DEFINE e == width - biL
    <3>2. TwoTo[e] \in Nat
      <4> HIDE DEF e
      <4> QED BY <3>1, TwoToAt DEF e
    <3>3. q \in Nat
      BY <3>2
    <3> QED BY <2>1, <3>3, InversesAreRight
  <2>3. InverseIsRight
    BY <2>2 DEF InverseIsRight
  <2> QED BY <2>3 DEF MontgomeryInv, RoundReduces
<1> QED BY <1>1, MontgomeryKeeps, PTL

(***************************************************************************)
(* What mpi_montmul leaves in A is the product A B R^-1 modulo N and below *)
(* N, with one subtraction at most, also when B has a single limb, as in   *)
(* mpi_montred, or A more limbs than N (bignum.c:1511-1532).               *)
(***************************************************************************)
THEOREM ProductsAreReduced == MontgomerySpec => []ProductIsReduced
<1>1. MontgomeryInv => ProductIsReduced
  BY DEF MontgomeryInv
<1> QED BY <1>1, MontgomeryKeeps, PTL

----------------------------------------------------------------------------
(* The registers, which hold mpis after every sequence of calls. *)

RegistersOK == reg \in [Regs -> Mpis]

LEMMA WritesMpi ==
  ASSUME RegistersOK, NEW x \in Regs, NEW X \in Mpis, Writes(x, X)
  PROVE  RegistersOK'
BY DEF RegistersOK, Writes

LEMMA WritesMpis ==
  ASSUME RegistersOK, NEW x \in Regs, NEW y \in Regs, NEW XY,
         XY[1] \in Mpis, XY[2] \in Mpis, WritesBoth(x, y, XY)
  PROVE  RegistersOK'
BY DEF RegistersOK, WritesBoth

LEMMA DigitsFit ==
  ASSUME NEW z \in Digits
  PROVE  IsDigit(z) /\ (z >= 0 => z \in Limbs)
<1>1. Base \in Nat \ {0} /\ z \in (1 - Base)..(Base - 1)
  BY BaseIsPositive, DigitsAssumption
<1>2. z \in Int /\ z < Base /\ -z < Base
  BY <1>1
<1>3. z >= 0 => z \in Limbs
  BY <1>2, LimbsAreSmall
<1> QED BY <1>2, <1>3 DEF IsDigit, Size

LEMMA CharsAreSmall ==
  Chars = 0..(TwoTo[CharBits] - 1) /\ Chars = CharsOf /\ Bufs \subseteq Seq(CharsOf)
BY BufsAssumption DEF Chars, CharsOf, CharBase

LEMMA AbsIsSize ==
  ASSUME NEW X \in Mpis
  PROVE  Abs(Value(X)) = Magnitude(X.p) /\ Magnitude(X.p) \in Nat /\ Value(X) \in Int
<1>1. Size(Value(X)) = Magnitude(X.p)
  BY SizeOfValue
<1> QED BY <1>1, MpiIs DEF Abs, Size

LEMMA OneRegisterStep ==
  ASSUME RegistersOK, NEW x \in Regs,
         \/ Free(x) \/ Lset(x) \/ ReadBinary(x) \/ ShiftL(x) \/ ShiftR(x)
         \/ Shrink(x) \/ SetBit(x)
  PROVE  RegistersOK'
<1>1. reg[x] \in Mpis
  BY DEF RegistersOK
<1>2. CASE Free(x)
  BY <1>2, NoLimbs, WritesMpi DEF Free
<1>3. CASE Lset(x)
  <2>1. PICK z \in Digits : Writes(x, lset(reg[x], z))
    BY <1>3 DEF Lset
  <2>2. lset(reg[x], z) \in Mpis
    BY <1>1, DigitsFit, LsetIs
  <2> QED BY <2>1, <2>2, WritesMpi
<1>4. CASE ReadBinary(x)
  <2>1. PICK buf \in Bufs : Writes(x, read_binary(reg[x], buf))
    BY <1>4 DEF ReadBinary
  <2>2. read_binary(reg[x], buf) \in Mpis
    <3>1. buf \in Seq(CharsOf)
      BY CharsAreSmall
    <3> QED BY <1>1, <3>1, ReadIs
  <2> QED BY <2>1, <2>2, WritesMpi
<1>5. CASE ShiftL(x)
  <2>1. PICK count \in Counts : Writes(x, shift_l(reg[x], count))
    BY <1>5 DEF ShiftL
  <2>2. shift_l(reg[x], count) \in Mpis
    BY <1>1, CountsAssumption, ShiftLeftIs
  <2> QED BY <2>1, <2>2, WritesMpi
<1>6. CASE ShiftR(x)
  <2>1. PICK count \in Counts : Writes(x, shift_r(reg[x], count))
    BY <1>6 DEF ShiftR
  <2>2. shift_r(reg[x], count) \in Mpis
    BY <1>1, CountsAssumption, ShiftRightIs
  <2> QED BY <2>1, <2>2, WritesMpi
<1>7. CASE Shrink(x)
  <2>1. PICK l \in 1..2 : Writes(x, shrink(reg[x], l))
    BY <1>7 DEF Shrink
  <2>2. shrink(reg[x], l) \in Mpis
    BY <1>1, ShrinkIs
  <2> QED BY <2>1, <2>2, WritesMpi
<1>8. CASE SetBit(x)
  <2>1. PICK pos \in Counts, val \in 0..2 : Writes(x, set_bit(reg[x], pos, val))
    BY <1>8 DEF SetBit
  <2>2. set_bit(reg[x], pos, val) \in Mpis
    BY <1>1, CountsAssumption, SetBitIs
  <2> QED BY <2>1, <2>2, WritesMpi
<1> QED BY <1>2, <1>3, <1>4, <1>5, <1>6, <1>7, <1>8

LEMMA TwoRegisterStep ==
  ASSUME RegistersOK, NEW x \in Regs, NEW a \in Regs,
         \/ Copy(x, a) \/ MulInt(x, a) \/ CondAssign(x, a)
         \/ Swap(x, a) \/ CondSwap(x, a)
  PROVE  RegistersOK'
<1>1. reg[x] \in Mpis /\ reg[a] \in Mpis
  BY DEF RegistersOK
<1>2. CASE Copy(x, a)
  <2>1. copy(reg[x], reg[a]) \in Mpis
    BY <1>1, CopyIs
  <2> QED BY <1>2, <2>1, WritesMpi DEF Copy
<1>3. CASE MulInt(x, a)
  <2>1. PICK z \in Digits : z >= 0 /\ Writes(x, mul_int(reg, x, a, z))
    BY <1>3 DEF MulInt
  <2>2. mul_int(reg, x, a, z) \in Mpis
    <3>1. z \in Limbs
      BY <2>1, DigitsFit
    <3> QED BY <1>1, <3>1, MulIntIs DEF mul_int
  <2> QED BY <2>1, <2>2, WritesMpi
<1>4. CASE CondAssign(x, a)
  <2>1. PICK char \in Chars : Writes(x, safe_cond_assign(reg[x], reg[a], char))
    BY <1>4 DEF CondAssign
  <2>2. safe_cond_assign(reg[x], reg[a], char) \in Mpis
    BY <1>1, CharsAreSmall, CondAssignIs
  <2> QED BY <2>1, <2>2, WritesMpi
<1>5. CASE Swap(x, a)
  <2>1. <<reg[a], reg[x]>>[1] \in Mpis /\ <<reg[a], reg[x]>>[2] \in Mpis
    BY <1>1
  <2> QED BY <1>5, <2>1, WritesMpis DEF Swap
<1>6. CASE CondSwap(x, a)
  <2>1. PICK char \in Chars : WritesBoth(x, a, safe_cond_swap(reg[x], reg[a], char))
    BY <1>6 DEF CondSwap
  <2>2. /\ safe_cond_swap(reg[x], reg[a], char)[1] \in Mpis
        /\ safe_cond_swap(reg[x], reg[a], char)[2] \in Mpis
    BY <1>1, CharsAreSmall, CondSwapIs
  <2> QED BY <2>1, <2>2, WritesMpis
<1> QED BY <1>2, <1>3, <1>4, <1>5, <1>6

LEMMA ThreeRegisterStep ==
  ASSUME RegistersOK, NEW x \in Regs, NEW a \in Regs, NEW b \in Regs,
         \/ SubAbs(x, a, b) \/ MulMpi(x, a, b)
         \/ Distinct(x, a, b) /\ (AddAbs(x, a, b) \/ AddMpi(x, a, b) \/ SubMpi(x, a, b))
  PROVE  RegistersOK'
<1>1. /\ reg \in [Regs -> Mpis]
      /\ reg[x] \in Mpis /\ reg[a] \in Mpis /\ reg[b] \in Mpis
  BY DEF RegistersOK
<1>2. CASE SubAbs(x, a, b)
  <2>1. sub_abs(reg, x, a, b) \in Mpis
    BY <1>1, SubAbsIs
  <2> QED BY <1>2, <2>1, WritesMpi DEF SubAbs
<1>3. CASE MulMpi(x, a, b)
  <2>1. mul_mpi(reg, x, a, b) \in Mpis
    BY <1>1, ProductIs DEF mul_mpi
  <2> QED BY <1>3, <2>1, WritesMpi DEF MulMpi
<1>4. CASE Distinct(x, a, b) /\ (AddAbs(x, a, b) \/ AddMpi(x, a, b) \/ SubMpi(x, a, b))
  <2>1. x # a \/ x # b
    BY <1>4 DEF Distinct
  <2>2. add_abs(reg, x, a, b) \in Mpis
    BY <1>1, <2>1, AddAbsIs
  <2>3. add_mpi(reg, x, a, b) \in Mpis /\ sub_mpi(reg, x, a, b) \in Mpis
    BY <1>1, <2>1, AddMpiIs
  <2> QED BY <1>4, <2>2, <2>3, WritesMpi DEF AddAbs, AddMpi, SubMpi
<1> QED BY <1>2, <1>3, <1>4

LEMMA RegistersInvariant == Spec => []RegistersOK
<1>1. Init => RegistersOK
  BY NoLimbs DEF Init, RegistersOK
<1>2. RegistersOK /\ [Next]_reg => RegistersOK'
  <2> SUFFICES ASSUME RegistersOK, [Next]_reg PROVE RegistersOK'
    OBVIOUS
  <2>1. CASE UNCHANGED reg
    BY <2>1 DEF RegistersOK
  <2>2. CASE Next
    <3>1. PICK x \in Regs :
            \/ Free(x) \/ Lset(x) \/ ReadBinary(x) \/ ShiftL(x) \/ ShiftR(x)
            \/ Shrink(x) \/ SetBit(x)
            \/ \E a \in Regs : \/ Copy(x, a) \/ MulInt(x, a) \/ CondAssign(x, a)
                               \/ Swap(x, a) \/ CondSwap(x, a)
            \/ \E a, b \in Regs :
                 \/ SubAbs(x, a, b) \/ MulMpi(x, a, b)
                 \/ Distinct(x, a, b)
                      /\ (AddAbs(x, a, b) \/ AddMpi(x, a, b) \/ SubMpi(x, a, b))
      BY <2>2 DEF Next
    <3> QED BY <3>1, OneRegisterStep, TwoRegisterStep, ThreeRegisterStep
  <2> QED BY <2>1, <2>2
<1> QED BY <1>1, <1>2, PTL DEF Spec

(* Comparisons. *)

LEMMA Comparing ==
  ASSUME RegistersOK
  PROVE  ComparesAsIntegers
<1>1. SUFFICES ASSUME NEW x \in Regs, NEW y \in Regs
               PROVE  /\ cmp_mpi(reg[x], reg[y]) = Signum(Value(reg[x]) - Value(reg[y]))
                      /\ cmp_abs(reg[x], reg[y]) =
                           Signum(Abs(Value(reg[x])) - Abs(Value(reg[y])))
  BY DEF ComparesAsIntegers
<1> DEFINE X == reg[x]  Y == reg[y]
           w == Value(X)  z == Value(Y)  m == Magnitude(X.p)  o == Magnitude(Y.p)
<1>2. X \in Mpis /\ Y \in Mpis
  BY DEF RegistersOK
<1> HIDE DEF X, Y
<1>3. cmp_mpi(X, Y) = IF w > z THEN 1 ELSE IF w < z THEN -1 ELSE 0
  BY <1>2, CmpMpi
<1>4. cmp_abs(X, Y) = IF m > o THEN 1 ELSE IF m < o THEN -1 ELSE 0
  <2>1. X.p \in Seq(Limbs) /\ Y.p \in Seq(Limbs)
    BY <1>2, MpiIs
  <2> QED BY <2>1, CmpAbs
<1>5. w \in Int /\ z \in Int /\ m \in Int /\ o \in Int /\ Abs(w) = m /\ Abs(z) = o
  BY <1>2, AbsIsSize
<1> HIDE DEF w, z, m, o
<1>6. \A p, q \in Int : Signum(p - q) = IF p > q THEN 1 ELSE IF p < q THEN -1 ELSE 0
  BY DEF Signum
<1>7. cmp_mpi(X, Y) = Signum(w - z)
  BY <1>3, <1>5, <1>6
<1>8. cmp_abs(X, Y) = Signum(Abs(w) - Abs(z))
  BY <1>4, <1>5, <1>6
<1> QED BY <1>7, <1>8 DEF X, Y, w, z

(***************************************************************************)
(* After every sequence of calls, mpi_cmp_mpi and mpi_cmp_abs order any    *)
(* two mpis as their integers are ordered, whatever limbs earlier values   *)
(* left allocated and also for a zero with a minus sign                    *)
(* (bignum.c:782-840, 1172).                                               *)
(***************************************************************************)
THEOREM RegistersCompare == Spec => []ComparesAsIntegers
BY RegistersInvariant, Comparing, PTL

(* What is written is read. *)

LEMMA Reading ==
  ASSUME RegistersOK
  PROVE  WrittenIsRead
<1>1. SUFFICES ASSUME NEW x \in Regs, NEW y \in Regs,
                      NEW buflen \in 0..(MaxLimbs[x] * ciL + 1)
               PROVE  IF write_binary_fits(reg[x], buflen)
                      THEN Value(read_binary(reg[y], write_binary(reg[x], buflen)))
                             = Abs(Value(reg[x]))
                      ELSE TwoTo[CharBits * buflen] <= Abs(Value(reg[x]))
  BY DEF WrittenIsRead
<1>2. reg[x] \in Mpis /\ reg[y] \in Mpis /\ buflen \in Nat
  BY DEF RegistersOK
<1>3. Abs(Value(reg[x])) = Magnitude(reg[x].p)
  BY <1>2, AbsIsSize
<1> QED BY <1>2, <1>3, WrittenRead

(* Arithmetic. *)

LEMMA Adding ==
  ASSUME RegistersOK
  PROVE  AddsIntegers
<1>1. SUFFICES ASSUME NEW x \in Regs, NEW a \in Regs, NEW b \in Regs
               PROVE  LET w == Value(reg[a])
                          z == Value(reg[b])
                      IN /\ Distinct(x, a, b) =>
                              /\ Value(add_abs(reg, x, a, b)) = Abs(w) + Abs(z)
                              /\ Value(add_mpi(reg, x, a, b)) = w + z
                              /\ Value(sub_mpi(reg, x, a, b)) = w - z
                         /\ Abs(w) >= Abs(z) =>
                              Value(sub_abs(reg, x, a, b)) = Abs(w) - Abs(z)
  BY DEF AddsIntegers
<1> DEFINE w == Value(reg[a])  z == Value(reg[b])
           m == Magnitude(reg[a].p)  o == Magnitude(reg[b].p)
<1>2. reg \in [Regs -> Mpis] /\ reg[a] \in Mpis /\ reg[b] \in Mpis
  BY DEF RegistersOK
<1>3. Abs(w) = m /\ Abs(z) = o /\ m \in Nat /\ o \in Nat
  BY <1>2, AbsIsSize
<1>4. ASSUME Distinct(x, a, b)
      PROVE  /\ Value(add_abs(reg, x, a, b)) = Abs(w) + Abs(z)
             /\ Value(add_mpi(reg, x, a, b)) = w + z
             /\ Value(sub_mpi(reg, x, a, b)) = w - z
  <2>1. x # a \/ x # b
    BY <1>4 DEF Distinct
  <2>2. Value(add_mpi(reg, x, a, b)) = w + z /\ Value(sub_mpi(reg, x, a, b)) = w - z
    BY <1>2, <2>1, AddMpiIs
  <2>3. Magnitude(add_abs(reg, x, a, b).p) = m + o
    BY <1>2, <2>1, AddAbsIs
  <2>4. add_abs(reg, x, a, b).s = 1
    BY DEF add_abs, add_to
  <2> DEFINE X == add_abs(reg, x, a, b)
  <2> HIDE DEF X, m, o, w, z
  <2>5. Value(X) = m + o
    <3>1. Magnitude(X.p) = m + o /\ X.s = 1
      BY <2>3, <2>4 DEF X, m, o
    <3> QED BY <1>3, <3>1 DEF Value
  <2> QED BY <1>3, <2>2, <2>5 DEF X, w, z
<1>5. ASSUME Abs(w) >= Abs(z)
      PROVE  Value(sub_abs(reg, x, a, b)) = Abs(w) - Abs(z)
  <2> DEFINE X == sub_abs(reg, x, a, b)
  <2>1. m >= o
    BY <1>3, <1>5
  <2>2. X.s = 1 /\ Magnitude(X.p) = m - o
    BY <1>2, <2>1, SubAbsIs
  <2> HIDE DEF X, m, o, w, z
  <2>3. Value(X) = m - o
    BY <1>3, <2>2 DEF Value
  <2> QED BY <1>3, <2>3 DEF X
<1> QED BY <1>4, <1>5

LEMMA Multiplying ==
  ASSUME RegistersOK
  PROVE  MultipliesIntegers
<1>1. ASSUME NEW x \in Regs, NEW a \in Regs, NEW b \in Regs
      PROVE  Value(mul_mpi(reg, x, a, b)) = Value(reg[a]) * Value(reg[b])
  BY <1>1, ProductIs DEF RegistersOK, mul_mpi
<1>2. ASSUME NEW x \in Regs, NEW a \in Regs, NEW z \in Digits, z >= 0
      PROVE  Value(mul_int(reg, x, a, z)) = Value(reg[a]) * z
  <2>1. z \in Limbs /\ reg[x] \in Mpis /\ reg[a] \in Mpis
    BY <1>2, DigitsFit DEF RegistersOK
  <2> QED BY <2>1, MulIntIs DEF mul_int
<1> QED BY <1>1, <1>2 DEF MultipliesIntegers

LEMMA Shifting ==
  ASSUME RegistersOK
  PROVE  ShiftsIntegers
<1>1. SUFFICES ASSUME NEW x \in Regs, NEW count \in Counts
      PROVE  /\ Value(shift_l(reg[x], count)) = Value(reg[x]) * TwoTo[count]
             /\ Abs(Value(shift_r(reg[x], count)))
                  = Abs(Value(reg[x])) \div TwoTo[count]
  BY DEF ShiftsIntegers
<1>2. reg[x] \in Mpis /\ count \in Nat
  BY CountsAssumption DEF RegistersOK
<1>3. shift_r(reg[x], count) \in Mpis
  BY <1>2, ShiftRightIs
<1>4. /\ Abs(Value(reg[x])) = Magnitude(reg[x].p)
      /\ Abs(Value(shift_r(reg[x], count))) = Magnitude(shift_r(reg[x], count).p)
  BY <1>2, <1>3, AbsIsSize
<1> QED BY <1>2, <1>4, ShiftLeftIs, ShiftRightIs

LEMMA Choosing ==
  ASSUME RegistersOK
  PROVE  ChoosesIntegers
<1>1. ASSUME NEW x \in Regs, NEW l \in 0..3
      PROVE  Value(shrink(reg[x], l)) = Value(reg[x])
  BY <1>1, ShrinkIs DEF RegistersOK
<1>2. ASSUME NEW x \in Regs, NEW pos \in Counts, NEW val \in {0, 1}
      PROVE  LET m == Abs(Value(reg[x]))
             IN /\ get_bit(reg[x], pos) = (m \div TwoTo[pos]) % 2
                /\ Abs(Value(set_bit(reg[x], pos, val))) =
                     m + (val - get_bit(reg[x], pos)) * TwoTo[pos]
  <2>1. reg[x] \in Mpis /\ pos \in Nat /\ val \in 0..2 /\ val # 2
    BY CountsAssumption DEF RegistersOK
  <2>2. /\ set_bit(reg[x], pos, val) \in Mpis
        /\ Magnitude(set_bit(reg[x], pos, val).p) =
             Magnitude(reg[x].p) + (val - get_bit(reg[x], pos)) * TwoTo[pos]
    BY <2>1, SetBitIs
  <2>3. /\ Abs(Value(reg[x])) = Magnitude(reg[x].p)
        /\ Abs(Value(set_bit(reg[x], pos, val)))
             = Magnitude(set_bit(reg[x], pos, val).p)
    BY <2>1, <2>2, AbsIsSize
  <2>4. get_bit(reg[x], pos) = (Magnitude(reg[x].p) \div TwoTo[pos]) % 2
    BY <2>1, GetBitIs
  <2> QED BY <2>2, <2>3, <2>4
<1>3. ASSUME NEW x \in Regs, Abs(Value(reg[x])) # 0
      PROVE  LET m == Abs(Value(reg[x]))
             IN m % TwoTo[lsb(reg[x])] = 0 /\ (m \div TwoTo[lsb(reg[x])]) % 2 = 1
  <2>1. reg[x] \in Mpis
    BY DEF RegistersOK
  <2>2. Abs(Value(reg[x])) = Magnitude(reg[x].p)
    BY <2>1, AbsIsSize
  <2> QED BY <1>3, <2>1, <2>2, LsbIs
<1>4. ASSUME NEW x \in Regs, NEW y \in Regs, NEW char \in Chars
      PROVE  LET swapped == safe_cond_swap(reg[x], reg[y], char)
                 chosen == IF char = 0 THEN <<x, y>> ELSE <<y, x>>
             IN /\ Value(safe_cond_assign(reg[x], reg[y], char)) = Value(reg[chosen[1]])
                /\ \A l \in 1..2 : Value(swapped[l]) = Value(reg[chosen[l]])
  <2> DEFINE swapped == safe_cond_swap(reg[x], reg[y], char)
             chosen == IF char = 0 THEN <<x, y>> ELSE <<y, x>>
  <2>1. reg[x] \in Mpis /\ reg[y] \in Mpis /\ char \in 0..(TwoTo[CharBits] - 1)
    BY CharsAreSmall DEF RegistersOK
  <2>2. /\ chosen[1] = IF char = 0 THEN x ELSE y
        /\ chosen[2] = IF char = 0 THEN y ELSE x
    OBVIOUS
  <2> HIDE DEF chosen
  <2>3. Value(safe_cond_assign(reg[x], reg[y], char)) = Value(reg[chosen[1]])
    <3>1. Value(safe_cond_assign(reg[x], reg[y], char)) =
            IF char = 0 THEN Value(reg[x]) ELSE Value(reg[y])
      BY <2>1, CondAssignIs, ZenonT(30)
    <3> QED BY <2>2, <3>1
  <2>4. /\ Value(swapped[1]) = IF char = 0 THEN Value(reg[x]) ELSE Value(reg[y])
        /\ Value(swapped[2]) = IF char = 0 THEN Value(reg[y]) ELSE Value(reg[x])
    BY <2>1, CondSwapIs
  <2> HIDE DEF swapped
  <2>5. \A l \in 1..2 : Value(swapped[l]) = Value(reg[chosen[l]])
    <3>1. /\ Value(swapped[1]) = Value(reg[chosen[1]])
          /\ Value(swapped[2]) = Value(reg[chosen[2]])
      BY <2>2, <2>4
    <3>2. \A l \in 1..2 : l = 1 \/ l = 2
      OBVIOUS
    <3> QED BY <3>1, <3>2
  <2> QED BY <2>3, <2>5 DEF swapped, chosen
<1> QED BY <1>1, <1>2, <1>3, <1>4 DEF ChoosesIntegers

(***************************************************************************)
(* Sums, differences, products, shifts, single bits and choices without a  *)
(* branch are those of the integers for every size of limbs, every number  *)
(* of them and whichever operands are the same mpi (bignum.c:135-350,      *)
(* 689-1195).                                                              *)
(***************************************************************************)
THEOREM RegistersCompute == Spec => []ComputesIntegers
<1>1. RegistersOK => ComputesIntegers
  BY Adding, Multiplying, Shifting, Choosing DEF ComputesIntegers
<1> QED BY <1>1, RegistersInvariant, PTL

(***************************************************************************)
(* mpi_write_binary writes every mpi into every buffer that its size fits  *)
(* so that mpi_read_binary reads the same integer back, and refuses only a *)
(* buffer that the integer does not fit (bignum.c:646-684).                *)
(***************************************************************************)
THEOREM ReadsWhatItWrote == Spec => []WrittenIsRead
BY RegistersInvariant, Reading, PTL
----------------------------------------------------------------------------
(* The division of mpi_mod_mpi. *)

DivisionTypeOK ==
  /\ A \in Mpis /\ B \in Mpis /\ B.s = 1 /\ Magnitude(B.p) # 0
  /\ v \in [Locals -> Mpis] /\ R \in Mpis
  /\ k \in Nat /\ n \in Nat /\ t \in Nat /\ i \in Nat
  /\ pc \in {"start", "top", "estimate", "lower", "reduce", "done"}

\* How the shift and the limbs fit the operands.
Shaped ==
  /\ t <= n /\ Places[t] <= Divisor /\ Divisor < Places[t + 1]
  /\ Places[t + 1] <= 4 * Divisor
  /\ Magnitude(A.p) * TwoTo[k] < Places[n + 1]
  /\ Len(v["X"].p) > n /\ Len(v["Z"].p) > n - t
  /\ Len(v["T1"].p) >= 2 /\ Len(v["T2"].p) >= 3

\* The l lowest digits are still to come, and those there are make the division
\* come out right, if z is taken from them.
Open(l) == \A j \in 1..l : Limb(v["Z"].p, j) = 0
Splits(z) ==
  Magnitude(A.p) * TwoTo[k] = (Magnitude(v["Z"].p) - z) * Divisor + Value(v["X"])

AtTop ==
  /\ Value(v["X"]) >= 0 /\ Value(v["Y"]) = Divisor * Places[n - t]
  /\ Open(n - t) /\ Splits(0)

\* What is left of X.
Left ==
  /\ t <= i /\ i <= n /\ Value(v["Y"]) = Divisor
  /\ Value(v["X"]) >= 0 /\ Value(v["X"]) < Divisor * Places[i - t]

Tried ==
  /\ i > t /\ Open(Place) /\ Splits(At("Z", Place) * Places[Place])
  /\ TriedDigitIsClose

DivisionInv ==
  /\ DivisionTypeOK
  /\ pc \in {"top", "estimate", "lower"} => Shaped
  /\ pc = "top" => AtTop
  /\ pc \in {"estimate", "lower"} => Left
  /\ pc = "estimate" => Open(i - t) /\ Splits(0)
  /\ pc = "lower" => Tried
  /\ pc \in {"reduce", "done"} => Congruent(Value(R), Value(A), Magnitude(B.p))
  /\ pc = "done" => Value(R) \in 0..(Magnitude(B.p) - 1)

----------------------------------------------------------------------------
LEMMA OperandFacts ==
  ASSUME DivisionTypeOK
  PROVE  /\ Magnitude(A.p) \in Nat /\ Magnitude(B.p) \in Nat \ {0}
         /\ TwoTo[k] \in Nat \ {0} /\ Divisor \in Nat \ {0}
         /\ Value(B) = Magnitude(B.p) /\ Value(A) \in Int /\ Value(R) \in Int
<1>1. A \in Mpis /\ B \in Mpis /\ R \in Mpis /\ B.s = 1 /\ Magnitude(B.p) # 0 /\ k \in Nat
  BY DEF DivisionTypeOK
<1>2. /\ Magnitude(A.p) \in Nat /\ Magnitude(B.p) \in Nat
      /\ Value(A) \in Int /\ Value(R) \in Int
  BY <1>1, MpiIs
<1>3. TwoTo[k] \in Nat \ {0}
  BY <1>1, TwoToAt
<1> DEFINE x == Magnitude(B.p)  y == TwoTo[k]
<1>4. x * y \in Nat \ {0} /\ 1 * x = x
  <2>1. x \in Nat \ {0} /\ y \in Nat \ {0}
    BY <1>1, <1>2, <1>3
  <2> HIDE DEF x, y
  <2> QED BY <2>1
<1> QED BY <1>1, <1>2, <1>3, <1>4 DEF Divisor, Value

LEMMA LocalFacts ==
  ASSUME DivisionTypeOK, NEW l \in Locals
  PROVE  /\ v[l] \in Mpis /\ v[l].p \in Seq(Limbs) /\ Len(v[l].p) \in Nat
         /\ Magnitude(v[l].p) \in Nat /\ Value(v[l]) \in Int
<1>1. v[l] \in Mpis
  BY DEF DivisionTypeOK
<1> QED BY <1>1, MpiIs

LEMMA LocalNames == /\ "X" \in Locals /\ "Y" \in Locals /\ "Z" \in Locals
                    /\ "T1" \in Locals /\ "T2" \in Locals
BY DEF Locals

\* An mpi that is not negative.
LEMMA Positive ==
  ASSUME NEW X \in Mpis, Value(X) >= 0
  PROVE  Magnitude(X.p) = Value(X)
<1>1. Size(Value(X)) = Magnitude(X.p) /\ Value(X) \in Int
  BY SizeOfValue, MpiIs
<1> QED BY <1>1 DEF Size

LEMMA SignOfPositive ==
  ASSUME NEW X \in Mpis, Value(X) > 0
  PROVE  X.s = 1
<1>1. X.s \in {1, -1} /\ Magnitude(X.p) \in Nat
  BY MpiIs
<1>2. X.s = -1 => Value(X) <= 0
  BY <1>1 DEF Value
<1>3. Value(X) \in Int
  BY MpiIs
<1> QED BY <1>1, <1>2, <1>3

LEMMA CmpInt ==
  ASSUME NEW X \in Mpis
  PROVE  cmp_int(X, 0) = IF Value(X) > 0 THEN 1 ELSE IF Value(X) < 0 THEN -1 ELSE 0
<1> DEFINE q == <<0>>  Y == [s |-> 1, p |-> q]
<1>1. 0 \in Limbs
  BY BaseIsBig, LimbsAreSmall
<1>2. q \in Seq(Limbs) /\ Magnitude(q) = 0
  BY <1>1, OneLimb
<1> HIDE DEF q
<1>3. Y \in Mpis /\ Y.s = 1 /\ Y.p = q
  BY <1>2, MpiOf
<1>4. Value(Y) = 0
  BY <1>2, <1>3 DEF Value
<1>5. cmp_int(X, 0) = cmp_mpi(X, Y)
  BY DEF cmp_int, Y, q
<1> HIDE DEF Y
<1> QED BY <1>3, <1>4, <1>5, CmpMpi

\* The locals f with limb j of l replaced.
LimbAs(f, l, j, w) == [f EXCEPT ![l].p[j + 1] = w]

LEMMA LimbSet ==
  ASSUME NEW f \in [Locals -> Mpis], NEW l \in Locals, NEW j \in Nat,
         j < Len(f[l].p), NEW w \in Limbs, NEW g, g = LimbAs(f, l, j, w)
  PROVE  /\ g \in [Locals -> Mpis]
         /\ \A x \in Locals : x # l => g[x] = f[x]
         /\ g[l].s = f[l].s /\ Len(g[l].p) = Len(f[l].p)
         /\ \A h \in Nat : Limb(g[l].p, h) = IF h = j + 1 THEN w ELSE Limb(f[l].p, h)
         /\ Magnitude(g[l].p) = Magnitude(f[l].p) + (w - Limb(f[l].p, j + 1)) * Places[j]
<1> DEFINE X == f[l]  p == X.p  e == j + 1  q == [p EXCEPT ![e] = w]
           Y == [X EXCEPT !.p = q]
<1>1. X \in Mpis /\ p \in Seq(Limbs) /\ e \in 1..Len(p) /\ p[e] = Limb(p, e)
  <2>1. X \in Mpis
    OBVIOUS
  <2>2. p \in Seq(Limbs) /\ Len(p) \in Nat
    BY <2>1, MpiIs
  <2>3. e \in 1..Len(p)
    BY <2>2
  <2>4. DOMAIN p = 1..Len(p)
    BY <2>2
  <2> QED BY <2>1, <2>2, <2>3, <2>4 DEF Limb
<1>2. g = [f EXCEPT ![l] = Y]
  BY DEF LimbAs
<1> HIDE DEF e, p
<1>3. /\ q \in Seq(Limbs) /\ Len(q) = Len(p)
      /\ \A h \in Nat : Limb(q, h) = IF h = e THEN w ELSE Limb(p, h)
  BY <1>1, LimbReplaced
<1>4. Magnitude(q) = Magnitude(p) + (w - Limb(p, e)) * Places[j]
  <2>1. j < Len(p)
    BY DEF p
  <2>2. Magnitude([p EXCEPT ![j + 1] = w]) = Magnitude(p) + (w - p[j + 1]) * Places[j]
    BY <1>1, <2>1, MagnitudeReplaced
  <2>3. q = [p EXCEPT ![j + 1] = w]
    BY DEF e
  <2> HIDE DEF q
  <2>4. p[j + 1] = Limb(p, e)
    BY <1>1 DEF e
  <2> QED BY <2>2, <2>3, <2>4
<1> HIDE DEF q
<1>5. Y \in Mpis /\ Y.s = X.s /\ Y.p = q
  BY <1>1, <1>3, MpiWithLimbs
<1> HIDE DEF Y, X
<1>6. g \in [Locals -> Mpis] /\ g[l] = Y /\ \A x \in Locals : x # l => g[x] = f[x]
  BY <1>2, <1>5
<1> QED BY <1>3, <1>4, <1>5, <1>6 DEF e, p, X

LEMMA QuotientIs ==
  ASSUME NEW high \in Limbs, NEW low \in Limbs, NEW by \in Limbs, by # 0
  PROVE  LET z == Quotient(high, low, by)
             u == high * Base + low
         IN /\ z \in Limbs /\ u \in Nat /\ z * by <= u
            /\ \A w \in Limbs : w * by <= u => w <= z
<1> DEFINE z == Quotient(high, low, by)  u == high * Base + low  e == u \div by
           c == Base - 1
<1>1. /\ high \in Nat /\ low \in Nat /\ by \in Nat \ {0} /\ Base \in Nat \ {0}
      /\ high < Base /\ low < Base /\ by < Base
  BY LimbsAreSmall, BaseIsBig
<1>2. u \in Nat /\ c \in Nat /\ c \in Limbs
  BY <1>1, LimbsAreSmall
<1>3. \A w \in Limbs : w \in Nat /\ w <= c
  BY <1>1, LimbsAreSmall
<1>4. z = IF high >= by THEN c ELSE Min({e, c})
  BY DEF Quotient
<1>5. CASE high >= by
  <2>1. c * by <= c * high /\ c * high <= high * Base
    <3> HIDE DEF c
    <3>1. c <= Base
      BY <1>1 DEF c
    <3> QED BY <1>1, <1>2, <1>5, <3>1
  <2>2. c * by \in Nat /\ c * high \in Nat /\ high * Base \in Nat
    BY <1>1, <1>2
  <2>3. c * by <= u
    BY <1>1, <2>1, <2>2
  <2> HIDE DEF c, u
  <2> QED BY <1>2, <1>3, <1>4, <1>5, <2>3 DEF c, u
<1>6. CASE ~(high >= by)
  <2> HIDE DEF u, c
  <2>1. e \in Nat /\ e * by <= u
    BY <1>1, <1>2, QuotientBetween
  <2>2. ASSUME NEW w \in Limbs, w * by <= u PROVE w <= e
    <3>1. w \in Int
      BY <1>3
    <3> QED BY <1>1, <1>2, <2>2, <3>1, FitsQuotient
  <2> HIDE DEF e
  <2>3. z = IF e <= c THEN e ELSE c
    BY <1>2, <1>4, <1>6, <2>1, MinOfTwo
  <2> HIDE DEF z
  <2>4. z \in Nat /\ z <= c /\ z <= e
    BY <1>2, <2>1, <2>3
  <2>5. z * by <= e * by /\ z * by \in Nat /\ e * by \in Nat
    BY <1>1, <2>1, <2>4
  <2>6. z \in Limbs
    BY <1>1, <2>4, LimbsAreSmall DEF c
  <2>7. \A w \in Limbs : w * by <= u => w <= z
    BY <1>3, <2>2, <2>3
  <2>8. z * by <= u
    BY <1>2, <2>1, <2>5
  <2> QED BY <1>2, <2>6, <2>7, <2>8 DEF u, z
<1> QED BY <1>5, <1>6

(* The shift that makes the estimate good. *)

LEMMA ShiftIs ==
  ASSUME NEW X \in Mpis
  PROVE  /\ Shift(X) \in Nat /\ Shift(X) < biL
         /\ (msb(X) + Shift(X)) % biL = biL - 1
<1> DEFINE m == msb(X)  b == biL  top == m % b  c == b - 1 - top  q == m \div b
<1>1. m \in Int /\ b \in Nat \ {0}
  BY MsbIs, BaseIsPositive
<1> HIDE DEF m, b
<1>2. top \in 0..(b - 1) /\ q \in Int /\ m = b * q + top
  BY <1>1, QuotientRemainder
<1>3. Shift(X) = IF top < b - 1 THEN c ELSE 0
  BY DEF Shift, m, b
<1> HIDE DEF top, q
<1>4. Shift(X) = c /\ c \in Nat /\ c < b
  BY <1>1, <1>2, <1>3
<1>5. m + c = b * q + (b - 1)
  BY <1>1, <1>2
<1> HIDE DEF c
<1>6. (m + c) % b = b - 1
  <2> DEFINE r == b - 1
  <2>1. r \in 0..(b - 1)
    BY <1>1
  <2> HIDE DEF r
  <2>2. (b * q + r) % b = r
    BY <1>1, <1>2, <2>1, QuotientUnique
  <2> QED BY <1>5, <2>2 DEF r
<1> QED BY <1>4, <1>6 DEF m, b

\* A copy without high zeros and without a sign.
Bare(X) == [copy(Null, X) EXCEPT !.s = 1]

LEMMA BareIs ==
  ASSUME NEW X \in Mpis, Magnitude(X.p) # 0
  PROVE  /\ Bare(X) \in Mpis /\ Bare(X).s = 1
         /\ Magnitude(Bare(X).p) = Magnitude(X.p)
         /\ Len(Bare(X).p) = Used(Bare(X).p) /\ Len(Bare(X).p) \in Nat \ {0}
         /\ Len(Bare(X).p) <= Len(X.p)
         /\ msb(Bare(X)) = msb(copy(Null, X))
<1> DEFINE C == copy(Null, X)  D == Bare(X)  u == Used(X.p)
<1>1. Null \in Mpis /\ Len(Null.p) = 0
  BY NoLimbs
<1>2. u \in Nat \ {0} /\ u <= Len(X.p) /\ X.p \in Seq(Limbs)
  <2>1. X.p \in Seq(Limbs)
    BY MpiIs
  <2>2. u \in 0..Len(X.p) /\ (u = 0 <=> Magnitude(X.p) = 0) /\ Len(X.p) \in Nat
    BY <2>1, UsedIs, MagnitudeOfUsed
  <2> QED BY <2>1, <2>2
<1>3. C \in Mpis /\ Magnitude(C.p) = Magnitude(X.p)
  BY <1>1, CopyIs
<1>4. Len(C.p) = u
  <2>1. Len(C.p) = IF Len(Null.p) >= u THEN Len(Null.p) ELSE u
    BY <1>1, CopyLength
  <2> HIDE DEF u, C
  <2> QED BY <1>1, <1>2, <2>1
<1>5. D \in Mpis /\ D.s = 1 /\ D.p = C.p
  <2>1. D = [C EXCEPT !.s = 1]
    BY DEF Bare
  <2> HIDE DEF C, D
  <2> QED BY <1>3, <2>1, MpiWithSign
<1>6. msb(D) = msb(C)
  <2> HIDE DEF C, D
  <2> QED BY <1>5 DEF msb
<1> HIDE DEF C, D, u
<1>7. Used(D.p) = u
  <2>1. D.p \in Seq(Limbs) /\ X.p \in Seq(Limbs) /\ Magnitude(D.p) = Magnitude(X.p)
    BY <1>2, <1>3, <1>5, MpiIs
  <2>2. ~(Used(D.p) > Used(X.p)) /\ ~(Used(X.p) > Used(D.p))
    <3>1. Magnitude(D.p) \in Nat
      BY <2>1, MagnitudeIsNatural
    <3>2. Used(D.p) > Used(X.p) => Magnitude(D.p) > Magnitude(X.p)
      BY <2>1, LongerIsMore
    <3>3. Used(X.p) > Used(D.p) => Magnitude(X.p) > Magnitude(D.p)
      BY <2>1, LongerIsMore
    <3> QED BY <2>1, <3>1, <3>2, <3>3
  <2>3. Used(D.p) \in Nat /\ Used(X.p) \in Nat
    BY <2>1, UsedIs
  <2> QED BY <2>2, <2>3 DEF u
<1> QED BY <1>2, <1>3, <1>4, <1>5, <1>6, <1>7 DEF C, D

ShiftedFacts(a, b, c, X, Y) ==
  /\ c \in Nat /\ X \in Mpis /\ Y \in Mpis
  /\ Value(X) = Magnitude(a.p) * TwoTo[c] /\ Value(Y) = Magnitude(b.p) * TwoTo[c]
  /\ Len(X.p) \in Nat \ {0} /\ Len(Y.p) \in Nat \ {0}
  /\ Len(Y.p) <= Len(X.p) /\ Len(X.p) <= Len(a.p) + 1
  /\ Places[Len(Y.p) - 1] <= Magnitude(b.p) * TwoTo[c]
  /\ Magnitude(b.p) * TwoTo[c] < Places[Len(Y.p)]
  /\ Places[Len(Y.p)] <= 4 * (Magnitude(b.p) * TwoTo[c])
  /\ Magnitude(a.p) * TwoTo[c] < Places[Len(X.p)]

LEMMA BothShifted ==
  ASSUME NEW a \in Mpis, NEW b \in Mpis, Magnitude(b.p) # 0,
         Magnitude(a.p) >= Magnitude(b.p), NEW c, c = Shift(copy(Null, b))
  PROVE  ShiftedFacts(a, b, c, shift_l(Bare(a), c), shift_l(Bare(b), c))
<1> DEFINE X == shift_l(Bare(a), c)  Y == shift_l(Bare(b), c)
           x == Magnitude(a.p)  y == Magnitude(b.p)  w == TwoTo[c]
           L == Len(Y.p)  M == Len(X.p)  h == L - 1
<1>1. x \in Nat \ {0} /\ y \in Nat \ {0} /\ Len(a.p) \in Nat
  <2>1. x \in Nat /\ y \in Nat /\ Len(a.p) \in Nat
    BY MpiIs
  <2> HIDE DEF x, y
  <2> QED BY <2>1 DEF x, y
<1>2. /\ Bare(a) \in Mpis /\ Bare(a).s = 1 /\ Magnitude(Bare(a).p) = x
      /\ Len(Bare(a).p) \in Nat \ {0} /\ Len(Bare(a).p) <= Len(a.p)
  BY <1>1, BareIs
<1>3. /\ Bare(b) \in Mpis /\ Bare(b).s = 1 /\ Magnitude(Bare(b).p) = y
      /\ Len(Bare(b).p) = Used(Bare(b).p) /\ msb(Bare(b)) = msb(copy(Null, b))
  BY <1>1, BareIs
<1>4. c \in Nat /\ c < biL /\ (msb(Bare(b)) + c) % biL = biL - 1
  <2>1. copy(Null, b) \in Mpis
    BY NoLimbs, CopyIs
  <2> QED BY <1>3, <2>1, ShiftIs
<1>5. /\ X \in Mpis /\ Value(X) = Value(Bare(a)) * w /\ Y \in Mpis
      /\ Value(Y) = Value(Bare(b)) * w
  BY <1>2, <1>3, <1>4, ShiftLeftIs
<1>6. w \in Nat \ {0}
  BY <1>4, TwoToAt
<1>7. Value(Bare(a)) = x /\ Value(Bare(b)) = y
  BY <1>1, <1>2, <1>3 DEF Value
<1> DEFINE D == y * w  E == x * w
<1>8. /\ L \in Nat \ {0} /\ D \in Nat \ {0}
      /\ Places[h] <= D /\ D < Places[L] /\ Places[L] <= 4 * D
  <2>1. Magnitude(Bare(b).p) # 0
    BY <1>1, <1>3
  <2> QED BY <1>3, <1>4, <2>1, NormalisedIs
<1>9. M \in Nat /\ M <= Len(a.p) + 1
  <2>1. M <= Len(Bare(a).p) + 1 /\ M \in Nat
    BY <1>2, <1>4, ShiftedRoom, ShiftLength
  <2> HIDE DEF M
  <2> QED BY <1>1, <1>2, <2>1
<1>10. E < Places[M] /\ E \in Nat
  <2>1. Value(X) = E /\ E \in Nat
    BY <1>1, <1>5, <1>6, <1>7
  <2>2. X.p \in Seq(Limbs)
    BY <1>5, MpiIs
  <2> HIDE DEF X, E
  <2>3. Magnitude(X.p) = E
    <3>1. Size(Value(X)) = Magnitude(X.p)
      BY <1>5, SizeOfValue
    <3> QED BY <2>1, <3>1 DEF Size
  <2>4. M <= Len(X.p)
    BY <1>9 DEF M, X
  <2>5. Magnitude(X.p) < Places[M]
    <3> DEFINE f == X.p
    <3> HIDE DEF f
    <3>1. f \in Seq(Limbs) /\ M \in Nat /\ M >= Len(f)
      BY <1>9, <2>2 DEF f, M, X
    <3>2. Magnitude(f) < Places[M]
      BY <3>1, MagnitudeIs
    <3> QED BY <3>2 DEF f
  <2> QED BY <2>1, <2>3, <2>5
<1> HIDE DEF L, M, X, Y
<1>11. h \in Nat /\ Places[h] \in Nat /\ Places[M] \in Nat
  <2>1. h \in Nat
    BY <1>8
  <2> HIDE DEF h
  <2> QED BY <1>9, <2>1, PlacesAre
<1>12. D <= E
  <2> HIDE DEF x, y, w
  <2>1. x \in Nat /\ y \in Nat /\ w \in Nat /\ y <= x
    BY <1>1, <1>6 DEF x, y
  <2> QED BY <2>1
<1>13. L <= M
  <2> SUFFICES ASSUME M <= h PROVE FALSE
    BY <1>8, <1>9
  <2> HIDE DEF h, D, E
  <2>1. Places[M] <= Places[h]
    BY <1>9, <1>11, PlacesGrow
  <2> QED BY <1>8, <1>10, <1>11, <1>12, <2>1
<1>14. M # 0
  BY <1>8, <1>9, <1>13
<1>15. Value(X) = E /\ Value(Y) = D
  BY <1>5, <1>7
<1> QED BY <1>4, <1>5, <1>8, <1>9, <1>10, <1>13, <1>14, <1>15
        DEF ShiftedFacts, L, M, X, Y

(* Every step of the division keeps the invariant. *)

LEMMA DivisionStarts == DivisionInit => DivisionInv
<1> SUFFICES ASSUME DivisionInit PROVE DivisionInv
  OBVIOUS
<1>1. /\ A \in Mpis /\ B \in Mpis /\ B.s = 1 /\ Magnitude(B.p) # 0
  BY DivisorsAssumption DEF DivisionInit, DivisorsAssumption
<1>2. pc = "start" /\ R \in Mpis /\ v \in [Locals -> Mpis]
  BY NoLimbs DEF DivisionInit
<1>3. k \in Nat /\ n \in Nat /\ t \in Nat /\ i \in Nat
  BY DEF DivisionInit
<1> QED BY <1>1, <1>2, <1>3 DEF DivisionInv, DivisionTypeOK

LEMMA SmallStep == DivisionInv /\ Small => DivisionInv'
<1> SUFFICES ASSUME DivisionInv, Small PROVE DivisionInv'
  OBVIOUS
<1>1. DivisionTypeOK
  BY DEF DivisionInv
<1>2. pc' = "reduce" /\ R' = copy(R, A) /\ UNCHANGED <<A, B, v, k, n, t, i>>
  BY DEF Small, inputs
<1>3. A \in Mpis /\ R \in Mpis
  BY <1>1 DEF DivisionTypeOK
<1>4. R' \in Mpis /\ Value(R') = Value(A)
  BY <1>2, <1>3, CopyIs
<1>5. DivisionTypeOK'
  BY <1>1, <1>2, <1>4 DEF DivisionTypeOK
<1>6. Congruent(Value(R'), Value(A), Magnitude(B.p))
  <2>1. Value(A) \in Int /\ Magnitude(B.p) \in Nat \ {0}
    BY <1>1, OperandFacts
  <2> QED BY <1>4, <2>1, CongruentTo
<1> QED BY <1>2, <1>5, <1>6 DEF DivisionInv

LEMMA NormaliseStep == DivisionInv /\ Normalise => DivisionInv'
<1> SUFFICES ASSUME DivisionInv, Normalise PROVE DivisionInv'
  OBVIOUS
<1> DEFINE c == Shift(copy(Null, B))
           X == shift_l(Bare(A), c)
           Y == shift_l(Bare(B), c)
           e == Len(X.p) - Len(Y.p)
           Z == Prepared(Null, Len(A.p) + 2)
           T1 == grow(Null, 2)
           T2 == grow(Null, 3)
           Y2 == shift_l(Y, biL * e)
           D == Magnitude(B.p) * TwoTo[c]
           E == Magnitude(A.p) * TwoTo[c]
<1>1. DivisionTypeOK
  BY DEF DivisionInv
<1>2. /\ pc' = "top" /\ UNCHANGED <<A, B, i, R>>
      /\ k' = c /\ n' = Len(X.p) - 1 /\ t' = Len(Y.p) - 1
      /\ v' = [X |-> X, Y |-> Y2, Z |-> Z, T1 |-> T1, T2 |-> T2]
      /\ cmp_abs(A, B) >= 0
  BY DEF Normalise, inputs, Bare
<1>3. /\ A \in Mpis /\ B \in Mpis /\ Magnitude(A.p) \in Nat
      /\ Magnitude(B.p) \in Nat \ {0} /\ Len(A.p) \in Nat
      /\ A.p \in Seq(Limbs) /\ B.p \in Seq(Limbs)
  <2>1. A \in Mpis /\ B \in Mpis
    BY <1>1 DEF DivisionTypeOK
  <2> QED BY <1>1, <2>1, OperandFacts, MpiIs
<1>4. Magnitude(A.p) >= Magnitude(B.p)
  <2>1. cmp_abs(A, B) = IF Magnitude(A.p) > Magnitude(B.p) THEN 1
                         ELSE IF Magnitude(A.p) < Magnitude(B.p) THEN -1 ELSE 0
    BY <1>3, CmpAbs
  <2> QED BY <1>2, <1>3, <2>1
<1>5. ShiftedFacts(A, B, c, X, Y)
  BY <1>3, <1>4, BothShifted
<1> HIDE DEF X, Y, c
<1>6. /\ c \in Nat /\ X \in Mpis /\ Y \in Mpis /\ Value(X) = E /\ Value(Y) = D
      /\ Len(X.p) \in Nat \ {0} /\ Len(Y.p) \in Nat \ {0}
      /\ Len(Y.p) <= Len(X.p) /\ Len(X.p) <= Len(A.p) + 1
      /\ Places[Len(Y.p) - 1] <= D /\ D < Places[Len(Y.p)]
      /\ Places[Len(Y.p)] <= 4 * D /\ E < Places[Len(X.p)]
  BY <1>5 DEF ShiftedFacts
<1>7. /\ n' \in Nat /\ t' \in Nat /\ t' <= n' /\ n' - t' = e /\ e \in Nat
      /\ n' + 1 = Len(X.p) /\ t' + 1 = Len(Y.p)
  BY <1>2, <1>6
<1>8. Y2 \in Mpis /\ Value(Y2) = D * Places[e]
  <2> HIDE DEF e
  <2>1. biL * e \in Nat /\ biL * e = e * biL
    BY <1>7, BaseIsPositive
  <2>2. Places[e] = TwoTo[e * biL]
    BY <1>7, PlacesAreTwos
  <2>3. Y2 \in Mpis /\ Value(Y2) = Value(Y) * TwoTo[biL * e]
    <3> DEFINE b == biL * e
    <3>1. b \in Nat /\ Y \in Mpis
      BY <1>6, <2>1
    <3> HIDE DEF b
    <3>2. shift_l(Y, b) \in Mpis /\ Value(shift_l(Y, b)) = Value(Y) * TwoTo[b]
      BY <3>1, ShiftLeftIs
    <3> QED BY <3>2 DEF b
  <2> QED BY <1>6, <2>1, <2>2, <2>3
<1>9. /\ Z \in Mpis /\ Magnitude(Z.p) = 0 /\ Len(Z.p) \in Nat /\ Len(Z.p) >= Len(A.p) + 2
      /\ \A j \in Nat : Limb(Z.p, j) = 0
  <2> DEFINE b == Len(A.p) + 2
  <2>1. b \in Nat /\ Null \in Mpis
    BY <1>3, NoLimbs
  <2> HIDE DEF b
  <2>2. /\ Prepared(Null, b) \in Mpis /\ Magnitude(Prepared(Null, b).p) = 0
        /\ Len(Prepared(Null, b).p) \in Nat /\ Len(Prepared(Null, b).p) >= b
        /\ \A j \in Nat : Limb(Prepared(Null, b).p, j) = 0
    BY <2>1, PreparedIs
  <2> QED BY <2>2 DEF b
<1>10. /\ T1 \in Mpis /\ T2 \in Mpis /\ Len(T1.p) >= 2 /\ Len(T2.p) >= 3
  BY NoLimbs, GrowIs
<1> HIDE DEF Z, T1, T2, Y2, e
<1>11. /\ v' \in [Locals -> Mpis] /\ v'["X"] = X /\ v'["Y"] = Y2 /\ v'["Z"] = Z
       /\ v'["T1"] = T1 /\ v'["T2"] = T2
  BY <1>2, <1>6, <1>8, <1>9, <1>10 DEF Locals
<1>12. DivisionTypeOK'
  BY <1>1, <1>2, <1>6, <1>7, <1>11 DEF DivisionTypeOK
<1>13. Divisor' = D /\ (Magnitude(A.p) * TwoTo[k])' = E
  BY <1>2 DEF Divisor
<1>14. D \in Nat /\ E \in Nat
  <2>1. TwoTo[c] \in Nat
    BY <1>6, TwoToAt
  <2> DEFINE w == TwoTo[c]  x == Magnitude(A.p)  y == Magnitude(B.p)
  <2> HIDE DEF w, x, y
  <2>2. w \in Nat /\ x \in Nat /\ y \in Nat
    BY <1>3, <2>1 DEF w, x, y
  <2>3. y * w \in Nat /\ x * w \in Nat
    BY <2>2
  <2> QED BY <2>3 DEF x, y, w
<1> HIDE DEF D, E
<1>15. Shaped'
  <2>1. /\ (t <= n)' /\ (Places[t] <= Divisor)' /\ (Divisor < Places[t + 1])'
        /\ (Places[t + 1] <= 4 * Divisor)'
    BY <1>2, <1>6, <1>7, <1>13
  <2>2. (Magnitude(A.p) * TwoTo[k] < Places[n + 1])'
    BY <1>6, <1>7, <1>13
  <2>3. /\ (Len(v["X"].p) > n)' /\ (Len(v["Z"].p) > n - t)'
        /\ (Len(v["T1"].p) >= 2)' /\ (Len(v["T2"].p) >= 3)'
    <3>1. Len(X.p) > n' /\ Len(Z.p) > n' - t'
      BY <1>3, <1>6, <1>7, <1>9, SMTT(30)
    <3> QED BY <1>10, <1>11, <3>1
  <2> QED BY <2>1, <2>2, <2>3 DEF Shaped
<1>16. AtTop'
  <2>1. (Value(v["X"]) >= 0)'
    BY <1>6, <1>11, <1>14
  <2>2. (Value(v["Y"]) = Divisor * Places[n - t])'
    BY <1>7, <1>8, <1>11, <1>13
  <2>3. Open(n - t)'
    BY <1>7, <1>9, <1>11 DEF Open
  <2>4. Splits(0)'
    <3>1. E = (0 - 0) * D + E
      BY <1>14
    <3> QED BY <1>6, <1>9, <1>11, <1>13, <3>1 DEF Splits
  <2> QED BY <2>1, <2>2, <2>3, <2>4 DEF AtTop
<1> QED BY <1>2, <1>12, <1>15, <1>16 DEF DivisionInv

LEMMA ShapeStays ==
  ASSUME Shaped, UNCHANGED <<A, B, k, n, t>>, DivisionTypeOK, DivisionTypeOK',
         \A l \in {"X", "Z"} : Len(v[l].p)' >= Len(v[l].p),
         Len(v["T1"].p)' >= 2, Len(v["T2"].p)' >= 3
  PROVE  Shaped' /\ Divisor' = Divisor
<1>1. Divisor' = Divisor
  BY DEF Divisor
<1>2. /\ Len(v["X"].p)' >= Len(v["X"].p) /\ Len(v["Z"].p)' >= Len(v["Z"].p)
      /\ Len(v["X"].p) > n /\ Len(v["Z"].p) > n - t
  BY DEF Shaped
<1>3. /\ v["X"] \in Mpis /\ v["Z"] \in Mpis /\ v'["X"] \in Mpis /\ v'["Z"] \in Mpis
      /\ n \in Nat /\ t \in Nat
  BY LocalNames DEF DivisionTypeOK
<1>4. /\ Len(v["X"].p) \in Nat /\ Len(v["Z"].p) \in Nat
      /\ Len(v'["X"].p) \in Nat /\ Len(v'["Z"].p) \in Nat
  BY <1>3, MpiIs
<1>5. Len(v["X"].p)' > n /\ Len(v["Z"].p)' > n - t
  BY <1>2, <1>3, <1>4, SMTT(30)
<1> QED BY <1>1, <1>5 DEF Shaped

LEMMA ShapeFacts ==
  ASSUME DivisionTypeOK, Shaped
  PROVE  /\ n - t \in Nat /\ Places[t] \in Nat \ {0} /\ Places[t + 1] = Base * Places[t]
         /\ Places[n - t] \in Nat \ {0} /\ Places[n + 1] = Places[t + 1] * Places[n - t]
<1> DEFINE e == n - t  f == t + 1
<1>1. n \in Nat /\ t \in Nat /\ t <= n
  BY DEF DivisionTypeOK, Shaped
<1>2. e \in Nat /\ f \in Nat /\ f + e = n + 1
  BY <1>1
<1> HIDE DEF e, f
<1>3. Places[f + e] = Places[f] * Places[e] /\ Places[e] \in Nat \ {0}
  BY <1>2, PlacesMultiply, PlacesAre
<1>4. Places[t] \in Nat \ {0} /\ Places[t + 1] = Base * Places[t]
  BY <1>1, PlacesAre
<1> QED BY <1>2, <1>3, <1>4 DEF e, f

\* The highest digit is a digit.
LEMMA TopFits ==
  ASSUME NEW a \in Nat, NEW m \in Nat, NEW D \in Nat \ {0}, NEW P \in Nat \ {0},
         NEW x \in Nat, NEW z \in Nat, NEW S \in Nat, NEW b \in Nat,
         a = m * D + x, z * P <= m, x >= D * P, a < (b * S) * P, S <= D
  PROVE  z + 1 < b
<1> DEFINE E == D * P  f == z * P  g == b * S  h == b * D
<1>1. E \in Nat \ {0} /\ f \in Nat /\ g \in Nat /\ h \in Nat
  OBVIOUS
<1>2. (z + 1) * E = f * D + E /\ h * P = b * E
  OBVIOUS
<1>3. f * D <= m * D /\ f * D \in Nat /\ m * D \in Nat
  <2> HIDE DEF f
  <2> QED BY <1>1 DEF f
<1>4. g * P <= h * P /\ g * P \in Nat /\ h * P \in Nat
  <2>1. g <= h
    OBVIOUS
  <2> HIDE DEF g, h
  <2> QED BY <1>1, <2>1
<1>5. (z + 1) * E < b * E
  <2> HIDE DEF E, g, h, f
  <2>1. (z + 1) * E \in Nat /\ b * E \in Nat
    BY <1>1
  <2> QED BY <1>1, <1>2, <1>3, <1>4, <2>1 DEF E, g
<1>6. z + 1 >= b => (z + 1) * E >= b * E
  <2> HIDE DEF E
  <2> QED BY <1>1
<1>7. (z + 1) * E \in Nat /\ b * E \in Nat
  <2> HIDE DEF E
  <2> QED BY <1>1
<1> QED BY <1>5, <1>6, <1>7

LEMMA TopDigitStep == DivisionInv /\ TopDigit => DivisionInv'
<1> SUFFICES ASSUME DivisionInv, TopDigit PROVE DivisionInv'
  OBVIOUS
<1> DEFINE e == n - t  P == Places[e]  D == Divisor  X == v["X"]  Y == v["Y"]  Z == v["Z"]
           x == Value(X)  m == Magnitude(Z.p)  z == At("Z", e)
           a == Magnitude(A.p) * TwoTo[k]
           w == (z + 1) % Base
           f == With("Z", e, w)
           X2 == sub_mpi(v, "X", "X", "Y")
<1>1. DivisionTypeOK /\ Shaped /\ AtTop
  BY DEF DivisionInv, TopDigit
<1>2. /\ pc = "top" /\ cmp_mpi(X, Y) >= 0 /\ UNCHANGED <<pc, A, B, k, n, t, i, R>>
      /\ v' = [f EXCEPT !["X"] = X2]
  BY DEF TopDigit, inputs
<1>3. /\ X \in Mpis /\ Y \in Mpis /\ Z \in Mpis /\ Z.p \in Seq(Limbs)
      /\ v \in [Locals -> Mpis] /\ x \in Int /\ m \in Nat
      /\ Value(Y) \in Int /\ Len(Z.p) \in Nat
  <2>1. v \in [Locals -> Mpis]
    BY <1>1 DEF DivisionTypeOK
  <2> QED BY <1>1, <2>1, LocalNames, LocalFacts
<1>4. /\ e \in Nat /\ P \in Nat \ {0} /\ Places[t] \in Nat /\ Places[t] <= D
      /\ Places[n + 1] = (Base * Places[t]) * P
      /\ a < Places[n + 1] /\ e < Len(Z.p) /\ D \in Nat \ {0} /\ a \in Nat
  <2>1. a \in Nat
    <3>1. Magnitude(A.p) \in Nat /\ TwoTo[k] \in Nat
      BY <1>1, OperandFacts
    <3> QED BY <3>1
  <2> QED BY <1>1, <2>1, ShapeFacts, OperandFacts DEF Shaped
<1>5. x >= 0 /\ Value(Y) = D * P /\ a = (m - 0) * D + x
  BY <1>1 DEF AtTop, Splits
<1> HIDE DEF e
<1>6. \A j \in 1..e : Limb(Z.p, j) = 0
  BY <1>1 DEF AtTop, Open, e
<1>7. z = Limb(Z.p, e + 1) /\ z \in Limbs /\ z \in Nat /\ z * P <= m
  <2>1. e + 1 \in DOMAIN Z.p
    BY <1>3, <1>4
  <2>2. z = Limb(Z.p, e + 1)
    BY <2>1 DEF At, Limb
  <2>3. Limb(Z.p, e + 1) \in Limbs
    BY <1>3, LimbIsSmall
  <2>4. Limb(Z.p, e + 1) * P <= m
    BY <1>3, <1>4, LimbIsWorth
  <2> QED BY <2>2, <2>3, <2>4, LimbsAreSmall
<1>8. x >= D * P /\ D * P \in Nat
  <2>1. cmp_mpi(X, Y) = IF x > Value(Y) THEN 1 ELSE IF x < Value(Y) THEN -1 ELSE 0
    BY <1>3, CmpMpi
  <2> HIDE DEF D, P, x
  <2>2. D * P \in Nat
    BY <1>4
  <2> QED BY <1>2, <1>3, <1>5, <2>1, <2>2
<1>9. w = z + 1 /\ w \in Limbs
  <2>1. Base \in Nat
    BY BaseIsBig
  <2>2. z + 1 < Base
    <3> DEFINE S == Places[t]
    <3>1. x \in Nat /\ a < (Base * S) * P /\ S \in Nat /\ S <= D /\ a = m * D + x
      BY <1>3, <1>4, <1>5
    <3> HIDE DEF S, x, a, P, D, m, z
    <3> QED BY <1>3, <1>4, <1>7, <1>8, <2>1, <3>1, TopFits
  <2> HIDE DEF z
  <2>3. (z + 1) % Base = z + 1 /\ z + 1 \in Limbs
    BY <1>7, <2>1, <2>2, LimbsAreSmall
  <2> QED BY <2>3
<1>10. X2 \in Mpis /\ Value(X2) = x - D * P /\ Len(X2.p) >= Len(X.p)
  <2>1. "X" # "Y"
    OBVIOUS
  <2>2. /\ sub_mpi(v, "X", "X", "Y") \in Mpis
        /\ Value(sub_mpi(v, "X", "X", "Y")) = Value(v["X"]) - Value(v["Y"])
    BY <1>3, <2>1, LocalNames, AddMpiIs
  <2>3. Len(sub_mpi(v, "X", "X", "Y").p) >= Len(v["X"].p)
    BY <1>3, <2>1, LocalNames, SumLength
  <2> QED BY <1>5, <2>2, <2>3
<1> HIDE DEF X2, w, z
<1>11. /\ f \in [Locals -> Mpis] /\ \A l \in Locals : l # "Z" => f[l] = v[l]
       /\ Len(f["Z"].p) = Len(Z.p)
       /\ \A j \in Nat : Limb(f["Z"].p, j) = IF j = e + 1 THEN w ELSE Limb(Z.p, j)
       /\ Magnitude(f["Z"].p) = m + (w - Limb(Z.p, e + 1)) * Places[e]
  <2>1. f = LimbAs(v, "Z", e, w) /\ "Z" \in Locals
    BY LocalNames DEF With, LimbAs
  <2>2. e \in Nat /\ e < Len(v["Z"].p) /\ w \in Limbs /\ v \in [Locals -> Mpis]
    BY <1>3, <1>4, <1>9
  <2> HIDE DEF f, m, Z
  <2>3. /\ f \in [Locals -> Mpis] /\ \A l \in Locals : l # "Z" => f[l] = v[l]
        /\ Len(f["Z"].p) = Len(v["Z"].p)
        /\ \A j \in Nat : Limb(f["Z"].p, j) = IF j = e + 1 THEN w ELSE Limb(v["Z"].p, j)
        /\ Magnitude(f["Z"].p) = Magnitude(v["Z"].p) + (w - Limb(v["Z"].p, e + 1)) * Places[e]
    BY <2>1, <2>2, LimbSet
  <2> QED BY <2>3 DEF m, Z
<1> HIDE DEF f
<1>12. /\ v' \in [Locals -> Mpis] /\ v'["X"] = X2 /\ v'["Z"] = f["Z"]
       /\ \A l \in {"Y", "T1", "T2"} : v'[l] = v[l]
  BY <1>2, <1>10, <1>11 DEF Locals
<1>13. DivisionTypeOK'
  BY <1>1, <1>2, <1>12 DEF DivisionTypeOK
<1>14. Shaped' /\ Divisor' = D
  <2>1. Len(v["X"].p)' >= Len(v["X"].p) /\ Len(v["Z"].p)' >= Len(v["Z"].p)
    BY <1>3, <1>10, <1>11, <1>12
  <2>2. Len(v["T1"].p)' >= 2 /\ Len(v["T2"].p)' >= 3
    BY <1>1, <1>12 DEF Shaped
  <2> QED BY <1>1, <1>2, <1>13, <2>1, <2>2, ShapeStays
<1>15. Magnitude(f["Z"].p) = m + P
  <2>1. w - Limb(Z.p, e + 1) = 1 /\ 1 * P = P
    <3> HIDE DEF P
    <3> QED BY <1>4, <1>7, <1>9
  <2> QED BY <1>11, <2>1
<1>16. AtTop'
  <2>1. (Value(v["X"]) >= 0)'
    <3> HIDE DEF D, P, x
    <3> QED BY <1>3, <1>8, <1>10, <1>12
  <2>2. (Value(v["Y"]) = Divisor * Places[n - t])'
    BY <1>2, <1>5, <1>12, <1>14 DEF e
  <2>3. Open(n - t)'
    <3>1. \A j \in 1..e : Limb(f["Z"].p, j) = 0
      <4>1. ASSUME NEW j \in 1..e PROVE Limb(f["Z"].p, j) = 0
        <5>1. j \in Nat /\ j # e + 1
          BY <1>4
        <5> QED BY <1>6, <1>11, <5>1
      <4> QED BY <4>1
    <3> QED BY <1>2, <1>12, <3>1 DEF Open, e
  <2>4. Splits(0)'
    <3> HIDE DEF a, m, D, P, x
    <3>1. a = ((m + P) - 0) * D + (x - D * P)
      <4>1. (m - 0) * D + x = ((m + P) - 0) * D + (x - D * P)
        BY <1>3, <1>4
      <4> QED BY <1>5, <4>1
    <3>2. (Magnitude(A.p) * TwoTo[k])' = a
      BY <1>2 DEF a
    <3> QED BY <1>10, <1>12, <1>14, <1>15, <3>1, <3>2 DEF Splits
  <2> QED BY <2>1, <2>2, <2>3, <2>4 DEF AtTop
<1> QED BY <1>2, <1>13, <1>14, <1>16 DEF DivisionInv

LEMMA TopDoneStep == DivisionInv /\ TopDone => DivisionInv'
<1> SUFFICES ASSUME DivisionInv, TopDone PROVE DivisionInv'
  OBVIOUS
<1> DEFINE e == n - t  P == Places[e]  D == Divisor  X == v["X"]  Y == v["Y"]
           c == biL * e
           Y2 == shift_r(Y, c)
<1>1. DivisionTypeOK /\ Shaped /\ AtTop
  BY DEF DivisionInv, TopDone
<1>2. /\ pc = "top" /\ cmp_mpi(X, Y) < 0 /\ UNCHANGED <<A, B, k, n, t, R>>
      /\ pc' = "estimate" /\ i' = n /\ v' = [v EXCEPT !["Y"] = Y2]
  BY DEF TopDone, inputs
<1>3. X \in Mpis /\ Y \in Mpis /\ v \in [Locals -> Mpis] /\ Value(X) \in Int
  <2>1. v \in [Locals -> Mpis]
    BY <1>1 DEF DivisionTypeOK
  <2> QED BY <1>1, <2>1, LocalNames, LocalFacts
<1>4. e \in Nat /\ P \in Nat \ {0} /\ D \in Nat \ {0}
  BY <1>1, ShapeFacts, OperandFacts
<1> HIDE DEF e
<1>5. c \in Nat /\ TwoTo[c] = P
  <2>1. e * biL \in Nat /\ P = TwoTo[e * biL]
    BY <1>4, PlacesAreTwos
  <2>2. c = e * biL
    BY <1>4, BaseIsPositive
  <2> QED BY <2>1, <2>2
<1> HIDE DEF c
<1>6. Value(X) >= 0 /\ Value(Y) = D * P
  BY <1>1 DEF AtTop, e
<1> HIDE DEF D, P
<1>7. D * P \in Nat \ {0} /\ (D * P) \div P = D
  <2>1. D * P \in Nat \ {0} /\ D * P = P * D + 0
    BY <1>4
  <2>2. 0 \in 0..(P - 1) /\ D \in Int
    BY <1>4
  <2>3. (P * D + 0) \div P = D
    BY <1>4, <2>2, QuotientUnique
  <2> QED BY <2>1, <2>3
<1>8. Value(X) < D * P
  <2>1. cmp_mpi(X, Y) = IF Value(X) > Value(Y) THEN 1
                        ELSE IF Value(X) < Value(Y) THEN -1 ELSE 0
    BY <1>3, CmpMpi
  <2> HIDE DEF X, Y
  <2> QED BY <1>2, <1>3, <1>6, <1>7, <2>1
<1>9. Y.s = 1 /\ Magnitude(Y.p) = D * P
  <2>1. Value(Y) > 0
    BY <1>6, <1>7
  <2>2. Value(Y) >= 0
    BY <1>6, <1>7
  <2> HIDE DEF Y
  <2> QED BY <1>3, <1>6, <2>1, <2>2, SignOfPositive, Positive
<1>10. Y2 \in Mpis /\ Value(Y2) = D
  <2>1. /\ Y2 \in Mpis /\ Magnitude(Y2.p) = Magnitude(Y.p) \div TwoTo[c]
        /\ Y2.s = 1
    BY <1>3, <1>5, <1>9, ShiftRightIs, ShiftRightSign
  <2> HIDE DEF Y2
  <2>2. Magnitude(Y2.p) = D
    BY <1>5, <1>7, <1>9, <2>1
  <2> QED BY <1>4, <2>1, <2>2 DEF Value
<1> HIDE DEF Y2
<1>11. /\ v' \in [Locals -> Mpis] /\ v'["Y"] = Y2
       /\ \A l \in {"X", "Z", "T1", "T2"} : v'[l] = v[l]
  BY <1>2, <1>3, <1>10 DEF Locals
<1>12. DivisionTypeOK'
  BY <1>1, <1>2, <1>11 DEF DivisionTypeOK
<1>13. Shaped' /\ Divisor' = D
  <2>1. \A l \in {"X", "Z"} : Len(v[l].p)' >= Len(v[l].p)
    <3>1. Len(v["X"].p) \in Nat /\ Len(v["Z"].p) \in Nat
      BY <1>1, LocalNames, LocalFacts
    <3> QED BY <1>11, <3>1
  <2>2. Len(v["T1"].p)' >= 2 /\ Len(v["T2"].p)' >= 3
    BY <1>1, <1>11 DEF Shaped
  <2> QED BY <1>1, <1>2, <1>12, <2>1, <2>2, ShapeStays DEF D
<1>14. Left'
  <2>1. t' <= i' /\ i' <= n'
    BY <1>1, <1>2 DEF Shaped, DivisionTypeOK
  <2>2. Value(v["X"])' >= 0 /\ Value(v["X"])' < D * P
    BY <1>6, <1>8, <1>11
  <2>3. Places[i' - t'] = P
    BY <1>2 DEF P, e
  <2> QED BY <1>10, <1>11, <1>13, <2>1, <2>2, <2>3 DEF Left
<1>15. Open(i - t)' /\ Splits(0)'
  <2>1. Open(n - t) /\ Splits(0)
    BY <1>1 DEF AtTop
  <2>2. (i - t)' = n - t /\ v'["Z"] = v["Z"] /\ v'["X"] = v["X"]
    BY <1>2, <1>11
  <2>3. Open(i - t)'
    BY <2>1, <2>2 DEF Open
  <2>4. Splits(0)'
    BY <1>2, <1>13, <2>1, <2>2 DEF Splits, D
  <2> QED BY <2>3, <2>4
<1> QED BY <1>2, <1>12, <1>13, <1>14, <1>15 DEF DivisionInv

(* One digit. *)

\* The digit to come, its place and the limbs it is judged by.
DigitFacts ==
  LET x == Magnitude(v["X"].p)
      P == Places[Place]
      S == Places[t]
  IN /\ Place \in Nat /\ Place + 1 = i - t
     /\ P \in Nat \ {0} /\ S \in Nat \ {0} /\ Divisor \in Nat \ {0}
     /\ x \in Nat /\ Value(v["X"]) = x /\ Magnitude(v["Y"].p) = Divisor /\ v["Y"].s = 1
     /\ x < Base * (Divisor * P) /\ S * Base <= 4 * Divisor
     /\ Leading(TwoLimbs(v["X"].p, i), S * P, x)
     /\ Leading(ThreeLimbs(v["X"].p, i), S * P, x * Base)
     /\ Leading(Limb(v["Y"].p, t + 1), S, Divisor)
     /\ Leading(TwoLimbs(v["Y"].p, t), S, Divisor * Base)
     /\ TwoLimbs(v["X"].p, i) \in Nat /\ ThreeLimbs(v["X"].p, i) \in Nat
     /\ TwoLimbs(v["Y"].p, t) \in Nat
     /\ Limb(v["Y"].p, t + 1) # 0
     /\ Place < Len(v["Z"].p)

\* Where the limbs the estimate reads are.
LimbsRead ==
  /\ At("X", i) = Limb(v["X"].p, i + 1) /\ At("X", i - 1) = Limb(v["X"].p, i)
  /\ i >= 2 => At("X", i - 2) = Limb(v["X"].p, i - 1)
  /\ At("Y", t) = Limb(v["Y"].p, t + 1)
  /\ t >= 1 => At("Y", t - 1) = Limb(v["Y"].p, t)
  /\ At("Z", Place) = Limb(v["Z"].p, Place + 1)

LEMMA DigitIs ==
  ASSUME DivisionTypeOK, Shaped, Left, i > t
  PROVE  DigitFacts /\ LimbsRead
<1> DEFINE e == Place  f == i - t  g == i - 1  P == Places[e]  S == Places[t]
           D == Divisor  X == v["X"]  Y == v["Y"]  Z == v["Z"]  x == Magnitude(X.p)
           y == Limb(Y.p, t + 1)
<1>1. t \in Nat /\ i \in Nat /\ n \in Nat /\ i <= n /\ t <= n
  BY DEF DivisionTypeOK, Left, Shaped
<1>2. /\ e \in Nat /\ e + 1 = f /\ f \in Nat /\ g \in Nat /\ t + e = g /\ i # 0
      /\ g + 1 = i
  BY <1>1 DEF Place
<1>3. /\ X \in Mpis /\ Y \in Mpis /\ Z \in Mpis /\ x \in Nat
      /\ X.p \in Seq(Limbs) /\ Y.p \in Seq(Limbs) /\ Z.p \in Seq(Limbs)
      /\ Value(X) \in Int /\ Value(Y) \in Int
      /\ Len(X.p) \in Nat /\ Len(Y.p) \in Nat /\ Len(Z.p) \in Nat
  BY LocalNames, LocalFacts
<1>4. /\ Value(X) >= 0 /\ Value(X) < D * Places[f] /\ Value(Y) = D
      /\ S <= D /\ D < Places[t + 1] /\ Places[t + 1] <= 4 * D
      /\ Len(X.p) > n /\ Len(Z.p) > n - t
  BY DEF Left, Shaped
<1>5. D \in Nat \ {0}
  BY OperandFacts
<1> HIDE DEF e, f, g, D
<1>6. /\ P \in Nat \ {0} /\ S \in Nat \ {0} /\ Places[f] = Base * P
      /\ Places[t + 1] = Base * S /\ Places[g] = S * P /\ Base \in Nat \ {0}
      /\ Places[i] = Base * (S * P) /\ Places[i + 1] = Base * Places[i]
  <2>1. P \in Nat \ {0} /\ Places[e + 1] = Base * P
    BY <1>2, PlacesAre
  <2>2. S \in Nat \ {0} /\ Places[t + 1] = Base * S
    BY <1>1, PlacesAre
  <2>3. Places[t + e] = S * P
    BY <1>1, <1>2, PlacesMultiply
  <2>4. Places[g + 1] = Base * Places[g] /\ Places[i + 1] = Base * Places[i]
    BY <1>1, <1>2, PlacesAre
  <2> QED BY <1>2, <2>1, <2>2, <2>3, <2>4, BaseIsBig
<1>7. Value(X) = x /\ Magnitude(Y.p) = D /\ Y.s = 1
  <2>1. Value(Y) > 0 /\ Value(Y) >= 0
    BY <1>4, <1>5
  <2> HIDE DEF X, Y
  <2> QED BY <1>3, <1>4, <2>1, Positive, SignOfPositive DEF x
<1> HIDE DEF P, S, x
<1>8. x < Base * (D * P) /\ S * Base <= 4 * D /\ D < Base * S
  <2>1. D * (Base * P) = Base * (D * P) /\ S * Base = Base * S
    BY <1>5, <1>6
  <2> QED BY <1>4, <1>6, <1>7, <2>1
<1>9. x < Places[i + 1]
  <2> DEFINE b == Base  U == D * P  V == b * S * P  w == b * S
  <2>1. D < w /\ w \in Nat /\ P \in Nat \ {0} /\ D \in Nat /\ b \in Nat \ {0}
    BY <1>5, <1>6, <1>8
  <2>2. D * P < w * P /\ D * P \in Nat /\ w * P \in Nat
    <3> HIDE DEF w, U, V, b
    <3> QED BY <2>1
  <2>3. b * (D * P) < b * (w * P) /\ b * (D * P) \in Nat /\ b * (w * P) \in Nat
    <3> DEFINE h == D * P  a == w * P
    <3> HIDE DEF h, a, b
    <3> QED BY <2>1, <2>2 DEF h, a
  <2>4. Places[i + 1] = b * (w * P)
    <3>1. b * (S * P) = w * P
      BY <1>6
    <3> QED BY <1>6, <3>1
  <2> HIDE DEF b, w
  <2> QED BY <1>3, <1>8, <2>3, <2>4 DEF b
<1>10. /\ Leading(TwoLimbs(X.p, i), S * P, x) /\ Leading(ThreeLimbs(X.p, i), S * P, x * Base)
       /\ TwoLimbs(X.p, i) \in Nat /\ ThreeLimbs(X.p, i) \in Nat
  <2>1. X.p \in Seq(Limbs) /\ i \in Nat /\ Magnitude(X.p) < Places[i + 1] /\ i # 0
    BY <1>1, <1>2, <1>3, <1>9 DEF x
  <2> HIDE DEF X
  <2>2. /\ Leading(TwoLimbs(X.p, i), Places[i - 1], Magnitude(X.p))
        /\ Leading(ThreeLimbs(X.p, i), Places[i - 1], Magnitude(X.p) * Base)
        /\ TwoLimbs(X.p, i) \in Nat /\ ThreeLimbs(X.p, i) \in Nat
    BY <2>1, LeadingLimbs
  <2> QED BY <1>6, <2>2 DEF x, g
<1>11. /\ Leading(y, S, D) /\ Leading(TwoLimbs(Y.p, t), S, D * Base)
       /\ TwoLimbs(Y.p, t) \in Nat
  <2>1. Y.p \in Seq(Limbs) /\ t \in Nat /\ Magnitude(Y.p) < Places[t + 1]
    BY <1>1, <1>3, <1>4, <1>7
  <2> HIDE DEF Y
  <2>2. /\ Leading(Limb(Y.p, t + 1), Places[t], Magnitude(Y.p))
        /\ Leading(TwoLimbs(Y.p, t), Places[t], Magnitude(Y.p) * Base)
        /\ TwoLimbs(Y.p, t) \in Nat
    BY <2>1, LeadingLimbs
  <2> QED BY <1>7, <2>2 DEF S
<1>12. y # 0
  <2>1. D < (y + 1) * S
    BY <1>11 DEF Leading
  <2>2. y = 0 => (y + 1) * S = S
    BY <1>6
  <2> HIDE DEF y
  <2> QED BY <1>4, <1>5, <1>6, <2>1, <2>2
<1>13. e < Len(Z.p)
  BY <1>1, <1>2, <1>3, <1>4 DEF f
<1>14. DigitFacts
  BY <1>2, <1>3, <1>5, <1>6, <1>7, <1>8, <1>10, <1>11, <1>12, <1>13
     DEF DigitFacts, e, f, D, P, S, x
<1>15. /\ At("X", i) = Limb(X.p, i + 1) /\ At("X", i - 1) = Limb(X.p, i)
       /\ i >= 2 => At("X", i - 2) = Limb(X.p, i - 1)
  <2>1. i + 1 \in DOMAIN X.p /\ i \in DOMAIN X.p /\ (i >= 2 => i - 1 \in DOMAIN X.p)
    BY <1>1, <1>2, <1>3, <1>4, SMTT(30)
  <2>2. i - 1 + 1 = i /\ i - 2 + 1 = i - 1
    BY <1>1
  <2> QED BY <2>1, <2>2 DEF At, Limb
<1>16. At("Y", t) = y /\ (t >= 1 => At("Y", t - 1) = Limb(Y.p, t))
  <2>1. t + 1 \in DOMAIN Y.p
    BY <1>12 DEF Limb
  <2>2. (t >= 1 => t \in DOMAIN Y.p) /\ t - 1 + 1 = t
    BY <1>1, <1>3, <2>1
  <2> QED BY <2>1, <2>2 DEF At, Limb
<1>17. At("Z", e) = Limb(Z.p, e + 1)
  <2>1. e + 1 \in DOMAIN Z.p
    BY <1>2, <1>3, <1>13
  <2> QED BY <2>1 DEF At, Limb
<1> QED BY <1>14, <1>15, <1>16, <1>17 DEF LimbsRead, e

LEMMA EstimateStep == DivisionInv /\ Estimate => DivisionInv'
<1> SUFFICES ASSUME DivisionInv, Estimate PROVE DivisionInv'
  OBVIOUS
<1> DEFINE e == Place  P == Places[e]  D == Divisor  S == Places[t]
           X == v["X"]  Y == v["Y"]  Z == v["Z"]
           x == Magnitude(X.p)  m == Magnitude(Z.p)  y == Limb(Y.p, t + 1)
           u == TwoLimbs(X.p, i)  q == x \div (D * P)
           z == Quotient(At("X", i), At("X", i - 1), At("Y", t))
           a == Magnitude(A.p) * TwoTo[k]
           f == With("Z", e, z)
<1>1. DivisionTypeOK /\ Shaped /\ Left /\ Open(i - t) /\ Splits(0) /\ i > t
  BY DEF DivisionInv, Estimate
<1>2. /\ UNCHANGED <<A, B, k, n, t, i, R>> /\ pc' = "lower" /\ v' = f
  BY DEF Estimate, inputs
<1>3. DigitFacts /\ LimbsRead
  BY <1>1, DigitIs
<1>4. /\ e \in Nat /\ e + 1 = i - t /\ P \in Nat \ {0} /\ S \in Nat \ {0}
      /\ D \in Nat \ {0} /\ x \in Nat /\ Value(X) = x
      /\ x < Base * (D * P) /\ S * Base <= 4 * D /\ Leading(u, S * P, x)
      /\ Leading(y, S, D) /\ u \in Nat /\ y # 0 /\ e < Len(Z.p)
  BY <1>3 DEF DigitFacts
<1>5. /\ X \in Mpis /\ Y \in Mpis /\ Z \in Mpis /\ Z.p \in Seq(Limbs) /\ X.p \in Seq(Limbs)
      /\ Y.p \in Seq(Limbs) /\ v \in [Locals -> Mpis] /\ m \in Nat /\ Len(Z.p) \in Nat
  <2>1. v \in [Locals -> Mpis]
    BY <1>1 DEF DivisionTypeOK
  <2> QED BY <1>1, <2>1, LocalNames, LocalFacts
<1>6. /\ z \in Limbs /\ z * y <= u /\ \A w \in Limbs : w * y <= u => w <= z
  <2> DEFINE h == Limb(X.p, i + 1)  l == Limb(X.p, i)
  <2>1. h \in Limbs /\ l \in Limbs /\ y \in Limbs
    BY <1>5, LimbIsSmall
  <2>2. z = Quotient(h, l, y)
    BY <1>3 DEF LimbsRead
  <2>3. u = h * Base + l
    BY DEF TwoLimbs
  <2> HIDE DEF h, l, y, z, u
  <2> QED BY <1>4, <2>1, <2>2, <2>3, QuotientIs
<1>7. y \in Nat /\ z \in 0..(Base - 1) /\ z \in Nat /\ Base \in Nat \ {0}
  <2>1. y \in Limbs
    BY <1>5, LimbIsSmall
  <2> HIDE DEF y, z
  <2> QED BY <1>6, <2>1, LimbsAreSmall, BaseIsBig
<1> HIDE DEF e, P, D, S, x, m, y, u, z
<1>8. q \in Nat /\ q < Base
  <2> DEFINE E == D * P
  <2>1. E \in Nat \ {0}
    BY <1>4
  <2> HIDE DEF E
  <2>2. q = x \div E
    BY DEF E
  <2>3. q \in Nat /\ q * E <= x /\ q * E \in Nat
    BY <1>4, <2>1, <2>2, QuotientBetween
  <2>4. x < Base * E
    BY <1>4 DEF E
  <2> HIDE DEF q
  <2>5. q >= Base => q * E >= Base * E
    BY <1>7, <2>1, <2>3
  <2>6. Base * E \in Nat
    BY <1>7, <2>1
  <2> QED BY <1>4, <1>7, <2>3, <2>4, <2>5, <2>6
<1>9. q <= z
  <2>1. q * y <= u
    BY <1>4, <1>7, EstimateIsHigh
  <2>2. q \in Limbs
    BY <1>8, LimbsAreSmall
  <2> HIDE DEF q
  <2> QED BY <1>6, <2>1, <2>2
<1>10. z - 4 <= q
  <2> HIDE DEF q
  <2> QED BY <1>4, <1>6, <1>7, EstimateIsClose DEF q
<1>11. z \in q..(q + 4)
  <2> HIDE DEF q
  <2> QED BY <1>7, <1>8, <1>9, <1>10
<1> HIDE DEF q
<1>12. /\ f \in [Locals -> Mpis] /\ \A l \in Locals : l # "Z" => f[l] = v[l]
       /\ Len(f["Z"].p) = Len(v["Z"].p)
       /\ \A j \in Nat : Limb(f["Z"].p, j) = IF j = e + 1 THEN z ELSE Limb(v["Z"].p, j)
       /\ Magnitude(f["Z"].p) = Magnitude(v["Z"].p) + (z - Limb(v["Z"].p, e + 1)) * Places[e]
  <2>1. f = LimbAs(v, "Z", e, z) /\ "Z" \in Locals
    BY LocalNames DEF With, LimbAs
  <2>2. e < Len(v["Z"].p)
    BY <1>4
  <2> HIDE DEF f, Z
  <2> QED BY <1>4, <1>5, <1>6, <2>1, <2>2, LimbSet, SMTT(30)
<1> HIDE DEF f
<1>13. /\ v' \in [Locals -> Mpis] /\ v'["Z"] = f["Z"]
       /\ \A l \in {"X", "Y", "T1", "T2"} : v'[l] = v[l]
  BY <1>2, <1>12 DEF Locals
<1>14. DivisionTypeOK'
  BY <1>1, <1>2, <1>13 DEF DivisionTypeOK
<1>15. Shaped' /\ Divisor' = Divisor
  <2>1. Len(v["X"].p)' >= Len(v["X"].p) /\ Len(v["Z"].p)' >= Len(v["Z"].p)
    <3>1. Len(v["X"].p) \in Nat /\ Len(v["Z"].p) \in Nat
      BY <1>1, LocalNames, LocalFacts
    <3> QED BY <1>12, <1>13, <3>1
  <2>2. Len(v["T1"].p)' >= 2 /\ Len(v["T2"].p)' >= 3
    BY <1>1, <1>13 DEF Shaped
  <2> QED BY <1>1, <1>2, <1>14, <2>1, <2>2, ShapeStays
<1>16. Left' /\ (i > t)'
  BY <1>1, <1>2, <1>13, <1>15 DEF Left
<1>17. Place' = e /\ At("Z", Place)' = z /\ z = Limb(f["Z"].p, e + 1)
  <2>1. Place' = e
    BY <1>2 DEF e, Place
  <2>2. Limb(f["Z"].p, e + 1) = z
    BY <1>4, <1>12
  <2>3. At("Z", Place)' = Limb(v["Z"].p, Place + 1)'
    <3>1. LimbsRead'
      BY <1>14, <1>15, <1>16, DigitIs, PTL
    <3> QED BY <3>1 DEF LimbsRead
  <2> QED BY <1>13, <2>1, <2>2, <2>3
<1>18. Limb(Z.p, e + 1) = 0 /\ \A j \in 1..e : Limb(f["Z"].p, j) = 0
  <2>1. \A j \in 1..(e + 1) : Limb(Z.p, j) = 0
    BY <1>1, <1>4 DEF Open
  <2>2. ASSUME NEW j \in 1..e PROVE Limb(f["Z"].p, j) = 0
    <3>1. j \in Nat /\ j # e + 1 /\ j \in 1..(e + 1)
      BY <1>4
    <3> QED BY <1>12, <2>1, <3>1
  <2>3. e + 1 \in 1..(e + 1)
    BY <1>4
  <2> QED BY <2>1, <2>2, <2>3
<1>19. Magnitude(f["Z"].p) = m + z * P
  BY <1>7, <1>12, <1>18 DEF m, P
<1>20. Tried'
  <2>1. Open(Place)'
    BY <1>13, <1>17, <1>18 DEF Open
  <2>2. Splits(At("Z", Place) * Places[Place])'
    <3>1. a = (m - 0) * D + Value(X)
      BY <1>1 DEF Splits, D, m
    <3>2. m - 0 = (m + z * P) - z * P
      BY <1>4, <1>5, <1>7
    <3>3. (Magnitude(A.p) * TwoTo[k])' = a
      BY <1>2
    <3>4. a = (Magnitude(f["Z"].p) - z * P) * D + Value(X)
      BY <1>19, <3>1, <3>2
    <3> QED BY <1>13, <1>15, <1>17, <3>3, <3>4 DEF Splits, D, P
  <2>3. TriedDigitIsClose'
    <3>1. (Value(v["X"]) \div (Divisor * Places[Place]))' = q
      BY <1>4, <1>13, <1>15, <1>17 DEF q, D, P
    <3> QED BY <1>11, <1>17, <3>1 DEF TriedDigitIsClose
  <2> QED BY <1>16, <2>1, <2>2, <2>3 DEF Tried
<1> QED BY <1>2, <1>14, <1>15, <1>16, <1>20 DEF DivisionInv

LEMMA LowerFacts ==
  ASSUME DivisionInv, pc = "lower"
  PROVE  /\ DivisionTypeOK /\ Shaped /\ Left /\ Tried /\ i > t /\ DigitFacts /\ LimbsRead
         /\ v \in [Locals -> Mpis] /\ \A l \in Locals : v[l].p \in Seq(Limbs)
         /\ At("Z", Place) \in Limbs /\ At("Z", Place) \in Nat /\ At("Z", Place) < Base
         /\ LET q == Magnitude(v["X"].p) \div (Divisor * Places[Place])
            IN /\ q \in Nat /\ At("Z", Place) \in q..(q + 4)
               /\ q * (Divisor * Places[Place]) <= Magnitude(v["X"].p)
               /\ Magnitude(v["X"].p) < (q + 1) * (Divisor * Places[Place])
<1> DEFINE x == Magnitude(v["X"].p)  E == Divisor * Places[Place]  q == x \div E
<1>1. DivisionTypeOK /\ Shaped /\ Left /\ Tried /\ i > t
  BY DEF DivisionInv, Tried
<1>2. DigitFacts /\ LimbsRead
  BY <1>1, DigitIs
<1>3. v \in [Locals -> Mpis] /\ \A l \in Locals : v[l].p \in Seq(Limbs)
  BY <1>1, LocalFacts DEF DivisionTypeOK
<1>4. At("Z", Place) \in Limbs
  BY <1>2, <1>3, LimbIsSmall, LocalNames DEF LimbsRead
<1>5. x \in Nat /\ Value(v["X"]) = x /\ E \in Nat \ {0}
  BY <1>2, SMTT(30) DEF DigitFacts
<1>6. At("Z", Place) \in q..(q + 4)
  BY <1>1, <1>5 DEF Tried, TriedDigitIsClose
<1> HIDE DEF x, E
<1>7. q \in Nat /\ q * E <= x /\ x < (q + 1) * E
  BY <1>5, QuotientBetween
<1> QED BY <1>1, <1>2, <1>3, <1>4, <1>6, <1>7, LimbsAreSmall DEF x, E

\* The limbs that the two sides of the comparison are made of.
LEMMA TestedLimbs ==
  ASSUME DivisionInv, pc = "lower",
         NEW Y2, Y2 = Resized(<<IF t < 1 THEN 0 ELSE At("Y", t - 1), At("Y", t)>>,
                              Len(v["T1"].p)),
         NEW X3, X3 = Resized(<<IF i < 2 THEN 0 ELSE At("X", i - 2), At("X", i - 1),
                                At("X", i)>>, Len(v["T2"].p))
  PROVE  /\ Y2 \in Seq(Limbs) /\ Magnitude(Y2) = TwoLimbs(v["Y"].p, t) /\ Len(Y2) >= 2
         /\ X3 \in Seq(Limbs) /\ Magnitude(X3) = ThreeLimbs(v["X"].p, i) /\ Len(X3) >= 3
<1> DEFINE p == v["Y"].p  o == v["X"].p
<1>1. /\ LimbsRead /\ p \in Seq(Limbs) /\ o \in Seq(Limbs) /\ t \in Nat /\ i \in Nat /\ i > t
      /\ Len(v["T1"].p) \in Nat /\ Len(v["T1"].p) >= 2
      /\ Len(v["T2"].p) \in Nat /\ Len(v["T2"].p) >= 3
  <2>1. /\ LimbsRead /\ DivisionTypeOK /\ Shaped /\ i > t
        /\ \A l \in Locals : v[l].p \in Seq(Limbs)
    BY LowerFacts
  <2>2. Len(v["T1"].p) \in Nat /\ Len(v["T2"].p) \in Nat
    BY <2>1, LocalNames, LocalFacts
  <2> QED BY <2>1, <2>2, LocalNames DEF Shaped, DivisionTypeOK
<1>2. (IF t < 1 THEN 0 ELSE At("Y", t - 1)) = Limb(p, t) /\ At("Y", t) = Limb(p, t + 1)
  <2>1. t < 1 => t = 0
    BY <1>1
  <2>2. Limb(p, 0) = 0
    BY <1>1, NoLimbBelow
  <2> QED BY <1>1, <2>1, <2>2 DEF LimbsRead
<1>3. /\ (IF i < 2 THEN 0 ELSE At("X", i - 2)) = Limb(o, i - 1)
      /\ At("X", i - 1) = Limb(o, i) /\ At("X", i) = Limb(o, i + 1)
  <2>1. i < 2 => i - 1 = 0
    BY <1>1
  <2>2. Limb(o, 0) = 0
    BY <1>1, NoLimbBelow
  <2> QED BY <1>1, <2>1, <2>2 DEF LimbsRead
<1>4. /\ Limb(p, t) \in Limbs /\ Limb(p, t + 1) \in Limbs /\ Limb(o, i - 1) \in Limbs
      /\ Limb(o, i) \in Limbs /\ Limb(o, i + 1) \in Limbs
  BY <1>1, LimbIsSmall
<1>5. Y2 = Resized(<<Limb(p, t), Limb(p, t + 1)>>, Len(v["T1"].p))
  BY <1>2
<1>6. X3 = Resized(<<Limb(o, i - 1), Limb(o, i), Limb(o, i + 1)>>, Len(v["T2"].p))
  BY <1>3
<1>7. /\ Y2 \in Seq(Limbs) /\ Len(Y2) = Len(v["T1"].p)
      /\ Magnitude(Y2) = Limb(p, t + 1) * Base + Limb(p, t)
  BY <1>1, <1>4, <1>5, TwoLimbsAre
<1>8. /\ X3 \in Seq(Limbs) /\ Len(X3) = Len(v["T2"].p)
      /\ Magnitude(X3) = (Limb(o, i + 1) * Base + Limb(o, i)) * Base + Limb(o, i - 1)
  BY <1>1, <1>4, <1>6, ThreeLimbsAre
<1> QED BY <1>1, <1>7, <1>8 DEF TwoLimbs, ThreeLimbs

LEMMA TestedIs ==
  ASSUME DivisionInv, pc = "lower"
  PROVE  /\ Tested \in [Locals -> Mpis]
         /\ \A l \in {"X", "Y", "Z"} : Tested[l] = v[l]
         /\ Value(Tested["T1"]) = TwoLimbs(v["Y"].p, t) * At("Z", Place)
         /\ Value(Tested["T2"]) = ThreeLimbs(v["X"].p, i)
         /\ Len(Tested["T1"].p) >= 2 /\ Len(Tested["T2"].p) >= 3
<1> DEFINE Y2 == Resized(<<IF t < 1 THEN 0 ELSE At("Y", t - 1), At("Y", t)>>,
                         Len(v["T1"].p))
           X3 == Resized(<<IF i < 2 THEN 0 ELSE At("X", i - 2), At("X", i - 1),
                           At("X", i)>>, Len(v["T2"].p))
           z == At("Z", Place)
           H == [s |-> 1, p |-> Y2]
           U == [s |-> 1, p |-> X3]
           f == [v EXCEPT !["T1"] = H, !["T2"] = U]
           W == mul_int(f, "T1", "T1", z)
<1>1. /\ v \in [Locals -> Mpis] /\ z \in Limbs /\ LimbsRead
      /\ TwoLimbs(v["Y"].p, t) \in Nat /\ ThreeLimbs(v["X"].p, i) \in Nat
  BY LowerFacts DEF DigitFacts
<1>2. Tested = [f EXCEPT !["T1"] = W]
  BY DEF Tested
<1>3. /\ Y2 \in Seq(Limbs) /\ Magnitude(Y2) = TwoLimbs(v["Y"].p, t) /\ Len(Y2) >= 2
      /\ X3 \in Seq(Limbs) /\ Magnitude(X3) = ThreeLimbs(v["X"].p, i) /\ Len(X3) >= 3
  <2> HIDE DEF Y2, X3
  <2> QED BY TestedLimbs DEF Y2, X3
<1> HIDE DEF Y2, X3
<1>4. H \in Mpis /\ H.s = 1 /\ H.p = Y2 /\ U \in Mpis /\ U.s = 1 /\ U.p = X3
  BY <1>3, MpiOf
<1>5. Value(H) = TwoLimbs(v["Y"].p, t) /\ Value(U) = ThreeLimbs(v["X"].p, i)
  BY <1>1, <1>3, <1>4 DEF Value
<1>6. Len(H.p) >= 2 /\ Len(U.p) >= 3
  BY <1>3, <1>4
<1> HIDE DEF H, U
<1>7. /\ f \in [Locals -> Mpis] /\ f["T1"] = H /\ f["T2"] = U
      /\ \A l \in {"X", "Y", "Z"} : f[l] = v[l]
  BY <1>1, <1>4 DEF Locals
<1> HIDE DEF f, z
<1>8. W \in Mpis /\ Value(W) = Value(H) * z /\ Len(W.p) >= Len(H.p)
  <2>1. W = product(H, H, [s |-> 1, p |-> <<z>>])
    BY <1>7 DEF mul_int
  <2> HIDE DEF W
  <2> QED BY <1>1, <1>4, <2>1, MulIntIs
<1> HIDE DEF W
<1>9. /\ Tested \in [Locals -> Mpis] /\ Tested["T1"] = W /\ Tested["T2"] = U
      /\ \A l \in {"X", "Y", "Z"} : Tested[l] = v[l]
  BY <1>2, <1>7, <1>8 DEF Locals
<1>10. Len(W.p) >= 2
  <2>1. Len(W.p) \in Nat /\ Len(H.p) \in Nat
    BY <1>4, <1>8, MpiIs
  <2> QED BY <1>6, <1>8, <2>1
<1> QED BY <1>5, <1>6, <1>8, <1>9, <1>10 DEF z

LEMMA TooHighIs ==
  ASSUME DivisionInv, pc = "lower"
  PROVE  TooHigh <=> At("Z", Place) * TwoLimbs(v["Y"].p, t) > ThreeLimbs(v["X"].p, i)
<1> DEFINE a == TwoLimbs(v["Y"].p, t)  z == At("Z", Place)  b == ThreeLimbs(v["X"].p, i)
<1>1. /\ Tested["T1"] \in Mpis /\ Tested["T2"] \in Mpis
      /\ Value(Tested["T1"]) = a * z /\ Value(Tested["T2"]) = b
  BY TestedIs, LocalNames
<1>2. a \in Nat /\ b \in Nat /\ z \in Nat
  BY LowerFacts DEF DigitFacts
<1>3. cmp_mpi(Tested["T1"], Tested["T2"])
        = IF a * z > b THEN 1 ELSE IF a * z < b THEN -1 ELSE 0
  BY <1>1, CmpMpi
<1> HIDE DEF a, b, z
<1>4. a * z = z * a
  BY <1>2
<1> QED BY <1>3, <1>4 DEF TooHigh, a, b, z

\* The digits below Place stay open when Place itself changes.
LEMMA StaysOpen ==
  ASSUME NEW p, NEW q, NEW e \in Nat, NEW w, \A j \in 1..e : Limb(p, j) = 0,
         \A j \in Nat : Limb(q, j) = IF j = e + 1 THEN w ELSE Limb(p, j)
  PROVE  \A j \in 1..e : Limb(q, j) = 0
<1>1. ASSUME NEW j \in 1..e PROVE Limb(q, j) = 0
  <2>1. j \in Nat /\ j # e + 1
    OBVIOUS
  <2> QED BY <2>1
<1> QED BY <1>1

LEMMA LowerStep == DivisionInv /\ Lower => DivisionInv'
<1> SUFFICES ASSUME DivisionInv, Lower PROVE DivisionInv'
  OBVIOUS
<1> DEFINE e == Place  P == Places[e]  D == Divisor  S == Places[t]
           X == v["X"]  Z == v["Z"]
           x == Magnitude(X.p)  m == Magnitude(Z.p)
           q == x \div (D * P)
           z == At("Z", e)
           a == Magnitude(A.p) * TwoTo[k]
           g == Tested
           w == (z - 1) % Base
           f == LimbAs(g, "Z", e, w)
<1>1. /\ pc = "lower" /\ TooHigh /\ UNCHANGED <<pc, A, B, k, n, t, i, R>>
      /\ v' = [g EXCEPT !["Z"].p[Place + 1] = (@ - 1) % Base]
  BY DEF Lower, inputs
<1>2. /\ DivisionTypeOK /\ Shaped /\ Left /\ Tried /\ i > t /\ DigitFacts /\ LimbsRead
      /\ v \in [Locals -> Mpis] /\ \A l \in Locals : v[l].p \in Seq(Limbs)
      /\ z \in Limbs /\ z \in Nat /\ z < Base /\ q \in Nat /\ z \in q..(q + 4)
  BY <1>1, LowerFacts
<1>3. /\ g \in [Locals -> Mpis] /\ \A l \in {"X", "Y", "Z"} : g[l] = v[l]
      /\ Len(g["T1"].p) >= 2 /\ Len(g["T2"].p) >= 3
  BY <1>1, TestedIs
<1>4. /\ e \in Nat /\ P \in Nat \ {0} /\ S \in Nat \ {0} /\ D \in Nat \ {0}
      /\ x \in Nat /\ Value(X) = x /\ e < Len(Z.p)
      /\ Leading(ThreeLimbs(X.p, i), S * P, x * Base)
      /\ Leading(TwoLimbs(v["Y"].p, t), S, D * Base)
      /\ ThreeLimbs(X.p, i) \in Nat /\ TwoLimbs(v["Y"].p, t) \in Nat
  BY <1>2 DEF DigitFacts
<1>5. v' = f
  <2>1. g["Z"].p[Place + 1] = z
    BY <1>3 DEF At
  <2> HIDE DEF g, z
  <2> QED BY <1>1, <2>1 DEF LimbAs
<1>6. z = Limb(Z.p, e + 1)
  BY <1>2 DEF LimbsRead
<1> HIDE DEF e, P, D, S, x, z, g
<1>7. z > q
  <2> DEFINE h == ThreeLimbs(X.p, i)  y == TwoLimbs(v["Y"].p, t)
  <2>1. z * y > h
    BY <1>1, TooHighIs DEF z, e
  <2>2. h \in Nat /\ y \in Nat /\ Leading(h, S * P, x * Base) /\ Leading(y, S, D * Base)
    BY <1>4
  <2> HIDE DEF h, y, q
  <2>3. Base \in Nat \ {0}
    BY BaseIsBig
  <2> QED BY <1>2, <1>4, <2>1, <2>2, <2>3, TestedIsTooHigh DEF q
<1>8. w = z - 1 /\ w \in Limbs /\ w \in Nat /\ w \in q..(q + 4)
  <2> HIDE DEF q
  <2>1. z - 1 \in Nat /\ z - 1 < Base /\ z - 1 \in q..(q + 4)
    <3>1. z \in Nat /\ q \in Nat /\ z < Base /\ z \in q..(q + 4)
      BY <1>2
    <3> QED BY <1>7, <3>1, BaseIsBig
  <2>2. (z - 1) % Base = z - 1
    BY <1>2, <2>1, BaseIsBig
  <2> QED BY <2>1, <2>2, LimbsAreSmall
<1> HIDE DEF w, q
<1>9. /\ f \in [Locals -> Mpis] /\ \A l \in Locals : l # "Z" => f[l] = g[l]
      /\ Len(f["Z"].p) = Len(Z.p)
      /\ \A j \in Nat : Limb(f["Z"].p, j) = IF j = e + 1 THEN w ELSE Limb(Z.p, j)
      /\ Magnitude(f["Z"].p) = m + (w - Limb(Z.p, e + 1)) * P
  <2>1. e < Len(g["Z"].p) /\ "Z" \in Locals /\ g["Z"] = Z
    BY <1>3, <1>4, LocalNames
  <2> HIDE DEF f, Z, m
  <2>2. /\ f \in [Locals -> Mpis] /\ \A l \in Locals : l # "Z" => f[l] = g[l]
        /\ Len(f["Z"].p) = Len(g["Z"].p)
        /\ \A j \in Nat : Limb(f["Z"].p, j) = IF j = e + 1 THEN w ELSE Limb(g["Z"].p, j)
        /\ Magnitude(f["Z"].p)
             = Magnitude(g["Z"].p) + (w - Limb(g["Z"].p, e + 1)) * Places[e]
    <3>1. f = LimbAs(g, "Z", e, w)
      BY DEF f
    <3>2. g \in [Locals -> Mpis] /\ e \in Nat /\ w \in Limbs
      BY <1>3, <1>4, <1>8
    <3> QED BY <2>1, <3>1, <3>2, LimbSet
  <2> QED BY <2>1, <2>2 DEF m, P
<1> HIDE DEF f
<1>10. /\ v' \in [Locals -> Mpis] /\ v'["X"] = X /\ v'["Y"] = v["Y"] /\ v'["Z"] = f["Z"]
       /\ v'["T1"] = g["T1"] /\ v'["T2"] = g["T2"]
  BY <1>3, <1>5, <1>9, LocalNames
<1>11. DivisionTypeOK'
  BY <1>1, <1>2, <1>10 DEF DivisionTypeOK
<1>12. Shaped' /\ Divisor' = Divisor
  <2>1. Len(v["X"].p)' >= Len(v["X"].p) /\ Len(v["Z"].p)' >= Len(v["Z"].p)
    <3>1. Len(v["X"].p) \in Nat /\ Len(v["Z"].p) \in Nat
      BY <1>2, LocalNames, LocalFacts
    <3> QED BY <1>9, <1>10, <3>1
  <2>2. Len(v["T1"].p)' >= 2 /\ Len(v["T2"].p)' >= 3
    BY <1>3, <1>10
  <2> QED BY <1>1, <1>2, <1>11, <2>1, <2>2, ShapeStays
<1>13. Left' /\ (i > t)'
  BY <1>1, <1>2, <1>10, <1>12 DEF Left
<1>14. Place' = e /\ At("Z", Place)' = w
  <2>1. Place' = e
    BY <1>1 DEF e, Place
  <2>2. At("Z", Place)' = Limb(v["Z"].p, Place + 1)'
    <3>1. LimbsRead'
      BY <1>11, <1>12, <1>13, DigitIs, PTL
    <3> QED BY <3>1 DEF LimbsRead
  <2>3. Limb(f["Z"].p, e + 1) = w
    BY <1>4, <1>9
  <2> QED BY <1>10, <2>1, <2>2, <2>3
<1>15. Magnitude(f["Z"].p) = m + (w - z) * P
  BY <1>6, <1>9
<1>16. Tried'
  <2>1. Open(Place)'
    <3>1. \A j \in 1..e : Limb(Z.p, j) = 0
      BY <1>2 DEF Tried, Open, e
    <3> HIDE DEF Z
    <3>2. \A j \in 1..e : Limb(f["Z"].p, j) = 0
      BY <1>4, <1>9, <3>1, StaysOpen
    <3> QED BY <1>10, <1>14, <3>2 DEF Open
  <2>2. Splits(At("Z", Place) * Places[Place])'
    <3>1. a = (m - z * P) * D + Value(X)
      BY <1>2 DEF Tried, Splits, D, P, z, e
    <3>2. m \in Nat
      BY <1>2, LocalNames, LocalFacts
    <3> HIDE DEF m
    <3>3. m - z * P = (m + (w - z) * P) - w * P
      BY <1>2, <1>4, <1>8, <3>2
    <3>4. (Magnitude(A.p) * TwoTo[k])' = a
      BY <1>1
    <3>5. a = (Magnitude(f["Z"].p) - w * P) * D + Value(X)
      BY <1>15, <3>1, <3>3
    <3> QED BY <1>10, <1>12, <1>14, <3>4, <3>5 DEF Splits, D, P
  <2>3. TriedDigitIsClose'
    <3>1. (Value(v["X"]) \div (Divisor * Places[Place]))' = q
      BY <1>4, <1>10, <1>12, <1>14 DEF q, D, P
    <3> QED BY <1>8, <1>14, <3>1 DEF TriedDigitIsClose
  <2> QED BY <1>13, <2>1, <2>2, <2>3 DEF Tried
<1> QED BY <1>1, <1>11, <1>12, <1>13, <1>16 DEF DivisionInv

LEMMA PlaceShift ==
  ASSUME NEW X \in Mpis, NEW e \in Nat
  PROVE  /\ biL * e \in Nat
         /\ shift_l(X, biL * e) \in Mpis
         /\ Value(shift_l(X, biL * e)) = Value(X) * Places[e]
         /\ Len(shift_l(X, biL * e).p) >= Len(X.p)
<1> DEFINE c == biL * e
<1>1. e * biL \in Nat /\ Places[e] = TwoTo[e * biL]
  BY PlacesAreTwos
<1>2. c = e * biL
  BY BaseIsPositive
<1>3. c \in Nat /\ Places[e] = TwoTo[c]
  BY <1>1, <1>2
<1> HIDE DEF c
<1>4. /\ shift_l(X, c) \in Mpis /\ Value(shift_l(X, c)) = Value(X) * TwoTo[c]
      /\ Len(shift_l(X, c).p) >= Len(X.p)
  BY <1>3, ShiftLeftIs, ShiftLength
<1> QED BY <1>3, <1>4 DEF c

LEMMA ReducedIs ==
  ASSUME DivisionInv, pc = "lower"
  PROVE  /\ Reduced \in [Locals -> Mpis]
         /\ \A l \in {"Y", "Z", "T2"} : Reduced[l] = v[l]
         /\ Len(Reduced["T1"].p) >= 2 /\ Len(Reduced["X"].p) >= Len(v["X"].p)
         /\ Value(Reduced["X"])
              = Magnitude(v["X"].p) - At("Z", Place) * (Divisor * Places[Place])
<1> DEFINE e == Place  z == At("Z", e)  X == v["X"]  Y == v["Y"]  D == Divisor
           W == mul_int(v, "T1", "Y", z)
           f == [v EXCEPT !["T1"] = W]
           U == shift_l(W, biL * e)
           g == [f EXCEPT !["T1"] = U]
           V == sub_mpi(g, "X", "X", "T1")
<1>1. /\ DivisionTypeOK /\ Shaped /\ v \in [Locals -> Mpis] /\ z \in Limbs /\ z \in Nat
      /\ e \in Nat /\ Places[e] \in Nat /\ D \in Nat /\ Magnitude(Y.p) = D /\ Y.s = 1
      /\ Value(X) = Magnitude(X.p) /\ X \in Mpis /\ Y \in Mpis /\ v["T1"] \in Mpis
  <2>1. /\ DivisionTypeOK /\ Shaped /\ DigitFacts /\ v \in [Locals -> Mpis] /\ z \in Limbs
        /\ z \in Nat
    BY LowerFacts
  <2> QED BY <2>1, LocalNames DEF DigitFacts
<1>2. Value(Y) = D
  BY <1>1 DEF Value
<1>3. W \in Mpis /\ Value(W) = D * z /\ Len(W.p) >= Len(v["T1"].p)
  <2>1. W = product(v["T1"], Y, [s |-> 1, p |-> <<z>>])
    BY DEF mul_int
  <2>2. v["T1"] \in Mpis /\ Y \in Mpis /\ z \in Limbs
    BY <1>1
  <2> HIDE DEF W, z, Y
  <2>3. W \in Mpis /\ Value(W) = Value(Y) * z /\ Len(W.p) >= Len(v["T1"].p)
    BY <2>1, <2>2, MulIntIs
  <2> QED BY <1>2, <2>3
<1>4. Len(v["T1"].p) >= 2
  BY <1>1 DEF Shaped
<1>5. f["T1"] = W /\ Reduced = [g EXCEPT !["X"] = V]
  <2>1. f["T1"] = W
    BY <1>1, LocalNames
  <2> HIDE DEF W
  <2> QED BY <2>1 DEF Reduced, W
<1> HIDE DEF W, z, e, D
<1>6. U \in Mpis /\ Value(U) = (D * z) * Places[e] /\ Len(U.p) >= Len(W.p)
  BY <1>1, <1>3, PlaceShift, ZenonT(30)
<1>7. Len(U.p) >= 2
  <2>1. Len(U.p) \in Nat /\ Len(W.p) \in Nat /\ Len(v["T1"].p) \in Nat
    BY <1>1, <1>3, <1>6, MpiIs
  <2> QED BY <1>3, <1>4, <1>6, <2>1
<1> HIDE DEF U
<1>8. /\ g \in [Locals -> Mpis] /\ g["T1"] = U
      /\ \A l \in {"X", "Y", "Z", "T2"} : g[l] = v[l]
  BY <1>1, <1>3, <1>6 DEF Locals
<1> HIDE DEF g
<1>9. V \in Mpis /\ Value(V) = Value(X) - Value(U) /\ Len(V.p) >= Len(X.p)
  <2>1. "X" # "T1"
    OBVIOUS
  <2>2. V \in Mpis /\ Value(V) = Value(g["X"]) - Value(g["T1"])
    BY <1>8, <2>1, LocalNames, AddMpiIs
  <2>3. Len(V.p) >= Len(g["X"].p)
    BY <1>8, <2>1, LocalNames, SumLength
  <2> QED BY <1>8, <2>2, <2>3
<1> HIDE DEF V
<1>10. (D * z) * Places[e] = z * (D * Places[e])
  BY <1>1
<1>11. /\ Reduced \in [Locals -> Mpis] /\ Reduced["X"] = V /\ Reduced["T1"] = U
       /\ \A l \in {"Y", "Z", "T2"} : Reduced[l] = v[l]
  BY <1>5, <1>8, <1>9 DEF Locals
<1> QED BY <1>1, <1>6, <1>7, <1>9, <1>10, <1>11 DEF z, e, D

LEMMA SubtractDigitStep == DivisionInv /\ SubtractDigit => DivisionInv'
<1> SUFFICES ASSUME DivisionInv, SubtractDigit PROVE DivisionInv'
  OBVIOUS
<1> DEFINE e == Place  P == Places[e]  D == Divisor  E == D * P  X == v["X"]  Z == v["Z"]
           x == Magnitude(X.p)  m == Magnitude(Z.p)  q == x \div E  z == At("Z", e)
           a == Magnitude(A.p) * TwoTo[k]
           g == Reduced
<1>1. /\ pc = "lower" /\ cmp_int(g["X"], 0) >= 0 /\ UNCHANGED <<A, B, k, n, t, R>>
      /\ v' = g /\ i' = i - 1 /\ pc' = "estimate"
  BY DEF SubtractDigit, inputs
<1>2. /\ DivisionTypeOK /\ Shaped /\ Left /\ Tried /\ i > t /\ DigitFacts
      /\ z \in Nat /\ q \in Nat /\ z \in q..(q + 4) /\ x < (q + 1) * E
  BY <1>1, LowerFacts
<1>3. /\ g \in [Locals -> Mpis] /\ \A l \in {"Y", "Z", "T2"} : g[l] = v[l]
      /\ Len(g["T1"].p) >= 2 /\ Len(g["X"].p) >= Len(v["X"].p)
      /\ Value(g["X"]) = x - z * E
  BY <1>1, ReducedIs
<1>4. /\ e \in Nat /\ e + 1 = i - t /\ P \in Nat \ {0} /\ D \in Nat \ {0} /\ x \in Nat
      /\ Value(X) = x
  BY <1>2 DEF DigitFacts
<1>5. E \in Nat \ {0} /\ m \in Nat /\ t \in Nat /\ i \in Nat /\ n \in Nat
  <2>1. E \in Nat \ {0}
    BY <1>4
  <2> QED BY <1>2, <2>1, LocalNames, LocalFacts DEF DivisionTypeOK
<1> HIDE DEF e, P, D, E, x, m, z, g
<1>6. Value(g["X"]) >= 0
  <2>1. g["X"] \in Mpis
    BY <1>3, LocalNames
  <2>2. Value(g["X"]) \in Int
    BY <2>1, MpiIs
  <2> QED BY <1>1, <2>1, <2>2, CmpInt
<1>7. z = q
  <2>1. z * E <= x
    <3>1. z * E \in Nat
      BY <1>2, <1>5
    <3> QED BY <1>3, <1>4, <1>6, <3>1
  <2>2. z <= q
    BY <1>2, <1>4, <1>5, <2>1, FitsQuotient
  <2> HIDE DEF q
  <2> QED BY <1>2, <2>2
<1>8. Value(g["X"]) < E
  <2> HIDE DEF q
  <2>1. q * E \in Nat /\ (q + 1) * E = q * E + E
    BY <1>2, <1>5
  <2> QED BY <1>2, <1>3, <1>4, <1>5, <1>7, <2>1
<1>9. DivisionTypeOK'
  <2>1. i - 1 \in Nat
    BY <1>2, <1>5
  <2> QED BY <1>1, <1>2, <1>3, <2>1 DEF DivisionTypeOK
<1>10. Shaped' /\ Divisor' = Divisor
  <2>1. Len(v["X"].p)' >= Len(v["X"].p) /\ Len(v["Z"].p)' >= Len(v["Z"].p)
    <3>1. Len(v["X"].p) \in Nat /\ Len(v["Z"].p) \in Nat
      BY <1>2, LocalNames, LocalFacts
    <3> QED BY <1>1, <1>3, <3>1
  <2>2. Len(v["T1"].p)' >= 2 /\ Len(v["T2"].p)' >= 3
    BY <1>1, <1>2, <1>3 DEF Shaped
  <2> QED BY <1>1, <1>2, <1>9, <2>1, <2>2, ShapeStays
<1>11. Left'
  <2>1. t' <= i' /\ i' <= n' /\ i' - t' = e
    BY <1>1, <1>2, <1>4, <1>5 DEF Left
  <2>2. Value(v["Y"])' = Divisor'
    BY <1>1, <1>2, <1>3, <1>10 DEF Left
  <2>3. Value(v["X"])' >= 0 /\ Value(v["X"])' < Divisor' * Places[i' - t']
    BY <1>1, <1>6, <1>8, <1>10, <2>1 DEF E, D, P
  <2> QED BY <2>1, <2>2, <2>3 DEF Left
<1>12. Open(i - t)' /\ Splits(0)'
  <2>1. (i - t)' = e
    BY <1>1, <1>4, <1>5
  <2>2. Open(i - t)'
    BY <1>1, <1>2, <1>3, <2>1 DEF Tried, Open, e
  <2>3. a = (m - z * P) * D + x
    BY <1>2, <1>4 DEF Tried, Splits, D, P, z, e, m
  <2>4. a = (m - 0) * D + (x - z * E)
    <3>1. (m - z * P) * D + x = (m - 0) * D + (x - z * (D * P))
      BY <1>2, <1>4, <1>5
    <3> QED BY <2>3, <3>1 DEF E
  <2>5. (Magnitude(A.p) * TwoTo[k])' = a
    BY <1>1
  <2> QED BY <1>1, <1>3, <1>10, <2>2, <2>4, <2>5 DEF Splits, m, D
<1> QED BY <1>1, <1>9, <1>10, <1>11, <1>12 DEF DivisionInv

LEMMA BaseIsTwoOrFour == Base = 2 \/ Base >= 4
<1> DEFINE h == biL - 1  l == biL - 2
<1>1. biL \in Nat \ {0} /\ Base = TwoTo[biL]
  BY BaseIsPositive
<1>2. h \in Nat /\ h + 1 = biL
  BY <1>1
<1>3. Base = 2 * TwoTo[h]
  <2> HIDE DEF h
  <2>1. TwoTo[h + 1] = 2 * TwoTo[h]
    BY <1>2, TwoToAt
  <2> QED BY <1>1, <1>2, <2>1
<1>4. CASE h = 0
  <2>1. TwoTo[0] = 1
    BY TwoToIsDefined
  <2> QED BY <1>3, <1>4, <2>1
<1>5. CASE h # 0
  <2>1. l \in Nat /\ l + 1 = h
    BY <1>2, <1>5
  <2> HIDE DEF l, h
  <2>2. TwoTo[l + 1] = 2 * TwoTo[l] /\ TwoTo[l] \in Nat \ {0}
    BY <2>1, TwoToAt
  <2> QED BY <1>3, <2>1, <2>2
<1> QED BY <1>4, <1>5

LEMMA SumOfLocals ==
  ASSUME NEW f \in [Locals -> Mpis]
  PROVE  /\ add_mpi(f, "X", "X", "T1") \in Mpis
         /\ Value(add_mpi(f, "X", "X", "T1")) = Value(f["X"]) + Value(f["T1"])
         /\ Len(add_mpi(f, "X", "X", "T1").p) >= Len(f["X"].p)
<1>1. "X" # "T1" /\ "X" \in Locals /\ "T1" \in Locals
  BY LocalNames
<1> QED BY <1>1, AddMpiIs, SumLength

\* X and T1 after the addition that gives Y back.
LEMMA GivenBack ==
  ASSUME DivisionInv, pc = "lower",
         NEW g, g = [Reduced EXCEPT !["T1"] = shift_l(copy(@, v["Y"]), biL * Place)],
         NEW u, u = [g EXCEPT !["X"] = add_mpi(g, "X", "X", "T1")]
  PROVE  /\ u \in [Locals -> Mpis] /\ \A l \in {"Y", "Z", "T2"} : u[l] = v[l]
         /\ Len(u["T1"].p) >= 2 /\ Len(u["X"].p) >= Len(v["X"].p)
         /\ Value(u["X"]) = Value(Reduced["X"]) + Divisor * Places[Place]
<1> DEFINE e == Place  Y == v["Y"]  D == Divisor  f == Reduced
           C == copy(f["T1"], Y)
           U == shift_l(C, biL * e)
           V == add_mpi(g, "X", "X", "T1")
<1>1. /\ DivisionTypeOK /\ v \in [Locals -> Mpis]
      /\ e \in Nat /\ D \in Nat \ {0} /\ Magnitude(Y.p) = D /\ Y.s = 1 /\ Y \in Mpis
  <2>1. DivisionTypeOK /\ DigitFacts /\ v \in [Locals -> Mpis]
    BY LowerFacts
  <2> QED BY <2>1, LocalNames DEF DigitFacts
<1>2. /\ f \in [Locals -> Mpis] /\ \A l \in {"Y", "Z", "T2"} : f[l] = v[l]
      /\ Len(f["T1"].p) >= 2 /\ Len(f["X"].p) >= Len(v["X"].p)
  BY ReducedIs
<1>3. Value(Y) = D
  BY <1>1 DEF Value
<1>4. f["T1"] \in Mpis /\ f["X"] \in Mpis
  BY <1>2, LocalNames
<1>5. g = [f EXCEPT !["T1"] = U]
  OBVIOUS
<1> HIDE DEF e, D, f, Y
<1>6. C \in Mpis /\ Value(C) = D /\ Len(C.p) >= 2
  <2>1. C \in Mpis /\ Value(C) = Value(Y)
    BY <1>1, <1>4, CopyIs
  <2>2. Len(C.p) = IF Len(f["T1"].p) >= Used(Y.p) THEN Len(f["T1"].p) ELSE Used(Y.p)
    BY <1>1, <1>4, CopyLength
  <2>3. Len(f["T1"].p) \in Nat /\ Used(Y.p) \in Nat
    <3>1. Y.p \in Seq(Limbs)
      BY <1>1, MpiIs
    <3> QED BY <1>4, <3>1, MpiIs, UsedIs
  <2> HIDE DEF C
  <2> QED BY <1>2, <1>3, <2>1, <2>2, <2>3
<1> HIDE DEF C
<1>7. U \in Mpis /\ Value(U) = D * Places[e] /\ Len(U.p) >= 2
  <2>1. U \in Mpis /\ Value(U) = Value(C) * Places[e] /\ Len(U.p) >= Len(C.p)
    BY <1>1, <1>6, PlaceShift
  <2> HIDE DEF U
  <2>2. Len(U.p) \in Nat /\ Len(C.p) \in Nat
    BY <1>6, <2>1, MpiIs
  <2> QED BY <1>6, <2>1, <2>2
<1> HIDE DEF U
<1>8. /\ g \in [Locals -> Mpis] /\ g["T1"] = U /\ g["X"] = f["X"]
      /\ \A l \in {"Y", "Z", "T2"} : g[l] = f[l]
  BY <1>2, <1>5, <1>7 DEF Locals
<1>9. V \in Mpis /\ Value(V) = Value(f["X"]) + D * Places[e] /\ Len(V.p) >= Len(v["X"].p)
  <2>1. g \in [Locals -> Mpis]
    BY <1>8
  <2>2. /\ V \in Mpis /\ Value(V) = Value(g["X"]) + Value(g["T1"])
        /\ Len(V.p) >= Len(g["X"].p)
    BY <2>1, SumOfLocals
  <2> HIDE DEF V
  <2>4. Len(V.p) \in Nat /\ Len(f["X"].p) \in Nat /\ Len(v["X"].p) \in Nat
    <3>1. v["X"] \in Mpis
      BY <1>1, LocalNames
    <3> QED BY <1>4, <2>2, <3>1, MpiIs
  <2> QED BY <1>2, <1>7, <1>8, <2>2, <2>4
<1> HIDE DEF V
<1>10. u = [g EXCEPT !["X"] = V]
  BY DEF V
<1>11. /\ u \in [Locals -> Mpis] /\ u["X"] = V /\ u["T1"] = U
       /\ \A l \in {"Y", "Z", "T2"} : u[l] = v[l]
  BY <1>2, <1>8, <1>9, <1>10 DEF Locals
<1> QED BY <1>7, <1>9, <1>11 DEF e, D, f

LEMMA AddBackStep == DivisionInv /\ AddBack => DivisionInv'
<1> SUFFICES ASSUME DivisionInv, AddBack PROVE DivisionInv'
  OBVIOUS
<1> DEFINE e == Place  P == Places[e]  D == Divisor  S == Places[t]  E == D * P
           X == v["X"]  Z == v["Z"]
           x == Magnitude(X.p)  m == Magnitude(Z.p)  q == x \div E  z == At("Z", e)
           a == Magnitude(A.p) * TwoTo[k]
           h == [Reduced EXCEPT !["T1"] = shift_l(copy(@, v["Y"]), biL * Place)]
           u == [h EXCEPT !["X"] = add_mpi(h, "X", "X", "T1")]
           w == (z - 1) % Base
           f == LimbAs(u, "Z", e, w)
<1>1. /\ pc = "lower" /\ ~TooHigh /\ cmp_int(Reduced["X"], 0) < 0
      /\ UNCHANGED <<A, B, k, n, t, R>> /\ i' = i - 1 /\ pc' = "estimate"
      /\ v' = Restored(u)
  BY DEF AddBack, inputs
<1>2. /\ DivisionTypeOK /\ Shaped /\ Left /\ Tried /\ i > t /\ DigitFacts /\ LimbsRead
      /\ z \in Nat /\ z < Base /\ q \in Nat /\ z \in q..(q + 4)
      /\ q * E <= x /\ x < (q + 1) * E
  BY <1>1, LowerFacts
<1>3. /\ u \in [Locals -> Mpis] /\ \A l \in {"Y", "Z", "T2"} : u[l] = v[l]
      /\ Len(u["T1"].p) >= 2 /\ Len(u["X"].p) >= Len(v["X"].p)
      /\ Value(u["X"]) = Value(Reduced["X"]) + E
  <2> HIDE DEF u, h
  <2> QED BY <1>1, GivenBack DEF u, h
<1>4. v' = f
  <2> HIDE DEF u
  <2>1. v' = [u EXCEPT !["Z"].p[Place + 1] = (@ - 1) % Base]
    BY <1>1 DEF Restored
  <2>2. u["Z"].p[Place + 1] = z
    BY <1>3 DEF At
  <2> HIDE DEF z
  <2> QED BY <2>1, <2>2 DEF LimbAs
<1> HIDE DEF h, u
<1>5. Reduced["X"] \in Mpis /\ Value(Reduced["X"]) = x - z * E
  BY <1>1, ReducedIs, LocalNames
<1>6. /\ e \in Nat /\ e + 1 = i - t /\ P \in Nat \ {0} /\ D \in Nat \ {0} /\ S \in Nat \ {0}
      /\ x \in Nat /\ Value(X) = x /\ e < Len(Z.p) /\ S * Base <= 4 * D
      /\ Leading(ThreeLimbs(X.p, i), S * P, x * Base)
      /\ Leading(TwoLimbs(v["Y"].p, t), S, D * Base)
      /\ ThreeLimbs(X.p, i) \in Nat /\ TwoLimbs(v["Y"].p, t) \in Nat
  BY <1>2 DEF DigitFacts
<1>7. E \in Nat \ {0} /\ m \in Nat /\ t \in Nat /\ i \in Nat /\ n \in Nat
  <2>1. E \in Nat \ {0}
    BY <1>6
  <2> QED BY <1>2, <2>1, LocalNames, LocalFacts DEF DivisionTypeOK
<1>8. z = Limb(Z.p, e + 1)
  BY <1>2 DEF LimbsRead
<1> HIDE DEF e, P, D, S, x, z, m
<1>9. z > q
  <2> HIDE DEF E
  <2>1. Value(Reduced["X"]) < 0
    <3>1. Value(Reduced["X"]) \in Int
      BY <1>5, MpiIs
    <3> QED BY <1>1, <1>5, <3>1, CmpInt
  <2>2. ~(z * E <= x)
    <3>1. z * E \in Nat
      BY <1>2, <1>7
    <3> QED BY <1>5, <1>6, <2>1, <3>1
  <2>3. ~(z <= q)
    <3>1. x \in Nat /\ E \in Nat \ {0} /\ z \in Int
      BY <1>2, <1>6, <1>7
    <3> QED BY <2>2, <3>1, FitsQuotient
  <2> HIDE DEF q
  <2> QED BY <1>2, <2>3
<1>10. z <= q + 1
  <2> DEFINE c == ThreeLimbs(X.p, i)  y == TwoLimbs(v["Y"].p, t)
  <2>1. c \in Nat /\ y \in Nat /\ Leading(c, S * P, x * Base) /\ Leading(y, S, D * Base)
    BY <1>6
  <2>2. ~(z * y > c)
    BY <1>1, TooHighIs DEF z, e
  <2> HIDE DEF c, y
  <2>3. z * y <= c
    <3>1. z * y \in Nat
      BY <1>2, <2>1
    <3> QED BY <2>1, <2>2, <3>1
  <2> HIDE DEF q
  <2>4. Base \in Nat /\ (Base = 2 \/ Base >= 4)
    BY BaseIsBig, BaseIsTwoOrFour
  <2> QED BY <1>2, <1>6, <2>1, <2>3, <2>4, TestedIsClose DEF q, E
<1>11. w = q /\ z = q + 1 /\ w \in Limbs /\ w \in Nat
  <2> HIDE DEF q
  <2>1. z - 1 = q /\ q < Base
    <3>1. z \in Nat /\ q \in Nat /\ z < Base
      BY <1>2
    <3> QED BY <1>9, <1>10, <3>1, BaseIsBig
  <2>2. (z - 1) % Base = q
    BY <1>2, <2>1, BaseIsBig
  <2> QED BY <1>2, <2>1, <2>2, LimbsAreSmall
<1> HIDE DEF w, q
<1>12. Value(u["X"]) = x - w * E /\ x - w * E >= 0 /\ x - w * E < E
  <2> HIDE DEF E
  <2> DEFINE c == w * E
  <2>1. c \in Nat /\ z * E = c + E /\ (w + 1) * E = c + E
    <3>1. w \in Nat /\ z = w + 1 /\ E \in Nat
      BY <1>7, <1>11
    <3> QED BY <3>1
  <2>2. c <= x /\ x < (w + 1) * E
    BY <1>2, <1>11
  <2>3. x \in Nat /\ E \in Nat /\ Value(u["X"]) = (x - z * E) + E
    BY <1>3, <1>5, <1>6, <1>7
  <2> HIDE DEF c
  <2>4. Value(u["X"]) = x - c /\ x - c >= 0 /\ x - c < E
    BY <2>1, <2>2, <2>3
  <2> QED BY <2>4 DEF c
<1> HIDE DEF E
<1>13. /\ f \in [Locals -> Mpis] /\ \A l \in Locals : l # "Z" => f[l] = u[l]
       /\ Len(f["Z"].p) = Len(Z.p)
       /\ \A j \in Nat : Limb(f["Z"].p, j) = IF j = e + 1 THEN w ELSE Limb(Z.p, j)
       /\ Magnitude(f["Z"].p) = m + (w - Limb(Z.p, e + 1)) * P
  <2>1. e < Len(u["Z"].p) /\ "Z" \in Locals /\ u["Z"] = Z
    BY <1>3, <1>6, LocalNames
  <2> HIDE DEF f, Z
  <2>2. /\ f \in [Locals -> Mpis] /\ \A l \in Locals : l # "Z" => f[l] = u[l]
        /\ Len(f["Z"].p) = Len(u["Z"].p)
        /\ \A j \in Nat : Limb(f["Z"].p, j) = IF j = e + 1 THEN w ELSE Limb(u["Z"].p, j)
        /\ Magnitude(f["Z"].p)
             = Magnitude(u["Z"].p) + (w - Limb(u["Z"].p, e + 1)) * Places[e]
    <3>1. f = LimbAs(u, "Z", e, w)
      BY DEF f
    <3>2. u \in [Locals -> Mpis] /\ e \in Nat /\ w \in Limbs
      BY <1>3, <1>6, <1>11
    <3> QED BY <2>1, <3>1, <3>2, LimbSet
  <2> QED BY <2>1, <2>2 DEF m, P
<1> HIDE DEF f
<1>14. /\ v' \in [Locals -> Mpis] /\ v'["X"] = u["X"] /\ v'["Y"] = v["Y"] /\ v'["Z"] = f["Z"]
       /\ v'["T1"] = u["T1"] /\ v'["T2"] = v["T2"]
  BY <1>3, <1>4, <1>13, LocalNames
<1>15. DivisionTypeOK'
  <2>1. i - 1 \in Nat
    BY <1>2, <1>7
  <2> QED BY <1>1, <1>2, <1>14, <2>1 DEF DivisionTypeOK
<1>16. Shaped' /\ Divisor' = Divisor
  <2>1. Len(v["X"].p)' >= Len(v["X"].p) /\ Len(v["Z"].p)' >= Len(v["Z"].p)
    <3>1. Len(v["X"].p) \in Nat /\ Len(v["Z"].p) \in Nat
      BY <1>2, LocalNames, LocalFacts
    <3> QED BY <1>3, <1>13, <1>14, <3>1
  <2>2. Len(v["T1"].p)' >= 2 /\ Len(v["T2"].p)' >= 3
    BY <1>2, <1>3, <1>14 DEF Shaped
  <2> QED BY <1>1, <1>2, <1>15, <2>1, <2>2, ShapeStays
<1>17. Left'
  <2>1. t' <= i' /\ i' <= n' /\ i' - t' = e
    BY <1>1, <1>2, <1>6, <1>7 DEF Left
  <2>2. Value(v["Y"])' = Divisor'
    BY <1>2, <1>14, <1>16 DEF Left
  <2>3. Value(v["X"])' >= 0 /\ Value(v["X"])' < Divisor' * Places[i' - t']
    BY <1>12, <1>14, <1>16, <2>1 DEF E, D, P
  <2> QED BY <2>1, <2>2, <2>3 DEF Left
<1>18. Open(i - t)' /\ Splits(0)'
  <2>1. (i - t)' = e
    BY <1>1, <1>6, <1>7
  <2>2. Open(i - t)'
    <3>1. \A j \in 1..e : Limb(Z.p, j) = 0
      BY <1>2 DEF Tried, Open, e
    <3> HIDE DEF Z
    <3>2. \A j \in 1..e : Limb(f["Z"].p, j) = 0
      BY <1>6, <1>13, <3>1, StaysOpen
    <3> QED BY <1>14, <2>1, <3>2 DEF Open
  <2>3. a = (m - z * P) * D + x
    BY <1>2, <1>6 DEF Tried, Splits, D, P, z, e, m
  <2>4. a = (Magnitude(f["Z"].p) - 0) * D + (x - w * E)
    <3>1. Magnitude(f["Z"].p) = m + (w - z) * P
      BY <1>8, <1>13
    <3>2. (m - z * P) * D + x = ((m + (w - z) * P) - 0) * D + (x - w * (D * P))
      BY <1>2, <1>6, <1>7, <1>11
    <3> QED BY <2>3, <3>1, <3>2 DEF E
  <2>5. (Magnitude(A.p) * TwoTo[k])' = a
    BY <1>1
  <2> QED BY <1>12, <1>14, <1>16, <2>2, <2>4, <2>5 DEF Splits, D
<1> QED BY <1>1, <1>15, <1>16, <1>17, <1>18 DEF DivisionInv

\* What the remainder of the shifted operands says of the operands.
LEMMA Unscaled ==
  ASSUME NEW a \in Nat, NEW b \in Nat \ {0}, NEW w \in Nat \ {0}, NEW m \in Nat,
         NEW x \in Nat, a * w = (m - 0) * (b * w) + x, x < b * w
  PROVE  x \div w = a - m * b /\ a - m * b \in 0..(b - 1)
<1> DEFINE c == a - m * b
<1>1. c \in Int /\ x = c * w
  OBVIOUS
<1> HIDE DEF c
<1>2. c >= 0
  <2> SUFFICES ASSUME c <= -1 PROVE FALSE
    BY <1>1
  <2>1. c * w <= (-1) * w /\ c * w \in Int
    BY <1>1
  <2> QED BY <1>1, <2>1
<1>3. c < b
  <2> SUFFICES ASSUME c >= b PROVE FALSE
    BY <1>1
  <2>1. c * w >= b * w /\ c * w \in Int /\ b * w \in Int
    BY <1>1
  <2> QED BY <1>1, <2>1
<1>4. x \div w = c
  <2>1. 0 \in 0..(w - 1) /\ x = w * c + 0
    BY <1>1
  <2>2. (w * c + 0) \div w = c
    BY <1>1, <2>1, QuotientUnique
  <2> QED BY <2>1, <2>2
<1> QED BY <1>1, <1>2, <1>3, <1>4 DEF c

LEMMA SignedIs ==
  ASSUME NEW X \in Mpis
  PROVE  Signed(X) \in Mpis /\ Value(Signed(X)) = Value(X)
<1> DEFINE Y == [X EXCEPT !.s = 1]
<1>1. Signed(X) = IF Value(X) = 0 THEN Y ELSE X
  <2>1. Value(X) \in Int
    BY MpiIs
  <2> QED BY <2>1, CmpInt DEF Signed
<1>2. Y \in Mpis /\ Y.s = 1 /\ Y.p = X.p
  BY MpiWithSign
<1> HIDE DEF Y
<1>3. Value(X) = 0 => Value(Y) = 0
  <2>1. X.s \in {1, -1} /\ Magnitude(X.p) \in Nat
    BY MpiIs
  <2> QED BY <1>2, <2>1 DEF Value
<1> QED BY <1>1, <1>2, <1>3

LEMMA RemainderStep == DivisionInv /\ Remainder => DivisionInv'
<1> SUFFICES ASSUME DivisionInv, Remainder PROVE DivisionInv'
  OBVIOUS
<1> DEFINE X == v["X"]  x == Magnitude(X.p)  m == Magnitude(v["Z"].p)
           a == Magnitude(A.p)  b == Magnitude(B.p)  w == TwoTo[k]  c == a - m * b
           U == shift_r(X, k)
           W == [U EXCEPT !.s = A.s]
           C == copy(R, W)
<1>1. /\ pc = "estimate" /\ i <= t /\ UNCHANGED <<A, B, v, k, n, t, i>> /\ pc' = "reduce"
      /\ R' = Signed(C)
  BY DEF Remainder, Unshifted, inputs
<1>2. DivisionTypeOK /\ Left /\ Splits(0)
  BY <1>1 DEF DivisionInv
<1>3. /\ a \in Nat /\ b \in Nat \ {0} /\ w \in Nat \ {0} /\ m \in Nat /\ x \in Nat
      /\ X \in Mpis /\ k \in Nat /\ R \in Mpis /\ A \in Mpis /\ A.s \in {1, -1}
      /\ Value(X) \in Int /\ Value(A) = A.s * a
  <2>1. A \in Mpis /\ R \in Mpis /\ k \in Nat
    BY <1>2 DEF DivisionTypeOK
  <2> QED BY <1>2, <2>1, OperandFacts, LocalNames, LocalFacts, MpiIs DEF Value
<1>4. x = Value(X) /\ Value(X) < b * w
  <2>1. i - t = 0 /\ Value(X) >= 0 /\ Value(X) < (b * w) * Places[i - t]
    BY <1>1, <1>2 DEF Left, DivisionTypeOK, Divisor
  <2>2. Places[0] = 1 /\ b * w \in Nat
    BY <1>3, PlacesAre
  <2> HIDE DEF X, b, w
  <2>3. x = Value(X)
    BY <1>3, <2>1, Positive
  <2> QED BY <2>1, <2>2, <2>3
<1>5. a * w = (m - 0) * (b * w) + x
  BY <1>2, <1>4 DEF Splits, Divisor
<1> HIDE DEF a, b, w, m, x, X
<1>6. x \div w = c /\ c \in 0..(b - 1)
  BY <1>3, <1>4, <1>5, Unscaled
<1>7. U \in Mpis /\ Magnitude(U.p) = c
  <2> HIDE DEF c
  <2> QED BY <1>3, <1>6, ShiftRightIs DEF x, w
<1> HIDE DEF c, U
<1>8. W \in Mpis /\ Value(W) = A.s * c
  <2>1. W \in Mpis /\ W.s = A.s /\ W.p = U.p
    BY <1>3, <1>7, MpiWithSign
  <2> HIDE DEF W
  <2> QED BY <1>7, <2>1 DEF Value
<1> HIDE DEF W
<1>9. C \in Mpis /\ Value(C) = A.s * c
  BY <1>3, <1>8, CopyIs
<1> HIDE DEF C
<1>10. R' \in Mpis /\ Value(R') = A.s * c
  BY <1>1, <1>9, SignedIs
<1>11. Congruent(A.s * c, A.s * a, b)
  <2> DEFINE s == A.s  z == -(s * m)
  <2>1. s \in Int /\ z \in Int /\ c = a - m * b
    BY <1>3 DEF c
  <2>2. s * c = s * a + b * z
    <3> HIDE DEF s
    <3> QED BY <1>3, <2>1
  <2> HIDE DEF s, z
  <2> QED BY <2>1, <2>2 DEF Congruent, s
<1>12. DivisionTypeOK'
  BY <1>1, <1>2, <1>10 DEF DivisionTypeOK
<1>13. Congruent(Value(R), Value(A), Magnitude(B.p))'
  BY <1>1, <1>3, <1>10, <1>11 DEF b
<1> QED BY <1>1, <1>12, <1>13 DEF DivisionInv

LEMMA ReduceFacts ==
  ASSUME DivisionInv, pc = "reduce"
  PROVE  /\ DivisionTypeOK /\ Congruent(Value(R), Value(A), Magnitude(B.p))
         /\ R \in Mpis /\ B \in Mpis /\ Value(B) = Magnitude(B.p)
         /\ Value(R) \in Int /\ Value(A) \in Int /\ Magnitude(B.p) \in Nat \ {0}
         /\ add_mpi(Both, "R", "R", "B") \in Mpis
         /\ Value(add_mpi(Both, "R", "R", "B")) = Value(R) + Magnitude(B.p)
         /\ sub_mpi(Both, "R", "R", "B") \in Mpis
         /\ Value(sub_mpi(Both, "R", "R", "B")) = Value(R) - Magnitude(B.p)
<1>1. DivisionTypeOK /\ Congruent(Value(R), Value(A), Magnitude(B.p))
  BY DEF DivisionInv
<1>2. R \in Mpis /\ B \in Mpis
  BY <1>1 DEF DivisionTypeOK
<1>3. /\ Value(B) = Magnitude(B.p) /\ Value(R) \in Int /\ Value(A) \in Int
      /\ Magnitude(B.p) \in Nat \ {0}
  BY <1>1, OperandFacts
<1> DEFINE S == {"R", "B"}  g == Both
<1>4. /\ g \in [S -> Mpis] /\ g["R"] = R /\ g["B"] = B
      /\ "R" \in S /\ "B" \in S /\ "R" # "B"
  <2>1. g = [l \in S |-> IF l = "R" THEN R ELSE B]
    BY DEF Both
  <2> QED BY <1>2, <2>1
<1> HIDE DEF S, g
<1>5. /\ add_mpi(g, "R", "R", "B") \in Mpis
      /\ Value(add_mpi(g, "R", "R", "B")) = Value(R) + Value(B)
      /\ sub_mpi(g, "R", "R", "B") \in Mpis
      /\ Value(sub_mpi(g, "R", "R", "B")) = Value(R) - Value(B)
  BY <1>4, AddMpiIs
<1> QED BY <1>1, <1>2, <1>3, <1>5 DEF g

LEMMA CongruentShifted ==
  ASSUME NEW m \in Nat \ {0}, NEW x \in Int, NEW y \in Int, Congruent(x, y, m)
  PROVE  Congruent(x + m, y, m) /\ Congruent(x - m, y, m)
<1>1. PICK z \in Int : x = y + m * z
  BY DEF Congruent
<1>2. x + m = y + m * (z + 1) /\ x - m = y + m * (z - 1) /\ z + 1 \in Int /\ z - 1 \in Int
  BY <1>1
<1> QED BY <1>2 DEF Congruent

LEMMA RaiseStep == DivisionInv /\ Raise => DivisionInv'
<1> SUFFICES ASSUME DivisionInv, Raise PROVE DivisionInv'
  OBVIOUS
<1>1. /\ pc = "reduce" /\ UNCHANGED <<pc, A, B, v, k, n, t, i>>
      /\ R' = add_mpi(Both, "R", "R", "B")
  BY DEF Raise, inputs
<1>2. /\ DivisionTypeOK /\ Congruent(Value(R), Value(A), Magnitude(B.p))
      /\ Value(R) \in Int /\ Value(A) \in Int /\ Magnitude(B.p) \in Nat \ {0}
      /\ R' \in Mpis /\ Value(R') = Value(R) + Magnitude(B.p)
  BY <1>1, ReduceFacts
<1>3. DivisionTypeOK'
  BY <1>1, <1>2 DEF DivisionTypeOK
<1>4. Congruent(Value(R), Value(A), Magnitude(B.p))'
  <2>1. Congruent(Value(R) + Magnitude(B.p), Value(A), Magnitude(B.p))
    BY <1>2, CongruentShifted
  <2> QED BY <1>1, <1>2, <2>1
<1> QED BY <1>1, <1>3, <1>4 DEF DivisionInv

LEMMA ReduceStep == DivisionInv /\ Reduce => DivisionInv'
<1> SUFFICES ASSUME DivisionInv, Reduce PROVE DivisionInv'
  OBVIOUS
<1>1. /\ pc = "reduce" /\ cmp_int(R, 0) >= 0 /\ UNCHANGED <<A, B, v, k, n, t, i>>
      /\ IF cmp_mpi(R, B) >= 0
         THEN R' = sub_mpi(Both, "R", "R", "B") /\ pc' = pc
         ELSE pc' = "done" /\ R' = R
  BY DEF Reduce, inputs
<1>2. /\ DivisionTypeOK /\ Congruent(Value(R), Value(A), Magnitude(B.p))
      /\ Value(R) \in Int /\ Value(A) \in Int /\ Magnitude(B.p) \in Nat \ {0}
      /\ R \in Mpis /\ B \in Mpis /\ Value(B) = Magnitude(B.p)
      /\ sub_mpi(Both, "R", "R", "B") \in Mpis
      /\ Value(sub_mpi(Both, "R", "R", "B")) = Value(R) - Magnitude(B.p)
  BY <1>1, ReduceFacts
<1>3. CASE cmp_mpi(R, B) >= 0
  <2>1. /\ pc' = "reduce" /\ R' \in Mpis /\ Value(R') = Value(R) - Magnitude(B.p)
    BY <1>1, <1>2, <1>3
  <2>2. DivisionTypeOK'
    BY <1>1, <1>2, <2>1 DEF DivisionTypeOK
  <2>3. Congruent(Value(R), Value(A), Magnitude(B.p))'
    <3>1. Congruent(Value(R) - Magnitude(B.p), Value(A), Magnitude(B.p))
      BY <1>2, CongruentShifted
    <3> QED BY <1>1, <2>1, <3>1
  <2> QED BY <2>1, <2>2, <2>3 DEF DivisionInv
<1>4. CASE ~(cmp_mpi(R, B) >= 0)
  <2>1. pc' = "done" /\ R' = R
    BY <1>1, <1>4
  <2>2. DivisionTypeOK'
    BY <1>1, <1>2, <2>1 DEF DivisionTypeOK
  <2>3. Value(R) >= 0
    BY <1>1, <1>2, CmpInt
  <2>4. Value(R) < Magnitude(B.p)
    BY <1>2, <1>4, CmpMpi
  <2>5. (Value(R) \in 0..(Magnitude(B.p) - 1))'
    BY <1>1, <1>2, <2>1, <2>3, <2>4
  <2>6. Congruent(Value(R), Value(A), Magnitude(B.p))'
    BY <1>1, <1>2, <2>1
  <2> QED BY <2>1, <2>2, <2>5, <2>6 DEF DivisionInv
<1> QED BY <1>3, <1>4

LEMMA DivisionStutters == DivisionInv /\ UNCHANGED divisionVars => DivisionInv'
<1> SUFFICES ASSUME DivisionInv, UNCHANGED divisionVars PROVE DivisionInv'
  OBVIOUS
<1>1. UNCHANGED <<pc, A, B, v, k, n, t, i, R>>
  BY DEF divisionVars
<1> QED BY <1>1 DEF DivisionInv, DivisionTypeOK, Shaped, AtTop, Left, Tried, Open, Splits,
           TriedDigitIsClose, Place, At, Divisor

\* DivisionInv is inductive.
LEMMA DivisionKeeps == DivisionSpec => []DivisionInv
<1>1. DivisionInv /\ [DivisionNext]_divisionVars => DivisionInv'
  BY SmallStep, NormaliseStep, TopDigitStep, TopDoneStep, EstimateStep, LowerStep,
     SubtractDigitStep, AddBackStep, RemainderStep, RaiseStep, ReduceStep, DivisionStutters
     DEF DivisionNext
<1> QED BY <1>1, DivisionStarts, PTL DEF DivisionSpec

(***************************************************************************)
(* The long division: what the digits found so far take from |A| and what  *)
(* is left of X always add up to it, what is left is small enough for one  *)
(* digit, and the digit being tried is never too low and at most four too  *)
(* high, whatever the estimate, the loop that lowers it and the addition   *)
(* that takes one back did (bignum.c:1241-1335).                           *)
(***************************************************************************)
THEOREM DigitsStayBalanced == DivisionSpec => []DigitsBalance
<1>1. DivisionInv => DigitsBalance
  <2> SUFFICES ASSUME DivisionInv PROVE DigitsBalance
    OBVIOUS
  <2>1. Balanced
    <3> SUFFICES ASSUME pc \in {"top", "estimate"}
                 PROVE  Magnitude(A.p) * TwoTo[k]
                          = Magnitude(v["Z"].p) * Divisor + Value(v["X"])
      BY DEF Balanced
    <3>1. Splits(0) /\ DivisionTypeOK
      BY DEF DivisionInv, AtTop
    <3>2. Magnitude(v["Z"].p) - 0 = Magnitude(v["Z"].p)
      <4>1. Magnitude(v["Z"].p) \in Nat
        BY <3>1, LocalNames, LocalFacts
      <4> QED BY <4>1
    <3> QED BY <3>1, <3>2 DEF Splits
  <2>2. NextDigitFits
    BY DEF DivisionInv, Left, NextDigitFits
  <2>3. TriedDigitIsClose
    BY DEF DivisionInv, Tried, TriedDigitIsClose
  <2> QED BY <2>1, <2>2, <2>3 DEF DigitsBalance
<1> QED BY <1>1, DivisionKeeps, PTL

\* What mpi_mod_mpi leaves in R is the residue of A that is not negative, for
\* dividends of either sign (bignum.c:1384-1402).
THEOREM RemaindersAreResidues == DivisionSpec => []IsResidue
<1>1. DivisionInv => IsResidue
  <2> SUFFICES ASSUME DivisionInv, pc = "done" PROVE Value(R) = Value(A) % Value(B)
    BY DEF IsResidue
  <2>1. /\ DivisionTypeOK /\ Congruent(Value(R), Value(A), Magnitude(B.p))
        /\ Value(R) \in 0..(Magnitude(B.p) - 1)
    BY DEF DivisionInv
  <2>2. /\ Value(R) \in Int /\ Value(A) \in Int /\ Magnitude(B.p) \in Nat \ {0}
        /\ Value(B) = Magnitude(B.p)
    BY <2>1, OperandFacts
  <2>3. Value(R) % Magnitude(B.p) = Value(A) % Magnitude(B.p)
    BY <2>1, <2>2, Congruences
  <2>4. Value(R) % Magnitude(B.p) = Value(R)
    <3> DEFINE c == Value(R)  b == Magnitude(B.p)
    <3>1. c \in 0..(b - 1) /\ b \in Nat \ {0} /\ c = b * 0 + c
      BY <2>1, <2>2
    <3> HIDE DEF c, b
    <3>2. (b * 0 + c) % b = c
      BY <3>1, QuotientUnique
    <3> QED BY <3>1, <3>2 DEF b, c
  <2> QED BY <2>2, <2>3, <2>4
<1> QED BY <1>1, DivisionKeeps, PTL
=============================================================================
