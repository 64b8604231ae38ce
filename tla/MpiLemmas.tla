------------------------------ MODULE MpiLemmas ------------------------------
(***************************************************************************)
(* What the functions of Mpi compute, for limbs of every size and mpis of  *)
(* every length.                                                           *)
(***************************************************************************)
EXTENDS Mpi, Lemmas

LEMMA TwoToAt ==
  ASSUME NEW n \in Nat
  PROVE  TwoTo[n] \in Nat \ {0} /\ TwoTo[n + 1] = 2 * TwoTo[n]
BY TwoToIsDefined

LEMMA TwoToSum ==
  ASSUME NEW m \in Nat, NEW n \in Nat
  PROVE  TwoTo[m + n] = TwoTo[m] * TwoTo[n]
BY TwoToIsDefined

LEMMA BaseIsPositive ==
  /\ biL \in Nat \ {0}
  /\ Base = TwoTo[biL] /\ Base \in Nat \ {0}
<1>1. biL \in Nat \ {0}
  BY LimbAssumption DEF biL
<1>2. TwoTo[biL] \in Nat \ {0}
  BY <1>1, TwoToAt
<1> QED BY <1>1, <1>2 DEF Base

----------------------------------------------------------------------------
(* The integer of a sequence of limbs. *)

LEMMA LimbsAreNatural ==
  ASSUME NEW p \in Seq(Limbs)
  PROVE  Len(p) \in Nat /\ \A k \in 1..Len(p) : p[k] \in 0..(Base - 1)
<1>1. Len(p) \in Nat /\ \A k \in 1..Len(p) : p[k] \in Limbs
  OBVIOUS
<1> QED BY <1>1 DEF Limbs

\* TopLimbs gathers the limbs from the most significant one.
LEMMA TopLimbsAreDefined ==
  ASSUME NEW p \in Seq(Limbs)
  PROVE  /\ TopLimbs(p)[0] = 0
         /\ \A k \in 0..(Len(p) - 1) :
              TopLimbs(p)[k + 1] = Base * TopLimbs(p)[k] + p[Len(p) - k]
         /\ \A k \in 0..Len(p) : TopLimbs(p)[k] \in Nat
<1> DEFINE n == Len(p)
           zero == 0
           Step == [s \in Nat \X Nat |->
                      Base * s[2] + (IF s[1] < n THEN p[n - s[1]] ELSE 0)]
           Is(g) == g = [k \in 0..n |->
                      IF k = 0 THEN 0 ELSE Base * g[k - 1] + p[n + 1 - k]]
<1>1. n \in Nat /\ Base \in Nat \ {0} /\ \A k \in 1..n : p[k] \in 0..(Base - 1)
  BY BaseIsPositive, LimbsAreNatural
<1> HIDE DEF n
<1>2. \A k \in Nat, v \in Nat :
        /\ Step[<<k, v>>] = Base * v + (IF k < n THEN p[n - k] ELSE 0)
        /\ Step[<<k, v>>] \in Nat
  <2> SUFFICES ASSUME NEW k \in Nat, NEW v \in Nat
               PROVE  /\ Step[<<k, v>>] = Base * v + (IF k < n THEN p[n - k] ELSE 0)
                      /\ Base * v + (IF k < n THEN p[n - k] ELSE 0) \in Nat
    BY Zenon
  <2>1. (IF k < n THEN p[n - k] ELSE 0) \in Nat
    <3>1. CASE k < n
      <4>1. n - k \in 1..n
        BY <1>1, <3>1
      <4> QED BY <1>1, <3>1, <4>1
    <3> QED BY <3>1
  <2>2. Base * v \in Nat
    BY <1>1
  <2>3. Step[<<k, v>>] = Base * v + (IF k < n THEN p[n - k] ELSE 0)
    OBVIOUS
  <2> HIDE DEF Step
  <2> QED BY <2>1, <2>2, <2>3
<1>3. PICK g \in [0..n -> Nat] : Steps(g, n, zero, Step)
  <2>1. zero \in Nat /\ Stays(Nat, Step)
    BY <1>2 DEF Stays
  <2> HIDE DEF Step, zero
  <2> QED BY <1>1, <2>1, StepsExist
<1>4. \A k \in 0..(n - 1) : g[k + 1] = Base * g[k] + p[n - k]
  <2> SUFFICES ASSUME NEW k \in 0..(n - 1)
               PROVE  g[k + 1] = Base * g[k] + p[n - k]
    OBVIOUS
  <2>1. k \in Nat /\ k < n /\ g[k] \in Nat
    BY <1>1, <1>3
  <2> QED BY <1>2, <1>3, <2>1 DEF Steps
<1> HIDE DEF Step
<1>5. \A k \in 0..n : g[k] = IF k = 0 THEN 0 ELSE Base * g[k - 1] + p[n + 1 - k]
  <2> SUFFICES ASSUME NEW k \in 0..n, k # 0
               PROVE  g[k] = Base * g[k - 1] + p[n + 1 - k]
    BY <1>3 DEF Steps
  <2>1. k - 1 \in 0..(n - 1) /\ (k - 1) + 1 = k /\ n - (k - 1) = n + 1 - k
    BY <1>1
  <2> QED BY <1>4, <2>1
<1>6. Is(g)
  BY <1>3, <1>5
<1>7. Is(TopLimbs(p))
  BY <1>6 DEF TopLimbs, n
<1> DEFINE top == TopLimbs(p)
           S == {k \in Nat : k <= n => top[k] \in Nat}
<1>8. \A k \in 0..n : top[k] = IF k = 0 THEN 0 ELSE Base * top[k - 1] + p[n + 1 - k]
  BY <1>7
<1> HIDE DEF Is, top
<1>9. \A k \in 0..(n - 1) : top[k + 1] = Base * top[k] + p[n - k]
  <2> SUFFICES ASSUME NEW k \in 0..(n - 1)
               PROVE  top[k + 1] = Base * top[k] + p[n - k]
    OBVIOUS
  <2>1. k + 1 \in 0..n /\ k + 1 # 0 /\ (k + 1) - 1 = k /\ n + 1 - (k + 1) = n - k
    BY <1>1
  <2> QED BY <1>8, <2>1
<1>10. 0 \in S
  BY <1>1, <1>8
<1>11. ASSUME NEW k \in Nat, k \in S PROVE k + 1 \in S
  <2>1. SUFFICES ASSUME k + 1 <= n PROVE top[k + 1] \in Nat
    OBVIOUS
  <2>2. k \in 0..(n - 1) /\ n - k \in 1..n /\ top[k] \in Nat
    BY <1>1, <1>11, <2>1
  <2>3. p[n - k] \in Nat /\ Base * top[k] \in Nat
    BY <1>1, <2>2
  <2> QED BY <1>9, <2>2, <2>3
<1>12. Nat \subseteq S
  <2> HIDE DEF S
  <2> QED BY <1>10, <1>11, Induction
<1> QED BY <1>1, <1>8, <1>9, <1>12 DEF top, n

LEMMA MagnitudeIsNatural ==
  ASSUME NEW p \in Seq(Limbs)
  PROVE  Magnitude(p) \in Nat
BY TopLimbsAreDefined DEF Magnitude

LEMMA QuotientOfMagnitude ==
  ASSUME NEW p \in Seq(Limbs), NEW l \in 0..Len(p)
  PROVE  Magnitude(p) \div TwoTo[l * biL] = TopLimbs(p)[Len(p) - l]
<1> DEFINE n == Len(p)
           top == TopLimbs(p)
           S == {k \in Nat : k <= n => top[n] \div TwoTo[k * biL] = top[n - k]}
<1>1. n \in Nat /\ \A k \in 1..n : p[k] \in 0..(Base - 1)
  BY LimbsAreNatural
<1>2. /\ \A k \in 0..(n - 1) : top[k + 1] = Base * top[k] + p[n - k]
      /\ \A k \in 0..n : top[k] \in Nat
  BY TopLimbsAreDefined
<1> HIDE DEF n, top
<1>3. 0 \in S
  <2>1. TwoTo[0 * biL] = 1 /\ top[n] \in Nat /\ n - 0 = n
    BY <1>1, <1>2, BaseIsPositive, TwoToIsDefined
  <2> QED BY <2>1
<1>4. ASSUME NEW k \in Nat, k \in S PROVE k + 1 \in S
  <2>1. SUFFICES ASSUME k + 1 <= n
                 PROVE  top[n] \div TwoTo[(k + 1) * biL] = top[n - (k + 1)]
    OBVIOUS
  <2> DEFINE h == n - (k + 1)
  <2>2. /\ h \in 0..(n - 1) /\ n - k = h + 1 /\ n - h \in 1..n
        /\ n \in 0..n /\ top[n] \in Nat /\ top[h] \in Nat
    <3>1. /\ h \in 0..(n - 1) /\ h \in 0..n /\ n - k = h + 1
          /\ n - h \in 1..n /\ n \in 0..n
      BY <1>1, <2>1
    <3> QED BY <1>2, <3>1
  <2>3. k * biL \in Nat /\ (k + 1) * biL = k * biL + biL
    BY BaseIsPositive
  <2>4. TwoTo[(k + 1) * biL] = TwoTo[k * biL] * Base
        /\ TwoTo[k * biL] \in Nat \ {0}
    <3> DEFINE y == k * biL
    <3>1. y \in Nat /\ biL \in Nat
      BY <2>3, BaseIsPositive
    <3> HIDE DEF y
    <3>2. TwoTo[y + biL] = TwoTo[y] * TwoTo[biL] /\ TwoTo[y] \in Nat \ {0}
      BY <3>1, TwoToSum, TwoToAt
    <3> QED BY <2>3, <3>2, BaseIsPositive DEF y
  <2>5. top[n] \div TwoTo[(k + 1) * biL] = (top[n] \div TwoTo[k * biL]) \div Base
    <3> DEFINE x == top[n]
               y == TwoTo[k * biL]
               b == Base
    <3>1. x \in Int /\ y \in Nat \ {0} /\ b \in Nat \ {0}
      <4>1. x \in Int
        BY <2>2
      <4>2. y \in Nat \ {0}
        BY <2>4
      <4>3. b \in Nat \ {0}
        BY BaseIsPositive
      <4> QED BY <4>1, <4>2, <4>3
    <3> HIDE DEF x, y, b
    <3>2. (x \div y) \div b = x \div (y * b)
      BY <3>1, QuotientOfQuotient
    <3> QED BY <2>4, <3>2 DEF x, y, b
  <2>6. top[n] \div TwoTo[k * biL] = Base * top[h] + p[n - h]
    <3>1. top[n] \div TwoTo[k * biL] = top[n - k]
      <4>1. k <= n
        BY <1>1, <2>1
      <4> QED BY <1>4, <4>1
    <3>2. top[h + 1] = Base * top[h] + p[n - h]
      BY <1>2, <2>2
    <3> QED BY <2>2, <3>1, <3>2
  <2>7. (Base * top[h] + p[n - h]) \div Base = top[h]
    <3> DEFINE t == top[h]
               r == p[n - h]
               b == Base
    <3>1. t \in Int /\ b \in Nat \ {0} /\ r \in 0..(b - 1)
      BY <1>1, <2>2, BaseIsPositive
    <3> HIDE DEF t, r, b
    <3>2. (b * t + r) \div b = t
      BY <3>1, QuotientUnique
    <3> QED BY <3>2 DEF t, r, b
  <2> QED BY <2>5, <2>6, <2>7
<1>5. Nat \subseteq S
  <2> HIDE DEF S
  <2> QED BY <1>3, <1>4, Induction
<1>6. l \in S
  BY <1>5
<1> QED BY <1>1, <1>6 DEF Magnitude, n, top

LEMMA BitOfMagnitude ==
  ASSUME NEW p \in Seq(Limbs), NEW l \in 0..(Len(p) - 1), NEW j \in 0..(biL - 1)
  PROVE  (Magnitude(p) \div TwoTo[l * biL + j]) % 2 = Bit(p[l + 1], j + 1)
<1> DEFINE n == Len(p)
           top == TopLimbs(p)
           h == n - (l + 1)
           M == Magnitude(p)
           t == top[h]
           a == p[l + 1]
           c == TwoTo[biL - (j + 1)]
           d == TwoTo[j]
<1>1. n \in Nat /\ l + 1 \in 1..n /\ a \in Nat
  <2>1. n \in Nat /\ l + 1 \in 1..n
    BY LimbsAreNatural
  <2>2. a \in 0..(Base - 1)
    BY <2>1, LimbsAreNatural
  <2> QED BY <2>1, <2>2, BaseIsPositive
<1>2. h \in 0..(n - 1) /\ h + 1 = n - l /\ n - h = l + 1
  BY <1>1
<1>3. t \in Nat /\ top[h + 1] = Base * t + a
  <2>1. h \in 0..n
    BY <1>2
  <2> QED BY <1>2, <2>1, TopLimbsAreDefined
<1>4. M \div TwoTo[l * biL] = Base * t + a
  BY <1>2, <1>3, QuotientOfMagnitude
<1>5. c \in Nat \ {0} /\ d \in Nat \ {0} /\ Base = (2 * c) * d
      /\ TwoTo[l * biL] \in Nat \ {0}
      /\ TwoTo[l * biL + j] = TwoTo[l * biL] * d
  <2> DEFINE k == biL - (j + 1)
  <2>1. /\ k \in Nat /\ k + 1 \in Nat /\ j \in Nat /\ l * biL \in Nat
        /\ biL = (k + 1) + j
    BY BaseIsPositive
  <2> HIDE DEF k
  <2>2. TwoTo[k + 1] = 2 * TwoTo[k] /\ TwoTo[k] \in Nat \ {0}
    BY <2>1, TwoToAt
  <2>3. Base = TwoTo[k + 1] * d
    BY <2>1, TwoToSum, BaseIsPositive
  <2>4. d \in Nat \ {0} /\ TwoTo[l * biL] \in Nat \ {0}
        /\ TwoTo[l * biL + j] = TwoTo[l * biL] * d
    BY <2>1, TwoToAt, TwoToSum
  <2> HIDE DEF d
  <2>5. c = TwoTo[k]
    BY DEF k
  <2> HIDE DEF c
  <2> QED BY <2>2, <2>3, <2>4, <2>5
<1>6. M \in Nat
  BY MagnitudeIsNatural
<1> HIDE DEF n, top, h, M, t, a, c, d
<1>7. M \div TwoTo[l * biL + j] = (Base * t + a) \div d
  <2>1. (M \div TwoTo[l * biL]) \div d = M \div (TwoTo[l * biL] * d)
    <3> HIDE DEF M
    <3> QED BY <1>5, <1>6, QuotientOfQuotient
  <2> QED BY <1>4, <1>5, <2>1
<1>8. (Base * t + a) \div d = (2 * c) * t + a \div d
  <2> DEFINE u == (2 * c) * t
  <2>1. u \in Int /\ ((2 * c) * d) * t = u * d
    BY <1>3, <1>5
  <2> HIDE DEF u
  <2>2. (u * d + a) \div d = u + a \div d
    <3>1. a \in Int /\ d \in Nat \ {0}
      BY <1>1, <1>5
    <3> QED BY <2>1, <3>1, QuotientOfSum
  <2>3. Base * t = u * d
    BY <1>5, <2>1
  <2> QED BY <2>2, <2>3 DEF u
<1>9. ((2 * c) * t + a \div d) % 2 = (a \div d) % 2
  <2>1. (2 * c) * t = 2 * (c * t) /\ c * t \in Nat
    BY <1>3, <1>5
  <2>2. a \div d \in Int
    BY <1>1, <1>5
  <2> QED BY <2>1, <2>2
<1>10. Bit(a, j + 1) = (a \div d) % 2
  <2>1. (j + 1) - 1 = j
    OBVIOUS
  <2> QED BY <2>1 DEF Bit, d
<1> QED BY <1>7, <1>8, <1>9, <1>10 DEF M, a
----------------------------------------------------------------------------
(* Limbs, and the largest elements that Used and Kept choose. *)

LEMMA MaxIsElement ==
  ASSUME NEW n \in Nat, NEW S, S \subseteq 0..n, S # {}
  PROVE  Max(S) \in S /\ \A y \in S : y <= Max(S)
<1> DEFINE T == {n - y : y \in S}
<1>1. T \subseteq Nat /\ T # {}
  OBVIOUS
<1>2. PICK z \in T : \A y \in T : z <= y
  <2> HIDE DEF T
  <2> QED BY <1>1, LeastElement
<1>3. PICK x \in S : z = n - x
  OBVIOUS
<1>4. \A y \in S : x >= y
  <2> SUFFICES ASSUME NEW y \in S PROVE x >= y
    OBVIOUS
  <2>1. n - y \in T /\ y \in 0..n /\ x \in 0..n
    OBVIOUS
  <2> HIDE DEF T
  <2>2. n - x <= n - y
    BY <1>2, <1>3, <2>1
  <2> QED BY <2>1, <2>2
<1>5. Max(S) \in S /\ \A y \in S : Max(S) >= y
  BY <1>4 DEF Max
<1> QED BY <1>5

LEMMA MinOfTwo ==
  ASSUME NEW x \in Nat, NEW y \in Nat
  PROVE  Min({x, y}) = IF x <= y THEN x ELSE y
<1>1. Min({x, y}) \in {x, y} /\ \A w \in {x, y} : Min({x, y}) <= w
  <2>1. \E w \in {x, y} : \A g \in {x, y} : w <= g
    <3>1. CASE x <= y
      BY <3>1
    <3>2. CASE y <= x
      BY <3>2
    <3> QED BY <3>1, <3>2
  <2> QED BY <2>1 DEF Min
<1> QED BY <1>1

LEMMA BaseIsBig ==
  Base \in Nat \ {0, 1} /\ Base \in Nat \ {0} /\ Base \in Int
<1>1. biL \in Nat \ {0} /\ Base = TwoTo[biL]
  BY BaseIsPositive
<1>2. (biL - 1) \in Nat /\ (biL - 1) + 1 = biL
  BY <1>1
<1>3. Base = 2 * TwoTo[biL - 1] /\ TwoTo[biL - 1] \in Nat \ {0}
  BY <1>1, <1>2, TwoToAt
<1> QED BY <1>3

LEMMA LimbsAreSmall ==
  ASSUME NEW x
  PROVE  x \in Limbs <=> x \in Nat /\ x < Base
BY BaseIsBig DEF Limbs

LEMMA LimbIsSmall ==
  ASSUME NEW p \in Seq(Limbs), NEW i
  PROVE  Limb(p, i) \in Limbs /\ Limb(p, i) \in 0..(Base - 1)
<1>1. i \in DOMAIN p => p[i] \in Limbs
  OBVIOUS
<1>2. Limb(p, i) \in Limbs
  BY <1>1, BaseIsBig, LimbsAreSmall DEF Limb
<1> QED BY <1>2 DEF Limbs

\* Limbs from a place on, as a function that is 0 past the end.
LimbsFrom(p, at) == [i \in Nat |-> Limb(p, at + i)]

LEMMA LimbsFromAre ==
  ASSUME NEW p \in Seq(Limbs), NEW at \in Nat
  PROVE  /\ LimbsFrom(p, at) \in Numbers
         /\ \A i \in Nat : /\ LimbsFrom(p, at)[i] = Limb(p, at + i)
                           /\ LimbsFrom(p, at)[i] \in 0..(Base - 1)
<1>1. \A i \in Nat : LimbsFrom(p, at)[i] = Limb(p, at + i)
  BY DEF LimbsFrom
<1>2. \A i \in Nat : Limb(p, at + i) \in 0..(Base - 1)
  BY LimbIsSmall
<1>3. \A i \in Nat : Limb(p, at + i) \in Int
  BY <1>2, BaseIsBig
<1>4. LimbsFrom(p, at) \in [Nat -> Int]
  BY <1>3 DEF LimbsFrom
<1> QED BY <1>1, <1>2, <1>4 DEF Numbers

\* A table of limbs is a sequence of them.
LEMMA TableOfLimbs ==
  ASSUME NEW n \in Nat, NEW g, g = [i \in 1..n |-> g[i]],
         \A i \in 1..n : g[i] \in Limbs
  PROVE  /\ SubSeq(g, 1, n) = g /\ g \in Seq(Limbs) /\ Len(g) = n
         /\ \A i \in 1..n : Limb(g, i) = g[i]
<1>1. g \in [1..n -> Limbs]
  OBVIOUS
<1>2. g \in Seq(Limbs) /\ Len(g) = n
  BY <1>1
<1>3. SubSeq(g, 1, n) = g
  BY <1>2
<1> QED BY <1>1, <1>2, <1>3 DEF Limb

LEMMA PlacesAre ==
  ASSUME NEW k \in Nat
  PROVE  /\ Places[0] = 1 /\ Places[k] \in Nat \ {0}
         /\ Places[k + 1] = Base * Places[k]
BY BaseIsBig, PowersAreDefined DEF Places

LEMMA PlacesGrow ==
  ASSUME NEW k \in Nat, NEW m \in Nat, k <= m
  PROVE  Places[k] <= Places[m]
<1>1. m - k \in Nat /\ m = (m - k) + k /\ Base \in Nat \ {0}
  BY BaseIsBig
<1>2. Places[m] = Places[m - k] * Places[k]
  BY <1>1, PowersAdd DEF Places
<1>3. Places[m - k] \in Nat \ {0} /\ Places[k] \in Nat \ {0}
  BY <1>1, PlacesAre
<1>4. \A x, y \in Nat \ {0} : y <= x * y
  OBVIOUS
<1> QED BY <1>2, <1>3, <1>4
----------------------------------------------------------------------------
(* The integer of a sequence of limbs, as the sum of its limbs. *)

Worth(p) == Sums(Base, LimbsFrom(p, 0))

LEMMA WorthAt ==
  ASSUME NEW p \in Seq(Limbs), NEW k \in Nat
  PROVE  /\ Worth(p)[0] = 0
         /\ Worth(p)[k + 1] = Worth(p)[k] + Limb(p, k + 1) * Places[k]
         /\ Worth(p)[k] \in 0..(Places[k] - 1) /\ Worth(p)[k] \in Nat
<1>1. /\ LimbsFrom(p, 0) \in Numbers
      /\ \A i \in Nat : /\ LimbsFrom(p, 0)[i] = Limb(p, 0 + i)
                        /\ LimbsFrom(p, 0)[i] \in 0..(Base - 1)
  BY LimbsFromAre
<1>2. Base \in Nat \ {0} /\ 0 + (k + 1) = k + 1 /\ k + 1 \in Nat
  BY BaseIsBig
<1>3. LimbsFrom(p, 0)[k + 1] = Limb(p, k + 1)
  BY <1>1, <1>2
<1> DEFINE f == LimbsFrom(p, 0)
<1>4. Sums(Base, f)[k] \in 0..(Places[k] - 1)
  <2>1. f \in Numbers /\ \A i \in 1..k : f[i] \in 0..(Base - 1)
    BY <1>1
  <2> HIDE DEF f
  <2> QED BY <1>2, <2>1, SumsAreSmall DEF Places
<1>5. /\ Sums(Base, f)[0] = 0
      /\ Sums(Base, f)[k + 1] = Sums(Base, f)[k] + f[k + 1] * Places[k]
  BY <1>1, <1>2, SumAt DEF Places
<1>6. Places[k] \in Nat
  BY PlacesAre
<1> QED BY <1>3, <1>4, <1>5, <1>6 DEF Worth

LEMMA MagnitudeIsWorth ==
  ASSUME NEW p \in Seq(Limbs)
  PROVE  Magnitude(p) = Worth(p)[Len(p)]
<1> DEFINE n == Len(p)
           top == TopLimbs(p)
           w == Worth(p)
           S == {k \in Nat : w[n] = w[n - k] + Places[n - k] * top[k]}
<1>1. n \in Nat
  BY LimbsAreNatural
<1>2. /\ top[0] = 0 /\ \A k \in 0..(n - 1) : top[k + 1] = Base * top[k] + p[n - k]
      /\ \A k \in 0..n : top[k] \in Nat
  BY TopLimbsAreDefined
<1>3. \A k \in Nat :
        /\ w[0] = 0 /\ w[k + 1] = w[k] + Limb(p, k + 1) * Places[k]
        /\ w[k] \in Nat
        /\ Places[k] \in Nat \ {0} /\ Places[k + 1] = Base * Places[k] /\ Places[0] = 1
  BY WorthAt, PlacesAre
<1>4. \A k \in 1..n : Limb(p, k) = p[k] /\ p[k] \in 0..(Base - 1)
  BY LimbsAreNatural DEF Limb
<1> HIDE DEF n, top, w
<1>5. 0 \in S
  <2>1. n - 0 = n /\ w[n] \in Int /\ Places[n] \in Nat
    <3>1. w[n] \in Nat /\ Places[n] \in Nat \ {0}
      BY <1>1, <1>3
    <3> QED BY <1>1, <3>1
  <2>2. w[n] = w[n] + Places[n] * 0
    BY <2>1
  <2> QED BY <1>2, <2>1, <2>2
<1>6. ASSUME NEW k \in 0..(n - 1), k \in S PROVE k + 1 \in S
  <2> DEFINE h == n - (k + 1)
  <2>1. h \in Nat /\ h + 1 = n - k /\ n - k \in 1..n /\ k \in 0..n
    BY <1>1
  <2>2. w[n] = w[h + 1] + Places[h + 1] * top[k]
    BY <1>6, <2>1
  <2>3. w[h + 1] = w[h] + p[n - k] * Places[h] /\ Places[h + 1] = Base * Places[h]
    BY <1>3, <1>4, <2>1
  <2>4. top[k + 1] = Base * top[k] + p[n - k]
    BY <1>2
  <2> DEFINE x == w[h]  y == p[n - k]  z == Places[h]  u == top[k]
  <2>5. x \in Int /\ y \in Int /\ z \in Int /\ u \in Int /\ Base \in Int
    <3>1. x \in Nat /\ z \in Nat \ {0}
      BY <1>3, <2>1
    <3>2. u \in Nat
      BY <1>2, <2>1
    <3> HIDE DEF x, y, z, u
    <3>3. x \in Int /\ z \in Int /\ u \in Int /\ Base \in Int
      BY <3>1, <3>2, BaseIsBig
    <3>4. y \in Int
      BY <1>4, <2>1, BaseIsBig DEF y
    <3> QED BY <3>3, <3>4
  <2>6. w[n] = (x + y * z) + (Base * z) * u
    BY <2>2, <2>3
  <2>7. top[k + 1] = Base * u + y
    BY <2>4
  <2> HIDE DEF x, y, z, u
  <2>8. (x + y * z) + (Base * z) * u = x + z * (Base * u + y)
    BY <2>5
  <2>9. w[n] = w[h] + Places[h] * top[k + 1]
    BY <2>6, <2>7, <2>8 DEF x, z
  <2> QED BY <2>9
<1>7. \A k \in 0..n : k \in S
  <2> HIDE DEF S
  <2> QED BY <1>1, <1>5, <1>6, BoundedInduction
<1>8. w[n] = w[n - n] + Places[n - n] * top[n]
  BY <1>1, <1>7
<1>9. n - n = 0 /\ top[n] \in Nat /\ w[0] = 0 /\ Places[0] = 1
  BY <1>1, <1>2, <1>3
<1>10. w[n] = top[n]
  BY <1>8, <1>9
<1> QED BY <1>10 DEF Magnitude, n, top, w

\* What the limbs from place at on are worth, counted from that place.
Part(p, at) == Sums(Base, LimbsFrom(p, at))

LEMMA PartOf ==
  ASSUME NEW p \in Seq(Limbs), NEW at \in Nat, NEW k \in Nat
  PROVE  /\ Part(p, 0) = Worth(p)
         /\ Part(p, at)[k] \in 0..(Places[k] - 1) /\ Part(p, at)[k] \in Nat
         /\ Part(p, at)[0] = 0
         /\ Part(p, at)[k + 1] = Part(p, at)[k] + Limb(p, at + (k + 1)) * Places[k]
         /\ Worth(p)[at + k] = Worth(p)[at] + Places[at] * Part(p, at)[k]
<1> DEFINE f == LimbsFrom(p, at)
           w == LimbsFrom(p, 0)
<1>1. /\ f \in Numbers /\ w \in Numbers
      /\ \A i \in Nat : f[i] = Limb(p, at + i) /\ f[i] \in 0..(Base - 1)
      /\ \A i \in Nat : w[i] = Limb(p, 0 + i)
  <2>1. 0 \in Nat
    OBVIOUS
  <2> QED BY <2>1, LimbsFromAre
<1>2. \A i \in 1..k : f[i] = w[at + i] /\ f[i] \in 0..(Base - 1)
  <2>1. \A i \in Nat : at + i \in Nat /\ 0 + (at + i) = at + i
    OBVIOUS
  <2> HIDE DEF f, w
  <2> QED BY <1>1, <2>1
<1> HIDE DEF f, w
<1>3. Sums(Base, f)[k] \in 0..(Places[k] - 1)
  BY <1>1, <1>2, BaseIsBig, SumsAreSmall DEF Places
<1>4. Sums(Base, w)[at + k] = Sums(Base, w)[at] + Places[at] * Sums(Base, f)[k]
  BY <1>1, <1>2, BaseIsBig, SumsSplit, SMTT(30) DEF Places
<1>5. /\ Sums(Base, f)[0] = 0
      /\ Sums(Base, f)[k + 1] = Sums(Base, f)[k] + f[k + 1] * Places[k]
  <2> DEFINE t == Sums(Base, f)
  <2>0. f \in Numbers /\ Base \in Nat \ {0}
    BY <1>1, BaseIsBig
  <2>1. t[0] = 0 /\ t[k + 1] = t[k] + f[k + 1] * PowersOf(Base)[k]
    BY <2>0, SumAt
  <2> QED BY <2>1 DEF Places
<1>6. f[k + 1] = Limb(p, at + (k + 1))
  <2>1. k + 1 \in Nat
    OBVIOUS
  <2> QED BY <1>1, <2>1
<1>7. Sums(Base, f)[k] \in Nat
  BY <1>3, PlacesAre
<1> QED BY <1>3, <1>4, <1>5, <1>6, <1>7 DEF Part, Worth, f, w

LEMMA PartIsSum ==
  ASSUME NEW p \in Seq(Limbs), NEW at \in Nat, NEW n \in Nat, NEW f \in Numbers,
         \A i \in 1..n : f[i] = Limb(p, at + i)
  PROVE  Part(p, at)[n] = Sums(Base, f)[n]
<1> DEFINE g == LimbsFrom(p, at)
<1>1. g \in Numbers /\ \A i \in Nat : g[i] = Limb(p, at + i)
  BY LimbsFromAre
<1> HIDE DEF g
<1>2. Sums(Base, f)[n] = Sums(Base, g)[n]
  <2>1. \A i \in 1..n : f[i] = g[i]
    BY <1>1
  <2> QED BY <1>1, <2>1, BaseIsBig, SumsAgree
<1> QED BY <1>2 DEF Part, g

LEMMA SameParts ==
  ASSUME NEW p \in Seq(Limbs), NEW q \in Seq(Limbs), NEW at \in Nat, NEW to \in Nat,
         NEW n \in Nat, \A i \in 1..n : Limb(p, at + i) = Limb(q, to + i)
  PROVE  Part(p, at)[n] = Part(q, to)[n]
<1> DEFINE f == LimbsFrom(p, at)
<1>1. f \in Numbers /\ \A i \in Nat : f[i] = Limb(p, at + i)
  BY LimbsFromAre
<1> HIDE DEF f
<1>2. \A i \in 1..n : f[i] = Limb(p, at + i) /\ f[i] = Limb(q, to + i)
  BY <1>1
<1>3. Part(p, at)[n] = Sums(Base, f)[n] /\ Part(q, to)[n] = Sums(Base, f)[n]
  BY <1>1, <1>2, PartIsSum
<1> QED BY <1>3

\* Limbs past the end, or zeros at the end, count for nothing.
LEMMA PartEnds ==
  ASSUME NEW p \in Seq(Limbs), NEW at \in Nat, NEW m \in Nat, NEW n \in Nat,
         m <= n, \A i \in (m + 1)..n : Limb(p, at + i) = 0
  PROVE  Part(p, at)[n] = Part(p, at)[m]
<1> DEFINE f == LimbsFrom(p, at)
<1>1. f \in Numbers /\ \A i \in Nat : f[i] = Limb(p, at + i)
  BY LimbsFromAre
<1> HIDE DEF f
<1>2. Sums(Base, f)[n] = Sums(Base, f)[m]
  <2>1. \A i \in (m + 1)..n : f[i] = 0
    <3> SUFFICES ASSUME NEW i \in (m + 1)..n PROVE f[i] = 0
      OBVIOUS
    <3>1. i \in Nat /\ Limb(p, at + i) = 0
      OBVIOUS
    <3> QED BY <1>1, <3>1
  <2>2. f \in Numbers /\ Base \in Nat \ {0}
    BY <1>1, BaseIsBig
  <2> QED BY <2>1, <2>2, SumsEnd
<1> QED BY <1>2 DEF Part, f

LEMMA MagnitudeIs ==
  ASSUME NEW p \in Seq(Limbs), NEW n \in Nat, n >= Len(p)
  PROVE  /\ Magnitude(p) = Worth(p)[n] /\ Magnitude(p) \in Nat
         /\ Magnitude(p) < Places[n]
<1>1. Len(p) \in Nat /\ 0 \in Nat
  OBVIOUS
<1>2. \A i \in (Len(p) + 1)..n : Limb(p, 0 + i) = 0
  BY DEF Limb
<1>3. Part(p, 0)[n] = Part(p, 0)[Len(p)]
  BY <1>1, <1>2, PartEnds
<1>4. Part(p, 0) = Worth(p) /\ Worth(p)[n] \in 0..(Places[n] - 1) /\ Worth(p)[n] \in Nat
  BY <1>1, PartOf
<1>5. Magnitude(p) = Worth(p)[n]
  BY <1>3, <1>4, MagnitudeIsWorth
<1>6. Places[n] \in Nat
  BY PlacesAre
<1> QED BY <1>4, <1>5, <1>6

LEMMA MagnitudeOfPiece ==
  ASSUME NEW p \in Seq(Limbs), NEW at \in Nat, NEW n \in Nat, at + n <= Len(p)
  PROVE  /\ SubSeq(p, at + 1, at + n) \in Seq(Limbs)
         /\ Len(SubSeq(p, at + 1, at + n)) = n
         /\ Magnitude(SubSeq(p, at + 1, at + n)) = Part(p, at)[n]
<1> DEFINE q == SubSeq(p, at + 1, at + n)
<1>1. q \in Seq(Limbs) /\ Len(q) = n
  OBVIOUS
<1>2. \A i \in 1..n : q[i] = p[at + i]
  OBVIOUS
<1>3. \A i \in 1..n : Limb(q, 0 + i) = Limb(p, at + i)
  <2> SUFFICES ASSUME NEW i \in 1..n PROVE Limb(q, 0 + i) = Limb(p, at + i)
    OBVIOUS
  <2>1. i \in DOMAIN q /\ at + i \in DOMAIN p /\ 0 + i = i
    BY <1>1
  <2> HIDE DEF q
  <2> QED BY <1>2, <2>1 DEF Limb
<1> HIDE DEF q
<1>4. Part(q, 0)[n] = Part(p, at)[n]
  <2>1. 0 \in Nat
    OBVIOUS
  <2> QED BY <1>1, <1>3, <2>1, SameParts
<1>5. Magnitude(q) = Worth(q)[n] /\ Part(q, 0) = Worth(q)
  BY <1>1, MagnitudeIs, PartOf
<1> QED BY <1>1, <1>4, <1>5 DEF q
----------------------------------------------------------------------------
(* Comparison. *)

LEMMA UsedIs ==
  ASSUME NEW p \in Seq(Limbs)
  PROVE  /\ Used(p) \in 0..Len(p) /\ Used(p) \in Nat
         /\ \A i \in Nat : i > Used(p) => Limb(p, i) = 0
         /\ Used(p) # 0 => p[Used(p)] \in 1..(Base - 1)
         /\ Limb(p, Used(p)) = IF Used(p) = 0 THEN 0 ELSE p[Used(p)]
<1> DEFINE n == Len(p)
           S == {i \in DOMAIN p : p[i] # 0} \cup {0}
           u == Max(S)
<1>1. n \in Nat /\ DOMAIN p = 1..n /\ \A k \in 1..n : p[k] \in 0..(Base - 1)
  BY LimbsAreNatural
<1>2. S \subseteq 0..n /\ S # {}
  BY <1>1
<1>3. u \in S /\ \A y \in S : y <= u
  <2> HIDE DEF S
  <2> QED BY <1>1, <1>2, MaxIsElement
<1> HIDE DEF u
<1>4. u \in 0..n /\ u \in Nat
  BY <1>1, <1>2, <1>3
<1>5. ASSUME NEW i \in Nat, i > u PROVE Limb(p, i) = 0
  <2>1. i \notin S
    BY <1>3, <1>4, <1>5
  <2> QED BY <2>1 DEF Limb
<1>6. u # 0 => p[u] \in 1..(Base - 1) /\ u \in DOMAIN p
  <2> SUFFICES ASSUME u # 0 PROVE p[u] \in 1..(Base - 1) /\ u \in DOMAIN p
    OBVIOUS
  <2>1. u \in DOMAIN p /\ p[u] # 0
    BY <1>3
  <2> QED BY <1>1, <1>4, <2>1, BaseIsBig
<1>7. 0 \notin DOMAIN p
  BY <1>1
<1>8. Limb(p, u) = IF u = 0 THEN 0 ELSE p[u]
  BY <1>6, <1>7 DEF Limb
<1>9. Used(p) = u
  BY DEF Used, u
<1> QED BY <1>4, <1>5, <1>6, <1>8, <1>9

LEMMA MagnitudeOfUsed ==
  ASSUME NEW p \in Seq(Limbs)
  PROVE  /\ Magnitude(p) = Worth(p)[Used(p)] /\ Magnitude(p) \in Nat
         /\ Magnitude(p) < Places[Used(p)]
         /\ Used(p) # 0 => Magnitude(p) >= Places[Used(p) - 1]
         /\ Used(p) = 0 <=> Magnitude(p) = 0
<1> DEFINE u == Used(p)
           n == Len(p)
<1>1. /\ u \in 0..n /\ u \in Nat /\ n \in Nat
      /\ \A i \in Nat : i > u => Limb(p, i) = 0
      /\ u # 0 => p[u] \in 1..(Base - 1) /\ Limb(p, u) = p[u]
  <2>1. n \in Nat
    OBVIOUS
  <2> QED BY <2>1, UsedIs
<1> HIDE DEF u
<1>2. Part(p, 0)[n] = Part(p, 0)[u]
  <2>1. \A i \in (u + 1)..n : Limb(p, 0 + i) = 0
    BY <1>1
  <2> QED BY <1>1, <2>1, PartEnds
<1>3. Part(p, 0) = Worth(p) /\ Worth(p)[u] \in 0..(Places[u] - 1)
  BY <1>1, PartOf
<1>4. Magnitude(p) = Worth(p)[u] /\ Magnitude(p) \in Nat
  BY <1>1, <1>2, <1>3, MagnitudeIs
<1>5. Places[u] \in Nat \ {0}
  BY <1>1, PlacesAre
<1>6. ASSUME u # 0
      PROVE  Magnitude(p) >= Places[u - 1] /\ Places[u - 1] \in Nat \ {0}
  <2> DEFINE h == u - 1
  <2>1. h \in Nat /\ h + 1 = u
    BY <1>1, <1>6
  <2> HIDE DEF h
  <2>2. Worth(p)[u] = Worth(p)[h] + p[u] * Places[h] /\ Worth(p)[h] \in Nat
    BY <1>1, <1>6, <2>1, WorthAt
  <2>3. Places[h] \in Nat \ {0}
    BY <2>1, PlacesAre
  <2> DEFINE x == p[u]  y == Places[h]  z == Worth(p)[h]
  <2>4. x \in Nat \ {0} /\ y \in Nat \ {0} /\ z \in Nat
    BY <1>1, <1>6, <2>2, <2>3, BaseIsBig
  <2> HIDE DEF x, y, z
  <2>5. z + x * y >= y
    <3>1. \A a, b \in Nat \ {0} : a * b >= b
      OBVIOUS
    <3>2. x * y \in Nat /\ x * y >= y
      BY <2>4, <3>1
    <3> QED BY <2>4, <3>2
  <2> QED BY <1>4, <2>2, <2>3, <2>5 DEF h, x, y, z
<1>7. u = 0 => Magnitude(p) = 0
  <2>1. 0 \in Nat
    OBVIOUS
  <2>2. Worth(p)[0] = 0
    BY <2>1, WorthAt
  <2> QED BY <1>4, <2>2
<1>8. u # 0 => Magnitude(p) # 0
  BY <1>4, <1>6
<1>9. Magnitude(p) < Places[u]
  BY <1>3, <1>4, <1>5
<1> QED BY <1>4, <1>6, <1>7, <1>8, <1>9 DEF u

LEMMA HigherLimbDecides ==
  ASSUME NEW p \in Seq(Limbs), NEW q \in Seq(Limbs), NEW m \in Nat \ {0},
         Limb(p, m) > Limb(q, m)
  PROVE  Worth(p)[m] > Worth(q)[m]
<1> DEFINE k == m - 1
           x == Limb(p, m)
           y == Limb(q, m)
           P == Places[k]
           v == Worth(p)[k]
           w == Worth(q)[k]
<1>1. k \in Nat /\ k + 1 = m
  OBVIOUS
<1> HIDE DEF k
<1>2. /\ Worth(p)[m] = v + x * P /\ Worth(q)[m] = w + y * P
      /\ v \in Nat /\ w \in Nat /\ w \in 0..(P - 1)
  BY <1>1, WorthAt
<1>3. P \in Nat \ {0}
  BY <1>1, PlacesAre
<1>4. x \in 0..(Base - 1) /\ y \in 0..(Base - 1)
  BY LimbIsSmall
<1>5. x \in Nat /\ y \in Nat /\ x > y
  BY <1>4, BaseIsBig
<1> HIDE DEF x, y, P, v, w
<1>6. x * P >= y * P + P
  <2>1. PICK z \in Nat : x = y + 1 + z
    <3>1. x - (y + 1) \in Nat /\ x = y + 1 + (x - (y + 1))
      BY <1>5
    <3> QED BY <3>1
  <2>2. x * P = y * P + P + z * P /\ z * P \in Nat /\ y * P \in Nat
    BY <1>3, <1>5, <2>1
  <2> QED BY <1>3, <2>2
<1>7. x * P \in Nat /\ y * P \in Nat
  BY <1>3, <1>5
<1> QED BY <1>2, <1>3, <1>6, <1>7

LEMMA LongerIsMore ==
  ASSUME NEW p \in Seq(Limbs), NEW q \in Seq(Limbs), Used(p) > Used(q)
  PROVE  Magnitude(p) > Magnitude(q)
<1> DEFINE i == Used(p)
           j == Used(q)
           h == i - 1
<1>1. i \in Nat /\ j \in Nat
  BY UsedIs
<1>2. Magnitude(p) \in Nat /\ Magnitude(q) \in Nat /\ Magnitude(q) < Places[j]
  BY MagnitudeOfUsed
<1>3. i # 0 => Magnitude(p) >= Places[i - 1]
  BY MagnitudeOfUsed
<1> HIDE DEF i, j
<1>4. i > j
  BY DEF i, j
<1>5. h \in Nat /\ j <= h /\ i # 0
  BY <1>1, <1>4
<1>6. Magnitude(p) >= Places[h]
  BY <1>3, <1>5
<1> HIDE DEF h
<1>7. Places[j] <= Places[h]
  BY <1>1, <1>5, PlacesGrow
<1>8. Places[j] \in Nat \ {0} /\ Places[h] \in Nat \ {0}
  BY <1>1, <1>5, PlacesAre
<1> QED BY <1>2, <1>6, <1>7, <1>8

LEMMA SameLimbsAbove ==
  ASSUME NEW p \in Seq(Limbs), NEW q \in Seq(Limbs), NEW m \in Nat, NEW i \in Nat,
         m <= i, \A k \in 1..i : k > m => Limb(p, k) = Limb(q, k)
  PROVE  /\ Worth(p)[i] - Worth(p)[m] = Worth(q)[i] - Worth(q)[m]
         /\ Worth(p)[m] \in Nat /\ Worth(q)[m] \in Nat
         /\ Worth(p)[i] \in Nat /\ Worth(q)[i] \in Nat
<1> DEFINE h == i - m
<1>1. h \in Nat /\ m + h = i
  OBVIOUS
<1> HIDE DEF h
<1>2. \A k \in 1..h : Limb(p, m + k) = Limb(q, m + k)
  <2> SUFFICES ASSUME NEW k \in 1..h PROVE Limb(p, m + k) = Limb(q, m + k)
    OBVIOUS
  <2>1. m + k \in 1..i /\ m + k > m
    BY <1>1
  <2> QED BY <2>1
<1>3. Part(p, m)[h] = Part(q, m)[h]
  BY <1>1, <1>2, SameParts
<1>4. Worth(p)[m + h] = Worth(p)[m] + Places[m] * Part(p, m)[h]
  BY <1>1, PartOf
<1>5. Worth(q)[m + h] = Worth(q)[m] + Places[m] * Part(q, m)[h]
  BY <1>1, PartOf
<1>6. /\ Worth(p)[m] \in Nat /\ Worth(q)[m] \in Nat
      /\ Worth(p)[i] \in Nat /\ Worth(q)[i] \in Nat
  BY WorthAt
<1>7. Places[m] \in Nat \ {0} /\ Part(p, m)[h] \in Nat
  BY <1>1, PlacesAre, PartOf
<1> DEFINE x == Places[m] * Part(p, m)[h]
<1>8. x \in Nat
  BY <1>7
<1>9. Worth(p)[i] = Worth(p)[m] + x /\ Worth(q)[i] = Worth(q)[m] + x
  BY <1>1, <1>3, <1>4, <1>5
<1> HIDE DEF x
<1> QED BY <1>6, <1>8, <1>9

LEMMA CmpAbs ==
  ASSUME NEW X, NEW Y, X.p \in Seq(Limbs), Y.p \in Seq(Limbs)
  PROVE  cmp_abs(X, Y) = IF Magnitude(X.p) > Magnitude(Y.p) THEN 1
                         ELSE IF Magnitude(X.p) < Magnitude(Y.p) THEN -1 ELSE 0
<1> DEFINE p == X.p
           q == Y.p
           i == Used(p)
           j == Used(q)
           D == {k \in 1..i : p[k] # q[k]}
           m == Max(D)
<1>1. p \in Seq(Limbs) /\ q \in Seq(Limbs)
  OBVIOUS
<1>2. cmp_abs(X, Y) =
        IF i > j THEN 1 ELSE IF j > i THEN -1
        ELSE IF D = {} THEN 0 ELSE IF p[m] > q[m] THEN 1 ELSE -1
  BY DEF cmp_abs
<1> HIDE DEF p, q
<1>3. i > j => Magnitude(p) > Magnitude(q)
  BY <1>1, LongerIsMore
<1>4. j > i => Magnitude(p) < Magnitude(q)
  <2>1. j > i => Magnitude(q) > Magnitude(p)
    BY <1>1, LongerIsMore
  <2>2. Magnitude(p) \in Nat /\ Magnitude(q) \in Nat
    BY <1>1, MagnitudeOfUsed
  <2> QED BY <2>1, <2>2
<1>5. /\ i \in 0..Len(p) /\ i \in Nat /\ j \in 0..Len(q) /\ j \in Nat
      /\ Len(p) \in Nat /\ Len(q) \in Nat
  BY <1>1, UsedIs
<1>6. /\ Magnitude(p) = Worth(p)[i] /\ Magnitude(p) \in Nat
      /\ Magnitude(q) = Worth(q)[j] /\ Magnitude(q) \in Nat
  BY <1>1, MagnitudeOfUsed
<1> HIDE DEF i, j, m
<1>7. ASSUME i = j, NEW k \in 1..i
      PROVE  /\ Limb(p, k) = p[k] /\ Limb(q, k) = q[k]
             /\ p[k] \in Nat /\ q[k] \in Nat
  <2>1. k \in 1..Len(p) /\ k \in 1..Len(q)
    BY <1>5, <1>7
  <2>2. p[k] \in 0..(Base - 1) /\ q[k] \in 0..(Base - 1)
    BY <1>1, <2>1, LimbsAreNatural
  <2>3. k \in DOMAIN p /\ k \in DOMAIN q
    BY <1>1, <2>1
  <2> QED BY <2>2, <2>3, BaseIsBig DEF Limb
<1>8. ASSUME i = j, D = {} PROVE Magnitude(p) = Magnitude(q)
  <2>1. \A k \in 1..i : k > 0 => Limb(p, k) = Limb(q, k)
    BY <1>7, <1>8
  <2> DEFINE z == 0
  <2>2. z \in Nat /\ z <= i /\ \A k \in 1..i : k > z => Limb(p, k) = Limb(q, k)
    BY <1>5, <2>1
  <2> HIDE DEF z
  <2>3. /\ Worth(p)[i] - Worth(p)[z] = Worth(q)[i] - Worth(q)[z]
        /\ Worth(p)[i] \in Nat /\ Worth(q)[i] \in Nat
    BY <1>1, <1>5, <2>2, SameLimbsAbove
  <2>4. Worth(p)[z] = 0 /\ Worth(q)[z] = 0
    BY <1>1, <2>2, WorthAt DEF z
  <2>5. Worth(p)[i] = Worth(q)[i]
    BY <2>3, <2>4
  <2> QED BY <1>6, <1>8, <2>5
<1>9. ASSUME i = j, D # {}
      PROVE  m \in D /\ \A k \in D : k <= m
  <2>1. D \subseteq 0..i
    OBVIOUS
  <2> HIDE DEF D
  <2> QED BY <1>5, <1>9, <2>1, MaxIsElement DEF m
<1>10. ASSUME i = j, D # {}
       PROVE  /\ p[m] > q[m] => Magnitude(p) > Magnitude(q)
              /\ ~(p[m] > q[m]) => Magnitude(p) < Magnitude(q)
  <2>1. m \in 1..i /\ m \in Nat \ {0} /\ p[m] # q[m] /\ m <= i /\ m \in Nat
    BY <1>5, <1>9, <1>10
  <2>2. /\ Limb(p, m) = p[m] /\ Limb(q, m) = q[m] /\ p[m] \in Nat /\ q[m] \in Nat
    BY <1>7, <1>10, <2>1
  <2>3. \A k \in 1..i : k > m => Limb(p, k) = Limb(q, k)
    <3> SUFFICES ASSUME NEW k \in 1..i, k > m PROVE Limb(p, k) = Limb(q, k)
      OBVIOUS
    <3>1. k \notin D
      BY <1>9, <1>10, <2>1
    <3>2. p[k] = q[k]
      BY <3>1
    <3> QED BY <1>7, <1>10, <3>2
  <2>4. /\ Worth(p)[i] - Worth(p)[m] = Worth(q)[i] - Worth(q)[m]
        /\ Worth(p)[m] \in Nat /\ Worth(q)[m] \in Nat
        /\ Worth(p)[i] \in Nat /\ Worth(q)[i] \in Nat
    BY <1>1, <1>5, <2>1, <2>3, SameLimbsAbove
  <2>5. p[m] > q[m] => Worth(p)[m] > Worth(q)[m]
    BY <1>1, <2>1, <2>2, HigherLimbDecides
  <2>6. q[m] > p[m] => Worth(q)[m] > Worth(p)[m]
    BY <1>1, <2>1, <2>2, HigherLimbDecides
  <2>7. Magnitude(p) = Worth(p)[i] /\ Magnitude(q) = Worth(q)[i]
    BY <1>6, <1>10
  <2> HIDE DEF D
  <2> QED BY <2>1, <2>2, <2>4, <2>5, <2>6, <2>7
<1> HIDE DEF D
<1> QED BY <1>2, <1>3, <1>4, <1>5, <1>6, <1>8, <1>10 DEF p, q
----------------------------------------------------------------------------
(* Multiplication by a limb. *)

\* A loop that adds a term at each limb passes on what does not fit.
Carrying(c, L, term) ==
  \A k \in 0..L : c[k] = IF k = 0 THEN 0 ELSE (c[k - 1] + term[k]) \div Base

LEMMA CarriesAre ==
  ASSUME NEW L \in Nat, NEW term \in [Nat -> Nat]
  PROVE  \E c \in [0..L -> Nat] : Carrying(c, L, term)
<1> DEFINE Step == [t \in (1..L) \X Nat |-> (t[2] + term[t[1]]) \div Base]
           zero == 0
<1>1. \A k \in 1..L, v \in Nat : Step[<<k, v>>] = (v + term[k]) \div Base
  OBVIOUS
<1>2. LeadsTo(Nat, L, Step)
  <2> SUFFICES ASSUME NEW k \in 1..L, NEW v \in Nat PROVE Step[<<k, v>>] \in Nat
    BY DEF LeadsTo
  <2>0. k \in Nat
    OBVIOUS
  <2>1. v + term[k] \in Nat /\ Base \in Nat \ {0}
    BY <2>0, BaseIsBig
  <2> HIDE DEF Step
  <2>2. \A x \in Nat, y \in Nat \ {0} : x \div y \in Nat
    OBVIOUS
  <2> QED BY <1>1, <2>1, <2>2
<1> HIDE DEF Step
<1>3. zero \in Nat
  OBVIOUS
<1> HIDE DEF zero
<1>4. PICK g \in [0..L -> Nat] : IsLed(g, L, zero, Step)
  BY <1>2, <1>3, BoundedRecursion
<1>5. ASSUME NEW k \in 0..L, k # 0
      PROVE  g[k] = (g[k - 1] + term[k]) \div Base
  <2> DEFINE h == k - 1
  <2>1. h \in 0..L /\ k \in 1..L
    BY <1>5
  <2> HIDE DEF h
  <2>2. g[h] \in Nat
    BY <1>4, <2>1
  <2>3. g[k] = Step[<<k, g[h]>>]
    BY <1>4, <1>5 DEF h, IsLed
  <2>4. g[k] = (g[h] + term[k]) \div Base
    BY <1>1, <2>1, <2>2, <2>3
  <2> QED BY <2>4 DEF h
<1>6. \A k \in 0..L : g[k] = IF k = 0 THEN 0 ELSE (g[k - 1] + term[k]) \div Base
  BY <1>4, <1>5 DEF zero, IsLed
<1> QED BY <1>6 DEF Carrying

\* What is left in the limbs is the sum, but for the carry out of the last one.
Carried(p, at, L, c, term) ==
  /\ c[0] = 0 /\ \A k \in 0..L : c[k] \in Int
  /\ \A k \in 1..L : Limb(p, at + k) + Base * c[k] = term[k] + c[k - 1]

LEMMA CarriedSum ==
  ASSUME NEW L \in Nat, NEW term \in Numbers, NEW c,
         NEW p \in Seq(Limbs), NEW at \in Nat,
         Carried(p, at, L, c, term), NEW k \in 0..L
  PROVE  Part(p, at)[k] + Places[k] * c[k] = Sums(Base, term)[k]
<1> DEFINE C == [i \in Nat |-> IF i <= L THEN c[i] ELSE 0]
           f == LimbsFrom(p, at)
<1>1. C \in [Nat -> Int]
  BY DEF Carried
<1>2. C \in Numbers
  BY <1>1 DEF Numbers
<1>3. \A i \in 0..L : C[i] = c[i]
  OBVIOUS
<1> HIDE DEF C
<1>4. f \in Numbers /\ \A i \in Nat : f[i] = Limb(p, at + i)
  BY LimbsFromAre
<1> HIDE DEF f
<1>5. \A i \in 1..k : f[i] + Base * C[i] = term[i] + C[i - 1]
  <2> SUFFICES ASSUME NEW i \in 1..k PROVE f[i] + Base * C[i] = term[i] + C[i - 1]
    OBVIOUS
  <2>1. i \in 1..L /\ i \in 0..L /\ i - 1 \in 0..L /\ i \in Nat
    OBVIOUS
  <2>2. C[i] = c[i] /\ C[i - 1] = c[i - 1] /\ f[i] = Limb(p, at + i)
    BY <1>3, <1>4, <2>1
  <2> QED BY <2>1, <2>2 DEF Carried
<1>6. k \in Nat /\ Base \in Nat \ {0}
  BY BaseIsBig
<1>7. Sums(Base, f)[k] + PowersOf(Base)[k] * C[k] = Sums(Base, term)[k] + C[0]
  BY <1>2, <1>4, <1>5, <1>6, SumsCarry, SMTT(30)
<1>8. C[0] = 0 /\ C[k] = c[k]
  BY <1>3 DEF Carried
<1>9. Sums(Base, term)[k] \in Int
  BY <1>6, SumAt
<1> QED BY <1>7, <1>8, <1>9 DEF Part, Places, f

LEMMA MulHlp ==
  ASSUME NEW n \in Nat, NEW s \in Seq(Limbs), NEW d \in Seq(Limbs), NEW at \in Nat,
         NEW b \in Limbs, n <= Len(s), at + n <= Len(d)
  PROVE  /\ mul_hlp(n, s, d, at, b) \in Seq(Limbs)
         /\ Len(mul_hlp(n, s, d, at, b)) = Len(d)
         /\ \A i \in 1..at : Limb(mul_hlp(n, s, d, at, b), i) = Limb(d, i)
         /\ \A k \in n..(Len(d) - at) : \E e \in Nat :
              Part(mul_hlp(n, s, d, at, b), at)[k] + Places[k] * e
                = Part(d, at)[k] + b * Worth(s)[n]
<1> DEFINE L == Len(d) - at
           S == [i \in Nat |-> IF i <= n THEN Limb(s, i) ELSE 0]
           D == LimbsFrom(d, at)
           term == [i \in Nat |-> D[i] + b * S[i]]
           Is(c) == c = [k \in 0..L |->
                      IF k = 0 THEN 0
                      ELSE (c[k - 1] + d[at + k] + (IF k <= n THEN s[k] * b ELSE 0))
                             \div Base]
<1>1. L \in Nat /\ n <= L /\ b \in Nat /\ Base \in Nat \ {0} /\ Len(d) = at + L
  <2>1. b \in Nat /\ Base \in Nat \ {0}
    BY LimbsAreSmall, BaseIsBig
  <2> QED BY <2>1
<1>2. S \in Numbers /\ \A i \in Nat : /\ S[i] = IF i <= n THEN Limb(s, i) ELSE 0
                                      /\ S[i] \in Nat
  <2>1. \A i \in Nat : Limb(s, i) \in Nat
    BY LimbIsSmall, LimbsAreSmall
  <2>2. \A i \in Nat : S[i] = IF i <= n THEN Limb(s, i) ELSE 0
    OBVIOUS
  <2>3. S \in [Nat -> Int]
    BY <2>1
  <2> HIDE DEF S
  <2> QED BY <2>1, <2>2, <2>3 DEF Numbers
<1>3. D \in Numbers /\ \A i \in Nat : D[i] = Limb(d, at + i) /\ D[i] \in Nat
  <2>1. D \in Numbers /\ \A i \in Nat : D[i] = Limb(d, at + i) /\ D[i] \in 0..(Base - 1)
    BY LimbsFromAre
  <2>2. \A x \in 0..(Base - 1) : x \in Nat
    BY BaseIsBig
  <2> HIDE DEF D
  <2> QED BY <2>1, <2>2
<1> HIDE DEF S, D
<1>4. /\ term \in Numbers /\ term \in [Nat -> Nat]
      /\ \A i \in Nat : term[i] = D[i] + b * S[i] /\ term[i] \in Nat
  <2>1. \A i \in Nat : b * S[i] \in Nat
    BY <1>1, <1>2
  <2>2. \A i \in Nat : D[i] + b * S[i] \in Nat
    <3> SUFFICES ASSUME NEW i \in Nat PROVE D[i] + b * S[i] \in Nat
      OBVIOUS
    <3>1. D[i] \in Nat /\ b * S[i] \in Nat
      BY <1>3, <2>1
    <3> DEFINE x == b * S[i]
    <3> HIDE DEF x
    <3>2. D[i] + x \in Nat
      BY <3>1 DEF x
    <3> QED BY <3>2 DEF x
  <2> DEFINE e(i) == D[i] + b * S[i]
  <2>3. term = [i \in Nat |-> e(i)] /\ \A i \in Nat : e(i) \in Nat
    BY <2>2
  <2> HIDE DEF term, e
  <2>4. term \in [Nat -> Nat] /\ \A i \in Nat : term[i] = e(i)
    BY <2>3
  <2>5. term \in [Nat -> Int]
    BY <2>4
  <2> QED BY <2>3, <2>4, <2>5 DEF Numbers, e
<1> HIDE DEF term, L
<1>5. ASSUME NEW k \in 1..L
      PROVE  /\ term[k] = d[at + k] + (IF k <= n THEN s[k] * b ELSE 0)
             /\ d[at + k] \in Int /\ (IF k <= n THEN s[k] * b ELSE 0) \in Int
  <2>1. k \in Nat /\ at + k \in DOMAIN d /\ (k <= n => k \in DOMAIN s)
    BY <1>1
  <2>2. D[k] = d[at + k]
    BY <1>3, <2>1 DEF Limb
  <2>3. k <= n => S[k] = s[k]
    BY <1>2, <2>1 DEF Limb
  <2>4. k > n => S[k] = 0
    BY <1>2, <2>1
  <2>5. D[k] \in Nat /\ S[k] \in Nat /\ term[k] = D[k] + b * S[k]
    BY <1>2, <1>3, <1>4, <2>1
  <2>6. \A x \in Nat : b * x = x * b /\ x * b \in Int /\ b * 0 = 0
    BY <1>1
  <2> QED BY <1>1, <2>1, <2>2, <2>3, <2>4, <2>5, <2>6
<1>6. PICK g \in [0..L -> Nat] : Carrying(g, L, term)
  BY <1>1, <1>4, CarriesAre
<1>7. \E c : Is(c)
  <2>1. ASSUME NEW k \in 0..L, k # 0
        PROVE  g[k - 1] + term[k]
                 = g[k - 1] + d[at + k] + (IF k <= n THEN s[k] * b ELSE 0)
    <3>1. k \in 1..L /\ k - 1 \in 0..L
      BY <1>1, <2>1
    <3> DEFINE h == k - 1
               y == IF k <= n THEN s[k] * b ELSE 0
    <3>2. term[k] = d[at + k] + y /\ d[at + k] \in Int /\ y \in Int
      BY <1>5, <3>1
    <3>3. h \in 0..L
      BY <3>1
    <3> HIDE DEF h, y
    <3>4. g[h] \in Nat
      BY <1>6, <3>3
    <3>5. g[h] + term[k] = g[h] + d[at + k] + y
      BY <3>2, <3>4
    <3> QED BY <3>5 DEF h, y
  <2>2. \A k \in 0..L : g[k] = IF k = 0 THEN 0
          ELSE (g[k - 1] + d[at + k] + (IF k <= n THEN s[k] * b ELSE 0)) \div Base
    BY <1>6, <2>1 DEF Carrying
  <2>3. Is(g)
    BY <1>6, <2>2
  <2> QED BY <2>3
<1> DEFINE c == CHOOSE x : Is(x)
           r == mul_hlp(n, s, d, at, b)
<1>8. Is(c)
  BY <1>7
<1>9. \A k \in 0..L : c[k] = IF k = 0 THEN 0
          ELSE (c[k - 1] + d[at + k] + (IF k <= n THEN s[k] * b ELSE 0)) \div Base
  BY <1>8
<1> DEFINE row == [i \in 1..Len(d) |->
                     IF i <= at THEN d[i]
                     ELSE (d[i] + c[i - at - 1]
                            + (IF i - at <= n THEN s[i - at] * b ELSE 0)) % Base]
<1>10. r = SubSeq(row, 1, Len(d))
  BY DEF mul_hlp, LimbSeq, L
<1> HIDE DEF Is, c, r
<1>11. \A i \in 1..Len(d) : i <= at => row[i] = d[i]
  OBVIOUS
<1>12. ASSUME NEW k \in 1..L
       PROVE  row[at + k]
                = (d[at + k] + c[k - 1] + (IF k <= n THEN s[k] * b ELSE 0)) % Base
  <2>1. at + k \in 1..Len(d) /\ ~(at + k <= at) /\ (at + k) - at = k
        /\ (at + k) - at - 1 = k - 1
    BY <1>1
  <2> QED BY <2>1
<1>13. row = [i \in 1..Len(d) |-> row[i]]
  OBVIOUS
<1> HIDE DEF row
<1> DEFINE W == {k \in 0..L : c[k] \in Nat}
<1>14. 0 \in W
  BY <1>1, <1>9
<1>15. ASSUME NEW k \in 1..L, c[k - 1] \in Nat
       PROVE  /\ c[k] = (c[k - 1] + term[k]) \div Base /\ c[k] \in Nat
              /\ row[at + k] = (c[k - 1] + term[k]) % Base
              /\ c[k - 1] + term[k] \in Nat
  <2> DEFINE h == k - 1
             x == c[h]
             y == d[at + k]
             z == IF k <= n THEN s[k] * b ELSE 0
  <2>1. k \in 0..L /\ k # 0
    OBVIOUS
  <2>2. c[k] = (x + y + z) \div Base
    BY <1>9, <2>1
  <2>3. row[at + k] = (y + x + z) % Base
    BY <1>12
  <2>4. term[k] = y + z /\ y \in Int /\ z \in Int
    BY <1>5
  <2>5. x \in Nat
    BY <1>15
  <2>6. k \in Nat
    OBVIOUS
  <2>7. term[k] \in Nat
    BY <1>4, <2>6
  <2> HIDE DEF x, y, z
  <2>8. x + y + z = x + term[k] /\ y + x + z = x + term[k] /\ x + term[k] \in Nat
    BY <2>4, <2>5, <2>7
  <2>9. \A a \in Nat, e \in Nat \ {0} : a \div e \in Nat
    OBVIOUS
  <2>10. (x + term[k]) \div Base \in Nat
    BY <1>1, <2>8, <2>9
  <2> QED BY <2>2, <2>3, <2>8, <2>10 DEF x
<1>16. ASSUME NEW k \in 0..(L - 1), k \in W PROVE k + 1 \in W
  <2> DEFINE h == k + 1
  <2>1. h \in 1..L /\ h \in 0..L /\ h - 1 = k
    BY <1>1
  <2> HIDE DEF h
  <2>2. c[h - 1] \in Nat
    BY <1>16, <2>1
  <2>3. c[h] \in Nat
    BY <1>15, <2>1, <2>2
  <2> QED BY <2>1, <2>3 DEF h
<1>17. \A k \in 0..L : c[k] \in Nat
  <2> HIDE DEF W
  <2>1. \A k \in 0..L : k \in W
    BY <1>1, <1>14, <1>16, BoundedInduction
  <2> QED BY <2>1 DEF W
<1>18. ASSUME NEW k \in 1..L
       PROVE  /\ row[at + k] \in Limbs
              /\ row[at + k] + Base * c[k] = term[k] + c[k - 1]
  <2> DEFINE h == k - 1
             x == c[h] + term[k]
  <2>1. h \in 0..L
    BY <1>1
  <2>2. c[k] = x \div Base /\ row[at + k] = x % Base /\ x \in Nat
    BY <1>15, <1>17, <2>1
  <2>3. k \in Nat
    OBVIOUS
  <2>4. c[h] \in Nat /\ term[k] \in Nat
    BY <1>4, <1>17, <2>1, <2>3
  <2>5. x = term[k] + c[h]
    BY <2>4
  <2> HIDE DEF x
  <2>6. x % Base \in 0..(Base - 1) /\ x = Base * (x \div Base) + (x % Base)
        /\ x \div Base \in Int
    <3>1. x \in Int /\ Base \in Nat \ {0}
      BY <1>1, <2>2
    <3> QED BY <3>1, QuotientRemainder
  <2>7. x % Base \in Limbs /\ x % Base \in Int
    BY <1>1, <2>6 DEF Limbs
  <2>8. (x % Base) + Base * (x \div Base) = x
    <3> DEFINE u == x % Base  v == Base * (x \div Base)
    <3>1. u \in Int /\ v \in Int /\ x = v + u
      BY <1>1, <2>6, <2>7
    <3> HIDE DEF u, v
    <3> QED BY <3>1 DEF u, v
  <2> QED BY <2>2, <2>5, <2>7, <2>8 DEF h
<1>19. \A i \in 1..Len(d) : row[i] \in Limbs
  <2> SUFFICES ASSUME NEW i \in 1..Len(d) PROVE row[i] \in Limbs
    OBVIOUS
  <2>1. CASE i <= at
    BY <1>11, <2>1
  <2>2. CASE ~(i <= at)
    <3> DEFINE k == i - at
    <3>1. k \in 1..L /\ at + k = i
      BY <1>1, <2>2
    <3> HIDE DEF k
    <3>2. row[at + k] \in Limbs
      BY <1>18, <3>1
    <3> QED BY <3>1, <3>2
  <2> QED BY <2>1, <2>2
<1>20. /\ r = row /\ r \in Seq(Limbs) /\ Len(r) = Len(d)
       /\ \A i \in 1..Len(d) : Limb(r, i) = row[i]
  <2>1. Len(d) \in Nat
    OBVIOUS
  <2> QED BY <1>10, <1>13, <1>19, <2>1, TableOfLimbs
<1>21. \A i \in 1..at : Limb(r, i) = Limb(d, i)
  <2> SUFFICES ASSUME NEW i \in 1..at PROVE Limb(r, i) = Limb(d, i)
    OBVIOUS
  <2>1. i \in 1..Len(d) /\ i <= at /\ i \in DOMAIN d
    BY <1>1
  <2> QED BY <1>11, <1>20, <2>1 DEF Limb
<1>22. Carried(r, at, L, c, term)
  <2>0. c[0] = 0 /\ \A k \in 0..L : c[k] \in Int
    <3>1. 0 \in 0..L
      BY <1>1
    <3> QED BY <1>9, <1>17, <3>1
  <2> SUFFICES ASSUME NEW k \in 1..L
               PROVE  Limb(r, at + k) + Base * c[k] = term[k] + c[k - 1]
    BY <2>0 DEF Carried
  <2>1. at + k \in 1..Len(d)
    BY <1>1
  <2> QED BY <1>18, <1>20, <2>1
<1>23. ASSUME NEW k \in n..L
       PROVE  Part(r, at)[k] + Places[k] * c[k] = Part(d, at)[k] + b * Worth(s)[n]
  <2>1. k \in 0..L /\ k \in Nat
    BY <1>1
  <2>2. Part(r, at)[k] + Places[k] * c[k] = Sums(Base, term)[k]
    <3>1. term \in Numbers /\ L \in Nat /\ r \in Seq(Limbs)
      BY <1>1, <1>4, <1>20
    <3> QED BY <1>22, <2>1, <3>1, CarriedSum
  <2>3. Sums(Base, term)[k] = Sums(Base, D)[k] + b * Sums(Base, S)[k]
    <3>1. AddsTo(term, D, b, S, k)
      BY <1>4 DEF AddsTo
    <3>2. b \in Int /\ Base \in Nat \ {0} /\ k \in Nat
      BY <1>1, <2>1
    <3>3. term \in Numbers /\ D \in Numbers /\ S \in Numbers
      BY <1>2, <1>3, <1>4
    <3> QED BY <3>1, <3>2, <3>3, SumsAdd
  <2>4. Sums(Base, S)[k] = Sums(Base, S)[n]
    <3>1. \A i \in (n + 1)..k : S[i] = 0
      BY <1>2
    <3>2. n <= k
      BY <1>1
    <3> QED BY <1>1, <1>2, <2>1, <3>1, <3>2, SumsEnd
  <2>5. Part(s, 0)[n] = Sums(Base, S)[n]
    <3> DEFINE z == 0
    <3>1. z \in Nat /\ \A i \in 1..n : S[i] = Limb(s, z + i)
      BY <1>2
    <3> HIDE DEF z
    <3>2. Part(s, z)[n] = Sums(Base, S)[n]
      BY <1>2, <3>1, PartIsSum
    <3> QED BY <3>2 DEF z
  <2>6. Part(s, 0) = Worth(s)
    BY PartOf
  <2> QED BY <2>2, <2>3, <2>4, <2>5, <2>6 DEF Part, D
<1>24. \A k \in n..L : \E e \in Nat :
         Part(r, at)[k] + Places[k] * e = Part(d, at)[k] + b * Worth(s)[n]
  <2> SUFFICES ASSUME NEW k \in n..L
               PROVE  \E e \in Nat : Part(r, at)[k] + Places[k] * e
                                       = Part(d, at)[k] + b * Worth(s)[n]
    OBVIOUS
  <2>1. k \in 0..L
    BY <1>1
  <2>2. c[k] \in Nat
    BY <1>17, <2>1
  <2> QED BY <1>23, <2>2
<1> QED BY <1>20, <1>21, <1>24 DEF r, L

\* The limb b times the first n limbs of s.
Row(s, n, b) == b * Worth(s)[n]

\* When the sum fits in k limbs, nothing is carried out of them.
LEMMA MulHlpFits ==
  ASSUME NEW n \in Nat, NEW s \in Seq(Limbs), NEW d \in Seq(Limbs), NEW at \in Nat,
         NEW b \in Limbs, n <= Len(s), at + n <= Len(d), NEW k \in Nat, n <= k,
         at + k <= Len(d), Part(d, at)[k] + Row(s, n, b) < Places[k]
  PROVE  /\ mul_hlp(n, s, d, at, b) \in Seq(Limbs)
         /\ Len(mul_hlp(n, s, d, at, b)) = Len(d)
         /\ Part(mul_hlp(n, s, d, at, b), at)[k] = Part(d, at)[k] + Row(s, n, b)
<1> DEFINE r == mul_hlp(n, s, d, at, b)
           g == Part(r, at)[k]
           h == Part(d, at)[k] + b * Worth(s)[n]
           P == Places[k]
<1>1. r \in Seq(Limbs) /\ Len(r) = Len(d)
  BY MulHlp
<1>2. \A l \in n..(Len(d) - at) : \E e \in Nat :
        Part(r, at)[l] + Places[l] * e = Part(d, at)[l] + b * Worth(s)[n]
  BY MulHlp
<1>3. k \in n..(Len(d) - at)
  OBVIOUS
<1> HIDE DEF r
<1>4. PICK e \in Nat : g + P * e = h
  BY <1>2, <1>3
<1>5. g \in Nat /\ P \in Nat \ {0}
  BY <1>1, PartOf, PlacesAre
<1>6. h \in Nat /\ h < P
  <2>1. Part(d, at)[k] \in Nat /\ Worth(s)[n] \in Nat /\ b \in Nat
    BY PartOf, WorthAt, LimbsAreSmall
  <2> DEFINE x == Part(d, at)[k]  y == b * Worth(s)[n]
  <2>2. y \in Nat
    BY <2>1
  <2>3. x + y < P
    BY DEF Row
  <2>4. x \in Nat
    BY <2>1
  <2> HIDE DEF x, y, P
  <2>5. x + y \in Nat /\ x + y < P
    BY <2>2, <2>3, <2>4
  <2> QED BY <2>5 DEF x, y
<1> HIDE DEF g, h, P
<1>7. e = 0
  <2>1. SUFFICES ASSUME e # 0 PROVE FALSE
    OBVIOUS
  <2>2. \A x \in Nat \ {0}, y \in Nat \ {0} : x <= x * y /\ x * y \in Nat
    OBVIOUS
  <2> DEFINE Pe == P * e
  <2>3. P <= Pe /\ Pe \in Nat
    BY <1>5, <2>1, <2>2
  <2>4. g + Pe = h
    BY <1>4
  <2> HIDE DEF Pe
  <2> QED BY <1>5, <1>6, <2>3, <2>4
<1>8. P * 0 = 0
  BY <1>5
<1>9. g = h
  BY <1>4, <1>5, <1>7, <1>8
<1> QED BY <1>1, <1>9 DEF r, g, h, Row
----------------------------------------------------------------------------
(* Subtraction. *)

Borrow(a, b, c) == (IF a < c THEN 1 ELSE 0) + (IF (a - c) % Base < b THEN 1 ELSE 0)

LEMMA BorrowIs ==
  ASSUME NEW a \in Limbs, NEW b \in Limbs, NEW c \in {0, 1}
  PROVE  /\ Borrow(a, b, c) \in {0, 1} /\ (a - c - b) % Base \in Limbs
         /\ (a - c - b) % Base = a - c - b + Base * Borrow(a, b, c)
<1>1. a \in Nat /\ b \in Nat /\ a < Base /\ b < Base /\ Base \in Nat \ {0, 1}
  BY LimbsAreSmall, BaseIsBig
<1>2. CASE a < c
  <2>1. a = 0 /\ c = 1
    BY <1>1, <1>2
  <2>2. (-1) % Base = Base - 1
    BY <1>1
  <2>3. Borrow(a, b, c) = 1
    BY <1>1, <2>1, <2>2 DEF Borrow
  <2>4. Base - 1 - b \in 0..(Base - 1) /\ a - c - b = Base * (-1) + (Base - 1 - b)
    BY <1>1, <2>1
  <2> DEFINE x == Base - 1 - b
  <2>5. (Base * (-1) + x) % Base = x
    <3>1. x \in 0..(Base - 1) /\ Base \in Nat \ {0} /\ -1 \in Int
      BY <1>1, <2>4
    <3> HIDE DEF x
    <3> QED BY <3>1, QuotientUnique
  <2>6. x \in Limbs
    BY <2>4 DEF Limbs
  <2>7. (a - c - b) % Base = x
    BY <2>4, <2>5
  <2>8. x = a - c - b + Base * 1
    BY <1>1, <2>1
  <2> QED BY <2>3, <2>6, <2>7, <2>8
<1>3. CASE ~(a < c)
  <2> DEFINE y == a - c
  <2>1. y \in Nat /\ y < Base
    BY <1>1, <1>3
  <2>2. y % Base = y
    <3> HIDE DEF y
    <3> QED BY <1>1, <2>1
  <2> HIDE DEF y
  <2>3. CASE y < b
    <3>1. Borrow(a, b, c) = 1
      BY <1>1, <1>3, <2>2, <2>3 DEF Borrow, y
    <3> DEFINE x == y - b + Base
    <3>2. x \in 0..(Base - 1) /\ y - b = Base * (-1) + x
      BY <1>1, <2>1, <2>3
    <3>3. (Base * (-1) + x) % Base = x
      <4>1. x \in 0..(Base - 1) /\ Base \in Nat \ {0} /\ -1 \in Int
        BY <1>1, <3>2
      <4> HIDE DEF x
      <4> QED BY <4>1, QuotientUnique
    <3>4. (y - b) % Base = x /\ x \in Limbs
      BY <3>2, <3>3 DEF Limbs
    <3>5. Base * 1 = Base
      BY <1>1
    <3>6. a - c - b = y - b
      BY DEF y
    <3> HIDE DEF x
    <3>7. (a - c - b) % Base = x /\ x \in Limbs
      BY <3>4, <3>6
    <3>8. x = y - b + Base * 1
      BY <3>5 DEF x
    <3> QED BY <3>1, <3>6, <3>7, <3>8
  <2>4. CASE ~(y < b)
    <3>1. Borrow(a, b, c) = 0
      BY <1>1, <1>3, <2>2, <2>4 DEF Borrow, y
    <3> DEFINE x == y - b
    <3>2. x \in Nat /\ x < Base
      BY <1>1, <2>1, <2>4
    <3>3. x % Base = x /\ x \in Limbs /\ Base * 0 = 0
      <4> HIDE DEF x
      <4> QED BY <1>1, <3>2, LimbsAreSmall
    <3>4. a - c - b = x
      BY DEF y
    <3> HIDE DEF x
    <3>5. (a - c - b) % Base = x /\ x \in Limbs
      BY <3>3, <3>4
    <3>6. x = x + Base * 0
      BY <3>2, <3>3
    <3> QED BY <3>1, <3>4, <3>5, <3>6
  <2> QED BY <2>3, <2>4
<1> QED BY <1>2, <1>3

LEMMA Borrowed ==
  ASSUME NEW d \in Seq(Limbs), NEW s \in Seq(Limbs)
  PROVE  /\ sub_hlp(d, s) \in Seq(Limbs) /\ Len(sub_hlp(d, s)) = Len(d)
         /\ \E e \in {0, 1} :
              Worth(sub_hlp(d, s))[Len(d)]
                = Worth(d)[Len(d)] - Worth(s)[Len(d)] + Places[Len(d)] * e
<1> DEFINE L == Len(d)
           Is(c) == c = [i \in 0..L |->
                     IF i = 0 THEN 0
                     ELSE (IF d[i] < c[i - 1] THEN 1 ELSE 0)
                            + (IF (d[i] - c[i - 1]) % Base < Limb(s, i) THEN 1 ELSE 0)]
           Step == [t \in (1..L) \X {0, 1} |-> Borrow(d[t[1]], Limb(s, t[1]), t[2])]
           zero == 0
           Bits == {0, 1}
<1>1. L \in Nat /\ \A i \in 1..L : d[i] \in Limbs /\ Limb(d, i) = d[i]
  BY DEF Limb
<1>2. \A i \in Nat : Limb(s, i) \in Limbs
  BY LimbIsSmall
<1> HIDE DEF L
<1>3. \A k \in 1..L, v \in Bits : Step[<<k, v>>] = Borrow(d[k], Limb(s, k), v)
  OBVIOUS
<1> HIDE DEF Step
<1>4. LeadsTo(Bits, L, Step)
  <2> SUFFICES ASSUME NEW k \in 1..L, NEW v \in Bits PROVE Step[<<k, v>>] \in Bits
    BY DEF LeadsTo
  <2>1. k \in Nat
    OBVIOUS
  <2>2. d[k] \in Limbs /\ Limb(s, k) \in Limbs
    BY <1>1, <1>2, <2>1
  <2>3. Borrow(d[k], Limb(s, k), v) \in Bits
    BY <2>2, BorrowIs
  <2> QED BY <1>3, <2>3
<1>5. zero \in Bits
  OBVIOUS
<1> HIDE DEF zero, Bits
<1>6. PICK g \in [0..L -> Bits] : IsLed(g, L, zero, Step)
  BY <1>1, <1>4, <1>5, BoundedRecursion
<1>7. \E c : Is(c)
  <2>1. ASSUME NEW i \in 0..L, i # 0
        PROVE  g[i] = (IF d[i] < g[i - 1] THEN 1 ELSE 0)
                  + (IF (d[i] - g[i - 1]) % Base < Limb(s, i) THEN 1 ELSE 0)
    <3> DEFINE h == i - 1
    <3>1. i \in 1..L /\ h \in 0..L
      BY <1>1, <2>1
    <3>2. g[i] = Step[<<i, g[h]>>]
      BY <1>6, <2>1 DEF IsLed
    <3> HIDE DEF h
    <3>3. g[h] \in Bits
      BY <1>6, <3>1
    <3>4. g[i] = Borrow(d[i], Limb(s, i), g[h])
      BY <1>3, <3>1, <3>2, <3>3
    <3> QED BY <3>4 DEF Borrow, h
  <2>2. \A i \in 0..L : g[i] = IF i = 0 THEN 0
          ELSE (IF d[i] < g[i - 1] THEN 1 ELSE 0)
                 + (IF (d[i] - g[i - 1]) % Base < Limb(s, i) THEN 1 ELSE 0)
    BY <1>6, <2>1 DEF IsLed, zero
  <2>3. Is(g)
    BY <1>6, <2>2
  <2> QED BY <2>3
<1> DEFINE c == CHOOSE x : Is(x)
           r == sub_hlp(d, s)
           row == [i \in 1..L |-> (d[i] - c[i - 1] - Limb(s, i)) % Base]
<1>8. Is(c)
  BY <1>7
<1>9. \A i \in 0..L : c[i] = IF i = 0 THEN 0 ELSE Borrow(d[i], Limb(s, i), c[i - 1])
  BY <1>8 DEF Borrow
<1>10. r = SubSeq(row, 1, L)
  BY DEF sub_hlp, LimbSeq, L
<1>11. row = [i \in 1..L |-> row[i]]
       /\ \A i \in 1..L : row[i] = (d[i] - c[i - 1] - Limb(s, i)) % Base
  OBVIOUS
<1> HIDE DEF Is, c, r, row
<1> DEFINE W == {k \in 0..L : c[k] \in {0, 1}}
<1>12. 0 \in W
  BY <1>1, <1>9
<1>13. ASSUME NEW k \in 1..L, c[k - 1] \in {0, 1}
       PROVE  /\ c[k] \in {0, 1} /\ row[k] \in Limbs
              /\ row[k] = d[k] - c[k - 1] - Limb(s, k) + Base * c[k]
  <2> DEFINE h == k - 1
  <2>1. c[h] \in {0, 1}
    BY <1>13
  <2>2. k \in 0..L /\ k # 0 /\ k \in Nat
    OBVIOUS
  <2>3. c[k] = Borrow(d[k], Limb(s, k), c[h])
    BY <1>9, <2>2
  <2>4. row[k] = (d[k] - c[h] - Limb(s, k)) % Base
    BY <1>11
  <2> HIDE DEF h
  <2>5. d[k] \in Limbs /\ Limb(s, k) \in Limbs
    BY <1>1, <1>2, <2>2
  <2> DEFINE x == d[k]  y == Limb(s, k)  z == c[h]
  <2>6. x \in Limbs /\ y \in Limbs /\ z \in {0, 1}
    BY <2>1, <2>5
  <2> HIDE DEF x, y, z
  <2>7. /\ Borrow(x, y, z) \in {0, 1} /\ (x - z - y) % Base \in Limbs
        /\ (x - z - y) % Base = x - z - y + Base * Borrow(x, y, z)
    BY <2>6, BorrowIs
  <2> QED BY <2>3, <2>4, <2>7 DEF x, y, z, h
<1>14. ASSUME NEW k \in 0..(L - 1), k \in W PROVE k + 1 \in W
  <2> DEFINE h == k + 1
  <2>1. h \in 1..L /\ h \in 0..L /\ h - 1 = k
    BY <1>1
  <2> HIDE DEF h
  <2>2. c[h - 1] \in {0, 1}
    BY <1>14, <2>1
  <2>3. c[h] \in {0, 1}
    BY <1>13, <2>1, <2>2
  <2> QED BY <2>1, <2>3 DEF h
<1>15. \A k \in 0..L : c[k] \in {0, 1}
  <2> HIDE DEF W
  <2>1. \A k \in 0..L : k \in W
    BY <1>1, <1>12, <1>14, BoundedInduction
  <2> QED BY <2>1 DEF W
<1>16. ASSUME NEW k \in 1..L
       PROVE  row[k] \in Limbs /\ row[k] = d[k] - c[k - 1] - Limb(s, k) + Base * c[k]
  <2>1. k - 1 \in 0..L
    BY <1>1
  <2>2. c[k - 1] \in {0, 1}
    BY <1>15, <2>1
  <2> QED BY <1>13, <2>2
<1>17. /\ r = row /\ r \in Seq(Limbs) /\ Len(r) = L
       /\ \A i \in 1..L : Limb(r, i) = row[i]
  BY <1>1, <1>10, <1>11, <1>16, TableOfLimbs, ZenonT(30)
<1> DEFINE z == 0
           C == [i \in Nat |-> IF i <= L THEN -c[i] ELSE 0]
           D == LimbsFrom(d, z)
           S == LimbsFrom(s, z)
           m == -1
           term == [i \in Nat |-> D[i] + m * S[i]]
<1>18. z \in Nat
  OBVIOUS
<1>19. /\ D \in Numbers /\ \A i \in Nat : D[i] = Limb(d, z + i)
       /\ S \in Numbers /\ \A i \in Nat : S[i] = Limb(s, z + i)
  <2> HIDE DEF z
  <2> QED BY <1>18, LimbsFromAre
<1>20. \A i \in Nat : Limb(d, z + i) \in Int /\ Limb(s, z + i) \in Int
  <2>1. \A x \in Limbs : x \in Int
    BY LimbsAreSmall
  <2> QED BY <2>1, LimbIsSmall
<1>21. term \in Numbers /\ \A i \in Nat : term[i] = D[i] + m * S[i]
  <2> DEFINE e(i) == D[i] + m * S[i]
  <2>1. \A i \in Nat : D[i] \in Int /\ S[i] \in Int
    BY <1>19, <1>20
  <2> HIDE DEF D, S
  <2>2. \A i \in Nat : e(i) \in Int
    BY <2>1
  <2>3. term = [i \in Nat |-> e(i)]
    OBVIOUS
  <2> HIDE DEF e, term
  <2>4. term \in [Nat -> Int] /\ \A i \in Nat : term[i] = e(i)
    BY <2>2, <2>3
  <2> QED BY <2>4 DEF e, Numbers
<1>22. /\ C[0] = 0 /\ \A i \in 0..L : C[i] = -c[i] /\ C[i] \in Int
  <2>1. \A i \in 0..L : i \in Nat /\ i <= L /\ -c[i] \in Int
    BY <1>1, <1>15
  <2>2. \A i \in 0..L : C[i] = -c[i]
    BY <2>1
  <2>3. 0 \in 0..L
    BY <1>1
  <2>4. c[0] = 0
    BY <1>9, <2>3
  <2> HIDE DEF C
  <2> QED BY <2>1, <2>2, <2>3, <2>4
<1> HIDE DEF C, D, S, term
<1>23. Carried(r, z, L, C, term)
  <2> SUFFICES ASSUME NEW k \in 1..L
               PROVE  Limb(r, z + k) + Base * C[k] = term[k] + C[k - 1]
    BY <1>22 DEF Carried
  <2> DEFINE h == k - 1
  <2>1. k \in Nat /\ k \in 0..L /\ h \in 0..L /\ z + k = k
    BY <1>1
  <2>2. Limb(r, z + k) = d[k] - c[h] - Limb(s, k) + Base * c[k]
    BY <1>16, <1>17, <2>1
  <2> HIDE DEF h
  <2>3. term[k] = D[k] + m * S[k] /\ D[k] = d[k] /\ S[k] = Limb(s, k)
    BY <1>1, <1>19, <1>21, <2>1
  <2>4. C[k] = -c[k] /\ C[h] = -c[h] /\ c[k] \in Int /\ c[h] \in Int
    BY <1>15, <1>22, <2>1
  <2>5. d[k] \in Int /\ Limb(s, k) \in Int
    BY <1>1, <1>20, <2>1
  <2> DEFINE x == d[k]  y == Limb(s, k)  u == c[k]  v == c[h]
  <2>6. x \in Int /\ y \in Int /\ u \in Int /\ v \in Int /\ Base \in Int
    BY <2>4, <2>5, BaseIsBig
  <2> HIDE DEF x, y, u, v
  <2>7. (x - v - y + Base * u) + Base * (-u) = (x + (-1) * y) + (-v)
    BY <2>6
  <2> QED BY <2>2, <2>3, <2>4, <2>7 DEF x, y, u, v, h
<1>24. Part(r, z)[L] + Places[L] * C[L] = Sums(Base, term)[L]
  <2>1. L \in 0..L
    BY <1>1
  <2> HIDE DEF z
  <2> QED BY <1>1, <1>17, <1>18, <1>21, <1>23, <2>1, CarriedSum
<1>25. Sums(Base, term)[L] = Sums(Base, D)[L] + m * Sums(Base, S)[L]
  <2>1. AddsTo(term, D, m, S, L)
    BY <1>21 DEF AddsTo
  <2>2. m \in Int /\ Base \in Nat \ {0}
    BY BaseIsBig
  <2>3. term \in Numbers /\ D \in Numbers /\ S \in Numbers
    BY <1>19, <1>21
  <2> HIDE DEF m
  <2> QED BY <1>1, <2>1, <2>2, <2>3, SumsAdd
<1>26. Part(r, 0) = Worth(r) /\ Sums(Base, D) = Worth(d) /\ Sums(Base, S) = Worth(s)
  <2>1. Part(r, 0) = Worth(r)
    BY <1>17, PartOf
  <2> QED BY <2>1 DEF Worth, D, S
<1>27. Worth(r)[L] = Worth(d)[L] - Worth(s)[L] + Places[L] * c[L]
  <2>1. /\ Worth(r)[L] \in Int /\ Worth(d)[L] \in Int /\ Worth(s)[L] \in Int
        /\ Places[L] \in Int
    <3>1. L \in Nat /\ r \in Seq(Limbs)
      BY <1>1, <1>17
    <3>2. Worth(r)[L] \in Nat /\ Worth(d)[L] \in Nat /\ Worth(s)[L] \in Nat
      BY <3>1, WorthAt
    <3>3. Places[L] \in Nat
      BY <3>1, PlacesAre
    <3> QED BY <3>2, <3>3
  <2>2. L \in 0..L
    BY <1>1
  <2>3. C[L] = -c[L] /\ c[L] \in Int
    BY <1>15, <1>22, <2>2
  <2> DEFINE x == Worth(r)[L]  y == Worth(d)[L]  u == Worth(s)[L]  P == Places[L]
             e == c[L]
  <2>4. x + P * (-e) = y + (-1) * u
    BY <1>24, <1>25, <1>26, <2>3
  <2>5. x \in Int /\ y \in Int /\ u \in Int /\ P \in Int /\ e \in Int
    BY <2>1, <2>3
  <2> HIDE DEF x, y, u, P, e
  <2>6. x = y - u + P * e
    BY <2>4, <2>5
  <2> QED BY <2>6 DEF x, y, u, P, e
<1>28. c[L] \in {0, 1}
  <2>1. L \in 0..L
    BY <1>1
  <2> QED BY <1>15, <2>1
<1> QED BY <1>17, <1>27, <1>28 DEF r, L

\* What fits in n limbs has its other limbs zero.
LEMMA WorthOfLow ==
  ASSUME NEW p \in Seq(Limbs), NEW n \in Nat, Magnitude(p) < Places[n]
  PROVE  /\ Worth(p)[n] = Magnitude(p) /\ Used(p) <= n
         /\ \A i \in Nat : i > n => Limb(p, i) = 0
<1> DEFINE u == Used(p)
           h == u - 1
           z == 0
<1>1. /\ u \in Nat /\ z \in Nat /\ \A i \in Nat : i > u => Limb(p, i) = 0
  BY UsedIs
<1>2. /\ Magnitude(p) = Worth(p)[u] /\ Magnitude(p) \in Nat
      /\ u # 0 => Magnitude(p) >= Places[u - 1]
  BY MagnitudeOfUsed
<1> HIDE DEF u
<1>3. u <= n
  <2>1. SUFFICES ASSUME u > n PROVE FALSE
    BY <1>1
  <2>2. h \in Nat /\ n <= h /\ u # 0
    BY <1>1, <2>1
  <2>3. Magnitude(p) >= Places[h]
    BY <1>2, <2>2
  <2> HIDE DEF h
  <2>4. Places[n] <= Places[h]
    BY <2>2, PlacesGrow
  <2>5. Places[n] \in Nat \ {0} /\ Places[h] \in Nat \ {0}
    BY <2>2, PlacesAre
  <2> QED BY <1>2, <2>3, <2>4, <2>5
<1>4. Part(p, z)[n] = Part(p, z)[u]
  <2>1. \A i \in (u + 1)..n : Limb(p, z + i) = 0
    BY <1>1
  <2> HIDE DEF z
  <2> QED BY <1>1, <1>3, <2>1, PartEnds
<1>5. Part(p, 0) = Worth(p)
  BY PartOf
<1> QED BY <1>1, <1>2, <1>3, <1>4, <1>5 DEF u

LEMMA SubHlp ==
  ASSUME NEW d \in Seq(Limbs), NEW s \in Seq(Limbs), Magnitude(s) <= Magnitude(d)
  PROVE  /\ sub_hlp(d, s) \in Seq(Limbs) /\ Len(sub_hlp(d, s)) = Len(d)
         /\ Magnitude(sub_hlp(d, s)) = Magnitude(d) - Magnitude(s)
<1> DEFINE L == Len(d)
           r == sub_hlp(d, s)
           P == Places[L]
           x == Magnitude(r)
           y == Magnitude(d)
           u == Magnitude(s)
<1>1. L \in Nat /\ r \in Seq(Limbs) /\ Len(r) = L
  BY Borrowed
<1>2. PICK e \in {0, 1} : Worth(r)[L] = Worth(d)[L] - Worth(s)[L] + P * e
  BY Borrowed
<1> HIDE DEF L, r
<1>3. Worth(r)[L] = x /\ x \in Nat /\ x < P
  BY <1>1, MagnitudeIs
<1>4. Worth(d)[L] = y /\ y \in Nat /\ y < P
  BY <1>1, MagnitudeIs DEF L
<1>5. u \in Nat /\ P \in Nat \ {0}
  BY <1>1, MagnitudeIsNatural, PlacesAre
<1>6. u <= y
  OBVIOUS
<1> HIDE DEF x, y, u, P
<1>7. Magnitude(s) < Places[L]
  BY <1>4, <1>5, <1>6 DEF u, P
<1>8. Worth(s)[L] = u
  BY <1>1, <1>7, WorthOfLow DEF u
<1>9. x = y - u + P * e
  BY <1>2, <1>3, <1>4, <1>8
<1>10. e = 0
  <2>1. SUFFICES ASSUME e = 1 PROVE FALSE
    OBVIOUS
  <2>2. P * 1 = P
    BY <1>5
  <2> QED BY <1>3, <1>4, <1>5, <1>6, <1>9, <2>1, <2>2
<1>11. P * 0 = 0
  BY <1>5
<1>12. x = y - u
  BY <1>3, <1>4, <1>5, <1>9, <1>10, <1>11
<1> QED BY <1>1, <1>12 DEF L, r, x, y, u
----------------------------------------------------------------------------
(* Allocation. *)

LEMMA SameMagnitude ==
  ASSUME NEW p \in Seq(Limbs), NEW q \in Seq(Limbs),
         \A i \in Nat : Limb(p, i) = Limb(q, i)
  PROVE  Magnitude(p) = Magnitude(q)
<1> DEFINE m == Len(p) + Len(q)
           z == 0
<1>1. m \in Nat /\ m >= Len(p) /\ m >= Len(q) /\ z \in Nat
  OBVIOUS
<1> HIDE DEF m
<1>2. Magnitude(p) = Worth(p)[m] /\ Magnitude(q) = Worth(q)[m]
  BY <1>1, MagnitudeIs
<1>3. \A i \in 1..m : Limb(p, z + i) = Limb(q, z + i)
  OBVIOUS
<1>4. Part(p, 0) = Worth(p) /\ Part(q, 0) = Worth(q)
  BY <1>1, PartOf
<1> HIDE DEF z
<1>5. Part(p, z)[m] = Part(q, z)[m]
  BY <1>1, <1>3, SameParts
<1> QED BY <1>2, <1>4, <1>5 DEF z

LEMMA ResizedIs ==
  ASSUME NEW p \in Seq(Limbs), NEW n \in Nat
  PROVE  /\ Resized(p, n) \in Seq(Limbs) /\ Len(Resized(p, n)) = n
         /\ \A i \in Nat : Limb(Resized(p, n), i) = IF i <= n THEN Limb(p, i) ELSE 0
         /\ Used(p) <= n => Magnitude(Resized(p, n)) = Magnitude(p)
<1> DEFINE g == [i \in 1..n |-> Limb(p, i)]
           r == Resized(p, n)
<1>1. g = [i \in 1..n |-> g[i]] /\ \A i \in 1..n : g[i] = Limb(p, i)
  OBVIOUS
<1>2. r = SubSeq(g, 1, n)
  BY DEF Resized, LimbSeq
<1> HIDE DEF g, r
<1>3. \A i \in 1..n : g[i] \in Limbs
  BY <1>1, LimbIsSmall
<1>4. r = g /\ r \in Seq(Limbs) /\ Len(r) = n /\ \A i \in 1..n : Limb(r, i) = g[i]
  BY <1>1, <1>2, <1>3, TableOfLimbs
<1>5. ASSUME NEW i \in Nat PROVE Limb(r, i) = IF i <= n THEN Limb(p, i) ELSE 0
  <2>1. CASE i \in 1..n
    BY <1>1, <1>4, <2>1
  <2>2. CASE i > n
    BY <1>4, <2>2 DEF Limb
  <2>3. CASE i = 0
    BY <1>4, <2>3 DEF Limb
  <2> QED BY <2>1, <2>2, <2>3
<1>6. ASSUME Used(p) <= n PROVE Magnitude(r) = Magnitude(p)
  <2>1. \A i \in Nat : i > Used(p) => Limb(p, i) = 0
    BY UsedIs
  <2>2. Used(p) \in Nat
    BY UsedIs
  <2>3. \A i \in Nat : Limb(r, i) = Limb(p, i)
    BY <1>5, <1>6, <2>1, <2>2
  <2> QED BY <1>4, <2>3, SameMagnitude
<1> QED BY <1>4, <1>5, <1>6 DEF r

LEMMA GrowIs ==
  ASSUME NEW X \in Mpis, NEW n \in Nat
  PROVE  /\ grow(X, n) \in Mpis /\ grow(X, n).s = X.s
         /\ Len(grow(X, n).p) = IF Len(X.p) >= n THEN Len(X.p) ELSE n
         /\ \A i \in Nat : Limb(grow(X, n).p, i) = Limb(X.p, i)
         /\ Magnitude(grow(X, n).p) = Magnitude(X.p)
<1> DEFINE p == X.p
           q == Resized(p, n)
<1>1. X.s \in {1, -1} /\ p \in Seq(Limbs) /\ Len(p) \in Nat
  BY DEF Mpis
<1>2. X = [s |-> X.s, p |-> X.p]
  BY DEF Mpis
<1>3. grow(X, n) = IF Len(p) >= n THEN X ELSE [X EXCEPT !.p = q]
  BY DEF grow
<1> HIDE DEF p, q
<1>4. /\ q \in Seq(Limbs) /\ Len(q) = n
      /\ \A i \in Nat : Limb(q, i) = IF i <= n THEN Limb(p, i) ELSE 0
      /\ Used(p) <= n => Magnitude(q) = Magnitude(p)
  BY <1>1, ResizedIs DEF q
<1>5. Used(p) \in 0..Len(p) /\ \A i \in Nat : i > Used(p) => Limb(p, i) = 0
  BY <1>1, UsedIs
<1>6. CASE Len(p) >= n
  BY <1>1, <1>3, <1>6 DEF p
<1>7. CASE ~(Len(p) >= n)
  <2>1. [X EXCEPT !.p = q] = [s |-> X.s, p |-> q]
    BY <1>2
  <2>2. grow(X, n) = [s |-> X.s, p |-> q]
    BY <1>3, <1>7, <2>1
  <2>3. Used(p) <= n
    BY <1>1, <1>5, <1>7
  <2>4. \A i \in Nat : Limb(q, i) = Limb(p, i)
    <3> SUFFICES ASSUME NEW i \in Nat PROVE Limb(q, i) = Limb(p, i)
      OBVIOUS
    <3>1. Used(p) \in Nat
      BY <1>1, <1>5
    <3> QED BY <1>4, <1>5, <2>3, <3>1
  <2>5. [s |-> X.s, p |-> q] \in Mpis
    BY <1>1, <1>4 DEF Mpis
  <2>6. grow(X, n).s = X.s /\ grow(X, n).p = q
    BY <2>2
  <2>7. grow(X, n) \in Mpis
    BY <2>2, <2>5
  <2> QED BY <1>4, <1>7, <2>3, <2>4, <2>6, <2>7 DEF p
<1> QED BY <1>6, <1>7

LEMMA LowLimbs ==
  ASSUME NEW p \in Seq(Limbs), NEW n \in Nat
  PROVE  Worth(p)[n] = Magnitude(p) % Places[n]
<1> DEFINE L == Len(p)
<1>1. L \in Nat
  OBVIOUS
<1> HIDE DEF L
<1>2. Magnitude(p) = Worth(p)[L]
  BY <1>1, MagnitudeIs DEF L
<1>3. Worth(p)[n] \in 0..(Places[n] - 1) /\ Places[n] \in Nat \ {0}
  BY WorthAt, PlacesAre
<1> DEFINE m == L - n
           m2 == n - L
           y == Worth(p)[n]
           P == Places[n]
           e == Part(p, n)[m]
<1>4. CASE n <= L
  <2>1. m \in Nat /\ n + m = L
    BY <1>1, <1>4
  <2> HIDE DEF m
  <2>2. Worth(p)[n + m] = Worth(p)[n] + Places[n] * Part(p, n)[m] /\ e \in Nat
    BY <2>1, PartOf
  <2>3. Magnitude(p) = y + P * e
    BY <1>2, <2>1, <2>2
  <2>4. y \in 0..(P - 1) /\ P \in Nat \ {0} /\ e \in Int
    BY <1>3, <2>2
  <2> HIDE DEF y, P, e
  <2>5. (P * e + y) % P = y
    BY <2>4, QuotientUnique
  <2>6. P * e + y = y + P * e
    BY <2>4
  <2> QED BY <2>3, <2>5, <2>6 DEF y, P
<1>5. CASE ~(n <= L)
  <2>1. n >= L
    BY <1>1, <1>5
  <2>2. Magnitude(p) = y
    BY <2>1, MagnitudeIs DEF L
  <2>3. y \in 0..(P - 1) /\ P \in Nat \ {0}
    BY <1>3
  <2> HIDE DEF y, P
  <2>4. y % P = y
    BY <2>3
  <2> QED BY <2>2, <2>4 DEF y, P
<1> QED BY <1>4, <1>5

\* The limb at a place, and what the limbs above it are worth.
LEMMA PartFirst ==
  ASSUME NEW p \in Seq(Limbs), NEW at \in Nat, NEW n \in Nat
  PROVE  Part(p, at)[n + 1] = Limb(p, at + 1) + Base * Part(p, at + 1)[n]
<1> DEFINE f == LimbsFrom(p, at)
           h == at + 1
           g == LimbsFrom(p, h)
           j == 1
           z == 0
<1>1. h \in Nat /\ j \in Nat /\ z \in Nat
  OBVIOUS
<1>2. f \in Numbers /\ \A i \in Nat : f[i] = Limb(p, at + i)
  BY LimbsFromAre
<1>3. g \in Numbers /\ \A i \in Nat : g[i] = Limb(p, h + i)
  <2> HIDE DEF h
  <2> QED BY <1>1, LimbsFromAre
<1> HIDE DEF f, g
<1>4. \A i \in 1..n : g[i] = f[j + i]
  <2> SUFFICES ASSUME NEW i \in 1..n PROVE g[i] = f[j + i]
    OBVIOUS
  <2>1. i \in Nat /\ j + i \in Nat /\ at + (j + i) = h + i
    OBVIOUS
  <2> QED BY <1>2, <1>3, <2>1
<1>5. Base \in Nat \ {0}
  BY BaseIsBig
<1>6. f[j] = Limb(p, at + 1) /\ z + 1 = j
  BY <1>1, <1>2
<1> HIDE DEF j
<1>7. Sums(Base, f)[j + n] = Sums(Base, f)[j] + PowersOf(Base)[j] * Sums(Base, g)[n]
  <2>1. f \in Numbers /\ g \in Numbers
    BY <1>2, <1>3
  <2> QED BY <1>1, <1>4, <1>5, <2>1, SumsSplit
<1>8. /\ Sums(Base, f)[j] = Limb(p, at + 1) /\ PowersOf(Base)[j] = Base
  <2>1. /\ Sums(Base, f)[z + 1] = Sums(Base, f)[z] + f[z + 1] * PowersOf(Base)[z]
        /\ PowersOf(Base)[z + 1] = Base * PowersOf(Base)[z]
        /\ Sums(Base, f)[0] = 0 /\ PowersOf(Base)[0] = 1 /\ f[z + 1] \in Int
    <3>1. f \in Numbers
      BY <1>2
    <3> HIDE DEF z
    <3> QED BY <1>1, <1>5, <3>1, SumAt, ZenonT(30)
  <2>2. Sums(Base, f)[z] = 0 /\ PowersOf(Base)[z] = 1
    BY <2>1
  <2>3. f[z + 1] * 1 = f[z + 1] /\ Base * 1 = Base /\ 0 + f[z + 1] = f[z + 1]
    BY <1>5, <2>1
  <2> QED BY <1>6, <2>1, <2>2, <2>3
<1>9. j + n = n + 1
  BY DEF j
<1> QED BY <1>7, <1>8, <1>9 DEF Part, f, g, h

LEMMA PartStays ==
  ASSUME NEW p \in Seq(Limbs), NEW at \in Nat, NEW n \in Nat, Limb(p, at + (n + 1)) = 0
  PROVE  Part(p, at)[n + 1] = Part(p, at)[n]
<1>1. Part(p, at)[n + 1] = Part(p, at)[n] + Limb(p, at + (n + 1)) * Places[n]
  BY PartOf
<1>2. Part(p, at)[n] \in Nat /\ Places[n] \in Nat
  BY PartOf, PlacesAre
<1>3. 0 * Places[n] = 0
  BY <1>2
<1> QED BY <1>1, <1>2, <1>3
LEMMA FirstOfMagnitude ==
  ASSUME NEW p \in Seq(Limbs)
  PROVE  \E e \in Nat : Magnitude(p) = Limb(p, 1) + Base * e
<1> DEFINE n == Len(p)  m == n + 1
<1>1. n \in Nat /\ m \in Nat /\ m >= Len(p) /\ 0 + 1 = 1
  BY LimbsAreNatural
<1>2. Magnitude(p) = Worth(p)[m]
  <2> HIDE DEF m
  <2> QED BY <1>1, MagnitudeIs
<1>3. Part(p, 0)[n + 1] = Limb(p, 0 + 1) + Base * Part(p, 0 + 1)[n]
  <2> HIDE DEF n
  <2> QED BY <1>1, PartFirst
<1>4. Part(p, 0) = Worth(p) /\ Part(p, 1)[n] \in Nat
  <2> HIDE DEF n
  <2> QED BY <1>1, PartOf
<1> HIDE DEF n
<1> QED BY <1>1, <1>2, <1>3, <1>4

LEMMA LimbReplaced ==
  ASSUME NEW p \in Seq(Limbs), NEW e \in 1..Len(p), NEW w \in Limbs
  PROVE  /\ [p EXCEPT ![e] = w] \in Seq(Limbs) /\ Len([p EXCEPT ![e] = w]) = Len(p)
         /\ \A i \in Nat : Limb([p EXCEPT ![e] = w], i) = IF i = e THEN w ELSE Limb(p, i)
<1> DEFINE q == [p EXCEPT ![e] = w]
<1>1. q \in Seq(Limbs) /\ Len(q) = Len(p)
  OBVIOUS
<1>2. DOMAIN q = DOMAIN p /\ DOMAIN p = 1..Len(p)
  OBVIOUS
<1>3. \A i \in DOMAIN p : q[i] = IF i = e THEN w ELSE p[i]
  OBVIOUS
<1> HIDE DEF q
<1>4. \A i \in Nat : Limb(q, i) = IF i = e THEN w ELSE Limb(p, i)
  BY <1>2, <1>3 DEF Limb
<1> QED BY <1>1, <1>4 DEF q

----------------------------------------------------------------------------
(* Mpis: their fields, and copying and setting them. *)

LEMMA MpiIs ==
  ASSUME NEW X \in Mpis
  PROVE  /\ X.s \in {1, -1} /\ X.s \in Int
         /\ X.p \in Seq(Limbs) /\ Len(X.p) \in Nat /\ Magnitude(X.p) \in Nat
         /\ X = [s |-> X.s, p |-> X.p] /\ Value(X) \in Int
<1>1. X.s \in {1, -1} /\ X.p \in Seq(Limbs) /\ X = [s |-> X.s, p |-> X.p]
  BY DEF Mpis
<1>2. Magnitude(X.p) \in Nat
  BY <1>1, MagnitudeIsNatural
<1>3. Value(X) \in Int
  BY <1>1, <1>2 DEF Value
<1> QED BY <1>1, <1>2, <1>3

LEMMA MpiOf ==
  ASSUME NEW sign \in {1, -1}, NEW p \in Seq(Limbs), NEW X, X = [s |-> sign, p |-> p]
  PROVE  X \in Mpis /\ X.s = sign /\ X.p = p
BY DEF Mpis

LEMMA MpiWithSign ==
  ASSUME NEW sign \in {1, -1}, NEW X \in Mpis
  PROVE  /\ [X EXCEPT !.s = sign] \in Mpis
         /\ [X EXCEPT !.s = sign].s = sign /\ [X EXCEPT !.s = sign].p = X.p
BY DEF Mpis

LEMMA MpiWithLimbs ==
  ASSUME NEW X \in Mpis, NEW p \in Seq(Limbs)
  PROVE  /\ [X EXCEPT !.p = p] \in Mpis
         /\ [X EXCEPT !.p = p].s = X.s /\ [X EXCEPT !.p = p].p = p
BY DEF Mpis

LEMMA NoLimbs ==
  /\ <<>> \in Seq(Limbs) /\ Len(<<>>) = 0 /\ Magnitude(<<>>) = 0
  /\ Null \in Mpis /\ Null.s = 1 /\ Null.p = <<>>
<1> DEFINE e == <<>>
<1>1. e \in Seq(Limbs) /\ Len(e) = 0
  OBVIOUS
<1> HIDE DEF e
<1>2. Magnitude(e) = 0
  BY <1>1, MagnitudeIsWorth, WorthAt
<1> QED BY <1>1, <1>2 DEF e, Null, Mpis

LEMMA MaxOfTwo ==
  ASSUME NEW x \in Nat, NEW y \in Nat
  PROVE  Max({x, y}) = IF x >= y THEN x ELSE y
<1>1. Max({x, y}) \in {x, y} /\ \A w \in {x, y} : Max({x, y}) >= w
  <2>1. \E w \in {x, y} : \A g \in {x, y} : w >= g
    <3>1. CASE x >= y
      BY <3>1
    <3>2. CASE y >= x
      BY <3>2
    <3> QED BY <3>1, <3>2
  <2> QED BY <2>1 DEF Max
<1> QED BY <1>1

LEMMA KeptIs ==
  ASSUME NEW p \in Seq(Limbs)
  PROVE  /\ Kept(p) = IF Used(p) = 0 THEN 1 ELSE Used(p)
         /\ Kept(p) \in Nat \ {0} /\ Kept(p) >= Used(p)
         /\ p # <<>> => Kept(p) <= Len(p)
         /\ Worth(p)[Kept(p)] = Magnitude(p)
<1>1. Used(p) \in 0..Len(p) /\ Used(p) \in Nat /\ Len(p) \in Nat
  BY UsedIs
<1> DEFINE u == Used(p)  one == 1  k == Kept(p)
<1>2. Max({u, one}) = IF u >= one THEN u ELSE one
  <2>1. u \in Nat /\ one \in Nat
    BY <1>1
  <2> HIDE DEF u, one
  <2> QED BY <2>1, MaxOfTwo
<1>3. k = IF u = 0 THEN 1 ELSE u
  BY <1>1, <1>2 DEF Kept
<1>4. p # <<>> => Len(p) # 0
  OBVIOUS
<1>5. k \in Nat /\ u <= k /\ u \in Nat
  BY <1>1, <1>3
<1> HIDE DEF k, u
<1>6. Magnitude(p) < Places[k]
  <2>1. Magnitude(p) < Places[u] /\ Magnitude(p) \in Nat
    BY MagnitudeOfUsed DEF u
  <2>2. Places[u] <= Places[k] /\ Places[u] \in Nat /\ Places[k] \in Nat
    BY <1>5, PlacesGrow, PlacesAre
  <2> QED BY <2>1, <2>2
<1>7. Worth(p)[k] = Magnitude(p)
  BY <1>5, <1>6, WorthOfLow
<1> QED BY <1>1, <1>3, <1>4, <1>7 DEF u, k

LEMMA CopyIs ==
  ASSUME NEW X \in Mpis, NEW Y \in Mpis
  PROVE  /\ copy(X, Y) \in Mpis /\ Magnitude(copy(X, Y).p) = Magnitude(Y.p)
         /\ Value(copy(X, Y)) = Value(Y)
<1> DEFINE p == Y.p
           k == Kept(p)
           l == Len(X.p)
           m == Max({l, k})
           q == SubSeq(p, 1, k)
           C == copy(X, Y)
<1>1. /\ p \in Seq(Limbs) /\ Y.s \in {1, -1} /\ l \in Nat
      /\ Y = [s |-> Y.s, p |-> Y.p]
  BY MpiIs
<1>2. C = IF p = <<>> THEN Null ELSE [s |-> Y.s, p |-> Resized(q, m)]
  BY DEF copy
<1> HIDE DEF C, p, l
<1>3. CASE p = <<>>
  <2>1. Magnitude(C.p) = 0 /\ Magnitude(p) = 0 /\ C \in Mpis /\ C.s = 1
    BY <1>2, <1>3, NoLimbs
  <2>2. Y.s * 0 = 0 /\ 1 * 0 = 0
    BY <1>1
  <2> QED BY <2>1, <2>2 DEF C, p, Value
<1>4. CASE p # <<>>
  <2>1. k \in Nat /\ k <= Len(p) /\ Worth(p)[k] = Magnitude(p)
    BY <1>1, <1>4, KeptIs
  <2> HIDE DEF k
  <2>2. m \in Nat /\ m >= k
    <3>1. l \in Nat
      BY <1>1
    <3>2. Max({l, k}) = IF l >= k THEN l ELSE k
      BY <2>1, <3>1, MaxOfTwo
    <3> QED BY <2>1, <3>1, <3>2
  <2> HIDE DEF m
  <2>3. q \in Seq(Limbs) /\ Len(q) = k /\ Magnitude(q) = Magnitude(p)
    <3> DEFINE z == 0
    <3>1. z \in Nat /\ z + k <= Len(p) /\ z + k = k /\ z + 1 = 1
      BY <2>1
    <3> HIDE DEF z
    <3>2. /\ SubSeq(p, z + 1, z + k) \in Seq(Limbs)
          /\ Len(SubSeq(p, z + 1, z + k)) = k
          /\ Magnitude(SubSeq(p, z + 1, z + k)) = Part(p, z)[k]
      BY <1>1, <2>1, <3>1, MagnitudeOfPiece
    <3>3. Part(p, 0) = Worth(p)
      BY <1>1, <2>1, PartOf
    <3> QED BY <2>1, <3>1, <3>2, <3>3 DEF z
  <2> HIDE DEF q
  <2>4. Used(q) <= m
    <3>1. Used(q) \in 0..Len(q)
      BY <2>3, UsedIs
    <3> QED BY <2>1, <2>2, <2>3, <3>1
  <2>5. Resized(q, m) \in Seq(Limbs) /\ Magnitude(Resized(q, m)) = Magnitude(p)
    BY <2>2, <2>3, <2>4, ResizedIs
  <2>6. C \in Mpis /\ C.s = Y.s /\ C.p = Resized(q, m)
    BY <1>1, <1>2, <1>4, <2>5, MpiOf
  <2> QED BY <2>5, <2>6 DEF C, p, Value
<1> QED BY <1>3, <1>4

LEMMA OneLimb ==
  ASSUME NEW a \in Limbs
  PROVE  /\ <<a>> \in Seq(Limbs) /\ Len(<<a>>) = 1 /\ Magnitude(<<a>>) = a
         /\ Used(<<a>>) = IF a = 0 THEN 0 ELSE 1
<1> DEFINE q == <<a>>  z == 0
<1>1. q \in Seq(Limbs) /\ Len(q) = 1 /\ Limb(q, 1) = a
  BY DEF Limb
<1> HIDE DEF q
<1>2. z \in Nat /\ z + 1 = 1
  OBVIOUS
<1> HIDE DEF z
<1>3. /\ Worth(q)[0] = 0 /\ Worth(q)[z + 1] = Worth(q)[z] + Limb(q, z + 1) * Places[z]
      /\ Places[0] = 1
  BY <1>1, <1>2, WorthAt, PlacesAre
<1>4. Magnitude(q) = Worth(q)[1]
  BY <1>1, MagnitudeIsWorth
<1>5. a \in Nat
  BY LimbsAreSmall
<1>6. a * 1 = a /\ 0 + a = a
  BY <1>5
<1>7. Magnitude(q) = a
  BY <1>1, <1>2, <1>3, <1>4, <1>6 DEF z
<1>8. Used(q) \in 0..1 /\ (Used(q) = 0 <=> a = 0)
  BY <1>1, <1>7, UsedIs, MagnitudeOfUsed
<1> QED BY <1>1, <1>7, <1>8 DEF q

Size(z) == IF z < 0 THEN -z ELSE z
Sign(z) == IF z < 0 THEN -1 ELSE 1
IsDigit(z) == z \in Int /\ Size(z) < Base

LEMMA DigitsAre ==
  ASSUME NEW z, IsDigit(z)
  PROVE  Size(z) \in Limbs /\ Sign(z) \in {1, -1} /\ Sign(z) * Size(z) = z
<1>1. z \in Int /\ Size(z) < Base
  BY DEF IsDigit
<1>2. Size(z) \in Nat
  BY <1>1 DEF Size
<1>3. Size(z) \in Limbs
  BY <1>1, <1>2, LimbsAreSmall
<1>4. Sign(z) * Size(z) = z
  BY <1>1 DEF Sign, Size
<1> QED BY <1>3, <1>4 DEF Sign

LEMMA LsetIs ==
  ASSUME NEW X \in Mpis, NEW z, IsDigit(z)
  PROVE  /\ lset(X, z) \in Mpis /\ Value(lset(X, z)) = z
         /\ Magnitude(lset(X, z).p) = Size(z)
         /\ Len(lset(X, z).p) = IF Len(X.p) = 0 THEN 1 ELSE Len(X.p)
         /\ \A i \in Nat : Limb(lset(X, z).p, i) = IF i = 1 THEN Size(z) ELSE 0
<1> DEFINE a == Size(z)
           l == Len(X.p)
           one == 1
           m == Max({l, one})
           q == <<a>>
           C == lset(X, z)
           r == Resized(q, m)
<1>1. l \in Nat /\ one \in Nat
  BY MpiIs
<1>2. C = [s |-> Sign(z), p |-> r]
  BY DEF lset, Size, Sign
<1> HIDE DEF C, l
<1>3. m = IF l >= one THEN l ELSE one
  <2> HIDE DEF one
  <2> QED BY <1>1, MaxOfTwo
<1>4. m \in Nat /\ m >= 1 /\ m = IF l = 0 THEN 1 ELSE l
  BY <1>1, <1>3
<1> HIDE DEF m
<1>5. a \in Limbs /\ Sign(z) \in {1, -1} /\ Sign(z) * a = z
  BY DigitsAre
<1>6. \A i \in Nat : Limb(q, i) = IF i = 1 THEN a ELSE 0
  BY DEF Limb
<1> HIDE DEF a
<1>7. q \in Seq(Limbs) /\ Magnitude(q) = a /\ Used(q) <= 1 /\ Used(q) \in Nat
  BY <1>5, OneLimb
<1> HIDE DEF q
<1>8. /\ r \in Seq(Limbs) /\ Magnitude(r) = a /\ Len(r) = m
      /\ \A i \in Nat : Limb(r, i) = IF i <= m THEN Limb(q, i) ELSE 0
  <2>1. Used(q) <= m
    BY <1>4, <1>7
  <2> QED BY <1>4, <1>7, <2>1, ResizedIs
<1>9. \A i \in Nat : Limb(r, i) = IF i = 1 THEN a ELSE 0
  BY <1>4, <1>6, <1>8
<1> HIDE DEF r
<1>10. C \in Mpis /\ C.s = Sign(z) /\ C.p = r
  BY <1>2, <1>5, <1>8, MpiOf
<1>11. Value(C) = z
  BY <1>5, <1>8, <1>10 DEF Value
<1> QED BY <1>4, <1>8, <1>9, <1>10, <1>11 DEF C, a, l

----------------------------------------------------------------------------
(* Comparisons. *)

LEMMA CmpMpi ==
  ASSUME NEW X \in Mpis, NEW Y \in Mpis
  PROVE  cmp_mpi(X, Y) = IF Value(X) > Value(Y) THEN 1
                         ELSE IF Value(X) < Value(Y) THEN -1 ELSE 0
<1> DEFINE p == X.p  q == Y.p  s == X.s  t == Y.s
           i == Used(p)  j == Used(q)  x == Magnitude(p)  y == Magnitude(q)
           c == cmp_abs(X, Y)
<1>1. /\ s \in {1, -1} /\ t \in {1, -1} /\ p \in Seq(Limbs) /\ q \in Seq(Limbs)
      /\ x \in Nat /\ y \in Nat
  BY MpiIs
<1>2. c = IF x > y THEN 1 ELSE IF x < y THEN -1 ELSE 0
  BY <1>1, CmpAbs
<1>3. Value(X) = s * x /\ Value(Y) = t * y
  BY DEF Value
<1>4. cmp_mpi(X, Y) =
        IF i = 0 /\ j = 0 THEN 0
        ELSE IF i > j THEN s ELSE IF j > i THEN -t
        ELSE IF s > t THEN 1 ELSE IF t > s THEN -1 ELSE c * s
  BY DEF cmp_mpi
<1> HIDE DEF p, q, s, t, c
<1>5. i \in Nat /\ j \in Nat /\ (i = 0 <=> x = 0) /\ (j = 0 <=> y = 0)
  BY <1>1, UsedIs, MagnitudeOfUsed
<1>6. (i > j => x > y) /\ (j > i => y > x)
  BY <1>1, LongerIsMore
<1> HIDE DEF i, j, x, y
<1>7. (s = 1 => s * x = x) /\ (s = -1 => s * x = -x)
      /\ (t = 1 => t * y = y) /\ (t = -1 => t * y = -y)
  BY <1>1
<1>8. (s = 1 => c * s = c) /\ (s = -1 => c * s = -c)
  BY <1>2
<1> DEFINE u == Value(X)  w == Value(Y)
<1>9. u = (IF s = 1 THEN x ELSE -x) /\ w = (IF t = 1 THEN y ELSE -y)
  BY <1>1, <1>3, <1>7
<1> HIDE DEF u, w
<1>10. cmp_mpi(X, Y) = IF u > w THEN 1 ELSE IF u < w THEN -1 ELSE 0
  <2>1. CASE i = 0 /\ j = 0
    BY <1>1, <1>4, <1>5, <1>9, <2>1
  <2>2. CASE i > j
    BY <1>1, <1>4, <1>5, <1>6, <1>9, <2>2
  <2>3. CASE j > i
    BY <1>1, <1>4, <1>5, <1>6, <1>9, <2>3
  <2>4. CASE i = j /\ i # 0
    BY <1>1, <1>2, <1>4, <1>5, <1>8, <1>9, <2>4
  <2> QED BY <1>5, <2>1, <2>2, <2>3, <2>4
<1> QED BY <1>10 DEF u, w

LEMMA SizeOfValue ==
  ASSUME NEW X \in Mpis
  PROVE  Size(Value(X)) = Magnitude(X.p)
<1> DEFINE s == X.s  x == Magnitude(X.p)
<1>1. s \in {1, -1} /\ x \in Nat /\ Value(X) = s * x
  BY MpiIs DEF Value
<1> HIDE DEF s, x
<1>2. (s = 1 => s * x = x) /\ (s = -1 => s * x = -x)
  BY <1>1
<1> QED BY <1>1, <1>2 DEF Size, x
----------------------------------------------------------------------------
(* Sums. *)

Carry(a, b, c) ==
  LET e == (a + c) % Base
  IN (IF e < c THEN 1 ELSE 0) + (IF (e + b) % Base < b THEN 1 ELSE 0)

LEMMA CarryIs ==
  ASSUME NEW a \in Limbs, NEW b \in Limbs, NEW c \in {0, 1}
  PROVE  /\ Carry(a, b, c) \in {0, 1} /\ (((a + c) % Base) + b) % Base \in Limbs
         /\ ((((a + c) % Base) + b) % Base) + Base * Carry(a, b, c) = a + b + c
<1> DEFINE W == Base
           e == (a + c) % W
           f == (e + b) % W
<1>1. /\ W \in Nat \ {0, 1} /\ a \in Nat /\ a < W /\ b \in Nat /\ b < W
      /\ \A x : x \in Limbs <=> x \in Nat /\ x < W
  BY BaseIsBig, LimbsAreSmall
<1>2. Carry(a, b, c) = (IF e < c THEN 1 ELSE 0) + (IF f < b THEN 1 ELSE 0)
  BY DEF Carry
<1> HIDE DEF W
<1>3. e = IF a + c < W THEN a + c ELSE 0
  <2>1. CASE a + c < W
    BY <1>1, <2>1
  <2>2. CASE ~(a + c < W)
    <3>1. a + c = W
      BY <1>1, <2>2
    <3> QED BY <1>1, <2>2, <3>1
  <2> QED BY <2>1, <2>2
<1> HIDE DEF e
<1>4. e \in Nat /\ e < W
  BY <1>1, <1>3
<1>5. f = IF e + b < W THEN e + b ELSE e + b - W
  <2>1. CASE e + b < W
    BY <1>1, <1>4, <2>1
  <2>2. CASE ~(e + b < W)
    <3> DEFINE g == e + b - W
    <3>1. g \in 0..(W - 1) /\ e + b = W * 1 + g
      BY <1>1, <1>4, <2>2
    <3> HIDE DEF g
    <3>2. (W * 1 + g) % W = g
      <4>1. W \in Nat \ {0} /\ 1 \in Int
        BY <1>1
      <4> QED BY <3>1, <4>1, QuotientUnique
    <3>3. f = g
      BY <3>1, <3>2
    <3> QED BY <2>2, <3>3 DEF g
  <2> QED BY <2>1, <2>2
<1> HIDE DEF f
<1>6. f \in Limbs
  BY <1>1, <1>4, <1>5
<1> DEFINE k == (IF e < c THEN 1 ELSE 0) + (IF f < b THEN 1 ELSE 0)
<1>7. k = IF a + b + c < W THEN 0 ELSE 1
  BY <1>1, <1>3, <1>4, <1>5
<1>8. f + W * k = a + b + c
  <2>1. W * 1 = W /\ W * 0 = 0
    BY <1>1
  <2>2. f = IF a + b + c < W THEN a + b + c ELSE a + b + c - W
    BY <1>1, <1>3, <1>4, <1>5
  <2> QED BY <1>1, <1>7, <2>1, <2>2
<1> QED BY <1>2, <1>6, <1>7, <1>8 DEF f, e, W

\* A loop over two numbers that passes on a carry, or a borrow.
Ripples(r, p, m, q, L, c) ==
  /\ r \in Seq(Limbs) /\ p \in Seq(Limbs) /\ q \in Seq(Limbs) /\ m \in Int /\ L \in Nat
  /\ c[0] = 0
  /\ \A k \in 0..L : c[k] \in Int
  /\ \A k \in 1..L : Limb(r, k) + Base * c[k] = Limb(p, k) + m * Limb(q, k) + c[k - 1]

LEMMA Rippled ==
  ASSUME NEW r, NEW p, NEW q, NEW m, NEW L, NEW c, Ripples(r, p, m, q, L, c)
  PROVE  Worth(r)[L] + Places[L] * c[L] = Worth(p)[L] + m * Worth(q)[L]
<1> DEFINE z == 0
           D == LimbsFrom(p, z)
           S == LimbsFrom(q, z)
           term == [i \in Nat |-> D[i] + m * S[i]]
<1> USE DEF Ripples
<1>0. /\ r \in Seq(Limbs) /\ p \in Seq(Limbs) /\ q \in Seq(Limbs)
      /\ m \in Int /\ L \in Nat
  OBVIOUS
<1> HIDE DEF Ripples
<1> USE <1>0
<1>1. z \in Nat
  OBVIOUS
<1>2. /\ D \in Numbers /\ \A i \in Nat : D[i] = Limb(p, z + i)
      /\ S \in Numbers /\ \A i \in Nat : S[i] = Limb(q, z + i)
  <2> HIDE DEF z
  <2> QED BY <1>1, LimbsFromAre
<1>3. \A i \in Nat : Limb(p, z + i) \in Int /\ Limb(q, z + i) \in Int
  <2>1. \A x \in Limbs : x \in Int
    BY LimbsAreSmall
  <2> QED BY <2>1, LimbIsSmall
<1>4. term \in Numbers /\ \A i \in Nat : term[i] = D[i] + m * S[i]
  <2> DEFINE e(i) == D[i] + m * S[i]
  <2>1. \A i \in Nat : D[i] \in Int /\ S[i] \in Int
    BY <1>2, <1>3
  <2> HIDE DEF D, S
  <2>2. \A i \in Nat : e(i) \in Int
    BY <2>1
  <2>3. term = [i \in Nat |-> e(i)]
    OBVIOUS
  <2> HIDE DEF e, term
  <2>4. term \in [Nat -> Int] /\ \A i \in Nat : term[i] = e(i)
    BY <2>2, <2>3
  <2> QED BY <2>4 DEF e, Numbers
<1> HIDE DEF D, S, term
<1>5. Carried(r, z, L, c, term)
  <2>1. c[0] = 0 /\ \A k \in 0..L : c[k] \in Int
    BY DEF Ripples
  <2>2. ASSUME NEW k \in 1..L PROVE Limb(r, z + k) + Base * c[k] = term[k] + c[k - 1]
    <3> DEFINE h == k - 1
    <3>1. Limb(r, k) + Base * c[k] = Limb(p, k) + m * Limb(q, k) + c[h]
      BY DEF Ripples
    <3>2. k \in Nat /\ z + k = k
      OBVIOUS
    <3>3. term[k] = Limb(p, k) + m * Limb(q, k)
      BY <1>2, <1>4, <3>2
    <3> QED BY <3>1, <3>2, <3>3
  <2> QED BY <2>1, <2>2 DEF Carried
<1>6. Part(r, z)[L] + Places[L] * c[L] = Sums(Base, term)[L]
  <2>1. L \in 0..L
    OBVIOUS
  <2> HIDE DEF z
  <2> QED BY <1>1, <1>4, <1>5, <2>1, CarriedSum
<1>7. Sums(Base, term)[L] = Sums(Base, D)[L] + m * Sums(Base, S)[L]
  <2>1. AddsTo(term, D, m, S, L)
    BY <1>4 DEF AddsTo
  <2>2. Base \in Nat \ {0}
    BY BaseIsBig
  <2>3. term \in Numbers /\ D \in Numbers /\ S \in Numbers
    BY <1>2, <1>4
  <2> QED BY <2>1, <2>2, <2>3, SumsAdd
<1>8. Part(r, 0) = Worth(r) /\ Sums(Base, D) = Worth(p) /\ Sums(Base, S) = Worth(q)
  <2>1. Part(r, 0) = Worth(r)
    BY PartOf
  <2> QED BY <2>1 DEF Worth, D, S
<1> QED BY <1>6, <1>7, <1>8 DEF z

LEMMA CarriesAdd ==
  ASSUME NEW p \in Seq(Limbs), NEW o \in Seq(Limbs), NEW n \in Nat
  PROVE  LET c == Carries(p, o, n, FALSE)
         IN /\ c[0] = 0
            /\ \A i \in 0..n : c[i] \in {0, 1}
            /\ \A i \in 1..n : c[i] = Carry(Limb(p, i), Limb(o, i), c[i - 1])
<1> DEFINE Is(c) == c = [i \in 0..n |->
                     IF i = 0 THEN 0
                     ELSE (IF (Limb(p, i) + c[i - 1]) % Base < c[i - 1] THEN 1 ELSE 0)
                            + (IF (((Limb(p, i) + c[i - 1]) % Base) + Limb(o, i)) % Base
                                    < Limb(o, i) THEN 1 ELSE 0)]
           Step == [t \in (1..n) \X {0, 1} |-> Carry(Limb(p, t[1]), Limb(o, t[1]), t[2])]
           zero == 0
           Bits == {0, 1}
<1>1. \A i \in Nat : Limb(p, i) \in Limbs /\ Limb(o, i) \in Limbs
  BY LimbIsSmall
<1>2. \A k \in 1..n, v \in Bits : Step[<<k, v>>] = Carry(Limb(p, k), Limb(o, k), v)
  OBVIOUS
<1> HIDE DEF Step
<1>3. LeadsTo(Bits, n, Step)
  <2> SUFFICES ASSUME NEW k \in 1..n, NEW v \in Bits PROVE Step[<<k, v>>] \in Bits
    BY DEF LeadsTo
  <2> DEFINE x == Limb(p, k)  y == Limb(o, k)
  <2>1. x \in Limbs /\ y \in Limbs
    BY <1>1
  <2> HIDE DEF x, y
  <2>2. Carry(x, y, v) \in Bits
    BY <2>1, CarryIs
  <2> QED BY <1>2, <2>2 DEF x, y
<1>4. zero \in Bits
  OBVIOUS
<1> HIDE DEF zero, Bits
<1>5. PICK g \in [0..n -> Bits] : IsLed(g, n, zero, Step)
  BY <1>3, <1>4, BoundedRecursion
<1>6. \E c : Is(c)
  <2>1. ASSUME NEW i \in 0..n, i # 0
        PROVE  g[i] = (IF (Limb(p, i) + g[i - 1]) % Base < g[i - 1] THEN 1 ELSE 0)
                            + (IF (((Limb(p, i) + g[i - 1]) % Base) + Limb(o, i)) % Base
                                    < Limb(o, i) THEN 1 ELSE 0)
    <3> DEFINE h == i - 1
    <3>1. i \in 1..n /\ h \in 0..n
      BY <2>1
    <3>2. g[i] = Step[<<i, g[h]>>]
      BY <1>5, <2>1 DEF IsLed
    <3> HIDE DEF h
    <3>3. g[h] \in Bits
      BY <1>5, <3>1
    <3>4. g[i] = Carry(Limb(p, i), Limb(o, i), g[h])
      BY <1>2, <3>1, <3>2, <3>3
    <3> QED BY <3>4 DEF Carry, h
  <2>2. \A i \in 0..n : g[i] = IF i = 0 THEN 0
          ELSE (IF (Limb(p, i) + g[i - 1]) % Base < g[i - 1] THEN 1 ELSE 0)
                            + (IF (((Limb(p, i) + g[i - 1]) % Base) + Limb(o, i)) % Base
                                    < Limb(o, i) THEN 1 ELSE 0)
    BY <1>5, <2>1 DEF IsLed, zero
  <2>3. Is(g)
    BY <1>5, <2>2
  <2> QED BY <2>3
<1> DEFINE c == Carries(p, o, n, FALSE)
<1>7. Is(c)
  BY <1>6 DEF Carries
<1>8. \A i \in 0..n : c[i] = IF i = 0 THEN 0 ELSE Carry(Limb(p, i), Limb(o, i), c[i - 1])
  BY <1>7 DEF Carry
<1> HIDE DEF Is, c
<1> DEFINE W == {k \in 0..n : c[k] \in {0, 1}}
<1>9. 0 \in W
  BY <1>8
<1>10. ASSUME NEW k \in 0..(n - 1), k \in W PROVE k + 1 \in W
  <2> DEFINE h == k + 1
  <2>1. h \in 0..n /\ h # 0 /\ h - 1 = k /\ c[k] \in {0, 1} /\ h \in Nat
    BY <1>10
  <2> HIDE DEF h
  <2>2. c[h] = Carry(Limb(p, h), Limb(o, h), c[k])
    BY <1>8, <2>1
  <2> DEFINE x == Limb(p, h)  y == Limb(o, h)  v == c[k]
  <2>3. x \in Limbs /\ y \in Limbs /\ v \in {0, 1}
    BY <1>1, <2>1
  <2> HIDE DEF x, y, v
  <2>4. Carry(x, y, v) \in {0, 1}
    BY <2>3, CarryIs
  <2> QED BY <2>1, <2>2, <2>4 DEF x, y, v, h
<1>11. \A k \in 0..n : c[k] \in {0, 1}
  <2> HIDE DEF W
  <2>1. \A k \in 0..n : k \in W
    BY <1>9, <1>10, BoundedInduction
  <2> QED BY <2>1 DEF W
<1>12. c[0] = 0 /\ \A i \in 1..n : c[i] = Carry(Limb(p, i), Limb(o, i), c[i - 1])
  BY <1>8
<1> QED BY <1>11, <1>12 DEF c

----------------------------------------------------------------------------
(* The magnitudes of sums and differences. *)

LEMMA OneMore ==
  ASSUME NEW p \in Seq(Limbs), NEW e \in Limbs
  PROVE  /\ Append(p, e) \in Seq(Limbs)
         /\ Magnitude(Append(p, e)) = Magnitude(p) + e * Places[Len(p)]
<1> DEFINE q == Append(p, e)  n == Len(p)  h == n + 1  z == 0
<1>1. /\ q \in Seq(Limbs) /\ n \in Nat /\ h \in Nat /\ Len(q) = h /\ z \in Nat
      /\ q[h] = e /\ \A i \in 1..n : q[i] = p[i]
  OBVIOUS
<1>2. Limb(q, h) = e /\ \A i \in 1..n : Limb(q, z + i) = Limb(p, z + i)
  <2>1. DOMAIN q = 1..h /\ DOMAIN p = 1..n
    BY <1>1
  <2> HIDE DEF q, n
  <2> QED BY <1>1, <2>1 DEF Limb
<1> HIDE DEF q, n
<1>3. Magnitude(q) = Worth(q)[h] /\ Magnitude(p) = Worth(p)[n]
  <2>1. Len(q) <= h /\ n >= Len(p)
    BY <1>1 DEF n
  <2> HIDE DEF h
  <2> QED BY <1>1, <2>1, MagnitudeIs
<1>4. Worth(q)[n + 1] = Worth(q)[n] + Limb(q, n + 1) * Places[n]
  BY <1>1, WorthAt
<1>5. Worth(q)[n] = Worth(p)[n]
  <2>1. Part(p, 0) = Worth(p) /\ Part(q, 0) = Worth(q)
    BY <1>1, PartOf
  <2> HIDE DEF z
  <2>2. Part(p, z)[n] = Part(q, z)[n]
    <3>1. /\ p \in Seq(Limbs) /\ q \in Seq(Limbs) /\ z \in Nat /\ n \in Nat
          /\ \A i \in 1..n : Limb(p, z + i) = Limb(q, z + i)
      BY <1>1, <1>2
    <3> QED BY <3>1, SameParts
  <2> QED BY <2>1, <2>2 DEF z
<1> QED BY <1>1, <1>2, <1>3, <1>4, <1>5 DEF q, n

LEMMA AddToIs ==
  ASSUME NEW X \in Mpis, NEW o \in Seq(Limbs)
  PROVE  /\ add_to(X, o, FALSE) \in Mpis
         /\ Magnitude(add_to(X, o, FALSE).p) = Magnitude(X.p) + Magnitude(o)
<1> DEFINE G == grow(X, Used(o))
           p == G.p
           n == Len(p)
           c == Carries(p, o, n, FALSE)
           low == [i \in 1..n |-> (((p[i] + c[i - 1]) % Base) + Limb(o, i)) % Base]
           r == SubSeq(low, 1, n)
           C == add_to(X, o, FALSE)
           full == IF c[n] = 0 THEN r ELSE Append(r, c[n])
<1>1. Used(o) \in Nat
  BY UsedIs
<1>2. /\ G \in Mpis /\ Magnitude(p) = Magnitude(X.p)
      /\ n = IF Len(X.p) >= Used(o) THEN Len(X.p) ELSE Used(o)
  BY <1>1, GrowIs
<1>3. p \in Seq(Limbs) /\ n \in Nat /\ n >= Used(o)
  <2>1. p \in Seq(Limbs) /\ n \in Nat
    BY <1>2, MpiIs
  <2>2. Len(X.p) \in Nat
    BY MpiIs
  <2> QED BY <1>1, <1>2, <2>1, <2>2
<1>4. C = [s |-> 1, p |-> full]
  BY DEF add_to, LimbSeq
<1>5. \A i \in 1..n : Limb(p, i) = p[i] /\ p[i] \in Limbs
  BY <1>3 DEF Limb
<1>6. /\ low = [i \in 1..n |-> low[i]]
      /\ \A i \in 1..n : low[i] = (((p[i] + c[i - 1]) % Base) + Limb(o, i)) % Base
  OBVIOUS
<1> HIDE DEF G, p, n, C, low
<1>7. /\ c[0] = 0
      /\ \A i \in 0..n : c[i] \in {0, 1}
      /\ \A i \in 1..n : c[i] = Carry(Limb(p, i), Limb(o, i), c[i - 1])
  BY <1>3, CarriesAdd
<1> HIDE DEF c
<1>8. ASSUME NEW i \in 1..n
      PROVE  /\ low[i] \in Limbs
             /\ low[i] + Base * c[i] = Limb(p, i) + 1 * Limb(o, i) + c[i - 1]
  <2> DEFINE h == i - 1  x == p[i]  y == Limb(o, i)  v == c[h]
  <2>1. h \in 0..n /\ i \in Nat
    BY <1>3
  <2>2. x \in Limbs /\ y \in Limbs /\ v \in {0, 1} /\ x = Limb(p, i)
    BY <1>5, <1>7, <2>1, LimbIsSmall
  <2>3. c[i] = Carry(x, y, v)
    BY <1>7, <2>2
  <2>4. low[i] = (((x + v) % Base) + y) % Base
    BY <1>6
  <2> HIDE DEF x, y, v
  <2>5. /\ (((x + v) % Base) + y) % Base \in Limbs
        /\ ((((x + v) % Base) + y) % Base) + Base * Carry(x, y, v) = x + y + v
    BY <2>2, CarryIs
  <2>6. x \in Nat /\ y \in Nat /\ v \in Int
    BY <2>2, LimbsAreSmall
  <2>7. x + 1 * y + v = x + y + v
    BY <2>6
  <2>8. low[i] \in Limbs /\ low[i] + Base * c[i] = x + 1 * y + v
    BY <2>3, <2>4, <2>5, <2>7
  <2> QED BY <2>2, <2>8 DEF y, v, h
<1>9. r = low /\ r \in Seq(Limbs) /\ Len(r) = n /\ \A i \in 1..n : Limb(r, i) = low[i]
  BY <1>3, <1>6, <1>8, TableOfLimbs
<1> HIDE DEF r
<1> DEFINE one == 1
<1>10. Ripples(r, p, one, o, n, c)
  <2>1. \A i \in 0..n : c[i] \in Int
    BY <1>7
  <2>2. \A i \in 1..n : Limb(r, i) + Base * c[i] = Limb(p, i) + 1 * Limb(o, i) + c[i - 1]
    BY <1>8, <1>9
  <2>3. one \in Int
    OBVIOUS
  <2> QED BY <1>3, <1>7, <1>9, <2>1, <2>2, <2>3 DEF Ripples
<1>11. Worth(r)[n] + Places[n] * c[n] = Worth(p)[n] + one * Worth(o)[n]
  <2> HIDE DEF one
  <2> QED BY <1>10, Rippled
<1>12. Worth(r)[n] = Magnitude(r) /\ Worth(p)[n] = Magnitude(p)
  <2>1. n >= Len(r) /\ n >= Len(p)
    BY <1>3, <1>9 DEF n
  <2> QED BY <1>3, <1>9, <2>1, MagnitudeIs
<1>13. Worth(o)[n] = Magnitude(o)
  <2>1. Magnitude(o) < Places[Used(o)] /\ Places[Used(o)] <= Places[n]
    BY <1>1, <1>3, MagnitudeOfUsed, PlacesGrow
  <2>2. Magnitude(o) \in Nat /\ Places[Used(o)] \in Nat /\ Places[n] \in Nat
    BY <1>1, <1>3, MagnitudeOfUsed, PlacesAre
  <2>3. Magnitude(o) < Places[n]
    BY <2>1, <2>2
  <2> QED BY <1>3, <2>3, WorthOfLow
<1>14. c[n] \in {0, 1} /\ n = Len(r)
  BY <1>3, <1>7, <1>9
<1> DEFINE x == Magnitude(r)  y == Magnitude(p)  w == Magnitude(o)  P == Places[n]
<1>15. x \in Nat /\ y \in Nat /\ w \in Nat /\ P \in Nat
  BY <1>3, <1>9, MagnitudeIsNatural, PlacesAre
<1>16. x + P * c[n] = y + w
  <2>1. x + P * c[n] = y + one * w
    BY <1>11, <1>12, <1>13
  <2> HIDE DEF x, y, w, P
  <2> QED BY <1>15, <2>1
<1>17. full \in Seq(Limbs) /\ Magnitude(full) = y + w
  <2>1. CASE c[n] = 0
    <3>1. full = r /\ P * c[n] = 0
      BY <1>15, <2>1
    <3> HIDE DEF full
    <3>2. Magnitude(full) = x /\ full \in Seq(Limbs)
      BY <1>9, <3>1
    <3> HIDE DEF x, y, w, P
    <3> QED BY <1>15, <1>16, <3>1, <3>2
  <2>2. CASE c[n] = 1
    <3> DEFINE e == c[n]
    <3>1. full = Append(r, e) /\ e = 1 /\ e \in Limbs
      <4>1. full = Append(r, e) /\ e = 1
        BY <2>2
      <4> HIDE DEF e
      <4>2. e \in Limbs
        BY <4>1, LimbsAreSmall, BaseIsBig
      <4> QED BY <4>1, <4>2
    <3> HIDE DEF full, e
    <3>2. full \in Seq(Limbs) /\ Magnitude(full) = x + e * P
      BY <1>9, <3>1, OneMore
    <3>3. x + P * e = y + w
      BY <1>16 DEF e
    <3> HIDE DEF x, y, w, P
    <3>4. e * P = P /\ P * e = P
      BY <1>15, <3>1
    <3> QED BY <1>15, <3>2, <3>3, <3>4
  <2> QED BY <1>14, <2>1, <2>2
<1> HIDE DEF full
<1>18. C \in Mpis /\ C.p = full
  BY <1>4, <1>17, MpiOf
<1> QED BY <1>2, <1>17, <1>18 DEF C, p, G

LEMMA SubAbsIs ==
  ASSUME NEW S, NEW r \in [S -> Mpis], NEW x \in S, NEW a \in S, NEW b \in S
  PROVE  /\ sub_abs(r, x, a, b) \in Mpis
         /\ Magnitude(r[a].p) >= Magnitude(r[b].p) =>
              /\ sub_abs(r, x, a, b).s = 1
              /\ Magnitude(sub_abs(r, x, a, b).p) = Magnitude(r[a].p) - Magnitude(r[b].p)
<1> DEFINE X == IF x = a THEN r[x] ELSE copy(r[x], r[a])
           D == sub_abs(r, x, a, b)
           u == Magnitude(r[a].p)
           w == Magnitude(r[b].p)
<1>1. /\ r[x] \in Mpis /\ r[a] \in Mpis /\ r[b] \in Mpis
      /\ r[a].p \in Seq(Limbs) /\ r[b].p \in Seq(Limbs) /\ u \in Nat /\ w \in Nat
  <2>1. r[x] \in Mpis /\ r[a] \in Mpis /\ r[b] \in Mpis
    OBVIOUS
  <2> QED BY <2>1, MpiIs
<1>2. cmp_abs(r[a], r[b]) = IF u > w THEN 1 ELSE IF u < w THEN -1 ELSE 0
  BY <1>1, CmpAbs
<1>3. X \in Mpis /\ Magnitude(X.p) = u
  BY <1>1, CopyIs
<1>4. D = IF cmp_abs(r[a], r[b]) < 0 THEN r[x] ELSE [s |-> 1, p |-> sub_hlp(X.p, r[b].p)]
  BY DEF sub_abs
<1>5. X.p \in Seq(Limbs)
  BY <1>3, MpiIs
<1> HIDE DEF X, D
<1>6. CASE u < w
  <2>1. cmp_abs(r[a], r[b]) = -1 /\ ~(u >= w)
    BY <1>1, <1>2, <1>6
  <2>2. D = r[x]
    BY <1>4, <2>1
  <2> QED BY <1>1, <2>1, <2>2 DEF D
<1>7. CASE u >= w
  <2> DEFINE d == X.p  t == r[b].p  h == sub_hlp(d, t)
  <2>1. ~(cmp_abs(r[a], r[b]) < 0)
    BY <1>1, <1>2, <1>7
  <2>2. D = [s |-> 1, p |-> h]
    BY <1>4, <2>1
  <2>3. d \in Seq(Limbs) /\ t \in Seq(Limbs) /\ Magnitude(t) <= Magnitude(d)
    BY <1>1, <1>3, <1>5, <1>7
  <2>4. Magnitude(d) = u /\ Magnitude(t) = w
    BY <1>3
  <2> HIDE DEF d, t
  <2>5. h \in Seq(Limbs) /\ Magnitude(h) = Magnitude(d) - Magnitude(t)
    BY <2>3, SubHlp
  <2> HIDE DEF h
  <2>6. D \in Mpis /\ D.s = 1 /\ D.p = h
    BY <2>2, <2>5, MpiOf
  <2> QED BY <2>4, <2>5, <2>6 DEF D
<1> QED BY <1>1, <1>6, <1>7

LEMMA AddAbsIs ==
  ASSUME NEW S, NEW r \in [S -> Mpis], NEW x \in S, NEW a \in S, NEW b \in S,
         x # a \/ x # b
  PROVE  /\ add_abs(r, x, a, b) \in Mpis
         /\ Magnitude(add_abs(r, x, a, b).p) = Magnitude(r[a].p) + Magnitude(r[b].p)
<1>1. /\ r[x] \in Mpis /\ r[a] \in Mpis /\ r[b] \in Mpis
      /\ r[a].p \in Seq(Limbs) /\ r[b].p \in Seq(Limbs)
      /\ Magnitude(r[a].p) \in Nat /\ Magnitude(r[b].p) \in Nat
  <2>1. r[x] \in Mpis /\ r[a] \in Mpis /\ r[b] \in Mpis
    OBVIOUS
  <2> QED BY <2>1, MpiIs
<1>2. CASE x = b
  <2>1. (x = a) = FALSE
    BY <1>2
  <2> DEFINE Z == add_to(r[x], r[a].p, FALSE)
  <2>2. add_abs(r, x, a, b) = Z
    BY <1>2, <2>1, Zenon DEF add_abs
  <2>3. Z \in Mpis /\ Magnitude(Z.p) = Magnitude(r[x].p) + Magnitude(r[a].p)
    BY <1>1, AddToIs
  <2> HIDE DEF Z
  <2>4. Magnitude(Z.p) = Magnitude(r[a].p) + Magnitude(r[b].p)
    BY <1>1, <1>2, <2>3
  <2> QED BY <2>2, <2>3, <2>4
<1>3. CASE x # b
  <2> DEFINE X == IF x = a THEN r[x] ELSE copy(r[x], r[a])
  <2>1. add_abs(r, x, a, b) = add_to(X, r[b].p, FALSE)
    BY <1>3, Zenon DEF add_abs
  <2>2. X \in Mpis /\ Magnitude(X.p) = Magnitude(r[a].p)
    BY <1>1, CopyIs
  <2> HIDE DEF X
  <2>3. /\ add_to(X, r[b].p, FALSE) \in Mpis
        /\ Magnitude(add_to(X, r[b].p, FALSE).p) = Magnitude(X.p) + Magnitude(r[b].p)
    BY <1>1, <2>2, AddToIs
  <2> QED BY <2>1, <2>2, <2>3
<1> QED BY <1>2, <1>3

----------------------------------------------------------------------------
(* Sums and differences of mpis with signs. *)

LEMMA ValueWithSign ==
  ASSUME NEW sign \in {1, -1}, NEW X \in Mpis
  PROVE  /\ [X EXCEPT !.s = sign] \in Mpis
         /\ Value([X EXCEPT !.s = sign]) = sign * Magnitude(X.p)
BY MpiWithSign DEF Value

LEMMA DifferenceIs ==
  ASSUME NEW S, NEW r \in [S -> Mpis], NEW x \in S, NEW a \in S, NEW b \in S
  PROVE  /\ Difference(r, x, a, b) \in Mpis
         /\ Value(Difference(r, x, a, b)) =
              r[a].s * (Magnitude(r[a].p) - Magnitude(r[b].p))
<1> DEFINE D == Difference(r, x, a, b)
           u == Magnitude(r[a].p)
           w == Magnitude(r[b].p)
           s == r[a].s
           Z == sub_abs(r, x, a, b)
           Y == sub_abs(r, x, b, a)
<1>1. r[a] \in Mpis /\ r[b] \in Mpis
  OBVIOUS
<1>2. /\ r[a].p \in Seq(Limbs) /\ r[b].p \in Seq(Limbs) /\ u \in Nat /\ w \in Nat
      /\ s \in {1, -1} /\ -s \in {1, -1}
  BY <1>1, MpiIs
<1>3. cmp_abs(r[a], r[b]) = IF u > w THEN 1 ELSE IF u < w THEN -1 ELSE 0
  BY <1>2, CmpAbs
<1>4. D = IF cmp_abs(r[a], r[b]) >= 0 THEN [Z EXCEPT !.s = s] ELSE [Y EXCEPT !.s = -s]
  BY DEF Difference
<1>5. Z \in Mpis /\ (u >= w => Magnitude(Z.p) = u - w)
  BY SubAbsIs
<1>6. Y \in Mpis /\ (w >= u => Magnitude(Y.p) = w - u)
  BY SubAbsIs
<1> HIDE DEF D, u, w, s, Z, Y
<1>7. CASE u >= w
  <2>1. cmp_abs(r[a], r[b]) >= 0
    BY <1>2, <1>3, <1>7
  <2>2. D = [Z EXCEPT !.s = s]
    BY <1>4, <2>1
  <2>3. D \in Mpis /\ Value(D) = s * Magnitude(Z.p)
    BY <1>2, <1>5, <2>2, ValueWithSign
  <2> QED BY <1>5, <1>7, <2>3 DEF D, s, u, w
<1>8. CASE u < w
  <2>1. ~(cmp_abs(r[a], r[b]) >= 0) /\ w >= u
    BY <1>2, <1>3, <1>8
  <2>2. D = [Y EXCEPT !.s = -s]
    BY <1>4, <2>1
  <2> DEFINE t == -s
  <2>3. t \in {1, -1} /\ D = [Y EXCEPT !.s = t]
    BY <1>2, <2>2
  <2> HIDE DEF t
  <2>4. D \in Mpis /\ Value(D) = t * Magnitude(Y.p)
    BY <1>6, <2>3, ValueWithSign
  <2>5. Magnitude(Y.p) = w - u
    BY <1>6, <2>1
  <2>6. (-s) * (w - u) = s * (u - w)
    BY <1>2
  <2> QED BY <2>4, <2>5, <2>6 DEF D, s, u, w, t
<1> QED BY <1>2, <1>7, <1>8

LEMMA AddMpiIs ==
  ASSUME NEW S, NEW r \in [S -> Mpis], NEW x \in S, NEW a \in S, NEW b \in S,
         x # a \/ x # b
  PROVE  /\ add_mpi(r, x, a, b) \in Mpis
         /\ Value(add_mpi(r, x, a, b)) = Value(r[a]) + Value(r[b])
         /\ sub_mpi(r, x, a, b) \in Mpis
         /\ Value(sub_mpi(r, x, a, b)) = Value(r[a]) - Value(r[b])
<1> DEFINE D == Difference(r, x, a, b)
           u == Magnitude(r[a].p)
           w == Magnitude(r[b].p)
           s == r[a].s
           t == r[b].s
           Z == [add_abs(r, x, a, b) EXCEPT !.s = s]
           P == add_mpi(r, x, a, b)
           M == sub_mpi(r, x, a, b)
<1>1. r[a] \in Mpis /\ r[b] \in Mpis
  OBVIOUS
<1>2. u \in Nat /\ w \in Nat /\ s \in {1, -1} /\ t \in {1, -1}
  BY <1>1, MpiIs
<1>3. Value(r[a]) = s * u /\ Value(r[b]) = t * w
  BY DEF Value
<1>4. D \in Mpis /\ Value(D) = s * (u - w)
  BY DifferenceIs
<1>5. Z \in Mpis /\ Value(Z) = s * (u + w)
  <2> DEFINE Y == add_abs(r, x, a, b)
  <2>1. Y \in Mpis /\ Magnitude(Y.p) = u + w
    BY AddAbsIs
  <2> HIDE DEF Y, s
  <2>2. [Y EXCEPT !.s = s] \in Mpis /\ Value([Y EXCEPT !.s = s]) = s * Magnitude(Y.p)
    BY <1>2, <2>1, ValueWithSign
  <2> QED BY <2>1, <2>2 DEF Y
<1>6. P = IF s * t < 0 THEN D ELSE Z
  BY DEF add_mpi
<1>7. M = IF s * t > 0 THEN D ELSE Z
  BY DEF sub_mpi
<1> HIDE DEF D, u, w, s, t, Z, P, M
<1>8. CASE s = t
  <2>1. s * t = 1
    BY <1>2, <1>8
  <2>2. P = Z /\ M = D
    BY <1>6, <1>7, <2>1
  <2>3. s * (u + w) = s * u + t * w /\ s * (u - w) = s * u - t * w
    BY <1>2, <1>8
  <2> QED BY <1>3, <1>4, <1>5, <2>2, <2>3 DEF P, M
<1>9. CASE s # t
  <2>1. s * t = -1
    BY <1>2, <1>9
  <2>2. P = D /\ M = Z
    BY <1>6, <1>7, <2>1
  <2>3. s * (u - w) = s * u + t * w /\ s * (u + w) = s * u - t * w
    BY <1>2, <1>9
  <2> QED BY <1>3, <1>4, <1>5, <2>2, <2>3 DEF P, M
<1> QED BY <1>8, <1>9

----------------------------------------------------------------------------
(* Products, row by row. *)

LEMMA ZeroIsDigit ==
  IsDigit(0) /\ Size(0) = 0
<1>1. Size(0) = 0
  BY DEF Size
<1> QED BY <1>1, BaseIsBig DEF IsDigit

LEMMA PreparedIs ==
  ASSUME NEW X \in Mpis, NEW n \in Nat
  PROVE  /\ Prepared(X, n) \in Mpis /\ Value(Prepared(X, n)) = 0
         /\ Magnitude(Prepared(X, n).p) = 0
         /\ Len(Prepared(X, n).p) \in Nat /\ Len(Prepared(X, n).p) >= n
         /\ \A i \in Nat : Limb(Prepared(X, n).p, i) = 0
<1> DEFINE G == grow(X, n)  z == 0  C == lset(G, z)
<1>1. G \in Mpis /\ Len(G.p) >= n /\ Len(G.p) \in Nat
  <2>1. G \in Mpis /\ Len(G.p) = IF Len(X.p) >= n THEN Len(X.p) ELSE n
    BY GrowIs
  <2>2. Len(X.p) \in Nat
    BY MpiIs
  <2> QED BY <2>1, <2>2
<1>2. IsDigit(z) /\ Size(z) = 0
  BY ZeroIsDigit
<1> HIDE DEF G, z
<1>3. /\ C \in Mpis /\ Value(C) = z /\ Magnitude(C.p) = Size(z)
      /\ Len(C.p) = IF Len(G.p) = 0 THEN 1 ELSE Len(G.p)
      /\ \A i \in Nat : Limb(C.p, i) = IF i = 1 THEN Size(z) ELSE 0
  BY <1>1, <1>2, LsetIs
<1>4. Prepared(X, n) = C
  BY DEF Prepared, G, z
<1> HIDE DEF C
<1>5. \A i \in Nat : Limb(C.p, i) = 0
  BY <1>2, <1>3
<1>6. Len(C.p) \in Nat /\ Len(C.p) >= n
  BY <1>1, <1>3
<1>7. Value(C) = 0
  BY <1>3 DEF z
<1> QED BY <1>2, <1>3, <1>4, <1>5, <1>6, <1>7

LEMMA PreparedLength ==
  ASSUME NEW X \in Mpis, NEW n \in Nat
  PROVE  Len(Prepared(X, n).p) >= Len(X.p)
<1> DEFINE G == grow(X, n)  z == 0  C == lset(G, z)
<1>1. G \in Mpis /\ Len(G.p) = IF Len(X.p) >= n THEN Len(X.p) ELSE n
  BY GrowIs
<1>2. IsDigit(z) /\ Len(X.p) \in Nat
  BY ZeroIsDigit, MpiIs
<1> HIDE DEF G, z
<1>3. Len(C.p) = IF Len(G.p) = 0 THEN 1 ELSE Len(G.p)
  BY <1>1, <1>2, LsetIs
<1>4. Prepared(X, n) = C
  BY DEF Prepared, G, z
<1> HIDE DEF C
<1>5. Len(C.p) >= Len(X.p)
  BY <1>1, <1>2, <1>3
<1> QED BY <1>4, <1>5

LEMMA ProductFits ==
  ASSUME NEW a \in Nat, NEW P \in Nat, NEW b \in Nat, NEW Q \in Nat, a < P, b < Q
  PROVE  a * b < P * Q /\ a * b \in Nat
<1>1. P - 1 \in Nat /\ a <= P - 1 /\ b <= Q
  OBVIOUS
<1>2. a * b <= (P - 1) * Q /\ a * b \in Nat /\ (P - 1) * Q \in Nat
  BY <1>1, ProductsGrow
<1>3. (P - 1) * Q = P * Q - Q /\ P * Q \in Nat
  OBVIOUS
<1> QED BY <1>2, <1>3

LEMMA PlacesMultiply ==
  ASSUME NEW k \in Nat, NEW m \in Nat
  PROVE  Places[k + m] = Places[k] * Places[m]
BY BaseIsBig, PowersAdd DEF Places

\* What the rows of a product have added up after k limbs of q.
RowsAre(d, p, q, k, j, L) ==
  /\ d \in Seq(Limbs) /\ Len(d) = L
  /\ \A i \in Nat : i <= j - k => Limb(d, i) = 0
  /\ Part(d, j - k)[L - (j - k)] = Magnitude(p) * Part(q, j - k)[k]

LEMMA NextRow ==
  ASSUME NEW p \in Seq(Limbs), NEW q \in Seq(Limbs), NEW L \in Nat,
         L >= Used(p) + Used(q), NEW k \in Nat, k < Used(q),
         NEW d, RowsAre(d, p, q, k, Used(q), L)
  PROVE  RowsAre(mul_hlp(Used(p), p, d, Used(q) - (k + 1), q[Used(q) - (k + 1) + 1]),
                 p, q, k + 1, Used(q), L)
<1> DEFINE n == Used(p)
           j == Used(q)
           at == j - (k + 1)
           up == at + 1
           b == q[at + 1]
           m == L - at
           l == m - 1
           e == mul_hlp(n, p, d, at, b)
           h == k + 1
           x == Magnitude(p)
           y == Part(q, up)[k]
           y2 == Part(q, at)[h]
<1>1. /\ n \in Nat /\ j \in Nat /\ n <= Len(p) /\ j <= Len(q)
      /\ Len(p) \in Nat /\ Len(q) \in Nat
  BY UsedIs
<1>0. L >= n + j /\ k < j
  OBVIOUS
<1> HIDE DEF n, j
<1>2. /\ at \in Nat /\ up \in Nat /\ up = j - k /\ m \in Nat /\ l \in Nat /\ h \in Nat
      /\ m = l + 1 /\ at + m = L /\ n + h <= m /\ n <= m /\ at + n <= L
      /\ up \in 1..Len(q) /\ up <= j /\ l = L - (j - k)
  BY <1>0, <1>1
<1>3. /\ d \in Seq(Limbs) /\ Len(d) = L
      /\ \A i \in Nat : i <= up => Limb(d, i) = 0
      /\ Part(d, up)[l] = x * y
  <2>1. /\ d \in Seq(Limbs) /\ Len(d) = L
        /\ \A i \in Nat : i <= j - k => Limb(d, i) = 0
        /\ Part(d, j - k)[L - (j - k)] = x * Part(q, j - k)[k]
    BY DEF RowsAre, j
  <2> QED BY <1>2, <2>1
<1>4. b \in Limbs /\ b = Limb(q, up)
  <2>1. \A g \in 1..Len(q) : q[g] \in Limbs /\ Limb(q, g) = q[g]
    BY DEF Limb
  <2> QED BY <1>2, <2>1
<1>5. x \in Nat /\ x < Places[n] /\ Worth(p)[n] = x
  BY MagnitudeOfUsed DEF n
<1> HIDE DEF at, m, l, h, e, b
<1>6. Part(d, at)[l + 1] = Limb(d, at + 1) + Base * Part(d, at + 1)[l]
  BY <1>2, <1>3, PartFirst, ZenonT(30)
<1>7. Limb(d, at + 1) = 0
  BY <1>2, <1>3
<1>8. Part(q, at)[k + 1] = Limb(q, at + 1) + Base * Part(q, at + 1)[k]
  BY <1>2, PartFirst, SMTT(30)
<1>9. y \in Nat /\ y2 \in Nat /\ y2 < Places[h] /\ b \in Nat
  <2>1. Part(q, up)[k] \in Nat
    <3> HIDE DEF up
    <3> QED BY <1>2, PartOf
  <2>2. Part(q, at)[h] \in 0..(Places[h] - 1) /\ Part(q, at)[h] \in Nat
    BY <1>2, PartOf
  <2>3. Places[h] \in Nat
    BY <1>2, PlacesAre
  <2> QED BY <1>4, <2>1, <2>2, <2>3, LimbsAreSmall
<1>10. y2 = b + Base * y
  BY <1>4, <1>8 DEF h
<1> DEFINE z == Part(d, at)[m]
<1>11. z = Base * (x * y)
  <2>1. z = 0 + Base * (x * y)
    BY <1>2, <1>3, <1>6, <1>7
  <2>2. Base * (x * y) \in Nat
    BY <1>5, <1>9, BaseIsBig
  <2> QED BY <2>1, <2>2
<1>12. Row(p, n, b) = b * x
  BY <1>5 DEF Row
<1>13. z + Row(p, n, b) = x * y2
  <2> HIDE DEF x, y, y2, z
  <2>1. Base * (x * y) + b * x = x * (b + Base * y)
    BY <1>5, <1>9, BaseIsBig
  <2> QED BY <1>10, <1>11, <1>12, <2>1
<1>14. x * y2 < Places[m]
  <2>1. x * y2 < Places[n] * Places[h] /\ x * y2 \in Nat
    <3>1. Places[n] \in Nat /\ Places[h] \in Nat
      BY <1>1, <1>2, PlacesAre
    <3> HIDE DEF x, y2
    <3> QED BY <1>5, <1>9, <3>1, ProductFits
  <2>2. Places[n + h] = Places[n] * Places[h]
    BY <1>1, <1>2, PlacesMultiply
  <2> DEFINE o == n + h
  <2>3. o \in Nat /\ o <= m
    BY <1>1, <1>2
  <2>4. Places[o] = Places[n] * Places[h]
    BY <2>2
  <2> HIDE DEF o, x, y2
  <2>5. Places[o] <= Places[m] /\ Places[o] \in Nat /\ Places[m] \in Nat
    BY <1>2, <2>3, PlacesGrow, PlacesAre
  <2> QED BY <2>1, <2>4, <2>5
<1>15. /\ e \in Seq(Limbs) /\ Len(e) = L
       /\ Part(e, at)[m] = x * y2
  <2>1. /\ n <= Len(p) /\ at + n <= Len(d) /\ n <= m /\ at + m <= Len(d)
        /\ Part(d, at)[m] + Row(p, n, b) < Places[m]
    BY <1>1, <1>2, <1>3, <1>13, <1>14
  <2>2. /\ e \in Seq(Limbs) /\ Len(e) = Len(d)
        /\ Part(e, at)[m] = Part(d, at)[m] + Row(p, n, b)
    <3>1. d \in Seq(Limbs) /\ n \in Nat /\ at \in Nat /\ m \in Nat /\ b \in Limbs
      BY <1>1, <1>2, <1>3, <1>4
    <3> QED BY <2>1, <3>1, MulHlpFits DEF e
  <2> QED BY <1>3, <1>13, <2>2
<1>16. ASSUME NEW i \in Nat, i <= at PROVE Limb(e, i) = 0
  <2>1. CASE i = 0
    <3>1. 0 \notin DOMAIN e
      BY <1>15
    <3> QED BY <2>1, <3>1 DEF Limb
  <2>2. CASE i # 0
    <3>1. i \in 1..at
      BY <1>2, <1>16, <2>2
    <3>2. n <= Len(p) /\ at + n <= Len(d)
      BY <1>1, <1>2, <1>3
    <3>3. \A g \in 1..at : Limb(e, g) = Limb(d, g)
      <4>1. d \in Seq(Limbs) /\ n \in Nat /\ at \in Nat /\ b \in Limbs
        BY <1>1, <1>2, <1>3, <1>4
      <4> QED BY <3>2, <4>1, MulHlp DEF e
    <3>4. Limb(d, i) = 0
      BY <1>2, <1>3, <1>16
    <3> QED BY <3>1, <3>3, <3>4
  <2> QED BY <2>1, <2>2
<1>17. j - h = at /\ L - (j - h) = m
  BY <1>1, <1>2 DEF at, h, m
<1>18. RowsAre(e, p, q, h, j, L)
  BY <1>15, <1>16, <1>17 DEF RowsAre
<1> QED BY <1>18 DEF e, n, j, at, b, h

LEMMA ProductIs ==
  ASSUME NEW X \in Mpis, NEW A \in Mpis, NEW B \in Mpis
  PROVE  /\ product(X, A, B) \in Mpis /\ Value(product(X, A, B)) = Value(A) * Value(B)
         /\ Len(product(X, A, B).p) >= Len(X.p)
<1> DEFINE p == A.p
           q == B.p
           n == Used(p)
           j == Used(q)
           u == n + j
           first == Prepared(X, u).p
           L == Len(first)
           Rows == {v \in Seq(Limbs) : Len(v) = L}
           Step == [t \in (1..j) \X Rows |->
                      mul_hlp(n, p, t[2], j - t[1], q[j - t[1] + 1])]
           Is(g) == g = [k \in 0..j |->
                      IF k = 0 THEN first
                      ELSE mul_hlp(n, p, g[k - 1], j - k, q[j - k + 1])]
           C == product(X, A, B)
<1>1. /\ p \in Seq(Limbs) /\ q \in Seq(Limbs) /\ A.s \in {1, -1} /\ B.s \in {1, -1}
  BY MpiIs
<1>2. /\ n \in Nat /\ j \in Nat /\ n <= Len(p) /\ j <= Len(q)
      /\ Len(p) \in Nat /\ Len(q) \in Nat /\ u \in Nat
  BY <1>1, UsedIs
<1>3. /\ Prepared(X, u) \in Mpis /\ L \in Nat /\ L >= u
      /\ \A i \in Nat : Limb(first, i) = 0
  <2> HIDE DEF u
  <2> QED BY <1>2, PreparedIs
<1>26. L >= Len(X.p)
  <2> HIDE DEF u
  <2> QED BY <1>2, PreparedLength
<1>4. first \in Seq(Limbs)
  BY <1>3, MpiIs
<1>5. C = [s |-> A.s * B.s, p |-> (CHOOSE g : Is(g))[j]]
  BY DEF product
<1>6. L >= n + j /\ n + j \in Nat
  BY <1>2, <1>3
<1> HIDE DEF p, q, n, j, first, C
<1>7. \A i \in 1..j : q[i] \in Limbs
  <2>1. \A i \in 1..Len(q) : q[i] \in Limbs
    BY <1>1
  <2> QED BY <1>2, <2>1
<1> HIDE DEF L
<1>8. \A k \in 1..j, v \in Rows : Step[<<k, v>>] = mul_hlp(n, p, v, j - k, q[j - k + 1])
  <2> HIDE DEF Rows
  <2> QED OBVIOUS
<1> HIDE DEF Step
<1>9. LeadsTo(Rows, j, Step)
  <2> SUFFICES ASSUME NEW k \in 1..j, NEW v \in Rows PROVE Step[<<k, v>>] \in Rows
    BY DEF LeadsTo
  <2> DEFINE at == j - k  b == q[at + 1]  e == mul_hlp(n, p, v, at, b)
  <2>1. at \in Nat /\ at + 1 \in 1..j /\ at + n <= L
    BY <1>2, <1>6
  <2>2. b \in Limbs /\ v \in Seq(Limbs) /\ Len(v) = L
    BY <1>7, <2>1
  <2> HIDE DEF at, b
  <2>3. at + n <= Len(v) /\ n <= Len(p)
    BY <1>2, <2>1, <2>2
  <2>4. e \in Seq(Limbs) /\ Len(e) = Len(v)
    <3>1. v \in Seq(Limbs) /\ b \in Limbs /\ at \in Nat /\ n \in Nat /\ p \in Seq(Limbs)
      BY <1>1, <1>2, <2>1, <2>2
    <3> HIDE DEF Rows
    <3> QED BY <2>3, <3>1, MulHlp
  <2> HIDE DEF e
  <2>5. e \in Rows
    BY <2>2, <2>4
  <2> QED BY <1>8, <2>5 DEF e, at, b
<1>10. first \in Rows
  BY <1>4 DEF L
<1>11. PICK g \in [0..j -> Rows] : IsLed(g, j, first, Step)
  <2> HIDE DEF Rows
  <2> QED BY <1>2, <1>9, <1>10, BoundedRecursion
<1>12. \E w : Is(w)
  <2>1. ASSUME NEW k \in 0..j, k # 0
        PROVE  g[k] = mul_hlp(n, p, g[k - 1], j - k, q[j - k + 1])
    <3> DEFINE h == k - 1
    <3>1. k \in 1..j /\ h \in 0..j
      BY <1>2, <2>1
    <3>2. g[k] = Step[<<k, g[h]>>]
      BY <1>11, <2>1 DEF IsLed
    <3> HIDE DEF h, Rows
    <3>3. g[h] \in Rows
      BY <1>11, <3>1
    <3> QED BY <1>8, <3>1, <3>2, <3>3 DEF h
  <2>2. \A k \in 0..j : g[k] = IF k = 0 THEN first
                     ELSE mul_hlp(n, p, g[k - 1], j - k, q[j - k + 1])
    BY <1>11, <2>1 DEF IsLed
  <2>3. Is(g)
    BY <1>11, <2>2
  <2> QED BY <2>3
<1> DEFINE rows == CHOOSE w : Is(w)
<1>13. Is(rows)
  BY <1>12
<1>14. \A k \in 0..j : rows[k] = IF k = 0 THEN first
                     ELSE mul_hlp(n, p, rows[k - 1], j - k, q[j - k + 1])
  BY <1>13
<1> HIDE DEF Is, rows
<1> DEFINE W == {k \in 0..j : RowsAre(rows[k], p, q, k, j, L)}
<1>15. 0 \in W
  <2> DEFINE z == 0  m == L - j
  <2>1. rows[0] = first /\ 0 \in 0..j
    BY <1>2, <1>14
  <2>2. m \in Nat /\ j - 0 = j /\ z \in Nat /\ z <= m
    BY <1>2, <1>3, <1>6
  <2>3. Part(first, j)[m] = Part(first, j)[z]
    <3>1. \A i \in (z + 1)..m : Limb(first, j + i) = 0
      BY <1>2, <1>3
    <3> HIDE DEF z, m
    <3>2. first \in Seq(Limbs) /\ j \in Nat /\ z \in Nat /\ m \in Nat /\ z <= m
      BY <1>2, <1>4, <2>2
    <3> QED BY <3>1, <3>2, PartEnds, ZenonT(30)
  <2>4. Part(first, j)[0] = 0
    BY <1>2, <1>4, PartOf
  <2>5. Part(q, j)[0] = 0
    BY <1>1, <1>2, PartOf
  <2>6. Magnitude(p) * 0 = 0
    BY <1>1, MagnitudeIsNatural
  <2>7. RowsAre(first, p, q, 0, j, L)
    BY <1>3, <1>4, <2>2, <2>3, <2>4, <2>5, <2>6 DEF RowsAre, L
  <2> QED BY <2>1, <2>7
<1>16. ASSUME NEW k \in 0..(j - 1), k \in W PROVE k + 1 \in W
  <2> DEFINE h == k + 1
  <2>1. h \in 0..j /\ h # 0 /\ h - 1 = k /\ k \in Nat /\ k < j
    BY <1>2
  <2>2. RowsAre(rows[k], p, q, k, j, L)
    BY <1>16
  <2> HIDE DEF h
  <2>3. rows[h] = mul_hlp(n, p, rows[k], j - h, q[j - h + 1])
    BY <1>14, <2>1
  <2>4. RowsAre(mul_hlp(n, p, rows[k], j - (k + 1), q[j - (k + 1) + 1]), p, q, k + 1, j, L)
    BY <1>1, <1>3, <1>6, <2>1, <2>2, NextRow DEF n, j
  <2>5. RowsAre(rows[h], p, q, h, j, L)
    BY <2>3, <2>4 DEF h
  <2> QED BY <2>1, <2>5 DEF h
<1>17. RowsAre(rows[j], p, q, j, j, L)
  <2>1. \A k \in 0..j : k \in W
    <3> HIDE DEF W
    <3> QED BY <1>2, <1>15, <1>16, BoundedInduction
  <2>2. j \in 0..j
    BY <1>2
  <2> QED BY <2>1, <2>2
<1> DEFINE d == rows[j]
<1>18. d \in Seq(Limbs) /\ Len(d) = L /\ Part(d, 0)[L] = Magnitude(p) * Part(q, 0)[j]
  <2>1. j - j = 0 /\ L - 0 = L
    BY <1>2, <1>3
  <2> QED BY <1>17, <2>1 DEF RowsAre
<1> HIDE DEF d
<1>19. Magnitude(d) = Magnitude(p) * Magnitude(q)
  <2>1. Part(d, 0) = Worth(d) /\ Part(q, 0) = Worth(q)
    BY <1>1, <1>2, <1>18, PartOf
  <2>2. Magnitude(d) = Worth(d)[L]
    BY <1>18, MagnitudeIsWorth
  <2>3. Magnitude(q) = Worth(q)[j]
    BY <1>1, MagnitudeOfUsed DEF j
  <2> QED BY <1>18, <2>1, <2>2, <2>3
<1> DEFINE s == A.s * B.s
<1>20. s \in {1, -1} /\ C = [s |-> s, p |-> d]
  <2>1. s \in {1, -1}
    BY <1>1
  <2> QED BY <1>5, <2>1 DEF d, rows
<1>21. C \in Mpis /\ C.s = s /\ C.p = d
  <2> HIDE DEF s
  <2> QED BY <1>18, <1>20, MpiOf
<1>22. Value(C) = (A.s * B.s) * (Magnitude(p) * Magnitude(q))
  BY <1>19, <1>21 DEF Value
<1> DEFINE x == Magnitude(p)  y == Magnitude(q)  a == A.s  b == B.s
<1>23. x \in Int /\ y \in Int /\ a \in Int /\ b \in Int
  BY <1>1, MagnitudeIsNatural
<1>24. (a * b) * (x * y) = (a * x) * (b * y)
  <2> HIDE DEF x, y, a, b
  <2> QED BY <1>23
<1>25. Value(A) = a * x /\ Value(B) = b * y
  BY DEF Value, p, q
<1>27. Len(C.p) >= Len(X.p)
  BY <1>18, <1>21, <1>26
<1> QED BY <1>21, <1>22, <1>24, <1>25, <1>27 DEF C

LEMMA MulIntIs ==
  ASSUME NEW X \in Mpis, NEW A \in Mpis, NEW z \in Limbs
  PROVE  LET C == product(X, A, [s |-> 1, p |-> <<z>>])
         IN C \in Mpis /\ Value(C) = Value(A) * z /\ Len(C.p) >= Len(X.p)
<1> DEFINE q == <<z>>  B == [s |-> 1, p |-> q]
<1>1. q \in Seq(Limbs) /\ Magnitude(q) = z
  BY OneLimb
<1> HIDE DEF q
<1>2. B \in Mpis /\ B.s = 1 /\ B.p = q
  BY <1>1, MpiOf
<1>3. z \in Nat
  BY LimbsAreSmall
<1>4. 1 * z = z
  BY <1>3
<1>5. Value(B) = z
  BY <1>1, <1>2, <1>4 DEF Value
<1> HIDE DEF B
<1>6. /\ product(X, A, B) \in Mpis /\ Value(product(X, A, B)) = Value(A) * Value(B)
      /\ Len(product(X, A, B).p) >= Len(X.p)
  BY <1>2, ProductIs
<1> QED BY <1>5, <1>6 DEF B, q

----------------------------------------------------------------------------
(* The highest bit. *)

LEMMA PlacesAreTwos ==
  ASSUME NEW k \in Nat
  PROVE  k * biL \in Nat /\ Places[k] = TwoTo[k * biL]
<1> DEFINE S == {l \in Nat : Places[l] = TwoTo[l * biL]}
<1>1. biL \in Nat /\ Base = TwoTo[biL]
  BY BaseIsPositive
<1>2. 0 \in S
  <2>1. 0 * biL = 0
    BY <1>1
  <2>2. Places[0] = 1 /\ TwoTo[0] = 1
    BY PlacesAre, TwoToIsDefined
  <2> QED BY <2>1, <2>2
<1>3. ASSUME NEW l \in Nat, l \in S PROVE l + 1 \in S
  <2> DEFINE y == l * biL
  <2>1. y \in Nat /\ (l + 1) * biL = y + biL
    BY <1>1
  <2>2. Places[l + 1] = Base * Places[l] /\ Places[l] = TwoTo[y]
    BY <1>3, PlacesAre
  <2> HIDE DEF y
  <2>3. TwoTo[y + biL] = TwoTo[y] * TwoTo[biL] /\ TwoTo[y] \in Nat
    BY <1>1, <2>1, TwoToSum, TwoToAt
  <2>4. Base * TwoTo[y] = TwoTo[y] * Base
    BY <2>3, BaseIsBig
  <2> QED BY <1>1, <2>1, <2>2, <2>3, <2>4
<1>4. Nat \subseteq S
  <2> HIDE DEF S
  <2> QED BY <1>2, <1>3, Induction
<1> QED BY <1>1, <1>4

LEMMA TwosGrow ==
  ASSUME NEW m \in Nat, NEW n \in Nat, m <= n
  PROVE  TwoTo[m] <= TwoTo[n] /\ TwoTo[m] \in Nat \ {0} /\ TwoTo[n] \in Nat \ {0}
<1> DEFINE k == n - m
<1>1. k \in Nat /\ n = m + k
  OBVIOUS
<1> HIDE DEF k
<1>2. TwoTo[m + k] = TwoTo[m] * TwoTo[k] /\ TwoTo[k] \in Nat \ {0} /\ TwoTo[m] \in Nat \ {0}
  BY <1>1, TwoToSum, TwoToAt
<1>3. \A x, y \in Nat \ {0} : x <= x * y /\ x * y \in Nat \ {0}
  OBVIOUS
<1> QED BY <1>1, <1>2, <1>3

\* The highest bit that is set.
Top(w) == Max({j \in 1..biL : Bit(w, j) = 1} \cup {0})

LEMMA TopIs ==
  ASSUME NEW w \in Limbs
  PROVE  /\ Top(w) \in 0..biL /\ Top(w) \in Nat /\ w < TwoTo[Top(w)]
         /\ Top(w) # 0 => w >= TwoTo[Top(w) - 1]
<1> DEFINE S == {j \in 1..biL : Bit(w, j) = 1} \cup {0}
           t == Top(w)
<1>1. biL \in Nat /\ Base = TwoTo[biL] /\ w \in Nat /\ w < Base
  BY BaseIsPositive, LimbsAreSmall
<1>2. S \subseteq 0..biL /\ S # {}
  BY <1>1
<1>3. t \in S /\ \A y \in S : y <= t
  <2> HIDE DEF S
  <2>1. Max(S) \in S /\ \A y \in S : y <= Max(S)
    BY <1>1, <1>2, MaxIsElement
  <2> QED BY <2>1 DEF Top, S
<1>4. t \in 0..biL /\ t \in Nat
  BY <1>1, <1>2, <1>3
<1> HIDE DEF t
<1>5. ASSUME NEW k \in Nat
      PROVE  /\ TwoTo[k] \in Nat \ {0} /\ w \div TwoTo[k] \in Nat
             /\ Bit(w, k + 1) = (w \div TwoTo[k]) % 2
             /\ w % TwoTo[k + 1] = Bit(w, k + 1) * TwoTo[k] + (w % TwoTo[k])
             /\ Bit(w, k + 1) \in {0, 1}
  <2>1. TwoTo[k] \in Nat \ {0} /\ (k + 1) - 1 = k
    BY TwoToAt
  <2>2. w \div TwoTo[k] \in Nat
    <3> DEFINE P == TwoTo[k]
    <3>1. w \in Int /\ w >= 0 /\ P \in Nat \ {0}
      BY <1>1, <2>1
    <3> HIDE DEF P
    <3>2. w \div P \in Int /\ w \div P >= 0
      BY <3>1, QuotientRemainder
    <3> QED BY <3>2 DEF P
  <2>3. Bit(w, k + 1) = (w \div TwoTo[k]) % 2
    BY <2>1 DEF Bit
  <2>4. Digit(2, w, k) = (w \div TwoTo[k]) % 2
    BY DEF Digit, TwoTo
  <2> DEFINE two == 2
  <2>5. two \in Nat \ {0}
    OBVIOUS
  <2>6. w % PowersOf(two)[k + 1] =
          Digit(two, w, k) * PowersOf(two)[k] + (w % PowersOf(two)[k])
    <3> HIDE DEF two
    <3> QED BY <1>1, <2>5, DigitOfRemainder
  <2>7. (w \div TwoTo[k]) % 2 \in {0, 1}
    BY <2>2
  <2> QED BY <2>1, <2>2, <2>3, <2>4, <2>6, <2>7 DEF TwoTo
<1> DEFINE R == {k \in Nat : t + k <= biL => w % TwoTo[t + k] = w % TwoTo[t]}
<1>6. 0 \in R
  BY <1>4
<1>7. ASSUME NEW k \in Nat, k \in R PROVE k + 1 \in R
  <2>1. SUFFICES ASSUME t + (k + 1) <= biL
                 PROVE  w % TwoTo[t + (k + 1)] = w % TwoTo[t]
    OBVIOUS
  <2> DEFINE h == t + k
  <2>2. h \in Nat /\ t + (k + 1) = h + 1 /\ h + 1 \in 1..biL /\ h + 1 > t /\ h <= biL
    BY <1>1, <1>4, <2>1
  <2>3. w % TwoTo[h] = w % TwoTo[t]
    BY <1>7, <2>2
  <2> HIDE DEF h
  <2>4. Bit(w, h + 1) # 1
    <3>1. h + 1 \notin S
      BY <1>3, <1>4, <2>2
    <3> QED BY <2>2, <3>1
  <2>5. /\ w % TwoTo[h + 1] = Bit(w, h + 1) * TwoTo[h] + (w % TwoTo[h])
        /\ Bit(w, h + 1) \in {0, 1} /\ TwoTo[h] \in Nat \ {0}
    BY <1>5, <2>2
  <2>6. 0 * TwoTo[h] = 0 /\ 0 + (w % TwoTo[h]) = w % TwoTo[h]
    BY <1>1, <2>5
  <2> QED BY <2>2, <2>3, <2>4, <2>5, <2>6
<1>8. w % TwoTo[biL] = w % TwoTo[t]
  <2>1. Nat \subseteq R
    <3> HIDE DEF R
    <3> QED BY <1>6, <1>7, Induction
  <2> DEFINE k == biL - t
  <2>2. k \in Nat /\ t + k = biL /\ t + k <= biL
    BY <1>1, <1>4
  <2> HIDE DEF k
  <2>3. k \in R
    BY <2>1, <2>2
  <2> QED BY <2>2, <2>3
<1>9. w < TwoTo[t]
  <2>1. w % TwoTo[biL] = w
    <3> DEFINE P == TwoTo[biL]
    <3>1. P \in Nat \ {0} /\ w \in Nat /\ w < P
      BY <1>1, BaseIsBig
    <3> HIDE DEF P
    <3>2. w % P = w
      BY <3>1
    <3> QED BY <3>2 DEF P
  <2>2. TwoTo[t] \in Nat \ {0}
    BY <1>4, TwoToAt
  <2>3. w % TwoTo[t] < TwoTo[t]
    BY <1>1, <2>2
  <2> QED BY <1>8, <2>1, <2>3
<1>10. ASSUME t # 0 PROVE w >= TwoTo[t - 1]
  <2> DEFINE h == t - 1
  <2>1. h \in Nat /\ h + 1 = t /\ Bit(w, t) = 1
    BY <1>1, <1>3, <1>4, <1>10
  <2> HIDE DEF h
  <2> DEFINE P == TwoTo[h]  e == w \div P
  <2>2. P \in Nat \ {0} /\ e \in Nat /\ e % 2 = 1
    BY <1>5, <2>1
  <2>3. w = P * e + (w % P) /\ w % P \in 0..(P - 1)
    <3> HIDE DEF P
    <3> QED BY <1>1, <2>2, QuotientRemainder
  <2> HIDE DEF P, e
  <2>4. e >= 1
    BY <2>2
  <2>5. P * e >= P /\ P * e \in Nat
    BY <2>2, <2>4
  <2>6. w >= P
    BY <1>1, <2>2, <2>3, <2>5
  <2> QED BY <2>6 DEF P, h
<1> QED BY <1>4, <1>9, <1>10 DEF t

LEMMA MsbIs ==
  ASSUME NEW X \in Mpis
  PROVE  /\ msb(X) \in Nat /\ Magnitude(X.p) < TwoTo[msb(X)]
         /\ msb(X) # 0 => Magnitude(X.p) >= TwoTo[msb(X) - 1]
         /\ msb(X) <= Len(X.p) * biL
<1> DEFINE p == X.p
<1>1. p \in Seq(Limbs) /\ Len(p) \in Nat /\ biL \in Nat \ {0}
  BY MpiIs, BaseIsPositive
<1>2. CASE p = <<>>
  <2>1. msb(X) = 0 /\ Magnitude(p) = 0 /\ Len(p) = 0
    BY <1>2, NoLimbs DEF msb
  <2>2. TwoTo[0] = 1 /\ 0 * biL = 0
    BY <1>1, TwoToIsDefined
  <2> QED BY <2>1, <2>2
<1>3. CASE p # <<>>
  <2> DEFINE k == Kept(p)
             l == k - 1
             w == p[k]
             t == Top(w)
             M == Magnitude(p)
             y == l * biL
             P == Places[l]
             e == Worth(p)[l]
  <2>1. msb(X) = l * biL + t
    BY <1>3 DEF msb, Top
  <2>2. /\ k \in Nat \ {0} /\ k <= Len(p) /\ Worth(p)[k] = M
        /\ k = IF Used(p) = 0 THEN 1 ELSE Used(p)
    BY <1>1, <1>3, KeptIs
  <2> HIDE DEF k
  <2>3. l \in Nat /\ l + 1 = k /\ k \in 1..Len(p)
    BY <1>1, <2>2
  <2>4. w \in Limbs /\ Limb(p, k) = w
    <3>1. \A g \in 1..Len(p) : p[g] \in Limbs /\ Limb(p, g) = p[g]
      BY <1>1 DEF Limb
    <3> QED BY <2>3, <3>1
  <2> HIDE DEF p, w, l
  <2>5. /\ t \in 0..biL /\ t \in Nat /\ w < TwoTo[t]
        /\ t # 0 => w >= TwoTo[t - 1]
    BY <2>4, TopIs
  <2> HIDE DEF t
  <2>6. M = e + w * P /\ e \in 0..(P - 1) /\ e \in Nat /\ P \in Nat \ {0}
    <3>1. /\ Worth(p)[l + 1] = Worth(p)[l] + Limb(p, l + 1) * Places[l]
          /\ Worth(p)[l] \in 0..(Places[l] - 1) /\ Worth(p)[l] \in Nat
      BY <1>1, <2>3, WorthAt
    <3>2. P \in Nat \ {0}
      BY <2>3, PlacesAre
    <3> QED BY <2>2, <2>3, <2>4, <3>1, <3>2
  <2>7. y \in Nat /\ P = TwoTo[y]
    BY <2>3, PlacesAreTwos
  <2>8. w \in Nat
    BY <2>4, LimbsAreSmall
  <2> HIDE DEF M, y, P, e
  <2>9. M < TwoTo[y + t]
    <3> DEFINE Q == TwoTo[t]
    <3>1. TwoTo[y + t] = P * Q /\ Q \in Nat \ {0}
      BY <2>5, <2>7, TwoToSum, TwoToAt
    <3>2. w <= Q - 1 /\ Q - 1 \in Nat /\ P \in Nat /\ P <= P
      BY <2>5, <2>6, <2>8, <3>1
    <3> HIDE DEF Q
    <3>3. w * P <= (Q - 1) * P /\ w * P \in Nat
      BY <2>8, <3>2, ProductsGrow
    <3>4. (Q - 1) * P = P * Q - P /\ P * Q \in Nat
      BY <2>6, <3>1
    <3> QED BY <2>6, <3>1, <3>3, <3>4
  <2>10. ASSUME y + t # 0 PROVE M >= TwoTo[(y + t) - 1]
    <3>1. t # 0
      <4>1. SUFFICES ASSUME t = 0 PROVE FALSE
        OBVIOUS
      <4>2. w < 1
        BY <2>5, <4>1, TwoToIsDefined
      <4>3. w = 0
        BY <2>8, <4>2
      <4>4. Used(p) = 0
        <5>1. Used(p) \in Nat /\ (Used(p) # 0 => p[Used(p)] \in 1..(Base - 1))
          BY <1>1, UsedIs
        <5> QED BY <2>2, <4>3, <5>1 DEF w
      <4>5. l = 0
        BY <2>2, <4>4 DEF l
      <4>6. y = 0
        BY <1>1, <4>5 DEF y
      <4> QED BY <2>10, <4>1, <4>6
    <3> DEFINE h == t - 1  Q == TwoTo[h]
    <3>2. h \in Nat /\ (y + t) - 1 = y + h
      BY <2>5, <2>7, <3>1
    <3>3. w >= Q
      BY <2>5, <3>1
    <3> HIDE DEF h
    <3>4. TwoTo[y + h] = P * Q /\ Q \in Nat \ {0}
      BY <2>7, <3>2, TwoToSum, TwoToAt
    <3> HIDE DEF Q
    <3>5. Q * P <= w * P /\ w * P \in Nat
      <4>1. Q \in Nat /\ P \in Nat /\ Q <= w /\ P <= P
        BY <2>6, <2>8, <3>3, <3>4
      <4> QED BY <2>8, <4>1, ProductsGrow
    <3>6. P * Q = Q * P /\ Q * P \in Nat
      BY <2>6, <3>4
    <3>7. M >= TwoTo[y + h]
      BY <2>6, <3>4, <3>5, <3>6
    <3> QED BY <3>2, <3>7
  <2>11. y + t <= Len(p) * biL
    <3> DEFINE n == Len(p)
    <3>1. n \in Nat /\ l + 1 <= n /\ l + 1 \in Nat /\ biL \in Nat /\ biL <= biL
      BY <1>1, <2>3
    <3> HIDE DEF n
    <3>2. (l + 1) * biL <= n * biL /\ n * biL \in Nat
      BY <3>1, ProductsGrow
    <3>3. (l + 1) * biL = y + biL
      BY <1>1, <2>3 DEF y
    <3> QED BY <2>5, <2>7, <3>1, <3>2, <3>3 DEF n
  <2> QED BY <2>1, <2>5, <2>7, <2>9, <2>10, <2>11 DEF M, y, p
<1> QED BY <1>2, <1>3

----------------------------------------------------------------------------
(* Shifting to the left. *)

LEMMA QuotientUp ==
  ASSUME NEW n \in Nat, NEW b \in Nat \ {0}
  PROVE  /\ (n + b - 1) \div b \in Nat
         /\ ((n + b - 1) \div b) * b >= n
         /\ ((n + b - 1) \div b) * b < n + b
<1> DEFINE x == n + b - 1
           q == x \div b
           r == x % b
<1>1. x \in Int /\ x >= 0
  OBVIOUS
<1> HIDE DEF x
<1>2. q \in Int /\ q >= 0 /\ r \in 0..(b - 1) /\ x = b * q + r
  BY <1>1, QuotientRemainder
<1> HIDE DEF q, r
<1>3. b * q = q * b /\ q * b \in Int
  BY <1>2
<1>4. q * b >= n /\ q * b < n + b
  BY <1>2, <1>3 DEF x
<1> QED BY <1>2, <1>4 DEF q, x

LEMMA GrownIs ==
  ASSUME NEW X \in Mpis, NEW count \in Nat
  PROVE  /\ Grown(X, count) \in Mpis /\ Grown(X, count).s = X.s
         /\ Magnitude(Grown(X, count).p) = Magnitude(X.p)
         /\ Magnitude(X.p) * TwoTo[count] < Places[Len(Grown(X, count).p)]
<1> DEFINE m == msb(X)
           o == m + count
           n == BITS_TO_LIMBS(o)
           G == Grown(X, count)
           l == Len(X.p)
           L == Len(G.p)
           M == Magnitude(X.p)
<1>1. m \in Nat /\ M < TwoTo[m] /\ M \in Nat /\ l \in Nat /\ biL \in Nat \ {0}
  BY MsbIs, MpiIs, BaseIsPositive
<1> HIDE DEF m
<1>2. o \in Nat
  BY <1>1
<1> HIDE DEF o
<1>3. n \in Nat /\ n * biL >= o
  BY <1>1, <1>2, QuotientUp DEF BITS_TO_LIMBS
<1> HIDE DEF n
<1>4. G = IF l * biL < o THEN grow(X, n) ELSE X
  BY DEF Grown, m, o, n
<1>5. /\ grow(X, n) \in Mpis /\ grow(X, n).s = X.s
      /\ Len(grow(X, n).p) = IF l >= n THEN l ELSE n
      /\ Magnitude(grow(X, n).p) = M
  BY <1>3, GrowIs
<1> HIDE DEF G, l, M
<1>6. G \in Mpis /\ G.s = X.s /\ Magnitude(G.p) = M
  BY <1>4, <1>5 DEF M
<1>7. L * biL >= o /\ L \in Nat /\ L * biL \in Nat
  <2>1. CASE l * biL < o
    <3>1. L = (IF l >= n THEN l ELSE n)
      BY <1>4, <1>5, <2>1
    <3>2. L >= n /\ n <= L /\ L \in Nat /\ biL \in Nat /\ biL <= biL
      BY <1>1, <1>3, <3>1
    <3> HIDE DEF L
    <3>3. n * biL <= L * biL /\ n * biL \in Nat /\ L * biL \in Nat
      BY <1>3, <3>2, ProductsGrow
    <3> QED BY <1>2, <1>3, <3>2, <3>3
  <2>2. CASE ~(l * biL < o)
    <3>1. L = l
      BY <1>4, <2>2 DEF l
    <3>2. l * biL \in Nat
      BY <1>1
    <3> QED BY <1>1, <1>2, <2>2, <3>1, <3>2
  <2> QED BY <2>1, <2>2
<1> HIDE DEF L
<1>8. M * TwoTo[count] < Places[L]
  <2> DEFINE P == TwoTo[m]  Q == TwoTo[count]  b == L * biL
  <2>1. P \in Nat \ {0} /\ Q \in Nat \ {0} /\ TwoTo[m + count] = P * Q
    BY <1>1, TwoToAt, TwoToSum
  <2>2. TwoTo[o] = P * Q
    BY <2>1 DEF o
  <2>3. b \in Nat /\ o <= b
    BY <1>2, <1>7
  <2> HIDE DEF b
  <2>4. TwoTo[o] <= TwoTo[b] /\ TwoTo[o] \in Nat /\ TwoTo[b] \in Nat
    BY <1>2, <2>3, TwosGrow
  <2>5. Places[L] = TwoTo[b]
    BY <1>7, PlacesAreTwos DEF b
  <2>6. M < P /\ P \in Nat /\ Q \in Nat
    BY <1>1, <2>1
  <2> HIDE DEF P, Q
  <2>7. M * Q <= (P - 1) * Q /\ M * Q \in Nat
    <3>1. M <= P - 1 /\ P - 1 \in Nat /\ Q <= Q
      BY <1>1, <2>6
    <3> QED BY <1>1, <2>6, <3>1, ProductsGrow
  <2>8. (P - 1) * Q = P * Q - Q /\ P * Q \in Nat
    BY <2>6
  <2>9. M * Q < Places[L]
    BY <2>1, <2>2, <2>4, <2>5, <2>7, <2>8
  <2> QED BY <2>9 DEF Q
<1> QED BY <1>6, <1>8 DEF G, L, M

\* A limb multiplied by a divisor of the base: what stays and what leaves it.
LEMMA LimbTimes ==
  ASSUME NEW T \in Nat \ {0}, NEW U \in Nat \ {0}, Base = T * U, NEW w \in Limbs
  PROVE  /\ (w * T) % Base = (w % U) * T
         /\ w \div U \in 0..(T - 1)
         /\ w % U \in 0..(U - 1)
         /\ w * T = (w % U) * T + Base * (w \div U)
         /\ \A e \in 0..(T - 1) : (w % U) * T + e \in Limbs
<1> DEFINE q == w \div U  r == w % U
<1>1. w \in Nat /\ w < T * U /\ Base \in Nat \ {0} /\ T * U \in Nat
  BY LimbsAreSmall, BaseIsBig
<1>2. q \in Int /\ q >= 0 /\ r \in 0..(U - 1) /\ w = U * q + r
  <2>1. w \in Int /\ w >= 0 /\ U \in Nat \ {0}
    BY <1>1
  <2>2. /\ w \div U \in Int /\ w \div U >= 0 /\ w % U \in 0..(U - 1)
        /\ w = U * (w \div U) + (w % U)
    BY <2>1, QuotientRemainder
  <2> QED BY <2>2
<1> HIDE DEF q, r
<1>3. q < T
  <2>1. SUFFICES ASSUME q >= T PROVE FALSE
    BY <1>2
  <2>2. U * q >= U * T
    <3>1. U \in Nat /\ T \in Nat /\ q \in Nat /\ U <= U /\ T <= q
      BY <1>2, <2>1
    <3> QED BY <3>1, ProductsGrow
  <2>3. U * T = T * U /\ U * q \in Int
    BY <1>2
  <2> QED BY <1>1, <1>2, <2>2, <2>3
<1>4. w * T = r * T + Base * q
  <2>1. (U * q + r) * T = r * T + (T * U) * q
    BY <1>2
  <2> QED BY <1>2, <2>1
<1>5. r * T \in Nat /\ r * T <= Base - T
  <2>1. r \in Nat /\ r <= U - 1 /\ U - 1 \in Nat /\ T \in Nat /\ T <= T
    BY <1>2
  <2>2. r * T <= (U - 1) * T /\ r * T \in Nat
    BY <2>1, ProductsGrow
  <2>3. (U - 1) * T = T * U - T
    OBVIOUS
  <2> QED BY <2>2, <2>3
<1>6. (w * T) % Base = r * T
  <2> DEFINE e == r * T
  <2>1. e \in 0..(Base - 1)
    BY <1>1, <1>5
  <2> HIDE DEF e
  <2>2. (Base * q + e) % Base = e
    BY <1>1, <1>2, <2>1, QuotientUnique
  <2>3. Base * q \in Int
    BY <1>1, <1>2
  <2>4. w * T = Base * q + e
    BY <1>1, <1>4, <2>1, <2>3 DEF e
  <2> QED BY <2>2, <2>4 DEF e
<1>7. ASSUME NEW e \in 0..(T - 1) PROVE r * T + e \in Limbs
  <2>1. r * T + e \in Nat /\ r * T + e < Base
    BY <1>1, <1>5
  <2> QED BY <2>1, LimbsAreSmall
<1> QED BY <1>2, <1>3, <1>4, <1>6, <1>7 DEF q, r

LEMMA Counted ==
  ASSUME NEW count \in Nat
  PROVE  LET l == count \div biL
             t == count % biL
         IN /\ l \in Nat /\ t \in Nat /\ t < biL /\ count = l * biL + t
            /\ TwoTo[t] \in Nat \ {0} /\ TwoTo[biL - t] \in Nat \ {0}
            /\ Base = TwoTo[t] * TwoTo[biL - t]
            /\ TwoTo[count] = TwoTo[t] * Places[l]
            /\ Places[l] \in Nat \ {0}
<1> DEFINE l == count \div biL
           t == count % biL
           b == biL
           u == b - t
           y == l * b
<1>1. b \in Nat \ {0} /\ Base = TwoTo[b]
  BY BaseIsPositive
<1>2. l \in Int /\ l >= 0 /\ t \in 0..(b - 1) /\ count = b * l + t
  <2> HIDE DEF b
  <2>1. count \in Int /\ count >= 0
    OBVIOUS
  <2>2. /\ count \div b \in Int /\ count \div b >= 0 /\ count % b \in 0..(b - 1)
        /\ count = b * (count \div b) + (count % b)
    BY <1>1, <2>1, QuotientRemainder
  <2> QED BY <2>2 DEF b
<1> HIDE DEF l, t, b
<1>3. l \in Nat /\ t \in Nat /\ t < b /\ u \in Nat /\ b = t + u /\ y \in Nat
      /\ count = y + t
  <2>1. b * l = l * b /\ l * b \in Int /\ l * b >= 0
    BY <1>1, <1>2
  <2> QED BY <1>1, <1>2, <2>1
<1> HIDE DEF u
<1>4. TwoTo[t + u] = TwoTo[t] * TwoTo[u] /\ TwoTo[t] \in Nat \ {0} /\ TwoTo[u] \in Nat \ {0}
  BY <1>3, TwoToSum, TwoToAt
<1>5. Places[l] = TwoTo[y] /\ Places[l] \in Nat \ {0}
  BY <1>3, PlacesAreTwos, PlacesAre DEF b
<1> HIDE DEF y
<1>6. TwoTo[y + t] = TwoTo[y] * TwoTo[t]
  BY <1>3, TwoToSum
<1>7. TwoTo[count] = TwoTo[t] * Places[l]
  BY <1>3, <1>4, <1>5, <1>6
<1>8. Base = TwoTo[t] * TwoTo[u]
  BY <1>1, <1>3, <1>4
<1> QED BY <1>3, <1>4, <1>5, <1>7, <1>8 DEF l, t, b, u, y

\* The sum of numbers that are all multiplied by b.
LEMMA SumsScale ==
  ASSUME NEW base \in Nat \ {0}, NEW g \in Numbers, NEW h \in Numbers, NEW b \in Int,
         NEW n \in Nat, \A i \in Nat : h[i] = b * g[i]
  PROVE  Sums(base, h)[n] = b * Sums(base, g)[n]
<1> DEFINE f == [i \in Nat |-> 0]
<1>1. f \in Numbers /\ \A i \in Nat : f[i] = 0
  BY DEF Numbers
<1> HIDE DEF f
<1>2. AddsTo(h, f, b, g, n)
  <2>1. \A i \in Nat : g[i] \in Int
    BY DEF Numbers
  <2>2. \A i \in Nat : b * g[i] \in Int
    BY <2>1
  <2>3. ASSUME NEW i \in 1..n PROVE h[i] = f[i] + b * g[i]
    <3>1. i \in Nat
      OBVIOUS
    <3>2. h[i] = b * g[i] /\ f[i] = 0 /\ b * g[i] \in Int
      BY <1>1, <2>2, <3>1
    <3> DEFINE v == b * g[i]
    <3>3. v \in Int /\ h[i] = v
      BY <3>2
    <3> HIDE DEF v
    <3>4. h[i] = f[i] + v
      BY <3>2, <3>3
    <3> QED BY <3>4 DEF v
  <2> QED BY <2>3 DEF AddsTo
<1>3. Sums(base, h)[n] = Sums(base, f)[n] + b * Sums(base, g)[n]
  BY <1>1, <1>2, SumsAdd
<1>4. Sums(base, f)[n] = 0
  <2>1. \A i \in 1..n : f[i] = 0
    BY <1>1
  <2> QED BY <1>1, <2>1, SumOfZeros
<1> DEFINE v == Sums(base, g)[n]
<1>5. v \in Int
  BY SumAt
<1> HIDE DEF v
<1>6. b * v \in Int
  BY <1>5
<1> QED BY <1>3, <1>4, <1>6 DEF v

\* The limbs of a number, l places higher.
Higher(p, l) == [i \in Nat |-> IF i > l THEN Limb(p, i - l) ELSE 0]

LEMMA HigherIs ==
  ASSUME NEW p \in Seq(Limbs), NEW l \in Nat, NEW L \in Nat,
         Magnitude(p) * Places[l] < Places[L]
  PROVE  /\ Higher(p, l) \in Numbers /\ \A i \in Nat : Higher(p, l)[i] \in Limbs
         /\ Sums(Base, Higher(p, l))[L] = Places[l] * Magnitude(p)
<1> DEFINE f == Higher(p, l)
           M == Magnitude(p)
           P == Places[l]
<1>1. \A i \in Nat : f[i] = IF i > l THEN Limb(p, i - l) ELSE 0
  BY DEF Higher
<1>2. \A i \in Nat : f[i] \in Limbs
  <2>1. \A i \in Nat : Limb(p, i) \in Limbs
    BY LimbIsSmall
  <2>2. 0 \in Limbs
    BY LimbsAreSmall, BaseIsBig
  <2>3. \A i \in Nat : i > l => i - l \in Nat
    OBVIOUS
  <2> HIDE DEF f
  <2> QED BY <1>1, <2>1, <2>2, <2>3
<1>3. f \in Numbers
  <2>1. \A i \in Nat : f[i] \in Int
    <3>1. \A x \in Limbs : x \in Int
      BY LimbsAreSmall
    <3> QED BY <1>2, <3>1
  <2> QED BY <2>1 DEF Higher, Numbers
<1> HIDE DEF f
<1>4. M \in Nat /\ P \in Nat \ {0} /\ M * P < Places[L] /\ Places[L] \in Nat
      /\ Base \in Nat \ {0}
  BY MagnitudeIsNatural, PlacesAre, BaseIsBig
<1>5. CASE l <= L
  <2> DEFINE m == L - l  g == LimbsFrom(p, 0)
  <2>1. m \in Nat /\ l + m = L
    BY <1>5
  <2>2. g \in Numbers /\ \A i \in Nat : g[i] = Limb(p, 0 + i)
    BY LimbsFromAre
  <2>3. \A i \in 1..m : g[i] = f[l + i]
    <3> SUFFICES ASSUME NEW i \in 1..m PROVE g[i] = f[l + i]
      OBVIOUS
    <3>1. i \in Nat /\ 0 + i = i /\ l + i \in Nat /\ l + i > l /\ (l + i) - l = i
      BY <2>1
    <3> HIDE DEF g
    <3> QED BY <1>1, <2>2, <3>1
  <2> HIDE DEF m, g
  <2>4. Sums(Base, f)[l + m] = Sums(Base, f)[l] + PowersOf(Base)[l] * Sums(Base, g)[m]
    BY <1>3, <1>4, <2>1, <2>2, <2>3, SumsSplit
  <2>5. Sums(Base, f)[l] = 0
    <3>1. \A i \in 1..l : f[i] = 0
      BY <1>1
    <3> QED BY <1>3, <1>4, <3>1, SumOfZeros
  <2>6. M < Places[m]
    <3> DEFINE Q == Places[m]
    <3>1. Places[l + m] = P * Q /\ Q \in Nat \ {0}
      BY <2>1, PlacesMultiply, PlacesAre
    <3>2. M * P < P * Q
      BY <1>4, <2>1, <3>1
    <3> HIDE DEF M, P, Q
    <3>3. SUFFICES ASSUME M >= Q PROVE FALSE
      BY <1>4, <3>1 DEF Q
    <3>4. Q * P <= M * P
      <4>1. Q \in Nat /\ P \in Nat /\ Q <= M /\ P <= P
        BY <1>4, <3>1, <3>3
      <4> QED BY <1>4, <4>1, ProductsGrow
    <3>5. Q * P = P * Q /\ P * Q \in Nat /\ M * P \in Nat
      BY <1>4, <3>1
    <3> QED BY <3>2, <3>4, <3>5
  <2>7. Sums(Base, g)[m] = M
    BY <2>1, <2>6, WorthOfLow DEF g, Worth
  <2>8. PowersOf(Base)[l] = P
    BY DEF Places
  <2>9. P * M \in Nat
    BY <1>4
  <2> QED BY <1>2, <1>3, <2>1, <2>4, <2>5, <2>7, <2>8, <2>9 DEF f
<1>6. CASE ~(l <= L)
  <2>1. L <= l
    BY <1>6
  <2>2. Places[L] <= P
    BY <2>1, PlacesGrow
  <2>3. M = 0
    <3>1. SUFFICES ASSUME M >= 1 PROVE FALSE
      BY <1>4
    <3> HIDE DEF M, P
    <3>2. 1 * P <= M * P /\ M * P \in Nat
      <4>1. P \in Nat /\ 1 \in Nat /\ P <= P
        BY <1>4
      <4> QED BY <1>4, <3>1, <4>1, ProductsGrow
    <3> QED BY <1>4, <2>2, <3>2
  <2>4. Sums(Base, f)[L] = 0
    <3>1. \A i \in 1..L : f[i] = 0
      BY <1>1, <2>1
    <3> QED BY <1>3, <1>4, <3>1, SumOfZeros
  <2>5. P * 0 = 0
    BY <1>4
  <2> QED BY <1>2, <1>3, <2>3, <2>4, <2>5 DEF f
<1> QED BY <1>5, <1>6

LEMMA ShiftLeftIs ==
  ASSUME NEW X \in Mpis, NEW count \in Nat
  PROVE  /\ shift_l(X, count) \in Mpis
         /\ Value(shift_l(X, count)) = Value(X) * TwoTo[count]
<1> DEFINE v0 == count \div biL
           t1 == count % biL
           G == Grown(X, count)
           p == G.p
           L == Len(p)
           T == TwoTo[t1]
           U == TwoTo[biL - t1]
           P == Places[v0]
           M == Magnitude(p)
           Moved(i) == IF i > v0 THEN p[i - v0] ELSE 0
           row == [i \in 1..L |-> ((Moved(i) * T) % Base) + (Moved(i - 1) \div U)]
           r == SubSeq(row, 1, L)
           C == shift_l(X, count)
           f == Higher(p, v0)
           term == [i \in Nat |-> T * f[i]]
           c == [i \in Nat |-> f[i] \div U]
<1>1. /\ v0 \in Nat /\ T \in Nat \ {0} /\ U \in Nat \ {0} /\ Base = T * U
      /\ TwoTo[count] = T * P /\ P \in Nat \ {0}
  BY Counted
<1>2. /\ G \in Mpis /\ G.s = X.s /\ M = Magnitude(X.p)
      /\ Magnitude(X.p) * TwoTo[count] < Places[L]
  BY GrownIs
<1>3. p \in Seq(Limbs) /\ L \in Nat /\ M \in Nat /\ \A i \in 1..L : Limb(p, i) = p[i]
  <2>1. p \in Seq(Limbs) /\ L \in Nat /\ M \in Nat
    BY <1>2, MpiIs
  <2> QED BY <2>1 DEF Limb
<1>4. C = [G EXCEPT !.p = r]
  BY DEF shift_l, LimbSeq
<1>5. \A i \in 1..L : row[i] = ((Moved(i) * T) % Base) + (Moved(i - 1) \div U)
  OBVIOUS
<1>6. row = [i \in 1..L |-> row[i]]
  OBVIOUS
<1> HIDE DEF v0, G, T, U, P, C, row
<1>7. M * P < Places[L] /\ M * (T * P) < Places[L]
  <2>1. M * (T * P) < Places[L]
    BY <1>1, <1>2
  <2>2. Places[L] \in Nat
    BY <1>3, PlacesAre
  <2> DEFINE Q == Places[L]
  <2>3. M * P <= M * (T * P) /\ M * P \in Nat /\ M * (T * P) \in Nat
    <3>1. P <= T * P /\ P \in Nat /\ T * P \in Nat /\ M <= M
      <4>1. 1 \in Nat /\ T \in Nat /\ P \in Nat /\ 1 <= T /\ P <= P
        BY <1>1
      <4>2. 1 * P <= T * P /\ T * P \in Nat
        BY <4>1, ProductsGrow
      <4> QED BY <1>1, <1>3, <4>2
    <3> DEFINE g == T * P
    <3> HIDE DEF g, M
    <3>2. M * P <= M * g /\ M * P \in Nat /\ M * g \in Nat
      BY <1>3, <3>1, ProductsGrow DEF g
    <3> QED BY <3>2 DEF g
  <2> QED BY <2>1, <2>2, <2>3
<1> HIDE DEF M, L, p
<1>8. /\ f \in Numbers /\ \A i \in Nat : f[i] \in Limbs
      /\ Sums(Base, f)[L] = P * M
  BY <1>1, <1>3, <1>7, HigherIs DEF P, M
<1>9. \A i \in Nat : f[i] = IF i > v0 THEN Limb(p, i - v0) ELSE 0
  BY DEF Higher
<1>10. \A i \in 0..L : Moved(i) = f[i]
  <2> SUFFICES ASSUME NEW i \in 0..L PROVE Moved(i) = f[i]
    OBVIOUS
  <2>1. CASE i > v0
    <3>1. i - v0 \in 1..L /\ i \in Nat
      BY <1>1, <1>3, <2>1
    <3> QED BY <1>3, <1>9, <2>1, <3>1
  <2>2. CASE ~(i > v0)
    BY <1>3, <1>9, <2>2
  <2> QED BY <2>1, <2>2
<1> HIDE DEF f
<1>11. \A i \in Nat : term[i] = T * f[i] /\ c[i] = f[i] \div U
  OBVIOUS
<1>12. ASSUME NEW i \in Nat
       PROVE  /\ term[i] \in Int /\ c[i] \in 0..(T - 1) /\ c[i] \in Int
              /\ f[i] * T = ((f[i] * T) % Base) + Base * c[i] /\ f[i] * T = term[i]
              /\ \A e \in 0..(T - 1) : ((f[i] * T) % Base) + e \in Limbs
              /\ (f[i] * T) % Base \in Int
  <2> DEFINE w == f[i]
  <2>1. w \in Limbs /\ w \in Nat
    BY <1>8, LimbsAreSmall
  <2>2. c[i] = w \div U /\ term[i] = T * w
    BY <1>11
  <2> HIDE DEF w, term, c
  <2>3. /\ (w * T) % Base = (w % U) * T
        /\ w \div U \in 0..(T - 1)
        /\ w * T = (w % U) * T + Base * (w \div U)
        /\ \A e \in 0..(T - 1) : (w % U) * T + e \in Limbs
    BY <1>1, <2>1, LimbTimes
  <2>4. w * T = T * w /\ T * w \in Int /\ w * T \in Int
    BY <1>1, <2>1
  <2>5. (w * T) % Base \in Int
    <3> DEFINE g == w * T
    <3>1. g \in Int /\ Base \in Nat \ {0}
      BY <2>4, BaseIsBig
    <3> HIDE DEF g
    <3>2. g % Base \in 0..(Base - 1)
      BY <3>1, QuotientRemainder
    <3>3. g % Base \in Int
      BY <3>1, <3>2
    <3> QED BY <3>3 DEF g
  <2> QED BY <1>1, <2>2, <2>3, <2>4, <2>5 DEF w
<1>13. term \in Numbers
  <2>1. \A i \in Nat : term[i] \in Int
    BY <1>12
  <2>2. term = [i \in Nat |-> term[i]]
    OBVIOUS
  <2> HIDE DEF term
  <2>3. term \in [Nat -> Int]
    BY <2>1, <2>2
  <2> QED BY <2>3 DEF Numbers
<1>14. c[0] = 0
  <2>1. f[0] = 0
    BY <1>1, <1>9
  <2>2. 0 \div U = 0
    BY <1>1
  <2> QED BY <1>11, <2>1, <2>2
<1> HIDE DEF term, c
<1>15. ASSUME NEW i \in 1..L
       PROVE row[i] \in Limbs /\ row[i] + Base * c[i] = term[i] + c[i - 1]
  <2> DEFINE h == i - 1
  <2>1. i \in Nat /\ i \in 0..L /\ h \in Nat /\ h \in 0..L
    BY <1>3
  <2>2. row[i] = ((Moved(i) * T) % Base) + (Moved(h) \div U)
    BY <1>5
  <2> HIDE DEF h
  <2>3. Moved(i) = f[i] /\ Moved(h) = f[h]
    BY <1>10, <2>1
  <2> HIDE DEF Moved
  <2>4. c[h] = f[h] \div U
    BY <1>11, <2>1
  <2>5. row[i] = ((f[i] * T) % Base) + c[h]
    BY <2>2, <2>3, <2>4
  <2>6. c[h] \in 0..(T - 1) /\ c[h] \in Int
    BY <1>12, <2>1
  <2> DEFINE x == (f[i] * T) % Base  y == c[h]  z == c[i]  b == Base
  <2>7. /\ x \in Int /\ y \in Int /\ z \in Int /\ b \in Int
        /\ x + b * z = term[i] /\ row[i] = x + y /\ x + y \in Limbs
    <3>1. b \in Int
      BY BaseIsBig
    <3>2. x \in Int /\ z \in Int /\ f[i] * T = x + b * z /\ f[i] * T = term[i]
      BY <1>12, <2>1
    <3>3. \A e \in 0..(T - 1) : x + e \in Limbs
      BY <1>12, <2>1
    <3>4. row[i] = x + y /\ y \in 0..(T - 1) /\ y \in Int
      BY <2>5, <2>6
    <3> HIDE DEF x, y, z, b
    <3> QED BY <3>1, <3>2, <3>3, <3>4
  <2> HIDE DEF x, y, z, b
  <2>8. row[i] + b * z = term[i] + y
    BY <2>7
  <2> QED BY <2>7, <2>8 DEF y, z, b, h
<1>16. r = row /\ r \in Seq(Limbs) /\ Len(r) = L /\ \A i \in 1..L : Limb(r, i) = row[i]
  BY <1>3, <1>6, <1>15, TableOfLimbs
<1> HIDE DEF r
<1> DEFINE o == 0
<1>17. Carried(r, o, L, c, term)
  <2>1. \A k \in 0..L : c[k] \in Int
    BY <1>12
  <2>2. \A k \in 1..L : Limb(r, o + k) + Base * c[k] = term[k] + c[k - 1]
    BY <1>15, <1>16
  <2> QED BY <1>14, <2>1, <2>2 DEF Carried
<1>18. Part(r, o)[L] + Places[L] * c[L] = Sums(Base, term)[L]
  <2>1. L \in 0..L /\ o \in Nat
    BY <1>3
  <2> HIDE DEF o
  <2> QED BY <1>3, <1>13, <1>16, <1>17, <2>1, CarriedSum
<1>19. Sums(Base, term)[L] = T * (P * M)
  <2>1. Base \in Nat \ {0} /\ T \in Int
    BY <1>1, BaseIsBig
  <2>2. \A i \in Nat : term[i] = T * f[i]
    BY <1>11
  <2>3. Sums(Base, term)[L] = T * Sums(Base, f)[L]
    BY <1>3, <1>8, <1>13, <2>1, <2>2, SumsScale
  <2> QED BY <1>8, <2>3
<1>20. Part(r, o)[L] = Magnitude(r) /\ Magnitude(r) \in Nat
  <2>1. Part(r, 0) = Worth(r) /\ Magnitude(r) = Worth(r)[L] /\ Magnitude(r) \in Nat
    BY <1>1, <1>16, PartOf, MagnitudeIsWorth, MagnitudeIsNatural
  <2> QED BY <2>1
<1>21. c[L] \in Nat /\ Places[L] \in Nat \ {0}
  <2>1. c[L] \in 0..(T - 1)
    BY <1>3, <1>12
  <2> QED BY <1>1, <1>3, <2>1, PlacesAre
<1>22. Magnitude(r) = M * (T * P)
  <2> DEFINE x == Magnitude(r)  Q == Places[L]  e == c[L]  y == M * (T * P)
  <2>1. T * (P * M) = y /\ y \in Nat
    BY <1>1, <1>3 DEF M
  <2>2. x + Q * e = y /\ y < Q /\ x \in Nat /\ Q \in Nat \ {0} /\ e \in Nat
    BY <1>7, <1>18, <1>19, <1>20, <1>21, <2>1
  <2> HIDE DEF x, Q, e, y
  <2>3. e = 0
    <3>1. SUFFICES ASSUME e >= 1 PROVE FALSE
      BY <2>2
    <3>2. Q <= Q * e /\ Q * e \in Nat
      BY <2>2, <3>1
    <3> QED BY <2>1, <2>2, <3>2
  <2>4. Q * 0 = 0
    BY <2>2
  <2>5. x = y
    BY <2>1, <2>2, <2>3, <2>4
  <2> QED BY <2>5 DEF x, y
<1>23. C \in Mpis /\ C.s = X.s /\ C.p = r
  <2>1. [G EXCEPT !.p = r] \in Mpis /\ [G EXCEPT !.p = r].s = G.s /\ [G EXCEPT !.p = r].p = r
    BY <1>2, <1>16, MpiWithLimbs
  <2> QED BY <1>2, <1>4, <2>1
<1>24. Value(C) = X.s * (M * TwoTo[count]) /\ Value(X) = X.s * M
  BY <1>1, <1>2, <1>22, <1>23 DEF Value
<1> DEFINE s == X.s  w == TwoTo[count]
<1>25. s \in Int /\ w \in Int /\ M \in Int
  BY <1>1, <1>3, MpiIs, TwoToAt
<1>26. s * (M * w) = (s * M) * w
  <2> HIDE DEF s, w
  <2> QED BY <1>25
<1> QED BY <1>23, <1>24, <1>26 DEF C

----------------------------------------------------------------------------
(* Shifting to the right. *)

\* The limbs from a place on are the quotient by what a one in it is worth.
LEMMA HighLimbs ==
  ASSUME NEW p \in Seq(Limbs), NEW l \in Nat, NEW n \in Nat, l + n >= Len(p)
  PROVE  Part(p, l)[n] = Magnitude(p) \div Places[l]
<1> DEFINE m == l + n  P == Places[l]  q == Part(p, l)[n]  e == Worth(p)[l]
<1>1. Worth(p)[l + n] = e + P * q /\ q \in Nat /\ e \in 0..(P - 1) /\ P \in Nat \ {0}
  <2>1. Worth(p)[l + n] = e + P * q /\ q \in Nat
    BY PartOf
  <2>2. e \in 0..(P - 1)
    BY WorthAt
  <2>3. P \in Nat \ {0}
    BY PlacesAre
  <2> QED BY <2>1, <2>2, <2>3
<1>2. Magnitude(p) = Worth(p)[l + n]
  <2>1. m \in Nat /\ m >= Len(p)
    OBVIOUS
  <2> HIDE DEF m
  <2>2. Magnitude(p) = Worth(p)[m]
    BY <2>1, MagnitudeIs
  <2> QED BY <2>2 DEF m
<1> HIDE DEF P, q, e
<1>3. (P * q + e) \div P = q
  <2>1. q \in Int
    BY <1>1
  <2> QED BY <1>1, <2>1, QuotientUnique
<1>4. P * q + e = e + P * q
  BY <1>1
<1> QED BY <1>1, <1>2, <1>3, <1>4 DEF P, q

LEMMA ShiftRightIs ==
  ASSUME NEW X \in Mpis, NEW count \in Nat
  PROVE  /\ shift_r(X, count) \in Mpis
         /\ Magnitude(shift_r(X, count).p) = Magnitude(X.p) \div TwoTo[count]
<1> DEFINE v0 == count \div biL
           v1 == count % biL
           p == X.p
           L == Len(p)
           T == TwoTo[v1]
           U == TwoTo[biL - v1]
           P == Places[v0]
           M == Magnitude(p)
           Moved(i) == Limb(p, i + v0)
           row == [i \in 1..L |-> (Moved(i) \div T) + ((Moved(i + 1) * U) % Base)]
           r == SubSeq(row, 1, L)
           C == shift_r(X, count)
           f == LimbsFrom(p, v0)
           none == v0 > L \/ (v0 = L /\ v1 > 0)
           out == [i \in Nat |-> -(f[i + 1] % T)]
<1>1. /\ v0 \in Nat /\ T \in Nat \ {0} /\ U \in Nat \ {0} /\ Base = U * T
      /\ TwoTo[count] = T * P /\ P \in Nat \ {0}
  <2>1. /\ v0 \in Nat /\ T \in Nat \ {0} /\ U \in Nat \ {0} /\ Base = T * U
        /\ TwoTo[count] = T * P /\ P \in Nat \ {0}
    BY Counted
  <2> HIDE DEF T, U, P, v0
  <2> QED BY <2>1
<1>2. p \in Seq(Limbs) /\ L \in Nat /\ M \in Nat
  BY MpiIs
<1>3. C = IF none THEN lset(X, 0) ELSE [X EXCEPT !.p = r]
  BY DEF shift_r, LimbSeq
<1>4. \A i \in 1..L : row[i] = (Moved(i) \div T) + ((Moved(i + 1) * U) % Base)
  OBVIOUS
<1>5. row = [i \in 1..L |-> row[i]]
  OBVIOUS
<1>6. v0 > L \/ v0 = L => none \/ v0 = L
  OBVIOUS
<1>7. M < Places[L]
  BY <1>2, MagnitudeIs
<1>8. M \div (P * T) = M \div TwoTo[count]
  <2>1. P * T = T * P
    BY <1>1
  <2> QED BY <1>1, <2>1
<1>9. CASE none
  <2>1. L <= v0 /\ C = lset(X, 0)
    BY <1>1, <1>2, <1>3, <1>9
  <2> DEFINE z == 0
  <2>2. IsDigit(z) /\ Size(z) = 0
    BY ZeroIsDigit
  <2> HIDE DEF z
  <2>3. lset(X, z) \in Mpis /\ Magnitude(lset(X, z).p) = Size(z)
    BY <2>2, LsetIs
  <2>4. C \in Mpis /\ Magnitude(C.p) = 0
    BY <2>1, <2>2, <2>3 DEF z
  <2>5. M < TwoTo[count]
    <3> HIDE DEF v0, T, L, C
    <3>1. Places[L] <= P
      BY <1>1, <1>2, <2>1, PlacesGrow
    <3>2. P <= T * P /\ T * P \in Nat
      <4> HIDE DEF P
      <4>1. 1 \in Nat /\ T \in Nat /\ P \in Nat /\ 1 <= T /\ P <= P
        BY <1>1
      <4>2. 1 * P <= T * P /\ T * P \in Nat
        BY <4>1, ProductsGrow
      <4> QED BY <1>1, <4>2
    <3>3. Places[L] \in Nat
      BY <1>2, PlacesAre
    <3> QED BY <1>1, <1>2, <1>7, <3>1, <3>2, <3>3
  <2>6. M \div TwoTo[count] = 0
    <3> DEFINE Q == TwoTo[count]
    <3>1. Q \in Nat \ {0}
      BY TwoToAt
    <3> HIDE DEF M, Q
    <3> QED BY <1>2, <2>5, <3>1 DEF Q
  <2> QED BY <2>4, <2>6
<1>10. CASE ~none
  <2> HIDE DEF none
  <2>0. C = [X EXCEPT !.p = r]
    BY <1>3, <1>10
  <2> HIDE DEF v0, p, L, T, U, P, M, C, row
  <2>1. /\ f \in Numbers
        /\ \A i \in Nat : f[i] = Limb(p, v0 + i)
    BY <1>1, <1>2, LimbsFromAre
  <2>2. \A i \in Nat : f[i] = Moved(i) /\ f[i] \in Limbs
    <3> SUFFICES ASSUME NEW i \in Nat PROVE f[i] = Limb(p, i + v0) /\ f[i] \in Limbs
      OBVIOUS
    <3>1. v0 + i = i + v0
      BY <1>1
    <3>2. Limb(p, i + v0) \in Limbs
      BY <1>2, LimbIsSmall
    <3> QED BY <2>1, <3>1, <3>2
  <2> HIDE DEF f
  <2>3. ASSUME NEW i \in Nat
        PROVE  /\ (f[i] * U) % Base = (f[i] % T) * U
               /\ f[i] % T \in 0..(T - 1) /\ f[i] \div T \in 0..(U - 1)
               /\ f[i] = T * (f[i] \div T) + (f[i] % T)
               /\ \A e \in 0..(U - 1) : (f[i] % T) * U + e \in Limbs
    <3> DEFINE w == f[i]
    <3>1. w \in Limbs /\ w \in Nat
      BY <2>2, LimbsAreSmall
    <3> HIDE DEF w
    <3>2. /\ (w * U) % Base = (w % T) * U
          /\ w \div T \in 0..(U - 1)
          /\ w % T \in 0..(T - 1)
          /\ \A e \in 0..(U - 1) : (w % T) * U + e \in Limbs
      BY <1>1, <3>1, LimbTimes
    <3>3. w = T * (w \div T) + (w % T)
      <4>1. w \in Int
        BY <3>1
      <4> QED BY <1>1, <4>1, QuotientRemainder
    <3> QED BY <3>2, <3>3 DEF w
  <2>4. \A i \in Nat : out[i] = -(f[i + 1] % T)
    OBVIOUS
  <2>5. out \in Numbers
    <3> DEFINE e(i) == -(f[i + 1] % T)
    <3>1. \A i \in Nat : e(i) \in Int
      <4> SUFFICES ASSUME NEW i \in Nat PROVE -(f[i + 1] % T) \in Int
        OBVIOUS
      <4>1. i + 1 \in Nat
        OBVIOUS
      <4>2. f[i + 1] % T \in 0..(T - 1)
        BY <2>3, <4>1
      <4>3. f[i + 1] % T \in Int
        BY <1>1, <4>2
      <4> QED BY <4>3
    <3>2. out = [i \in Nat |-> e(i)]
      OBVIOUS
    <3> HIDE DEF e, out
    <3>3. out \in [Nat -> Int]
      BY <3>1, <3>2
    <3> QED BY <3>3 DEF Numbers
  <2> HIDE DEF out
  <2>6. ASSUME NEW i \in 1..L
        PROVE  row[i] \in Limbs /\ T * row[i] + Base * out[i] = f[i] + out[i - 1]
    <3> DEFINE h == i + 1  g == i - 1
    <3>1. i \in Nat /\ h \in Nat /\ g \in Nat /\ g + 1 = i
      BY <1>2
    <3>2. row[i] = (Moved(i) \div T) + ((Moved(h) * U) % Base)
      BY <1>4
    <3>3. out[g] = -(f[i] % T)
      BY <2>4, <3>1
    <3>4. out[i] = -(f[h] % T)
      BY <2>4, <3>1
    <3> HIDE DEF h, g
    <3>5. Moved(i) = f[i] /\ Moved(h) = f[h]
      BY <2>2, <3>1
    <3> HIDE DEF Moved
    <3> DEFINE x == f[i] \div T  y == f[h] % T  z == f[i] % T
    <3>6. /\ f[i] = T * x + z /\ x \in 0..(U - 1) /\ z \in 0..(T - 1)
      BY <2>3, <3>1
    <3>7. /\ (f[h] * U) % Base = y * U /\ y \in 0..(T - 1)
          /\ \A e \in 0..(U - 1) : y * U + e \in Limbs
      BY <2>3, <3>1
    <3>8. row[i] = x + y * U /\ out[g] = -z /\ out[i] = -y
      BY <3>2, <3>3, <3>4, <3>5, <3>7
    <3> HIDE DEF x, y, z
    <3>9. x \in Int /\ y \in Int /\ z \in Int /\ y * U \in Int
      BY <1>1, <3>6, <3>7
    <3>10. x + y * U = y * U + x
      BY <3>9
    <3>11. row[i] \in Limbs
      BY <3>6, <3>7, <3>8, <3>10
    <3>12. T * (x + y * U) + (U * T) * (-y) = (T * x + z) + (-z)
      BY <1>1, <3>9
    <3> QED BY <1>1, <3>6, <3>8, <3>11, <3>12 DEF g
  <2>7. r = row /\ r \in Seq(Limbs) /\ Len(r) = L /\ \A i \in 1..L : Limb(r, i) = row[i]
    BY <1>2, <1>5, <2>6, TableOfLimbs
  <2> HIDE DEF r
  <2> DEFINE o == 0  R == LimbsFrom(r, o)  term == [i \in Nat |-> T * R[i]]
  <2>8. R \in Numbers /\ \A i \in Nat : R[i] = Limb(r, 0 + i) /\ R[i] \in 0..(Base - 1)
    BY <2>7, LimbsFromAre
  <2> HIDE DEF R
  <2>9. \A i \in Nat : term[i] = T * R[i]
    OBVIOUS
  <2>10. term \in Numbers
    <3>1. \A i \in Nat : R[i] \in Int
      BY <2>8 DEF Numbers
    <3>2. \A i \in Nat : T * R[i] \in Int
      BY <1>1, <3>1
    <3>3. term \in [Nat -> Int]
      BY <3>2
    <3> QED BY <3>3 DEF Numbers
  <2> HIDE DEF term
  <2>11. \A i \in 1..L : term[i] + Base * out[i] = f[i] + out[i - 1]
    <3> SUFFICES ASSUME NEW i \in 1..L PROVE term[i] + Base * out[i] = f[i] + out[i - 1]
      OBVIOUS
    <3>1. i \in Nat /\ 0 + i = i
      OBVIOUS
    <3>2. R[i] = row[i]
      BY <2>7, <2>8, <3>1
    <3>3. term[i] = T * row[i]
      BY <2>9, <3>1, <3>2
    <3> QED BY <2>6, <3>3
  <2>12. /\ Sums(Base, term)[L] + PowersOf(Base)[L] * out[L] = Sums(Base, f)[L] + out[0]
    <3>1. Base \in Nat \ {0}
      BY BaseIsBig
    <3> QED BY <1>2, <2>1, <2>5, <2>10, <2>11, <3>1, SumsCarry
  <2>13. out[L] = 0
    <3> DEFINE h == L + 1
    <3>1. h \in Nat /\ v0 + h > L
      BY <1>1, <1>2
    <3>2. f[h] = Limb(p, v0 + h)
      BY <2>1, <3>1
    <3>3. Limb(p, v0 + h) = 0
      <4>1. v0 + h \notin DOMAIN p
        BY <1>2, <3>1 DEF L
      <4> QED BY <4>1 DEF Limb
    <3>4. 0 % T = 0
      BY <1>1
    <3>5. out[L] = -(f[h] % T)
      BY <1>2, <2>4
    <3> HIDE DEF h
    <3> QED BY <3>2, <3>3, <3>4, <3>5
  <2> DEFINE e == f[1] % T  m == Magnitude(r)  q == Part(p, v0)[L]
  <2>14. out[0] = -e /\ e \in 0..(T - 1)
    <3>1. 0 \in Nat /\ 0 + 1 = 1 /\ 1 \in Nat
      OBVIOUS
    <3> QED BY <2>3, <2>4, <3>1
  <2>15. Sums(Base, term)[L] = T * m /\ m \in Nat
    <3>1. Base \in Nat \ {0} /\ T \in Int
      BY <1>1, BaseIsBig
    <3>2. \A i \in Nat : term[i] = T * R[i]
      BY <2>9
    <3>3. Sums(Base, term)[L] = T * Sums(Base, R)[L]
      BY <1>2, <2>8, <2>10, <3>1, <3>2, SumsScale, ZenonT(30)
    <3>4. Magnitude(r) = Worth(r)[L] /\ Magnitude(r) \in Nat
      BY <2>7, MagnitudeIsWorth, MagnitudeIsNatural
    <3> QED BY <3>3, <3>4 DEF R, Worth
  <2>16. q = Sums(Base, f)[L] /\ q \in Nat
    <3>1. Part(p, v0)[L] \in Nat
      BY <1>1, <1>2, PartOf
    <3> QED BY <3>1 DEF f, Part
  <2>17. PowersOf(Base)[L] \in Nat
    <3>1. Base \in Nat \ {0}
      BY BaseIsBig
    <3>2. PowersOf(Base)[L] \in Nat \ {0}
      BY <1>2, <3>1, PowerAt
    <3> QED BY <3>2
  <2>18. q = T * m + e
    <3> DEFINE Q == PowersOf(Base)[L]
    <3>1. T * m + Q * 0 = q + (-e)
      BY <2>12, <2>13, <2>14, <2>15, <2>16
    <3> HIDE DEF Q, q, e, m
    <3>2. Q * 0 = 0
      BY <2>17 DEF Q
    <3>3. T * m \in Int /\ e \in Int
      BY <1>1, <2>14, <2>15
    <3> QED BY <2>16, <3>1, <3>2, <3>3
  <2>19. q \div T = m
    <3> HIDE DEF q, e, m
    <3>1. m \in Int
      BY <2>15
    <3>2. (T * m + e) \div T = m
      BY <1>1, <2>14, <3>1, QuotientUnique
    <3> QED BY <2>18, <3>2
  <2>20. q = M \div P
    <3>1. v0 + L >= Len(p)
      BY <1>1, <1>2 DEF L
    <3> QED BY <1>1, <1>2, <3>1, HighLimbs DEF M, P
  <2>21. m = M \div (P * T)
    <3> HIDE DEF m, q
    <3>1. (M \div P) \div T = M \div (P * T)
      <4>1. M \in Int
        BY <1>2
      <4> QED BY <1>1, <4>1, QuotientOfQuotient
    <3> QED BY <2>19, <2>20, <3>1
  <2>22. C \in Mpis /\ C.p = r
    BY <2>0, <2>7, MpiWithLimbs
  <2> QED BY <1>8, <2>21, <2>22 DEF C, M, p
<1> QED BY <1>9, <1>10

----------------------------------------------------------------------------
(* Shrinking. *)

LEMMA ShrinkIs ==
  ASSUME NEW X \in Mpis, NEW n \in Nat
  PROVE  shrink(X, n) \in Mpis /\ Value(shrink(X, n)) = Value(X)
<1> DEFINE p == X.p
           k == Kept(p)
           m == Max({k, n})
           q == SubSeq(p, 1, m)
           C == shrink(X, n)
<1>1. p \in Seq(Limbs) /\ Len(p) \in Nat
  BY MpiIs
<1>2. C = IF Len(p) <= n THEN grow(X, n) ELSE [X EXCEPT !.p = q]
  BY DEF shrink
<1> HIDE DEF C
<1>3. CASE Len(p) <= n
  <2>1. C = grow(X, n)
    BY <1>2, <1>3
  <2>2. /\ grow(X, n) \in Mpis /\ grow(X, n).s = X.s
        /\ Magnitude(grow(X, n).p) = Magnitude(X.p)
    BY GrowIs
  <2> QED BY <2>1, <2>2 DEF C, Value
<1>4. CASE ~(Len(p) <= n)
  <2>1. p # <<>>
    BY <1>4, NoLimbs
  <2>2. k \in Nat /\ k <= Len(p) /\ k >= Used(p)
    BY <1>1, <2>1, KeptIs
  <2> HIDE DEF k
  <2>3. m = IF k >= n THEN k ELSE n
    BY <2>2, MaxOfTwo
  <2>4. m \in Nat /\ m <= Len(p) /\ m >= Used(p)
    <3>1. Used(p) \in Nat
      BY <1>1, UsedIs
    <3> QED BY <1>1, <1>4, <2>2, <2>3, <3>1
  <2> HIDE DEF m, p
  <2> DEFINE z == 0
  <2>5. z \in Nat /\ z + m <= Len(p) /\ z + m = m /\ z + 1 = 1
    BY <2>4
  <2> HIDE DEF z
  <2>6. /\ SubSeq(p, z + 1, z + m) \in Seq(Limbs)
        /\ Magnitude(SubSeq(p, z + 1, z + m)) = Part(p, z)[m]
    BY <1>1, <2>4, <2>5, MagnitudeOfPiece
  <2>7. Part(p, 0) = Worth(p)
    BY <1>1, <2>4, PartOf
  <2>8. Worth(p)[m] = Magnitude(p)
    <3>1. Used(p) \in Nat /\ Magnitude(p) < Places[Used(p)] /\ Magnitude(p) \in Nat
      BY <1>1, UsedIs, MagnitudeOfUsed
    <3>2. Places[Used(p)] <= Places[m] /\ Places[Used(p)] \in Nat /\ Places[m] \in Nat
      BY <2>4, <3>1, PlacesGrow, PlacesAre
    <3>3. Magnitude(p) < Places[m]
      BY <3>1, <3>2
    <3> QED BY <1>1, <2>4, <3>3, WorthOfLow
  <2>9. q \in Seq(Limbs) /\ Magnitude(q) = Magnitude(p)
    BY <2>5, <2>6, <2>7, <2>8 DEF z
  <2> HIDE DEF q
  <2>10. C = [X EXCEPT !.p = q]
    BY <1>2, <1>4
  <2>11. C \in Mpis /\ C.s = X.s /\ C.p = q
    BY <2>9, <2>10, MpiWithLimbs
  <2> QED BY <2>9, <2>11 DEF C, Value, p
<1> QED BY <1>3, <1>4
----------------------------------------------------------------------------
(* Single bits. *)

LEMMA GetBitIs ==
  ASSUME NEW X \in Mpis, NEW pos \in Nat
  PROVE  get_bit(X, pos) = (Magnitude(X.p) \div TwoTo[pos]) % 2
<1> DEFINE p == X.p
           L == Len(p)
           l == pos \div biL
           j == pos % biL
           b == biL
           M == Magnitude(p)
<1>1. p \in Seq(Limbs) /\ L \in Nat /\ M \in Nat /\ b \in Nat \ {0}
  BY MpiIs, BaseIsPositive
<1>2. l \in Nat /\ j \in Nat /\ j < b /\ pos = l * b + j
  BY Counted
<1>3. get_bit(X, pos) = IF L * b <= pos THEN 0 ELSE Bit(p[l + 1], j + 1)
  BY DEF get_bit
<1> HIDE DEF p, L, l, j, M
<1>4. CASE L * b <= pos
  <2> DEFINE y == L * b  Q == TwoTo[pos]
  <2>1. Places[L] = TwoTo[y] /\ y \in Nat
    BY <1>1, PlacesAreTwos
  <2>2. M < Places[L]
    BY <1>1, MagnitudeIs DEF L, M
  <2>3. y <= pos
    BY <1>4
  <2> HIDE DEF y
  <2>4. TwoTo[y] <= Q /\ TwoTo[y] \in Nat /\ Q \in Nat \ {0}
    BY <2>1, <2>3, TwosGrow
  <2> HIDE DEF Q
  <2>5. M < Q
    BY <1>1, <2>1, <2>2, <2>4
  <2>6. M \div Q = 0
    BY <1>1, <2>4, <2>5
  <2> QED BY <1>3, <1>4, <2>6 DEF M, p, Q
<1>5. CASE ~(L * b <= pos)
  <2>1. l < L
    <3>1. SUFFICES ASSUME L <= l PROVE FALSE
      BY <1>1, <1>2
    <3> HIDE DEF b
    <3>2. L * b <= l * b /\ L * b \in Nat /\ l * b \in Nat
      <4>1. b \in Nat /\ b <= b
        BY <1>1
      <4> QED BY <1>1, <1>2, <3>1, <4>1, ProductsGrow
    <3> QED BY <1>2, <1>5, <3>2
  <2>2. l \in 0..(L - 1) /\ j \in 0..(b - 1)
    BY <1>1, <1>2, <2>1
  <2>3. (M \div TwoTo[l * b + j]) % 2 = Bit(p[l + 1], j + 1)
    BY <1>1, <2>2, BitOfMagnitude DEF L, M
  <2> QED BY <1>2, <1>3, <1>5, <2>3 DEF M, p
<1> QED BY <1>4, <1>5

LEMMA MagnitudeReplaced ==
  ASSUME NEW p \in Seq(Limbs), NEW l \in Nat, l < Len(p), NEW w \in Limbs
  PROVE  /\ [p EXCEPT ![l + 1] = w] \in Seq(Limbs)
         /\ Magnitude([p EXCEPT ![l + 1] = w]) = Magnitude(p) + (w - p[l + 1]) * Places[l]
<1> DEFINE e == l + 1  q == [p EXCEPT ![e] = w]  n == Len(p)  z == 0
<1>1. n \in Nat /\ e \in 1..n /\ e \in Nat /\ e <= n /\ z \in Nat
  OBVIOUS
<1> HIDE DEF e
<1>2. /\ q \in Seq(Limbs) /\ Len(q) = n
      /\ \A i \in Nat : Limb(q, i) = IF i = e THEN w ELSE Limb(p, i)
  BY <1>1, LimbReplaced
<1>3. Limb(p, e) = p[e] /\ p[e] \in Limbs
  BY <1>1 DEF Limb
<1> HIDE DEF q, n
<1>4. Worth(p)[l + 1] = Worth(p)[l] + Limb(p, l + 1) * Places[l]
  BY WorthAt
<1>5. Worth(q)[l + 1] = Worth(q)[l] + Limb(q, l + 1) * Places[l]
  BY <1>2, WorthAt
<1>6. Worth(p)[l] = Worth(q)[l]
  <2>1. Part(p, 0) = Worth(p) /\ Part(q, 0) = Worth(q)
    BY <1>2, PartOf
  <2>2. \A i \in 1..l : Limb(p, z + i) = Limb(q, z + i)
    <3> SUFFICES ASSUME NEW i \in 1..l PROVE Limb(p, z + i) = Limb(q, z + i)
      OBVIOUS
    <3>1. z + i = i /\ i \in Nat /\ i # e
      BY DEF e
    <3> QED BY <1>2, <3>1
  <2> HIDE DEF z
  <2>3. Part(p, z)[l] = Part(q, z)[l]
    <3>1. q \in Seq(Limbs) /\ z \in Nat /\ l \in Nat
      BY <1>1, <1>2
    <3> QED BY <2>2, <3>1, SameParts
  <2> QED BY <2>1, <2>3 DEF z
<1>7. Worth(p)[n] - Worth(p)[e] = Worth(q)[n] - Worth(q)[e]
      /\ Worth(p)[e] \in Nat /\ Worth(q)[e] \in Nat
      /\ Worth(p)[n] \in Nat /\ Worth(q)[n] \in Nat
  <2>1. \A k \in 1..n : k > e => Limb(p, k) = Limb(q, k)
    <3> SUFFICES ASSUME NEW k \in 1..n, k > e PROVE Limb(p, k) = Limb(q, k)
      OBVIOUS
    <3>1. k \in Nat /\ k # e
      BY <1>1
    <3> QED BY <1>2, <3>1
  <2> QED BY <1>1, <1>2, <2>1, SameLimbsAbove
<1>8. Magnitude(p) = Worth(p)[n] /\ Magnitude(q) = Worth(q)[n]
  BY <1>1, <1>2, MagnitudeIsWorth DEF n
<1> DEFINE a == Worth(p)[l]  x == p[e]  P == Places[l]
           u == Worth(p)[n]  v == Worth(q)[n]
<1>9. a \in Int /\ x \in Int /\ P \in Int /\ w \in Int /\ u \in Int /\ v \in Int
  <2>1. a \in Nat /\ P \in Nat
    BY WorthAt, PlacesAre
  <2>2. x \in Nat /\ w \in Nat
    BY <1>3, LimbsAreSmall
  <2>3. u \in Nat /\ v \in Nat
    BY <1>7
  <2> QED BY <2>1, <2>2, <2>3
<1>10. u - (a + x * P) = v - (a + w * P)
  <2>1. Limb(q, e) = w
    BY <1>1, <1>2
  <2>2. Worth(p)[e] = a + x * P
    BY <1>3, <1>4 DEF e
  <2>3. Worth(q)[e] = a + w * P
    BY <1>5, <1>6, <2>1 DEF e
  <2> QED BY <1>7, <2>2, <2>3
<1> HIDE DEF a, x, P, u, v
<1>11. v = u + (w - x) * P
  BY <1>9, <1>10
<1> QED BY <1>2, <1>8, <1>11 DEF u, v, x, P, e, q

LEMMA BitReplaced ==
  ASSUME NEW w \in Limbs, NEW j \in 0..(biL - 1), NEW val \in {0, 1}
  PROVE  /\ Bit(w, j + 1) \in {0, 1}
         /\ w + (val - Bit(w, j + 1)) * TwoTo[j] \in Limbs
<1> DEFINE b == biL
           P == TwoTo[j]
           u == b - (j + 1)
           c == TwoTo[u]
           e == w \div P
           r == w % P
           bit == Bit(w, j + 1)
<1>1. b \in Nat \ {0} /\ Base = TwoTo[b] /\ w \in Nat /\ w < Base
      /\ Base \in Nat \ {0} /\ j \in Nat
  BY BaseIsPositive, LimbsAreSmall
<1>2. u \in Nat /\ u + 1 \in Nat /\ j + (u + 1) = b
  BY <1>1
<1> HIDE DEF b, u
<1>3. TwoTo[j + (u + 1)] = P * TwoTo[u + 1] /\ TwoTo[u + 1] = 2 * c
      /\ c \in Nat \ {0} /\ P \in Nat \ {0}
  <2> DEFINE o == u + 1
  <2>1. o \in Nat /\ TwoTo[u + 1] = 2 * c /\ c \in Nat \ {0} /\ P \in Nat \ {0}
    BY <1>1, <1>2, TwoToAt
  <2> HIDE DEF o
  <2>2. TwoTo[j + o] = P * TwoTo[o]
    BY <1>1, <2>1, TwoToSum
  <2> QED BY <2>1, <2>2 DEF o
<1>4. Base = P * (2 * c)
  BY <1>1, <1>2, <1>3
<1>5. bit = e % 2
  <2>1. (j + 1) - 1 = j
    BY <1>1
  <2> QED BY <2>1 DEF Bit
<1> HIDE DEF P, c
<1>6. e \in Nat /\ r \in 0..(P - 1) /\ w = P * e + r
  <2>1. w \in Int /\ w >= 0
    BY <1>1
  <2>2. /\ w \div P \in Int /\ w \div P >= 0 /\ w % P \in 0..(P - 1)
        /\ w = P * (w \div P) + (w % P)
    BY <1>3, <2>1, QuotientRemainder
  <2> QED BY <2>2
<1> HIDE DEF e, r, bit
<1>7. bit \in {0, 1} /\ (bit = 1 => e >= 1)
  BY <1>5, <1>6
<1>8. e < 2 * c
  <2>1. SUFFICES ASSUME e >= 2 * c PROVE FALSE
    BY <1>3, <1>6
  <2>2. P * (2 * c) <= P * e /\ P * e \in Nat
    <3> DEFINE g == 2 * c
    <3>1. P \in Nat /\ g \in Nat /\ g <= e /\ P <= P
      BY <1>3, <2>1
    <3> HIDE DEF g
    <3>2. P * g <= P * e /\ P * e \in Nat
      BY <1>6, <3>1, ProductsGrow
    <3> QED BY <3>2 DEF g
  <2> QED BY <1>1, <1>3, <1>4, <1>6, <2>2
<1>9. P * e \in Nat /\ w >= P * e /\ w < P * e + P
  BY <1>3, <1>6
<1>10. CASE val = bit
  <2>1. (val - bit) * P = 0
    BY <1>3, <1>10
  <2>2. w + (val - bit) * P = w
    BY <1>1, <2>1
  <2> QED BY <1>7, <2>2 DEF bit, P
<1>11. CASE val = 1 /\ bit = 0
  <2>1. (val - bit) * P = P
    BY <1>3, <1>11
  <2>2. e + 2 <= 2 * c
    BY <1>3, <1>5, <1>6, <1>8, <1>11
  <2>3. P * (e + 2) <= P * (2 * c)
    <3> DEFINE g == 2 * c  h == e + 2
    <3>1. P \in Nat /\ g \in Nat /\ h \in Nat /\ h <= g /\ P <= P
      BY <1>3, <1>6, <2>2
    <3> HIDE DEF g, h
    <3>2. P * h <= P * g
      BY <3>1, ProductsGrow
    <3> QED BY <3>2 DEF g, h
  <2>4. P * (e + 2) = P * e + P + P
    BY <1>3, <1>6
  <2>5. w + P \in Nat /\ w + P < Base
    BY <1>1, <1>3, <1>4, <1>9, <2>3, <2>4
  <2>6. w + (val - bit) * P \in Limbs
    BY <2>1, <2>5, LimbsAreSmall
  <2> QED BY <1>7, <2>6 DEF bit, P
<1>12. CASE val = 0 /\ bit = 1
  <2>1. (val - bit) * P = -P
    BY <1>3, <1>12
  <2>2. P * e >= P
    <3>1. P \in Nat /\ 1 \in Nat /\ 1 <= e /\ P <= P
      BY <1>3, <1>7, <1>12
    <3>2. P * 1 <= P * e
      BY <1>6, <3>1, ProductsGrow
    <3>3. P * 1 = P
      BY <1>3
    <3> QED BY <3>2, <3>3
  <2>3. w + (-P) \in Nat /\ w + (-P) < Base
    BY <1>1, <1>3, <1>9, <2>2
  <2>4. w + (val - bit) * P \in Limbs
    BY <2>1, <2>3, LimbsAreSmall
  <2> QED BY <1>7, <2>4 DEF bit, P
<1> QED BY <1>7, <1>10, <1>11, <1>12

----------------------------------------------------------------------------
(* Setting a bit, and the lowest one. *)

LEMMA SetBitIs ==
  ASSUME NEW X \in Mpis, NEW pos \in Nat, NEW val \in 0..2
  PROVE  /\ set_bit(X, pos, val) \in Mpis
         /\ val # 2 => Magnitude(set_bit(X, pos, val).p) =
                         Magnitude(X.p) + (val - get_bit(X, pos)) * TwoTo[pos]
<1> DEFINE l == pos \div biL
           j == pos % biL
           e == l + 1
           G == grow(X, e)
           g == G.p
           limb == g[e]
           bit == Bit(limb, j + 1)
           w == limb + (val - bit) * TwoTo[j]
           q == [g EXCEPT ![e] = w]
           M == Magnitude(X.p)
           C == set_bit(X, pos, val)
           beyond == Len(X.p) * biL <= pos
<1>1. C = IF val \notin {0, 1} \/ (val = 0 /\ beyond) THEN X
          ELSE [G EXCEPT !.p[e] = w]
  BY DEF set_bit
<1> HIDE DEF C
<1>2. M \in Nat /\ X.p \in Seq(Limbs) /\ Len(X.p) \in Nat
  BY MpiIs
<1>3. CASE val \notin {0, 1}
  BY <1>1, <1>3 DEF C
<1>4. CASE val = 0 /\ beyond
  <2>1. get_bit(X, pos) = 0
    BY <1>4 DEF get_bit
  <2>2. TwoTo[pos] \in Nat
    BY TwoToAt
  <2>3. M = M + (val - get_bit(X, pos)) * TwoTo[pos]
    BY <1>2, <1>4, <2>1, <2>2
  <2> QED BY <1>1, <1>4, <2>3 DEF C, M
<1>5. CASE val \in {0, 1} /\ ~(val = 0 /\ beyond)
  <2>1. l \in Nat /\ j \in 0..(biL - 1) /\ pos = l * biL + j /\ e \in Nat \ {0}
        /\ TwoTo[pos] = TwoTo[j] * Places[l] /\ TwoTo[j] \in Nat /\ Places[l] \in Nat
    <3>1. /\ l \in Nat /\ j \in Nat /\ j < biL /\ pos = l * biL + j
          /\ TwoTo[pos] = TwoTo[j] * Places[l]
      BY Counted
    <3> HIDE DEF l, j
    <3>2. TwoTo[j] \in Nat /\ Places[l] \in Nat
      BY <3>1, TwoToAt, PlacesAre
    <3>3. biL \in Nat \ {0}
      BY BaseIsPositive
    <3>4. j \in 0..(biL - 1) /\ e \in Nat \ {0}
      BY <3>1, <3>3
    <3> QED BY <3>1, <3>2, <3>4
  <2> HIDE DEF l, j
  <2>2. /\ G \in Mpis /\ G.s = X.s
        /\ Len(g) = IF Len(X.p) >= e THEN Len(X.p) ELSE e
        /\ Magnitude(g) = M
    BY <2>1, GrowIs
  <2> HIDE DEF G
  <2>3. g \in Seq(Limbs) /\ Len(g) \in Nat
    BY <2>2, MpiIs
  <2>4. e <= Len(g) /\ l < Len(g) /\ l \in 0..(Len(g) - 1)
    BY <1>2, <2>1, <2>2, <2>3
  <2>5. limb \in Limbs /\ limb \in Nat
    BY <2>1, <2>3, <2>4, LimbsAreSmall
  <2>6. bit = get_bit(X, pos)
    <3>1. (Magnitude(g) \div TwoTo[l * biL + j]) % 2 = Bit(g[l + 1], j + 1)
      BY <2>1, <2>3, <2>4, BitOfMagnitude
    <3> QED BY <2>1, <2>2, <3>1, GetBitIs
  <2> HIDE DEF g
  <2>7. bit \in {0, 1} /\ w \in Limbs
    <3> HIDE DEF limb
    <3> QED BY <1>5, <2>1, <2>5, BitReplaced
  <2> HIDE DEF bit, w
  <2>8. /\ q \in Seq(Limbs)
        /\ Magnitude(q) = M + (w - limb) * Places[l]
    <3>1. g \in Seq(Limbs) /\ l \in Nat /\ l < Len(g) /\ w \in Limbs
      BY <2>1, <2>3, <2>4, <2>7
    <3>2. /\ [g EXCEPT ![l + 1] = w] \in Seq(Limbs)
          /\ Magnitude([g EXCEPT ![l + 1] = w])
               = Magnitude(g) + (w - g[l + 1]) * Places[l]
      BY <3>1, MagnitudeReplaced
    <3> QED BY <2>2, <3>2
  <2>9. (w - limb) * Places[l] = (val - get_bit(X, pos)) * TwoTo[pos]
    <3> DEFINE u == val - bit  t == TwoTo[j]  P == Places[l]
    <3>1. u \in Int /\ t \in Int /\ P \in Int /\ limb \in Int /\ w = limb + u * t
      BY <1>5, <2>1, <2>5, <2>7 DEF w
    <3>2. TwoTo[pos] = t * P /\ u = val - get_bit(X, pos)
      BY <2>1, <2>6
    <3> HIDE DEF u, t, P, limb
    <3>3. (w - limb) * P = u * (t * P)
      BY <3>1
    <3> QED BY <3>2, <3>3 DEF P
  <2> HIDE DEF limb, q
  <2>10. C = [G EXCEPT !.p = q]
    <3>1. C = [G EXCEPT !.p[e] = w]
      BY <1>1, <1>5
    <3> QED BY <3>1 DEF q, g
  <2>11. C \in Mpis /\ C.p = q
    BY <2>2, <2>8, <2>10, MpiWithLimbs
  <2> QED BY <2>8, <2>9, <2>11 DEF C
<1> QED BY <1>3, <1>4, <1>5

LEMMA LsbIs ==
  ASSUME NEW X \in Mpis, Magnitude(X.p) # 0
  PROVE  /\ Magnitude(X.p) % TwoTo[lsb(X)] = 0
         /\ (Magnitude(X.p) \div TwoTo[lsb(X)]) % 2 = 1
<1> DEFINE M == Magnitude(X.p)
           L == Len(X.p) * biL
           ones == {pos \in 0..(L - 1) : get_bit(X, pos) = 1}
           z == lsb(X)
<1>1. X.p \in Seq(Limbs) /\ Len(X.p) \in Nat /\ M \in Nat /\ L \in Nat /\ M < TwoTo[L]
  <2>1. X.p \in Seq(Limbs) /\ Len(X.p) \in Nat /\ M \in Nat
    BY MpiIs
  <2>2. L \in Nat /\ Places[Len(X.p)] = TwoTo[L]
    BY <2>1, PlacesAreTwos
  <2>3. M < Places[Len(X.p)]
    BY <2>1, MagnitudeIs
  <2> QED BY <2>1, <2>2, <2>3
<1> HIDE DEF L
<1>2. \A pos \in Nat : /\ get_bit(X, pos) = (M \div TwoTo[pos]) % 2
                       /\ get_bit(X, pos) = Digit(2, M, pos)
  <2> SUFFICES ASSUME NEW pos \in Nat
               PROVE  /\ get_bit(X, pos) = (M \div TwoTo[pos]) % 2
                      /\ get_bit(X, pos) = Digit(2, M, pos)
    OBVIOUS
  <2> QED BY GetBitIs DEF Digit, TwoTo
<1>3. 2 \in Nat \ {0} /\ 0 \in Nat /\ TwoTo = PowersOf(2)
  BY DEF TwoTo
<1>4. \A k \in Nat : Digit(2, 0, k) = 0
  <2> SUFFICES ASSUME NEW k \in Nat PROVE Digit(2, 0, k) = 0
    OBVIOUS
  <2>1. TwoTo[k] \in Nat \ {0}
    BY TwoToAt
  <2>2. 0 \div TwoTo[k] = 0 /\ 0 % 2 = 0
    BY <2>1
  <2> QED BY <2>2 DEF Digit, TwoTo
<1> HIDE DEF M
<1>5. \A n \in Nat : (\A k \in 0..(n - 1) : get_bit(X, k) # 1) => M % TwoTo[n] = 0
  <2> SUFFICES ASSUME NEW n \in Nat, \A k \in 0..(n - 1) : get_bit(X, k) # 1
               PROVE  M % TwoTo[n] = 0
    OBVIOUS
  <2>1. SameDigits(2, M, 0, n)
    <3>1. SUFFICES ASSUME NEW k \in 0..(n - 1) PROVE Digit(2, M, k) = Digit(2, 0, k)
      BY DEF SameDigits
    <3>2. k \in Nat /\ get_bit(X, k) # 1
      OBVIOUS
    <3>3. Digit(2, M, k) \in 0..(2 - 1)
      BY <1>1, <1>3, <3>2, DigitIsSmall
    <3> QED BY <1>2, <1>4, <3>2, <3>3
  <2>2. M % PowersOf(2)[n] = 0 % PowersOf(2)[n]
    BY <1>1, <1>3, <2>1, DigitsDetermine
  <2>3. TwoTo[n] \in Nat \ {0}
    BY TwoToAt
  <2> QED BY <1>3, <2>2, <2>3
<1>6. ones # {}
  <2>1. SUFFICES ASSUME ones = {} PROVE FALSE
    OBVIOUS
  <2>2. M % TwoTo[L] = 0
    BY <1>1, <1>5, <2>1
  <2>3. TwoTo[L] \in Nat \ {0}
    BY <1>1, TwoToAt
  <2> DEFINE Q == TwoTo[L]
  <2>4. M \in Nat /\ M < Q /\ Q \in Nat \ {0} /\ M % Q = 0
    BY <1>1, <2>2, <2>3
  <2> HIDE DEF Q
  <2>5. M = 0
    BY <2>4
  <2> QED BY <2>5 DEF M
<1>7. z \in ones /\ \A y \in ones : z <= y
  <2>1. z = Min(ones)
    BY <1>6 DEF lsb, L
  <2>2. \E x \in ones : \A y \in ones : x <= y
    <3>1. ones \subseteq Nat
      BY <1>1
    <3> HIDE DEF ones
    <3> QED BY <1>6, <3>1, LeastElement
  <2> QED BY <2>1, <2>2 DEF Min
<1> HIDE DEF z
<1>8. z \in Nat /\ get_bit(X, z) = 1 /\ \A k \in 0..(z - 1) : get_bit(X, k) # 1
  BY <1>1, <1>7
<1>9. M % TwoTo[z] = 0 /\ (M \div TwoTo[z]) % 2 = 1
  BY <1>2, <1>5, <1>8
<1> QED BY <1>9 DEF z, M

----------------------------------------------------------------------------
(* Choices without a branch. *)

LEMMA IsSetIs ==
  ASSUME NEW char \in 0..(TwoTo[CharBits] - 1)
  PROVE  IsSet(char) = IF char = 0 THEN 0 ELSE 1
<1> DEFINE u == CharBits - 1  s == TwoTo[u]  neg == (-char) % (2 * s)
<1>1. u \in Nat /\ u + 1 = CharBits
  BY LimbAssumption
<1> HIDE DEF u
<1>2. s \in Nat \ {0} /\ TwoTo[CharBits] = 2 * s
  BY <1>1, TwoToAt
<1>3. IsSet(char) = IF char >= s \/ neg >= s THEN 1 ELSE 0
  BY DEF IsSet, u
<1> HIDE DEF s
<1>4. char \in Nat /\ char < 2 * s
  BY <1>2
<1>5. CASE char = 0
  <2>1. neg = 0
    BY <1>2, <1>5
  <2> QED BY <1>2, <1>3, <1>5, <2>1
<1>6. CASE char # 0 /\ char < s
  <2> DEFINE y == 2 * s  r == y - char  q == -1
  <2>1. y \in Nat \ {0} /\ q \in Int /\ r \in 0..(y - 1) /\ y * q + r = -char
    BY <1>2, <1>4, <1>6
  <2>2. (y * q + r) % y = r
    <3> HIDE DEF y, r, q
    <3> QED BY <2>1, QuotientUnique
  <2>3. neg = r
    BY <2>1, <2>2
  <2>4. neg >= s
    BY <1>2, <1>4, <1>6, <2>3
  <2> QED BY <1>3, <1>6, <2>4
<1>7. CASE char # 0 /\ char >= s
  BY <1>3, <1>7
<1> QED BY <1>2, <1>4, <1>5, <1>6, <1>7

LEMMA MixedIs ==
  ASSUME NEW x \in Int, NEW y \in Int, NEW bit \in {0, 1}
  PROVE  Mixed(x, y, bit) = IF bit = 0 THEN x ELSE y
<1>1. CASE bit = 0
  <2>1. x * (1 - 0) + y * 0 = x
    OBVIOUS
  <2> QED BY <1>1, <2>1 DEF Mixed
<1>2. CASE bit = 1
  <2>1. x * (1 - 1) + y * 1 = y
    OBVIOUS
  <2> QED BY <1>2, <2>1 DEF Mixed
<1> QED BY <1>1, <1>2

LEMMA MixtureIs ==
  ASSUME NEW X \in Mpis, NEW Y \in Mpis, NEW bit \in {0, 1}, Len(X.p) >= Len(Y.p)
  PROVE  /\ Mixture(X, Y, bit) \in Mpis
         /\ Value(Mixture(X, Y, bit)) = IF bit = 0 THEN Value(X) ELSE Value(Y)
<1> DEFINE p == X.p
           o == Y.p
           n == Len(p)
           f == [i \in 1..n |-> Mixed(p[i], Limb(o, i), bit)]
           q == SubSeq(f, 1, n)
           sign == Mixed(X.s, Y.s, bit)
           Z == IF bit = 0 THEN X ELSE Y
           C == Mixture(X, Y, bit)
<1>1. /\ X.s \in {1, -1} /\ Y.s \in {1, -1} /\ X.s \in Int /\ Y.s \in Int
      /\ p \in Seq(Limbs) /\ o \in Seq(Limbs) /\ n \in Nat /\ Len(o) \in Nat
  BY MpiIs
<1>2. C = [s |-> sign, p |-> q]
  BY DEF Mixture, LimbSeq
<1>3. sign = Z.s /\ sign \in {1, -1}
  BY <1>1, MixedIs
<1> HIDE DEF C, sign, p, o, n
<1>4. \A i \in 1..n : f[i] = Limb(Z.p, i) /\ f[i] \in Limbs
  <2> SUFFICES ASSUME NEW i \in 1..n PROVE f[i] = Limb(Z.p, i) /\ f[i] \in Limbs
    OBVIOUS
  <2>1. p[i] = Limb(p, i)
    BY <1>1 DEF Limb, n
  <2>2. Limb(p, i) \in Limbs /\ Limb(o, i) \in Limbs
    BY <1>1, LimbIsSmall
  <2>3. p[i] \in Int /\ Limb(o, i) \in Int
    BY <2>1, <2>2, LimbsAreSmall
  <2>4. Mixed(p[i], Limb(o, i), bit) = IF bit = 0 THEN p[i] ELSE Limb(o, i)
    BY <2>3, MixedIs
  <2> QED BY <2>1, <2>2, <2>4 DEF p, o
<1>5. f = [i \in 1..n |-> f[i]]
  OBVIOUS
<1> HIDE DEF f
<1>6. q = f /\ f \in Seq(Limbs) /\ Len(f) = n /\ \A i \in 1..n : Limb(f, i) = f[i]
  BY <1>1, <1>4, <1>5, TableOfLimbs
<1> HIDE DEF q
<1>7. Z \in Mpis /\ Z.p \in Seq(Limbs) /\ Len(Z.p) <= n
  <2>1. Len(o) <= n /\ n <= n
    BY <1>1 DEF n, o, p
  <2> QED BY <1>1, <2>1 DEF n, o, p
<1> HIDE DEF Z
<1>8. Magnitude(f) = Magnitude(Z.p)
  <2>1. \A i \in Nat : Limb(f, i) = Limb(Z.p, i)
    <3> SUFFICES ASSUME NEW i \in Nat PROVE Limb(f, i) = Limb(Z.p, i)
      OBVIOUS
    <3>1. CASE i \in 1..n
      BY <1>4, <1>6, <3>1
    <3>2. CASE i \notin 1..n
      <4>1. Len(Z.p) \in Nat /\ DOMAIN f = 1..n /\ DOMAIN Z.p = 1..Len(Z.p)
        BY <1>6, <1>7, MpiIs
      <4>2. i \notin 1..Len(Z.p)
        BY <1>1, <1>7, <3>2, <4>1
      <4> QED BY <3>2, <4>1, <4>2 DEF Limb
    <3> QED BY <3>1, <3>2
  <2> QED BY <1>6, <1>7, <2>1, SameMagnitude
<1>9. C \in Mpis /\ C.s = Z.s /\ C.p = f
  BY <1>2, <1>3, <1>6, MpiOf
<1>10. Value(C) = Value(Z)
  BY <1>8, <1>9 DEF Value
<1> QED BY <1>9, <1>10 DEF C, Z

LEMMA CondAssignIs ==
  ASSUME NEW X \in Mpis, NEW Y \in Mpis, NEW char \in 0..(TwoTo[CharBits] - 1)
  PROVE  /\ safe_cond_assign(X, Y, char) \in Mpis
         /\ Value(safe_cond_assign(X, Y, char)) =
              IF char = 0 THEN Value(X) ELSE Value(Y)
<1> DEFINE G == grow(X, Len(Y.p))  bit == IsSet(char)
<1>1. Len(X.p) \in Nat /\ Len(Y.p) \in Nat
  BY MpiIs
<1>2. /\ G \in Mpis /\ G.s = X.s /\ Magnitude(G.p) = Magnitude(X.p)
      /\ Len(G.p) >= Len(Y.p)
  BY <1>1, GrowIs
<1>3. bit = (IF char = 0 THEN 0 ELSE 1) /\ bit \in {0, 1}
  BY IsSetIs
<1>4. Value(G) = Value(X)
  BY <1>2 DEF Value
<1> HIDE DEF G, bit
<1>5. /\ Mixture(G, Y, bit) \in Mpis
      /\ Value(Mixture(G, Y, bit)) = IF bit = 0 THEN Value(G) ELSE Value(Y)
  BY <1>2, <1>3, MixtureIs
<1>6. safe_cond_assign(X, Y, char) = Mixture(G, Y, bit)
  BY DEF safe_cond_assign, G, bit
<1> QED BY <1>3, <1>4, <1>5, <1>6

LEMMA CondSwapIs ==
  ASSUME NEW X \in Mpis, NEW Y \in Mpis, NEW char \in 0..(TwoTo[CharBits] - 1)
  PROVE  LET pair == safe_cond_swap(X, Y, char)
         IN /\ pair[1] \in Mpis /\ pair[2] \in Mpis
            /\ Value(pair[1]) = IF char = 0 THEN Value(X) ELSE Value(Y)
            /\ Value(pair[2]) = IF char = 0 THEN Value(Y) ELSE Value(X)
<1> DEFINE G == grow(X, Len(Y.p))  H == grow(Y, Len(X.p))  bit == IsSet(char)
           pair == safe_cond_swap(X, Y, char)
<1>1. Len(X.p) \in Nat /\ Len(Y.p) \in Nat
  BY MpiIs
<1>2. /\ G \in Mpis /\ G.s = X.s /\ Magnitude(G.p) = Magnitude(X.p)
      /\ Len(G.p) = IF Len(X.p) >= Len(Y.p) THEN Len(X.p) ELSE Len(Y.p)
  BY <1>1, GrowIs
<1>3. /\ H \in Mpis /\ H.s = Y.s /\ Magnitude(H.p) = Magnitude(Y.p)
      /\ Len(H.p) = IF Len(Y.p) >= Len(X.p) THEN Len(Y.p) ELSE Len(X.p)
  BY <1>1, GrowIs
<1>4. bit = (IF char = 0 THEN 0 ELSE 1) /\ bit \in {0, 1}
  BY IsSetIs
<1>5. Value(G) = Value(X) /\ Value(H) = Value(Y)
  BY <1>2, <1>3 DEF Value
<1> HIDE DEF G, H, bit
<1>6. Len(G.p) >= Len(H.p) /\ Len(H.p) >= Len(G.p)
  BY <1>1, <1>2, <1>3
<1>7. /\ Mixture(G, H, bit) \in Mpis /\ Mixture(H, G, bit) \in Mpis
      /\ Value(Mixture(G, H, bit)) = IF bit = 0 THEN Value(G) ELSE Value(H)
      /\ Value(Mixture(H, G, bit)) = IF bit = 0 THEN Value(H) ELSE Value(G)
  BY <1>2, <1>3, <1>4, <1>6, MixtureIs
<1>8. pair[1] = Mixture(G, H, bit) /\ pair[2] = Mixture(H, G, bit)
  BY DEF safe_cond_swap, G, H, bit
<1> QED BY <1>4, <1>5, <1>7, <1>8

----------------------------------------------------------------------------
(* Chars, which are the digits that a limb is made of. *)

CharBase == TwoTo[CharBits]

LEMMA CharsAre ==
  /\ CharBase \in Nat \ {0} /\ PowersOf(CharBase)[ciL] = Base
  /\ \A k \in Nat : /\ k * CharBits \in Nat
                    /\ PowersOf(CharBase)[k] = TwoTo[k * CharBits]
                    /\ PowersOf(CharBase)[k] \in Nat \ {0}
<1> DEFINE P == PowersOf(CharBase)
           S == {k \in Nat : P[k] = TwoTo[k * CharBits]}
<1>1. CharBits \in Nat \ {0} /\ ciL \in Nat \ {0} /\ biL = ciL * CharBits
  BY LimbAssumption DEF biL
<1>2. CharBase \in Nat \ {0}
  BY <1>1, TwoToAt DEF CharBase
<1>3. P[0] = 1 /\ \A k \in Nat : P[k] \in Nat \ {0} /\ P[k + 1] = CharBase * P[k]
  BY <1>2, PowersAreDefined
<1> HIDE DEF P
<1>4. 0 \in S
  <2>1. 0 * CharBits = 0 /\ TwoTo[0] = 1
    BY <1>1, TwoToIsDefined
  <2> QED BY <1>3, <2>1
<1>5. ASSUME NEW k \in Nat, k \in S PROVE k + 1 \in S
  <2> DEFINE y == k * CharBits
  <2>1. y \in Nat /\ (k + 1) * CharBits = CharBits + y
    BY <1>1
  <2>2. P[k + 1] = CharBase * P[k] /\ P[k] = TwoTo[y]
    BY <1>3, <1>5
  <2> HIDE DEF y
  <2>3. TwoTo[CharBits + y] = CharBase * TwoTo[y]
    BY <1>1, <2>1, TwoToSum DEF CharBase
  <2> QED BY <2>1, <2>2, <2>3
<1>6. Nat \subseteq S
  <2> HIDE DEF S
  <2> QED BY <1>4, <1>5, Induction
<1>7. \A k \in Nat : k * CharBits \in Nat
  BY <1>1
<1>8. P[ciL] = Base
  BY <1>1, <1>6, BaseIsPositive
<1> QED BY <1>2, <1>3, <1>6, <1>7, <1>8 DEF P

LEMMA SumOfDigits ==
  ASSUME NEW base \in Nat \ {0}, NEW v \in Nat, NEW f \in Numbers, NEW n \in Nat,
         \A i \in 1..n : f[i] = Digit(base, v, i - 1)
  PROVE  Sums(base, f)[n] = v % PowersOf(base)[n]
<1> DEFINE s == Sums(base, f)  P == PowersOf(base)
           S == {k \in Nat : s[k] = v % P[k]}
<1>1. 0 \in S
  <2>1. s[0] = 0 /\ P[0] = 1
    BY SumsAreDefined, PowersAreDefined
  <2> QED BY <2>1
<1>2. ASSUME NEW k \in 0..(n - 1), k \in S PROVE k + 1 \in S
  <2>1. k \in Nat /\ k + 1 \in 1..n /\ (k + 1) - 1 = k
    OBVIOUS
  <2>2. s[k + 1] = s[k] + f[k + 1] * P[k] /\ P[k] \in Nat
    BY <2>1, SumAt
  <2>3. v % P[k + 1] = Digit(base, v, k) * P[k] + (v % P[k]) /\ v % P[k] \in 0..(P[k] - 1)
    BY <2>1, DigitOfRemainder
  <2>4. f[k + 1] = Digit(base, v, k) /\ f[k + 1] \in Int
    BY <2>1 DEF Numbers
  <2> HIDE DEF s, P
  <2>5. s[k] = v % P[k]
    BY <1>2
  <2>6. s[k + 1] = v % P[k + 1]
    BY <2>2, <2>3, <2>4, <2>5
  <2> QED BY <2>1, <2>6
<1>3. \A k \in 0..n : k \in S
  <2> HIDE DEF S
  <2> QED BY <1>1, <1>2, BoundedInduction
<1>4. n \in S
  BY <1>3
<1> QED BY <1>4

LEMMA DigitOfLow ==
  ASSUME NEW base \in Nat \ {0}, NEW v \in Nat, NEW n \in Nat, NEW k \in Nat, k < n
  PROVE  Digit(base, v % PowersOf(base)[n], k) = Digit(base, v, k)
<1> DEFINE P == PowersOf(base)
           m == n - (k + 1)
           Q == P[m]
           T == P[k]
           N == P[n]
           q == v \div N
           r == v % N
<1>1. m \in Nat /\ n = k + (m + 1) /\ m + 1 \in Nat
  OBVIOUS
<1>2. Q \in Nat \ {0} /\ T \in Nat \ {0} /\ N = T * (base * Q)
  <2> HIDE DEF m
  <2>1. P[m + 1] = base * Q /\ Q \in Nat \ {0} /\ T \in Nat \ {0}
    BY <1>1, PowerAt
  <2> DEFINE o == m + 1
  <2>2. o \in Nat /\ n = k + o /\ P[o] = base * Q
    BY <1>1, <2>1
  <2> HIDE DEF o
  <2>3. P[k + o] = P[k] * P[o]
    BY <2>2, PowersAdd
  <2> QED BY <2>1, <2>2, <2>3
<1> HIDE DEF P, Q, T, N, m
<1>3. N \in Nat \ {0}
  BY <1>2
<1>4. q \in Int /\ r \in 0..(N - 1) /\ v = N * q + r
  <2>1. v \in Int
    OBVIOUS
  <2> QED BY <1>3, <2>1, QuotientRemainder
<1> HIDE DEF q, r
<1>5. v \div T = base * (Q * q) + r \div T /\ r \div T \in Int /\ Q * q \in Int
  <2> DEFINE u == base * (Q * q)
  <2>1. u \in Int /\ v = u * T + r /\ r \in Int /\ Q * q \in Int
    BY <1>2, <1>3, <1>4
  <2> HIDE DEF u
  <2>2. (u * T + r) \div T = u + r \div T
    BY <1>2, <2>1, QuotientOfSum
  <2>3. r \div T \in Int
    BY <1>2, <2>1
  <2> QED BY <2>1, <2>2, <2>3 DEF u
<1>6. (v \div T) % base = (r \div T) % base
  <2> DEFINE g == Q * q  h == r \div T
  <2>1. g \in Int /\ h \in Int /\ v \div T = base * g + h
    BY <1>5
  <2> HIDE DEF g, h
  <2>2. /\ h \div base \in Int /\ h % base \in 0..(base - 1)
        /\ h = base * (h \div base) + (h % base)
    BY <2>1, QuotientRemainder
  <2> DEFINE e == h \div base  d == h % base  y == g + e
  <2>3. y \in Int /\ base * g + h = base * y + d /\ d \in 0..(base - 1)
    <3>1. e \in Int /\ d \in Int /\ h = base * e + d
      BY <2>2
    <3> HIDE DEF e, d
    <3>2. base * g + (base * e + d) = base * (g + e) + d
      BY <2>1, <3>1
    <3> QED BY <2>1, <2>2, <3>1, <3>2 DEF d
  <2> HIDE DEF y, d
  <2>4. (base * y + d) % base = d
    BY <2>3, QuotientUnique
  <2> QED BY <2>1, <2>3, <2>4 DEF h, d
<1> QED BY <1>6 DEF Digit, T, P, r, N

LEMMA LimbIsRemainder ==
  ASSUME NEW p \in Seq(Limbs), NEW l \in Nat
  PROVE  /\ (Magnitude(p) \div Places[l]) % Base = Limb(p, l + 1)
         /\ Magnitude(p) \div Places[l] \in Nat
<1> DEFINE n == Len(p)  o == n + 1  w == Limb(p, l + 1)  e == Part(p, l + 1)[n]
<1>1. n \in Nat /\ o \in Nat /\ l + o >= n /\ l + 1 \in Nat
  BY LimbsAreNatural
<1>2. Part(p, l)[o] = Magnitude(p) \div Places[l]
  <2> HIDE DEF o
  <2> QED BY <1>1, HighLimbs DEF n
<1>3. Part(p, l)[n + 1] = w + Base * e
  BY <1>1, PartFirst
<1>4. w \in 0..(Base - 1) /\ e \in Nat /\ Base \in Nat \ {0}
  BY <1>1, LimbIsSmall, PartOf, BaseIsPositive
<1> HIDE DEF w, e
<1>5. (Base * e + w) % Base = w
  BY <1>4, QuotientUnique
<1>6. w + Base * e = Base * e + w /\ w + Base * e \in Nat
  BY <1>4
<1> QED BY <1>2, <1>3, <1>5, <1>6 DEF w, o

LEMMA CharOfNumber ==
  ASSUME NEW v \in Nat, NEW l \in Nat, NEW k \in Nat
  PROVE  /\ l * ciL + k \in Nat
         /\ Digit(CharBase, v \div Places[l], k) = Digit(CharBase, v, l * ciL + k)
<1> DEFINE y == l * ciL  P == PowersOf(CharBase)  C == CharBase
<1>1. y \in Nat /\ y * CharBits = l * biL /\ ciL \in Nat
  BY LimbAssumption DEF biL
<1> HIDE DEF y
<1>2. Places[l] = P[y] /\ P[y] \in Nat \ {0} /\ P[k] \in Nat \ {0} /\ C \in Nat \ {0}
  BY <1>1, PlacesAreTwos, CharsAre
<1>3. P[y + k] = P[y] * P[k]
  BY <1>1, <1>2, PowersAdd
<1>4. (v \div P[y]) \div P[k] = v \div (P[y] * P[k])
  <2> DEFINE a == P[y]  b == P[k]
  <2>1. a \in Nat \ {0} /\ b \in Nat \ {0} /\ v \in Int
    BY <1>2
  <2> HIDE DEF a, b
  <2>2. (v \div a) \div b = v \div (a * b)
    BY <2>1, QuotientOfQuotient
  <2> QED BY <2>2 DEF a, b
<1>5. y + k \in Nat
  BY <1>1
<1> QED BY <1>2, <1>3, <1>4, <1>5 DEF Digit, P, y

----------------------------------------------------------------------------
(* Reading chars. *)

CharsOf == 0..(CharBase - 1)

\* Char number j of a big-endian buffer is the one that stands j from its end.
CharFrom(buf, j) == IF j < Len(buf) THEN buf[Len(buf) - j] ELSE 0
CharsFrom(buf, at) ==
  [k \in Nat |-> IF k = 0 THEN 0 ELSE CharFrom(buf, at + (k - 1))]

LEMMA CharsFromAre ==
  ASSUME NEW buf \in Seq(CharsOf), NEW at \in Nat
  PROVE  /\ CharsFrom(buf, at) \in Numbers
         /\ \A k \in Nat : CharsFrom(buf, at)[k] \in 0..(CharBase - 1)
<1>1. CharBase \in Nat \ {0} /\ Len(buf) \in Nat
  BY CharsAre
<1>2. \A j \in Nat : CharFrom(buf, j) \in CharsOf
  <2> SUFFICES ASSUME NEW j \in Nat PROVE CharFrom(buf, j) \in CharsOf
    OBVIOUS
  <2>1. 0 \in CharsOf
    BY <1>1 DEF CharsOf
  <2>2. CASE j < Len(buf)
    <3>1. Len(buf) - j \in 1..Len(buf)
      BY <1>1, <2>2
    <3> QED BY <2>2, <3>1 DEF CharFrom
  <2> QED BY <2>1, <2>2 DEF CharFrom
<1>3. \A k \in Nat : CharsFrom(buf, at)[k] \in CharsOf
  <2> SUFFICES ASSUME NEW k \in Nat PROVE CharsFrom(buf, at)[k] \in CharsOf
    OBVIOUS
  <2>1. CASE k = 0
    BY <1>1, <2>1 DEF CharsFrom, CharsOf
  <2>2. CASE k # 0
    <3>1. at + (k - 1) \in Nat
      BY <2>2
    <3> QED BY <1>2, <2>2, <3>1 DEF CharsFrom
  <2> QED BY <2>1, <2>2
<1>4. CharsOf \subseteq Int
  BY <1>1 DEF CharsOf
<1>5. CharsFrom(buf, at) \in [Nat -> Int]
  BY <1>3, <1>4 DEF CharsFrom
<1> QED BY <1>3, <1>5 DEF Numbers, CharsOf

\* The partial sums of mpi_read_binary over the chars of the limb that starts
\* at char number at, where no char after the m-th is looked at.
BytesOf(f, buf, m, at) ==
  f = [k \in 0..ciL |->
         IF k = 0 THEN 0
         ELSE f[k - 1] + (IF at + (k - 1) < m
                          THEN buf[Len(buf) - (at + (k - 1))] ELSE 0)
                            * TwoTo[(k - 1) * CharBits]]

LEMMA BytesAre ==
  ASSUME NEW buf \in Seq(CharsOf), NEW at \in Nat, NEW m \in 0..Len(buf),
         \A i \in 1..(Len(buf) - m) : buf[i] = 0
  PROVE  (CHOOSE f : BytesOf(f, buf, m, at))[ciL]
           = Sums(CharBase, CharsFrom(buf, at))[ciL]
<1> DEFINE c == CharsFrom(buf, at)
           s == Sums(CharBase, c)
           f == [k \in 0..ciL |-> s[k]]
           Char(j) == IF j < m THEN buf[Len(buf) - j] ELSE 0
<1>1. CharBase \in Nat \ {0} /\ Len(buf) \in Nat /\ ciL \in Nat \ {0} /\ m \in Nat
  BY CharsAre, LimbAssumption
<1>2. \A j \in Nat : Char(j) = CharFrom(buf, j)
  <2> SUFFICES ASSUME NEW j \in Nat PROVE Char(j) = CharFrom(buf, j)
    OBVIOUS
  <2>1. CASE j < m
    BY <1>1, <2>1 DEF CharFrom
  <2>2. CASE ~(j < m) /\ j < Len(buf)
    <3>1. Len(buf) - j \in 1..(Len(buf) - m)
      BY <1>1, <2>2
    <3>2. buf[Len(buf) - j] = 0
      BY <3>1
    <3> QED BY <2>2, <3>2 DEF CharFrom
  <2>3. CASE ~(j < Len(buf))
    BY <1>1, <2>3 DEF CharFrom
  <2> QED BY <2>1, <2>2, <2>3
<1> HIDE DEF Char
<1>3. c \in Numbers
  BY CharsFromAre
<1>4. \A k \in 1..ciL : s[k] = s[k - 1] + Char(at + (k - 1)) * TwoTo[(k - 1) * CharBits]
  <2> SUFFICES ASSUME NEW k \in 1..ciL
               PROVE  s[k] = s[k - 1] + Char(at + (k - 1)) * TwoTo[(k - 1) * CharBits]
    OBVIOUS
  <2> DEFINE h == k - 1
  <2>1. h \in Nat /\ h + 1 = k /\ k # 0 /\ k \in Nat /\ at + h \in Nat
    OBVIOUS
  <2>2. Char(at + h) = c[k]
    <3>1. Char(at + h) = CharFrom(buf, at + h)
      BY <1>2, <2>1
    <3>2. c[k] = CharFrom(buf, at + h)
      BY <2>1 DEF CharsFrom
    <3> QED BY <3>1, <3>2
  <2> HIDE DEF h, c
  <2>3. s[h + 1] = s[h] + c[h + 1] * PowersOf(CharBase)[h]
    BY <1>1, <1>3, <2>1, SumAt
  <2>4. PowersOf(CharBase)[h] = TwoTo[h * CharBits]
    BY <2>1, CharsAre
  <2> HIDE DEF s
  <2>5. s[k] = s[h] + Char(at + h) * TwoTo[h * CharBits]
    BY <2>1, <2>2, <2>3, <2>4
  <2> QED BY <2>5 DEF h
<1>5. s[0] = 0
  BY <1>1, <1>3, SumsAreDefined
<1> HIDE DEF s
<1>6. \A k \in 0..ciL : f[k] = IF k = 0 THEN 0 ELSE f[k - 1]
                               + Char(at + (k - 1)) * TwoTo[(k - 1) * CharBits]
  <2> SUFFICES ASSUME NEW k \in 0..ciL
               PROVE  f[k] = IF k = 0 THEN 0 ELSE f[k - 1]
                               + Char(at + (k - 1)) * TwoTo[(k - 1) * CharBits]
    OBVIOUS
  <2>1. CASE k = 0
    BY <1>5, <2>1
  <2>2. CASE k # 0
    <3>1. k \in 1..ciL /\ k - 1 \in 0..ciL
      BY <1>1, <2>2
    <3> QED BY <1>4, <2>2, <3>1
  <2> QED BY <2>1, <2>2
<1>7. f = [k \in 0..ciL |-> f[k]]
  OBVIOUS
<1>8. f[ciL] = s[ciL]
  BY <1>1
<1> HIDE DEF f
<1>9. BytesOf(f, buf, m, at)
  <2>1. f = [k \in 0..ciL |->
               IF k = 0 THEN 0
               ELSE f[k - 1] + Char(at + (k - 1)) * TwoTo[(k - 1) * CharBits]]
    BY <1>6, <1>7
  <2> QED BY <2>1 DEF BytesOf, Char
<1> DEFINE g == CHOOSE h : BytesOf(h, buf, m, at)
<1>10. BytesOf(g, buf, m, at)
  BY <1>9
<1> HIDE DEF g
<1>11. \A k \in 0..ciL : g[k] = IF k = 0 THEN 0 ELSE g[k - 1]
                                + Char(at + (k - 1)) * TwoTo[(k - 1) * CharBits]
  BY <1>10 DEF BytesOf, Char
<1> DEFINE S == {k \in 0..ciL : g[k] = f[k]}
<1>12. 0 \in S
  <2>1. 0 \in 0..ciL
    BY <1>1
  <2> QED BY <1>6, <1>11, <2>1
<1>13. ASSUME NEW k \in 0..(ciL - 1), k \in S PROVE k + 1 \in S
  <2> DEFINE h == k + 1
  <2>1. h \in 0..ciL /\ h # 0 /\ h - 1 = k
    BY <1>1
  <2> HIDE DEF h
  <2>2. g[k] = f[k]
    BY <1>13
  <2>3. g[h] = f[h]
    BY <1>6, <1>11, <2>1, <2>2
  <2> QED BY <2>1, <2>3 DEF h
<1>14. \A k \in 0..ciL : k \in S
  <2> HIDE DEF S
  <2>1. ciL \in Nat
    BY <1>1
  <2> QED BY <1>12, <1>13, <2>1, BoundedInduction
<1>15. g[ciL] = f[ciL]
  <2>1. ciL \in 0..ciL
    BY <1>1
  <2> QED BY <1>14, <2>1
<1> QED BY <1>8, <1>15 DEF g, s

\* What the limb number i is made of.
LimbFrom(buf, i) == Sums(CharBase, CharsFrom(buf, (i - 1) * ciL))[ciL]

LEMMA LimbFromIs ==
  ASSUME NEW buf \in Seq(CharsOf), NEW i \in Nat \ {0}
  PROVE  /\ LimbFrom(buf, i) \in Limbs /\ (i - 1) * ciL \in Nat
         /\ \A m \in 0..Len(buf) :
              /\ \A k \in 1..(Len(buf) - m) : buf[k] = 0
              /\ (i - 1) * ciL >= m
              => LimbFrom(buf, i) = 0
<1> DEFINE o == i - 1  at == o * ciL  c == CharsFrom(buf, at)
<1>1. o \in Nat /\ CharBase \in Nat \ {0} /\ ciL \in Nat \ {0}
      /\ Len(buf) \in Nat /\ PowersOf(CharBase)[ciL] = Base
  BY CharsAre, LimbAssumption
<1> HIDE DEF o
<1>2. at \in Nat
  BY <1>1
<1>3. c \in Numbers /\ \A k \in Nat : c[k] \in 0..(CharBase - 1)
  <2> HIDE DEF at
  <2> QED BY <1>2, CharsFromAre
<1>4. LimbFrom(buf, i) = Sums(CharBase, c)[ciL]
  BY DEF LimbFrom, o
<1> HIDE DEF c
<1>5. Sums(CharBase, c)[ciL] \in 0..(Base - 1)
  <2>1. \A k \in 1..ciL : c[k] \in 0..(CharBase - 1)
    BY <1>1, <1>3
  <2>2. ciL \in Nat
    BY <1>1
  <2> QED BY <1>1, <1>3, <2>1, <2>2, SumsAreSmall
<1>6. ASSUME NEW m \in 0..Len(buf), \A k \in 1..(Len(buf) - m) : buf[k] = 0, at >= m
      PROVE  LimbFrom(buf, i) = 0
  <2>1. \A k \in 1..ciL : c[k] = 0
    <3> SUFFICES ASSUME NEW k \in 1..ciL PROVE c[k] = 0
      OBVIOUS
    <3> DEFINE j == at + (k - 1)
    <3>1. j \in Nat /\ j >= m /\ k \in Nat /\ k # 0
      <4> HIDE DEF at
      <4> QED BY <1>1, <1>2, <1>6
    <3>2. c[k] = CharFrom(buf, j)
      BY <3>1 DEF CharsFrom, c
    <3> HIDE DEF j
    <3>3. CharFrom(buf, j) = 0
      <4>1. CASE j < Len(buf)
        <5>1. Len(buf) - j \in 1..(Len(buf) - m)
          BY <1>1, <3>1, <4>1
        <5>2. buf[Len(buf) - j] = 0
          BY <1>6, <5>1
        <5> QED BY <5>2, <4>1 DEF CharFrom
      <4> QED BY <4>1 DEF CharFrom
    <3> QED BY <3>2, <3>3
  <2>2. ciL \in Nat
    BY <1>1
  <2> QED BY <1>1, <1>3, <1>4, <2>1, <2>2, SumOfZeros
<1> QED BY <1>2, <1>4, <1>5, <1>6 DEF Limbs, o

LEMMA ReadIs ==
  ASSUME NEW X \in Mpis, NEW buf \in Seq(CharsOf)
  PROVE  /\ read_binary(X, buf) \in Mpis /\ read_binary(X, buf).s = 1
         /\ \A i \in Nat \ {0} : Limb(read_binary(X, buf).p, i) = LimbFrom(buf, i)
<1> DEFINE N == Len(buf)
           Zeros == {k \in 0..N : \A i \in 1..k : buf[i] = 0}
           n == Max(Zeros)
           m == N - n
           K == CHARS_TO_LIMBS(m)
           G == Prepared(X, K)
           L == Len(G.p)
           Bytes(i) == (CHOOSE f : BytesOf(f, buf, m, (i - 1) * ciL))[ciL]
           g == [i \in 1..L |-> IF i <= K THEN Bytes(i) ELSE G.p[i]]
           q == SubSeq(g, 1, L)
           C == read_binary(X, buf)
<1>1. C = [G EXCEPT !.p = q]
  BY DEF read_binary, BytesOf, LimbSeq
<1> HIDE DEF C
<1>2. N \in Nat /\ ciL \in Nat \ {0}
  BY LimbAssumption
<1>3. n \in 0..N /\ \A i \in 1..n : buf[i] = 0
  <2>1. Zeros \subseteq 0..N /\ 0 \in Zeros
    BY <1>2
  <2>2. n \in Zeros
    <3> HIDE DEF Zeros, N
    <3>1. Zeros # {}
      BY <2>1
    <3> QED BY <1>2, <2>1, <3>1, MaxIsElement
  <2> HIDE DEF n
  <2> QED BY <2>2
<1> HIDE DEF n
<1>4. m \in 0..N /\ N - m = n /\ m \in Nat
  BY <1>2, <1>3
<1> HIDE DEF m
<1>5. K \in Nat /\ K * ciL >= m
  BY <1>2, <1>4, QuotientUp DEF CHARS_TO_LIMBS
<1> HIDE DEF K
<1>6. /\ G \in Mpis /\ G.s = 1 /\ L \in Nat /\ L >= K
      /\ \A i \in Nat : Limb(G.p, i) = 0
  <2>1. /\ G \in Mpis /\ L \in Nat /\ L >= K
        /\ \A i \in Nat : Limb(G.p, i) = 0
    BY <1>5, PreparedIs
  <2>2. G.s = 1
    BY DEF Prepared, lset
  <2> QED BY <2>1, <2>2
<1> HIDE DEF G
<1>7. \A i \in Nat \ {0} : i > K => LimbFrom(buf, i) = 0
  <2> SUFFICES ASSUME NEW i \in Nat \ {0}, i > K PROVE LimbFrom(buf, i) = 0
    OBVIOUS
  <2> DEFINE o == i - 1
  <2>1. o \in Nat /\ K <= o
    BY <1>5
  <2> HIDE DEF o
  <2>2. K * ciL <= o * ciL /\ K * ciL \in Nat /\ o * ciL \in Nat
    <3>1. ciL \in Nat /\ ciL <= ciL
      BY <1>2
    <3> QED BY <1>5, <2>1, <3>1, ProductsGrow
  <2>3. o * ciL >= m
    BY <1>4, <1>5, <2>2
  <2>4. \A k \in 1..(Len(buf) - m) : buf[k] = 0
    BY <1>3, <1>4
  <2> QED BY <1>4, <2>3, <2>4, LimbFromIs DEF o
<1>8. \A i \in 1..L : g[i] = LimbFrom(buf, i) /\ g[i] \in Limbs
  <2> SUFFICES ASSUME NEW i \in 1..L PROVE g[i] = LimbFrom(buf, i) /\ g[i] \in Limbs
    OBVIOUS
  <2>1. i \in Nat \ {0} /\ LimbFrom(buf, i) \in Limbs /\ (i - 1) * ciL \in Nat
    <3>1. i \in Nat \ {0}
      BY <1>6
    <3> QED BY <3>1, LimbFromIs
  <2>2. CASE i <= K
    <3> DEFINE at == (i - 1) * ciL
    <3>1. \A k \in 1..(Len(buf) - m) : buf[k] = 0
      BY <1>3, <1>4
    <3>2. at \in Nat
      BY <2>1
    <3> HIDE DEF at
    <3>3. (CHOOSE f : BytesOf(f, buf, m, at))[ciL]
            = Sums(CharBase, CharsFrom(buf, at))[ciL]
      BY <1>4, <3>1, <3>2, BytesAre
    <3>4. g[i] = Bytes(i)
      BY <2>2
    <3> QED BY <2>1, <3>3, <3>4 DEF at, LimbFrom
  <2>3. CASE ~(i <= K)
    <3>1. g[i] = G.p[i]
      BY <2>3
    <3>2. G.p[i] = Limb(G.p, i)
      <4>1. G.p \in Seq(Limbs)
        BY <1>6, MpiIs
      <4> QED BY <4>1 DEF Limb
    <3>3. i > K
      BY <1>5, <2>1, <2>3
    <3> QED BY <1>6, <1>7, <2>1, <3>1, <3>2, <3>3
  <2> QED BY <2>2, <2>3
<1>9. g = [i \in 1..L |-> g[i]]
  OBVIOUS
<1> HIDE DEF g, L
<1>10. q = g /\ g \in Seq(Limbs) /\ Len(g) = L /\ \A i \in 1..L : Limb(g, i) = g[i]
  BY <1>6, <1>8, <1>9, TableOfLimbs
<1> HIDE DEF q
<1>11. C \in Mpis /\ C.s = G.s /\ C.p = g
  BY <1>1, <1>6, <1>10, MpiWithLimbs
<1>12. \A i \in Nat \ {0} : Limb(g, i) = LimbFrom(buf, i)
  <2> SUFFICES ASSUME NEW i \in Nat \ {0} PROVE Limb(g, i) = LimbFrom(buf, i)
    OBVIOUS
  <2>1. CASE i \in 1..L
    BY <1>8, <1>10, <2>1
  <2>2. CASE i \notin 1..L
    <3>1. i > K
      BY <1>5, <1>6, <2>2
    <3>2. DOMAIN g = 1..L
      BY <1>10
    <3> QED BY <1>7, <2>2, <3>1, <3>2 DEF Limb
  <2> QED BY <2>1, <2>2
<1> QED BY <1>6, <1>11, <1>12 DEF C

----------------------------------------------------------------------------
(* Writing chars, and reading what was written. *)

LEMMA SizeIs ==
  ASSUME NEW X \in Mpis
  PROVE  /\ size(X) \in Nat /\ size(X) <= Len(X.p) * ciL
         /\ Magnitude(X.p) < TwoTo[size(X) * CharBits]
         /\ \A n \in Nat : n < size(X) => Magnitude(X.p) >= TwoTo[n * CharBits]
<1> DEFINE b == CharBits  m == msb(X)  s == size(X)  L == Len(X.p)  M == Magnitude(X.p)
           y == s * b  u == L * ciL
<1>1. b \in Nat \ {0} /\ ciL \in Nat \ {0} /\ L \in Nat /\ M \in Nat /\ L * biL = u * b
      /\ u \in Nat
  <2>1. L \in Nat /\ M \in Nat
    BY MpiIs
  <2> HIDE DEF L, M
  <2> QED BY <2>1, LimbAssumption DEF biL
<1>2. /\ m \in Nat /\ M < TwoTo[m] /\ m <= L * biL
      /\ m # 0 => M >= TwoTo[m - 1]
  BY MsbIs
<1> HIDE DEF m, L, M, b
<1>3. s = (m + b - 1) \div b
  BY DEF size, m, b
<1> HIDE DEF s
<1>4. s \in Nat /\ y >= m /\ y < m + b
  BY <1>1, <1>2, <1>3, QuotientUp
<1>5. y \in Nat
  BY <1>1, <1>4
<1> HIDE DEF u
<1>6. s <= u
  <2>1. SUFFICES ASSUME u + 1 <= s PROVE FALSE
    BY <1>1, <1>4
  <2> DEFINE h == u + 1
  <2>2. h \in Nat /\ h <= s /\ b <= b /\ b \in Nat
    BY <1>1, <2>1
  <2> HIDE DEF h
  <2>3. h * b <= s * b
    BY <1>4, <2>2, ProductsGrow
  <2>4. (u + 1) * b = u * b + b /\ u * b \in Nat
    BY <1>1
  <2>5. u * b + b <= y
    BY <2>3, <2>4 DEF h
  <2> QED BY <1>1, <1>2, <1>4, <1>5, <2>4, <2>5
<1> HIDE DEF y
<1>7. M < TwoTo[y]
  <2>1. TwoTo[m] <= TwoTo[y] /\ TwoTo[m] \in Nat /\ TwoTo[y] \in Nat
    BY <1>2, <1>4, <1>5, TwosGrow
  <2> QED BY <1>1, <1>2, <2>1
<1>8. ASSUME NEW n \in Nat, n < s PROVE M >= TwoTo[n * b]
  <2> DEFINE x == n * b  h == n + 1
  <2>1. h \in Nat /\ h <= s /\ b <= b /\ b \in Nat
    BY <1>1, <1>4, <1>8
  <2> HIDE DEF h
  <2>2. h * b <= s * b
    BY <1>4, <2>1, ProductsGrow
  <2>3. (n + 1) * b = x + b /\ x \in Nat
    BY <1>1
  <2> HIDE DEF x
  <2>4. x + b <= y
    BY <2>2, <2>3 DEF h, y
  <2>5. x < m /\ m # 0 /\ x <= m - 1 /\ m - 1 \in Nat
    BY <1>1, <1>2, <1>4, <1>5, <2>3, <2>4
  <2>6. TwoTo[x] <= TwoTo[m - 1] /\ TwoTo[x] \in Nat /\ TwoTo[m - 1] \in Nat
    BY <2>3, <2>5, TwosGrow
  <2>7. M >= TwoTo[x]
    BY <1>1, <1>2, <2>5, <2>6
  <2> QED BY <2>7 DEF x
<1> QED BY <1>4, <1>6, <1>7, <1>8 DEF s, u, L, M, y, b

\* What mpi_write_binary writes as char number j.
CharWritten(X, j) ==
  IF j >= size(X) THEN 0
  ELSE (X.p[j \div ciL + 1] \div TwoTo[(j % ciL) * CharBits]) % TwoTo[CharBits]

LEMMA CharWrittenIs ==
  ASSUME NEW X \in Mpis, NEW j \in Nat
  PROVE  /\ CharWritten(X, j) = Digit(CharBase, Magnitude(X.p), j)
         /\ CharWritten(X, j) \in CharsOf
<1> DEFINE M == Magnitude(X.p)  p == X.p  C == CharBase  P == PowersOf(C)
           l == j \div ciL  k == j % ciL
<1>1. p \in Seq(Limbs) /\ M \in Nat /\ Len(p) \in Nat /\ C \in Nat \ {0}
      /\ ciL \in Nat \ {0}
  BY MpiIs, CharsAre, LimbAssumption
<1>2. Digit(C, M, j) \in CharsOf
  BY <1>1, DigitIsSmall DEF CharsOf
<1>3. size(X) \in Nat /\ size(X) <= Len(p) * ciL /\ M < TwoTo[size(X) * CharBits]
  BY SizeIs
<1>4. CASE j >= size(X)
  <2>1. P[size(X)] = TwoTo[size(X) * CharBits] /\ P[j] = TwoTo[j * CharBits]
        /\ P[j] \in Nat \ {0} /\ size(X) * CharBits \in Nat /\ j * CharBits \in Nat
    BY <1>3, CharsAre
  <2>2. size(X) * CharBits <= j * CharBits
    <3>1. CharBits \in Nat /\ CharBits <= CharBits
      BY LimbAssumption
    <3> QED BY <1>3, <1>4, <3>1, ProductsGrow
  <2>3. TwoTo[size(X) * CharBits] <= TwoTo[j * CharBits]
        /\ TwoTo[size(X) * CharBits] \in Nat
    <3> DEFINE x == size(X) * CharBits  y == j * CharBits
    <3>1. x \in Nat /\ y \in Nat /\ x <= y
      BY <2>1, <2>2
    <3> HIDE DEF x, y
    <3>2. TwoTo[x] <= TwoTo[y] /\ TwoTo[x] \in Nat
      BY <3>1, TwosGrow
    <3> QED BY <3>2 DEF x, y
  <2> DEFINE Q == P[j]
  <2>4. M < Q /\ Q \in Nat \ {0}
    BY <1>1, <1>3, <2>1, <2>3
  <2> HIDE DEF Q, M
  <2>5. M \div Q = 0
    BY <1>1, <2>4
  <2>6. 0 % C = 0
    BY <1>1
  <2>7. Digit(C, M, j) = 0
    BY <2>5, <2>6 DEF Digit, Q
  <2> QED BY <1>2, <1>4, <2>7 DEF CharWritten, M
<1>5. CASE ~(j >= size(X))
  <2>1. l \in Nat /\ k \in Nat /\ k < ciL /\ j = l * ciL + k
    <3> DEFINE c == ciL
    <3>1. c \in Nat \ {0} /\ j \in Int /\ j >= 0
      BY <1>1
    <3> HIDE DEF c
    <3>2. /\ j \div c \in Int /\ j \div c >= 0 /\ j % c \in 0..(c - 1)
          /\ j = c * (j \div c) + (j % c)
      BY <3>1, QuotientRemainder
    <3> DEFINE g == j \div c  h == j % c
    <3>3. g \in Nat /\ h \in Nat /\ h < c /\ j = c * g + h
      BY <3>1, <3>2
    <3> HIDE DEF g, h
    <3>4. j = g * c + h
      BY <3>1, <3>3
    <3> QED BY <3>3, <3>4 DEF g, h, c
  <2> HIDE DEF l, k, M, p
  <2>2. l < Len(p)
    <3>1. SUFFICES ASSUME Len(p) <= l PROVE FALSE
      BY <1>1, <2>1
    <3>2. Len(p) * ciL <= l * ciL /\ Len(p) * ciL \in Nat /\ l * ciL \in Nat
      <4>1. ciL \in Nat /\ ciL <= ciL
        BY <1>1
      <4> QED BY <1>1, <2>1, <3>1, <4>1, ProductsGrow
    <3> QED BY <1>3, <1>5, <2>1, <3>2
  <2> DEFINE v == M \div Places[l]  w == p[l + 1]
  <2>3. w = v % Base /\ v \in Nat
    <3>1. l + 1 \in DOMAIN p
      BY <1>1, <2>1, <2>2
    <3>2. w = Limb(p, l + 1)
      BY <3>1 DEF Limb
    <3> QED BY <1>1, <2>1, <3>2, LimbIsRemainder DEF M, p
  <2> HIDE DEF v, w
  <2>4. Digit(C, w, k) = Digit(C, v, k)
    <3>1. P[ciL] = Base
      BY CharsAre
    <3>2. Digit(C, v % P[ciL], k) = Digit(C, v, k)
      <4>1. ciL \in Nat
        BY <1>1
      <4> HIDE DEF C
      <4> QED BY <1>1, <2>1, <2>3, <4>1, DigitOfLow
    <3> QED BY <2>3, <3>1, <3>2
  <2>5. Digit(C, v, k) = Digit(C, M, j)
    BY <1>1, <2>1, CharOfNumber DEF v
  <2>6. P[k] = TwoTo[k * CharBits]
    BY <2>1, CharsAre
  <2>7. CharWritten(X, j) = (w \div TwoTo[k * CharBits]) % C
    BY <1>5 DEF CharWritten, w, p, l, k, CharBase
  <2> QED BY <1>2, <2>4, <2>5, <2>6, <2>7 DEF Digit, M, p
<1> QED BY <1>4, <1>5

LEMMA WriteIs ==
  ASSUME NEW X \in Mpis, NEW n \in Nat
  PROVE  /\ write_binary(X, n) \in Seq(CharsOf) /\ Len(write_binary(X, n)) = n
         /\ \A i \in 1..n : write_binary(X, n)[i] = CharWritten(X, n - i)
<1> DEFINE f == [i \in 1..n |-> CharWritten(X, n - i)]
<1>1. write_binary(X, n) = SubSeq(f, 1, n)
  BY DEF write_binary, LimbSeq, CharWritten
<1>2. \A i \in 1..n : f[i] \in CharsOf
  <2> SUFFICES ASSUME NEW i \in 1..n PROVE f[i] \in CharsOf
    OBVIOUS
  <2>1. n - i \in Nat
    OBVIOUS
  <2> QED BY <2>1, CharWrittenIs
<1>3. f \in [1..n -> CharsOf] /\ \A i \in 1..n : f[i] = CharWritten(X, n - i)
  BY <1>2
<1> HIDE DEF f
<1>4. f \in Seq(CharsOf) /\ Len(f) = n
  BY <1>3
<1>5. SubSeq(f, 1, n) = f
  BY <1>4, WholePiece DEF IsSeq
<1> QED BY <1>1, <1>3, <1>4, <1>5

LEMMA WrittenRead ==
  ASSUME NEW X \in Mpis, NEW Y \in Mpis, NEW n \in Nat
  PROVE  IF write_binary_fits(X, n)
         THEN Value(read_binary(Y, write_binary(X, n))) = Magnitude(X.p)
         ELSE TwoTo[CharBits * n] <= Magnitude(X.p)
<1> DEFINE M == Magnitude(X.p)  buf == write_binary(X, n)  R == read_binary(Y, buf)
           C == CharBase
<1>1. M \in Nat /\ X.p \in Seq(Limbs) /\ C \in Nat \ {0} /\ ciL \in Nat \ {0}
  BY MpiIs, CharsAre, LimbAssumption
<1>2. size(X) \in Nat
  BY SizeIs
<1>3. CASE ~write_binary_fits(X, n)
  <2>1. n < size(X)
    BY <1>2, <1>3 DEF write_binary_fits
  <2>2. M >= TwoTo[n * CharBits]
    BY <2>1, SizeIs
  <2>3. n * CharBits = CharBits * n /\ n * CharBits \in Nat
    BY LimbAssumption
  <2>4. TwoTo[n * CharBits] \in Nat
    BY <2>3, TwoToAt
  <2> QED BY <1>1, <1>3, <2>2, <2>3, <2>4
<1>4. CASE write_binary_fits(X, n)
  <2>1. n >= size(X)
    BY <1>4 DEF write_binary_fits
  <2>2. /\ buf \in Seq(CharsOf) /\ Len(buf) = n
        /\ \A i \in 1..n : buf[i] = CharWritten(X, n - i)
    BY WriteIs
  <2>3. /\ R \in Mpis /\ R.s = 1
        /\ \A i \in Nat \ {0} : Limb(R.p, i) = LimbFrom(buf, i)
    BY <2>2, ReadIs
  <2> HIDE DEF buf, R, M
  <2>4. \A j \in Nat : CharFrom(buf, j) = Digit(C, M, j)
    <3> SUFFICES ASSUME NEW j \in Nat PROVE CharFrom(buf, j) = Digit(C, M, j)
      OBVIOUS
    <3>1. CharWritten(X, j) = Digit(C, M, j)
      BY CharWrittenIs DEF M
    <3>2. CharFrom(buf, j) = CharWritten(X, j)
      <4>1. CASE j < n
        <5>1. n - j \in 1..n /\ n - (n - j) = j
          BY <4>1
        <5> QED BY <2>2, <4>1, <5>1 DEF CharFrom
      <4>2. CASE ~(j < n)
        <5>1. j >= size(X)
          BY <1>2, <2>1, <4>2
        <5> QED BY <2>2, <4>2, <5>1 DEF CharFrom, CharWritten
      <4> QED BY <4>1, <4>2
    <3> QED BY <3>1, <3>2
  <2>5. \A i \in Nat \ {0} : LimbFrom(buf, i) = Limb(X.p, i)
    <3> SUFFICES ASSUME NEW i \in Nat \ {0} PROVE LimbFrom(buf, i) = Limb(X.p, i)
      OBVIOUS
    <3> DEFINE o == i - 1  at == o * ciL  c == CharsFrom(buf, at)
               v == M \div Places[o]
    <3>1. o \in Nat /\ o + 1 = i
      OBVIOUS
    <3> HIDE DEF o
    <3>2. at \in Nat
      BY <1>1, <3>1
    <3>3. v % Base = Limb(X.p, i) /\ v \in Nat
      BY <1>1, <3>1, LimbIsRemainder DEF M
    <3>4. c \in Numbers
      <4> HIDE DEF at
      <4> QED BY <2>2, <3>2, CharsFromAre
    <3>5. \A k \in 1..ciL : c[k] = Digit(C, v, k - 1)
      <4> SUFFICES ASSUME NEW k \in 1..ciL PROVE c[k] = Digit(C, v, k - 1)
        OBVIOUS
      <4> DEFINE h == k - 1
      <4>1. h \in Nat /\ k \in Nat /\ k # 0
        BY <1>1
      <4>2. c[k] = CharFrom(buf, at + h)
        <5> HIDE DEF at
        <5> QED BY <4>1 DEF CharsFrom
      <4> HIDE DEF h
      <4>3. at + h \in Nat /\ Digit(C, v, h) = Digit(C, M, at + h)
        <5> HIDE DEF at, v
        <5>1. o * ciL + h \in Nat
              /\ Digit(C, M \div Places[o], h) = Digit(C, M, o * ciL + h)
          <6>1. \A l, g \in Nat :
                   l * ciL + g \in Nat
                   /\ Digit(C, M \div Places[l], g) = Digit(C, M, l * ciL + g)
            BY <1>1, CharOfNumber
          <6> QED BY <3>1, <4>1, <6>1, Zenon
        <5> QED BY <5>1 DEF at, v
      <4>4. c[k] = Digit(C, v, h)
        <5> HIDE DEF at, c, v
        <5> QED BY <2>4, <4>2, <4>3
      <4> QED BY <4>4 DEF h
    <3> HIDE DEF c, v
    <3>6. Sums(C, c)[ciL] = v % PowersOf(C)[ciL]
      <4>1. ciL \in Nat
        BY <1>1
      <4> QED BY <1>1, <3>3, <3>4, <3>5, <4>1, SumOfDigits
    <3>7. PowersOf(C)[ciL] = Base
      BY CharsAre
    <3> QED BY <3>3, <3>6, <3>7 DEF LimbFrom, c, at, o
  <2>6. \A i \in Nat : Limb(R.p, i) = Limb(X.p, i)
    <3>1. R.p \in Seq(Limbs)
      BY <2>3, MpiIs
    <3>2. Limb(R.p, 0) = Limb(X.p, 0)
      BY <1>1, <3>1 DEF Limb
    <3> QED BY <2>3, <2>5, <3>2
  <2>7. Magnitude(R.p) = M
    <3>1. R.p \in Seq(Limbs)
      BY <2>3, MpiIs
    <3> QED BY <1>1, <2>6, <3>1, SameMagnitude DEF M
  <2>8. Value(R) = M
    BY <1>1, <2>3, <2>7 DEF Value
  <2> QED BY <1>4, <2>8 DEF R, buf, M
<1> QED BY <1>3, <1>4
----------------------------------------------------------------------------
(* Long division. *)

\* An integer between two multiples of its divisor.
LEMMA QuotientBetween ==
  ASSUME NEW x \in Nat, NEW y \in Nat \ {0}
  PROVE  /\ x \div y \in Nat /\ (x \div y) * y <= x /\ x < (x \div y + 1) * y
         /\ (x \div y) * y \in Nat
<1> DEFINE q == x \div y  r == x % y
<1>1. q \in Int /\ r \in 0..(y - 1) /\ x = y * q + r /\ q >= 0
  <2>1. x \in Int /\ x >= 0
    OBVIOUS
  <2>2. /\ x \div y \in Int /\ x % y \in 0..(y - 1) /\ x = y * (x \div y) + (x % y)
        /\ x >= 0 => x \div y >= 0
    BY <2>1, QuotientRemainder
  <2> QED BY <2>1, <2>2
<1> HIDE DEF q, r
<1>2. q \in Nat /\ y * q = q * y /\ (q + 1) * y = q * y + y /\ q * y \in Nat
  BY <1>1
<1> QED BY <1>1, <1>2 DEF q

\* Which multiples fit.
LEMMA FitsQuotient ==
  ASSUME NEW x \in Nat, NEW y \in Nat \ {0}, NEW z \in Int
  PROVE  z <= x \div y <=> z * y <= x
<1> DEFINE q == x \div y
<1>1. q \in Nat /\ q * y <= x /\ x < (q + 1) * y
  BY QuotientBetween
<1> HIDE DEF q
<1>2. z <= q => z * y <= q * y
  BY <1>1
<1>3. z >= q + 1 => z * y >= (q + 1) * y
  BY <1>1
<1>4. z * y \in Int /\ q * y \in Int /\ (q + 1) * y \in Int
  BY <1>1
<1> QED BY <1>1, <1>2, <1>3, <1>4 DEF q

\* A quotient and its divisor, each known to one in a place.
Leading(u, W, X) == u * W <= X /\ X < (u + 1) * W

LEMMA EstimateIsClose ==
  ASSUME NEW X \in Nat, NEW D \in Nat \ {0}, NEW S \in Nat \ {0}, NEW P \in Nat \ {0},
         NEW u \in Nat, NEW y \in Nat, NEW b \in Nat \ {0}, NEW z \in 0..(b - 1),
         Leading(u, S * P, X), Leading(y, S, D), S * b <= 4 * D, z * y <= u
  PROVE  z - 4 <= X \div (D * P)
<1> DEFINE E == D * P  W == S * P  e == z - 4
<1>1. E \in Nat \ {0} /\ W \in Nat \ {0} /\ e \in Int /\ e * E \in Int /\ e * E = (e * D) * P
  OBVIOUS
<1>2. SUFFICES ASSUME z >= 4 PROVE e * E <= X
  <2>1. z < 4 => e * E <= 0
    <3> HIDE DEF E
    <3> QED BY <1>1
  <2>2. e * E <= X
    BY <1>1, <1>2, <2>1
  <2> HIDE DEF E, e
  <2>3. e <= X \div E
    BY <1>1, <2>2, FitsQuotient
  <2> QED BY <2>3 DEF E, e
<1>3. b < 4 * (y + 1)
  <2>1. S * b < S * (4 * (y + 1))
    <3>1. D < (y + 1) * S
      BY DEF Leading
    <3>2. 4 * ((y + 1) * S) = S * (4 * (y + 1)) /\ (y + 1) * S \in Nat /\ S * b \in Nat
      OBVIOUS
    <3> QED BY <3>1, <3>2
  <2> DEFINE f == 4 * (y + 1)
  <2>2. f \in Nat
    OBVIOUS
  <2> HIDE DEF f
  <2>3. b >= f => S * b >= S * f
    BY <2>2
  <2>4. S * b \in Nat /\ S * f \in Nat
    BY <2>2
  <2> QED BY <2>1, <2>2, <2>3, <2>4 DEF f
<1>4. e * (y + 1) <= u
  <2>1. e * (y + 1) = z * y + z - 4 * (y + 1)
    OBVIOUS
  <2>2. z * y \in Nat
    OBVIOUS
  <2> QED BY <1>3, <2>1, <2>2
<1>5. e \in Nat /\ e * D <= e * ((y + 1) * S)
  <2>1. e \in Nat
    BY <1>2
  <2>2. D <= (y + 1) * S /\ (y + 1) * S \in Nat
    BY DEF Leading
  <2> DEFINE g == (y + 1) * S
  <2> HIDE DEF g, e
  <2>3. e * D <= e * g
    BY <2>1, <2>2 DEF g
  <2> QED BY <2>1, <2>3 DEF g
<1>6. e * ((y + 1) * S) = (e * (y + 1)) * S /\ (e * (y + 1)) * S <= u * S
  <2> DEFINE g == y + 1  h == e * g
  <2>1. g \in Nat /\ e * (g * S) = (e * g) * S
    BY <1>5
  <2>2. h \in Nat /\ h <= u
    BY <1>4, <1>5
  <2> HIDE DEF g, h
  <2>3. h * S <= u * S
    BY <2>2
  <2> QED BY <2>1, <2>3 DEF g, h
<1>7. e * E <= (u * S) * P
  <2> DEFINE g == e * D  h == u * S
  <2>1. g \in Nat /\ h \in Nat /\ g <= h
    <3>1. (e * (y + 1)) * S \in Nat /\ g \in Nat /\ h \in Nat
      BY <1>5
    <3> QED BY <1>5, <1>6, <3>1
  <2> HIDE DEF g, h
  <2>2. g * P <= h * P
    BY <2>1
  <2> QED BY <1>1, <2>2 DEF g, h
<1>8. (u * S) * P = u * W /\ u * W <= X
  BY DEF Leading
<1>9. u * W \in Nat
  OBVIOUS
<1> HIDE DEF e, E, W
<1> QED BY <1>1, <1>7, <1>8, <1>9

\* The quotient is among the digits that the two highest limbs allow.
LEMMA EstimateIsHigh ==
  ASSUME NEW X \in Nat, NEW D \in Nat \ {0}, NEW S \in Nat \ {0}, NEW P \in Nat \ {0},
         NEW u \in Nat, NEW y \in Nat, Leading(u, S * P, X), Leading(y, S, D)
  PROVE  (X \div (D * P)) * y <= u
<1> DEFINE E == D * P  W == S * P  q == X \div E
<1>1. E \in Nat \ {0} /\ W \in Nat \ {0} /\ X < (u + 1) * W
  BY DEF Leading
<1> HIDE DEF E
<1>2. q \in Nat /\ q * E <= X
  BY <1>1, QuotientBetween
<1> HIDE DEF q
<1>3. (q * y) * W <= q * E
  <2>1. y * S <= D /\ y * S \in Nat
    BY DEF Leading
  <2> DEFINE g == y * S
  <2>2. (q * y) * W = q * (g * P)
    BY <1>2
  <2> HIDE DEF g, W
  <2>3. g * P <= D * P /\ g * P \in Nat
    BY <2>1 DEF g
  <2> DEFINE h == g * P
  <2> HIDE DEF h
  <2>4. q * h <= q * E
    BY <1>1, <1>2, <2>3 DEF h, E
  <2> QED BY <2>2, <2>4 DEF h
<1> DEFINE f == q * y
<1>4. f \in Nat
  BY <1>2
<1> HIDE DEF f, W
<1>5. f * W < (u + 1) * W
  <2>1. f * W \in Nat /\ q * E \in Nat /\ (u + 1) * W \in Nat
    BY <1>1, <1>2, <1>4
  <2> QED BY <1>1, <1>2, <1>3, <2>1 DEF f
<1>6. f >= u + 1 => f * W >= (u + 1) * W
  BY <1>1, <1>4
<1>7. f * W \in Nat /\ (u + 1) * W \in Nat
  BY <1>1, <1>4
<1> QED BY <1>4, <1>5, <1>6, <1>7 DEF f, q, E

\* The test of three limbs: a digit that fails it is too high, and one that
\* passes is at most one too high.
LEMMA TestedIsTooHigh ==
  ASSUME NEW X \in Nat, NEW D \in Nat \ {0}, NEW S \in Nat \ {0}, NEW P \in Nat \ {0},
         NEW x \in Nat, NEW y \in Nat, NEW b \in Nat \ {0}, NEW z \in Nat,
         Leading(x, S * P, X * b), Leading(y, S, D * b), z * y > x
  PROVE  z > X \div (D * P)
<1> DEFINE E == D * P  W == S * P
<1>1. E \in Nat \ {0} /\ W \in Nat \ {0} /\ X * b < (x + 1) * W /\ y * S <= D * b
  BY DEF Leading
<1>2. (x + 1) * W <= (z * y) * W
  <2>1. z * y \in Nat /\ x + 1 <= z * y
    OBVIOUS
  <2> DEFINE f == z * y
  <2> HIDE DEF f, W
  <2>2. (x + 1) * W <= f * W
    BY <1>1, <2>1 DEF f
  <2> QED BY <2>2 DEF f
<1>3. (z * y) * W <= (z * E) * b
  <2> DEFINE g == y * S  h == D * b
  <2>1. (z * y) * W = z * (g * P) /\ (z * E) * b = z * (h * P)
    OBVIOUS
  <2>2. g \in Nat /\ h \in Nat /\ g <= h
    BY <1>1
  <2> HIDE DEF g, h, W, E
  <2>3. g * P <= h * P /\ g * P \in Nat /\ h * P \in Nat
    BY <2>2
  <2>4. z * (g * P) <= z * (h * P)
    <3> DEFINE gg == g * P  hh == h * P
    <3> HIDE DEF gg, hh
    <3> QED BY <2>3 DEF gg, hh
  <2> QED BY <2>1, <2>4
<1> DEFINE f == z * E
<1>4. f \in Nat /\ f = z * E
  BY <1>1
<1>5. X * b < f * b
  <2>1. X * b \in Nat /\ (x + 1) * W \in Nat /\ (z * y) * W \in Nat /\ f * b \in Nat
    BY <1>4
  <2> QED BY <1>1, <1>2, <1>3, <2>1
<1> HIDE DEF f
<1>6. X < f
  <2>1. X >= f => X * b >= f * b
    BY <1>4
  <2>2. X * b \in Nat /\ f * b \in Nat
    BY <1>4
  <2> QED BY <1>4, <1>5, <2>1, <2>2
<1> HIDE DEF E
<1>7. z <= X \div E <=> z * E <= X
  <2>1. z \in Int /\ X \in Nat /\ E \in Nat \ {0}
    BY <1>1
  <2> QED BY <2>1, FitsQuotient
<1>8. X \div E \in Nat
  BY <1>1, QuotientBetween
<1> QED BY <1>4, <1>6, <1>7, <1>8 DEF E

LEMMA TestedIsClose ==
  ASSUME NEW X \in Nat, NEW D \in Nat \ {0}, NEW S \in Nat \ {0}, NEW P \in Nat \ {0},
         NEW x \in Nat, NEW y \in Nat, NEW b \in Nat, NEW z \in Nat,
         b = 2 \/ b >= 4, z < b,
         Leading(x, S * P, X * b), Leading(y, S, D * b), S * b <= 4 * D, z * y <= x
  PROVE  z <= X \div (D * P) + 1
<1> DEFINE E == D * P  W == S * P
<1>1. E \in Nat \ {0} /\ W \in Nat \ {0} /\ x * W <= X * b /\ D * b < (y + 1) * S
  BY DEF Leading
<1> DEFINE q == X \div E
<1>2. q \in Nat /\ q * E <= X /\ X < (q + 1) * E
  <2> HIDE DEF E
  <2> QED BY <1>1, QuotientBetween
<1> HIDE DEF q
<1>3. CASE b = 2
  <2>1. z <= q + 1
    BY <1>2, <1>3
  <2> QED BY <2>1 DEF q
<1>4. CASE b >= 4
  <2>1. (z * E) * b <= (z * y) * W + z * W
    <3> DEFINE g == D * b  h == (y + 1) * S
    <3>1. (z * E) * b = z * (g * P) /\ (z * y) * W + z * W = z * (h * P)
      OBVIOUS
    <3>2. g \in Nat /\ h \in Nat /\ g <= h
      BY <1>1
    <3> HIDE DEF g, h, W, E
    <3>3. g * P <= h * P /\ g * P \in Nat /\ h * P \in Nat
      BY <3>2
    <3>4. z * (g * P) <= z * (h * P)
      <4> DEFINE gg == g * P  hh == h * P
      <4> HIDE DEF gg, hh
      <4> QED BY <3>3 DEF gg, hh
    <3> QED BY <3>1, <3>4
  <2>2. (z * y) * W <= x * W
    <3> DEFINE f == z * y
    <3>1. f \in Nat /\ f <= x
      OBVIOUS
    <3> HIDE DEF f, W
    <3>2. f * W <= x * W
      BY <1>1, <3>1
    <3> QED BY <3>2 DEF f
  <2>3. z * W < 4 * E
    <3>1. z * W < b * W
      <4> HIDE DEF W
      <4> QED BY <1>1
    <3>2. b * W = (S * b) * P /\ 4 * E = (4 * D) * P
      OBVIOUS
    <3>3. (S * b) * P <= (4 * D) * P
      <4> DEFINE f == S * b  g == 4 * D
      <4>1. f \in Nat /\ g \in Nat /\ f <= g
        OBVIOUS
      <4> HIDE DEF f, g
      <4>2. f * P <= g * P
        BY <4>1
      <4> QED BY <4>2 DEF f, g
    <3>4. z * W \in Nat /\ b * W \in Nat /\ 4 * E \in Nat
      BY <1>1
    <3> QED BY <3>1, <3>2, <3>3, <3>4
  <2>4. 4 * E <= E * b
    <3> HIDE DEF E
    <3> QED BY <1>1, <1>4
  <2>5. (z * E) * b < X * b + E * b
    <3>1. /\ (z * E) * b \in Nat /\ (z * y) * W \in Nat /\ z * W \in Nat /\ x * W \in Nat
          /\ X * b \in Nat /\ E * b \in Nat /\ 4 * E \in Nat
      OBVIOUS
    <3> QED BY <1>1, <2>1, <2>2, <2>3, <2>4, <3>1
  <2> HIDE DEF W
  <2> DEFINE f == z * E  g == X + E
  <2>6. f \in Nat /\ g \in Nat /\ f = z * E
    BY <1>1
  <2>7. X * b + E * b = g * b
    BY <1>1
  <2> HIDE DEF f
  <2>8. f < g
    <3> HIDE DEF g, E
    <3>1. f >= g => f * b >= g * b
      BY <2>6
    <3>2. f * b \in Nat /\ g * b \in Nat
      BY <2>6
    <3> QED BY <2>5, <2>6, <2>7, <3>1, <3>2
  <2> HIDE DEF E
  <2>9. z * E < (q + 2) * E
    <3>1. (q + 2) * E = (q + 1) * E + E /\ (q + 1) * E \in Nat
      BY <1>1, <1>2
    <3> QED BY <1>1, <1>2, <2>6, <2>8, <3>1
  <2>10. z >= q + 2 => z * E >= (q + 2) * E
    BY <1>1, <1>2
  <2>11. z * E \in Nat /\ (q + 2) * E \in Nat
    BY <1>1, <1>2
  <2>12. z <= q + 1
    BY <1>2, <2>9, <2>10, <2>11
  <2> QED BY <2>12 DEF q, E
<1> QED BY <1>3, <1>4

(* How many limbs results have. *)

LEMMA CopyLength ==
  ASSUME NEW X \in Mpis, NEW Y \in Mpis, Magnitude(Y.p) # 0
  PROVE  /\ Len(copy(X, Y).p) = IF Len(X.p) >= Used(Y.p) THEN Len(X.p) ELSE Used(Y.p)
         /\ Len(copy(X, Y).p) \in Nat /\ copy(X, Y).s = Y.s
<1> DEFINE p == Y.p
           l == Len(X.p)
           u == Used(p)
           m == Max({l, Kept(p)})
           q == SubSeq(p, 1, Kept(p))
           r == Resized(q, m)
           C == copy(X, Y)
<1>1. p \in Seq(Limbs) /\ Y.s \in {1, -1} /\ l \in Nat /\ Magnitude(p) # 0
  BY MpiIs
<1>2. C = IF p = <<>> THEN Null ELSE [s |-> Y.s, p |-> r]
  BY DEF copy
<1>3. p # <<>>
  BY <1>1, NoLimbs
<1>4. u \in Nat \ {0} /\ u <= Len(p)
  BY <1>1, UsedIs, MagnitudeOfUsed
<1> HIDE DEF p, l
<1>5. Kept(p) = u
  BY <1>1, <1>4, KeptIs
<1>6. m = IF l >= u THEN l ELSE u
  <2> HIDE DEF u
  <2> QED BY <1>1, <1>4, <1>5, MaxOfTwo
<1>7. q \in Seq(Limbs)
  <2> DEFINE z == 0
  <2>1. z \in Nat /\ z + u <= Len(p) /\ z + u = u /\ z + 1 = 1 /\ u \in Nat
    BY <1>4
  <2> HIDE DEF z, u
  <2>2. SubSeq(p, z + 1, z + u) \in Seq(Limbs)
    BY <1>1, <2>1, MagnitudeOfPiece
  <2> QED BY <1>5, <2>1, <2>2
<1>8. m \in Nat
  BY <1>1, <1>4, <1>6
<1> HIDE DEF m, q, u
<1>9. r \in Seq(Limbs) /\ Len(r) = m
  BY <1>7, <1>8, ResizedIs
<1> HIDE DEF r
<1>10. C.p = r /\ C.s = Y.s
  BY <1>2, <1>3
<1> QED BY <1>6, <1>8, <1>9, <1>10 DEF C, l, u, p

\* What a left shift makes of the number of limbs.
LEMMA GrownLength ==
  ASSUME NEW X \in Mpis, NEW count \in Nat
  PROVE  LET o == msb(X) + count
             L == Len(Grown(X, count).p)
         IN L = IF Len(X.p) * biL < o THEN BITS_TO_LIMBS(o) ELSE Len(X.p)
<1> DEFINE o == msb(X) + count
           f == BITS_TO_LIMBS(o)
           l == Len(X.p)
           G == Grown(X, count)
<1>1. msb(X) \in Nat /\ msb(X) <= l * biL /\ l \in Nat /\ biL \in Nat \ {0}
  BY MsbIs, MpiIs, BaseIsPositive
<1>2. o \in Nat
  BY <1>1
<1>3. G = IF l * biL < o THEN grow(X, f) ELSE X
  BY DEF Grown
<1> HIDE DEF o
<1>4. f \in Nat /\ f * biL >= o
  BY <1>1, <1>2, QuotientUp DEF BITS_TO_LIMBS
<1> HIDE DEF f, G
<1>5. Len(grow(X, f).p) = IF l >= f THEN l ELSE f
  BY <1>4, GrowIs
<1> HIDE DEF l
<1>6. CASE l * biL < o
  <2>1. f > l
    <3>1. SUFFICES ASSUME f <= l PROVE FALSE
      BY <1>1, <1>4
    <3>2. f * biL <= l * biL /\ f * biL \in Nat /\ l * biL \in Nat
      <4>1. biL \in Nat /\ biL <= biL
        BY <1>1
      <4> QED BY <1>1, <1>4, <3>1, <4>1, ProductsGrow
    <3> QED BY <1>2, <1>4, <1>6, <3>2
  <2>2. Len(G.p) = f
    BY <1>1, <1>3, <1>4, <1>5, <1>6, <2>1
  <2> QED BY <1>6, <2>2 DEF G, f, l, o
<1>7. CASE ~(l * biL < o)
  <2>1. Len(G.p) = l
    BY <1>3, <1>7 DEF l
  <2> QED BY <1>7, <2>1 DEF G, f, l, o
<1> QED BY <1>6, <1>7

LEMMA ShiftLength ==
  ASSUME NEW X \in Mpis, NEW count \in Nat
  PROVE  /\ Len(shift_l(X, count).p) = Len(Grown(X, count).p)
         /\ Len(shift_l(X, count).p) \in Nat
         /\ Len(shift_l(X, count).p) >= Len(X.p)
         /\ shift_l(X, count).s = X.s
<1> DEFINE G == Grown(X, count)
           p == G.p
           L == Len(p)
           v0 == count \div biL
           t1 == count % biL
           Moved(i) == IF i > v0 THEN p[i - v0] ELSE 0
           row == [i \in 1..L |-> ((Moved(i) * TwoTo[t1]) % Base)
                                     + (Moved(i - 1) \div TwoTo[biL - t1])]
           r == SubSeq(row, 1, L)
           C == shift_l(X, count)
<1>1. G \in Mpis /\ G.s = X.s
  BY GrownIs
<1>2. L \in Nat /\ G = [s |-> G.s, p |-> G.p]
  BY <1>1, MpiIs
<1>3. C = [G EXCEPT !.p = r]
  BY DEF shift_l, LimbSeq
<1>4. row = [i \in 1..L |-> row[i]]
  OBVIOUS
<1>5. L >= Len(X.p)
  <2> DEFINE n == BITS_TO_LIMBS(msb(X) + count)
  <2>1. G = IF Len(X.p) * biL < msb(X) + count THEN grow(X, n) ELSE X
    BY DEF Grown
  <2>2. n \in Nat
    <3>1. msb(X) + count \in Nat /\ biL \in Nat \ {0}
      BY MsbIs, BaseIsPositive
    <3> DEFINE o == msb(X) + count
    <3> HIDE DEF o
    <3>2. (o + biL - 1) \div biL \in Nat
      BY <3>1, QuotientUp DEF o
    <3> QED BY <3>2 DEF o, BITS_TO_LIMBS
  <2> HIDE DEF n, G
  <2>3. Len(grow(X, n).p) = (IF Len(X.p) >= n THEN Len(X.p) ELSE n) /\ Len(X.p) \in Nat
    BY <2>2, GrowIs, MpiIs
  <2> QED BY <2>1, <2>2, <2>3
<1> HIDE DEF row, G, C
<1>6. IsSeq(row) /\ Len(row) = L
  <2> HIDE DEF L
  <2> QED BY <1>2, <1>4, Tabulated
<1>7. Len(r) = L
  <2> HIDE DEF L
  <2>1. L \in Nat /\ L <= Len(row)
    BY <1>2, <1>6
  <2> QED BY <1>6, <2>1, FirstPart
<1> HIDE DEF r
<1>8. C.p = r /\ C.s = G.s
  BY <1>2, <1>3
<1> QED BY <1>1, <1>2, <1>5, <1>7, <1>8 DEF C, G, L

\* Sums and differences in place keep the limbs they find.
LEMMA AddToLength ==
  ASSUME NEW X \in Mpis, NEW o \in Seq(Limbs)
  PROVE  Len(add_to(X, o, FALSE).p) >= Len(X.p)
<1> DEFINE G == grow(X, Used(o))
           p == G.p
           n == Len(p)
           c == Carries(p, o, n, FALSE)
           low == [i \in 1..n |-> (((p[i] + c[i - 1]) % Base) + Limb(o, i)) % Base]
           r == SubSeq(low, 1, n)
           C == add_to(X, o, FALSE)
           full == IF c[n] = 0 THEN r ELSE Append(r, c[n])
<1>1. C.p = full
  BY DEF add_to, LimbSeq
<1>2. n \in Nat /\ n >= Len(X.p) /\ Len(X.p) \in Nat
  <2>1. Used(o) \in Nat
    BY UsedIs
  <2> DEFINE m == Used(o)
  <2> HIDE DEF m
  <2>2. Len(grow(X, m).p) = (IF Len(X.p) >= m THEN Len(X.p) ELSE m) /\ Len(X.p) \in Nat
    BY <2>1, GrowIs, MpiIs DEF m
  <2> QED BY <2>1, <2>2 DEF m
<1>3. low = [i \in 1..n |-> low[i]]
  OBVIOUS
<1> HIDE DEF low, C, n, c
<1>4. IsSeq(low) /\ Len(low) = n
  BY <1>2, <1>3, Tabulated
<1>5. IsSeq(r) /\ Len(r) = n
  BY <1>2, <1>4, FirstPart
<1> HIDE DEF r
<1>6. Len(Append(r, c[n])) = n + 1
  BY <1>5, Appended
<1>7. Len(full) >= n /\ Len(full) \in Nat
  <2>1. CASE c[n] = 0
    <3>1. full = r
      BY <2>1
    <3> QED BY <1>2, <1>5, <3>1
  <2>2. CASE c[n] # 0
    <3>1. full = Append(r, c[n])
      BY <2>2
    <3> QED BY <1>2, <1>6, <3>1
  <2> QED BY <2>1, <2>2
<1> HIDE DEF full
<1>8. Len(C.p) >= Len(X.p)
  BY <1>1, <1>2, <1>7
<1> QED BY <1>8, Zenon DEF C

LEMMA DifferenceLength ==
  ASSUME NEW S, NEW r \in [S -> Mpis], NEW x \in S, NEW b \in S
  PROVE  Len(Difference(r, x, x, b).p) >= Len(r[x].p)
<1> DEFINE X == r[x]  Y == r[b]  u == Magnitude(X.p)  w == Magnitude(Y.p)
           l == Len(X.p)
           D == Difference(r, x, x, b)
           Z == IF x = b THEN X ELSE copy(X, Y)
<1>1. X \in Mpis /\ Y \in Mpis
  OBVIOUS
<1>2. /\ X.p \in Seq(Limbs) /\ Y.p \in Seq(Limbs) /\ u \in Nat /\ w \in Nat /\ l \in Nat
  BY <1>1, MpiIs
<1>3. cmp_abs(X, Y) = IF u > w THEN 1 ELSE IF u < w THEN -1 ELSE 0
  BY <1>2, CmpAbs
<1>4. CASE u >= w
  <2> DEFINE p == sub_hlp(X.p, Y.p)
  <2>1. cmp_abs(X, Y) >= 0 /\ ~(cmp_abs(X, Y) < 0)
    BY <1>2, <1>3, <1>4
  <2>2. sub_abs(r, x, x, b) = [s |-> 1, p |-> p]
    BY <2>1 DEF sub_abs
  <2>3. D = [sub_abs(r, x, x, b) EXCEPT !.s = X.s]
    BY <2>1 DEF Difference
  <2>4. Len(p) = l
    BY <1>2, Borrowed
  <2> HIDE DEF p
  <2>5. D.p = p
    BY <2>2, <2>3
  <2> QED BY <1>2, <2>4, <2>5
<1>5. CASE u < w
  <2> DEFINE p == sub_hlp(Z.p, X.p)
  <2>1. cmp_abs(X, Y) = -1
    BY <1>2, <1>3, <1>5
  <2>2. cmp_abs(Y, X) = 1
    BY <1>2, <1>5, CmpAbs
  <2>3. sub_abs(r, x, b, x) = [s |-> 1, p |-> p]
    <3>1. ~(cmp_abs(Y, X) < 0)
      BY <2>2
    <3> QED BY <3>1 DEF sub_abs
  <2>4. D = [sub_abs(r, x, b, x) EXCEPT !.s = -X.s]
    <3>1. ~(cmp_abs(X, Y) >= 0)
      BY <2>1
    <3> QED BY <3>1 DEF Difference
  <2>5. Z \in Mpis /\ Len(Z.p) >= l /\ Len(Z.p) \in Nat
    <3>1. w # 0
      BY <1>2, <1>5
    <3>2. copy(X, Y) \in Mpis
      BY <1>1, CopyIs
    <3>3. Len(copy(X, Y).p) = IF l >= Used(Y.p) THEN l ELSE Used(Y.p)
      BY <1>1, <3>1, CopyLength
    <3>4. Used(Y.p) \in Nat
      BY <1>2, UsedIs
    <3> HIDE DEF X, Y
    <3> QED BY <1>1, <1>2, <3>2, <3>3, <3>4
  <2> HIDE DEF Z
  <2>6. Len(p) = Len(Z.p)
    <3>1. Z.p \in Seq(Limbs)
      BY <2>5, MpiIs
    <3> QED BY <1>2, <3>1, Borrowed
  <2> HIDE DEF p
  <2>7. D.p = p
    BY <2>3, <2>4
  <2> QED BY <2>5, <2>6, <2>7
<1> QED BY <1>2, <1>4, <1>5

LEMMA SumLength ==
  ASSUME NEW S, NEW r \in [S -> Mpis], NEW x \in S, NEW b \in S, x # b
  PROVE  /\ Len(add_mpi(r, x, x, b).p) >= Len(r[x].p)
         /\ Len(sub_mpi(r, x, x, b).p) >= Len(r[x].p)
<1> DEFINE D == Difference(r, x, x, b)
           Y == add_abs(r, x, x, b)
           Z == [Y EXCEPT !.s = r[x].s]
<1>1. r[x] \in Mpis /\ r[b] \in Mpis
  OBVIOUS
<1>2. Len(D.p) >= Len(r[x].p)
  BY DifferenceLength
<1>3. Len(Y.p) >= Len(r[x].p)
  <2>1. r[b].p \in Seq(Limbs)
    BY <1>1, MpiIs
  <2>2. Y = add_to(r[x], r[b].p, FALSE)
    BY Zenon DEF add_abs
  <2> QED BY <1>1, <2>1, <2>2, AddToLength
<1>4. Y \in Mpis
  BY AddAbsIs
<1> HIDE DEF Y
<1>5. Z.p = Y.p
  <2>1. Y = [s |-> Y.s, p |-> Y.p]
    BY <1>4, MpiIs
  <2> QED BY <2>1
<1>6. add_mpi(r, x, x, b) = IF r[x].s * r[b].s < 0 THEN D ELSE Z
  BY DEF add_mpi, Y
<1>7. sub_mpi(r, x, x, b) = IF r[x].s * r[b].s > 0 THEN D ELSE Z
  BY DEF sub_mpi, Y
<1> HIDE DEF D, Z
<1> QED BY <1>2, <1>3, <1>5, <1>6, <1>7

(* The highest limbs of a number. *)

LEMMA LeadingQuotient ==
  ASSUME NEW M \in Nat, NEW l \in Nat
  PROVE  Leading(M \div Places[l], Places[l], M) /\ M \div Places[l] \in Nat
<1> DEFINE P == Places[l]
<1>1. P \in Nat \ {0}
  BY PlacesAre
<1> HIDE DEF P
<1>2. /\ M \div P \in Nat /\ (M \div P) * P <= M /\ M < (M \div P + 1) * P
  BY <1>1, QuotientBetween
<1> QED BY <1>2 DEF Leading, P

LEMMA LeadingScaled ==
  ASSUME NEW u \in Nat, NEW W \in Nat, NEW X \in Nat, NEW b \in Nat \ {0}, Leading(u, W, X)
  PROVE  Leading(u, b * W, X * b)
<1> DEFINE f == u * W  g == (u + 1) * W
<1>1. f \in Nat /\ g \in Nat /\ f <= X /\ X < g
  BY DEF Leading
<1>2. u * (b * W) = f * b /\ (u + 1) * (b * W) = g * b
  OBVIOUS
<1> HIDE DEF f, g
<1>3. f * b <= X * b /\ X * b < g * b
  <2>1. f * b <= X * b
    BY <1>1
  <2>2. X * b < g * b
    BY <1>1
  <2> QED BY <2>1, <2>2
<1> QED BY <1>2, <1>3 DEF Leading

\* One more limb.
LEMMA QuotientByLimb ==
  ASSUME NEW p \in Seq(Limbs), NEW l \in Nat
  PROVE  Magnitude(p) \div Places[l]
           = (Magnitude(p) \div Places[l + 1]) * Base + Limb(p, l + 1)
<1> DEFINE M == Magnitude(p)  P == Places[l]  e == M \div P  g == M \div Places[l + 1]
           w == Limb(p, l + 1)
<1>1. M \in Nat /\ P \in Nat \ {0} /\ Places[l + 1] = Base * P /\ Base \in Nat \ {0}
  BY MagnitudeIsNatural, PlacesAre, BaseIsBig
<1>2. e % Base = w /\ e \in Nat
  BY LimbIsRemainder
<1>3. e \div Base = g
  <2>1. (M \div P) \div Base = M \div (P * Base)
    <3>1. M \in Int
      BY <1>1
    <3> HIDE DEF M, P
    <3> QED BY <1>1, <3>1, QuotientOfQuotient
  <2>2. P * Base = Base * P
    BY <1>1
  <2> QED BY <1>1, <2>1, <2>2
<1> HIDE DEF e, g, w
<1>4. e = Base * (e \div Base) + (e % Base) /\ e \div Base \in Int
  <2>1. e \in Int /\ Base \in Nat \ {0}
    BY <1>1, <1>2
  <2> QED BY <2>1, QuotientRemainder
<1>5. e = g * Base + w
  BY <1>1, <1>2, <1>3, <1>4, SMTT(30)
<1> QED BY <1>5 DEF e, g, w, M, P

LEMMA TopLimb ==
  ASSUME NEW p \in Seq(Limbs), NEW l \in Nat, Magnitude(p) < Places[l + 1]
  PROVE  Magnitude(p) \div Places[l] = Limb(p, l + 1)
<1> DEFINE M == Magnitude(p)  P == Places[l + 1]  w == Limb(p, l + 1)
<1>1. M \in Nat /\ P \in Nat \ {0} /\ M < P /\ Base \in Nat /\ w \in Nat
  <2>1. w \in Limbs /\ l + 1 \in Nat
    BY LimbIsSmall
  <2> QED BY <2>1, MagnitudeIsNatural, PlacesAre, BaseIsBig, LimbsAreSmall
<1>2. M \div Places[l] = (M \div P) * Base + w
  BY QuotientByLimb
<1> HIDE DEF M, P, w
<1>3. M \div P = 0
  BY <1>1
<1>4. 0 * Base + w = w
  BY <1>1
<1> QED BY <1>2, <1>3, <1>4 DEF M, w

TwoLimbs(p, l) == Limb(p, l + 1) * Base + Limb(p, l)
ThreeLimbs(p, l) == TwoLimbs(p, l) * Base + Limb(p, l - 1)

LEMMA NoLimbBelow ==
  ASSUME NEW p \in Seq(Limbs)
  PROVE  Limb(p, 0) = 0
<1>1. 0 \notin DOMAIN p
  OBVIOUS
<1> QED BY <1>1 DEF Limb

LEMMA LeadingLimbs ==
  ASSUME NEW p \in Seq(Limbs), NEW l \in Nat, Magnitude(p) < Places[l + 1]
  PROVE  /\ Leading(Limb(p, l + 1), Places[l], Magnitude(p))
         /\ Leading(TwoLimbs(p, l), Places[l], Magnitude(p) * Base)
         /\ l # 0 => /\ Leading(TwoLimbs(p, l), Places[l - 1], Magnitude(p))
                     /\ Leading(ThreeLimbs(p, l), Places[l - 1], Magnitude(p) * Base)
         /\ TwoLimbs(p, l) \in Nat /\ (l # 0 => ThreeLimbs(p, l) \in Nat)
<1> DEFINE M == Magnitude(p)  h == l - 1  w == Limb(p, l + 1)  x == Limb(p, l)
           u == TwoLimbs(p, l)
<1>1. M \in Nat /\ Base \in Nat \ {0} /\ w \in Nat /\ x \in Nat
  <2>1. w \in Limbs /\ x \in Limbs
    BY LimbIsSmall
  <2> QED BY <2>1, MagnitudeIsNatural, BaseIsBig, LimbsAreSmall
<1>2. M \div Places[l] = w
  BY TopLimb
<1>3. Leading(w, Places[l], M)
  BY <1>1, <1>2, LeadingQuotient
<1>4. u = w * Base + x /\ u \in Nat
  BY <1>1 DEF TwoLimbs
<1>5. ASSUME l # 0
      PROVE  /\ h \in Nat /\ h + 1 = l /\ M \div Places[h] = u
             /\ Leading(u, Places[h], M) /\ Leading(u, Places[l], M * Base)
  <2>1. h \in Nat /\ h + 1 = l
    BY <1>5
  <2> HIDE DEF h
  <2>2. M \div Places[h] = (M \div Places[h + 1]) * Base + Limb(p, h + 1)
    BY <2>1, QuotientByLimb
  <2>3. M \div Places[h] = u
    BY <1>2, <1>4, <2>1, <2>2
  <2> HIDE DEF u
  <2>4. Leading(u, Places[h], M)
    BY <1>1, <2>1, <2>3, LeadingQuotient
  <2>5. Places[h] \in Nat /\ Places[l] = Base * Places[h]
    BY <2>1, PlacesAre
  <2> DEFINE W == Places[h]
  <2> HIDE DEF W, M
  <2>6. Leading(u, Base * W, M * Base)
    BY <1>1, <1>4, <2>4, <2>5, LeadingScaled DEF W
  <2> QED BY <2>1, <2>3, <2>4, <2>5, <2>6 DEF W
<1>6. ASSUME l = 0
      PROVE  Leading(u, Places[l], M * Base)
  <2>1. x = 0 /\ Places[l] = 1
    BY <1>6, NoLimbBelow, PlacesAre
  <2>2. M \div 1 = M
    BY <1>1
  <2>3. u = M * Base /\ M * Base \in Nat
    BY <1>1, <1>2, <1>4, <2>1, <2>2
  <2> HIDE DEF u
  <2>4. u * 1 <= u /\ u < (u + 1) * 1
    BY <1>4
  <2> QED BY <2>1, <2>3, <2>4 DEF Leading
<1>7. ASSUME l # 0
      PROVE  /\ ThreeLimbs(p, l) \in Nat
             /\ Leading(ThreeLimbs(p, l), Places[h], M * Base)
  <2> DEFINE y == Limb(p, h)  c == ThreeLimbs(p, l)
  <2>1. h \in Nat /\ h + 1 = l /\ M \div Places[h] = u
    BY <1>5, <1>7
  <2>2. c = u * Base + y
    BY DEF ThreeLimbs
  <2> HIDE DEF h
  <2>3. y \in Limbs /\ y \in Nat
    <3>1. y \in Limbs
      BY LimbIsSmall
    <3> QED BY <3>1, LimbsAreSmall
  <2> HIDE DEF u, c
  <2>4. c \in Nat
    BY <1>1, <1>4, <2>2, <2>3, SMTT(30)
  <2>5. CASE h = 0
    <3>1. y = 0 /\ Places[h] = 1
      BY <2>5, NoLimbBelow, PlacesAre
    <3>2. M \div 1 = M
      BY <1>1
    <3>3. c = M * Base
      BY <1>1, <1>4, <2>1, <2>2, <3>1, <3>2
    <3>4. c * 1 <= c /\ c < (c + 1) * 1
      BY <2>4
    <3>5. Leading(c, Places[h], M * Base)
      BY <3>1, <3>3, <3>4 DEF Leading
    <3> QED BY <2>4, <3>5 DEF c
  <2>6. CASE h # 0
    <3> DEFINE g == h - 1  W == Places[g]
    <3>1. g \in Nat /\ g + 1 = h
      BY <2>1, <2>6
    <3> HIDE DEF g
    <3>2. M \div Places[g] = (M \div Places[g + 1]) * Base + Limb(p, g + 1)
      BY <3>1, QuotientByLimb
    <3>3. M \div W = c
      BY <2>1, <2>2, <3>1, <3>2
    <3>4. Leading(c, W, M)
      BY <1>1, <3>1, <3>3, LeadingQuotient
    <3>5. W \in Nat /\ Places[h] = Base * W
      BY <3>1, PlacesAre
    <3> HIDE DEF W, M
    <3>6. Leading(c, Base * W, M * Base)
      BY <1>1, <2>4, <3>4, <3>5, LeadingScaled
    <3> QED BY <2>4, <3>5, <3>6 DEF c, M
  <2> QED BY <2>5, <2>6
<1> QED BY <1>3, <1>4, <1>5, <1>6, <1>7

\* T1 and T2, as the do-while fills them.
LEMMA TwoLimbsAre ==
  ASSUME NEW a \in Limbs, NEW b \in Limbs, NEW n \in Nat, n >= 2
  PROVE  /\ Resized(<<a, b>>, n) \in Seq(Limbs) /\ Len(Resized(<<a, b>>, n)) = n
         /\ Magnitude(Resized(<<a, b>>, n)) = b * Base + a
<1> DEFINE p == <<a, b>>
<1>1. p \in Seq(Limbs) /\ Len(p) = 2 /\ Limb(p, 1) = a /\ Limb(p, 2) = b
  BY DEF Limb
<1> HIDE DEF p
<1>2. Used(p) <= n
  <2>1. Used(p) \in 0..Len(p)
    BY <1>1, UsedIs
  <2> QED BY <1>1, <2>1
<1>3. /\ Resized(p, n) \in Seq(Limbs) /\ Len(Resized(p, n)) = n
      /\ Magnitude(Resized(p, n)) = Magnitude(p)
  BY <1>1, <1>2, ResizedIs
<1>4. a \in Nat /\ b \in Nat /\ Base \in Nat
  BY LimbsAreSmall, BaseIsBig
<1>5. Magnitude(p) = b * Base + a
  <2> DEFINE z == 0  o == 1
  <2>1. /\ Worth(p)[z] = 0 /\ Worth(p)[z + 1] = Worth(p)[z] + Limb(p, z + 1) * Places[z]
        /\ Worth(p)[o + 1] = Worth(p)[o] + Limb(p, o + 1) * Places[o]
    <3>1. z \in Nat /\ o \in Nat
      OBVIOUS
    <3>2. Worth(p)[0] = 0
      BY <1>1, <3>1, WorthAt
    <3> HIDE DEF z, o
    <3>3. /\ Worth(p)[z + 1] = Worth(p)[z] + Limb(p, z + 1) * Places[z]
          /\ Worth(p)[o + 1] = Worth(p)[o] + Limb(p, o + 1) * Places[o]
      BY <1>1, <3>1, WorthAt
    <3> QED BY <3>2, <3>3 DEF z
  <2>2. Places[z] = 1 /\ Places[z + 1] = Base * Places[z]
    <3>1. z \in Nat /\ Places[0] = 1
      BY PlacesAre
    <3> HIDE DEF z
    <3>2. Places[z + 1] = Base * Places[z]
      BY <3>1, PlacesAre
    <3> QED BY <3>1, <3>2 DEF z
  <2>3. Magnitude(p) = Worth(p)[2]
    BY <1>1, MagnitudeIsWorth
  <2>4. z + 1 = 1 /\ o + 1 = 2 /\ z = 0 /\ o = 1
    OBVIOUS
  <2> HIDE DEF z, o
  <2>5. Worth(p)[1] = a * 1 /\ Worth(p)[2] = a * 1 + b * (Base * 1)
    BY <1>1, <1>4, <2>1, <2>2, <2>4
  <2> QED BY <1>4, <2>3, <2>5
<1> QED BY <1>3, <1>5 DEF p

LEMMA ThreeLimbsAre ==
  ASSUME NEW a \in Limbs, NEW b \in Limbs, NEW c \in Limbs, NEW n \in Nat, n >= 3
  PROVE  /\ Resized(<<a, b, c>>, n) \in Seq(Limbs) /\ Len(Resized(<<a, b, c>>, n)) = n
         /\ Magnitude(Resized(<<a, b, c>>, n)) = (c * Base + b) * Base + a
<1> DEFINE p == <<a, b, c>>  q == <<a, b>>
<1>1. /\ p \in Seq(Limbs) /\ Len(p) = 3 /\ q \in Seq(Limbs) /\ Len(q) = 2
      /\ p = Append(q, c)
  OBVIOUS
<1>2. a \in Nat /\ b \in Nat /\ c \in Nat /\ Base \in Nat
  BY LimbsAreSmall, BaseIsBig
<1>3. Magnitude(q) = b * Base + a
  <2> DEFINE m == 2
  <2>1. m \in Nat /\ m >= 2
    OBVIOUS
  <2> HIDE DEF m, q
  <2>2. Magnitude(Resized(<<a, b>>, m)) = b * Base + a
    BY <2>1, TwoLimbsAre
  <2>3. Used(q) <= m
    <3>1. Used(q) \in 0..Len(q)
      BY <1>1, UsedIs
    <3> QED BY <1>1, <2>1, <3>1
  <2>4. Magnitude(Resized(q, m)) = Magnitude(q)
    BY <1>1, <2>1, <2>3, ResizedIs
  <2> QED BY <2>2, <2>4 DEF q
<1> HIDE DEF p, q
<1>4. Used(p) <= n
  <2>1. Used(p) \in 0..Len(p)
    BY <1>1, UsedIs
  <2> QED BY <1>1, <2>1
<1>5. /\ Resized(p, n) \in Seq(Limbs) /\ Len(Resized(p, n)) = n
      /\ Magnitude(Resized(p, n)) = Magnitude(p)
  BY <1>1, <1>4, ResizedIs
<1>6. Magnitude(p) = Magnitude(q) + c * Places[2]
  <2>1. Magnitude(Append(q, c)) = Magnitude(q) + c * Places[Len(q)]
    BY <1>1, OneMore
  <2> QED BY <1>1, <2>1
<1>7. Places[2] = Base * Base
  <2> DEFINE z == 0  o == 1
  <2>1. z \in Nat /\ o \in Nat /\ Places[0] = 1
    BY PlacesAre
  <2>2. z + 1 = 1 /\ o + 1 = 2 /\ z = 0 /\ o = 1
    OBVIOUS
  <2> HIDE DEF z, o
  <2>3. Places[z + 1] = Base * Places[z] /\ Places[o + 1] = Base * Places[o]
    BY <2>1, PlacesAre
  <2> QED BY <1>2, <2>1, <2>2, <2>3
<1>8. (c * Base + b) * Base + a = (b * Base + a) + c * (Base * Base)
  BY <1>2
<1> QED BY <1>3, <1>5, <1>6, <1>7, <1>8 DEF p

\* What is left of an mpi that is not negative is not negative.
LEMMA ShiftRightSign ==
  ASSUME NEW X \in Mpis, NEW count \in Nat, X.s = 1
  PROVE  shift_r(X, count).s = 1
<1> DEFINE z == 0
<1>1. lset(X, z).s = 1
  BY DEF lset
<1>2. ASSUME NEW f PROVE [X EXCEPT !.p = f].s = 1
  BY MpiIs
<1>3. \A f : [X EXCEPT !.p = f].s = 1
  BY <1>2
<1> QED BY <1>1, <1>3 DEF shift_r

\* A limb is worth no more than the number.
LEMMA LimbIsWorth ==
  ASSUME NEW p \in Seq(Limbs), NEW l \in Nat
  PROVE  Limb(p, l + 1) * Places[l] <= Magnitude(p)
<1> DEFINE M == Magnitude(p)  P == Places[l]  w == Limb(p, l + 1)
           g == M \div Places[l + 1]
<1>1. M \in Nat /\ P \in Nat \ {0} /\ Base \in Nat /\ w \in Nat /\ g \in Nat
  <2>1. w \in Limbs
    BY LimbIsSmall
  <2>2. l + 1 \in Nat
    OBVIOUS
  <2> QED BY <2>1, <2>2, MagnitudeIsNatural, PlacesAre, BaseIsBig, LimbsAreSmall, LeadingQuotient
<1>2. M \div P = g * Base + w
  BY QuotientByLimb
<1> HIDE DEF M, P, w, g
<1>3. w <= M \div P
  <2>1. g * Base \in Nat
    BY <1>1
  <2> QED BY <1>1, <1>2, <2>1
<1>4. w * P <= M
  BY <1>1, <1>3, FitsQuotient
<1> QED BY <1>4 DEF M, P, w

\* The left shift that leaves all but one bit of the highest limb in use.
LEMMA BitsOfUsed ==
  ASSUME NEW X \in Mpis, Magnitude(X.p) # 0, Len(X.p) = Used(X.p)
  PROVE  LET m == msb(X)
             u == Len(X.p)
         IN /\ m \in Nat \ {0} /\ u \in Nat \ {0} /\ (u - 1) * biL < m /\ m <= u * biL
            /\ TwoTo[m - 1] <= Magnitude(X.p) /\ Magnitude(X.p) < TwoTo[m]
<1> DEFINE m == msb(X)  u == Len(X.p)  M == Magnitude(X.p)  h == u - 1  e == h * biL
<1>1. /\ m \in Nat /\ M < TwoTo[m] /\ m <= u * biL /\ M \in Nat
      /\ m # 0 => M >= TwoTo[m - 1]
  BY MsbIs, MpiIs
<1>2. u \in Nat \ {0} /\ Places[h] <= M
  <2>1. X.p \in Seq(Limbs) /\ u \in Nat
    BY MpiIs
  <2>2. /\ Used(X.p) # 0 => M >= Places[Used(X.p) - 1]
        /\ Used(X.p) = 0 <=> M = 0
    BY <2>1, MagnitudeOfUsed
  <2> QED BY <2>1, <2>2
<1>3. m # 0
  <2>1. TwoTo[0] = 1
    BY TwoToIsDefined
  <2> HIDE DEF M
  <2>2. M # 0
    BY DEF M
  <2> QED BY <1>1, <2>1, <2>2
<1>4. h \in Nat
  BY <1>2
<1>5. e \in Nat /\ Places[h] = TwoTo[e]
  <2> HIDE DEF h
  <2> QED BY <1>4, PlacesAreTwos
<1> HIDE DEF m, M, h, e
<1>6. e < m
  <2> SUFFICES ASSUME m <= e PROVE FALSE
    BY <1>1, <1>5
  <2>1. TwoTo[m] <= TwoTo[e] /\ TwoTo[m] \in Nat /\ TwoTo[e] \in Nat
    BY <1>1, <1>5, TwosGrow
  <2> QED BY <1>1, <1>2, <1>5, <2>1
<1> QED BY <1>1, <1>2, <1>3, <1>6 DEF m, M, h, e

LEMMA ShiftedRoom ==
  ASSUME NEW X \in Mpis, NEW c \in Nat, c < biL
  PROVE  Len(shift_l(X, c).p) <= Len(X.p) + 1
<1> DEFINE u == Len(X.p)  L == Len(shift_l(X, c).p)  m == msb(X)  o == m + c  w == u * biL
           f == (o + biL - 1) \div biL
<1>1. m \in Nat /\ m <= w /\ u \in Nat /\ biL \in Nat \ {0} /\ w \in Nat
  BY MsbIs, MpiIs, BaseIsPositive
<1>2. L = IF w < o THEN f ELSE u
  BY ShiftLength, GrownLength DEF BITS_TO_LIMBS
<1> DEFINE b == biL
<1>3. b \in Nat \ {0} /\ o \in Nat /\ o < w + b
  BY <1>1
<1> HIDE DEF b, o, L
<1>4. f \in Nat /\ f * b < o + b
  <2>1. (o + b - 1) \div b \in Nat /\ ((o + b - 1) \div b) * b < o + b
    BY <1>3, QuotientUp
  <2> QED BY <2>1 DEF b
<1> HIDE DEF f, w, u
<1>5. f <= u + 1
  <2> SUFFICES ASSUME f >= u + 2 PROVE FALSE
    BY <1>1, <1>4
  <2>1. f * b >= (u + 2) * b
    BY <1>1, <1>3, <1>4
  <2>2. (u + 2) * b = w + b + b
    BY <1>1, <1>3 DEF w, b
  <2>3. f * b \in Nat
    BY <1>3, <1>4
  <2> QED BY <1>1, <1>3, <1>4, <2>1, <2>2, <2>3
<1> QED BY <1>1, <1>2, <1>5 DEF L, u

\* The limbs that hold so many bits.
LEMMA LimbsForBits ==
  ASSUME NEW X \in Mpis, NEW c \in Nat, NEW m \in Nat, m = msb(X),
         NEW u \in Nat \ {0}, u = Len(X.p), (u - 1) * biL < m
  PROVE  LET L == Len(shift_l(X, c).p)
         IN L \in Nat \ {0} /\ (L - 1) * biL < m + c /\ m + c <= L * biL
<1> DEFINE L == Len(shift_l(X, c).p)  o == m + c  b == biL
           f == (o + b - 1) \div b
<1>1. b \in Nat \ {0} /\ o \in Nat
  BY BaseIsPositive
<1>2. L = IF u * b < o THEN f ELSE u
  BY ShiftLength, GrownLength DEF BITS_TO_LIMBS
<1> HIDE DEF b, o, L
<1>3. f \in Nat /\ f * b >= o /\ f * b < o + b
  BY <1>1, QuotientUp
<1> HIDE DEF f
<1>4. CASE u * b < o
  <2>1. f # 0
    <3>1. f = 0 => f * b = 0
      BY <1>1
    <3>2. u * b \in Nat
      BY <1>1
    <3> QED BY <1>1, <1>3, <1>4, <3>1, <3>2
  <2>2. (f - 1) * b = f * b - b /\ f * b \in Nat
    BY <1>1, <1>3
  <2>3. (f - 1) * b < o
    BY <1>1, <1>3, <2>2
  <2> QED BY <1>2, <1>3, <1>4, <2>1, <2>3 DEF b, o, L
<1>5. CASE ~(u * b < o)
  <2>1. u * b \in Nat /\ (u - 1) * b \in Int
    BY <1>1
  <2>2. (u - 1) * b < o
    BY <2>1 DEF b, o
  <2> QED BY <1>1, <1>2, <1>5, <2>1, <2>2 DEF b, o, L
<1> QED BY <1>4, <1>5

LEMMA NormalisedIs ==
  ASSUME NEW X \in Mpis, Magnitude(X.p) # 0, Len(X.p) = Used(X.p), NEW c \in Nat,
         (msb(X) + c) % biL = biL - 1
  PROVE  LET L == Len(shift_l(X, c).p)
             D == Magnitude(X.p) * TwoTo[c]
         IN /\ L \in Nat \ {0} /\ D \in Nat \ {0}
            /\ Places[L - 1] <= D /\ D < Places[L] /\ Places[L] <= 4 * D
<1> DEFINE m == msb(X)  u == Len(X.p)  M == Magnitude(X.p)  o == m + c  b == biL
           L == Len(shift_l(X, c).p)  D == M * TwoTo[c]  h == L - 1
<1>1. /\ m \in Nat \ {0} /\ u \in Nat \ {0} /\ (u - 1) * b < m /\ b \in Nat \ {0}
      /\ TwoTo[m - 1] <= M /\ M < TwoTo[m] /\ M \in Nat
  BY BitsOfUsed, MpiIs, BaseIsPositive
<1>2. L \in Nat \ {0} /\ h * b < o /\ o <= L * b
  BY <1>1, LimbsForBits
<1>3. o \in Nat \ {0} /\ o % b = b - 1 /\ h \in Nat
  <2>1. h \in Nat
    <3> HIDE DEF L
    <3> QED BY <1>2
  <2>2. o \in Nat \ {0}
    <3> HIDE DEF m
    <3> QED BY <1>1
  <2> QED BY <2>1, <2>2
<1> DEFINE e == h * b  g == L * b  j == o - 1  a == m - 1
<1>4. /\ e \in Nat /\ Places[h] = TwoTo[e] /\ g \in Nat /\ Places[L] = TwoTo[g]
  <2> HIDE DEF h, L
  <2> QED BY <1>2, <1>3, PlacesAreTwos
<1>5. g <= o + 1
  <2> DEFINE q == o \div b
  <2>1. q \in Int /\ o = b * q + (b - 1)
    <3>1. o \in Int
      BY <1>3
    <3> HIDE DEF o, b
    <3> QED BY <1>1, <1>3, <3>1, QuotientRemainder
  <2> HIDE DEF o, b, q, L
  <2>2. o + 1 = (q + 1) * b
    BY <1>1, <2>1
  <2>3. h < q + 1
    <3> SUFFICES ASSUME h >= q + 1 PROVE FALSE
      BY <1>3, <2>1
    <3> HIDE DEF h
    <3>1. h * b >= (q + 1) * b
      BY <1>1, <1>3, <2>1
    <3>2. h * b \in Int /\ (q + 1) * b \in Int
      BY <1>1, <1>3, <2>1
    <3> QED BY <1>2, <1>3, <2>2, <3>1, <3>2
  <2>4. L <= q + 1
    BY <1>2, <2>1, <2>3
  <2>5. L * b <= (q + 1) * b
    BY <1>1, <1>2, <2>1, <2>4
  <2> QED BY <2>2, <2>5
<1>6. /\ j \in Nat /\ a \in Nat /\ e <= j /\ o <= g /\ j = a + c /\ o = m + c
      /\ o = j + 1 /\ g <= j + 2
  <2> HIDE DEF e, g, m
  <2>1. j \in Nat /\ a \in Nat /\ j = a + c /\ o = m + c /\ o = j + 1
    BY <1>1, <1>3
  <2>2. e < o /\ o <= g
    BY <1>2 DEF e, g
  <2> HIDE DEF o, j, a
  <2> QED BY <1>3, <1>4, <1>5, <2>1, <2>2
<1> HIDE DEF e, g, j, a, o, h, L, M, m
<1>7. /\ TwoTo[o] = TwoTo[m] * TwoTo[c] /\ TwoTo[j] = TwoTo[a] * TwoTo[c]
      /\ TwoTo[c] \in Nat \ {0} /\ TwoTo[m] \in Nat /\ TwoTo[a] \in Nat
  <2>1. m \in Nat /\ c \in Nat /\ a \in Nat
    BY <1>1, <1>6
  <2>2. TwoTo[m + c] = TwoTo[m] * TwoTo[c] /\ TwoTo[a + c] = TwoTo[a] * TwoTo[c]
    BY <2>1, TwoToSum
  <2>3. TwoTo[c] \in Nat \ {0} /\ TwoTo[m] \in Nat /\ TwoTo[a] \in Nat
    BY <2>1, TwoToAt
  <2> QED BY <1>6, <2>2, <2>3
<1>8. /\ TwoTo[e] <= TwoTo[j] /\ TwoTo[o] <= TwoTo[g] /\ TwoTo[g] <= TwoTo[j + 2]
      /\ TwoTo[e] \in Nat /\ TwoTo[g] \in Nat /\ TwoTo[j] \in Nat \ {0} /\ TwoTo[o] \in Nat
      /\ TwoTo[j + 2] \in Nat
  <2>1. j + 2 \in Nat
    BY <1>6
  <2> QED BY <1>3, <1>4, <1>6, <2>1, TwosGrow
<1>9. TwoTo[j + 2] = 4 * TwoTo[j]
  <2>1. TwoTo[j + 2] = TwoTo[j] * TwoTo[2]
    BY <1>6, TwoToSum
  <2> QED BY <1>8, <2>1, SmallPowersOfTwo
<1>10. TwoTo[j] <= D /\ D < TwoTo[o] /\ D \in Nat
  <2> DEFINE x == TwoTo[a]  y == TwoTo[m]  w == TwoTo[c]
  <2>1. x \in Nat /\ y \in Nat /\ w \in Nat \ {0} /\ x <= M /\ M < y /\ D = M * w
    BY <1>1, <1>7 DEF a, m, M
  <2> HIDE DEF x, y, w, D
  <2>2. x * w <= M * w /\ M * w < y * w /\ M * w \in Nat
    BY <1>1, <2>1
  <2> QED BY <1>7, <2>1, <2>2 DEF x, y, w
<1> HIDE DEF D
<1>11. /\ D \in Nat \ {0} /\ Places[h] <= D /\ D < Places[L] /\ Places[L] <= 4 * D
  BY <1>4, <1>8, <1>9, <1>10, SMTT(30)
<1> QED BY <1>2, <1>11 DEF h, L, D, M
=============================================================================
