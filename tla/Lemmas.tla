------------------------------- MODULE Lemmas -------------------------------
(***************************************************************************)
(* The facts about data that the other proofs rest on: induction over the  *)
(* natural numbers, recursive functions on them, quotients, powers and     *)
(* digits; and sequences whose elements have no type in common.            *)
(***************************************************************************)
EXTENDS Powers, Sequences, WellFoundedInduction, TLAPS

\* Induction for a set, from the fact that < is well-founded.
LEMMA LeastElement ==
  ASSUME NEW S, S \subseteq Nat, S # {}
  PROVE  \E x \in S : \A y \in S : x <= y
<1> DEFINE R == {ss \in Nat \X Nat : ss[1] < ss[2]}
<1>1. IsWellFoundedOn(R, Nat)
  BY NatLessThanWellFounded DEF OpToRel
<1>2. PICK x \in S : \A y \in S : <<y, x>> \notin R
  <2> HIDE DEF R
  <2> QED BY <1>1, WFMin
<1>3. x \in Nat /\ \A y \in S : y \in Nat
  OBVIOUS
<1>4. \A y \in S : ~(y < x)
  BY <1>2, <1>3
<1> HIDE DEF R
<1>5. \A y \in S : x <= y
  BY <1>3, <1>4
<1> QED BY <1>5

LEMMA Induction ==
  ASSUME NEW S, 0 \in S, \A n \in Nat : n \in S => n + 1 \in S
  PROVE  Nat \subseteq S
<1>1. SUFFICES ASSUME Nat \ S # {} PROVE FALSE
  OBVIOUS
<1>2. PICK x \in Nat \ S : \A y \in Nat \ S : x <= y
  BY <1>1, LeastElement
<1> QED BY <1>2

LEMMA BoundedInduction ==
  ASSUME NEW S, NEW n \in Nat, 0 \in S,
         \A k \in 0..(n - 1) : k \in S => k + 1 \in S
  PROVE  \A k \in 0..n : k \in S
<1> DEFINE T == {k \in Nat : k <= n => k \in S}
<1>1. 0 \in T
  OBVIOUS
<1>2. \A k \in Nat : k \in T => k + 1 \in T
  OBVIOUS
<1>3. Nat \subseteq T
  <2> HIDE DEF T
  <2> QED BY <1>1, <1>2, Induction
<1> QED BY <1>3
(***************************************************************************)
(* A function can be defined by its value at 0 and the step from one value *)
(* to the next: there is one on every 0..n, they agree, and together they  *)
(* are one on Nat.                                                         *)
(***************************************************************************)
Steps(g, n, first, Step) ==
  /\ g[0] = first
  /\ \A k \in 0..(n - 1) : g[k + 1] = Step[<<k, g[k]>>]

Stays(Range, Step) == \A k \in Nat, v \in Range : Step[<<k, v>>] \in Range
IsRecursive(f, first, Step) ==
  f[0] = first /\ \A n \in Nat : f[n + 1] = Step[<<n, f[n]>>]

LEMMA StepsAgree ==
  ASSUME NEW first, NEW Step, NEW n \in Nat, NEW m \in Nat, NEW g, NEW h,
         n <= m, Steps(g, n, first, Step), Steps(h, m, first, Step)
  PROVE  \A k \in 0..n : g[k] = h[k]
<1> DEFINE S == {k \in Nat : k <= n => g[k] = h[k]}
<1>1. 0 \in S
  BY DEF Steps
<1>2. ASSUME NEW k \in Nat, k \in S PROVE k + 1 \in S
  <2>1. SUFFICES ASSUME k + 1 <= n PROVE g[k + 1] = h[k + 1]
    OBVIOUS
  <2>2. g[k] = h[k] /\ k \in 0..(n - 1) /\ k \in 0..(m - 1)
    BY <1>2, <2>1
  <2> QED BY <2>2 DEF Steps
<1> HIDE DEF S
<1>3. Nat \subseteq S
  BY <1>1, <1>2, Induction
<1> QED BY <1>3 DEF S

LEMMA StepsExist ==
  ASSUME NEW Range, NEW first \in Range, NEW Step, Stays(Range, Step),
         NEW n \in Nat
  PROVE  \E g \in [0..n -> Range] : Steps(g, n, first, Step)
<1> DEFINE S == {m \in Nat : \E g \in [0..m -> Range] : Steps(g, m, first, Step)}
<1>1. 0 \in S
  <2>1. [k \in 0..0 |-> first] \in [0..0 -> Range]
        /\ Steps([k \in 0..0 |-> first], 0, first, Step)
    BY DEF Steps
  <2> QED BY <2>1
<1>2. ASSUME NEW m \in Nat, m \in S PROVE m + 1 \in S
  <2>1. PICK g \in [0..m -> Range] : Steps(g, m, first, Step)
    BY <1>2
  <2> DEFINE h == [k \in 0..(m + 1) |->
                     IF k <= m THEN g[k] ELSE Step[<<m, g[m]>>]]
  <2>2. h \in [0..(m + 1) -> Range]
    BY <2>1 DEF Stays
  <2>3. h[0] = first
    BY <2>1 DEF Steps
  <2>4. ASSUME NEW k \in 0..((m + 1) - 1) PROVE h[k + 1] = Step[<<k, h[k]>>]
    <3>1. CASE k = m
      <4>1. h[m + 1] = Step[<<m, g[m]>>] /\ h[m] = g[m]
        BY <2>1
      <4> QED BY <3>1, <4>1
    <3>2. CASE k < m
      <4>1. k \in 0..(m - 1) /\ k + 1 \in 0..m /\ k \in 0..m
        BY <3>2
      <4>2. h[k + 1] = g[k + 1] /\ h[k] = g[k]
        BY <4>1
      <4> QED BY <2>1, <4>1, <4>2 DEF Steps
    <3> QED BY <3>1, <3>2
  <2> HIDE DEF h
  <2>5. Steps(h, m + 1, first, Step)
    BY <2>3, <2>4 DEF Steps
  <2> QED BY <2>2, <2>5
<1> HIDE DEF S
<1>3. Nat \subseteq S
  BY <1>1, <1>2, Induction
<1> QED BY <1>3 DEF S

LEMMA Recursion ==
  ASSUME NEW Range, NEW first \in Range, NEW Step, Stays(Range, Step)
  PROVE  \E f \in [Nat -> Range] : IsRecursive(f, first, Step)
<1> DEFINE On(n) == CHOOSE g \in [0..n -> Range] : Steps(g, n, first, Step)
           f == [n \in Nat |-> On(n)[n]]
<1>1. ASSUME NEW n \in Nat
      PROVE  On(n) \in [0..n -> Range] /\ Steps(On(n), n, first, Step)
  BY StepsExist
<1> HIDE DEF On
<1>2. f \in [Nat -> Range]
  BY <1>1
<1>3. f[0] = first
  BY <1>1 DEF Steps
<1>4. ASSUME NEW n \in Nat PROVE f[n + 1] = Step[<<n, f[n]>>]
  <2>1. n \in 0..n /\ n \in 0..((n + 1) - 1) /\ n <= n + 1 /\ n + 1 \in Nat
    OBVIOUS
  <2>2. On(n)[n] = On(n + 1)[n]
    BY <1>1, <2>1, StepsAgree
  <2>3. On(n + 1)[n + 1] = Step[<<n, On(n + 1)[n]>>]
    BY <1>1, <2>1 DEF Steps
  <2> QED BY <2>1, <2>2, <2>3
<1> QED BY <1>2, <1>3, <1>4 DEF IsRecursive

\* The same where the step is told the number it leads to, up to n.
LeadsTo(Range, n, Step) == \A k \in 1..n, v \in Range : Step[<<k, v>>] \in Range
IsLed(g, n, first, Step) ==
  \A k \in 0..n : g[k] = IF k = 0 THEN first ELSE Step[<<k, g[k - 1]>>]

LEMMA BoundedRecursion ==
  ASSUME NEW Range, NEW first \in Range, NEW n \in Nat, NEW Step,
         LeadsTo(Range, n, Step)
  PROVE  \E g \in [0..n -> Range] : IsLed(g, n, first, Step)
<1> DEFINE Shifted == [t \in Nat \X Range |->
                         IF t[1] < n THEN Step[<<t[1] + 1, t[2]>>] ELSE first]
<1>1. \A k \in Nat, v \in Range :
        Shifted[<<k, v>>] = IF k < n THEN Step[<<k + 1, v>>] ELSE first
  OBVIOUS
<1> HIDE DEF Shifted
<1>2. Stays(Range, Shifted)
  <2> SUFFICES ASSUME NEW k \in Nat, NEW v \in Range
               PROVE  Shifted[<<k, v>>] \in Range
    BY DEF Stays
  <2>1. k < n => k + 1 \in 1..n
    OBVIOUS
  <2> QED BY <1>1, <2>1 DEF LeadsTo
<1>3. PICK g \in [0..n -> Range] : Steps(g, n, first, Shifted)
  BY <1>2, StepsExist
<1>4. ASSUME NEW k \in 0..n, k # 0 PROVE g[k] = Step[<<k, g[k - 1]>>]
  <2> DEFINE h == k - 1
  <2>1. h \in 0..(n - 1) /\ h \in Nat /\ h + 1 = k /\ h < n /\ h \in 0..n
    BY <1>4
  <2> HIDE DEF h
  <2>2. g[h + 1] = Shifted[<<h, g[h]>>] /\ g[h] \in Range
    BY <1>3, <2>1 DEF Steps
  <2>3. g[k] = Step[<<k, g[h]>>]
    BY <1>1, <2>1, <2>2
  <2> QED BY <2>3 DEF h
<1> QED BY <1>3, <1>4 DEF Steps, IsLed
----------------------------------------------------------------------------
(* Powers. *)

LEMMA PowersAreDefined ==
  ASSUME NEW base \in Nat \ {0}
  PROVE  /\ PowersOf(base) \in [Nat -> Nat \ {0}]
         /\ PowersOf(base)[0] = 1
         /\ \A n \in Nat : PowersOf(base)[n + 1] = base * PowersOf(base)[n]
<1> DEFINE Positive == Nat \ {0}
           one == 1
           Times == [s \in Nat \X Positive |-> base * s[2]]
<1>1. \A k \in Nat, v \in Positive :
        Times[<<k, v>>] = base * v /\ base * v \in Positive
  OBVIOUS
<1>2. PICK f \in [Nat -> Positive] : IsRecursive(f, one, Times)
  <2>1. one \in Positive /\ Stays(Positive, Times)
    BY <1>1 DEF Stays
  <2> HIDE DEF Positive, Times, one
  <2> QED BY <2>1, Recursion
<1>3. \A n \in Nat : f[n + 1] = base * f[n]
  BY <1>1, <1>2 DEF IsRecursive
<1>4. \A n \in Nat : f[n] = IF n = 0 THEN 1 ELSE base * f[n - 1]
  <2>1. ASSUME NEW n \in Nat, n # 0 PROVE f[n] = base * f[n - 1]
    <3>1. n - 1 \in Nat /\ n = (n - 1) + 1
      BY <2>1
    <3> QED BY <1>3, <3>1
  <2> QED BY <1>2, <2>1 DEF IsRecursive
<1> DEFINE Is(g) == g = [n \in Nat |-> IF n = 0 THEN 1 ELSE base * g[n - 1]]
<1>5. Is(f)
  BY <1>2, <1>4
<1>6. Is(PowersOf(base))
  BY <1>5 DEF PowersOf
<1> DEFINE p == PowersOf(base)
           S == {n \in Nat : p[n] = f[n]}
<1>7. \A n \in Nat : p[n] = IF n = 0 THEN 1 ELSE base * p[n - 1]
  BY <1>6
<1> HIDE DEF p
<1>8. 0 \in S
  BY <1>2, <1>7 DEF IsRecursive
<1>9. \A n \in Nat : n \in S => n + 1 \in S
  BY <1>3, <1>7
<1>10. Nat \subseteq S
  <2> HIDE DEF S
  <2> QED BY <1>8, <1>9, Induction
<1>11. p = [n \in Nat |-> IF n = 0 THEN 1 ELSE base * p[n - 1]]
  BY <1>6 DEF p
<1>12. p = f
  BY <1>2, <1>10, <1>11
<1> QED BY <1>2, <1>3, <1>12 DEF p, IsRecursive

LEMMA PowersAdd ==
  ASSUME NEW base \in Nat \ {0}, NEW m \in Nat, NEW n \in Nat
  PROVE  PowersOf(base)[m + n] = PowersOf(base)[m] * PowersOf(base)[n]
<1> DEFINE p == PowersOf(base)
           S == {k \in Nat : p[m + k] = p[m] * p[k]}
<1>1. p \in [Nat -> Nat \ {0}] /\ p[0] = 1
      /\ \A k \in Nat : p[k + 1] = base * p[k]
  BY PowersAreDefined
<1> HIDE DEF p
<1>2. 0 \in S
  BY <1>1
<1>3. ASSUME NEW k \in Nat, k \in S PROVE k + 1 \in S
  <2>1. p[m + (k + 1)] = base * p[m + k]
    <3>1. m + (k + 1) = (m + k) + 1 /\ m + k \in Nat
      OBVIOUS
    <3> QED BY <1>1, <3>1
  <2>2. p[m + k] = p[m] * p[k] /\ p[k + 1] = base * p[k]
    BY <1>1, <1>3
  <2>3. p[m] \in Nat /\ p[k] \in Nat
    BY <1>1
  <2>4. base * (p[m] * p[k]) = p[m] * (base * p[k])
    BY <2>3
  <2> QED BY <2>1, <2>2, <2>4
<1> HIDE DEF S
<1>4. Nat \subseteq S
  BY <1>2, <1>3, Induction
<1> QED BY <1>4 DEF S, p

LEMMA TwoToIsDefined ==
  /\ TwoTo \in [Nat -> Nat \ {0}]
  /\ TwoTo[0] = 1
  /\ \A n \in Nat : TwoTo[n + 1] = 2 * TwoTo[n]
  /\ \A m, n \in Nat : TwoTo[m + n] = TwoTo[m] * TwoTo[n]
  BY PowersAreDefined, PowersAdd DEF TwoTo

LEMMA SmallPowersOfTwo ==
  /\ TwoTo[1] = 2 /\ TwoTo[2] = 4 /\ TwoTo[3] = 8 /\ TwoTo[4] = 16
  /\ TwoTo[5] = 32 /\ TwoTo[6] = 64
<1>1. /\ TwoTo[0] = 1 /\ TwoTo[0 + 1] = 2 * TwoTo[0]
      /\ TwoTo[1 + 1] = 2 * TwoTo[1] /\ TwoTo[2 + 1] = 2 * TwoTo[2]
      /\ TwoTo[3 + 1] = 2 * TwoTo[3] /\ TwoTo[4 + 1] = 2 * TwoTo[4]
      /\ TwoTo[5 + 1] = 2 * TwoTo[5]
  BY TwoToIsDefined
<1> QED BY <1>1
----------------------------------------------------------------------------
(* Quotients. *)

LEMMA ProductsGrow ==
  ASSUME NEW a \in Nat, NEW b \in Nat, NEW c \in Nat, NEW e \in Nat, a <= b, c <= e
  PROVE  a * c <= b * e /\ a * c \in Nat /\ b * e \in Nat
<1>1. a * c <= b * c
  OBVIOUS
<1>2. b * c <= b * e
  OBVIOUS
<1>3. a * c \in Nat /\ b * c \in Nat /\ b * e \in Nat
  OBVIOUS
<1> QED BY <1>1, <1>2, <1>3

LEMMA QuotientUnique ==
  ASSUME NEW y \in Nat \ {0}, NEW q \in Int, NEW r \in 0..(y - 1)
  PROVE  (y * q + r) \div y = q /\ (y * q + r) % y = r
  OBVIOUS

LEMMA QuotientRemainder ==
  ASSUME NEW x \in Int, NEW y \in Nat \ {0}
  PROVE  /\ x \div y \in Int /\ x % y \in 0..(y - 1)
         /\ x = y * (x \div y) + (x % y)
         /\ x >= 0 => x \div y >= 0
  OBVIOUS

LEMMA QuotientOfQuotient ==
  ASSUME NEW x \in Int, NEW a \in Nat \ {0}, NEW b \in Nat \ {0}
  PROVE  (x \div a) \div b = x \div (a * b)
<1> DEFINE q == x \div a
           r == q \div b
           s == q % b
           t == x % a
<1>1. q \in Int /\ t \in 0..(a - 1) /\ x = a * q + t
  BY QuotientRemainder
<1>2. r \in Int /\ s \in 0..(b - 1) /\ q = b * r + s
  <2> HIDE DEF q
  <2> QED BY <1>1, QuotientRemainder
<1> HIDE DEF q, r, s, t
<1>3. x = (a * b) * r + (a * s + t)
  <2>1. a * (b * r + s) = (a * b) * r + a * s
    BY <1>2
  <2> QED BY <1>1, <1>2, <2>1
<1>4. a * s + t \in 0..(a * b - 1)
  <2>1. a * s <= a * (b - 1)
    BY <1>2
  <2>2. a * (b - 1) = a * b - a
    OBVIOUS
  <2> QED BY <1>1, <1>2, <2>1, <2>2
<1>5. a * b \in Nat \ {0}
  OBVIOUS
<1>6. x \div (a * b) = r
  BY <1>2, <1>3, <1>4, <1>5, QuotientUnique
<1> QED BY <1>6 DEF r, q

\* What a multiple of a divisor contributes to a quotient.
LEMMA QuotientOfSum ==
  ASSUME NEW x \in Int, NEW y \in Int, NEW b \in Nat \ {0}
  PROVE  (x * b + y) \div b = x + y \div b
<1> DEFINE q == y \div b
           r == y % b
<1>1. q \in Int /\ r \in 0..(b - 1) /\ y = b * q + r
  BY QuotientRemainder
<1> HIDE DEF q, r
<1>2. x * b + y = b * (x + q) + r
  BY <1>1
<1>3. (x * b + y) \div b = x + q
  BY <1>1, <1>2, QuotientUnique
<1> QED BY <1>3 DEF q
----------------------------------------------------------------------------
(* Digits. *)

LEMMA RemainderOfProduct ==
  ASSUME NEW v \in Nat, NEW c \in Nat \ {0}, NEW base \in Nat \ {0}
  PROVE  v % (base * c) = ((v \div c) % base) * c + (v % c)
<1> DEFINE q == v \div c
           r == v % c
           h == q \div base
           b == q % base
<1>1. q \in Int /\ r \in 0..(c - 1) /\ v = c * q + r
  BY QuotientRemainder
<1> HIDE DEF q, r
<1>2. h \in Int /\ b \in 0..(base - 1) /\ q = base * h + b
  BY <1>1, QuotientRemainder
<1> HIDE DEF h, b
<1>3. v = (base * c) * h + (b * c + r)
  <2>1. c * (base * h + b) = (base * c) * h + b * c
    BY <1>2
  <2> QED BY <1>1, <1>2, <2>1
<1>4. b * c + r \in 0..(base * c - 1)
  <2>1. b * c <= (base - 1) * c /\ b * c \in Nat
    BY <1>2
  <2>2. (base - 1) * c = base * c - c
    OBVIOUS
  <2> QED BY <1>1, <2>1, <2>2
<1>5. base * c \in Nat \ {0}
  OBVIOUS
<1>6. v % (base * c) = b * c + r
  BY <1>2, <1>3, <1>4, <1>5, QuotientUnique
<1> QED BY <1>6 DEF q, r, h, b

LEMMA PowerAt ==
  ASSUME NEW base \in Nat \ {0}, NEW n \in Nat
  PROVE  /\ PowersOf(base)[n] \in Nat \ {0}
         /\ PowersOf(base)[n + 1] = base * PowersOf(base)[n]
BY PowersAreDefined

LEMMA DigitIsSmall ==
  ASSUME NEW base \in Nat \ {0}, NEW n \in Nat, NEW k \in Nat
  PROVE  Digit(base, n, k) \in 0..(base - 1)
<1> DEFINE c == PowersOf(base)[k]
           q == n \div c
<1>1. c \in Nat \ {0}
  BY PowerAt
<1>2. q \in Int
  <2> HIDE DEF c
  <2> QED BY <1>1
<1> HIDE DEF q
<1>3. q % base \in 0..(base - 1)
  BY <1>2, QuotientRemainder
<1> QED BY <1>3 DEF Digit, q

\* One more digit of a number.
LEMMA DigitOfRemainder ==
  ASSUME NEW base \in Nat \ {0}, NEW n \in Nat, NEW k \in Nat
  PROVE  /\ n % PowersOf(base)[k] \in 0..(PowersOf(base)[k] - 1)
         /\ n % PowersOf(base)[k + 1] =
              Digit(base, n, k) * PowersOf(base)[k] + (n % PowersOf(base)[k])
<1> DEFINE c == PowersOf(base)[k]
<1>1. c \in Nat \ {0} /\ PowersOf(base)[k + 1] = base * c
  BY PowerAt
<1>2. Digit(base, n, k) = (n \div c) % base
  BY DEF Digit
<1> HIDE DEF c
<1>3. n % c \in 0..(c - 1)
  BY <1>1
<1>4. n % (base * c) = ((n \div c) % base) * c + (n % c)
  BY <1>1, RemainderOfProduct
<1> QED BY <1>1, <1>2, <1>3, <1>4 DEF c

\* The remainder is the greatest if and only if every digit is.
AllHigh(base, n, k) == \A j \in 0..(k - 1) : Digit(base, n, j) = base - 1

LEMMA HighDigits ==
  ASSUME NEW base \in Nat \ {0}, NEW n \in Nat, NEW k \in Nat
  PROVE  n % PowersOf(base)[k] = PowersOf(base)[k] - 1 <=> AllHigh(base, n, k)
<1> DEFINE P == PowersOf(base)
           High(m) == n % P[m] = P[m] - 1
           S == {m \in Nat : High(m) <=> AllHigh(base, n, m)}
<1>1. 0 \in S
  <2>1. P[0] = 1
    BY PowersAreDefined
  <2>2. n % 1 = 0
    OBVIOUS
  <2> QED BY <2>1, <2>2 DEF AllHigh
<1>2. ASSUME NEW m \in Nat, m \in S PROVE m + 1 \in S
  <2> DEFINE c == P[m]
             r == n % c
             d == Digit(base, n, m)
  <2>1. /\ c \in Nat \ {0} /\ P[m + 1] = base * c
        /\ r \in 0..(c - 1) /\ d \in 0..(base - 1) /\ n % P[m + 1] = d * c + r
    BY PowerAt, DigitOfRemainder, DigitIsSmall
  <2>2. AllHigh(base, n, m + 1) <=> AllHigh(base, n, m) /\ d = base - 1
    <3>1. 0..((m + 1) - 1) = 0..(m - 1) \cup {m}
      OBVIOUS
    <3> QED BY <3>1 DEF AllHigh
  <2>3. High(m) <=> r = c - 1
    OBVIOUS
  <2>4. High(m + 1) <=> d * c + r = base * c - 1
    BY <2>1
  <2> HIDE DEF c, r, d, High
  <2>5. d * c + r = base * c - 1 <=> r = c - 1 /\ d = base - 1
    <3>1. CASE d = base - 1
      <4>1. d * c = base * c - c
        BY <2>1, <3>1
      <4> QED BY <2>1, <3>1, <4>1
    <3>2. CASE d # base - 1
      <4>1. d * c <= (base - 2) * c
        BY <2>1, <3>2
      <4>2. (base - 2) * c = base * c - 2 * c
        BY <2>1
      <4> QED BY <2>1, <3>2, <4>1, <4>2
    <3> QED BY <3>1, <3>2
  <2> QED BY <1>2, <2>2, <2>3, <2>4, <2>5
<1>3. Nat \subseteq S
  <2> HIDE DEF S
  <2> QED BY <1>1, <1>2, Induction
<1> QED BY <1>3

\* Adding one carries through the digits that are the greatest.
LEMMA NextDigit ==
  ASSUME NEW base \in Nat \ {0}, NEW n \in Nat, NEW k \in Nat
  PROVE  Digit(base, n + 1, k) =
           IF AllHigh(base, n, k) THEN (Digit(base, n, k) + 1) % base
           ELSE Digit(base, n, k)
<1> DEFINE c == PowersOf(base)[k]
           q == n \div c
           r == n % c
<1>1. c \in Nat \ {0}
  BY PowerAt
<1>2. r = c - 1 <=> AllHigh(base, n, k)
  BY HighDigits
<1>3. Digit(base, n, k) = q % base /\ Digit(base, n + 1, k) = ((n + 1) \div c) % base
  BY DEF Digit
<1> HIDE DEF c
<1>4. q \in Int /\ r \in 0..(c - 1) /\ n = c * q + r
  BY <1>1, QuotientRemainder
<1> HIDE DEF q, r
<1>5. CASE r = c - 1
  <2>1. n + 1 = c * (q + 1) + 0 /\ q + 1 \in Int /\ 0 \in 0..(c - 1)
    BY <1>1, <1>4, <1>5
  <2>2. (n + 1) \div c = q + 1
    BY <1>1, <2>1, QuotientUnique
  <2>3. (q + 1) % base = ((q % base) + 1) % base
    <3> DEFINE h == q \div base
               b == q % base
    <3>1. h \in Int /\ b \in 0..(base - 1) /\ q = base * h + b
      BY <1>4, QuotientRemainder
    <3> HIDE DEF h, b
    <3>2. CASE b = base - 1
      <4>1. q + 1 = base * (h + 1) + 0 /\ b + 1 = base * 1 + 0
        BY <3>1, <3>2
      <4>2. (q + 1) % base = 0 /\ (b + 1) % base = 0
        <5>1. h + 1 \in Int /\ 0 \in 0..(base - 1)
          BY <3>1
        <5> QED BY <4>1, <5>1, QuotientUnique
      <4> QED BY <4>2 DEF b
    <3>3. CASE b # base - 1
      <4>1. q + 1 = base * h + (b + 1) /\ b + 1 = base * 0 + (b + 1)
            /\ b + 1 \in 0..(base - 1)
        BY <3>1, <3>3
      <4>2. (q + 1) % base = b + 1 /\ (b + 1) % base = b + 1
        BY <3>1, <4>1, QuotientUnique
      <4> QED BY <4>2 DEF b
    <3> QED BY <3>2, <3>3
  <2> QED BY <1>2, <1>3, <1>5, <2>2, <2>3
<1>6. CASE r # c - 1
  <2>1. n + 1 = c * q + (r + 1) /\ r + 1 \in 0..(c - 1)
    BY <1>1, <1>4, <1>6
  <2>2. (n + 1) \div c = q
    BY <1>1, <1>4, <2>1, QuotientUnique
  <2> QED BY <1>2, <1>3, <1>6, <2>2
<1> QED BY <1>5, <1>6

\* Numbers that agree in every digit are the same.
SameDigits(base, m, n, k) ==
  \A j \in 0..(k - 1) : Digit(base, m, j) = Digit(base, n, j)

LEMMA DigitsDetermine ==
  ASSUME NEW base \in Nat \ {0}, NEW k \in Nat, NEW m \in Nat, NEW n \in Nat,
         SameDigits(base, m, n, k)
  PROVE  m % PowersOf(base)[k] = n % PowersOf(base)[k]
<1> DEFINE P == PowersOf(base)
           S == {l \in Nat : l <= k => m % P[l] = n % P[l]}
<1>1. 0 \in S
  <2>1. P[0] = 1 /\ m % 1 = 0 /\ n % 1 = 0
    BY PowersAreDefined
  <2> QED BY <2>1
<1>2. ASSUME NEW l \in Nat, l \in S PROVE l + 1 \in S
  <2>1. SUFFICES ASSUME l + 1 <= k PROVE m % P[l + 1] = n % P[l + 1]
    OBVIOUS
  <2>2. l \in 0..(k - 1) /\ m % P[l] = n % P[l]
    BY <1>2, <2>1
  <2>3. Digit(base, m, l) = Digit(base, n, l)
    BY <2>2 DEF SameDigits
  <2>4. /\ m % P[l + 1] = Digit(base, m, l) * P[l] + (m % P[l])
        /\ n % P[l + 1] = Digit(base, n, l) * P[l] + (n % P[l])
    <3> HIDE DEF P
    <3> QED BY DigitOfRemainder DEF P
  <2> HIDE DEF P
  <2> QED BY <2>2, <2>3, <2>4
<1>3. Nat \subseteq S
  <2> HIDE DEF S
  <2> QED BY <1>1, <1>2, Induction
<1> QED BY <1>3
----------------------------------------------------------------------------
(* Numbers that leave the same remainder. *)

Congruent(x, y, m) == \E z \in Int : x = y + m * z

LEMMA Congruences ==
  ASSUME NEW m \in Nat \ {0}, NEW x \in Int, NEW y \in Int, Congruent(x, y, m)
  PROVE  /\ Congruent(y, x, m) /\ (x - y) % m = 0 /\ x % m = y % m
<1>1. PICK z \in Int : x = y + m * z
  BY DEF Congruent
<1> DEFINE u == -z
           p == m * z
<1>2. u \in Int /\ m * u = -p /\ p \in Int
  <2>1. \A a \in Int : m * (-a) = -(m * a) /\ m * a \in Int
    OBVIOUS
  <2> QED BY <2>1
<1>3. y = x + m * u
  <2> HIDE DEF p, u
  <2>1. x = y + p
    BY <1>1 DEF p
  <2> QED BY <1>2, <2>1
<1>4. (x - y) % m = 0
  <2>1. x - y = m * z + 0 /\ 0 \in 0..(m - 1)
    <3> HIDE DEF p
    <3>1. x = y + p
      BY <1>1 DEF p
    <3>2. x - y = p + 0
      BY <1>2, <3>1
    <3> QED BY <3>2 DEF p
  <2>2. \A r \in 0..(m - 1) : (m * z + r) % m = r
    BY QuotientUnique
  <2> QED BY <2>1, <2>2
<1>5. x % m = y % m
  <2> DEFINE q == y \div m
             r == y % m
             w == q + z
  <2>1. q \in Int /\ r \in 0..(m - 1) /\ y = m * q + r
    BY QuotientRemainder
  <2> HIDE DEF q, r
  <2>2. w \in Int /\ m * w = m * q + m * z
    BY <2>1
  <2>3. m * q \in Int /\ m * z \in Int /\ r \in Int
    BY <2>1
  <2> HIDE DEF w
  <2>4. x = m * w + r
    BY <1>1, <2>1, <2>2, <2>3
  <2>5. (m * w + r) % m = r
    BY <2>1, <2>2, QuotientUnique
  <2> QED BY <2>4, <2>5 DEF r
<1> HIDE DEF u, p
<1>6. Congruent(y, x, m)
  BY <1>2, <1>3 DEF Congruent
<1> QED BY <1>4, <1>5, <1>6

LEMMA CongruentTo ==
  ASSUME NEW m \in Nat \ {0}, NEW x \in Int, NEW y \in Int, x % m = y % m
  PROVE  Congruent(x, y, m)
<1> DEFINE q == y \div m
           h == x \div m
           r == y % m
           z == h - q
<1>1. q \in Int /\ r \in Int /\ y = m * q + r
  BY QuotientRemainder
<1>2. h \in Int /\ x = m * h + r
  BY QuotientRemainder
<1> HIDE DEF q, h, r
<1>3. z \in Int /\ m * z = m * h - m * q
  BY <1>1, <1>2
<1>4. m * h \in Int /\ m * q \in Int
  BY <1>1, <1>2
<1> HIDE DEF z
<1>5. x = y + m * z
  BY <1>1, <1>2, <1>3, <1>4
<1> QED BY <1>3, <1>5 DEF Congruent

LEMMA RemainderIsCongruent ==
  ASSUME NEW m \in Nat \ {0}, NEW x \in Int
  PROVE  Congruent(x % m, x, m) /\ Congruent(x, x % m, m) /\ x % m \in Int
<1>1. x % m \in 0..(m - 1)
  BY QuotientRemainder
<1> DEFINE r == x % m
<1>2. r \in Int /\ r % m = r
  BY <1>1
<1>3. r % m = x % m /\ x % m = r % m
  BY <1>2
<1> HIDE DEF r
<1>4. Congruent(r, x, m) /\ Congruent(x, r, m)
  BY <1>2, <1>3, CongruentTo
<1> QED BY <1>2, <1>4 DEF r

LEMMA CongruentThrough ==
  ASSUME NEW m \in Nat \ {0}, NEW x \in Int, NEW y \in Int, NEW w \in Int,
         Congruent(x, y, m), Congruent(y, w, m)
  PROVE  Congruent(x, w, m)
<1>1. x % m = y % m /\ y % m = w % m
  BY Congruences
<1> QED BY <1>1, CongruentTo

LEMMA CongruentSum ==
  ASSUME NEW m \in Nat \ {0}, NEW x \in Int, NEW y \in Int, NEW u \in Int, NEW w \in Int,
         Congruent(x, y, m), Congruent(u, w, m)
  PROVE  Congruent(x + u, y + w, m) /\ Congruent(x - u, y - w, m)
<1>1. PICK a \in Int : x = y + m * a
  BY DEF Congruent
<1>2. PICK b \in Int : u = w + m * b
  BY DEF Congruent
<1>3. m * (a + b) = m * a + m * b /\ m * (a - b) = m * a - m * b
  OBVIOUS
<1>4. m * a \in Int /\ m * b \in Int /\ a + b \in Int /\ a - b \in Int
  OBVIOUS
<1> DEFINE p == m * a  q == m * b  e == a + b  f == a - b
<1>5. m * e = p + q /\ m * f = p - q
  BY <1>3
<1>6. p \in Int /\ q \in Int /\ e \in Int /\ f \in Int /\ x = y + p /\ u = w + q
  BY <1>1, <1>2, <1>4
<1> HIDE DEF p, q, e, f
<1>7. x + u = y + w + m * e /\ x - u = y - w + m * f
  BY <1>5, <1>6
<1> QED BY <1>6, <1>7 DEF Congruent

LEMMA CongruentProduct ==
  ASSUME NEW m \in Nat \ {0}, NEW x \in Int, NEW y \in Int, NEW u \in Int, NEW w \in Int,
         Congruent(x, y, m), Congruent(u, w, m)
  PROVE  Congruent(x * u, y * w, m)
<1>1. PICK a \in Int : x = y + m * a
  BY DEF Congruent
<1>2. PICK b \in Int : u = w + m * b
  BY DEF Congruent
<1> DEFINE e == a * w + y * b + a * (m * b)
<1>3. e \in Int
  OBVIOUS
<1>4. (y + m * a) * (w + m * b) = y * w + m * e
  OBVIOUS
<1> HIDE DEF e
<1> QED BY <1>1, <1>2, <1>3, <1>4 DEF Congruent
----------------------------------------------------------------------------
(* Sums of digits, which may be any integers, by their places. *)

Numbers == [Nat -> Int]

Sums(base, f) ==
  LET sum[k \in Nat] ==
        IF k = 0 THEN 0 ELSE sum[k - 1] + f[k] * PowersOf(base)[k - 1]
  IN sum

LEMMA SumsAreDefined ==
  ASSUME NEW base \in Nat \ {0}, NEW f \in Numbers
  PROVE  /\ Sums(base, f) \in [Nat -> Int]
         /\ Sums(base, f)[0] = 0
         /\ \A k \in Nat :
              Sums(base, f)[k + 1] = Sums(base, f)[k] + f[k + 1] * PowersOf(base)[k]
<1> DEFINE P == PowersOf(base)
           zero == 0
           Add == [s \in Nat \X Int |-> s[2] + f[s[1] + 1] * P[s[1]]]
           Is(g) == g = [k \in Nat |-> IF k = 0 THEN 0 ELSE g[k - 1] + f[k] * P[k - 1]]
<1>1. P \in [Nat -> Nat \ {0}] /\ f \in [Nat -> Int]
  BY PowersAreDefined DEF Numbers
<1> HIDE DEF P
<1>2. ASSUME NEW k \in Nat, NEW v \in Int
      PROVE  Add[<<k, v>>] = v + f[k + 1] * P[k] /\ Add[<<k, v>>] \in Int
  <2>1. Add[<<k, v>>] = v + f[k + 1] * P[k]
    BY <1>2
  <2>2. f[k + 1] \in Int /\ P[k] \in Int
    BY <1>1
  <2>3. f[k + 1] * P[k] \in Int
    BY <2>2
  <2> QED BY <2>1, <2>3
<1> HIDE DEF Add
<1>3. PICK g \in [Nat -> Int] : IsRecursive(g, zero, Add)
  <2>1. zero \in Int /\ Stays(Int, Add)
    BY <1>2 DEF Stays
  <2> HIDE DEF zero
  <2> QED BY <2>1, Recursion
<1>4. g[0] = 0 /\ \A k \in Nat : g[k + 1] = g[k] + f[k + 1] * P[k]
  BY <1>2, <1>3 DEF IsRecursive
<1>5. \A k \in Nat : g[k] = IF k = 0 THEN 0 ELSE g[k - 1] + f[k] * P[k - 1]
  <2> SUFFICES ASSUME NEW k \in Nat, k # 0 PROVE g[k] = g[k - 1] + f[k] * P[k - 1]
    BY <1>4
  <2>1. k - 1 \in Nat /\ (k - 1) + 1 = k
    OBVIOUS
  <2> QED BY <1>4, <2>1
<1>6. Is(g)
  BY <1>3, <1>5
<1>7. Is(Sums(base, f))
  BY <1>6 DEF Sums, P
<1> DEFINE s == Sums(base, f)
           S == {k \in Nat : s[k] = g[k]}
<1>8. \A k \in Nat : s[k] = IF k = 0 THEN 0 ELSE s[k - 1] + f[k] * P[k - 1]
  BY <1>7
<1>9. s = [k \in Nat |-> s[k]]
  BY <1>7
<1> HIDE DEF s, Is
<1>10. 0 \in S
  BY <1>4, <1>8
<1>11. ASSUME NEW k \in Nat, k \in S PROVE k + 1 \in S
  <2>1. k + 1 \in Nat /\ k + 1 # 0 /\ (k + 1) - 1 = k
    OBVIOUS
  <2>2. s[k + 1] = s[k] + f[k + 1] * P[k]
    BY <1>8, <2>1
  <2> QED BY <1>4, <1>11, <2>1, <2>2
<1>12. Nat \subseteq S
  <2> HIDE DEF S
  <2> QED BY <1>10, <1>11, Induction
<1>13. s = g
  BY <1>3, <1>9, <1>12
<1> QED BY <1>3, <1>4, <1>13 DEF s, P

\* What one more digit adds, for proofs by induction.
LEMMA SumAt ==
  ASSUME NEW base \in Nat \ {0}, NEW f \in Numbers, NEW k \in Nat
  PROVE  /\ Sums(base, f)[k] \in Int /\ f[k + 1] \in Int
         /\ PowersOf(base)[k] \in Nat \ {0}
         /\ PowersOf(base)[k + 1] = base * PowersOf(base)[k]
         /\ Sums(base, f)[0] = 0 /\ PowersOf(base)[0] = 1
         /\ Sums(base, f)[k + 1] = Sums(base, f)[k] + f[k + 1] * PowersOf(base)[k]
<1> DEFINE s == Sums(base, f)
           P == PowersOf(base)
<1>1. /\ s \in [Nat -> Int] /\ s[0] = 0
      /\ \A i \in Nat : s[i + 1] = s[i] + f[i + 1] * P[i]
  BY SumsAreDefined
<1>2. P \in [Nat -> Nat \ {0}] /\ P[0] = 1 /\ \A i \in Nat : P[i + 1] = base * P[i]
  BY PowersAreDefined
<1>3. f[k + 1] \in Int
  BY DEF Numbers
<1> HIDE DEF s, P
<1>4. s[k] \in Int /\ P[k] \in Nat \ {0}
  BY <1>1, <1>2
<1> QED BY <1>1, <1>2, <1>3, <1>4 DEF s, P

LEMMA SumsAgree ==
  ASSUME NEW base \in Nat \ {0}, NEW f \in Numbers, NEW g \in Numbers, NEW n \in Nat,
         \A i \in 1..n : f[i] = g[i]
  PROVE  Sums(base, f)[n] = Sums(base, g)[n]
<1> DEFINE s == Sums(base, f)
           t == Sums(base, g)
           P == PowersOf(base)
           S == {k \in Nat : s[k] = t[k]}
<1>1. \A k \in Nat :
        /\ s[0] = 0 /\ s[k + 1] = s[k] + f[k + 1] * P[k]
        /\ t[0] = 0 /\ t[k + 1] = t[k] + g[k + 1] * P[k]
  BY SumAt
<1> HIDE DEF s, t, P
<1>2. 0 \in S
  BY <1>1
<1>3. ASSUME NEW k \in 0..(n - 1), k \in S PROVE k + 1 \in S
  <2>1. k \in Nat /\ k + 1 \in 1..n
    OBVIOUS
  <2> QED BY <1>1, <1>3, <2>1
<1>4. \A k \in 0..n : k \in S
  <2> HIDE DEF S
  <2> QED BY <1>2, <1>3, BoundedInduction
<1> QED BY <1>4 DEF s, t

(***************************************************************************)
(* A loop that passes a carry from digit to digit, of either sign, adds up *)
(* what it is given, but for the last carry.                               *)
(***************************************************************************)
LEMMA SumsCarry ==
  ASSUME NEW base \in Nat \ {0}, NEW f \in Numbers, NEW g \in Numbers,
         NEW c \in Numbers, NEW n \in Nat,
         \A i \in 1..n : f[i] + base * c[i] = g[i] + c[i - 1]
  PROVE  Sums(base, f)[n] + PowersOf(base)[n] * c[n] = Sums(base, g)[n] + c[0]
<1> DEFINE s == Sums(base, f)
           t == Sums(base, g)
           P == PowersOf(base)
           S == {k \in Nat : s[k] + P[k] * c[k] = t[k] + c[0]}
<1>1. \A k \in Nat :
        /\ s[0] = 0 /\ s[k + 1] = s[k] + f[k + 1] * P[k] /\ s[k] \in Int
        /\ t[0] = 0 /\ t[k + 1] = t[k] + g[k + 1] * P[k] /\ t[k] \in Int
        /\ P[0] = 1 /\ P[k + 1] = base * P[k] /\ P[k] \in Int
        /\ f[k + 1] \in Int /\ g[k + 1] \in Int
  BY SumAt
<1>2. \A k \in Nat : c[k] \in Int
  BY DEF Numbers
<1> HIDE DEF s, t, P
<1>3. 0 \in S
  BY <1>1, <1>2
<1>4. ASSUME NEW k \in 0..(n - 1), k \in S PROVE k + 1 \in S
  <2>1. k \in Nat /\ k + 1 \in 1..n /\ (k + 1) - 1 = k
    OBVIOUS
  <2>2. f[k + 1] + base * c[k + 1] = g[k + 1] + c[k]
    BY <2>1
  <2>3. s[k] + P[k] * c[k] = t[k] + c[0]
    BY <1>4
  <2>4. s[k + 1] + (base * P[k]) * c[k + 1] = t[k + 1] + c[0]
    <3> DEFINE p == P[k]  a == f[k + 1]  b == g[k + 1]  u == c[k]  v == c[k + 1]
               x == s[k]  y == t[k]  z == c[0]
    <3>1. /\ p \in Int /\ a \in Int /\ b \in Int /\ u \in Int /\ v \in Int
          /\ x \in Int /\ y \in Int /\ z \in Int
      BY <1>1, <1>2, <2>1
    <3>2. a + base * v = b + u /\ x + p * u = y + z
      BY <2>2, <2>3
    <3>3. s[k + 1] = x + a * p /\ t[k + 1] = y + b * p
      BY <1>1, <2>1
    <3> HIDE DEF p, a, b, u, v, x, y, z
    <3>4. a = b + u - base * v
      BY <3>1, <3>2
    <3>5. a * p = b * p + u * p - (base * v) * p
      BY <3>1, <3>4
    <3>6. (base * p) * v = (base * v) * p /\ u * p = p * u
      BY <3>1
    <3>7. x + a * p + (base * p) * v = y + b * p + z
      BY <3>1, <3>2, <3>5, <3>6
    <3> QED BY <3>3, <3>7 DEF p, v, z
  <2> QED BY <1>1, <2>1, <2>4
<1>5. \A k \in 0..n : k \in S
  <2> HIDE DEF S
  <2> QED BY <1>3, <1>4, BoundedInduction
<1> QED BY <1>5 DEF s, t, P

AddsTo(h, f, b, g, n) == \A i \in 1..n : h[i] = f[i] + b * g[i]

LEMMA SumsAdd ==
  ASSUME NEW base \in Nat \ {0}, NEW f \in Numbers, NEW g \in Numbers,
         NEW h \in Numbers, NEW b \in Int, NEW n \in Nat, AddsTo(h, f, b, g, n)
  PROVE  Sums(base, h)[n] = Sums(base, f)[n] + b * Sums(base, g)[n]
<1> DEFINE s == Sums(base, f)
           t == Sums(base, g)
           u == Sums(base, h)
           P == PowersOf(base)
           S == {k \in Nat : u[k] = s[k] + b * t[k]}
<1>1. \A k \in Nat :
        /\ s[0] = 0 /\ s[k + 1] = s[k] + f[k + 1] * P[k] /\ s[k] \in Int
        /\ t[0] = 0 /\ t[k + 1] = t[k] + g[k + 1] * P[k] /\ t[k] \in Int
        /\ u[0] = 0 /\ u[k + 1] = u[k] + h[k + 1] * P[k] /\ u[k] \in Int
        /\ P[k] \in Int /\ f[k + 1] \in Int /\ g[k + 1] \in Int
  BY SumAt
<1> HIDE DEF s, t, u, P
<1>2. 0 \in S
  <2>1. s[0] = 0 /\ t[0] = 0 /\ u[0] = 0
    BY <1>1
  <2>2. 0 = 0 + b * 0
    OBVIOUS
  <2> QED BY <2>1, <2>2
<1>3. ASSUME NEW k \in 0..(n - 1), k \in S PROVE k + 1 \in S
  <2>1. k \in Nat /\ k + 1 \in 1..n
    OBVIOUS
  <2>2. h[k + 1] = f[k + 1] + b * g[k + 1] /\ u[k] = s[k] + b * t[k]
    BY <1>3, <2>1 DEF AddsTo
  <2> DEFINE p == P[k]  x == f[k + 1]  y == g[k + 1]  v == s[k]  w == t[k]
  <2>3. p \in Int /\ x \in Int /\ y \in Int /\ v \in Int /\ w \in Int
    BY <1>1, <2>1
  <2>4. /\ u[k + 1] = (v + b * w) + (x + b * y) * p
        /\ s[k + 1] = v + x * p /\ t[k + 1] = w + y * p
    BY <1>1, <2>1, <2>2
  <2> HIDE DEF p, x, y, v, w
  <2>5. (v + b * w) + (x + b * y) * p = (v + x * p) + b * (w + y * p)
    BY <2>3
  <2> QED BY <2>1, <2>4, <2>5
<1>4. \A k \in 0..n : k \in S
  <2> HIDE DEF S
  <2> QED BY <1>2, <1>3, BoundedInduction
<1> QED BY <1>4 DEF s, t, u

\* The digits from place m on are worth that place's power each.
LEMMA SumsSplit ==
  ASSUME NEW base \in Nat \ {0}, NEW f \in Numbers, NEW g \in Numbers,
         NEW m \in Nat, NEW n \in Nat, \A i \in 1..n : g[i] = f[m + i]
  PROVE  Sums(base, f)[m + n] =
           Sums(base, f)[m] + PowersOf(base)[m] * Sums(base, g)[n]
<1> DEFINE s == Sums(base, f)
           t == Sums(base, g)
           P == PowersOf(base)
           S == {k \in Nat : s[m + k] = s[m] + P[m] * t[k]}
<1>1. \A k \in Nat :
        /\ s[0] = 0 /\ s[k + 1] = s[k] + f[k + 1] * P[k] /\ s[k] \in Int
        /\ t[0] = 0 /\ t[k + 1] = t[k] + g[k + 1] * P[k] /\ t[k] \in Int
        /\ P[k] \in Int /\ f[k + 1] \in Int /\ g[k + 1] \in Int
  BY SumAt
<1>2. \A k \in Nat : P[m + k] = P[m] * P[k]
  BY PowersAdd
<1> HIDE DEF s, t, P
<1>3. 0 \in S
  BY <1>1
<1>4. ASSUME NEW k \in 0..(n - 1), k \in S PROVE k + 1 \in S
  <2>1. k \in Nat /\ k + 1 \in 1..n /\ m + k \in Nat /\ m + (k + 1) = (m + k) + 1
    OBVIOUS
  <2>2. g[k + 1] = f[m + (k + 1)] /\ s[m + k] = s[m] + P[m] * t[k]
    BY <1>4, <2>1
  <2> DEFINE p == P[m]  q == P[k]  y == g[k + 1]  v == s[m]  w == t[k]
  <2>3. p \in Int /\ q \in Int /\ y \in Int /\ v \in Int /\ w \in Int
    BY <1>1, <2>1
  <2>4. /\ s[(m + k) + 1] = (v + p * w) + y * (p * q)
        /\ t[k + 1] = w + y * q
    BY <1>1, <1>2, <2>1, <2>2
  <2> HIDE DEF p, q, y, v, w
  <2>5. (v + p * w) + y * (p * q) = v + p * (w + y * q)
    BY <2>3
  <2>6. s[m + (k + 1)] = v + p * t[k + 1]
    BY <2>1, <2>4, <2>5
  <2> QED BY <2>1, <2>6 DEF v, p
<1>5. \A k \in 0..n : k \in S
  <2> HIDE DEF S
  <2> QED BY <1>3, <1>4, BoundedInduction
<1> QED BY <1>5 DEF s, t, P

LEMMA SumsAreSmall ==
  ASSUME NEW base \in Nat \ {0}, NEW f \in Numbers, NEW n \in Nat,
         \A i \in 1..n : f[i] \in 0..(base - 1)
  PROVE  Sums(base, f)[n] \in 0..(PowersOf(base)[n] - 1)
<1> DEFINE s == Sums(base, f)
           P == PowersOf(base)
           S == {k \in Nat : s[k] \in 0..(P[k] - 1)}
<1>1. \A k \in Nat :
        /\ s[0] = 0 /\ s[k + 1] = s[k] + f[k + 1] * P[k] /\ s[k] \in Int
        /\ P[0] = 1 /\ P[k] \in Nat \ {0} /\ P[k + 1] = base * P[k]
  BY SumAt
<1> HIDE DEF s, P
<1>2. 0 \in S
  BY <1>1
<1>3. ASSUME NEW k \in 0..(n - 1), k \in S PROVE k + 1 \in S
  <2>1. k \in Nat /\ k + 1 \in 1..n
    OBVIOUS
  <2> DEFINE p == P[k]  x == f[k + 1]  v == s[k]
  <2>2. /\ p \in Nat \ {0} /\ x \in 0..(base - 1) /\ v \in 0..(p - 1)
        /\ s[k + 1] = v + x * p /\ P[k + 1] = base * p
    BY <1>1, <1>3, <2>1
  <2> HIDE DEF p, x, v
  <2>3. x * p >= 0 /\ x * p <= (base - 1) * p /\ x * p \in Int
    <3>1. \A a, b, c \in Nat : a <= b => a * c <= b * c
      OBVIOUS
    <3>2. x \in Nat /\ base - 1 \in Nat /\ p \in Nat /\ x <= base - 1
      BY <2>2
    <3> QED BY <3>1, <3>2
  <2>4. (base - 1) * p = base * p - p /\ base * p \in Int
    BY <2>2
  <2>5. v + x * p \in 0..(base * p - 1)
    BY <2>2, <2>3, <2>4
  <2> QED BY <2>1, <2>2, <2>5
<1>4. \A k \in 0..n : k \in S
  <2> HIDE DEF S
  <2> QED BY <1>2, <1>3, BoundedInduction
<1> QED BY <1>4 DEF s, P

LEMMA SumOfZeros ==
  ASSUME NEW base \in Nat \ {0}, NEW f \in Numbers, NEW n \in Nat,
         \A i \in 1..n : f[i] = 0
  PROVE  Sums(base, f)[n] = 0
<1> DEFINE s == Sums(base, f)
           P == PowersOf(base)
           S == {k \in Nat : s[k] = 0}
<1>1. \A k \in Nat :
        s[0] = 0 /\ s[k + 1] = s[k] + f[k + 1] * P[k] /\ P[k] \in Nat \ {0}
  BY SumAt
<1> HIDE DEF s, P
<1>2. 0 \in S
  BY <1>1
<1>3. ASSUME NEW k \in 0..(n - 1), k \in S PROVE k + 1 \in S
  <2>1. k \in Nat /\ k + 1 \in 1..n
    OBVIOUS
  <2> QED BY <1>1, <1>3, <2>1
<1>4. \A k \in 0..n : k \in S
  <2> HIDE DEF S
  <2> QED BY <1>2, <1>3, BoundedInduction
<1> QED BY <1>4 DEF s

LEMMA SumsEnd ==
  ASSUME NEW base \in Nat \ {0}, NEW f \in Numbers, NEW m \in Nat, NEW n \in Nat,
         m <= n, \A i \in (m + 1)..n : f[i] = 0
  PROVE  Sums(base, f)[n] = Sums(base, f)[m]
<1> DEFINE g == [i \in Nat |-> f[m + i]]
           k == n - m
<1>1. k \in Nat /\ n = m + k
  OBVIOUS
<1>2. g \in Numbers /\ \A i \in 1..k : g[i] = f[m + i] /\ g[i] = 0
  <2>1. \A i \in Nat : f[m + i] \in Int
    BY DEF Numbers
  <2>2. g \in Numbers
    BY <2>1 DEF Numbers
  <2>3. ASSUME NEW i \in 1..k PROVE g[i] = f[m + i] /\ f[m + i] = 0
    BY <1>1
  <2> QED BY <2>2, <2>3
<1> HIDE DEF g, k
<1>3. Sums(base, f)[m + k] = Sums(base, f)[m] + PowersOf(base)[m] * Sums(base, g)[k]
  BY <1>1, <1>2, SumsSplit
<1>4. Sums(base, g)[k] = 0
  BY <1>1, <1>2, SumOfZeros
<1>5. Sums(base, f)[m] \in Int /\ PowersOf(base)[m] \in Nat \ {0}
  BY SumAt
<1> QED BY <1>1, <1>3, <1>4, <1>5
----------------------------------------------------------------------------
(* Sequences whose elements have no type in common. *)

IsSeq(s) == \E S : s \in Seq(S)

LEMMA Tabulated ==
  ASSUME NEW n \in Nat, NEW s, s = [j \in 1..n |-> s[j]]
  PROVE  IsSeq(s) /\ Len(s) = n
<1> DEFINE S == {s[j] : j \in 1..n}
<1>1. \A j \in 1..n : s[j] \in S
  OBVIOUS
<1> HIDE DEF S
<1>2. s \in [1..n -> S]
  BY <1>1
<1>3. s \in Seq(S) /\ Len(s) = n
  BY <1>2
<1> QED BY <1>3 DEF IsSeq

LEMMA Elements ==
  ASSUME NEW s, IsSeq(s)
  PROVE  /\ Len(s) \in Nat /\ DOMAIN s = 1..Len(s)
         /\ s = [j \in 1..Len(s) |-> s[j]]
BY DEF IsSeq

LEMMA SameSequences ==
  ASSUME NEW s, NEW t, IsSeq(s), IsSeq(t),
         Len(s) = Len(t), \A j \in 1..Len(s) : s[j] = t[j]
  PROVE  s = t
<1>1. s = [j \in 1..Len(s) |-> s[j]] /\ t = [j \in 1..Len(s) |-> t[j]]
  BY Elements
<1>2. [j \in 1..Len(s) |-> s[j]] = [j \in 1..Len(s) |-> t[j]]
  OBVIOUS
<1> QED BY <1>1, <1>2

LEMMA Concatenated ==
  ASSUME NEW a, NEW b, IsSeq(a), IsSeq(b)
  PROVE  /\ IsSeq(a \o b) /\ Len(a \o b) = Len(a) + Len(b)
         /\ \A j \in 1..Len(a) : (a \o b)[j] = a[j]
         /\ \A j \in 1..Len(b) : (a \o b)[Len(a) + j] = b[j]
<1>1. PICK S : a \in Seq(S)
  BY DEF IsSeq
<1>2. PICK T : b \in Seq(T)
  BY DEF IsSeq
<1>3. PICK U : a \in Seq(U) /\ b \in Seq(U)
  <2>1. a \in Seq(S \cup T) /\ b \in Seq(S \cup T)
    BY <1>1, <1>2
  <2> QED BY <2>1
<1>4. a \o b \in Seq(U) /\ Len(a \o b) = Len(a) + Len(b)
  BY <1>3
<1>5. \A j \in 1..Len(a) : (a \o b)[j] = a[j]
  BY <1>3
<1>6. \A j \in 1..Len(b) : (a \o b)[Len(a) + j] = b[j]
  BY <1>3
<1> QED BY <1>4, <1>5, <1>6 DEF IsSeq

LEMMA Piece ==
  ASSUME NEW s, IsSeq(s), NEW m \in Nat \ {0}, NEW n \in Nat, n <= Len(s), m <= n + 1
  PROVE  /\ IsSeq(SubSeq(s, m, n)) /\ Len(SubSeq(s, m, n)) = n - m + 1
         /\ \A j \in 1..(n - m + 1) : SubSeq(s, m, n)[j] = s[m + j - 1]
<1>1. PICK S : s \in Seq(S)
  BY DEF IsSeq
<1>2. SubSeq(s, m, n) \in Seq(S) /\ Len(SubSeq(s, m, n)) = n - m + 1
  BY <1>1
<1>3. \A j \in 1..(n - m + 1) : SubSeq(s, m, n)[j] = s[m + j - 1]
  BY <1>1
<1> QED BY <1>2, <1>3 DEF IsSeq

LEMMA Appended ==
  ASSUME NEW s, NEW e, IsSeq(s)
  PROVE  /\ IsSeq(Append(s, e)) /\ Len(Append(s, e)) = Len(s) + 1
         /\ \A j \in 1..Len(s) : Append(s, e)[j] = s[j]
         /\ Append(s, e)[Len(s) + 1] = e
<1>1. PICK S : s \in Seq(S)
  BY DEF IsSeq
<1>2. s \in Seq(S \cup {e}) /\ e \in S \cup {e}
  BY <1>1
<1>3. PICK U : s \in Seq(U) /\ e \in U
  BY <1>2
<1>4. Append(s, e) \in Seq(U) /\ Len(Append(s, e)) = Len(s) + 1
  BY <1>3
<1>5. /\ \A j \in 1..Len(s) : Append(s, e)[j] = s[j]
      /\ Append(s, e)[Len(s) + 1] = e
  BY <1>3
<1> QED BY <1>4, <1>5 DEF IsSeq

LEMMA SameEnds ==
  ASSUME NEW front, NEW a, NEW b, IsSeq(front), IsSeq(a), IsSeq(b),
         front \o a = front \o b
  PROVE  a = b
<1>1. Len(front) \in Nat /\ Len(a) \in Nat /\ Len(b) \in Nat
  BY Elements
<1>2. Len(front \o a) = Len(front) + Len(a) /\ Len(front \o b) = Len(front) + Len(b)
  BY Concatenated
<1>3. Len(a) = Len(b)
  BY <1>1, <1>2
<1>4. \A j \in 1..Len(a) : (front \o a)[Len(front) + j] = a[j]
  BY Concatenated
<1>5. \A j \in 1..Len(b) : (front \o b)[Len(front) + j] = b[j]
  BY Concatenated
<1>6. \A j \in 1..Len(a) : a[j] = b[j]
  BY <1>3, <1>4, <1>5
<1> QED BY <1>3, <1>6, SameSequences

LEMMA FirstPart ==
  ASSUME NEW s, IsSeq(s), NEW n \in Nat, n <= Len(s)
  PROVE  /\ IsSeq(SubSeq(s, 1, n)) /\ Len(SubSeq(s, 1, n)) = n
         /\ \A j \in 1..n : SubSeq(s, 1, n)[j] = s[j]
<1>1. PICK S : s \in Seq(S)
  BY DEF IsSeq
<1>2. SubSeq(s, 1, n) \in Seq(S) /\ Len(SubSeq(s, 1, n)) = n
  BY <1>1
<1>3. \A j \in 1..n : SubSeq(s, 1, n)[j] = s[j]
  BY <1>1
<1> QED BY <1>2, <1>3 DEF IsSeq

LEMMA Beginning ==
  ASSUME NEW a, NEW b, IsSeq(a), IsSeq(b)
  PROVE  SubSeq(a \o b, 1, Len(a)) = a
<1>1. Len(a) \in Nat /\ Len(b) \in Nat
  BY Elements
<1> DEFINE c == a \o b
<1>2. IsSeq(c) /\ Len(a) <= Len(c) /\ \A j \in 1..Len(a) : c[j] = a[j]
  BY <1>1, Concatenated
<1> HIDE DEF c
<1>3. /\ IsSeq(SubSeq(c, 1, Len(a))) /\ Len(SubSeq(c, 1, Len(a))) = Len(a)
      /\ \A j \in 1..Len(a) : SubSeq(c, 1, Len(a))[j] = c[j]
  BY <1>1, <1>2, FirstPart
<1>4. SubSeq(c, 1, Len(a)) = a
  BY <1>2, <1>3, SameSequences
<1> QED BY <1>4 DEF c

LEMMA WholePiece ==
  ASSUME NEW s, IsSeq(s)
  PROVE  SubSeq(s, 1, Len(s)) = s
<1>1. PICK S : s \in Seq(S)
  BY DEF IsSeq
<1> QED BY <1>1
=============================================================================
