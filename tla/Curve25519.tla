----------------------------- MODULE Curve25519 -----------------------------
(***************************************************************************)
(* crypto_scalarmult_curve25519 of tweetnacl.c, one step for each bit of   *)
(* the scalar, over the arithmetic of Field25519.  Here the scalar has     *)
(* ScalarBits bits and the curve is y^2 = x^3 + Coefficient x^2 + x.       *)
(***************************************************************************)
EXTENDS Field25519, SequencesExt

CONSTANTS ScalarBits,    \* 256
          Coefficient,   \* 486662; Coefficient^2 - 4 is no square
          Scalars,       \* what a caller passes
          Abscissas      \* and what it takes for a point, below 2^256

VARIABLES n, p,          \* the arguments, as integers
          a, b, c, d,    \* the ladder
          i,             \* the next bit
          q              \* the result, as bytes

ladder == <<n, p, a, b, c, d, i, q>>

Bytes(number) == [j \in 1..(2 * GfLimbs) |-> (number \div Byte ^ (j - 1)) % Byte]
gf(number) == unpack25519(Bytes(number))
X == gf(p)
\* 121665
QuarterLess == gf((Coefficient - 2) \div 4)

\* The three lowest bits go, and the highest; the one below it is set.
Clamped(scalar) ==
  2 ^ (ScalarBits - 2) + (scalar % 2 ^ (ScalarBits - 2)) - (scalar % 8)
Bit(scalar, k) == (scalar \div 2 ^ k) % 2

ScalarmultInit ==
  /\ n \in Scalars /\ p \in Abscissas
  /\ a = gf1 /\ b = X /\ c = gf0 /\ d = gf1
  /\ i = ScalarBits - 2 /\ q = <<>>

\* What a step makes of (a : c) and (b : d): twice the one and the sum of both.
Doubled(x, z) ==
  LET plus == S(A(x, z))
      minus == S(Z(x, z))
      product == Z(plus, minus)
  IN [x |-> M(plus, minus), z |-> M(product, A(M(product, QuarterLess), plus))]

Summed(x1, z1, x2, z2) ==
  LET cross == M(A(x2, z2), Z(x1, z1))
      other == M(Z(x2, z2), A(x1, z1))
  IN [x |-> S(A(cross, other)), z |-> M(S(Z(cross, other)), X)]

\* sel25519 exchanges the points before the step and again after it.
Selected_once(bit) ==
  [double |-> IF bit = 1 THEN Doubled(b, d) ELSE Doubled(a, c),
   sum |-> Summed(a, c, b, d), swap |-> FALSE]
Selected(bit) ==
  IF bit = 1 THEN [double |-> Doubled(b, d), sum |-> Summed(b, d, a, c), swap |-> TRUE]
  ELSE [double |-> Doubled(a, c), sum |-> Summed(a, c, b, d), swap |-> FALSE]

ScalarmultBit ==
  /\ i >= 0
  /\ LET step == Selected(Bit(Clamped(n), i))
         first == IF step.swap THEN step.sum ELSE step.double
         second == IF step.swap THEN step.double ELSE step.sum
     IN /\ a' = first.x /\ c' = first.z
        /\ b' = second.x /\ d' = second.z
  /\ i' = i - 1
  /\ UNCHANGED <<n, p, q>>

ScalarmultDone ==
  /\ i = -1 /\ q = <<>>
  /\ q' = pack25519(M(a, inv25519(c)))
  /\ UNCHANGED <<n, p, a, b, c, d, i>>

ScalarmultNext == ScalarmultBit \/ ScalarmultDone
----------------------------------------------------------------------------
(***************************************************************************)
(* The group: points of Scale y^2 = x^3 + Coefficient x^2 + x, where Scale *)
(* puts the given abscissa on this curve or on its twist, with y = 1.      *)
(***************************************************************************)
Residue(o) == Number(o) % P
Power(x, e) ==
  FoldLeft(LAMBDA r, k : (((r * r) % P) * (IF Bit(e, FieldBits - k) = 1 THEN x ELSE 1)) % P,
           1, [k \in 1..FieldBits |-> k])
Inverses == [x \in 0..(P - 1) |-> Power(x, P - 2)]

Right(x) == (((x * x) % P) * (x + Coefficient) + x) % P
GivenX == (p % 2 ^ FieldBits) % P
Scale == IF Right(GivenX) = 0 THEN 1 ELSE Right(GivenX)
Given == [x |-> GivenX, y |-> IF Right(GivenX) = 0 THEN 0 ELSE 1]
Infinity == [x |-> -1, y |-> -1]

Slope(s, t) ==
  IF s = t
  THEN (((3 * s.x * s.x + 2 * Coefficient * s.x + 1) % P) * Inverses[(2 * Scale * s.y) % P]) % P
  ELSE (((t.y - s.y) % P) * Inverses[(t.x - s.x) % P]) % P
Plus(s, t) ==
  IF s = Infinity THEN t
  ELSE IF t = Infinity THEN s
  ELSE IF s.x = t.x /\ (s.y + t.y) % P = 0 THEN Infinity
  ELSE LET slope == Slope(s, t)
           x == (Scale * ((slope * slope) % P) - Coefficient - s.x - t.x) % P
       IN [x |-> x, y |-> (slope * (s.x - x) - s.y) % P]

Multiple[k \in Nat] ==
  IF k = 0 THEN Infinity
  ELSE LET half == Multiple[k \div 2]
           even == Plus(half, half)
       IN IF k % 2 = 0 THEN even ELSE Plus(even, Given)

Stands(x, z, point) ==
  IF point = Infinity THEN Residue(z) = 0 /\ Residue(x) # 0
  ELSE Residue(z) # 0 /\ Residue(x) = (point.x * Residue(z)) % P

(***************************************************************************)
(* On the curve and on its twist, and for every encoding of an abscissa,   *)
(* the ladder holds two neighbouring multiples of the point, and ends with *)
(* the one that the clamped scalar asks for, as its unique bytes: 0 for the*)
(* point at infinity and for the point of order two, where the ladder loses*)
(* the points on the way (tweetnacl.c:461-515).                            *)
(***************************************************************************)
LadderMultiplies ==
  /\ GivenX # 0 =>
       LET taken == Clamped(n) \div 2 ^ (i + 1)
       IN Stands(a, c, Multiple[taken]) /\ Stands(b, d, Multiple[taken + 1])
  /\ q # <<>> => LET result == Multiple[Clamped(n)]
                 IN q = Bytes(IF result = Infinity THEN 0 ELSE result.x)
=============================================================================
