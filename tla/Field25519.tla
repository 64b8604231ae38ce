----------------------------- MODULE Field25519 -----------------------------
(***************************************************************************)
(* Arithmetic modulo 2^255 - 19 in tweetnacl.c: a gf is a sequence of limbs*)
(* that are signed and wider than the 16 bits they stand for.  Sums and    *)
(* differences leave them as they come; M and S carry their operands first.*)
(* Here there are GfLimbs limbs of GfBits bits, and the modulus is half of *)
(* their range less 19.                                                    *)
(***************************************************************************)
EXTENDS Integers, Sequences, FiniteSetsExt, Folds

CONSTANTS GfLimbs,     \* 16
          GfBits       \* 16

B == 2 ^ GfBits
FieldBits == GfLimbs * GfBits - 1
P == 2 ^ FieldBits - 19
Places == 1..GfLimbs
PerPlace(F(_)) == SubSeq([i \in Places |-> F(i)], 1, GfLimbs)

\* The integer that a gf stands for.
Number(o) == MapThenSumSet(LAMBDA i : o[i] * B ^ (i - 1), Places)

gf0 == PerPlace(LAMBDA i : 0)
gf1 == PerPlace(LAMBDA i : IF i = 1 THEN 1 ELSE 0)

A(a, b) == PerPlace(LAMBDA i : a[i] + b[i])
Z(a, b) == PerPlace(LAMBDA i : a[i] - b[i])
MUL38(v) == 38 * v
----------------------------------------------------------------------------
(***************************************************************************)
(* The carry, upwards from limb 1 with c to begin with.  What leaves the   *)
(* last limb comes back in the first, until nothing does.                  *)
(***************************************************************************)
Rippled(o, c) ==
  LET v[i \in 0..GfLimbs] ==
        IF i = 0 THEN c * B ELSE o[i] + (v[i - 1] \div B)
  IN [o |-> PerPlace(LAMBDA i : v[i] % B), c |-> v[GfLimbs] \div B]

RECURSIVE Returned(_)
Returned(r) == IF r.c = 0 THEN r.o ELSE Returned(Rippled(r.o, MUL38(r.c)))
car25519_once(o) == Rippled(Rippled(o, 0).o, MUL38(Rippled(o, 0).c)).o
car25519(o) == Returned(Rippled(o, 0))
CS(o) == Returned(Rippled(o, 0))

\* The product has limbs of twice the width; those past the last come back.
Column(t, i) == t[i] + (IF i < GfLimbs THEN MUL38(t[i + GfLimbs]) ELSE 0)
Columns(T(_)) ==
  LET t == [k \in 1..(2 * GfLimbs - 1) |-> T(k)]
  IN PerPlace(LAMBDA i : Column(t, i))

M(a, b) ==
  LET as == CS(a)
      bs == CS(b)
  IN Columns(LAMBDA k :
       MapThenSumSet(LAMBDA i : as[i] * bs[k + 1 - i],
                     {i \in Places : k + 1 - i \in Places}))

\* Every square once, every other product twice.
Twice(product) == 2 * product
S(a) ==
  LET as == CS(a)
  IN Columns(LAMBDA k :
       MapThenSumSet(LAMBDA i : IF k + 1 - i = i THEN as[i] * as[i]
                                ELSE Twice(as[i] * as[k + 1 - i]),
                     {i \in Places : k + 1 - i \in i..GfLimbs}))
----------------------------------------------------------------------------
\* The modulus is subtracted twice, and kept whenever it did not borrow.
Modulus(i) == IF i = 1 THEN B - 19 ELSE IF i < GfLimbs THEN B - 1 ELSE B \div 2 - 1
Less(t) ==
  LET m[i \in Places] ==
        t[i] - Modulus(i) - (IF i = 1 THEN 0 ELSE (m[i - 1] \div B) % 2)
  IN IF (m[GfLimbs] \div B) % 2 = 1 THEN t
     ELSE PerPlace(LAMBDA i : IF i < GfLimbs THEN m[i] % B ELSE m[i])

Reduced(t) == Less(Less(t))

\* Two bytes for each limb.
Byte == 2 ^ (GfBits \div 2)
pack25519(n) ==
  LET t == Reduced(car25519(n))
  IN [j \in 1..(2 * GfLimbs) |->
        IF j % 2 = 1 THEN t[(j + 1) \div 2] % Byte ELSE t[j \div 2] \div Byte]

unpack25519(n) ==
  PerPlace(LAMBDA i : LET limb == n[2 * i - 1] + n[2 * i] * Byte
                      IN IF i = GfLimbs THEN limb % (B \div 2) ELSE limb)

neq25519(a, b) == pack25519(a) # pack25519(b)
par25519(a) == pack25519(a)[1] % 2
----------------------------------------------------------------------------
\* Powers from the highest bit of the exponent down: the ones of a square
\* and a product each, then a string that ends it.
SM(c, i) == M(S(c), i)
Ones(i) == FoldFunctionOnSet(LAMBDA k, c : SM(c, i), i, [k \in 1..(FieldBits - 6) |-> k],
                             1..(FieldBits - 6))

inv25519(i) == SM(SM(S(SM(S(Ones(i)), i)), i), i)
pow2523(i) == SM(S(Ones(i)), i)
=============================================================================
