-------------------------------- MODULE Mpi --------------------------------
(***************************************************************************)
(* The signed big numbers of homekit/crypto/srp/bignum.c as the program    *)
(* uses them: an mpi is a sign and the limbs it has allocated, least       *)
(* significant first, of which the high ones may be zero.  A function that *)
(* writes X from A and B is an operator on the registers r and the names   *)
(* of X, A and B, because what it does depends on which of them are the    *)
(* same mpi.  Allocation succeeds: what happens when it does not is the    *)
(* Spoiled key of Srp.                                                     *)
(***************************************************************************)
EXTENDS Powers, Sequences, FiniteSetsExt

CONSTANTS ciL,        \* chars in a limb: 4
          CharBits    \* bits in a char: 8

ASSUME LimbAssumption == ciL \in Nat \ {0} /\ CharBits \in Nat \ {0}

biL == ciL * CharBits
Base == TwoTo[biL]
Limbs == 0..(Base - 1)
BITS_TO_LIMBS(n) == (n + biL - 1) \div biL
CHARS_TO_LIMBS(n) == (n + ciL - 1) \div ciL

Mpis == [s : {1, -1}, p : Seq(Limbs)]

\* mpi_init and mpi_free.
Null == [s |-> 1, p |-> <<>>]

\* What the k highest limbs of p are worth, the integer of an mpi, and what
\* one in each limb is worth.
TopLimbs(p) ==
  LET top[k \in 0..Len(p)] ==
        IF k = 0 THEN 0 ELSE Base * top[k - 1] + p[Len(p) + 1 - k]
  IN top
Magnitude(p) == TopLimbs(p)[Len(p)]
Places == PowersOf(Base)
Value(X) == X.s * Magnitude(X.p)

Limb(p, i) == IF i \in DOMAIN p THEN p[i] ELSE 0
LimbSeq(n, F(_)) == SubSeq([i \in 1..n |-> F(i)], 1, n)
Resized(p, n) == LimbSeq(n, LAMBDA i : Limb(p, i))
Used(p) == Max({i \in DOMAIN p : p[i] # 0} \cup {0})
Kept(p) == Max({Used(p), 1})
----------------------------------------------------------------------------
grow(X, n) == IF Len(X.p) >= n THEN X ELSE [X EXCEPT !.p = Resized(@, n)]

copy(X, Y) ==
  IF Y.p = <<>> THEN Null
  ELSE [s |-> Y.s,
        p |-> Resized(SubSeq(Y.p, 1, Kept(Y.p)), Max({Len(X.p), Kept(Y.p)}))]

lset(X, z) ==
  [s |-> IF z < 0 THEN -1 ELSE 1,
   p |-> Resized(<<IF z < 0 THEN -z ELSE z>>, Max({Len(X.p), 1}))]

Bit(l, j) == (l \div TwoTo[j - 1]) % 2
msb(X) ==
  IF X.p = <<>> THEN 0
  ELSE (Kept(X.p) - 1) * biL
         + Max({j \in 1..biL : Bit(X.p[Kept(X.p)], j) = 1} \cup {0})

\* mpi_shrink, which may also grow.
shrink(X, n) ==
  IF Len(X.p) <= n THEN grow(X, n)
  ELSE [X EXCEPT !.p = SubSeq(@, 1, Max({Kept(@), n}))]

\* Bits that are not among the limbs read as zero; setting one grows X.
get_bit(X, pos) ==
  IF Len(X.p) * biL <= pos THEN 0 ELSE Bit(X.p[(pos \div biL) + 1], (pos % biL) + 1)
set_bit(X, pos, val) ==
  LET G == grow(X, (pos \div biL) + 1)
      limb == G.p[(pos \div biL) + 1]
  IN IF val \notin {0, 1} \/ (val = 0 /\ Len(X.p) * biL <= pos) THEN X
     ELSE [G EXCEPT !.p[(pos \div biL) + 1] =
             limb + (val - Bit(limb, (pos % biL) + 1)) * TwoTo[pos % biL]]
lsb(X) ==
  LET ones == {pos \in 0..(Len(X.p) * biL - 1) : get_bit(X, pos) = 1}
  IN IF ones = {} THEN 0 ELSE Min(ones)

\* Choices without a branch: an unsigned char becomes 0 or 1, and limbs are
\* mixed by multiplication.
IsSet(char) ==
  LET sign == TwoTo[CharBits - 1]
  IN IF char >= sign \/ (-char) % (2 * sign) >= sign THEN 1 ELSE 0
Mixed(x, y, bit) == x * (1 - bit) + y * bit
Mixture(X, Y, bit) ==
  [s |-> Mixed(X.s, Y.s, bit),
   p |-> LimbSeq(Len(X.p), LAMBDA i : Mixed(X.p[i], Limb(Y.p, i), bit))]
safe_cond_assign(X, Y, assign) == Mixture(grow(X, Len(Y.p)), Y, IsSet(assign))
safe_cond_swap(X, Y, swap) ==
  LET GX == grow(X, Len(Y.p))
      GY == grow(Y, Len(X.p))
  IN <<Mixture(GX, GY, IsSet(swap)), Mixture(GY, GX, IsSet(swap))>>

\* Room for n limbs, all zero.
Prepared_grown(X, n) == grow(X, n)
Prepared(X, n) == lset(grow(X, n), 0)

\* buf is big-endian; the last char is the least significant.
read_binary(X, buf) ==
  LET n == Max({k \in 0..Len(buf) : \A i \in 1..k : buf[i] = 0})
      Char(j) == IF j < Len(buf) - n THEN buf[Len(buf) - j] ELSE 0
      G == Prepared(X, CHARS_TO_LIMBS(Len(buf) - n))
      Read(i) ==
        LET bytes[k \in 0..ciL] ==
              IF k = 0 THEN 0
              ELSE bytes[k - 1] + Char((i - 1) * ciL + (k - 1)) * TwoTo[(k - 1) * CharBits]
        IN IF i <= CHARS_TO_LIMBS(Len(buf) - n) THEN bytes[ciL] ELSE G.p[i]
  IN [G EXCEPT !.p = LimbSeq(Len(@), Read)]

size(X) == (msb(X) + CharBits - 1) \div CharBits
write_binary_fits(X, buflen) == buflen >= size(X)
write_binary(X, buflen) ==
  LET Char(j) == IF j >= size(X) THEN 0
                 ELSE (X.p[j \div ciL + 1] \div TwoTo[(j % ciL) * CharBits])
                        % TwoTo[CharBits]
  IN LimbSeq(buflen, LAMBDA i : Char(buflen - i))
----------------------------------------------------------------------------
Grown(X, count) ==
  IF Len(X.p) * biL < msb(X) + count
  THEN grow(X, BITS_TO_LIMBS(msb(X) + count)) ELSE X

\* By whole limbs, then by what is left, with the bits carried in r0.
shift_l(X, count) ==
  LET v0 == count \div biL
      t1 == count % biL
      G == Grown(X, count)
      Moved(i) == IF i > v0 THEN G.p[i - v0] ELSE 0
      Shifted(i) == ((Moved(i) * TwoTo[t1]) % Base)
                      + (Moved(i - 1) \div TwoTo[biL - t1])
  IN [G EXCEPT !.p = LimbSeq(Len(@), Shifted)]

shift_r(X, count) ==
  LET v0 == count \div biL
      v1 == count % biL
      Moved(i) == Limb(X.p, i + v0)
      Shifted(i) == (Moved(i) \div TwoTo[v1])
                      + ((Moved(i + 1) * TwoTo[biL - v1]) % Base)
  IN IF v0 > Len(X.p) \/ (v0 = Len(X.p) /\ v1 > 0)
     THEN lset(X, 0)
     ELSE [X EXCEPT !.p = LimbSeq(Len(@), Shifted)]
----------------------------------------------------------------------------
\* The sign of |X| - |Y|: by used limbs, then by the highest that differs.
cmp_abs(X, Y) ==
  LET i == Used(X.p)
      j == Used(Y.p)
      differ == {k \in 1..i : X.p[k] # Y.p[k]}
  IN IF i > j THEN 1 ELSE IF j > i THEN -1
     ELSE IF differ = {} THEN 0
     ELSE IF X.p[Max(differ)] > Y.p[Max(differ)] THEN 1 ELSE -1

cmp_mpi_signs(X, Y) == cmp_abs(X, Y) * X.s
cmp_mpi(X, Y) ==
  LET i == Used(X.p)
      j == Used(Y.p)
  IN IF i = 0 /\ j = 0 THEN 0
     ELSE IF i > j THEN X.s ELSE IF j > i THEN -Y.s
     ELSE IF X.s > Y.s THEN 1 ELSE IF Y.s > X.s THEN -1
     ELSE cmp_abs(X, Y) * X.s

cmp_int(X, z) ==
  cmp_mpi(X, [s |-> IF z < 0 THEN -1 ELSE 1, p |-> <<IF z < 0 THEN -z ELSE z>>])
----------------------------------------------------------------------------
(***************************************************************************)
(* The loops of mpi_add_abs.  c[i] is the carry out of the i-th limb.  If  *)
(* both operands are the same memory then *o is read after the carry was   *)
(* added to it, and compared with itself.                                  *)
(***************************************************************************)
Carries_second(p, o, n, same) ==
  LET c[i \in 0..n] ==
        IF i = 0 THEN 0
        ELSE LET d == (Limb(p, i) + c[i - 1]) % Base
             IN IF (d + Limb(o, i)) % Base < Limb(o, i) THEN 1 ELSE 0
  IN c
Carries(p, o, n, same) ==
  LET c[i \in 0..n] ==
        IF i = 0 THEN 0
        ELSE LET d == (Limb(p, i) + c[i - 1]) % Base
                 added == IF same THEN d ELSE Limb(o, i)
                 sum == (d + added) % Base
             IN (IF d < c[i - 1] THEN 1 ELSE 0)
                  + (IF ~same /\ sum < added THEN 1 ELSE 0)
  IN c

add_to(X, o, same) ==
  LET G == grow(X, Used(o))
      n == Len(G.p)
      c == Carries(G.p, o, n, same)
      Sum(i) == LET d == (G.p[i] + c[i - 1]) % Base
                IN (d + (IF same THEN d ELSE Limb(o, i))) % Base
      low == LimbSeq(n, Sum)
  IN [s |-> 1, p |-> IF c[n] = 0 THEN low ELSE Append(low, c[n])]

add_abs(r, x, a, b) ==
  IF x = b THEN add_to(r[x], r[a].p, x = a)
  ELSE add_to(IF x = a THEN r[x] ELSE copy(r[x], r[a]), r[b].p, FALSE)

\* mpi_sub_hlp over the used limbs of s, and the borrow after them.
sub_hlp(d, s) ==
  LET Take(i) == Limb(s, i)
      c[i \in 0..Len(d)] ==
        IF i = 0 THEN 0
        ELSE LET z == d[i] < c[i - 1]
                 rest == (d[i] - c[i - 1]) % Base
             IN (IF z THEN 1 ELSE 0) + (IF rest < Take(i) THEN 1 ELSE 0)
  IN LimbSeq(Len(d), LAMBDA i : (d[i] - c[i - 1] - Take(i)) % Base)

\* Defined when |A| >= |B|; otherwise an error, and nothing is written.
sub_abs(r, x, a, b) ==
  IF cmp_abs(r[a], r[b]) < 0 THEN r[x]
  ELSE LET X == IF x = a THEN r[x] ELSE copy(r[x], r[a])
       IN [s |-> 1, p |-> sub_hlp(X.p, r[b].p)]

\* mpi_add_mpi and mpi_sub_mpi take the sign of A before X is written.
Difference(r, x, a, b) ==
  IF cmp_abs(r[a], r[b]) >= 0
  THEN [sub_abs(r, x, a, b) EXCEPT !.s = r[a].s]
  ELSE [sub_abs(r, x, b, a) EXCEPT !.s = -r[a].s]

add_mpi(r, x, a, b) ==
  IF r[a].s * r[b].s < 0 THEN Difference(r, x, a, b)
  ELSE [add_abs(r, x, a, b) EXCEPT !.s = r[a].s]

sub_mpi(r, x, a, b) ==
  IF r[a].s * r[b].s > 0 THEN Difference(r, x, a, b)
  ELSE [add_abs(r, x, a, b) EXCEPT !.s = r[a].s]
----------------------------------------------------------------------------
(***************************************************************************)
(* mpi_mul_hlp: d[at + 1 ..] += s[1 .. n] * b with its last carry passed   *)
(* on for as long as there is one.  Limb n + 1 is always written.          *)
(***************************************************************************)
mul_hlp(n, s, d, at, b) ==
  LET c[k \in 0..(Len(d) - at)] ==
        IF k = 0 THEN 0
        ELSE (c[k - 1] + d[at + k] + (IF k <= n THEN s[k] * b ELSE 0)) \div Base
      Sum(i) ==
        IF i <= at THEN d[i]
        ELSE (d[i] + c[i - at - 1] + (IF i - at <= n THEN s[i - at] * b ELSE 0))
               % Base
  IN LimbSeq(Len(d), Sum)

\* Rows from the most significant limb of B down.
product(X, A, B) ==
  LET i == Used(A.p)
      j == Used(B.p)
      rows[k \in 0..j] ==
        IF k = 0 THEN Prepared(X, i + j).p
        ELSE mul_hlp(i, A.p, rows[k - 1], j - k, B.p[j - k + 1])
  IN [s |-> A.s * B.s, p |-> rows[j]]

\* An operand that is X is copied before X is cleared.
mul_mpi(r, x, a, b) == product(r[x], r[a], r[b])

mul_int(r, x, a, l) == product(r[x], r[a], [s |-> 1, p |-> <<l>>])
============================================================================
