------------------------------ MODULE Ed25519 ------------------------------
(***************************************************************************)
(* Keys and signatures of tweetnacl.c.  Field25519 models the arithmetic of*)
(* the field; here an element is its residue modulo P.  A byte has Radix   *)
(* values and a scalar N bytes; the curve is -x^2 + y^2 = 1 + D x^2 y^2.   *)
(***************************************************************************)
EXTENDS Integers, Sequences, SequencesExt, FiniteSetsExt

CONSTANTS
  ByteBits,      \* 8
  N,             \* 32
  P,             \* 2^255 - 19: five more than a multiple of eight
  D,             \* no square modulo P
  I,             \* a square root of -1
  X, Y,          \* the base point
  L,             \* its order, as bytes: little above a power of two
  Fold,          \* what Radix^N is to that power: 16
  Window,        \* bytes that modL carries through: 20
  sha512(_),     \* a function from byte sequences to 2 * N bytes
  Seeds,         \* what rand() gives for a key, sequences of N integers
  Messages,      \* byte sequences
  Keys           \* what a caller may take for a public key

VARIABLES
  sk, pk,        \* arguments of the signing end
  texts,         \* messages it has signed
  sm,            \* what a caller of crypto_sign_ed25519_open passes
  key,           \* with this public key
  q,             \* the point of that key, negated
  m, mlen,       \* what comes back
  result

signing == <<sk, pk, texts>>
vars == <<signing, sm, key, q, m, mlen, result>>

Radix == 2 ^ ByteBits
PerByte(F(_), n) == SubSeq([j \in 1..n |-> F(j)], 1, n)
Bytes(number, n) == PerByte(LAMBDA j : (number \div Radix ^ (j - 1)) % Radix, n)
Bits == N * ByteBits
Integer(bytes) == FoldRight(LAMBDA byte, v : byte + Radix * v, bytes, 0)
Mul(x, y) == (x * y) % P
Garbage(n) == [j \in 1..n |-> Radix - 1]
Refusal == "refused"

\* 2^255: a bit less than the bytes have.
High == Radix ^ N \div 2
Power(x, e) ==
  LET power[k \in 0..e] ==
        IF k = 0 THEN 1
        ELSE LET half == power[k \div 2]
             IN Mul(Mul(half, half), IF k % 2 = 1 THEN x ELSE 1)
  IN power[e]
----------------------------------------------------------------------------
(***************************************************************************)
(* Points are <<X, Y, Z, T>> with x = X / Z, y = Y / Z and x y = T / Z.    *)
(***************************************************************************)
add(p, r) ==
  LET a == Mul(p[2] - p[1], r[2] - r[1])
      b == Mul(p[1] + p[2], r[1] + r[2])
      c == Mul(Mul(p[4], r[4]), 2 * D)
      d == 2 * Mul(p[3], r[3])
      e == b - a  f == d - c  g == d + c  h == b + a
  IN <<Mul(e, f), Mul(h, g), Mul(g, f), Mul(e, h)>>

pack(p) ==
  LET zi == Power(p[3], P - 2)
  IN Bytes(Mul(p[2], zi) + High * (Mul(p[1], zi) % 2), N)

\* From the highest bit down; the second point is one r ahead.
Stepped(p, r, bit) == IF bit = 1 THEN <<add(p, r), add(r, r)>> ELSE <<add(p, p), add(r, p)>>
scalarmult(r, s) ==
  LET points[j \in 0..Bits] ==
        IF j = 0 THEN <<<<0, 1, 1, 0>>, r>>
        ELSE LET before == points[j - 1]
             IN Stepped(before[1], before[2], (Integer(s) \div 2 ^ (Bits - j)) % 2)
  IN points[Bits][1]
scalarbase(s) == scalarmult(<<X, Y, 1, Mul(X, Y)>>, s)

\* The point of an encoding, with its x negated.
Turned(root, num, den) == IF Mul(Mul(root, root), den) = num THEN root ELSE Mul(root, I)
Negated_zero(root, sign) == IF root % 2 = sign /\ root # 0 THEN root ELSE P - root
Negated(root, sign) == IF root % 2 = sign THEN (-root) % P ELSE root
unpackneg(bytes) ==
  LET y == (Integer(bytes) % High) % P
      num == Mul(y, y) - 1
      den == (Mul(Mul(y, y), D) + 1) % P
      den2 == Mul(den, den)
      t == Mul(Mul(Mul(Mul(den2, den2), den2), num), den)
      root == Mul(Mul(Mul(Mul(Power(t, (P - 5) \div 8), num), den), den), den)
      x == Turned(root, num % P, den)
  IN IF Mul(Mul(x, x), den) # num % P THEN Refusal
     ELSE LET x1 == Negated(x, Integer(bytes) \div High)
          IN <<x1, y, 1, Mul(x1, y)>>
----------------------------------------------------------------------------
(***************************************************************************)
(* modL.  A byte i above the N lowest stands for Fold times the low bytes  *)
(* of L, less that; the carry is rounded, and stays Window bytes on.       *)
(***************************************************************************)
Rounded(v) == (v + Radix \div 2) \div Radix
Lowered(x, i) ==
  LET v[j \in (i - N)..(i - N + Window - 1)] ==
        x[j] - Fold * x[i] * L[j - (i - N) + 1]
             + (IF j = i - N THEN 0 ELSE Rounded(v[j - 1]))
  IN PerByte(LAMBDA j : IF j \in DOMAIN v THEN v[j] - Radix * Rounded(v[j])
                        ELSE IF j = i - N + Window THEN x[j] + Rounded(v[j - 1])
                        ELSE IF j = i THEN 0 ELSE x[j], 2 * N)

\* Then a quotient from the highest byte, that can be one too high.
Less(x, quotient) ==
  LET v[j \in 0..N] == IF j = 0 THEN 0
                       ELSE x[j] - quotient * L[j] + (v[j - 1] \div Radix)
  IN [low |-> PerByte(LAMBDA j : v[j] % Radix, N), carry |-> v[N] \div Radix]

modL(x) ==
  LET low == FoldLeft(Lowered, x, [k \in 1..N |-> 2 * N + 1 - k])
      less == Less(low, low[N] \div L[N])
  IN Less(less.low, less.carry).low

reduce(r) == modL(r)
----------------------------------------------------------------------------
Init ==
  /\ sk = Garbage(2 * N) /\ pk = Garbage(N) /\ texts = <<>>
  /\ sm = <<>> /\ key = Garbage(N) /\ q = Refusal
  /\ m = <<>> /\ mlen = -1 /\ result = "none"

\* The lowest three bits go, and the highest; the one below it is set.
Clamped(d) ==
  [d EXCEPT ![1] = @ - (@ % 8), ![N] = (Radix \div 4) + (@ % (Radix \div 4))]

\* random_create adds to what was there.  Once is enough.
crypto_sign_ed25519_keypair ==
  /\ sk = Garbage(2 * N)
  /\ \E seed \in Seeds :
       LET secret == [j \in 1..N |-> (sk[j] + seed[j]) % Radix]
           public == pack(scalarbase(SubSeq(Clamped(sha512(secret)), 1, N)))
       IN pk' = public /\ sk' = secret \o public
  /\ UNCHANGED <<texts, sm, key, q, m, mlen, result>>

\* The signature is made in the place where the message will be sent from.
Hashed_early(r, own, text) == sha512(pack(scalarbase(r)) \o Garbage(N) \o text)
Hashed(r, own, text) == sha512(pack(scalarbase(r)) \o own \o text)
Signed(text) ==
  LET d == Clamped(sha512(SubSeq(sk, 1, N)))
      r == SubSeq(reduce(sha512(SubSeq(d, N + 1, 2 * N) \o text)), 1, N)
      h == reduce(Hashed(r, SubSeq(sk, N + 1, 2 * N), text))
      x == PerByte(LAMBDA k :
             (IF k <= N THEN r[k] ELSE 0)
               + MapThenSumSet(LAMBDA j : h[k + 1 - j] * d[j],
                               {j \in 1..N : k + 1 - j \in 1..N}), 2 * N)
  IN pack(scalarbase(r)) \o modL(x) \o text

crypto_sign_ed25519 ==
  /\ sk # Garbage(2 * N) /\ texts = <<>>
  /\ \E text \in Messages : texts' = <<text>> /\ sm' = Signed(text)
  /\ key' = pk
  /\ UNCHANGED <<sk, pk, q, m, mlen, result>>

\* On the way to the caller, or by the caller.
Arrives ==
  /\ result = "none" /\ texts # <<>>
  /\ \/ \E j \in DOMAIN sm : sm' = [sm EXCEPT ![j] = (@ + 1) % Radix] /\ key' = key
     \/ \E n \in {2 * N - 1, Len(sm) - 1} : sm' = SubSeq(sm, 1, n) /\ key' = key
     \/ \E other \in Keys : key' = other /\ sm' = sm
  /\ result' = "damaged"
  /\ UNCHANGED <<signing, q, m, mlen>>

OpenStarts ==
  /\ texts # <<>> /\ result \in {"none", "damaged"}
  /\ mlen' = -1
  /\ q' = IF Len(sm) < 2 * N THEN Refusal ELSE unpackneg(key)
  /\ m' = Garbage(Len(sm))
  /\ result' = IF q' = Refusal THEN Refusal ELSE "decoded"
  /\ UNCHANGED <<signing, sm, key>>

\* m is the hashed text first, then the message, or zero.
Verified(n) ==
  LET h == reduce(sha512(SubSeq(sm, 1, N) \o key \o SubSeq(sm, 2 * N + 1, n)))
  IN pack(add(scalarmult(q, h), scalarbase(SubSeq(sm, N + 1, 2 * N)))) = SubSeq(sm, 1, N)
Kept(n, bytes) ==
  LET hashed == SubSeq(sm, 1, N) \o key \o SubSeq(sm, 2 * N + 1, n)
  IN bytes \o SubSeq(hashed, n - 2 * N + 1, n)

OpenVerifies ==
  /\ result = "decoded"
  /\ LET n == Len(sm)
     IN IF Verified(n)
        THEN /\ m' = Kept(n, SubSeq(sm, 2 * N + 1, n))
             /\ mlen' = n - 2 * N /\ result' = "opened"
        ELSE /\ m' = Kept(n, [j \in 1..(n - 2 * N) |-> 0])
             /\ result' = Refusal /\ UNCHANGED mlen
  /\ UNCHANGED <<signing, sm, key, q>>

Next ==
  \/ crypto_sign_ed25519_keypair \/ crypto_sign_ed25519 \/ Arrives
  \/ OpenStarts \/ OpenVerifies

Spec == Init /\ [][Next]_vars
----------------------------------------------------------------------------
(***************************************************************************)
(* The group in affine coordinates, and RFC 8032 over it.                  *)
(***************************************************************************)
Over(x, y) == Mul(x, Power(y % P, P - 2))
Plus(s, t) ==
  LET product == Mul(Mul(Mul(s[1], t[1]), Mul(s[2], t[2])), D)
  IN <<Over(Mul(s[1], t[2]) + Mul(s[2], t[1]), 1 + product),
       Over(Mul(s[2], t[2]) + Mul(s[1], t[1]), 1 - product)>>
Multiple(point, n) ==
  LET multiple[k \in 0..n] ==
        IF k = 0 THEN <<0, 1>>
        ELSE LET half == multiple[k \div 2]
                 even == Plus(half, half)
             IN IF k % 2 = 1 THEN Plus(even, point) ELSE even
  IN multiple[n]
Encoding(point) == Bytes(point[2] + High * (point[1] % 2), N)
Minus(point) == <<(-point[1]) % P, point[2]>>
OnCurve(point) ==
  (Mul(point[2], point[2]) - Mul(point[1], point[1])) % P
    = (1 + Mul(Mul(Mul(point[1], point[1]), Mul(point[2], point[2])), D)) % P
Order == Integer(L)
Base == <<X, Y>>
Affine(p) == <<p[1], p[2]>>

(***************************************************************************)
(* A public key is refused exactly if no point of the curve has its y, for *)
(* a y below P or not; otherwise what is computed with is the negative of  *)
(* the point it encodes, and for x = 0 the bit of the sign is ignored      *)
(* (tweetnacl.c:776-810).                                                  *)
(***************************************************************************)
EncodingsInvert ==
  result \in {"decoded", "opened"} \/ (result = Refusal /\ Len(sm) >= 2 * N) =>
    LET number == Integer(key) % High
        squared == Over(Mul(number % P, number % P) - 1,
                        1 + Mul(Mul(number % P, number % P), D))
    IN IF q = Refusal THEN squared # 0 /\ Power(squared, (P - 1) \div 2) # 1
       ELSE /\ OnCurve(Affine(q)) /\ q[3] = 1 /\ q[4] = Mul(q[1], q[2])
            /\ q[2] = number % P
            /\ Integer(Encoding(Minus(Affine(q)))) % High = number % P
            /\ Minus(q)[1] % 2 = Integer(key) \div High \/ q[1] = 0

Challenge == Integer(sha512(SubSeq(sm, 1, N) \o key \o SubSeq(sm, 2 * N + 1, Len(sm)))) % Order
Equation ==
  Encoding(Plus(Multiple(Base, Integer(SubSeq(sm, N + 1, 2 * N))),
                Multiple(Affine(q), Challenge))) = SubSeq(sm, 1, N)

(***************************************************************************)
(* What was signed is the signature of RFC 8032 with scalars below the     *)
(* order, and opens to its text; anything opens exactly if the equation of *)
(* the signature holds, and a text that does not is wiped                  *)
(* (tweetnacl.c:625-842).                                                  *)
(***************************************************************************)
SignedOpens ==
  /\ texts # <<>> /\ result = "none" =>
       LET d == Clamped(sha512(SubSeq(sk, 1, N)))
           r == Integer(sha512(SubSeq(d, N + 1, 2 * N) \o texts[1])) % Order
           s == (r + Challenge * (Integer(SubSeq(d, 1, N)) % Order)) % Order
       IN /\ pk = Encoding(Multiple(Base, Integer(SubSeq(d, 1, N))))
          /\ sm = Encoding(Multiple(Base, r)) \o Bytes(s, N) \o texts[1]
  /\ result = "opened" => Equation /\ SubSeq(m, 1, mlen) = SubSeq(sm, 2 * N + 1, Len(sm))
  /\ result = Refusal => /\ mlen = -1
                         /\ q # Refusal => /\ ~Equation
                                           /\ \A j \in 1..(Len(sm) - 2 * N) : m[j] = 0
=============================================================================
