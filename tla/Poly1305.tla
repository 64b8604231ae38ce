------------------------------ MODULE Poly1305 ------------------------------
(***************************************************************************)
(* crypto_onetimeauth_poly1305 of tweetnacl.c, one block of the message per*)
(* step.  The accumulator h is PolyBytes limbs of a byte and one more of   *)
(* two bits: numbers below about 2^(8 * PolyBytes + 2) modulo that power   *)
(* less five.  Clamping the key only makes it smaller and is left to Rs.   *)
(* Sums are kept in words of four bytes.                                   *)
(***************************************************************************)
EXTENDS Integers, Sequences, FiniteSetsExt

CONSTANTS PolyBytes,     \* 16
          PolyBits,      \* bits in a byte: 8
          Rs, Ss,        \* clamped first halves of a key, second halves
          Messages       \* sequences of bytes

B == 2 ^ PolyBits
Word == B ^ 4
Indices == 0..PolyBytes
PerLimb(F(_)) == [j \in Indices |-> F(j)]

VARIABLES
  r, s,        \* the halves of the key, s over PolyBytes limbs
  m,           \* the message
  n,           \* bytes of it absorbed
  h,           \* the accumulator
  out

vars == <<r, s, m, n, h, out>>

Padded(bytes) == PerLimb(LAMBDA j : IF j < Len(bytes) THEN bytes[j + 1] ELSE 0)

Init ==
  /\ r \in {Padded(k) : k \in Rs} /\ s \in {Padded(k) : k \in Ss}
  /\ m \in Messages
  /\ n = 0 /\ h = PerLimb(LAMBDA j : 0) /\ out = <<>>
----------------------------------------------------------------------------
\* Carries ripple from limb to limb; the last limb keeps what Top says.
Rippled(x, u0, last, Top(_)) ==
  LET u[j \in Indices] ==
        (x[j] + (IF j = 0 THEN u0 ELSE u[j - 1] \div B)) % Word
  IN [h |-> PerLimb(LAMBDA j : IF j < last THEN u[j] % B ELSE Top(u[j])),
      u |-> u[PolyBytes]]

add1305(x, c) ==
  Rippled(PerLimb(LAMBDA j : (x[j] + c[j]) % Word), 0, PolyBytes,
          LAMBDA u : u % B).h

\* Up to PolyBytes bytes and a one after the last.
Block ==
  LET length == Min({PolyBytes, Len(m) - n})
  IN Padded(SubSeq(m, n + 1, n + length) \o <<1>>)

\* Limbs past the last come back at the bottom, times 320.
Factor == 5 * 2 ^ (PolyBits - 2)
Multiplied(x) ==
  PerLimb(LAMBDA i :
    MapThenSumSet(LAMBDA j : x[j] * (IF j <= i THEN r[i - j]
                                     ELSE Factor * r[i + PolyBytes + 1 - j]),
                  Indices) % Word)

\* Two bits stay in the last limb, what is above comes back times five.
Squeezed(x) ==
  LET first == Rippled(x, 0, PolyBytes, LAMBDA u : u % 4)
  IN Rippled(first.h, 5 * (first.u \div 4), PolyBytes, LAMBDA u : u).h

Absorb ==
  /\ n < Len(m)
  /\ h' = Squeezed(Multiplied(add1305(h, Block)))
  /\ n' = n + Min({PolyBytes, Len(m) - n})
  /\ UNCHANGED <<r, s, m, out>>

minusp == PerLimb(LAMBDA j : IF j = 0 THEN 5 ELSE IF j = PolyBytes THEN B - 4 ELSE 0)

\* h - p, unless its highest bit says that this is negative.
Frozen_never(x) == x
Frozen(x) ==
  LET less == add1305(x, minusp)
  IN IF less[PolyBytes] >= B \div 2 THEN x ELSE less

Finish ==
  /\ n = Len(m) /\ out = <<>>
  /\ LET sum == add1305(Frozen(h), s)
     IN out' = [j \in 1..PolyBytes |-> sum[j - 1]]
  /\ UNCHANGED <<r, s, m, n, h>>

Next == Absorb \/ Finish

Spec == Init /\ [][Next]_vars
----------------------------------------------------------------------------
P == 4 * B ^ PolyBytes - 5
Number(x) == MapThenSumSet(LAMBDA j : x[j] * B ^ j, Indices)

\* The polynomial of RFC 8439 over the bytes taken so far.
Polynomial ==
  LET blocks == (n + PolyBytes - 1) \div PolyBytes
      Part(i) == Padded(SubSeq(m, (i - 1) * PolyBytes + 1, Min({i * PolyBytes, Len(m)})) \o <<1>>)
      acc[i \in 0..blocks] ==
        IF i = 0 THEN 0 ELSE ((acc[i - 1] + Number(Part(i))) * Number(r)) % P
  IN acc[blocks]

(***************************************************************************)
(* After every block h is the polynomial modulo p, in limbs that fit: no   *)
(* carry is lost at a limb, past the last one or past a word, and at the   *)
(* end the tag is the residue itself plus s, though h may have come out at *)
(* or above p, where the one subtraction of minusp is needed               *)
(* (tweetnacl.c:176-217).                                                  *)
(***************************************************************************)
TagIsPoly1305 ==
  /\ Number(h) % P = Polynomial
  /\ \A j \in Indices : h[j] < (IF j < PolyBytes THEN B ELSE 5)
  /\ out # <<>> =>
       MapThenSumSet(LAMBDA j : out[j] * B ^ (j - 1), DOMAIN out)
         = (Polynomial + Number(s)) % B ^ PolyBytes
=============================================================================
