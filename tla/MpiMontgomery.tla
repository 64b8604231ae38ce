--------------------------- MODULE MpiMontgomery ---------------------------
(***************************************************************************)
(* mpi_montmul and mpi_montg_init of bignum.c: A = A * B * R^-1 mod N with *)
(* R = Base^n, one limb of A per step.  The scratch T is written from a    *)
(* limb further up at every round, and the final subtraction is done on T  *)
(* instead of A when A needs none, so that both take the same time.        *)
(***************************************************************************)
EXTENDS MpiOperands

CONSTANTS Moduli,          \* mpi values of N
          Widths,          \* more widths of a limb to invert at
          Factors(_)       \* the A and B that mpi_exp_mod passes with N

(***************************************************************************)
(* mpi_exp_mod refuses a modulus that is negative or even, and takes both  *)
(* factors modulo N before it multiplies; mpi_montred passes 1.  A limb    *)
(* has 8, 16, 32 or 64 bits (bignum.h); the instances also have fewer.     *)
(***************************************************************************)
ASSUME ModuliAssumption ==
  \A M \in Moduli :
    /\ M \in Mpis /\ M.s = 1 /\ M.p # <<>> /\ M.p[1] % 2 = 1
    /\ \A F \in Factors(M) : /\ F \in Mpis /\ F.s = 1 /\ F.p # <<>>
                             /\ Magnitude(F.p) <= Magnitude(M.p)
ASSUME WidthsAssumption ==
  \A width \in Widths \cup {biL} :
    /\ width \in Nat /\ width >= biL
    /\ width <= 4 \/ \E h \in 0..width : width = 4 * TwoTo[h]

VARIABLES
  N,              \* the modulus
  A0,             \* A on entry
  mm,             \* -N^-1 mod Base
  T, d            \* the scratch limbs, and the limb d points to

montgomeryVars == <<pc, N, A, B, A0, mm, T, d>>

Nn == Len(N.p)

\* mpi_grow( &T, j * 2 ) and mpi_grow( &W[i], N->n + 1 ) of mpi_exp_mod.
Scratch == Resized(<<>>, 2 * (Nn + 1))

MontgomeryInit ==
  /\ N \in Moduli
  /\ B \in Factors(N)
  /\ \E l \in {1, 2} : A \in {grow(F, Len(N.p) + l) : F \in Factors(N)}
  /\ A0 = Magnitude(A.p)
  /\ pc = "init" /\ mm = 0 /\ T = <<>> /\ d = 0
----------------------------------------------------------------------------
(***************************************************************************)
(* mpi_montg_init for limbs of any width: an inverse modulo 16 whose width *)
(* is doubled for i = width, width / 2, ... down to 8.                     *)
(***************************************************************************)
Halvings(width) ==
  LET h[i \in 0..width] == IF i < 8 THEN 0 ELSE 1 + h[i \div 2] IN h[width]

montg_init(m0, width) ==
  LET size0 == TwoTo[width]
      x[k \in 0..Halvings(width)] ==
        IF k = 0 THEN (m0 + 2 * (4 * (((m0 + 2) \div 4) % 2))) % size0
        ELSE (x[k - 1] * ((2 - ((m0 * x[k - 1]) % size0)) % size0)) % size0
  IN (-x[Halvings(width)]) % size0

Start ==
  /\ pc = "init"
  /\ mm' = montg_init(N.p[1], biL)
  /\ T' = Scratch /\ d' = 0
  /\ pc' = "round"
  /\ UNCHANGED <<N, A, B, A0>>

\* As much of N is added as clears the limb at d.
Clearing_fresh(u0) == (u0 * B.p[1] * mm) % Base
Clearing(u0) == ((T[d + 1] + u0 * B.p[1]) * mm) % Base

\* That limb then keeps u0, and the one above the window is cleared.
Slid(t, u0) == [t EXCEPT ![d + 1] = u0, ![d + Nn + 3] = 0]

Round ==
  /\ pc = "round" /\ d < Nn
  /\ LET u0 == A.p[d + 1]
         m == Min({Len(B.p), Nn})
     IN T' = Slid(mul_hlp(Nn, N.p, mul_hlp(m, B.p, T, d, u0), d, Clearing(u0)), u0)
  /\ d' = d + 1
  /\ UNCHANGED <<pc, N, A, B, A0, mm>>

Moved(p) == [k \in DOMAIN p |-> IF k <= Nn + 1 THEN T[d + k] ELSE p[k]]

Copied ==
  /\ pc = "round" /\ d = Nn
  /\ A' = [A EXCEPT !.p = SubSeq(Moved(@), 1, Len(@))]
  /\ pc' = "copied"
  /\ UNCHANGED <<N, B, A0, mm, T, d>>

Exceeds_strict(X) == cmp_abs(X, N) > 0
Exceeds(X) == cmp_abs(X, N) >= 0

Subtract ==
  /\ pc = "copied" /\ Exceeds(A)
  /\ A' = [A EXCEPT !.p = sub_hlp(@, N.p)]
  /\ pc' = "multiplied"
  /\ UNCHANGED <<N, B, A0, mm, T, d>>

SubtractMasked ==
  /\ pc = "copied" /\ ~Exceeds(A)
  /\ T' = sub_hlp(T, SubSeq(A.p, 1, Nn))
  /\ pc' = "multiplied"
  /\ UNCHANGED <<N, A, B, A0, mm, d>>

MontgomeryNext == Start \/ Round \/ Copied \/ Subtract \/ SubtractMasked

MontgomerySpec == MontgomeryInit /\ [][MontgomeryNext]_montgomeryVars
----------------------------------------------------------------------------
Window == Magnitude(SubSeq(T, d + 1, d + Nn + 2))

(***************************************************************************)
(* mpi_montg_init inverts -N modulo the base, for the odd limbs of width   *)
(* biL, and for those of every width in Widths that end in N's limb: the   *)
(* Newton steps double its width as often as needed (bignum.c:1468-1480).  *)
(***************************************************************************)
InverseIsRight ==
  pc = "init" =>
    \A width \in Widths \cup {biL} :
      \A m0 \in {q * Base + N.p[1] : q \in 0..(TwoTo[width - biL] - 1)} :
        (m0 * montg_init(m0, width) + 1) % TwoTo[width] = 0

(***************************************************************************)
(* Between rounds the window of T is A's limbs so far times B, divided by  *)
(* the base once per limb modulo N, and below 2 N: no carry is lost, and   *)
(* one subtraction is enough at the end; the inverse of N by which each    *)
(* round clears a limb is right (bignum.c:1468-1509).                      *)
(***************************************************************************)
WindowReduces ==
  pc = "round" =>
    LET low == A0 % Places[d]
    IN /\ (Window * Places[d] - low * Magnitude(B.p)) % Magnitude(N.p) = 0
       /\ Window < 2 * Magnitude(N.p)

RoundReduces == InverseIsRight /\ WindowReduces

\* The product that comes out is the one below N, also when B has a single
\* limb, as in mpi_montred, or A more limbs than N (bignum.c:1511-1532).
ProductIsReduced ==
  pc = "multiplied" =>
    /\ Magnitude(A.p) < Magnitude(N.p)
    /\ (Magnitude(A.p) * Places[Nn] - A0 * Magnitude(B.p)) % Magnitude(N.p) = 0
=============================================================================
