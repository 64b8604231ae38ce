---------------------------- MODULE MpiDivision ----------------------------
(***************************************************************************)
(* mpi_mod_mpi and the mpi_div_mpi it calls (bignum.c), one round of a     *)
(* loop per step: the long division that brings every value of SRP below N.*)
(* A digit of the quotient is estimated from the two highest limbs,        *)
(* lowered until three limbs agree, and corrected once after the fact.     *)
(***************************************************************************)
EXTENDS MpiOperands

CONSTANTS Dividends, Divisors     \* the mpi values of A and B

ASSUME DivisorsAssumption ==
  /\ Dividends \subseteq Mpis
  /\ \A b \in Divisors : b \in Mpis /\ b.s = 1 /\ Magnitude(b.p) # 0

VARIABLES
  v,          \* the locals X, Y, Z, T1 and T2
  k,          \* the normalising shift
  n, t, i,    \* highest limbs of X and Y, limb being divided
  R           \* the remainder

divisionVars == <<pc, A, B, v, k, n, t, i, R>>
inputs == <<A, B>>

Locals == {"X", "Y", "Z", "T1", "T2"}

DivisionInit ==
  /\ A \in Dividends /\ B \in Divisors
  /\ pc = "start" /\ R = Null
  /\ v = [l \in Locals |-> Null]
  /\ k = 0 /\ n = 0 /\ t = 0 /\ i = 0
----------------------------------------------------------------------------
\* Limb j of a local, counted from 0 as in the source.
At(l, j) == v[l].p[j + 1]
With(l, j, limb) == [v EXCEPT ![l].p[j + 1] = limb]

\* |A| < |B|: the remainder is A.
Small ==
  /\ pc = "start" /\ cmp_abs(A, B) < 0
  /\ R' = copy(R, A)
  /\ pc' = "reduce"
  /\ UNCHANGED <<inputs, v, k, n, t, i>>

\* Shift both until the highest limb of Y has biL - 1 bits, then Y under X.
Shift(Y) ==
  LET top == msb(Y) % biL
  IN IF top < biL - 1 THEN biL - 1 - top ELSE 0

Normalise ==
  /\ pc = "start" /\ cmp_abs(A, B) >= 0
  /\ LET shift == Shift(copy(Null, B))
         X == shift_l([copy(Null, A) EXCEPT !.s = 1], shift)
         Y == shift_l([copy(Null, B) EXCEPT !.s = 1], shift)
     IN /\ k' = shift /\ n' = Len(X.p) - 1 /\ t' = Len(Y.p) - 1
        /\ v' = [X |-> X, Y |-> shift_l(Y, biL * (Len(X.p) - Len(Y.p))),
                 Z |-> Prepared(Null, Len(A.p) + 2),
                 T1 |-> grow(Null, 2), T2 |-> grow(Null, 3)]
  /\ pc' = "top"
  /\ UNCHANGED <<inputs, i, R>>

\* The highest digit, by repeated subtraction.
TopDigit ==
  /\ pc = "top" /\ cmp_mpi(v["X"], v["Y"]) >= 0
  /\ v' = [With("Z", n - t, (At("Z", n - t) + 1) % Base)
             EXCEPT !["X"] = sub_mpi(v, "X", "X", "Y")]
  /\ UNCHANGED <<pc, inputs, k, n, t, i, R>>

TopDone ==
  /\ pc = "top" /\ cmp_mpi(v["X"], v["Y"]) < 0
  /\ v' = [v EXCEPT !["Y"] = shift_r(@, biL * (n - t))]
  /\ i' = n
  /\ pc' = "estimate"
  /\ UNCHANGED <<inputs, k, n, t, R>>

Place == i - t - 1

Quotient(high, low, by) ==
  IF high >= by THEN Base - 1
  ELSE Min({(high * Base + low) \div by, Base - 1})

Estimate ==
  /\ pc = "estimate" /\ i > t
  /\ v' = With("Z", Place, Quotient(At("X", i), At("X", i - 1), At("Y", t)))
  /\ pc' = "lower"
  /\ UNCHANGED <<inputs, k, n, t, i, R>>

\* The do-while: T1 = Z * (two limbs of Y), T2 = three limbs of X.
Tested ==
  LET Y2 == Resized(<<IF t < 1 THEN 0 ELSE At("Y", t - 1), At("Y", t)>>,
                    Len(v["T1"].p))
      X3 == Resized(<<IF i < 2 THEN 0 ELSE At("X", i - 2), At("X", i - 1),
                      At("X", i)>>, Len(v["T2"].p))
      set == [v EXCEPT !["T1"] = [s |-> 1, p |-> Y2],
                       !["T2"] = [s |-> 1, p |-> X3]]
  IN [set EXCEPT !["T1"] = mul_int(set, "T1", "T1", At("Z", Place))]

TooHigh == cmp_mpi(Tested["T1"], Tested["T2"]) > 0

Lower ==
  /\ pc = "lower" /\ TooHigh
  /\ v' = [Tested EXCEPT !["Z"].p[Place + 1] = (@ - 1) % Base]
  /\ UNCHANGED <<pc, inputs, k, n, t, i, R>>

\* X -= Z * Y, and what Y gives back when that was one too much.
Reduced ==
  LET by == [v EXCEPT !["T1"] = mul_int(v, "T1", "Y", At("Z", Place))]
      at == [by EXCEPT !["T1"] = shift_l(@, biL * Place)]
  IN [at EXCEPT !["X"] = sub_mpi(at, "X", "X", "T1")]

SubtractDigit ==
  /\ pc = "lower" /\ ~TooHigh /\ cmp_int(Reduced["X"], 0) >= 0
  /\ v' = Reduced
  /\ i' = i - 1 /\ pc' = "estimate"
  /\ UNCHANGED <<inputs, k, n, t, R>>

Restored_digitKept(u) == u
Restored(u) == [u EXCEPT !["Z"].p[Place + 1] = (@ - 1) % Base]

AddBack ==
  /\ pc = "lower" /\ ~TooHigh /\ cmp_int(Reduced["X"], 0) < 0
  /\ LET at == [Reduced EXCEPT !["T1"] = shift_l(copy(@, v["Y"]), biL * Place)]
     IN v' = Restored([at EXCEPT !["X"] = add_mpi(at, "X", "X", "T1")])
  /\ i' = i - 1 /\ pc' = "estimate"
  /\ UNCHANGED <<inputs, k, n, t, R>>

\* The end of mpi_div_mpi; Q is not asked for.
Signed(X) == IF cmp_int(X, 0) = 0 THEN [X EXCEPT !.s = 1] ELSE X
Unshifted_not(X) == X
Unshifted(X) == shift_r(X, k)
Remainder ==
  /\ pc = "estimate" /\ i <= t
  /\ R' = Signed(copy(R, [Unshifted(v["X"]) EXCEPT !.s = A.s]))
  /\ pc' = "reduce"
  /\ UNCHANGED <<inputs, v, k, n, t, i>>

\* The loops of mpi_mod_mpi.
Both == [R |-> R, B |-> B]

Raise == /\ pc = "reduce" /\ cmp_int(R, 0) < 0
         /\ R' = add_mpi(Both, "R", "R", "B")
         /\ UNCHANGED <<pc, inputs, v, k, n, t, i>>

Reduce == /\ pc = "reduce" /\ cmp_int(R, 0) >= 0
          /\ IF cmp_mpi(R, B) >= 0
             THEN R' = sub_mpi(Both, "R", "R", "B") /\ UNCHANGED pc
             ELSE pc' = "done" /\ UNCHANGED R
          /\ UNCHANGED <<inputs, v, k, n, t, i>>

DivisionNext == \/ Small \/ Normalise \/ TopDigit \/ TopDone \/ Estimate \/ Lower
                \/ SubtractDigit \/ AddBack \/ Remainder \/ Raise \/ Reduce

DivisionSpec == DivisionInit /\ [][DivisionNext]_divisionVars
----------------------------------------------------------------------------
Divisor == Magnitude(B.p) * TwoTo[k]

(***************************************************************************)
(* Between two digits |A| = Z * |B| + X, both sides shifted alike: whatever*)
(* the estimate and its corrections did to the digit they did to X as well *)
(* (bignum.c:1241-1335).                                                   *)
(***************************************************************************)
Balanced ==
  pc \in {"top", "estimate"} =>
    Magnitude(A.p) * TwoTo[k] = Magnitude(v["Z"].p) * Divisor + Value(v["X"])

(***************************************************************************)
(* Between two digits what is left of X is not negative and less than Y in *)
(* the place just divided, so the next quotient is one digit; one addition *)
(* is therefore enough whenever the estimate was too high                  *)
(* (bignum.c:1250-1262, 1322, 1328).                                       *)
(***************************************************************************)
NextDigitFits ==
  pc = "estimate" =>
    /\ Value(v["X"]) >= 0
    /\ Value(v["X"]) < Divisor * Places[i - t]

\* What comes out of mpi_mod_mpi is the residue that is not negative
\* (bignum.c:1384-1402).
IsResidue ==
  pc = "done" => Value(R) = Value(A) % Value(B)

(***************************************************************************)
(* While a digit is tried it is never too low and at most four too high:   *)
(* the loop that lowers it ends soon and never passes zero.  Two would be  *)
(* the bound if the shift set the highest bit of Y; mpi_div_mpi leaves one *)
(* more bit clear (bignum.c:1228-1235, 1250-1262, 1307-1322).              *)
(***************************************************************************)
TriedDigitIsClose ==
  pc = "lower" =>
    LET digit == Value(v["X"]) \div (Divisor * Places[Place])
    IN At("Z", Place) \in digit..(digit + 4)

(***************************************************************************)
(* The digits so far, what is left to divide and the digit being tried     *)
(* always add up to a division that comes out right (bignum.c:1241-1335).  *)
(***************************************************************************)
DigitsBalance == Balanced /\ NextDigitFits /\ TriedDigitIsClose
=============================================================================
