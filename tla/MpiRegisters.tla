---------------------------- MODULE MpiRegisters ----------------------------
(***************************************************************************)
(* Registers that hold an mpi each, and the functions of bignum.c applied  *)
(* to them in any order and with any of their arguments the same register, *)
(* as srp.c, mpi_div_mpi and mpi_exp_mod do.  Limbs left over from earlier *)
(* values stay allocated.                                                  *)
(***************************************************************************)
EXTENDS Mpi

CONSTANTS Regs,
          Digits,       \* what mpi_lset sets
          Counts,       \* by how many bits values are shifted
          Bufs,         \* what mpi_read_binary reads
          MaxLimbs      \* bound on the limbs of each register

Chars == 0..(TwoTo[CharBits] - 1)

\* A t_sint has the bits of a limb, one of them for the sign.
ASSUME MaxLimbsAssumption == MaxLimbs \in [Regs -> Nat]
ASSUME DigitsAssumption == Digits \subseteq (1 - Base)..(Base - 1)
ASSUME CountsAssumption == Counts \subseteq Nat
ASSUME BufsAssumption == Bufs \subseteq Seq(Chars)

VARIABLE reg

Writes(x, X) == Len(X.p) <= MaxLimbs[x] /\ reg' = [reg EXCEPT ![x] = X]

Init == reg = [x \in Regs |-> Null]

Free(x) == Writes(x, Null)
Lset(x) == \E z \in Digits : Writes(x, lset(reg[x], z))
Copy(x, a) == x # a /\ Writes(x, copy(reg[x], reg[a]))
ReadBinary(x) == \E buf \in Bufs : Writes(x, read_binary(reg[x], buf))
ShiftL(x) == \E k \in Counts : Writes(x, shift_l(reg[x], k))
ShiftR(x) == \E k \in Counts : Writes(x, shift_r(reg[x], k))
AddAbs(x, a, b) == Writes(x, add_abs(reg, x, a, b))
SubAbs(x, a, b) == Writes(x, sub_abs(reg, x, a, b))
AddMpi(x, a, b) == Writes(x, add_mpi(reg, x, a, b))
SubMpi(x, a, b) == Writes(x, sub_mpi(reg, x, a, b))
MulMpi(x, a, b) == Writes(x, mul_mpi(reg, x, a, b))
Shrink(x) == \E n \in 1..2 : Writes(x, shrink(reg[x], n))
SetBit(x) == \E pos \in Counts, val \in 0..2 : Writes(x, set_bit(reg[x], pos, val))
CondAssign(x, a) ==
  \E assign \in Chars : Writes(x, safe_cond_assign(reg[x], reg[a], assign))

WritesBoth(x, y, XY) ==
  /\ Len(XY[1].p) <= MaxLimbs[x] /\ Len(XY[2].p) <= MaxLimbs[y]
  /\ reg' = [reg EXCEPT ![x] = XY[1], ![y] = XY[2]]
Swap(x, y) == WritesBoth(x, y, <<reg[y], reg[x]>>)
CondSwap(x, y) ==
  x # y /\ \E swap \in Chars : WritesBoth(x, y, safe_cond_swap(reg[x], reg[y], swap))

MulInt(x, a) == \E z \in Digits : z >= 0 /\ Writes(x, mul_int(reg, x, a, z))

\* The program never adds an mpi to itself in place, where a limb of B is read
\* after the carry went into the same limb of X (bignum.c:889-891).
Distinct(x, a, b) == x # a \/ x # b

Next ==
  \E x \in Regs :
    \/ Free(x) \/ Lset(x) \/ ReadBinary(x) \/ ShiftL(x) \/ ShiftR(x)
    \/ Shrink(x) \/ SetBit(x)
    \/ \E a \in Regs : \/ Copy(x, a) \/ MulInt(x, a) \/ CondAssign(x, a)
                      \/ Swap(x, a) \/ CondSwap(x, a)
    \/ \E a, b \in Regs :
         \/ SubAbs(x, a, b) \/ MulMpi(x, a, b)
         \/ Distinct(x, a, b)
              /\ (AddAbs(x, a, b) \/ AddMpi(x, a, b) \/ SubMpi(x, a, b))

Spec == Init /\ [][Next]_reg
-----------------------------------------------------------------------------
Signum(n) == IF n < 0 THEN -1 ELSE IF n > 0 THEN 1 ELSE 0
Abs(n) == IF n < 0 THEN -n ELSE n

(***************************************************************************)
(* mpi_cmp_mpi and mpi_cmp_abs order the registers as their integers are   *)
(* ordered, though a zero may have a minus sign and equal values different *)
(* numbers of limbs (bignum.c:782-840, 1172).                              *)
(***************************************************************************)
ComparesAsIntegers ==
  \A x, y \in Regs :
    /\ cmp_mpi(reg[x], reg[y]) = Signum(Value(reg[x]) - Value(reg[y]))
    /\ cmp_abs(reg[x], reg[y]) =
         Signum(Abs(Value(reg[x])) - Abs(Value(reg[y])))

(***************************************************************************)
(* What srp_init saves with mpi_write_binary, srp_setA reads back as the   *)
(* same value, into any register and from a buffer of any sufficient size  *)
(* (srp.c:127, 191, 217; bignum.c:646-684).                                *)
(***************************************************************************)
WrittenIsRead ==
  \A x, y \in Regs : \A buflen \in 0..(MaxLimbs[x] * ciL + 1) :
    IF write_binary_fits(reg[x], buflen)
    THEN Value(read_binary(reg[y], write_binary(reg[x], buflen)))
           = Abs(Value(reg[x]))
    ELSE TwoTo[CharBits * buflen] <= Abs(Value(reg[x]))

(***************************************************************************)
(* Sums and differences are those of the integers for any signs, sizes and *)
(* leftover limbs, also when the result overwrites an operand: no carry or *)
(* borrow is lost or runs past the limbs (bignum.c:861-1034).              *)
(***************************************************************************)
AddsIntegers ==
  \A x, a, b \in Regs :
    LET A == Value(reg[a])
        B == Value(reg[b])
    IN /\ Distinct(x, a, b) =>
            /\ Value(add_abs(reg, x, a, b)) = Abs(A) + Abs(B)
            /\ Value(add_mpi(reg, x, a, b)) = A + B
            /\ Value(sub_mpi(reg, x, a, b)) = A - B
       /\ Abs(A) >= Abs(B) =>
            Value(sub_abs(reg, x, a, b)) = Abs(A) - Abs(B)

(***************************************************************************)
(* Products are those of the integers when X is A, B or both, and fill no  *)
(* limb outside those of X (bignum.c:1083-1195).                           *)
(***************************************************************************)
MultipliesIntegers ==
  \A x, a \in Regs :
    /\ \A b \in Regs :
         Value(mul_mpi(reg, x, a, b)) = Value(reg[a]) * Value(reg[b])
    /\ \A z \in Digits : z >= 0 =>
         Value(mul_int(reg, x, a, z)) = Value(reg[a]) * z

(***************************************************************************)
(* A left shift multiplies and loses no bit, a right shift divides the     *)
(* magnitude, by whole and broken numbers of limbs and past the end        *)
(* (bignum.c:689-777).                                                     *)
(***************************************************************************)
ShiftsIntegers ==
  \A x \in Regs, k \in Counts :
    /\ Value(shift_l(reg[x], k)) = Value(reg[x]) * TwoTo[k]
    /\ Abs(Value(shift_r(reg[x], k))) = Abs(Value(reg[x])) \div TwoTo[k]

(***************************************************************************)
(* Single bits are those of the magnitude, shrinking keeps the value, and  *)
(* a choice without a branch gives one of its operands, whichever of them  *)
(* has more limbs and whatever char other than zero asks for it            *)
(* (bignum.c:135-168, 221-281, 301-350).                                   *)
(***************************************************************************)
ChoosesIntegers ==
  \A x, y \in Regs :
    LET m == Abs(Value(reg[x]))
    IN /\ \A n \in 0..3 : Value(shrink(reg[x], n)) = Value(reg[x])
       /\ \A pos \in Counts, val \in {0, 1} :
            /\ get_bit(reg[x], pos) = (m \div TwoTo[pos]) % 2
            /\ Abs(Value(set_bit(reg[x], pos, val))) =
                 m + (val - get_bit(reg[x], pos)) * TwoTo[pos]
       /\ m # 0 => m % TwoTo[lsb(reg[x])] = 0 /\ (m \div TwoTo[lsb(reg[x])]) % 2 = 1
       /\ \A char \in Chars :
            LET swapped == safe_cond_swap(reg[x], reg[y], char)
                chosen == IF char = 0 THEN <<x, y>> ELSE <<y, x>>
            IN /\ Value(safe_cond_assign(reg[x], reg[y], char)) = Value(reg[chosen[1]])
               /\ \A k \in 1..2 : Value(swapped[k]) = Value(reg[chosen[k]])

\* All of these compute with the integers their registers stand for.
ComputesIntegers ==
  AddsIntegers /\ MultipliesIntegers /\ ShiftsIntegers /\ ChoosesIntegers
=============================================================================
