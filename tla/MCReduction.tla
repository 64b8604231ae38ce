---------------------------- MODULE MCReduction ----------------------------
(***************************************************************************)
(* MpiDivision and MpiMontgomery for TLC, one of them per behaviour:       *)
(*   division    every dividend and divisor of so many limbs, negative     *)
(*               dividends with one limb less                              *)
(*   montgomery  odd moduli of one to ModulusLimbs limbs, every factor     *)
(*               below them with the limbs of the modulus and one more, as *)
(*               W[i] and X have, and the single limb of mpi_montred       *)
(***************************************************************************)
EXTENDS MpiDivision, MpiMontgomery

CONSTANTS DividendLimbs, DivisorLimbs, ModulusLimbs

Magnitudes(most) == UNION {[1..l -> Limbs] : l \in 1..most}
WithSigns(signs, ps) == [s : signs, p : ps]

MCDividends == WithSigns({1}, Magnitudes(DividendLimbs))
                 \cup WithSigns({-1}, Magnitudes(DividendLimbs - 1))
MCDivisors == {b \in WithSigns({1}, Magnitudes(DivisorLimbs)) : b.p[Len(b.p)] # 0}

MCModuli ==
  WithSigns({1}, {p \in Magnitudes(ModulusLimbs) :
               p[1] % 2 = 1 /\ p[Len(p)] # 0 /\ (Len(p) = 1 => p[1] > 1)})

Limbed(x, l) ==
  [s |-> 1, p |-> LimbSeq(l, LAMBDA j : (x \div Places[j - 1]) % Base)]

MCFactors(M) ==
  {Limbed(x, Len(M.p) + 1) : x \in 0..(Magnitude(M.p) - 1)} \cup {Limbed(1, 1)}
----------------------------------------------------------------------------
divides == <<v, k, n, t, i, R>>
multiplies == <<N, A0, mm, T, d>>
vars == <<pc, A, B, divides, multiplies>>
NoDivision == v = 0 /\ k = 0 /\ n = 0 /\ t = 0 /\ i = 0 /\ R = 0
NoProduct == N = 0 /\ A0 = 0 /\ mm = 0 /\ T = 0 /\ d = 0

Init == \/ DivisionInit /\ NoProduct
        \/ MontgomeryInit /\ NoDivision

\* No value of pc belongs to both.
Next == \/ DivisionNext /\ UNCHANGED multiplies
        \/ MontgomeryNext /\ UNCHANGED divides

Spec == Init /\ [][Next]_vars
============================================================================
