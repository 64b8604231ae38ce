------------------------------ MODULE MCExpMod ------------------------------
(* Instances of ExpMod for TLC: all exponents of up to so many limbs. *)
EXTENDS ExpMod

CONSTANT ExponentLimbs

MCExponents == UNION {[s : {1}, p : [1..l -> Limbs]] : l \in 1..ExponentLimbs}
MCSigns == {1, -1}
MCAbove == <<2, 4, 7, 9>>
=============================================================================
