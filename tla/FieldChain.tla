----------------------------- MODULE FieldChain -----------------------------
(***************************************************************************)
(* Chains of the operations of Field25519 as the curves apply them: results*)
(* that were never carried go into the next sum, product or packing.       *)
(***************************************************************************)
EXTENDS Field25519

CONSTANTS Operands,     \* values unpacked from bytes
          Depth         \* bound on the length of a chain

VARIABLES o,            \* a gf
          residue,      \* what it should stand for
          length

vars == <<o, residue, length>>

Residue(a) == Number(a) % P
\* x * y modulo P, in two parts that fit an integer of TLC.
Times(x, y) == ((((x \div 256) * y) % P) * 256 + (x % 256) * y) % P
Bytes(n) == [j \in 1..(2 * GfLimbs) |-> (n \div Byte ^ (j - 1)) % Byte]

Init == /\ \E n \in Operands : /\ o = unpack25519(Bytes(n))
                               /\ residue = (n % 2 ^ FieldBits) % P
        /\ length = 0

Becomes(x, value) == /\ length < Depth
                     /\ o' = x /\ residue' = value % P /\ length' = length + 1

Sum(b) == Becomes(A(o, b), residue + Residue(b))
Difference(b) == Becomes(Z(b, o), Residue(b) - residue)
Product(b) == Becomes(M(o, b), Times(residue, Residue(b)))
Square == Becomes(S(o), Times(residue, residue))
Repack == Becomes(unpack25519(pack25519(o)), residue)

Next == \/ Square \/ Repack
        \/ \E n \in Operands : LET b == unpack25519(Bytes(n))
                               IN Sum(b) \/ Difference(b) \/ Product(b)

Spec == Init /\ [][Next]_vars
----------------------------------------------------------------------------
(***************************************************************************)
(* Whatever chain of sums, differences, products and squares made a gf, it *)
(* stands for the right residue, also when limbs are negative or the carry *)
(* comes back more than once, and packing it gives the residue itself, the *)
(* same bytes for every gf of one residue (tweetnacl.c:237-442).           *)
(***************************************************************************)
FieldKeepsResidue ==
  /\ Residue(o) = residue
  /\ CS(o) \in [Places -> 0..(B - 1)]
  /\ Residue(CS(o)) = residue
  /\ pack25519(o) = Bytes(residue)
=============================================================================
