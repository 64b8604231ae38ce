----------------------------- MODULE MCPairing -----------------------------
(* Instances of Pairing for TLC. *)
EXTENDS Pairing, TLC

Symmetry == Permutations(Conns)

\* Without hangups nothing depends on what is acknowledged or was answered.
Exchange ==
  <<up, srp, conn, inbox, cur, heap, received, tried, wrong, accepted>>

CONSTANTS a0, a1, a2, c1, c2, i1, i2

M1 == <<tlv("METHOD", 0), tlv("STATE", "M1")>>
M3(tlvs) == <<tlv("STATE", "M3")>> \o tlvs
Key(A) == tlv("PUBLIC_KEY", A)
Shown(p) == tlv("PROOF", p)


\* One right and one wrong proof for each order, and the partial requests.  The
\* proofs of a K of zero are wrong for a1 and right for a0, which is 0 modulo N.
Mixed ==
  {M1, M3(<<Key(a1), Shown(RightProof(i1, a1))>>),
       M3(<<Shown(RightProof(i1, a2)), Key(a2)>>),
       M3(<<Key(a2), Shown(RightProof(i1, a1))>>),
       M3(<<Shown(ProofOf(i1, a1, NullKey)), Key(a1)>>),
       M3(<<Shown(RightProof(i1, a0)), Key(a0)>>),
       M3(<<Key(a2)>>), M3(<<Shown(RightProof(i1, a1))>>), M3(<<Shown(Short)>>)}

\* Whole and odd requests: repeated STATE, a state without a case, and an M3
\* that is right in one boot and refused, before its end, in another.
Odd ==
  {M1, M3(<<Key(a1), Shown(RightProof(i1, a1)), tlv("METHOD", 0)>>),
       <<tlv("STATE", "M5")>>,
       <<tlv("STATE", "M1"), tlv("METHOD", 0), tlv("STATE", "M1")>>}
=============================================================================
