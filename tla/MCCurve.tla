------------------------------ MODULE MCCurve ------------------------------
(***************************************************************************)
(* Small instances of Curve25519 and Ed25519, side by side.  The ladder is *)
(* over the field of 2^11 - 19; signatures are over that of 2^14 - 3, whose*)
(* curve has a subgroup of 2^11 + 5 points.                                *)
(***************************************************************************)
EXTENDS Curve25519

VARIABLES task, sk, pk, texts, sm, key, negated, m, mlen, result

signatures == <<sk, pk, texts, sm, key, negated, m, mlen, result>>
MCvars == <<task, ladder, signatures>>

MCScalars == {0, 8, 21, 63, 77, 104, 255}
MCAbscissas ==
  {0, 1, 2, 3, 4, 9, 2028, 2029, 2030, 2038, 2047, 2048, 2049, 4086, 4095}
    \cup {(37 * k) % 4096 : k \in 1..45}

Encoded(number) == <<number % 32, (number \div 32) % 32, number \div 1024>>
Mixed(bytes, j) ==
  LET v[k \in 0..Len(bytes)] ==
        IF k = 0 THEN 17 * j
        ELSE (v[k - 1] * 77 + bytes[k] * 31 + 11 * j + 5) % 30011
  IN v[Len(bytes)]
MCSha512(bytes) == SubSeq([j \in 1..6 |-> (Mixed(bytes, j) \div 7) % 32], 1, 6)
MCKeys ==
  {Encoded(k) : k \in {0, 1, 16380, 16381, 16382, 16383, 16384, 16385,
                       32764, 32765, 32766}}
    \cup {Encoded(37 * k + 11) : k \in 0..120}
MCSeeds == {<<0, 0, 0>>, <<1, 2, 3>>, <<255, 7, 31>>, <<17, 99, 140>>}
MCMessages == {<<>>, <<9>>, <<1, 2>>}

E == INSTANCE Ed25519 WITH
       ByteBits <- 5, N <- 3, P <- 16381, D <- 155, I <- 16200, X <- 1978, Y <- 4,
       L <- <<5, 0, 2>>, Fold <- 16, Window <- 2, sha512 <- MCSha512,
       Seeds <- MCSeeds, Messages <- MCMessages, Keys <- MCKeys, q <- negated

MCInit ==
  /\ E!Init
  /\ \/ task = "scalarmult" /\ ScalarmultInit
     \/ /\ task = "signature"
        /\ n = 0 /\ p = 0 /\ a = gf1 /\ b = gf0 /\ c = gf0 /\ d = gf0
        /\ i = ScalarBits - 2 /\ q = <<>>

Scalarmult == task = "scalarmult" /\ ScalarmultNext /\ UNCHANGED <<task, signatures>>
Signature == task = "signature" /\ E!Next /\ UNCHANGED <<task, ladder>>
MCNext == Scalarmult \/ Signature
MCSpec == MCInit /\ [][MCNext]_MCvars

\* Curve25519: the ladder holds neighbouring multiples of the point, and ends
\* with the one the clamped scalar asks for, on the curve and on its twist
\* (tweetnacl.c:461-515).
MCLadderMultiplies == task = "scalarmult" => LadderMultiplies

\* Ed25519: a public key is refused exactly if it encodes no point, else its
\* negative comes out (tweetnacl.c:776-810).
EncodingsInvert == task = "signature" => E!EncodingsInvert

\* Ed25519: signatures are those of RFC 8032; anything opens exactly if the
\* equation holds, and is wiped if not (tweetnacl.c:625-842).
SignedOpens == task = "signature" => E!SignedOpens
=============================================================================
