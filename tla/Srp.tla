-------------------------------- MODULE Srp --------------------------------
(***************************************************************************)
(* The one SRP exchange of the accessory (homekit/crypto/srp/srp.c): the   *)
(* global "srp" as a record and the entry points that change it, as        *)
(* operators on that record.                                               *)
(*                                                                         *)
(* What the arithmetic yields is kept symbolic.  The identity of a boot    *)
(* stands for the salt, b, v and B that srp_init draws; a hash is the      *)
(* tuple of what is hashed, so two hashes agree exactly when their inputs  *)
(* do.                                                                     *)
(***************************************************************************)

CONSTANT Multiples    \* the public keys A that are 0 modulo N

Zero == <<"zero", 0, 0, 0>>      \* 64 bytes of zero-initialised memory

\* K when s is 0: the hash of 384 zero bytes, the same for every PIN.
NullKey == <<"K of zero", 0, 0, 0>>

\* K when s is wrong and not 0, or sbuf was never written.
Spoiled == <<"spoiled", 0, 0, 0>>

\* What K can be when a call of the big-number library failed: the functions
\* go on, since MPI_ERROR_CHECK only prints.
FailedKeys == {NullKey, Spoiled}

\* K when all calls went well.  srp_setA does not ask whether A is 0 mod N.
KeyOf(identity, A) ==
  IF A \in Multiples THEN NullKey ELSE <<"K", identity, A, 0>>

\* M1 = H(H(N) xor H(g) | H(I) | salt | A | B | K)
ProofOf(identity, A, K) == <<"M1", identity, A, K>>

\* M2 = H(A | M1 | K)
AnswerOf(A, M1, K) == <<"M2", A, M1, K>>

\* The proof of the K that the PIN, the identity and A determine.
RightProof(identity, A) == ProofOf(identity, A, KeyOf(identity, A))

\* A proof TLV whose length is not sizeof(srp.M1).
Short == <<"short", 0, 0, 0>>
-----------------------------------------------------------------------------
\* "sound" tells whether every call of srp_init went well.  If not, v or B is
\* not what the salt, the PIN and b say, and no later K is right.
srp_init(identity, sound) ==
  [identity |-> identity, sound |-> sound, K |-> Zero, M1 |-> Zero, M2 |-> Zero,
   clientM1 |-> FALSE, serverM1 |-> FALSE]

srp_start_clientOnly(srp) == [srp EXCEPT !.clientM1 = FALSE]
srp_start(srp) == [srp EXCEPT !.clientM1 = FALSE, !.serverM1 = FALSE]

(***************************************************************************)
(* The K that srp_setA may compute for A; "failing" allows a call of the   *)
(* big-number library to fail in it.                                       *)
(***************************************************************************)
ComputedKeys(srp, A, failing) ==
  (IF srp.sound THEN {KeyOf(srp.identity, A)} ELSE FailedKeys)
    \cup (IF failing THEN FailedKeys ELSE {})

(***************************************************************************)
(* srp_setA with the key it computed.  K and serverM1 are written before   *)
(* the hash is compared with the proof a client may have sent already.     *)
(***************************************************************************)
setA_accepts(srp, A, K) ==
  srp.clientM1 => srp.M1 = ProofOf(srp.identity, A, K)

srp_setA_M2first(srp, A, K) ==
  LET M1 == ProofOf(srp.identity, A, K)
  IN IF setA_accepts(srp, A, K)
     THEN [srp EXCEPT !.K = K, !.serverM1 = TRUE, !.M1 = M1,
                      !.M2 = AnswerOf(A, srp.M1, K)]
     ELSE [srp EXCEPT !.K = K, !.serverM1 = TRUE]
srp_setA(srp, A, K) ==
  LET keyed == [srp EXCEPT !.K = K, !.serverM1 = TRUE]
      M1    == ProofOf(srp.identity, A, K)
  IN IF setA_accepts(srp, A, K)
     THEN [keyed EXCEPT !.M1 = M1, !.M2 = AnswerOf(A, M1, K)]
     ELSE keyed

checkM1_accepts_length(srp, m1) == m1 # Short
checkM1_accepts(srp, m1) == m1 # Short /\ (srp.serverM1 => srp.M1 = m1)

srp_checkM1_stores(srp, m1) ==
  [srp EXCEPT !.clientM1 = TRUE, !.M1 = IF m1 # Short THEN m1 ELSE @]
srp_checkM1(srp, m1) ==
  [srp EXCEPT !.clientM1 = TRUE,
              !.M1 = IF m1 # Short /\ ~srp.serverM1 THEN m1 ELSE @]
=============================================================================
