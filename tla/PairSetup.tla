----------------------------- MODULE PairSetup -----------------------------
(***************************************************************************)
(* What pair setup promises, whatever the order of messages and whoever    *)
(* sends them: after an M1 the accessory commits to at most one proof, it  *)
(* keeps to it until the next M1, and it accepts a client only on that     *)
(* proof, which must be the right one of the accessory's present identity, *)
(* or one that the accessory computed itself, since the M1, from a K that  *)
(* a failing call left.  Pairing implements this specification.            *)
(***************************************************************************)
EXTENDS Srp

CONSTANTS Identities,     \* what a boot may draw
          PublicKeys,     \* the values a client sends as its A
          Proofs          \* everything srp.M1 may be committed to

VARIABLES identity,       \* the one drawn at this boot, or None
          committed,      \* a proof, or None while there is no commitment
          wrong,          \* the proofs computed from a wrong K since the last M1
          accepted        \* the proofs accepted since the last M1

None == <<"none", 0, 0, 0>>

vars == <<identity, committed, wrong, accepted>>

Init == identity = None /\ committed = None /\ wrong = {} /\ accepted = {}

\* An M1, or a restart, which forgets the identity and draws one again.
Start == /\ identity' \in Identities \cup {None, identity}
         /\ committed' = None
         /\ wrong' = {}
         /\ accepted' = {}

Commits == committed' = committed \/ (committed = None /\ committed' \in Proofs)

Commit == /\ Commits
          /\ UNCHANGED <<identity, wrong, accepted>>

\* A call fails in the computation of a K, and a wrong proof comes of it.
Err == /\ \E A \in PublicKeys, K \in FailedKeys :
            wrong' = wrong \cup {ProofOf(identity, A, K)}
       /\ Commits
       /\ UNCHANGED <<identity, accepted>>

Accept == /\ \/ \E A \in PublicKeys : committed = RightProof(identity, A)
             \/ committed \in wrong
          /\ accepted' = {committed}
          /\ UNCHANGED <<identity, committed, wrong>>

Next == Start \/ Commit \/ Err \/ Accept

Spec == Init /\ [][Next]_vars
=============================================================================
