--------------------------- MODULE PairingProofs ---------------------------
(***************************************************************************)
(* Theorems about Pairing for every set of connections, keys and requests, *)
(* every size of the heap and every combination of faults: the exchange,   *)
(* what a request costs, and what it is answered.                          *)
(***************************************************************************)
EXTENDS Pairing, FiniteSetTheorems, TLAPS

\* What the TLV at the head of the rest of a request carries.
LEMMA HeadOfRest ==
  ASSUME TypeOK, cur.rest # NoRequest
  PROVE  /\ Tail(cur.rest) \in Seq(Tlvs)
         /\ Tag = "PUBLIC_KEY" => Value \in PublicKeys
         /\ Tag = "PROOF" => Value \in Proofs
<1>1. cur.rest \in Seq(Tlvs) /\ cur.rest # <<>>
  BY DEF TypeOK, Handlers, NoRequest
<1>2. Head(cur.rest) \in Tlvs /\ Tail(cur.rest) \in Seq(Tlvs)
  BY <1>1
<1>3. Tag = "PUBLIC_KEY" => Value \in PublicKeys
  BY <1>2 DEF Tag, Value, Tlvs, tlv
<1>4. Tag = "PROOF" => Value \in Proofs
  BY <1>2 DEF Tag, Value, Tlvs, tlv
<1> QED
  BY <1>2, <1>3, <1>4

\* The operators of Srp keep the record well-typed.
LEMMA SrpTypes ==
  ASSUME NEW s \in SrpRecords
  PROVE  /\ srp_start(s) \in SrpRecords
         /\ \A A \in PublicKeys, K \in AllKeys : srp_setA(s, A, K) \in SrpRecords
         /\ \A p \in Proofs : srp_checkM1(s, p) \in SrpRecords
<1> DEFINE M2s == {AnswerOf(A, p, K) : A \in PublicKeys, p \in Proofs,
                                       K \in AllKeys} \cup {Zero}
           Keys0 == AllKeys \cup {Zero}
<1>0. SrpRecords = [identity : Drawn, sound : BOOLEAN, clientM1 : BOOLEAN,
                    serverM1 : BOOLEAN, K : Keys0, M1 : Proofs, M2 : M2s]
  BY DEF SrpRecords
<1>b. ASSUME NEW A \in PublicKeys, NEW K \in AllKeys
      PROVE  /\ K \in Keys0
             /\ ProofOf(s.identity, A, K) \in Proofs
             /\ AnswerOf(A, ProofOf(s.identity, A, K), K) \in M2s
  <2>1. s.identity \in Drawn
    BY <1>0
  <2>2. ProofOf(s.identity, A, K) \in Proofs
    BY <2>1 DEF Proofs
  <2> QED BY <2>2
<1> HIDE DEF M2s, Keys0
<1>2. srp_start(s) \in SrpRecords
  BY <1>0 DEF srp_start
<1>3. ASSUME NEW A \in PublicKeys, NEW K \in AllKeys
      PROVE  srp_setA(s, A, K) \in SrpRecords
  BY <1>0, <1>b DEF srp_setA
<1>4. ASSUME NEW p \in Proofs PROVE srp_checkM1(s, p) \in SrpRecords
  BY <1>0 DEF srp_checkM1
<1> QED BY <1>2, <1>3, <1>4

LEMMA InitialSrpType ==
  ASSUME NEW i \in Drawn, NEW sound \in BOOLEAN
  PROVE  srp_init(i, sound) \in SrpRecords
<1>1. Zero \in Proofs
  BY DEF Proofs
<1> QED BY <1>1 DEF srp_init, SrpRecords

LEMMA IdleType == Idle \in Handlers
  BY DEF Idle, Handlers, NoRequest

LEMMA DownType ==
  ASSUME TypeOK, Down PROVE TypeOK'
<1>1. srp' \in SrpRecords
  <2>1. None \in Drawn
    BY DEF Drawn
  <2> QED BY <2>1, InitialSrpType DEF Down
<1>2. cur' \in Handlers
  BY IdleType DEF Down, Idle
<1>3. inbox' \in [Conns -> Requests \cup {NoRequest}]
      /\ reply' \in [Conns -> Answers \cup {"none", "lost"}]
      /\ unacked' \in [Conns -> SUBSET Nat]
  BY DEF Down
<1>4. conn' \subseteq Conns /\ eof' \subseteq conn' /\ buffers' \subseteq Nat
      /\ wrong' \subseteq Proofs /\ accepted' \subseteq Proofs
  BY DEF Down
<1>5. up' \in BOOLEAN /\ tried' \in BOOLEAN
  BY DEF Down
<1>6. heap' \in 0..HeapBlocks /\ received' \in Nat
  BY BoundsAssumption DEF Down
<1> QED
  BY <1>1, <1>2, <1>3, <1>4, <1>5, <1>6 DEF TypeOK

\* A request is taken, advanced by one TLV, answered or dropped.
LEMMA HandlerTypes ==
  ASSUME TypeOK
  PROVE  /\ \A c \in conn : inbox[c] # NoRequest =>
              [Idle EXCEPT !.pc = "tlv", !.conn = c, !.fresh = ~tried,
                           !.request = inbox[c], !.rest = inbox[c]] \in Handlers
         /\ cur.rest # NoRequest =>
              /\ Resumed \in Handlers
              /\ Halted \in Handlers
              /\ [Halted EXCEPT !.pc = "m3"] \in Handlers
              /\ [Halted EXCEPT !.pc = "respond", !.answer = "M2"] \in Handlers
              /\ \A A \in PublicKeys, b \in BOOLEAN :
                   [cur EXCEPT !.rest = Tail(@), !.failed = b, !.keyed = A]
                     \in Handlers
              /\ \A p \in Proofs, b \in BOOLEAN :
                   [cur EXCEPT !.rest = Tail(@), !.failed = b, !.proved = p]
                     \in Handlers
         /\ \A a \in Answers :
              [cur EXCEPT !.pc = "respond", !.answer = a] \in Handlers
         /\ [cur EXCEPT !.pc = "tlv"] \in Handlers
<1>1. cur \in Handlers
  BY DEF TypeOK
<1>2. ASSUME NEW c \in conn, inbox[c] # NoRequest
      PROVE  [Idle EXCEPT !.pc = "tlv", !.conn = c, !.fresh = ~tried,
                           !.request = inbox[c], !.rest = inbox[c]] \in Handlers
  <2>1. inbox[c] \in Requests /\ c \in Conns /\ inbox[c] \in Seq(Tlvs)
    BY <1>2, RequestsAssumption DEF TypeOK
  <2>2. (~tried) \in BOOLEAN
    OBVIOUS
  <2> QED BY <2>1, <2>2, IdleType DEF Handlers
<1>3. cur.rest # NoRequest => Tail(cur.rest) \in Seq(Tlvs)
  BY HeadOfRest
<1>4. ASSUME cur.rest # NoRequest
      PROVE  /\ Resumed \in Handlers
             /\ Halted \in Handlers
             /\ [Halted EXCEPT !.pc = "m3"] \in Handlers
             /\ [Halted EXCEPT !.pc = "respond", !.answer = "M2"] \in Handlers
  BY <1>1, <1>3, <1>4 DEF Handlers, Halted, Resumed, Answers
<1>5. ASSUME cur.rest # NoRequest, NEW A \in PublicKeys, NEW b \in BOOLEAN
      PROVE  [cur EXCEPT !.rest = Tail(@), !.failed = b, !.keyed = A]
               \in Handlers
  BY <1>1, <1>3, <1>5 DEF Handlers
<1>6. ASSUME cur.rest # NoRequest, NEW p \in Proofs, NEW b \in BOOLEAN
      PROVE  [cur EXCEPT !.rest = Tail(@), !.failed = b, !.proved = p]
               \in Handlers
  BY <1>1, <1>3, <1>6 DEF Handlers
<1>7. /\ \A a \in Answers :
           [cur EXCEPT !.pc = "respond", !.answer = a] \in Handlers
      /\ [cur EXCEPT !.pc = "tlv"] \in Handlers
  BY <1>1 DEF Handlers
<1> QED BY <1>2, <1>4, <1>5, <1>6, <1>7

LEMMA TypeStep ==
  ASSUME TypeOK, [Next]_vars PROVE TypeOK'
<1> USE DEF TypeOK
<1>1. CASE StartUp
  <2>1. Identities \subseteq Drawn
    BY DEF Drawn
  <2>2. PICK i \in Identities, sound \in {TRUE, "mpi" \notin Faults} :
          srp' = srp_init(i, sound)
    BY <1>1 DEF StartUp
  <2>3. srp' \in SrpRecords
    BY <2>1, <2>2, InitialSrpType
  <2> QED BY <1>1, <2>3 DEF StartUp
<1>2. CASE Reset
  BY <1>2, DownType DEF Reset
<1>3. CASE SkipTlv
  <2>1. cur' \in Handlers
    BY <1>3, HandlerTypes DEF SkipTlv, More
  <2> QED BY <1>3, <2>1 DEF SkipTlv
<1>4. CASE HandleM1
  <2>1. CASE Down
    BY <2>1, DownType
  <2>2. CASE heap < HeapBlocks
    <3>1. srp' \in SrpRecords
      BY <1>4, <2>2, SrpTypes DEF HandleM1, malloc
    <3>2. cur' \in Handlers
      BY <1>4, <2>2, HandlerTypes
         DEF HandleM1, StateTlv, More, malloc
    <3>3. heap' \in 0..HeapBlocks
      BY <1>4, <2>2, BoundsAssumption DEF HandleM1, malloc
    <3> QED BY <1>4, <2>2, <3>1, <3>2, <3>3 DEF HandleM1, malloc
  <2> QED BY <1>4, <2>1, <2>2 DEF HandleM1, malloc
<1>5. CASE EnterM3
  <2>1. cur' \in Handlers
    BY <1>5, HandlerTypes
       DEF EnterM3, IsM3, StateTlv, More
  <2> QED BY <1>5, <2>1 DEF EnterM3
<1>6. CASE \E s \in States : IgnoreState(s)
  <2>1. cur' \in Handlers
    BY <1>6, HandlerTypes DEF IgnoreState, StateTlv, More
  <2> QED BY <1>6, <2>1 DEF IgnoreState
<1>7. CASE M3PublicKey
  <2>1. PICK K \in Keys(Value) :
          /\ srp' = srp_setA(srp, Value, K)
          /\ wrong' = wrong \cup WrongProofs(Value, K)
          /\ cur' = [cur EXCEPT !.rest = Tail(@),
                                !.failed = ~setA_accepts(srp, Value, K),
                                !.keyed = Value]
    BY <1>7 DEF M3PublicKey
  <2>2. srp.identity \in Drawn /\ Value \in PublicKeys /\ K \in AllKeys
    <3>1. srp.identity \in Drawn
      BY DEF SrpRecords
    <3>2. Value \in PublicKeys
      BY <1>7, HeadOfRest DEF M3PublicKey, M3Tlv
    <3> QED BY <3>1, <3>2 DEF Keys, ComputedKeys, AllKeys
  <2>3. srp' \in SrpRecords
    BY <2>1, <2>2, SrpTypes
  <2>4. cur' \in Handlers
    <3>1. (~setA_accepts(srp, Value, K)) \in BOOLEAN
      BY DEF setA_accepts
    <3> QED BY <1>7, <2>1, <2>2, <3>1, HandlerTypes
               DEF M3PublicKey, M3Tlv
  <2>5. wrong' \subseteq Proofs
    <3>1. ProofOf(srp.identity, Value, K) \in Proofs
      BY <2>2 DEF Proofs
    <3> QED BY <2>1, <3>1 DEF WrongProofs
  <2> QED BY <1>7, <2>1, <2>3, <2>4, <2>5 DEF M3PublicKey
<1>8. CASE M3Proof
  <2>1. Value \in Proofs
    BY <1>8, HeadOfRest DEF M3Proof, M3Tlv
  <2>2. srp' \in SrpRecords
    BY <1>8, <2>1, SrpTypes DEF M3Proof
  <2>3. cur' \in Handlers
    <3>1. (~checkM1_accepts(srp, Value)) \in BOOLEAN
      BY DEF checkM1_accepts
    <3> QED BY <1>8, <2>1, <3>1, HandlerTypes DEF M3Proof, M3Tlv
  <2> QED BY <1>8, <2>2, <2>3 DEF M3Proof
<1>9. CASE M3Skip
  <2>1. cur' \in Handlers
    BY <1>9, HandlerTypes DEF M3Skip
  <2> QED BY <1>9, <2>1 DEF M3Skip
<1>10. CASE EndM3
  <2>1. CASE Down
    BY <2>1, DownType
  <2>2. CASE heap < HeapBlocks
    <3>1. cur' \in Handlers
      BY <1>10, <2>2, HandlerTypes DEF EndM3, malloc, Answers
    <3>2. accepted' \subseteq Proofs
      BY <1>10, <2>2 DEF EndM3, malloc, Proven, Handlers
    <3>3. heap' \in 0..HeapBlocks
      BY <1>10, <2>2, BoundsAssumption DEF EndM3, malloc
    <3> QED BY <1>10, <2>2, <3>1, <3>2, <3>3 DEF EndM3, malloc
  <2> QED BY <1>10, <2>1, <2>2 DEF EndM3, malloc
<1>11. CASE Respond
  <2>1. CASE Down
    BY <2>1, DownType
  <2>2. CASE heap # HeapBlocks
    <3>1. PICK written \in BOOLEAN :
            /\ buffers' = Written(received)
            /\ heap' = free(heap + 1)
            /\ unacked' = IF written
                          THEN [unacked EXCEPT ![cur.conn] = @ \cup {received}]
                          ELSE unacked
            /\ reply' = [reply EXCEPT ![cur.conn] =
                           IF written THEN cur.answer ELSE "lost"]
            /\ cur' = [cur EXCEPT !.pc = "tlv"]
            /\ UNCHANGED <<up, srp, conn, inbox, eof, received, tried, wrong,
                           accepted>>
      BY <1>11, <2>2 DEF Respond
    <3>2. cur.answer \in Answers \cup {"none"}
      BY DEF Handlers
    <3>3. cur' \in Handlers
      BY <3>1, HandlerTypes
    <3>4. reply' \in [Conns -> Answers \cup {"none", "lost"}]
      BY <3>1, <3>2
    <3>5. unacked' \in [Conns -> SUBSET Nat]
      BY <3>1
    <3>6. buffers' \subseteq Nat /\ heap' \in 0..HeapBlocks
      BY <3>1, BoundsAssumption DEF Written, free
    <3> QED BY <3>1, <3>3, <3>4, <3>5, <3>6
  <2> QED BY <1>11, <2>1, <2>2 DEF Respond
<1>12. CASE Return
  BY <1>12, IdleType DEF Return, Idle
<1>13. ASSUME NEW c \in Conns, Recv(c) PROVE TypeOK'
  <2>1. CASE Down
    BY <2>1, DownType
  <2>2. CASE heap < HeapBlocks
    <3>1. cur' \in Handlers
      BY <1>13, <2>2, HandlerTypes, ConnsAssumption, ZenonT(30) DEF Recv, malloc, Idle
    <3>2. heap' \in 0..HeapBlocks /\ received' \in Nat
      BY <1>13, <2>2, BoundsAssumption DEF Recv, malloc
    <3> QED BY <1>13, <2>2, <3>1, <3>2 DEF Recv, malloc
  <2> QED BY <1>13, <2>1, <2>2 DEF Recv, malloc
<1>14. ASSUME NEW c \in Conns, ServerClose(c) \/ Network(c) PROVE TypeOK'
  BY <1>14 DEF ServerClose, Network, Connect, Send, Hangup, Ack, Abort
<1>15. CASE UNCHANGED vars
  BY <1>15 DEF vars
<1> QED
  BY <1>1, <1>2, <1>3, <1>4, <1>5, <1>6, <1>7, <1>8, <1>9, <1>10, <1>11,
     <1>12, <1>13, <1>14, <1>15 DEF Next, Handler

----------------------------------------------------------------------------
(***************************************************************************)
(* The inductive invariant of the exchange.  What is accepted can only be  *)
(* told from what the M3 being handled has established so far, and that    *)
(* from the flags: a key that went through srp_setA made M1, M2 and K the  *)
(* ones of its A, and a proof that went through srp_checkM1 is M1.  If the *)
(* K is wrong, M1 is among the proofs that were computed wrongly.          *)
(***************************************************************************)
KeyStands ==
  /\ srp.serverM1
  /\ srp.K = KeyOf(srp.identity, cur.keyed) \/ srp.M1 \in wrong
  /\ srp.M1 = ProofOf(srp.identity, cur.keyed, srp.K)
  /\ srp.M2 = AnswerOf(cur.keyed, srp.M1, srp.K)

ProofStands ==
  /\ srp.clientM1
  /\ srp.M1 = cur.proved

HandlerInv ==
  /\ cur.pc \in {"m3", "respond"} => cur.halt
  /\ cur.pc = "tlv" /\ ~cur.halt => cur.keyed = None /\ cur.proved = None
  /\ cur.pc \in {"m3", "respond"} /\ ~cur.failed =>
       /\ cur.keyed # None => KeyStands
       /\ cur.proved # None => ProofStands

AcceptedInv ==
  /\ accepted # {} => srp.clientM1 /\ srp.serverM1
  /\ accepted \subseteq {srp.M1}
  /\ AcceptedIsRight

DownInv == ~up => cur = Idle /\ wrong = {} /\ accepted = {} /\ conn = {}

ExchangeInv == TypeOK /\ HandlerInv /\ AcceptedInv /\ DownInv



LEMMA DownExchange ==
  ASSUME ExchangeInv, Down PROVE ExchangeInv'
<1>1. TypeOK'
  BY DownType DEF ExchangeInv
<1>2. HandlerInv'
  BY DEF Down, Idle, HandlerInv, NoRequest
<1>3. AcceptedInv' /\ DownInv'
  BY DEF Down, AcceptedInv, DownInv, AcceptedIsRight
<1> QED BY <1>1, <1>2, <1>3 DEF ExchangeInv

\* A request just taken has established nothing.
LEMMA RecvExchange ==
  ASSUME ExchangeInv, NEW c \in Conns, Recv(c) PROVE ExchangeInv'
<1>1. TypeOK'
  BY TypeStep DEF ExchangeInv, Next
<1>2. CASE Down
  BY <1>2, DownExchange
<1>3. CASE heap < HeapBlocks
  <2>1. cur' = [Idle EXCEPT !.pc = "tlv", !.conn = c, !.fresh = ~tried,
                            !.request = inbox[c], !.rest = inbox[c]]
        /\ UNCHANGED <<up, srp, wrong, accepted, conn>>
    BY <1>3 DEF Recv, malloc
  <2>2. cur'.pc = "tlv" /\ cur'.keyed = None /\ cur'.proved = None
    BY <2>1 DEF Idle
  <2>3. HandlerInv'
    BY <2>2 DEF HandlerInv
  <2>4. AcceptedInv' /\ DownInv'
    BY <2>1 DEF ExchangeInv, AcceptedInv, AcceptedIsRight, DownInv, Recv
  <2> QED BY <1>1, <2>3, <2>4 DEF ExchangeInv
<1> QED BY <1>2, <1>3 DEF Recv, malloc

\* srp_setA either makes its own key stand, and leaves a proof that stood, or
\* fails; what was accepted is M1 and stays M1.
LEMMA PublicKeyExchange ==
  ASSUME ExchangeInv, M3PublicKey PROVE ExchangeInv'
<1>1. TypeOK'
  BY TypeStep DEF ExchangeInv, Next, Handler
<1>2. PICK K \in Keys(Value) :
        /\ srp' = srp_setA(srp, Value, K)
        /\ wrong' = wrong \cup WrongProofs(Value, K)
        /\ cur' = [cur EXCEPT !.rest = Tail(@),
                              !.failed = ~setA_accepts(srp, Value, K),
                              !.keyed = Value]
  BY DEF M3PublicKey
<1>3. cur \in Handlers /\ srp \in SrpRecords /\ cur.rest # NoRequest
      /\ cur.pc = "m3" /\ ~cur.failed
  BY DEF ExchangeInv, TypeOK, M3PublicKey, M3Tlv
<1>4. /\ cur'.pc = "m3" /\ cur'.keyed = Value
      /\ cur'.proved = cur.proved /\ cur'.halt = cur.halt
      /\ cur'.failed <=> ~setA_accepts(srp, Value, K)
  BY <1>2, <1>3 DEF Handlers
<1>5. /\ srp'.K = K /\ srp'.serverM1 /\ srp'.clientM1 = srp.clientM1
      /\ srp'.identity = srp.identity
      /\ setA_accepts(srp, Value, K) =>
           /\ srp'.M1 = ProofOf(srp.identity, Value, K)
           /\ srp'.M2 = AnswerOf(Value, srp'.M1, K)
      /\ srp.clientM1 => srp'.M1 = srp.M1
  BY <1>2, <1>3 DEF srp_setA, SrpRecords, setA_accepts
<1>6. HandlerInv'
  <2>1. K = KeyOf(srp.identity, Value)
        \/ ProofOf(srp.identity, Value, K) \in wrong'
    BY <1>2 DEF WrongProofs
  <2>2. ASSUME ~cur'.failed PROVE KeyStands'
    BY <2>1, <2>2, <1>4, <1>5 DEF KeyStands
  <2>3. ASSUME cur'.proved # None PROVE ProofStands'
    BY <2>3, <1>3, <1>4, <1>5 DEF ExchangeInv, HandlerInv, ProofStands
  <2>5. cur'.halt
    BY <1>3, <1>4 DEF ExchangeInv, HandlerInv
  <2> QED BY <2>2, <2>3, <2>5, <1>4 DEF HandlerInv
<1>7. AcceptedInv' /\ DownInv'
  <2>1. accepted' = accepted /\ wrong \subseteq wrong' /\ up' = up
    BY <1>2 DEF M3PublicKey
  <2> QED BY <1>3, <1>5, <2>1
          DEF ExchangeInv, AcceptedInv, AcceptedIsRight, DownInv, Idle
<1> QED BY <1>1, <1>6, <1>7 DEF ExchangeInv

\* srp_checkM1 either makes the proof stand, and leaves a key that stood, or
\* fails; M1 does not change once both flags are set.
LEMMA ProofExchange ==
  ASSUME ExchangeInv, M3Proof PROVE ExchangeInv'
<1>1. TypeOK'
  BY TypeStep DEF ExchangeInv, Next, Handler
<1>3. cur \in Handlers /\ srp \in SrpRecords /\ cur.rest # NoRequest
      /\ cur.pc = "m3" /\ ~cur.failed /\ Tag = "PROOF"
  BY DEF ExchangeInv, TypeOK, M3Proof, M3Tlv
<1>4. /\ cur'.pc = "m3" /\ cur'.proved = Value /\ wrong' = wrong
      /\ cur'.keyed = cur.keyed /\ cur'.halt = cur.halt
      /\ cur'.failed <=> ~checkM1_accepts(srp, Value)
  BY <1>3 DEF M3Proof, Handlers
<1>5. /\ srp'.K = srp.K /\ srp'.M2 = srp.M2 /\ srp'.clientM1
      /\ srp'.serverM1 = srp.serverM1 /\ srp'.identity = srp.identity
      /\ checkM1_accepts(srp, Value) => srp'.M1 = Value
      /\ srp.serverM1 => srp'.M1 = srp.M1
  BY <1>3 DEF M3Proof, srp_checkM1, SrpRecords, checkM1_accepts
<1>6. HandlerInv'
  <2>1. ASSUME ~cur'.failed PROVE ProofStands'
    BY <2>1, <1>4, <1>5 DEF ProofStands
  <2>2. ASSUME cur'.keyed # None PROVE KeyStands'
    BY <2>2, <1>3, <1>4, <1>5 DEF ExchangeInv, HandlerInv, KeyStands
  <2>3. cur'.halt
    BY <1>3, <1>4 DEF ExchangeInv, HandlerInv
  <2> QED BY <2>1, <2>2, <2>3, <1>4 DEF HandlerInv
<1>7. AcceptedInv' /\ DownInv'
  BY <1>3, <1>4, <1>5 DEF ExchangeInv, AcceptedInv, AcceptedIsRight, DownInv,
                    M3Proof, Idle
<1> QED BY <1>1, <1>6, <1>7 DEF ExchangeInv

\* A key and a proof that stand together are the right ones, or computed
\* wrongly by the accessory.
LEMMA StandingIsRight ==
  ASSUME ExchangeInv, cur.pc = "m3", Proven
  PROVE  /\ srp.clientM1 /\ srp.serverM1 /\ cur.proved = srp.M1
         /\ \/ cur.proved \in wrong
            \/ \E A \in PublicKeys : cur.proved = RightProof(srp.identity, A)
<1>1. KeyStands /\ ProofStands
  BY DEF ExchangeInv, HandlerInv, Proven
<1>2. cur.keyed \in PublicKeys
  BY DEF ExchangeInv, TypeOK, Handlers, Proven
<1> QED BY <1>1, <1>2 DEF KeyStands, ProofStands, RightProof

LEMMA EndExchange ==
  ASSUME ExchangeInv, EndM3 PROVE ExchangeInv'
<1>1. TypeOK'
  BY TypeStep DEF ExchangeInv, Next, Handler
<1>2. CASE Down
  BY <1>2, DownExchange
<1>3. CASE heap < HeapBlocks
  <2>1. /\ cur' = [cur EXCEPT !.pc = "respond",
                        !.answer = IF cur.failed THEN "ERROR" ELSE "M4"]
        /\ accepted' = accepted \cup IF Proven THEN {cur.proved} ELSE {}
        /\ UNCHANGED <<up, srp, wrong, conn>>
        /\ cur.pc = "m3"
    BY <1>3 DEF EndM3, malloc
  <2>2. /\ cur'.pc = "respond"
        /\ cur'.keyed = cur.keyed /\ cur'.proved = cur.proved
        /\ cur'.failed = cur.failed
    BY <2>1 DEF ExchangeInv, TypeOK, Handlers
  <2>3. HandlerInv'
    BY <2>1, <2>2 DEF ExchangeInv, HandlerInv, KeyStands, ProofStands
  <2>4. AcceptedInv' /\ DownInv'
    BY <2>1, StandingIsRight
       DEF ExchangeInv, AcceptedInv, AcceptedIsRight, DownInv, Idle
  <2> QED BY <1>1, <2>3, <2>4 DEF ExchangeInv
<1> QED BY <1>2, <1>3 DEF EndM3, malloc

LEMMA ExchangeStep ==
  ASSUME ExchangeInv, [Next]_vars PROVE ExchangeInv'
<1> USE DEF ExchangeInv
<1>0. TypeOK'
  BY TypeStep
<1>1. CASE StartUp
  <2>1. UNCHANGED <<cur, wrong, accepted, conn>> /\ cur = Idle /\ accepted = {}
        /\ up'
    BY <1>1 DEF StartUp, DownInv
  <2>2. HandlerInv'
    BY <2>1 DEF HandlerInv, Idle
  <2> QED BY <1>0, <2>1, <2>2 DEF AcceptedInv, AcceptedIsRight, DownInv
<1>2. CASE Reset
  BY <1>2, DownExchange DEF Reset
<1>3. CASE SkipTlv \/ M3Skip
  <2>1. cur' = Resumed /\ cur.pc \in {"tlv", "m3"}
        /\ UNCHANGED <<srp, up, conn, wrong, accepted>>
    BY <1>3 DEF SkipTlv, M3Skip
  <2>2. /\ cur'.pc = cur.pc
        /\ cur'.halt = cur.halt /\ cur'.keyed = cur.keyed
        /\ cur'.proved = cur.proved /\ cur'.failed = cur.failed
    BY <2>1 DEF Resumed, TypeOK, Handlers
  <2>3. HandlerInv'
    BY <2>1, <2>2 DEF HandlerInv, KeyStands, ProofStands
  <2> QED BY <1>0, <2>1, <2>3 DEF AcceptedInv, AcceptedIsRight, DownInv, Idle
<1>4. CASE HandleM1
  <2>1. CASE Down
    BY <2>1, DownExchange
  <2>2. CASE heap < HeapBlocks
    <3>1. /\ cur' = [Halted EXCEPT !.pc = "respond", !.answer = "M2"]
          /\ accepted' = {} /\ UNCHANGED <<up, conn>>
          /\ cur.pc = "tlv" /\ ~cur.halt
      BY <1>4, <2>2 DEF HandleM1, malloc, StateTlv, More
    <3>2. /\ cur'.pc = "respond"
          /\ cur'.keyed = None /\ cur'.proved = None /\ cur'.halt
      BY <3>1 DEF Halted, TypeOK, Handlers, HandlerInv
    <3>3. HandlerInv'
      BY <3>2 DEF HandlerInv
    <3> QED BY <1>0, <3>1, <3>3 DEF AcceptedInv, AcceptedIsRight, DownInv, Idle
  <2> QED BY <1>4, <2>1, <2>2 DEF HandleM1, malloc
<1>5. CASE EnterM3 \/ \E st \in States : IgnoreState(st)
  <2>1. /\ cur' \in {Halted, [Halted EXCEPT !.pc = "m3"]}
        /\ UNCHANGED <<srp, up, conn, wrong, accepted>>
        /\ cur.pc = "tlv" /\ ~cur.halt
    BY <1>5 DEF EnterM3, IsM3, IgnoreState, StateTlv, More
  <2>2. cur'.halt /\ cur'.keyed = None /\ cur'.proved = None
    BY <2>1 DEF Halted, TypeOK, Handlers, HandlerInv
  <2>3. HandlerInv'
    BY <2>1, <2>2 DEF HandlerInv
  <2> QED BY <1>0, <2>1, <2>3 DEF AcceptedInv, AcceptedIsRight, DownInv, Idle
<1>6. CASE M3PublicKey
  BY <1>6, PublicKeyExchange
<1>7. CASE M3Proof
  BY <1>7, ProofExchange
<1>8. CASE EndM3
  BY <1>8, EndExchange
<1>9. CASE Respond
  <2>1. CASE Down
    BY <2>1, DownExchange
  <2>2. CASE heap # HeapBlocks
    <3>1. /\ cur' = [cur EXCEPT !.pc = "tlv"] /\ cur.pc = "respond"
          /\ UNCHANGED <<srp, up, conn, wrong, accepted>>
      BY <1>9, <2>2 DEF Respond
    <3>2. cur'.halt /\ cur'.pc = "tlv"
      BY <3>1 DEF TypeOK, Handlers, HandlerInv
    <3>3. HandlerInv'
      BY <3>2 DEF HandlerInv
    <3> QED BY <1>0, <3>1, <3>3 DEF AcceptedInv, AcceptedIsRight, DownInv, Idle
  <2> QED BY <1>9, <2>1, <2>2 DEF Respond
<1>10. CASE Return
  <2>1. cur' = Idle /\ UNCHANGED <<srp, up, conn, wrong, accepted>>
    BY <1>10 DEF Return
  <2>2. HandlerInv'
    BY <2>1 DEF HandlerInv, Idle
  <2> QED BY <1>0, <2>1, <2>2 DEF AcceptedInv, AcceptedIsRight, DownInv
<1>11. ASSUME NEW c \in Conns, Recv(c) PROVE ExchangeInv'
  BY <1>11, RecvExchange
<1>12. ASSUME NEW c \in Conns, ServerClose(c) \/ Network(c) PROVE ExchangeInv'
  <2>1. UNCHANGED <<srp, up, cur, wrong, accepted>> /\ (~up => conn' = {})
    BY <1>12 DEF ServerClose, Network, Connect, Send, Hangup, Ack, Abort, DownInv
  <2>2. HandlerInv'
    BY <2>1 DEF HandlerInv, KeyStands, ProofStands
  <2> QED BY <1>0, <2>1, <2>2 DEF AcceptedInv, AcceptedIsRight, DownInv
<1>13. CASE UNCHANGED vars
  <2>1. HandlerInv'
    BY <1>13 DEF vars, HandlerInv, KeyStands, ProofStands
  <2> QED BY <1>0, <1>13, <2>1 DEF vars, AcceptedInv, AcceptedIsRight, DownInv
<1> QED
  BY <1>1, <1>2, <1>3, <1>4, <1>5, <1>6, <1>7, <1>8, <1>9, <1>10, <1>11,
     <1>12, <1>13 DEF Next, Handler

LEMMA ExchangeInit ==
  ASSUME Init PROVE ExchangeInv
<1>1. TypeOK
  <2>1. srp \in SrpRecords
    BY InitialSrpType DEF Init, Drawn
  <2>2. cur \in Handlers
    BY IdleType DEF Init
  <2>3. heap \in 0..HeapBlocks /\ received \in Nat
    BY BoundsAssumption DEF Init
  <2> QED BY <2>1, <2>2, <2>3 DEF Init, TypeOK
<1>2. HandlerInv
  BY DEF Init, Idle, HandlerInv, NoRequest
<1>3. AcceptedInv /\ DownInv
  BY DEF Init, AcceptedInv, DownInv, AcceptedIsRight
<1> QED BY <1>1, <1>2, <1>3 DEF ExchangeInv

LEMMA ExchangeAlways == Spec => []ExchangeInv
  BY ExchangeInit, ExchangeStep, PTL DEF Spec

\* Every variable keeps its type, whatever requests arrive.
THEOREM TypeCorrect == Spec => []TypeOK
  BY ExchangeAlways, PTL DEF ExchangeInv

\* Whoever is accepted showed the proof of this boot's exchange for an A, or
\* one that srp_setA itself computed from a wrong K since the last M1,
\* whatever requests came before and in between and whatever they carry.
THEOREM AcceptsOnlyRight == Spec => []AcceptedIsRight
<1>1. ExchangeInv => AcceptedIsRight
  BY DEF ExchangeInv, AcceptedInv
<1> QED BY <1>1, ExchangeAlways, PTL

\* The K, M1 and M2 that an M4 answers with are all of the A it answers.
THEOREM AnswersCoherently == Spec => []M4IsCoherent
<1>1. ExchangeInv => M4IsCoherent
  BY DEF ExchangeInv, HandlerInv, M4IsCoherent, KeyStands, Proven
<1> QED BY <1>1, ExchangeAlways, PTL
----------------------------------------------------------------------------
(* The refinement.  Only srp_setA and srp_checkM1 can set the second of the *)
(* two flags, and M1 is the commitment from then on.                        *)

SetupUnchanged == UNCHANGED <<srp.identity, committed, wrong, accepted>>

LEMMA SetupSame == SetupUnchanged => UNCHANGED Setup!vars
  BY DEF SetupUnchanged, Setup!vars

LEMMA SetupStart ==
  ASSUME ~(srp'.clientM1 /\ srp'.serverM1), wrong' = {}, accepted' = {},
         srp'.identity \in Identities \cup {None, srp.identity}
  PROVE  Setup!Next
<1>1. committed' = Setup!None
  BY DEF committed, None, Setup!None
<1> QED BY <1>1 DEF Setup!Next, Setup!Start, None, Setup!None

LEMMA SetupDown == ASSUME Down PROVE Setup!Next
<1>1. /\ ~srp'.clientM1 /\ srp'.identity = None
      /\ wrong' = {} /\ accepted' = {}
  BY DEF Down, srp_init
<1> QED BY <1>1, SetupStart

\* One of the two halves of an M3: it commits, or keeps the commitment, and
\* may compute a wrong proof.
LEMMA SetupCommit ==
  ASSUME ExchangeInv, TypeOK', UNCHANGED accepted,
         srp'.identity = srp.identity,
         \/ wrong' = wrong
         \/ \E A \in PublicKeys, K \in FailedKeys :
              wrong' = wrong \cup {ProofOf(srp.identity, A, K)},
         srp.clientM1 /\ srp.serverM1 =>
           srp'.clientM1 /\ srp'.serverM1 /\ srp'.M1 = srp.M1
  PROVE  Setup!Next
<1>1. Setup!Commits
  <2>1. CASE srp.clientM1 /\ srp.serverM1
    BY <2>1 DEF Setup!Commits, committed
  <2>2. CASE ~(srp.clientM1 /\ srp.serverM1)
    <3>1. srp'.M1 \in Proofs
      BY DEF TypeOK, SrpRecords
    <3>2. committed = Setup!None /\ committed' \in Proofs \cup {Setup!None}
      BY <2>2, <3>1 DEF committed, None, Setup!None
    <3> QED BY <3>2 DEF Setup!Commits
  <2> QED BY <2>1, <2>2
<1>2. CASE wrong' = wrong
  BY <1>1, <1>2 DEF Setup!Next, Setup!Commit
<1>3. CASE \E A \in PublicKeys, K \in FailedKeys :
             wrong' = wrong \cup {ProofOf(srp.identity, A, K)}
  <2>1. FailedKeys = Setup!FailedKeys
    BY DEF FailedKeys, NullKey, Spoiled, Setup!FailedKeys, Setup!NullKey,
           Setup!Spoiled
  <2>2. \A A, K : ProofOf(srp.identity, A, K) = Setup!ProofOf(srp.identity, A, K)
    BY DEF ProofOf, Setup!ProofOf
  <2>3. Setup!Err
    BY <1>1, <1>3, <2>1, <2>2 DEF Setup!Err
  <2> QED BY <2>3 DEF Setup!Next
<1> QED BY <1>2, <1>3

LEMMA SetupAccept ==
  ASSUME ExchangeInv, cur.pc = "m3", Proven, UNCHANGED <<srp, wrong>>,
         accepted' = accepted \cup {cur.proved}
  PROVE  Setup!Next
<1>1. /\ committed = srp.M1 /\ committed' = committed /\ cur.proved = srp.M1
      /\ \/ srp.M1 \in wrong
         \/ \E A \in PublicKeys : srp.M1 = RightProof(srp.identity, A)
  BY StandingIsRight DEF committed
<1>2. accepted' = {committed}
  BY <1>1 DEF ExchangeInv, AcceptedInv
<1>3. \A A : RightProof(srp.identity, A) = Setup!RightProof(srp.identity, A)
  BY DEF RightProof, ProofOf, KeyOf, NullKey,
         Setup!RightProof, Setup!ProofOf, Setup!KeyOf, Setup!NullKey
<1> QED BY <1>1, <1>2, <1>3 DEF Setup!Next, Setup!Accept

LEMMA SetupStep ==
  ASSUME ExchangeInv, ExchangeInv', [Next]_vars
  PROVE  [Setup!Next]_(Setup!vars)
<1>1. CASE StartUp
  <2>1. /\ srp'.identity \in Identities /\ ~srp'.clientM1
        /\ wrong' = {} /\ accepted' = {}
    BY <1>1 DEF StartUp, srp_init, ExchangeInv, DownInv
  <2> QED BY <2>1, SetupStart
<1>2. CASE Reset
  BY <1>2, SetupDown DEF Reset
<1>3. CASE HandleM1
  <2>1. CASE Down
    BY <2>1, SetupDown
  <2>2. CASE heap < HeapBlocks
    <3>1. srp' = srp_start(srp) /\ wrong' = {} /\ accepted' = {}
      BY <1>3, <2>2 DEF HandleM1, malloc
    <3>2. ~srp'.clientM1 /\ srp'.identity = srp.identity
      BY <3>1 DEF srp_start, ExchangeInv, TypeOK, SrpRecords
    <3> QED BY <3>1, <3>2, SetupStart
  <2> QED BY <1>3, <2>1, <2>2 DEF HandleM1, malloc
<1>4. CASE M3PublicKey
  <2>1. PICK K \in Keys(Value) :
          /\ srp' = srp_setA(srp, Value, K)
          /\ wrong' = wrong \cup WrongProofs(Value, K)
    BY <1>4 DEF M3PublicKey
  <2>2. /\ srp'.identity = srp.identity /\ srp'.clientM1 = srp.clientM1
        /\ srp'.serverM1
        /\ srp.clientM1 => srp'.M1 = srp.M1
    BY <2>1 DEF srp_setA, setA_accepts, ExchangeInv, TypeOK, SrpRecords
  <2>3. \/ wrong' = wrong
        \/ \E A \in PublicKeys, L \in FailedKeys :
             wrong' = wrong \cup {ProofOf(srp.identity, A, L)}
    <3>1. Value \in PublicKeys
      BY <1>4, HeadOfRest DEF M3PublicKey, M3Tlv, ExchangeInv
    <3>2. K = KeyOf(srp.identity, Value) \/ K \in FailedKeys
      BY <2>1 DEF Keys, ComputedKeys
    <3> QED BY <2>1, <3>1, <3>2 DEF WrongProofs
  <2> QED BY <1>4, <2>2, <2>3, SetupCommit DEF M3PublicKey, ExchangeInv
<1>5. CASE M3Proof
  <2>1. /\ srp'.identity = srp.identity /\ srp'.serverM1 = srp.serverM1
        /\ srp'.clientM1
        /\ srp.serverM1 => srp'.M1 = srp.M1
    BY <1>5 DEF M3Proof, srp_checkM1, ExchangeInv, TypeOK, SrpRecords
  <2> QED BY <1>5, <2>1, SetupCommit DEF M3Proof, ExchangeInv
<1>6. CASE EndM3
  <2>1. CASE Down
    BY <2>1, SetupDown
  <2>2. CASE heap < HeapBlocks /\ Proven
    BY <1>6, <2>2, SetupAccept DEF EndM3, malloc
  <2>3. CASE heap < HeapBlocks /\ ~Proven
    BY <1>6, <2>3, SetupSame DEF EndM3, malloc, SetupUnchanged, committed
  <2> QED BY <1>6, <2>1, <2>2, <2>3 DEF EndM3, malloc
<1>7. CASE Respond
  <2>1. CASE Down
    BY <2>1, SetupDown
  <2>2. CASE heap # HeapBlocks
    BY <1>7, <2>2, SetupSame DEF Respond, SetupUnchanged, committed
  <2> QED BY <1>7, <2>1, <2>2 DEF Respond
<1>8. ASSUME NEW c \in Conns, Recv(c) PROVE [Setup!Next]_(Setup!vars)
  <2>1. CASE Down
    BY <2>1, SetupDown
  <2>2. CASE heap < HeapBlocks
    BY <1>8, <2>2, SetupSame DEF Recv, malloc, SetupUnchanged, committed
  <2> QED BY <1>8, <2>1, <2>2 DEF Recv, malloc
<1>9. CASE UNCHANGED <<srp, wrong, accepted>>
  BY <1>9, SetupSame DEF SetupUnchanged, committed
<1> QED
  BY <1>1, <1>2, <1>3, <1>4, <1>5, <1>6, <1>7, <1>8, <1>9
     DEF Next, Handler, SkipTlv, EnterM3, IgnoreState, M3Skip, Return,
         ServerClose, Network, Connect, Send, Hangup, Ack, Abort, vars

\* The server over its shared flags implements the promise of pair setup.
THEOREM ImplementsPairSetup == Spec => SetupSpec
<1>1. Init => Setup!Init
  BY DEF Init, srp_init, Setup!Init, committed, None, Setup!None
<1>2. ExchangeInv /\ ExchangeInv' /\ [Next]_vars => [Setup!Next]_(Setup!vars)
  BY SetupStep
<1> QED BY <1>1, <1>2, ExchangeAlways, PTL DEF Spec, SetupSpec, Setup!Spec
----------------------------------------------------------------------------
(* What requests cost and what they are answered.  What they cost bounds   *)
(* how long a boot can serve, and lwIP never reads a block that was given  *)
(* back.  The first genuine M3 since the M1 is not refused, and every      *)
(* answer is due to what its request asked for; both follow how far the    *)
(* handler has read cur.request.                                           *)

Answering == IF cur.pc = "respond" THEN 1 ELSE 0

\* A request is answered at most once because the answer follows the halt.
BlocksInv ==
  /\ buffers \subseteq 1..received
  /\ IsFiniteSet(buffers)
  /\ heap = received + Cardinality(buffers) + Answering
  /\ received \in buffers => cur.pc = "idle" \/ (cur.pc = "tlv" /\ cur.halt)
  /\ cur.pc # "idle" => received # 0
  /\ UnackedAreAllocated

LEMMA DownBlocks == ASSUME Down PROVE BlocksInv'
<1>1. Cardinality({}) = 0 /\ IsFiniteSet({})
  BY FS_EmptySet
<1>2. heap' = 0 /\ received' = 0 /\ buffers' = {} /\ Answering' = 0
      /\ cur'.pc = "idle" /\ UnackedAreAllocated'
  BY DEF Down, Idle, Answering, UnackedAreAllocated
<1> QED BY <1>1, <1>2 DEF BlocksInv

\* A step that allocates nothing and answers nothing.
LEMMA QuietBlocks ==
  ASSUME BlocksInv, UNCHANGED <<buffers, received, heap>>,
         \A c \in Conns : unacked'[c] \subseteq unacked[c],
         cur.pc # "respond", cur'.pc # "respond",
         received \in buffers =>
           cur'.pc = "idle" \/ (cur'.pc = "tlv" /\ cur'.halt),
         cur'.pc # "idle" => cur.pc # "idle"
  PROVE  BlocksInv'
<1>1. Cardinality(buffers') = Cardinality(buffers)
  OBVIOUS
<1> QED BY <1>1 DEF BlocksInv, Answering, UnackedAreAllocated

LEMMA RecvBlocks ==
  ASSUME ExchangeInv, BlocksInv, NEW c \in Conns, Recv(c), ~Down
  PROVE  BlocksInv'
<1>1. /\ heap' = heap + 1 /\ received' = received + 1
      /\ UNCHANGED <<buffers, unacked>>
      /\ cur.pc = "idle" /\ cur'.pc = "tlv"
  BY DEF Recv, malloc, Idle
<1>2. received \in Nat /\ Cardinality(buffers) \in Nat
  BY FS_CardinalityType DEF ExchangeInv, TypeOK, BlocksInv
<1>3. received' \notin buffers /\ buffers \subseteq 1..received'
  BY <1>1, <1>2 DEF BlocksInv
<1> QED BY <1>1, <1>2, <1>3 DEF BlocksInv, Answering, UnackedAreAllocated

\* The block of an answer's TLVs, allocated by handle_M1 or at the end of M3.
LEMMA AnswerBlocks ==
  ASSUME ExchangeInv, BlocksInv, heap' = heap + 1,
         UNCHANGED <<buffers, unacked, received>>,
         cur.pc \in {"tlv", "m3"}, cur.pc = "tlv" => ~cur.halt,
         cur'.pc = "respond"
  PROVE  BlocksInv'
<1>1. received \notin buffers /\ received # 0
  BY DEF BlocksInv
<1>2. Cardinality(buffers) \in Nat /\ received \in Nat
  BY FS_CardinalityType DEF ExchangeInv, TypeOK, BlocksInv
<1> QED BY <1>1, <1>2 DEF BlocksInv, Answering, UnackedAreAllocated

LEMMA RespondBlocks ==
  ASSUME ExchangeInv, BlocksInv, Respond, ~Down PROVE BlocksInv'
<1>1. /\ buffers' = buffers \cup {received} /\ heap' = (heap + 1) - 1
      /\ UNCHANGED received
      /\ cur' = [cur EXCEPT !.pc = "tlv"]
      /\ \A c \in Conns : unacked'[c] \subseteq unacked[c] \cup {received}
  <2>1. heap # HeapBlocks
    BY DEF Respond
  <2>2. PICK written \in BOOLEAN :
          /\ buffers' = Written(received) /\ heap' = free(heap + 1)
          /\ UNCHANGED received
          /\ cur' = [cur EXCEPT !.pc = "tlv"]
          /\ unacked' = IF written
                        THEN [unacked EXCEPT ![cur.conn] = @ \cup {received}]
                        ELSE unacked
    BY <2>1 DEF Respond
  <2>3. unacked \in [Conns -> SUBSET Nat]
    BY DEF ExchangeInv, TypeOK
  <2> QED BY <2>2, <2>3 DEF Written, free
<1>2. cur'.pc = "tlv" /\ cur'.halt /\ cur.pc = "respond"
  BY <1>1 DEF ExchangeInv, TypeOK, Handlers, HandlerInv, Respond
<1>3. received \notin buffers /\ received # 0 /\ received \in Nat
  BY <1>2 DEF BlocksInv, ExchangeInv, TypeOK
<1>4. /\ Cardinality(buffers') = Cardinality(buffers) + 1
      /\ IsFiniteSet(buffers') /\ Cardinality(buffers) \in Nat
  BY <1>1, <1>3, FS_AddElement, FS_CardinalityType DEF BlocksInv
<1>5. UnackedAreAllocated'
  BY <1>1 DEF BlocksInv, UnackedAreAllocated
<1>6. heap' = received' + Cardinality(buffers') + Answering'
  BY <1>1, <1>2, <1>3, <1>4 DEF BlocksInv, Answering
<1> QED BY <1>1, <1>2, <1>3, <1>4, <1>5, <1>6 DEF BlocksInv

LEMMA BlocksStep ==
  ASSUME ExchangeInv, ExchangeInv', BlocksInv, [Next]_vars PROVE BlocksInv'
<1>1. CASE Down
  BY <1>1, DownBlocks
<1>2. CASE StartUp \/ UNCHANGED vars
  <2>1. UNCHANGED <<buffers, received, heap, unacked, cur>>
    BY <1>2 DEF StartUp, vars
  <2> QED BY <2>1 DEF BlocksInv, Answering, UnackedAreAllocated
<1>3. CASE SkipTlv \/ M3Skip
  <2>1. cur' = Resumed /\ UNCHANGED <<buffers, received, heap, unacked>>
        /\ cur.pc \in {"tlv", "m3"} /\ (cur.pc = "tlv" => ~cur.halt)
    BY <1>3 DEF SkipTlv, M3Skip, More
  <2>2. cur'.pc = cur.pc
    BY <2>1 DEF Resumed, ExchangeInv, TypeOK, Handlers
  <2>3. received \notin buffers
    BY <2>1 DEF BlocksInv
  <2> QED BY <2>1, <2>2, <2>3, QuietBlocks
<1>4. CASE EnterM3 \/ \E st \in States : IgnoreState(st)
  <2>1. cur' \in {Halted, [Halted EXCEPT !.pc = "m3"]}
        /\ UNCHANGED <<buffers, received, heap, unacked>>
        /\ cur.pc = "tlv" /\ ~cur.halt
    BY <1>4 DEF EnterM3, IsM3, IgnoreState, StateTlv, More
  <2>2. cur'.pc \in {"tlv", "m3"} /\ cur'.halt
    BY <2>1 DEF Halted, ExchangeInv, TypeOK, Handlers
  <2>3. received \notin buffers
    BY <2>1 DEF BlocksInv
  <2> QED BY <2>1, <2>2, <2>3, QuietBlocks
<1>5. CASE M3PublicKey \/ M3Proof
  <2>1. cur'.pc = "m3" /\ cur.pc = "m3" /\ received \notin buffers
        /\ UNCHANGED <<buffers, received, heap, unacked>>
    BY <1>5, ZenonT(30) DEF M3PublicKey, M3Proof, M3Tlv, ExchangeInv, TypeOK, Handlers,
                BlocksInv
  <2> QED BY <2>1, QuietBlocks
<1>6. CASE HandleM1 /\ ~Down
  <2>1. /\ cur' = [Halted EXCEPT !.pc = "respond", !.answer = "M2"]
        /\ heap' = heap + 1 /\ UNCHANGED <<buffers, unacked, received>>
        /\ cur.pc = "tlv" /\ ~cur.halt
    BY <1>6 DEF HandleM1, malloc, StateTlv, More
  <2>2. cur'.pc = "respond"
    BY <2>1 DEF Halted, ExchangeInv, TypeOK, Handlers
  <2> QED BY <2>1, <2>2, AnswerBlocks
<1>7. CASE EndM3 /\ ~Down
  <2>1. /\ cur' = [cur EXCEPT !.pc = "respond",
                        !.answer = IF cur.failed THEN "ERROR" ELSE "M4"]
        /\ heap' = heap + 1 /\ UNCHANGED <<buffers, unacked, received>>
        /\ cur.pc = "m3"
    BY <1>7 DEF EndM3, malloc
  <2>2. cur'.pc = "respond"
    BY <2>1 DEF ExchangeInv, TypeOK, Handlers
  <2> QED BY <2>1, <2>2, AnswerBlocks
<1>8. CASE Respond /\ ~Down
  BY <1>8, RespondBlocks
<1>9. CASE Return
  <2>1. cur'.pc = "idle" /\ cur.pc = "tlv"
        /\ UNCHANGED <<buffers, received, heap, unacked>>
    BY <1>9 DEF Return, Idle
  <2> QED BY <2>1, QuietBlocks
<1>10. ASSUME NEW c \in Conns, Recv(c) /\ ~Down PROVE BlocksInv'
  BY <1>10, RecvBlocks
<1>11. ASSUME NEW c \in Conns, ServerClose(c) \/ Network(c) PROVE BlocksInv'
  <2>1. /\ UNCHANGED <<buffers, received, heap, cur>>
        /\ \A d \in Conns : unacked'[d] \subseteq unacked[d]
    BY <1>11 DEF ServerClose, Network, Connect, Send, Hangup, Ack, Abort,
                 ExchangeInv, TypeOK
  <2> QED BY <2>1 DEF BlocksInv, Answering, UnackedAreAllocated
<1> QED
  BY <1>1, <1>2, <1>3, <1>4, <1>5, <1>6, <1>7, <1>8, <1>9, <1>10, <1>11
     DEF Next, Handler, Reset

LEMMA BlocksAlways == Spec => [](ExchangeInv /\ BlocksInv)
<1>1. Init => BlocksInv
  BY FS_EmptySet DEF Init, BlocksInv, Idle, Answering, UnackedAreAllocated
<1> QED BY <1>1, BlocksStep, ExchangeAlways, PTL DEF Spec

\* Nothing but one block per request and one per answer stays allocated.
THEOREM LeaksExactly == Spec => []LeakIsExact
<1>1. ExchangeInv /\ BlocksInv => LeakIsExact
  <2> SUFFICES ASSUME ExchangeInv, BlocksInv, cur = Idle
               PROVE  heap = received + Cardinality(buffers)
    BY DEF LeakIsExact
  <2>1. received \in Nat /\ Cardinality(buffers) \in Nat
    BY FS_CardinalityType DEF ExchangeInv, TypeOK, BlocksInv
  <2> QED BY <2>1 DEF BlocksInv, Answering, Idle
<1> QED BY <1>1, BlocksAlways, PTL

\* lwIP never holds a block that send_response or its caller gave back.
THEOREM SendsAllocatedBlocks == Spec => []UnackedAreAllocated
<1>1. BlocksInv => UnackedAreAllocated
  BY DEF BlocksInv
<1> QED BY <1>1, BlocksAlways, PTL

\* No request gets two answers.
THEOREM AnswersOnce == Spec => []OneAnswerPerRequest
<1>1. ExchangeInv /\ BlocksInv => OneAnswerPerRequest
  <2> SUFFICES ASSUME ExchangeInv, BlocksInv PROVE OneAnswerPerRequest
    OBVIOUS
  <2>1. received \in Nat /\ Cardinality(buffers) \in Nat
    BY FS_CardinalityType DEF ExchangeInv, TypeOK, BlocksInv
  <2>2. CASE cur.pc # "respond"
    <3>1. IsFiniteSet(1..received) /\ Cardinality(1..received) = received
      BY <2>1, FS_Interval, SMTT(30)
    <3>2. Cardinality(buffers) <= received
      BY <3>1, FS_Subset DEF BlocksInv
    <3> QED BY <2>1, <2>2, <3>2 DEF OneAnswerPerRequest
  <2>3. CASE cur.pc = "respond"
    <3>1. buffers \subseteq 1..(received - 1) /\ received - 1 \in Nat
      BY <2>1, <2>3 DEF BlocksInv
    <3>2. /\ IsFiniteSet(1..(received - 1))
          /\ Cardinality(1..(received - 1)) = received - 1
      BY <3>1, FS_Interval
    <3>3. Cardinality(buffers) <= received - 1
      BY <3>1, <3>2, FS_Subset
    <3> QED BY <2>1, <2>3, <3>3 DEF OneAnswerPerRequest
  <2> QED BY <2>2, <2>3
<1> QED BY <1>1, BlocksAlways, PTL
----------------------------------------------------------------------------
(***************************************************************************)
(* The first genuine M3.  The flags are clear while nothing was tried; and *)
(* a genuine M3 that found them clear is in one of three stages, in which  *)
(* only a wrongly computed key can make it fail.                           *)
(***************************************************************************)
UntriedInv == ~tried => ~srp.clientM1 /\ ~srp.serverM1

KeyTlv(A) == tlv("PUBLIC_KEY", A)
ProofTlv(A) == tlv("PROOF", RightProof(srp.identity, A))

\* Neither value has been read, only the key, only the proof, or both.
NoneRead(A) ==
  /\ cur.rest \in {<<KeyTlv(A), ProofTlv(A)>>, <<ProofTlv(A), KeyTlv(A)>>}
  /\ ~srp.clientM1 /\ ~srp.serverM1 /\ ~cur.failed
KeyRead(A) ==
  /\ cur.rest = <<ProofTlv(A)>>
  /\ srp.serverM1 /\ ~cur.failed
  /\ srp.K = KeyOf(srp.identity, A) \/ wrong # {}
  /\ srp.M1 = ProofOf(srp.identity, A, srp.K)
ProofRead(A) ==
  /\ cur.rest = <<KeyTlv(A)>>
  /\ srp.clientM1 /\ ~cur.failed
  /\ srp.M1 = RightProof(srp.identity, A)
BothRead == cur.rest = NoRequest /\ (cur.failed => wrong # {})

M3Stage ==
  BothRead \/ \E A \in PublicKeys : NoneRead(A) \/ KeyRead(A) \/ ProofRead(A)

GenuineInv ==
  cur.fresh /\ Genuine(cur.request, srp.identity) =>
    /\ cur.pc = "tlv" /\ ~cur.halt => ~tried /\ cur.rest = cur.request
                                      /\ ~cur.failed
    /\ cur.pc = "m3" => M3Stage
    /\ cur.pc = "respond" /\ cur.answer = "ERROR" => wrong # {}

FirstInv == UntriedInv /\ GenuineInv

LEMMA GenuineParts ==
  ASSUME NEW r, NEW identity, Genuine(r, identity)
  PROVE  /\ r # NoRequest /\ Head(r) = tlv("STATE", "M3")
         /\ \E A \in PublicKeys :
              LET key == tlv("PUBLIC_KEY", A)
                  proof == tlv("PROOF", RightProof(identity, A))
              IN Tail(r) \in {<<key, proof>>, <<proof, key>>}
<1> DEFINE state == tlv("STATE", "M3")
           key(A) == tlv("PUBLIC_KEY", A)
           proof(A) == tlv("PROOF", RightProof(identity, A))
<1>1. PICK A \in PublicKeys :
        r \in {<<state, key(A), proof(A)>>, <<state, proof(A), key(A)>>}
  BY DEF Genuine
<1>2. ASSUME NEW a, NEW b, NEW c
      PROVE  /\ <<a, b, c>> # <<>> /\ Head(<<a, b, c>>) = a
             /\ Tail(<<a, b, c>>) = <<b, c>>
  OBVIOUS
<1> HIDE DEF state, key, proof
<1>3. CASE r = <<state, key(A), proof(A)>>
  <2>1. r # <<>> /\ Head(r) = state /\ Tail(r) = <<key(A), proof(A)>>
    BY <1>2, <1>3
  <2> QED BY <2>1 DEF NoRequest, state, key, proof
<1>4. CASE r = <<state, proof(A), key(A)>>
  <2>1. r # <<>> /\ Head(r) = state /\ Tail(r) = <<proof(A), key(A)>>
    BY <1>2, <1>4
  <2> QED BY <2>1 DEF NoRequest, state, key, proof
<1> QED BY <1>1, <1>3, <1>4

\* Sequences of one or two elements, taken apart.
LEMMA ShortSeqs ==
  /\ \A a, b : Head(<<a, b>>) = a /\ Tail(<<a, b>>) = <<b>>
  /\ \A a : Head(<<a>>) = a /\ Tail(<<a>>) = <<>>
  OBVIOUS

\* A key is no proof, and neither is a state; a right proof is not short.
LEMMA TlvsDiffer ==
  /\ \A a, b, v, w : tlv(a, v) = tlv(b, w) => a = b /\ v = w
  /\ \A a, v : tlv(a, v)[1] = a /\ tlv(a, v)[2] = v
  /\ \A i, A : RightProof(i, A) # Short
  /\ \A i, A, K, L : ProofOf(i, A, K) = ProofOf(i, A, L) => K = L
  BY DEF tlv, RightProof, ProofOf, Short

\* A step that ends a request, or finds the device down, leaves nothing.
LEMMA FirstIdle ==
  ASSUME cur' = Idle, UntriedInv' PROVE FirstInv'
  BY DEF FirstInv, GenuineInv, Idle

LEMMA DownFirst == ASSUME Down PROVE FirstInv'
<1>1. UntriedInv'
  BY DEF Down, UntriedInv, srp_init
<1> QED BY <1>1, FirstIdle DEF Down

\* The head of the rest decides which stage is left, and how.
LEMMA StageHead ==
  ASSUME M3Stage, cur.rest # NoRequest
  PROVE  \E A \in PublicKeys :
    \/ /\ NoneRead(A) /\ Head(cur.rest) = KeyTlv(A)
       /\ Tail(cur.rest) = <<ProofTlv(A)>>
    \/ /\ NoneRead(A) /\ Head(cur.rest) = ProofTlv(A)
       /\ Tail(cur.rest) = <<KeyTlv(A)>>
    \/ /\ KeyRead(A) /\ Head(cur.rest) = ProofTlv(A)
       /\ Tail(cur.rest) = NoRequest
    \/ /\ ProofRead(A) /\ Head(cur.rest) = KeyTlv(A)
       /\ Tail(cur.rest) = NoRequest
<1>1. PICK A \in PublicKeys : NoneRead(A) \/ KeyRead(A) \/ ProofRead(A)
  BY DEF M3Stage, BothRead
<1>2. CASE NoneRead(A)
  BY <1>2, ShortSeqs DEF NoneRead
<1>3. CASE KeyRead(A)
  BY <1>3, ShortSeqs DEF KeyRead, NoRequest
<1>4. CASE ProofRead(A)
  BY <1>4, ShortSeqs DEF ProofRead, NoRequest
<1> QED BY <1>1, <1>2, <1>3, <1>4

\* srp_setA accepts an A whose proof was not shown yet, and one whose proof
\* was the right one unless K was spoiled.
LEMMA StageKey ==
  ASSUME ExchangeInv, M3Stage, M3PublicKey
  PROVE  M3Stage'
<1>1. cur \in Handlers /\ srp \in SrpRecords /\ cur.rest # NoRequest
      /\ ~cur.failed /\ Tag = "PUBLIC_KEY"
  BY DEF ExchangeInv, TypeOK, M3PublicKey, M3Tlv
<1>2. PICK K \in Keys(Value) :
        /\ srp' = srp_setA(srp, Value, K)
        /\ wrong' = wrong \cup WrongProofs(Value, K)
        /\ cur' = [cur EXCEPT !.rest = Tail(@),
                              !.failed = ~setA_accepts(srp, Value, K),
                              !.keyed = Value]
  BY DEF M3PublicKey
<1>3. /\ cur'.rest = Tail(cur.rest)
      /\ cur'.failed <=> ~setA_accepts(srp, Value, K)
  BY <1>1, <1>2 DEF Handlers
<1>4. /\ srp'.K = K /\ srp'.serverM1 /\ srp'.identity = srp.identity
      /\ setA_accepts(srp, Value, K) =>
           srp'.M1 = ProofOf(srp.identity, Value, K)
  BY <1>1, <1>2 DEF srp_setA, SrpRecords, setA_accepts
<1>5. K = KeyOf(srp.identity, Value) \/ wrong' # {}
  BY <1>2 DEF WrongProofs
<1>6. PICK A \in PublicKeys :
        /\ Head(cur.rest) = KeyTlv(A)
        /\ \/ NoneRead(A) /\ Tail(cur.rest) = <<ProofTlv(A)>>
           \/ ProofRead(A) /\ Tail(cur.rest) = NoRequest
  BY <1>1, StageHead, TlvsDiffer DEF Tag, KeyTlv, ProofTlv
<1>7. Value = A
  BY <1>6, TlvsDiffer DEF Value, KeyTlv
<1>8. CASE NoneRead(A) /\ Tail(cur.rest) = <<ProofTlv(A)>>
  <2>1. ~cur'.failed
    BY <1>3, <1>8 DEF setA_accepts, NoneRead
  <2>2. KeyRead(A)'
    BY <1>3, <1>4, <1>5, <1>7, <1>8, <2>1 DEF KeyRead, ProofTlv
  <2> QED BY <2>2 DEF M3Stage
<1>9. CASE ProofRead(A) /\ Tail(cur.rest) = NoRequest
  <2>1. cur'.failed => K # KeyOf(srp.identity, A)
    BY <1>3, <1>7, <1>9 DEF setA_accepts, ProofRead, RightProof
  <2> QED BY <1>3, <1>4, <1>5, <1>7, <1>9, <2>1 DEF M3Stage, BothRead
<1> QED BY <1>6, <1>8, <1>9

\* The same for srp_checkM1 and a key that came first.
LEMMA StageProof ==
  ASSUME ExchangeInv, M3Stage, M3Proof
  PROVE  M3Stage'
<1>1. cur \in Handlers /\ srp \in SrpRecords /\ cur.rest # NoRequest
      /\ ~cur.failed /\ Tag = "PROOF"
  BY DEF ExchangeInv, TypeOK, M3Proof, M3Tlv
<1>2. /\ cur'.rest = Tail(cur.rest) /\ wrong' = wrong
      /\ cur'.failed <=> ~checkM1_accepts(srp, Value)
  BY <1>1 DEF M3Proof, Handlers
<1>3. /\ srp'.K = srp.K /\ srp'.clientM1 /\ srp'.identity = srp.identity
      /\ Value # Short /\ ~srp.serverM1 => srp'.M1 = Value
  BY <1>1 DEF M3Proof, srp_checkM1, SrpRecords
<1>4. PICK A \in PublicKeys :
        /\ Head(cur.rest) = ProofTlv(A)
        /\ \/ NoneRead(A) /\ Tail(cur.rest) = <<KeyTlv(A)>>
           \/ KeyRead(A) /\ Tail(cur.rest) = NoRequest
  BY <1>1, StageHead, TlvsDiffer DEF Tag, KeyTlv, ProofTlv
<1>5. Value = RightProof(srp.identity, A) /\ Value # Short
  BY <1>4, TlvsDiffer DEF Value, ProofTlv
<1>6. CASE NoneRead(A) /\ Tail(cur.rest) = <<KeyTlv(A)>>
  <2>1. ~cur'.failed
    BY <1>2, <1>5, <1>6 DEF checkM1_accepts, NoneRead
  <2>2. ProofRead(A)'
    BY <1>2, <1>3, <1>5, <1>6, <2>1 DEF ProofRead, NoneRead, KeyTlv
  <2> QED BY <2>2 DEF M3Stage
<1>7. CASE KeyRead(A) /\ Tail(cur.rest) = NoRequest
  <2>1. cur'.failed => srp.K # KeyOf(srp.identity, A)
    BY <1>2, <1>5, <1>7 DEF checkM1_accepts, KeyRead, RightProof
  <2> QED BY <1>2, <1>3, <1>7, <2>1 DEF M3Stage, BothRead, KeyRead
<1> QED BY <1>4, <1>6, <1>7

\* Nothing but a key or a proof is left in a genuine M3.
LEMMA StageTag ==
  ASSUME M3Stage, cur.rest # NoRequest PROVE Tag \in {"PUBLIC_KEY", "PROOF"}
  BY StageHead, TlvsDiffer DEF Tag, KeyTlv, ProofTlv

LEMMA FirstStep ==
  ASSUME ExchangeInv, FirstInv, [Next]_vars PROVE FirstInv'
<1> USE DEF FirstInv
<1>0. cur \in Handlers /\ srp \in SrpRecords
  BY DEF ExchangeInv, TypeOK
<1>a. cur.fresh /\ Genuine(cur.request, srp.identity) /\ cur.pc = "tlv" /\ More
        => ~tried /\ cur.rest = cur.request /\ ~cur.failed
           /\ Tag = "STATE" /\ Value = "M3"
  BY GenuineParts, TlvsDiffer DEF GenuineInv, More, Tag, Value
<1>1. CASE StartUp
  <2>1. cur' = Idle /\ UntriedInv'
    BY <1>1 DEF StartUp, ExchangeInv, DownInv, UntriedInv, srp_init
  <2> QED BY <2>1, FirstIdle
<1>2. CASE Reset
  BY <1>2, DownFirst DEF Reset
<1>3. CASE SkipTlv
  <2>1. cur'.fresh = cur.fresh /\ cur'.request = cur.request
        /\ ~(cur.fresh /\ Genuine(cur.request, srp.identity))
    BY <1>0, <1>3, <1>a DEF SkipTlv, Resumed, Handlers
  <2> QED BY <1>3, <2>1 DEF SkipTlv, GenuineInv, UntriedInv
<1>4. CASE HandleM1
  <2>1. CASE Down
    BY <2>1, DownFirst
  <2>2. CASE heap < HeapBlocks
    <3>1. /\ srp' = srp_start(srp)
          /\ cur' = [Halted EXCEPT !.pc = "respond", !.answer = "M2"]
      BY <1>4, <2>2 DEF HandleM1, malloc
    <3>2. cur'.fresh = cur.fresh /\ cur'.request = cur.request
          /\ cur'.pc = "respond" /\ cur'.answer = "M2"
      BY <1>0, <3>1 DEF Halted, Handlers
    <3>3. UntriedInv'
      BY <1>0, <3>1 DEF UntriedInv, srp_start, SrpRecords
    <3> QED BY <3>2, <3>3 DEF GenuineInv
  <2> QED BY <1>4, <2>1, <2>2 DEF HandleM1, malloc
<1>5. CASE EnterM3
  <2>1. /\ cur'.fresh = cur.fresh /\ cur'.request = cur.request
        /\ cur'.rest = Tail(cur.rest) /\ cur'.failed = cur.failed
        /\ cur'.pc = "m3" /\ srp' = srp /\ tried' = tried
    BY <1>0, <1>5 DEF EnterM3, Halted, Handlers
  <2>2. ASSUME cur.fresh, Genuine(cur.request, srp.identity) PROVE M3Stage'
    <3>1. ~tried /\ cur.rest = cur.request /\ ~cur.failed
      BY <1>5, <1>a, <2>2 DEF EnterM3, IsM3, StateTlv
    <3>2. PICK A \in PublicKeys :
            Tail(cur.rest) \in {<<KeyTlv(A), ProofTlv(A)>>,
                                <<ProofTlv(A), KeyTlv(A)>>}
      BY <2>2, <3>1, GenuineParts DEF KeyTlv, ProofTlv
    <3>3. NoneRead(A)'
      BY <2>1, <3>1, <3>2 DEF NoneRead, UntriedInv, KeyTlv, ProofTlv
    <3> QED BY <3>3 DEF M3Stage
  <2> QED BY <2>1, <2>2 DEF GenuineInv, UntriedInv
<1>6. CASE \E s \in States : IgnoreState(s)
  <2>1. cur'.fresh = cur.fresh /\ cur'.request = cur.request
        /\ ~(cur.fresh /\ Genuine(cur.request, srp.identity))
    BY <1>0, <1>6, <1>a DEF IgnoreState, StateTlv, Halted, Handlers
  <2> QED BY <1>6, <2>1 DEF IgnoreState, GenuineInv, UntriedInv
<1>7. CASE M3PublicKey
  <2>1. /\ cur'.fresh = cur.fresh /\ cur'.request = cur.request
        /\ cur.pc = "m3" /\ cur'.pc = "m3" /\ tried'
    BY <1>0, <1>7 DEF M3PublicKey, M3Tlv, Handlers
  <2>2. srp'.identity = srp.identity
    BY <1>0, <1>7 DEF M3PublicKey, srp_setA, SrpRecords
  <2> QED BY <1>7, <2>1, <2>2, StageKey DEF GenuineInv, UntriedInv
<1>8. CASE M3Proof
  <2>1. /\ cur'.fresh = cur.fresh /\ cur'.request = cur.request
        /\ cur.pc = "m3" /\ cur'.pc = "m3" /\ tried'
    BY <1>0, <1>8 DEF M3Proof, M3Tlv, Handlers
  <2>2. srp'.identity = srp.identity
    BY <1>0, <1>8 DEF M3Proof, srp_checkM1, SrpRecords
  <2> QED BY <1>8, <2>1, <2>2, StageProof DEF GenuineInv, UntriedInv
<1>9. CASE M3Skip
  <2>1. cur'.fresh = cur.fresh /\ cur'.request = cur.request
        /\ ~(cur.fresh /\ Genuine(cur.request, srp.identity))
    BY <1>0, <1>9, StageTag DEF M3Skip, Resumed, Handlers, GenuineInv
  <2> QED BY <1>9, <2>1 DEF M3Skip, GenuineInv, UntriedInv
<1>10. CASE EndM3
  <2>1. CASE Down
    BY <2>1, DownFirst
  <2>2. CASE heap < HeapBlocks
    <3>1. /\ cur' = [cur EXCEPT !.pc = "respond",
                          !.answer = IF cur.failed THEN "ERROR" ELSE "M4"]
          /\ cur.pc = "m3" /\ UNCHANGED <<srp, tried, wrong>>
      BY <1>10, <2>2 DEF EndM3, malloc
    <3>2. cur'.fresh = cur.fresh /\ cur'.request = cur.request
          /\ cur'.pc = "respond" /\ (cur'.answer = "ERROR" => cur.failed)
      BY <1>0, <3>1 DEF Handlers
    <3>3. M3Stage /\ cur.failed => wrong # {}
      BY DEF M3Stage, BothRead, NoneRead, KeyRead, ProofRead
    <3> QED BY <3>1, <3>2, <3>3 DEF GenuineInv, UntriedInv
  <2> QED BY <1>10, <2>1, <2>2 DEF EndM3, malloc
<1>11. CASE Respond
  <2>1. CASE Down
    BY <2>1, DownFirst
  <2>2. CASE heap # HeapBlocks
    <3>1. /\ cur' = [cur EXCEPT !.pc = "tlv"] /\ cur.pc = "respond"
          /\ UNCHANGED <<srp, tried>>
      BY <1>11, <2>2 DEF Respond
    <3>2. cur'.pc = "tlv" /\ cur'.halt
      BY <1>0, <3>1 DEF Handlers, ExchangeInv, HandlerInv
    <3> QED BY <3>1, <3>2 DEF GenuineInv, UntriedInv
  <2> QED BY <1>11, <2>1, <2>2 DEF Respond
<1>12. CASE Return
  <2>1. cur' = Idle /\ UntriedInv'
    BY <1>12 DEF Return, UntriedInv
  <2> QED BY <2>1, FirstIdle
<1>13. ASSUME NEW c \in Conns, Recv(c) PROVE FirstInv'
  <2>1. CASE Down
    BY <2>1, DownFirst
  <2>2. CASE heap < HeapBlocks
    <3>1. /\ cur' = [Idle EXCEPT !.pc = "tlv", !.conn = c, !.fresh = ~tried,
                                 !.request = inbox[c], !.rest = inbox[c]]
          /\ UNCHANGED <<srp, tried>>
      BY <1>13, <2>2 DEF Recv, malloc
    <3>2. /\ cur'.pc = "tlv" /\ cur'.rest = cur'.request /\ ~cur'.failed
          /\ cur'.fresh => ~tried
      BY <3>1 DEF Idle
    <3> QED BY <3>1, <3>2 DEF GenuineInv, UntriedInv
  <2> QED BY <1>13, <2>1, <2>2 DEF Recv, malloc
<1>14. CASE UNCHANGED <<cur, srp, tried, wrong>>
  BY <1>14 DEF GenuineInv, UntriedInv, M3Stage, BothRead, NoneRead, KeyRead,
               ProofRead, KeyTlv, ProofTlv
<1> QED
  BY <1>1, <1>2, <1>3, <1>4, <1>5, <1>6, <1>7, <1>8, <1>9, <1>10, <1>11,
     <1>12, <1>13, <1>14
     DEF Next, Handler, ServerClose, Network, Connect, Send, Hangup, Ack,
         Abort, vars

\* A genuine M3 that is the first since the M1 is refused only after the
\* big-number library failed, whatever earlier exchanges left in srp.
THEOREM FirstGenuineAccepted == Spec => []FirstGenuineM3Accepted
<1>1. Init => FirstInv
  BY DEF Init, FirstInv, UntriedInv, GenuineInv, Idle, srp_init
<1>2. ExchangeInv /\ FirstInv /\ [Next]_vars => FirstInv'
  BY FirstStep
<1>3. FirstInv => FirstGenuineM3Accepted
  BY DEF FirstInv, GenuineInv, FirstGenuineM3Accepted
<1> QED BY <1>1, <1>2, <1>3, ExchangeAlways, PTL DEF Spec
----------------------------------------------------------------------------
(***************************************************************************)
(* The answer that is due.  Until a STATE is obeyed, what has been read of *)
(* the request held none, and the rest is what follows it.                 *)
(***************************************************************************)
ReadSoFar == Len(cur.request) - Len(cur.rest)

Unasked ==
  /\ ReadSoFar \in 0..Len(cur.request)
  /\ \A n \in DOMAIN cur.rest : cur.rest[n] = cur.request[ReadSoFar + n]
  /\ \A m \in 1..ReadSoFar : cur.request[m][1] # "STATE"

DueInv ==
  /\ cur.pc = "tlv" /\ ~cur.halt => Unasked
  /\ cur.pc = "m3" => Asks(cur.request, "M3")
  /\ cur.pc = "respond" =>
       Asks(cur.request, IF cur.answer = "M2" THEN "M1" ELSE "M3")

\* What is left after the head is taken off a rest that holds no answer yet.
LEMMA UnaskedTail ==
  ASSUME cur.request \in Seq(Tlvs), cur.rest \in Seq(Tlvs),
         cur.rest # NoRequest, Unasked,
         cur'.request = cur.request, cur'.rest = Tail(cur.rest),
         Tag # "STATE"
  PROVE  Unasked'
<1>1. /\ Len(cur'.rest) = Len(cur.rest) - 1 /\ Len(cur.rest) \in Nat \ {0}
      /\ \A n \in DOMAIN cur'.rest :
           n + 1 \in DOMAIN cur.rest /\ cur'.rest[n] = cur.rest[n + 1]
      /\ Head(cur.rest) = cur.rest[1] /\ 1 \in DOMAIN cur.rest
      /\ Len(cur.request) \in Nat
  BY DEF NoRequest
<1>2. ReadSoFar' = ReadSoFar + 1 /\ ReadSoFar \in Nat
      /\ ReadSoFar + Len(cur.rest) = Len(cur.request)
  <2>1. ReadSoFar \in 0..Len(cur.request)
    BY DEF Unasked
  <2>2. ReadSoFar' = Len(cur.request) - (Len(cur.rest) - 1)
    BY <1>1 DEF ReadSoFar
  <2>3. ReadSoFar = Len(cur.request) - Len(cur.rest)
    BY DEF ReadSoFar
  <2> HIDE DEF ReadSoFar
  <2> QED BY <1>1, <2>1, <2>2, <2>3
<1>3. ReadSoFar' \in 0..Len(cur'.request)
  BY <1>1, <1>2
<1>4. ASSUME NEW n \in DOMAIN cur'.rest
      PROVE  cur'.rest[n] = cur'.request[ReadSoFar' + n]
  <2>1. cur'.rest[n] = cur.request[ReadSoFar + (n + 1)] /\ n \in Nat
    BY <1>1, <1>4 DEF Unasked
  <2>2. ReadSoFar + (n + 1) = ReadSoFar' + n
    BY <1>2, <2>1
  <2> QED BY <2>1, <2>2
<1>5. ASSUME NEW m \in 1..ReadSoFar' PROVE cur'.request[m][1] # "STATE"
  <2>1. CASE m \in 1..ReadSoFar
    BY <2>1 DEF Unasked
  <2>2. CASE m = ReadSoFar + 1
    <3>1. cur.rest[1] = cur.request[ReadSoFar + 1]
      BY <1>1 DEF Unasked
    <3> QED BY <1>1, <2>2, <3>1 DEF Tag
  <2> QED BY <1>2, <1>5, <2>1, <2>2
<1> QED BY <1>3, <1>4, <1>5 DEF Unasked

\* The STATE that is obeyed is the first one of its request.
LEMMA AskedHead ==
  ASSUME cur.request \in Seq(Tlvs), cur.rest \in Seq(Tlvs),
         cur.rest # NoRequest, Unasked, NEW s, Tag = "STATE", Value = s
  PROVE  Asks(cur.request, s)
<1>1. /\ Len(cur.rest) \in Nat \ {0} /\ Len(cur.request) \in Nat
      /\ Head(cur.rest) = cur.rest[1] /\ 1 \in DOMAIN cur.rest
      /\ Head(cur.rest) \in Tlvs
      /\ DOMAIN cur.request = 1..Len(cur.request)
  BY DEF NoRequest
<1>2. Head(cur.rest) = tlv("STATE", s)
  BY <1>1 DEF Tlvs, tlv, Tag, Value
<1>3. /\ ReadSoFar + 1 \in DOMAIN cur.request
      /\ cur.request[ReadSoFar + 1] = tlv("STATE", s)
      /\ (ReadSoFar + 1) - 1 = ReadSoFar
  <2>1. ReadSoFar \in 0..Len(cur.request)
        /\ cur.rest[1] = cur.request[ReadSoFar + 1]
    BY <1>1 DEF Unasked
  <2>2. ReadSoFar + Len(cur.rest) = Len(cur.request)
    BY <1>1, <2>1 DEF ReadSoFar
  <2> QED BY <1>1, <1>2, <2>1, <2>2
<1>4. \A m \in 1..((ReadSoFar + 1) - 1) : cur.request[m][1] # "STATE"
  BY <1>3 DEF Unasked
<1> QED BY <1>3, <1>4 DEF Asks

LEMMA DueStep ==
  ASSUME ExchangeInv, DueInv, [Next]_vars PROVE DueInv'
<1> USE DEF DueInv
<1>0. cur \in Handlers /\ cur.request \in Seq(Tlvs) /\ cur.rest \in Seq(Tlvs)
  <2>1. cur \in Handlers
    BY DEF ExchangeInv, TypeOK
  <2>2. cur.request \in Requests \cup {<<>>} /\ cur.rest \in Seq(Tlvs)
    BY <2>1 DEF Handlers, NoRequest
  <2>3. <<>> \in Seq(Tlvs) /\ Requests \subseteq Seq(Tlvs)
    BY RequestsAssumption
  <2> QED BY <2>1, <2>2, <2>3
<1>a. ASSUME cur' = Idle PROVE DueInv'
  BY <1>a DEF Idle
<1>b. ASSUME Down PROVE DueInv'
  BY <1>a, <1>b DEF Down
<1>1. CASE SkipTlv
  <2>1. /\ cur'.request = cur.request /\ cur'.rest = Tail(cur.rest)
        /\ cur'.pc = "tlv" /\ cur.pc = "tlv" /\ ~cur.halt
        /\ cur.rest # NoRequest /\ Tag # "STATE"
    BY <1>0, <1>1 DEF SkipTlv, More, Resumed, Handlers
  <2> QED BY <1>0, <2>1, UnaskedTail
<1>2. CASE HandleM1
  <2>1. CASE heap < HeapBlocks
    <3>1. /\ cur' = [Halted EXCEPT !.pc = "respond", !.answer = "M2"]
          /\ StateTlv("M1")
      BY <1>2, <2>1 DEF HandleM1, malloc
    <3>2. cur'.request = cur.request /\ cur'.pc = "respond"
          /\ cur'.answer = "M2"
      BY <1>0, <3>1 DEF Halted, Handlers
    <3>3. Asks(cur.request, "M1")
      BY <1>0, <3>1, AskedHead DEF StateTlv, More
    <3> QED BY <3>2, <3>3
  <2> QED BY <1>2, <1>b, <2>1 DEF HandleM1, malloc
<1>3. CASE EnterM3
  <2>1. cur'.request = cur.request /\ cur'.pc = "m3"
    BY <1>0, <1>3 DEF EnterM3, Halted, Handlers
  <2>2. Asks(cur.request, "M3")
    BY <1>0, <1>3, AskedHead DEF EnterM3, IsM3, StateTlv, More
  <2> QED BY <2>1, <2>2
<1>4. CASE \E s \in States : IgnoreState(s)
  <2>1. cur'.pc = "tlv" /\ cur'.halt
    BY <1>0, <1>4 DEF IgnoreState, StateTlv, Halted, Handlers
  <2> QED BY <2>1
<1>5. CASE M3PublicKey \/ M3Proof \/ M3Skip
  <2>1. cur'.request = cur.request /\ cur.pc = "m3" /\ cur'.pc = "m3"
    BY <1>0, <1>5 DEF M3PublicKey, M3Proof, M3Skip, M3Tlv, Resumed, Handlers
  <2> QED BY <2>1
<1>6. CASE EndM3
  <2>1. CASE heap < HeapBlocks
    <3>1. /\ cur' = [cur EXCEPT !.pc = "respond",
                          !.answer = IF cur.failed THEN "ERROR" ELSE "M4"]
          /\ cur.pc = "m3"
      BY <1>6, <2>1 DEF EndM3, malloc
    <3>2. cur'.request = cur.request /\ cur'.pc = "respond"
          /\ cur'.answer # "M2"
      BY <1>0, <3>1 DEF Handlers
    <3> QED BY <3>1, <3>2
  <2> QED BY <1>6, <1>b, <2>1 DEF EndM3, malloc
<1>7. CASE Respond
  <2>1. CASE heap # HeapBlocks
    <3>1. cur' = [cur EXCEPT !.pc = "tlv"] /\ cur.pc = "respond"
      BY <1>7, <2>1 DEF Respond
    <3>2. cur'.pc = "tlv" /\ cur'.halt
      BY <1>0, <3>1 DEF Handlers, ExchangeInv, HandlerInv
    <3> QED BY <3>2
  <2> QED BY <1>7, <1>b, <2>1 DEF Respond
<1>8. ASSUME NEW c \in Conns, Recv(c) PROVE DueInv'
  <2>1. CASE heap < HeapBlocks
    <3>1. /\ cur' = [Idle EXCEPT !.pc = "tlv", !.conn = c, !.fresh = ~tried,
                                 !.request = inbox[c], !.rest = inbox[c]]
          /\ inbox[c] \in Seq(Tlvs)
      BY <1>8, <2>1, RequestsAssumption
         DEF Recv, malloc, ExchangeInv, TypeOK, NoRequest
    <3>2. /\ cur'.pc = "tlv" /\ cur'.request = inbox[c]
          /\ cur'.rest = inbox[c]
      BY <3>1 DEF Idle
    <3>3. Len(inbox[c]) \in Nat /\ DOMAIN inbox[c] = 1..Len(inbox[c])
      BY <3>1
    <3>4. ReadSoFar' = 0 /\ 0 \in 0..Len(inbox[c])
      BY <3>2, <3>3 DEF ReadSoFar
    <3>5. Unasked'
      BY <3>2, <3>3, <3>4 DEF Unasked
    <3> QED BY <3>2, <3>5
  <2> QED BY <1>8, <1>b, <2>1 DEF Recv, malloc
<1>9. CASE UNCHANGED cur
  BY <1>9 DEF Unasked, ReadSoFar
<1> QED
  BY <1>a, <1>b, <1>1, <1>2, <1>3, <1>4, <1>5, <1>6, <1>7, <1>8, <1>9
     DEF Next, Handler, StartUp, Reset, Return, ServerClose, Network, Connect,
         Send, Hangup, Ack, Abort, vars

\* Only send_response answers, and only on the connection it was given.
LEMMA RespondsDue ==
  ASSUME ExchangeInv, DueInv, [Next]_vars, NEW c \in Conns,
         reply'[c] # reply[c], reply'[c] \in Answers
  PROVE  /\ cur.conn = c
         /\ IF reply'[c] = "M2" THEN Asks(cur.request, "M1")
                                ELSE Asks(cur.request, "M3")
<1>1. reply \in [Conns -> Answers \cup {"none", "lost"}]
  BY DEF ExchangeInv, TypeOK
<1>2. ~Down
  BY DEF Down, Answers
<1>3. ASSUME NEW d \in Conns, Connect(d) \/ Send(d) PROVE FALSE
  BY <1>1, <1>3 DEF Connect, Send, Answers
<1>4. CASE Respond
  <2>1. /\ cur.pc = "respond"
        /\ \E written \in BOOLEAN :
             reply' = [reply EXCEPT ![cur.conn] =
                         IF written THEN cur.answer ELSE "lost"]
    BY <1>2, <1>4 DEF Respond
  <2>2. cur.conn = c /\ reply'[c] = cur.answer
    BY <1>1, <2>1 DEF Answers
  <2> QED BY <2>1, <2>2 DEF DueInv
<1> QED
  BY <1>2, <1>3, <1>4
     DEF Next, Handler, StartUp, Reset, SkipTlv, HandleM1, EnterM3,
         IgnoreState, M3PublicKey, M3Proof, M3Skip, EndM3, Return, Recv,
         malloc, ServerClose, Network, Hangup, Ack, Abort, vars

\* An answer goes to the connection whose request is handled, and is the one
\* due to the first STATE of that request.
THEOREM AnswersTheRequest == Spec => AnswersItsRequest
<1>1. Init => DueInv
  BY DEF Init, DueInv, Idle
<1>2. ExchangeInv /\ DueInv /\ [Next]_vars => DueInv'
  BY DueStep
<1>3. ExchangeInv /\ DueInv /\ [Next]_vars =>
        [\A c \in Conns : reply'[c] # reply[c] /\ reply'[c] \in Answers =>
           /\ cur.conn = c
           /\ IF reply'[c] = "M2" THEN Asks(cur.request, "M1")
                                  ELSE Asks(cur.request, "M3")]_vars
  BY RespondsDue
<1> QED BY <1>1, <1>2, <1>3, ExchangeAlways, PTL DEF Spec, AnswersItsRequest
=============================================================================
